----------------------------- MODULE TurnGraph -----------------------------
(***************************************************************************)
(* Consecutive turns of one user through the LangGraph graph of            *)
(* app/graph: security, router, then rag, tool, supervisor, chitchat or    *)
(* handoff, and respond.  The graph state survives from turn to turn       *)
(* through the checkpointer, so fields of one turn meet the next.  Around  *)
(* it: the order query with its two caches (capabilities/order.py,         *)
(* tool_cache.py), the access rule for orders (security/order_access.py)   *)
(* and the user's long-term profile (memory.py).                           *)
(*                                                                         *)
(* The order database is outside the program: orders change hands while a  *)
(* conversation goes on.  Time is in minutes, the unit stale answers state *)
(* their age in.                                                           *)
(***************************************************************************)
EXTENDS Routing

CONSTANTS Texts,        \* the sentences a user may send
          LlmAnswers,   \* the decisions the intent model may return
          OrderTtl,     \* tool_cache_order_ttl_seconds, in whole minutes
          Thresholds,   \* tool_escalation_transient_threshold
          MaxTurns, MaxTime

ASSUME TextsAssumption == Texts \subseteq Sentences /\ Texts # {}
ASSUME LlmAssumption == LlmAnswers \subseteq Decisions
ASSUME BoundsAssumption == /\ OrderTtl \in Nat
                           /\ Thresholds \subseteq Nat \ {0}
                           /\ MaxTurns \in Nat
                           /\ MaxTime \in Nat

VARIABLES now,        \* time.time(), in minutes
          login,      \* is_persistent_user(user_id)
          threshold,  \* the configured escalation threshold
          owned,      \* orders of the tenant whose Order.user_id is the user
          everOwned,  \* history variable: every order that ever was in owned
          turn,       \* number of the turn
          pc,         \* graph node about to run
          text,       \* query
          blocked,
          route,      \* intent, confidence, order_no, course_query, clarify
          result,     \* answer, and the order report shown in it
          slots,      \* SessionSlots part of the state
          snap,       \* last_order_structured with its _cached_at
          mention,    \* order number of the newest user message with one
          profile,    \* UserMemory of the user
          cache       \* Redis tool cache: order -> time it was stored

identity == <<login, threshold>>
session == <<slots, snap, mention>>
vars == <<now, login, threshold, owned, everOwned, turn, pc, text, blocked,
          route, result, slots, snap, mention, profile, cache>>

\* the route fields of the state; before the router they are empty
Routes == [intent : Intents \cup {None}, confidence : 0..100,
           order_no : Numbers, course_query : Searches, clarify : BOOLEAN]

Nodes == {"rag", "tool", "supervisor", "chitchat", "handoff"}
Answers == {None, "blocked", "clarify", "report", "busy", "error", "course",
            "partial", "chitchat", "handoff", "react", "unavailable"}

\* A report as shown: the order, when its data was read from the database
\* (fetched), when it was shown (at), in which turn, and the age its text
\* states (None when it is presented as current).
Reports == [order : Orders, fetched : Nat, at : Nat, turn : Nat,
            stated : Nat \cup {None}]
Snapshots == [order : Orders, fetched : Nat, cached_at : Nat]

NoRoute == Decision(None, 0, None, None, FALSE)
NoResult == [answer |-> None, report |-> None]
Answer(a) == [answer |-> a, report |-> None]
Answered(a, r) == [answer |-> a, report |-> r]
\* a node that writes the answer and no report
Say(a) == [result EXCEPT !.answer = a]

Init == /\ now = 0
        /\ login \in BOOLEAN
        /\ threshold \in Thresholds
        /\ owned \in SUBSET Orders
        /\ ~login => owned = {}
        /\ everOwned = owned
        /\ turn = 0
        /\ pc = "idle"
        /\ text = CHOOSE t \in Texts : TRUE
        /\ blocked = FALSE
        /\ route = NoRoute
        /\ result = NoResult
        /\ slots = EmptySlots
        /\ snap = None
        /\ mention = None
        /\ profile = EmptySlots
        /\ cache = [o \in Orders |-> None]

-----------------------------------------------------------------------------
(* Orders.                                                                 *)

\* _decide_access for an order of the tenant: a logged-in user sees only
\* what is his, an anonymous one what he has the number of.
can_access_order(o) == login => o \in owned

\* Fault for the runs: the cache is read without asking who may see it.
Bug_get_cached_order(o) ==
  IF snap # None /\ snap.order = o THEN <<snap.fetched, snap.cached_at>>
  ELSE IF cache[o] # None /\ now <= cache[o] + OrderTtl
    THEN <<cache[o], cache[o]>>
  ELSE None

\* get_cached_order: the session's own snapshot first, then Redis.  The
\* result is <<fetched, cached_at>>, or None.
get_cached_order(o) ==
  IF ~can_access_order(o) THEN None
  ELSE IF snap # None /\ snap.order = o THEN <<snap.fetched, snap.cached_at>>
  ELSE IF cache[o] # None /\ now <= cache[o] + OrderTtl
    THEN <<cache[o], cache[o]>>
  ELSE None

Report(o, fetched, stated) ==
  [order |-> o, fetched |-> fetched, at |-> now, turn |-> turn,
   stated |-> stated]

\* stale_prefix: whole minutes, at least one
stale_minutes(age) == IF age < 1 THEN 1 ELSE age

\* Fault for the runs: an answer from a cache is given as a current one.
Bug_query_order(o, db) ==
  LET hit == get_cached_order(o) IN
  IF db = "ok" /\ can_access_order(o)
    THEN Answered("report", Report(o, now, None))
  ELSE IF db # "ok" /\ hit # None
    THEN Answered("report", Report(o, hit[1], None))
  ELSE Answer("error")

\* ToolFailureTracker: a node makes one query of each tool, so the count of
\* consecutive transient failures is 1 when it is compared.
Escalates == threshold <= 1

\* query_order: db is what the order pool does with the job, "ok", "busy"
\* or "timeout".  A transient failure answers from a cache before it counts
\* towards the escalation.
query_order(o, db) ==
  IF db = "ok"
    THEN IF can_access_order(o) THEN Answered("report", Report(o, now, None))
                                ELSE Answer("error")
    ELSE LET hit == get_cached_order(o) IN
         IF hit # None
           THEN Answered("report",
                  Report(o, hit[1], stale_minutes(now - hit[2])))
         ELSE IF Escalates THEN Answer("handoff")
         ELSE Answer(IF db = "busy" THEN "busy" ELSE "error")

\* _persist_success_cache: only what was just read from the database
put_cached_order(r) ==
  IF r.report # None /\ r.report.stated = None
    THEN [cache EXCEPT ![r.report.order] = now] ELSE cache

\* session_updates_for_order: any cacheable report, stamped with the time
session_updates_for_order(r) ==
  IF r.report # None
    THEN [order |-> r.report.order, fetched |-> r.report.fetched,
          cached_at |-> now]
    ELSE snap

\* resolve_query_order_no, on a number taken from the sentence or else from
\* the route; bound is the number the session is bound to.
resolve_query_order_no(number, bound) ==
  IF number = None \/ (~login /\ text.no # number /\ bound # number)
    THEN None ELSE number

-----------------------------------------------------------------------------
(* The user's profile.                                                     *)

\* Fault for the runs: the number is remembered whoever owns the order.
Bug_persist_from_state(intent, order_no, course_query, s) ==
  IF ~login THEN profile
  ELSE [profile EXCEPT !.last_intent = intent,
                       !.last_order_no = Or(order_no, @)]

\* persist_from_state and save_user_memory, on the state after the node's
\* updates.  The profile is never written for anonymous users; a number the
\* user may not access is not written.
persist_from_state(intent, order_no, course_query, s) ==
  LET o == Or(order_no, s.last_order_no)
      kept == IF o # None /\ can_access_order(o) THEN o ELSE None
  IN IF ~login THEN profile
     ELSE [last_intent |-> intent,
           last_order_no |-> Or(kept, profile.last_order_no),
           last_course_query |->
             IF course_query # None \/ s.last_course_query # None
               THEN "phrase" ELSE profile.last_course_query,
           last_course_name |-> Or(s.last_course_name,
                                   profile.last_course_name),
           handoff_pending |-> IF intent = "handoff" THEN s.handoff_pending
                               ELSE profile.handoff_pending]

\* _hydrate_slots: the session's slots, filled up from the profile; a
\* number that is not the logged-in user's is dropped.
_hydrate_slots ==
  LET o == Or(slots.last_order_no, profile.last_order_no)
  IN [last_intent |-> Or(slots.last_intent, profile.last_intent),
      last_order_no |-> IF o # None /\ can_access_order(o) THEN o ELSE None,
      last_course_query |-> Or(slots.last_course_query,
                               profile.last_course_query),
      last_course_name |-> Or(slots.last_course_name,
                              profile.last_course_name),
      handoff_pending |-> slots.handoff_pending \/ profile.handoff_pending]

-----------------------------------------------------------------------------
(* The nodes.                                                              *)

\* The user opens another session: a new thread, with neither checkpoint
\* nor archive.
NewSession ==
  /\ pc = "idle"
  /\ slots # EmptySlots \/ snap # None \/ mention # None
  /\ slots' = EmptySlots /\ snap' = None /\ mention' = None
  /\ route' = NoRoute /\ result' = NoResult /\ blocked' = FALSE
  /\ UNCHANGED <<now, identity, owned, everOwned, turn, pc, text, profile,
                 cache>>

\* Fault for the runs: the result fields are not part of the reset.
Bug_reset_turn_fields == <<NoRoute, [result EXCEPT !.answer = None]>>

\* reset_turn_fields: what the checkpoint brought back of the last turn is
\* cleared, route and result
reset_turn_fields == <<NoRoute, NoResult>>

security_node(t) ==
  /\ pc = "idle" /\ turn < MaxTurns
  /\ turn' = turn + 1
  /\ text' = t
  /\ pc' = "router"
  /\ blocked' = ~t.allowed
  /\ IF t.allowed
       THEN /\ route' = reset_turn_fields[1]
            /\ result' = reset_turn_fields[2]
            /\ mention' = Or(t.no, mention)
       ELSE /\ route' = [reset_turn_fields[1] EXCEPT !.intent = "chitchat"]
            /\ result' = [reset_turn_fields[2] EXCEPT !.answer = "blocked"]
            /\ UNCHANGED mention
  /\ UNCHANGED <<now, identity, owned, everOwned, slots, snap, profile, cache>>

router_node(llm) ==
  /\ pc = "router"
  /\ IF blocked
       THEN /\ pc' = "respond"
            /\ UNCHANGED <<route, slots>>
       ELSE /\ slots' = _hydrate_slots
            /\ route' = recognize_intent(text, _hydrate_slots, mention, llm)
            /\ pc' = next_after_router(route')
  /\ UNCHANGED <<now, identity, owned, everOwned, turn, text, blocked, result,
                 snap, mention, profile, cache>>

\* The number tool_node queries, or None
ToolOrder == resolve_query_order_no(Or(text.no, route.order_no),
                                    slots.last_order_no)

\* A model, database or store call raises in a node: the turn ends there,
\* and the checkpoint keeps what the earlier nodes wrote.  An order that the
\* node had read by then is in Redis.
Abort ==
  /\ pc \in {"router", "rag", "tool", "supervisor", "handoff", "respond"}
  /\ pc = "router" => ~blocked
  /\ pc' = "idle"
  /\ \/ UNCHANGED cache
     \/ \E o \in Orders :
          /\ pc = "supervisor" \/ (pc = "tool" /\ o = ToolOrder)
          /\ can_access_order(o)
          /\ cache' = [cache EXCEPT ![o] = now]
  /\ UNCHANGED <<now, identity, owned, everOwned, turn, text, blocked, route,
                 result, session, profile>>

\* decide_rag_upgrade hands a sentence with an order signal to the
\* supervisor; else the course is searched, and named when it is found.
\* (The router lets no such sentence through, see SignalGuard: the first
\* branch is a second line of defence.)
rag_node(found) ==
  /\ pc = "rag"
  /\ IF query_has_order_signal(text)
       THEN /\ pc' = "supervisor"
            /\ route' = Decision("mixed", route.confidence,
                                 Or(route.order_no, text.no), "phrase", FALSE)
            /\ UNCHANGED <<result, slots, profile>>
       ELSE /\ pc' = "respond"
            /\ result' = Answer("course")
            /\ slots' = slot_updates_after_turn(slots, "course_consult", None,
                          "phrase", IF found THEN "name" ELSE "not found")
            /\ profile' = persist_from_state(route.intent, route.order_no,
                                             route.course_query, slots')
            /\ UNCHANGED route
  /\ UNCHANGED <<now, identity, owned, everOwned, turn, text, blocked, snap,
                 mention, cache>>

_handoff_state ==
  /\ result' = Say("handoff")
  /\ slots' = slot_updates_after_turn(slots, "handoff", None, None, None)
  /\ profile' = persist_from_state("handoff", route.order_no,
                                   route.course_query, slots')
  /\ route' = [route EXCEPT !.intent = "handoff"]

tool_node(db) ==
  LET n == ToolOrder
      r == IF n = None THEN Answer("error") ELSE query_order(n, db)
  IN /\ pc = "tool"
     /\ pc' = "respond"
     /\ cache' = put_cached_order(r)
     /\ CASE r.answer = "handoff" ->
               _handoff_state /\ UNCHANGED snap
          [] r.answer = "error" ->
               /\ result' = Say("error")
               /\ route' = [route EXCEPT !.intent = "order"]
               /\ UNCHANGED <<slots, snap, profile>>
          [] OTHER ->
               /\ result' = r
               /\ route' = [route EXCEPT !.order_no = n]
               /\ snap' = session_updates_for_order(r)
               /\ slots' = slot_updates_after_turn(slots, "order", n,
                                                   None, None)
               /\ profile' = persist_from_state(route.intent, n,
                                                route.course_query, slots')
     /\ UNCHANGED <<now, identity, owned, everOwned, turn, text, blocked,
                    mention>>

\* What the supervisor is given of the order and the course
SupervisorOrder == Or(route.order_no, slots.last_order_no)
SupervisorCourse == Or(route.course_query, slots.last_course_query)
SupervisorPlan(usable) ==
  plan_supervisor(text, route, SupervisorOrder, SupervisorCourse, slots,
                  usable)

\* Fault for the runs: a clarification binds the session like an answer.
Bug_supervisor_ask ==
  /\ pc = "supervisor" /\ route.clarify
  /\ pc' = "respond"
  /\ result' = Say("clarify")
  /\ slots' = slot_updates_after_turn(slots, "ambiguous", SupervisorOrder,
                                      SupervisorCourse, None)
  /\ UNCHANGED <<now, identity, owned, everOwned, turn, text, blocked, route,
                 snap, mention, profile, cache>>

\* The clarification path writes neither slots nor profile.
supervisor_ask ==
  /\ pc = "supervisor"
  /\ SupervisorPlan(FALSE).action = "ask_user"
  /\ pc' = "respond"
  /\ result' = Say("clarify")
  /\ route' = [route EXCEPT !.intent = "ambiguous"]
  /\ UNCHANGED <<now, identity, owned, everOwned, turn, text, blocked,
                 session, profile, cache>>

\* The end of supervisor_node for an answered turn: course is the one the
\* turn ended up with.  An order step that failed is a paragraph of the
\* answer ("partial").
SupervisorDone(intent, course, r) ==
  LET o == SupervisorOrder
      bound == IF o # None /\ can_access_order(o) THEN o ELSE None
  IN /\ result' = IF r.report # None THEN r
                  ELSE Say(IF r.answer = "error" THEN "partial" ELSE r.answer)
     /\ route' = [route EXCEPT !.intent = intent]
     /\ slots' = slot_updates_after_turn(slots, intent, bound, course, None)
     /\ profile' = persist_from_state(intent, route.order_no,
                                      route.course_query, slots')

\* The course step is taken: its course is bound, or it is the product of
\* the order just found (and that is a course, else the step is skipped).
CourseSearched(p, r, search) ==
  \/ p.course = "bound"
  \/ /\ p.course = "from_order_product"
     /\ r.report # None
     /\ search # "skipped"

\* retrieve_course raises: the retrieval failed and no course is cached
CourseRaised(p, r, search) == CourseSearched(p, r, search) /\ search = "fails"

\* _execute_plan: the order step and the course step, at the same time when
\* the course is known, else the course after the order that names it.
\* A course step that raises escalates at a threshold of 1; otherwise it ends
\* the turn, whatever the order step found (which is in Redis by then).
supervisor_execute(usable, db, search) ==
  LET p == SupervisorPlan(usable)
      n == resolve_query_order_no(Or(text.no, SupervisorOrder),
                                  SupervisorOrder)
      r == IF ~p.order THEN Answer("course")
           ELSE IF n = None THEN Answer("error")
           ELSE query_order(n, db)
      raised == CourseRaised(p, r, search)
  IN /\ pc = "supervisor"
     /\ p.action = "execute"
     /\ cache' = put_cached_order(r)
     /\ CASE raised /\ ~Escalates ->
               pc' = "idle" /\ UNCHANGED <<route, result, slots, snap, profile>>
          [] ~raised /\ r.answer # "handoff" ->
               /\ pc' = "respond"
               /\ SupervisorDone(p.final_intent,
                                 IF CourseSearched(p, r, search)
                                   THEN "phrase" ELSE SupervisorCourse, r)
               /\ snap' = session_updates_for_order(r)
          [] OTHER -> pc' = "respond" /\ _handoff_state /\ UNCHANGED snap
     /\ UNCHANGED <<now, identity, owned, everOwned, turn, text, blocked,
                    mention>>

\* tool_order_query: outside the pool, and the number must be explicit
ReactQuery(o) == IF o # None /\ can_access_order(o)
                   THEN Answered("react", Report(o, now, None))
                   ELSE Answer("react")

\* ReACT: the model queries at most one order it chose; the report goes to
\* Redis, not to the session snapshot.  Then it answers, or it runs into its
\* call limit.
supervisor_react(usable, o, limit) ==
  LET p == SupervisorPlan(usable)
      r == ReactQuery(o)
  IN /\ pc = "supervisor"
     /\ p.action = "react"
     /\ pc' = "respond"
     /\ cache' = put_cached_order(r)
     /\ IF limit THEN _handoff_state
                 ELSE SupervisorDone(p.final_intent, SupervisorCourse, r)
     /\ UNCHANGED <<now, identity, owned, everOwned, turn, text, blocked,
                    snap, mention>>

chitchat_node ==
  /\ pc = "chitchat"
  /\ pc' = "respond"
  /\ result' = Say("chitchat")
  /\ UNCHANGED <<now, identity, owned, everOwned, turn, text, blocked, route,
                 session, profile, cache>>

handoff_node ==
  /\ pc = "handoff"
  /\ pc' = "respond"
  /\ _handoff_state
  /\ UNCHANGED <<now, identity, owned, everOwned, turn, text, blocked, snap,
                 mention, cache>>

\* The turn is over; an empty answer becomes the "unavailable" text.
respond_node ==
  /\ pc = "respond"
  /\ pc' = "idle"
  /\ result' = Say(Or(result.answer, "unavailable"))
  /\ UNCHANGED <<now, identity, owned, everOwned, turn, text, blocked, route,
                 session, profile, cache>>

-----------------------------------------------------------------------------
(* The world.                                                              *)

Tick == /\ now < MaxTime
        /\ now' = now + 1
        /\ UNCHANGED <<identity, owned, everOwned, turn, pc, text, blocked,
                       route, result, session, profile, cache>>

\* An order of the tenant is transferred to or from the user; orders belong
\* to accounts, never to an anonymous user.
Transfer(o) ==
  /\ login
  /\ owned' = IF o \in owned THEN owned \ {o} ELSE owned \cup {o}
  /\ everOwned' = everOwned \cup owned'
  /\ UNCHANGED <<now, identity, turn, pc, text, blocked, route, result,
                 session, profile, cache>>

Next ==
  \/ NewSession
  \/ \E t \in Texts : security_node(t)
  \/ \E llm \in LlmAnswers \cup {None} : router_node(llm)
  \/ \E found \in BOOLEAN : rag_node(found)
  \/ \E db \in {"ok", "busy", "timeout"} : tool_node(db)
  \/ supervisor_ask
  \/ \E usable \in BOOLEAN :
       \/ \E db \in {"ok", "busy", "timeout"},
             search \in {"ok", "fails", "skipped"} :
            supervisor_execute(usable, db, search)
       \/ \E o \in Numbers, limit \in BOOLEAN :
            supervisor_react(usable, o, limit)
  \/ chitchat_node
  \/ handoff_node
  \/ respond_node
  \/ Abort
  \/ Tick
  \/ \E o \in Orders : Transfer(o)

Spec == Init /\ [][Next]_vars

-----------------------------------------------------------------------------
(* Properties.                                                             *)

ResultType == [answer : Answers, report : Reports \cup {None}]

\* The fields have the types the nodes rely on.
TypeOK ==
  /\ now \in Nat /\ turn \in Nat
  /\ login \in BOOLEAN /\ blocked \in BOOLEAN
  /\ threshold \in Thresholds
  /\ owned \subseteq Orders /\ everOwned \subseteq Orders
  /\ pc \in Nodes \cup {"idle", "router", "respond"}
  /\ text \in Texts
  /\ route \in Routes
  /\ result \in ResultType
  /\ slots \in Slots /\ profile \in Slots
  /\ snap \in Snapshots \cup {None}
  /\ mention \in Numbers
  /\ cache \in [Orders -> Nat \cup {None}]

\* A sentence that carries an order signal is never answered by course
\* retrieval or as chitchat, whatever the model, the slots and the profile
\* said (recognize_intent's promise: such a request must not stay in pure RAG
\* or chitchat).
SignalGuard ==
  query_has_order_signal(text) => pc \notin {"rag", "chitchat"}

\* The order tool never runs without an order number: an order intent that
\* neither the sentence, the slots, the profile nor the history can complete
\* ends in a clarification.
ToolHasNumber ==
  pc = "tool" => route.order_no # None

\* A report in the response was made in this turn: nothing the checkpoint
\* brought back of an earlier turn, also of one that was aborted, is sent
\* again.
ReportsOfThisTurn ==
  result.report # None => result.report.turn = turn

\* A report is shown only of an order the user may access at that moment,
\* from the database, from the session snapshot or from Redis, however long
\* ago it was cached and whoever owns the order since.
ReportsAccessible ==
  [][ /\ result'.report # None
      /\ result'.report # result.report
      => can_access_order(result'.report.order) ]_vars

\* Data that was not read in this very step is marked as old, and is never
\* made out to be older than it is.
OldDataMarked ==
  result.report # None =>
    LET r == result.report
        age == r.at - r.fetched
    IN /\ r.stated = None => age = 0
       /\ r.stated # None => r.stated <= stale_minutes(age)

\* The profile of a logged-in user names only orders that are or were his,
\* although the route, the session slots and the history may hold numbers of
\* orders that never were; and there is no profile of an anonymous user.
ProfileOwned ==
  /\ profile.last_order_no \in everOwned \cup {None}
  /\ ~login => profile = EmptySlots

\* Clarifications, chitchat, errors and blocked input leave the topic of the
\* conversation alone: the slots, the snapshot and the profile change only
\* in a step that answers, hands off, hydrates or opens a session.
TopicKept ==
  [][ /\ pc' = "respond"
      /\ result'.answer \in {"clarify", "chitchat", "error", "blocked"}
      => UNCHANGED <<slots, snap, profile>> ]_vars

\* Told he is being transferred, the user's session says so, and so does his
\* profile, where the next session finds it.
HandoffRecorded ==
  pc = "respond" /\ result.answer = "handoff" =>
    /\ slots.handoff_pending /\ slots.last_intent = "handoff"
    /\ login => profile.handoff_pending /\ profile.last_intent = "handoff"

=============================================================================
