-------------------------- MODULE TurnGraphProofs --------------------------
(***************************************************************************)
(* Proofs about TurnGraph, for every set of orders, sentences and model    *)
(* answers.  The lemmas on routing come first; they hold of every sentence *)
(* and every decision, not only of those a conversation reaches.           *)
(***************************************************************************)
EXTENDS TurnGraph, TLAPS

-----------------------------------------------------------------------------
(* Routing.                                                                *)

\* A decision that leaves the policy is a decision.
LEMMA FinalizeType ==
  ASSUME NEW t \in Sentences, NEW d \in Decisions
  PROVE  finalize(t, d) \in Decisions
<1>1. apply_order_signal(t, d) \in Decisions
  <2> DEFINE no == Or(d.order_no, t.no)
             cq == Or(d.course_query, "query")
  <2>1. no \in Numbers
    BY DEF Or, Decisions, Sentences
  <2>2. cq \in Searches
    BY DEF Or, Decisions, Searches
  <2>3. /\ [d EXCEPT !.order_no = no] \in Decisions
        /\ Decision("mixed", 65, no, cq, FALSE) \in Decisions
        /\ Decision("order", 90, no, d.course_query, FALSE) \in Decisions
    <3> HIDE DEF no, cq
    <3> QED BY <2>1, <2>2 DEF Decision, Decisions, Intents
  <2> QED BY <2>3 DEF apply_order_signal
<1>2. \A e \in Decisions : apply_low_confidence(e) \in Decisions
  BY DEF apply_low_confidence, Decision, Decisions, Intents
<1>3. \A e \in Decisions : downgrade_missing_order(e) \in Decisions
  BY DEF downgrade_missing_order, Decision, Decisions, Intents, Numbers
<1> QED BY <1>1, <1>2, <1>3 DEF finalize

\* With an order signal in the sentence, neither course consulting nor
\* chitchat leaves the policy (RoutingPolicy.finalize).
LEMMA FinalizeSignal ==
  ASSUME NEW t \in Sentences, NEW d \in Decisions,
         query_has_order_signal(t)
  PROVE  finalize(t, d).intent \notin {"course_consult", "chitchat"}
<1>1. apply_order_signal(t, d).intent \notin {"course_consult", "chitchat"}
  BY DEF apply_order_signal, Decision, Decisions, Intents, Or
<1>2. \A e : e.intent \notin {"course_consult", "chitchat"} =>
               apply_low_confidence(e) = e
  BY DEF apply_low_confidence
<1>3. \A e : e.intent \notin {"course_consult", "chitchat"} =>
               downgrade_missing_order(e).intent
                 \notin {"course_consult", "chitchat"}
  BY DEF downgrade_missing_order, Decision
<1> QED BY <1>1, <1>2, <1>3 DEF finalize

\* An order intent leaves the policy only with a number.
LEMMA FinalizeOrder ==
  ASSUME NEW t, NEW d
  PROVE  finalize(t, d).intent = "order" => finalize(t, d).order_no # None
BY DEF finalize, downgrade_missing_order, Decision

LEMMA KeywordType ==
  ASSUME NEW t \in Sentences
  PROVE  _recognize_by_keyword(t) \in Decisions
BY DEF _recognize_by_keyword, Decision, Decisions, Sentences, Numbers,
       Searches, Intents

LEMMA SlotsType ==
  ASSUME NEW t \in Sentences, NEW d \in Decisions, NEW s \in Slots
  PROVE  apply_session_slots(t, d, s) \in Decisions
<1> DEFINE resumed == /\ d.intent \in {"chitchat", "ambiguous"}
                      /\ t.followup
                      /\ s.last_intent \in BusinessIntents
           intent == IF resumed THEN s.last_intent ELSE d.intent
           conf == IF resumed /\ d.confidence < 85 THEN 85 ELSE d.confidence
           no == IF intent \in {"order", "mixed"}
                   THEN Or(d.order_no, s.last_order_no) ELSE d.order_no
           cq == IF intent \in {"course_consult", "mixed"}
                      /\ d.course_query = None
                   THEN IF s.last_course_name # None
                             \/ s.last_course_query # None
                          THEN "phrase" ELSE "query"
                   ELSE d.course_query
           ask == d.clarify /\ ~resumed
<1>1. intent \in Intents
  BY DEF Decisions, BusinessIntents, Intents
<1>2. conf \in 1..100
  BY DEF Decisions
<1>3. no \in Numbers
  BY DEF Decisions, Slots, Or
<1>4. cq \in Searches
  BY DEF Decisions, Searches
<1>5. ask \in BOOLEAN
  BY DEF Decisions
<1>6. apply_session_slots(t, d, s) = Decision(intent, conf, no, cq, ask)
  BY DEF apply_session_slots
<1> HIDE DEF intent, conf, no, cq, ask
<1> QED BY <1>1, <1>2, <1>3, <1>4, <1>5, <1>6 DEF Decision, Decisions

LEMMA RecognizeBase ==
  ASSUME NEW t \in Sentences, NEW s \in Slots, NEW named \in Numbers,
         NEW llm \in Decisions \cup {None}
  PROVE  \E d \in Decisions : recognize_intent(t, s, named, llm)
                                = finalize(t, d)
<1> DEFINE kw == _recognize_by_keyword(t)
           keyword == [kw EXCEPT !.order_no =
                         Or(kw.order_no, Or(s.last_order_no, named))]
           base == IF keyword.intent = "chitchat" /\ llm # None
                     THEN [llm EXCEPT !.order_no = Or(llm.order_no,
                                                      keyword.order_no)]
                     ELSE keyword
<1>1. keyword \in Decisions
  BY KeywordType DEF Decisions, Or, Slots
<1>2. base \in Decisions
  BY <1>1 DEF Decisions, Or
<1>3. apply_session_slots(t, base, s) \in Decisions
  BY <1>2, SlotsType
<1>4. recognize_intent(t, s, named, llm)
        = finalize(t, apply_session_slots(t, base, s))
  BY DEF recognize_intent
<1> QED BY <1>3, <1>4

\* What the router does with a sentence: a decision, guarded against order
\* signals and missing numbers.
LEMMA Recognized ==
  ASSUME NEW t \in Sentences, NEW s \in Slots, NEW named \in Numbers,
         NEW llm \in Decisions \cup {None}
  PROVE  LET d == recognize_intent(t, s, named, llm)
         IN /\ d \in Decisions
            /\ next_after_router(d) \in Nodes
            /\ query_has_order_signal(t) =>
                 next_after_router(d) \notin {"rag", "chitchat"}
            /\ next_after_router(d) = "tool" =>
                 d.intent = "order" /\ d.order_no # None
            /\ next_after_router(d) = "rag" => d.intent = "course_consult"
<1> DEFINE d == recognize_intent(t, s, named, llm)
<1>1. PICK e \in Decisions : d = finalize(t, e)
  BY RecognizeBase
<1>2. d \in Decisions
  BY <1>1, FinalizeType
<1>3. query_has_order_signal(t) =>
        d.intent \notin {"course_consult", "chitchat"}
  BY <1>1, FinalizeSignal
<1>4. d.intent = "order" => d.order_no # None
  BY <1>1, FinalizeOrder
<1>5. /\ next_after_router(d) \in Nodes
      /\ next_after_router(d) = "rag" => d.intent = "course_consult"
      /\ next_after_router(d) = "chitchat" => d.intent = "chitchat"
      /\ next_after_router(d) = "tool" => d.intent = "order"
  <2>1. d.intent \in Intents
    BY <1>2 DEF Decisions
  <2> HIDE DEF d
  <2> QED BY <2>1
          DEF next_after_router, intent_to_target, Nodes, Intents
<1> QED BY <1>2, <1>3, <1>4, <1>5

LEMMA SlotUpdatesType ==
  ASSUME NEW s \in Slots, NEW i \in Intents, NEW o \in Numbers, NEW c,
         NEW n \in {None, "name", "not found"}
  PROVE  slot_updates_after_turn(s, i, o, c, n) \in Slots
BY DEF slot_updates_after_turn, Slots, Or, MissingCourseNames, Numbers

LEMMA PlanIntent ==
  ASSUME NEW t, NEW d, NEW o, NEW c, NEW s, NEW usable,
         plan_supervisor(t, d, o, c, s, usable).action # "ask_user"
  PROVE  plan_supervisor(t, d, o, c, s, usable).final_intent
           \in {"mixed", "order", "course_consult"}
BY DEF plan_supervisor, Plan

-----------------------------------------------------------------------------
(* The inductive invariant.                                                *)

\* Nothing cached is from the future, and nothing was cached before it was
\* read.
CachesInOrder ==
  /\ \A o \in Orders : cache[o] # None => cache[o] <= now
  /\ snap # None => snap.fetched <= snap.cached_at /\ snap.cached_at <= now

\* What the router decided is still there when the branch it chose runs.
RouteOfBranch ==
  /\ pc = "rag" => route.intent = "course_consult"
  /\ pc = "tool" => route.intent = "order" /\ route.order_no # None

OwnershipRemembered == owned \subseteq everOwned

\* The answer of the last turn is gone when the router decides: a blocked
\* sentence goes on to respond with the answer security_node gave it.
AnswerReset == pc = "router" => result.answer # "handoff"

IInv == /\ TypeOK
        /\ CachesInOrder
        /\ AnswerReset
        /\ RouteOfBranch
        /\ OwnershipRemembered
        /\ SignalGuard
        /\ ReportsOfThisTurn
        /\ OldDataMarked
        /\ ProfileOwned
        /\ HandoffRecorded

\* A report as a node may show it in the present state.
Shown(r) ==
  r # None =>
    /\ r \in Reports
    /\ can_access_order(r.order)
    /\ r.turn = turn
    /\ r.at = now
    /\ r.stated = None => r.fetched = now
    /\ r.stated # None => r.stated <= stale_minutes(now - r.fetched)
    /\ r.fetched <= now

LEMMA EmptySlotsType == EmptySlots \in Slots
BY DEF EmptySlots, Slots, Numbers

LEMMA CachedOrder ==
  ASSUME TypeOK, CachesInOrder, NEW o \in Orders,
         get_cached_order(o) # None
  PROVE  /\ can_access_order(o)
         /\ get_cached_order(o)[1] \in Nat
         /\ get_cached_order(o)[2] \in Nat
         /\ get_cached_order(o)[1] <= get_cached_order(o)[2]
         /\ get_cached_order(o)[2] <= now
BY DEF get_cached_order, TypeOK, CachesInOrder, Snapshots

\* What the order query returns may be shown (query_order).
LEMMA QueryOrderShown ==
  ASSUME TypeOK, CachesInOrder, NEW o \in Orders, NEW db
  PROVE  /\ query_order(o, db) \in ResultType
         /\ Shown(query_order(o, db).report)
<1> DEFINE hit == get_cached_order(o)
           m == stale_minutes(now - hit[2])
<1>1. now \in Nat /\ turn \in Nat
  BY DEF TypeOK
<1>2. CASE db = "ok"
  <2>1. CASE can_access_order(o)
    <3>1. query_order(o, db) = Answered("report", Report(o, now, None))
      BY <1>2, <2>1 DEF query_order
    <3>2. Report(o, now, None) \in Reports
      BY <1>1 DEF Report, Reports
    <3> QED BY <1>1, <2>1, <3>1, <3>2
            DEF ResultType, Answered, Answers, Report, Shown
  <2>2. CASE ~can_access_order(o)
    BY <1>2, <2>2 DEF query_order, ResultType, Answer, Answers, Shown
  <2> QED BY <2>1, <2>2
<1>3. CASE db # "ok" /\ hit # None
  <2>1. /\ can_access_order(o) /\ hit[1] \in Nat /\ hit[2] \in Nat
        /\ hit[1] <= hit[2] /\ hit[2] <= now
    BY <1>3, CachedOrder
  <2>2. m \in Nat /\ m <= stale_minutes(now - hit[1]) /\ m # None
    <3> HIDE DEF hit
    <3>1. m \in Nat /\ m <= stale_minutes(now - hit[1])
      BY <1>1, <2>1 DEF stale_minutes
    <3> QED BY <3>1, NoneAssumption
  <2>3. query_order(o, db) = Answered("report", Report(o, hit[1], m))
    BY <1>3 DEF query_order
  <2> HIDE DEF hit, m
  <2> QED BY <1>1, <2>1, <2>2, <2>3
          DEF ResultType, Answered, Answers, Report, Reports, Shown
<1>4. CASE db # "ok" /\ hit = None
  BY <1>4 DEF query_order, ResultType, Answer, Answers, Shown
<1> QED BY <1>2, <1>3, <1>4

\* What is cached of a shown report keeps the caches in order.
LEMMA CachePut ==
  ASSUME TypeOK, CachesInOrder, NEW r \in ResultType, Shown(r.report)
  PROVE  /\ put_cached_order(r) \in [Orders -> Nat \cup {None}]
         /\ \A o \in Orders : put_cached_order(r)[o] # None =>
              put_cached_order(r)[o] <= now
         /\ session_updates_for_order(r) \in Snapshots \cup {None}
         /\ session_updates_for_order(r) # None =>
              /\ session_updates_for_order(r).fetched
                   <= session_updates_for_order(r).cached_at
              /\ session_updates_for_order(r).cached_at <= now
BY DEF put_cached_order, session_updates_for_order, TypeOK, CachesInOrder,
       Shown, ResultType, Reports, Snapshots

LEMMA Hydrated ==
  ASSUME TypeOK
  PROVE  _hydrate_slots \in Slots
BY DEF _hydrate_slots, TypeOK, Slots, Or, Numbers

\* What is written to the profile (persist_from_state).
LEMMA Persisted ==
  ASSUME TypeOK, OwnershipRemembered, ProfileOwned,
         NEW i \in BusinessIntents, NEW o \in Numbers, NEW c,
         NEW s \in Slots
  PROVE  LET q == persist_from_state(i, o, c, s)
         IN /\ q \in Slots
            /\ q.last_order_no \in everOwned \cup {None}
            /\ ~login => q = EmptySlots
            /\ login /\ i = "handoff" =>
                 /\ q.last_intent = "handoff"
                 /\ q.handoff_pending = s.handoff_pending
<1>1. CASE ~login
  BY <1>1 DEF persist_from_state, TypeOK, ProfileOwned
<1>2. CASE login
  <2> DEFINE n == Or(o, s.last_order_no)
             kept == IF n # None /\ can_access_order(n) THEN n ELSE None
             last == Or(kept, profile.last_order_no)
  <2>1. kept \in Numbers /\ kept \in everOwned \cup {None}
    BY <1>2 DEF can_access_order, OwnershipRemembered, Or, Numbers, Slots
  <2>2. last \in Numbers /\ last \in everOwned \cup {None}
    BY <2>1 DEF TypeOK, Slots, ProfileOwned, Or
  <2> HIDE DEF last
  <2>3. persist_from_state(i, o, c, s) =
          [last_intent |-> i, last_order_no |-> last,
           last_course_query |->
             IF c # None \/ s.last_course_query # None
               THEN "phrase" ELSE profile.last_course_query,
           last_course_name |-> Or(s.last_course_name,
                                   profile.last_course_name),
           handoff_pending |-> IF i = "handoff" THEN s.handoff_pending
                               ELSE profile.handoff_pending]
    BY <1>2 DEF persist_from_state, last
  <2> QED BY <1>2, <2>2, <2>3 DEF TypeOK, Slots, Or
<1> QED BY <1>1, <1>2 DEF TypeOK

\* A result that may be shown, or one that keeps the report of the turn,
\* keeps what is required of reports.
LEMMA ReportKept ==
  ASSUME IInv, turn' = turn, result' \in ResultType,
         result'.report = result.report \/ Shown(result'.report)
  PROVE  ReportsOfThisTurn' /\ OldDataMarked'
BY DEF IInv, ReportsOfThisTurn, OldDataMarked, Shown, TypeOK, Reports,
       stale_minutes

LEMMA SayType ==
  ASSUME TypeOK, NEW a \in Answers
  PROVE  Say(a) \in ResultType /\ Say(a).report = result.report
                                /\ Say(a).answer = a
BY DEF TypeOK, Say, ResultType

\* Every way to hand the user over (_handoff_state).
LEMMA HandedOff ==
  ASSUME IInv, _handoff_state, UNCHANGED <<login, owned, everOwned, turn>>
  PROVE  /\ result' \in ResultType /\ result'.report = result.report
         /\ route' \in Routes
         /\ slots' \in Slots
         /\ profile' \in Slots
         /\ ProfileOwned'
         /\ HandoffRecorded'
<1>1. /\ slots' \in Slots
      /\ slots'.handoff_pending = TRUE
      /\ slots'.last_intent = "handoff"
  <2>1. slots' \in Slots
    BY SlotUpdatesType DEF _handoff_state, IInv, TypeOK, Intents, Numbers
  <2> QED BY <2>1 DEF _handoff_state, slot_updates_after_turn,
                      BusinessIntents
<1>2. route.order_no \in Numbers
  BY DEF IInv, TypeOK, Routes
<1>3. /\ profile' \in Slots
      /\ profile'.last_order_no \in everOwned \cup {None}
      /\ ~login => profile' = EmptySlots
      /\ login => /\ profile'.last_intent = "handoff"
                  /\ profile'.handoff_pending = slots'.handoff_pending
  BY <1>1, <1>2, Persisted DEF _handoff_state, IInv, BusinessIntents
<1>4. result' \in ResultType /\ result'.report = result.report
  BY SayType DEF _handoff_state, IInv, Answers
<1>5. route' \in Routes
  BY DEF _handoff_state, IInv, TypeOK, Routes, Intents
<1> QED BY <1>1, <1>3, <1>4, <1>5 DEF ProfileOwned, HandoffRecorded

LEMMA SupervisorNumber ==
  ASSUME TypeOK
  PROVE  SupervisorOrder \in Numbers
BY DEF SupervisorOrder, TypeOK, Routes, Slots, Or

\* The end of a supervisor turn (SupervisorDone).
LEMMA SupervisorAnswered ==
  ASSUME IInv, UNCHANGED <<login, owned, everOwned, turn>>,
         NEW i \in {"mixed", "order", "course_consult"}, NEW c,
         NEW r \in ResultType, Shown(r.report), r.answer # "handoff",
         SupervisorDone(i, c, r)
  PROVE  /\ result' \in ResultType
         /\ result'.report = result.report \/ Shown(result'.report)
         /\ route' \in Routes
         /\ slots' \in Slots
         /\ profile' \in Slots
         /\ ProfileOwned'
         /\ HandoffRecorded'
<1> USE DEF IInv
<1>1. /\ result' \in ResultType
      /\ result'.report = result.report \/ Shown(result'.report)
      /\ result'.answer # "handoff"
  <2> DEFINE a == IF r.answer = "error" THEN "partial" ELSE r.answer
  <2>1. a \in Answers /\ a # "handoff"
    BY DEF ResultType, Answers
  <2>2. result' = IF r.report # None THEN r ELSE Say(a)
    BY DEF SupervisorDone
  <2> HIDE DEF a
  <2> QED BY <2>1, <2>2, SayType
<1>2. route' \in Routes
  BY DEF SupervisorDone, TypeOK, Routes, Intents
<1>3. slots' \in Slots
  <2> DEFINE b == IF SupervisorOrder # None
                        /\ can_access_order(SupervisorOrder)
                    THEN SupervisorOrder ELSE None
  <2>1. b \in Numbers
    BY SupervisorNumber DEF Numbers
  <2>2. slots' = slot_updates_after_turn(slots, i, b, c, None)
    BY DEF SupervisorDone
  <2> HIDE DEF b
  <2> QED BY <2>1, <2>2, SlotUpdatesType DEF TypeOK, Intents
<1>4. route.order_no \in Numbers
  BY DEF TypeOK, Routes
<1>5. /\ profile' \in Slots
      /\ profile'.last_order_no \in everOwned \cup {None}
      /\ ~login => profile' = EmptySlots
  BY <1>3, <1>4, Persisted DEF SupervisorDone, BusinessIntents
<1> QED BY <1>1, <1>2, <1>3, <1>5 DEF ProfileOwned, HandoffRecorded

\* A step shows no new report, or one the user may access.
ReportStep == \/ result'.report \in {result.report, None}
              \/ can_access_order(result'.report.order)

LEMMA InitInv == Init => IInv
<1> SUFFICES ASSUME Init PROVE IInv
  OBVIOUS
<1> USE DEF Init
<1>1. TypeOK
  <2>1. text \in Texts
    BY TextsAssumption
  <2>2. route \in Routes
    BY DEF NoRoute, Decision, Routes, Numbers, Searches
  <2>3. result \in ResultType
    BY DEF NoResult, ResultType, Answers
  <2> QED BY <2>1, <2>2, <2>3, EmptySlotsType DEF TypeOK, Numbers
<1> QED BY <1>1 DEF IInv, CachesInOrder, RouteOfBranch, AnswerReset,
              OwnershipRemembered, SignalGuard, ReportsOfThisTurn,
              OldDataMarked, ProfileOwned, HandoffRecorded, NoResult,
              EmptySlots

\* What is left to show of a step inside a turn that ends or goes on to the
\* supervisor, once the fields it writes are known to be good.
LEMMA StepKeeps ==
  ASSUME IInv, UNCHANGED <<now, login, threshold, owned, everOwned, turn,
                           text, blocked, mention>>,
         pc' \in {"idle", "supervisor", "respond"},
         route' \in Routes, result' \in ResultType,
         slots' \in Slots, profile' \in Slots,
         snap' \in Snapshots \cup {None},
         cache' \in [Orders -> Nat \cup {None}],
         CachesInOrder', ProfileOwned', HandoffRecorded',
         result'.report = result.report \/ Shown(result'.report)
  PROVE  IInv' /\ ReportStep
<1>1. TypeOK'
  BY DEF IInv, TypeOK, Nodes
<1>2. ReportsOfThisTurn' /\ OldDataMarked'
  BY ReportKept
<1>3. ReportStep
  BY DEF ReportStep, Shown
<1> QED BY <1>1, <1>2, <1>3 DEF IInv, RouteOfBranch, AnswerReset,
              OwnershipRemembered, SignalGuard

\* Every step keeps the invariant and shows only what may be shown.
LEMMA IInvStep == IInv /\ [Next]_vars => IInv' /\ ReportStep
<1> SUFFICES ASSUME IInv, [Next]_vars PROVE IInv' /\ ReportStep
  OBVIOUS
<1>t. TypeOK /\ CachesInOrder
  BY DEF IInv
<1>1. CASE NewSession
  <2>1. TypeOK'
    <3>1. route' \in Routes
      BY <1>1 DEF NewSession, NoRoute, Decision, Routes, Numbers, Searches
    <3>2. result' \in ResultType
      BY <1>1 DEF NewSession, NoResult, ResultType, Answers
    <3> QED BY <1>1, <1>t, <3>1, <3>2, EmptySlotsType
            DEF NewSession, TypeOK, Numbers, identity
  <2> QED BY <1>1, <2>1 DEF NewSession, IInv, CachesInOrder, RouteOfBranch,
        AnswerReset, OwnershipRemembered, SignalGuard, ReportsOfThisTurn,
        OldDataMarked, ProfileOwned, HandoffRecorded, NoResult, ReportStep,
        identity
<1>2. ASSUME NEW t \in Texts, security_node(t) PROVE IInv' /\ ReportStep
  <2>1. /\ route' \in Routes
        /\ result' \in ResultType
        /\ result'.report = None /\ result'.answer # "handoff"
    <3>1. /\ NoRoute \in Routes
          /\ [NoRoute EXCEPT !.intent = "chitchat"] \in Routes
      <4>1. NoRoute \in Routes
        BY DEF NoRoute, Decision, Routes, Numbers, Searches
      <4> QED BY <4>1 DEF Routes, Intents
    <3>2. \A e \in {NoResult, [NoResult EXCEPT !.answer = "blocked"]} :
            e \in ResultType /\ e.report = None /\ e.answer # "handoff"
      <4>1. None \in Answers /\ "blocked" \in Answers /\ None # "handoff"
        BY NoneAssumption DEF Answers
      <4>2. [NoResult EXCEPT !.answer = "blocked"]
              = [answer |-> "blocked", report |-> None]
        BY DEF NoResult
      <4> QED BY <4>1, <4>2 DEF NoResult, ResultType
    <3>3. /\ reset_turn_fields[1] = NoRoute
          /\ reset_turn_fields[2] = NoResult
      BY DEF reset_turn_fields
    <3>4. \/ route' = NoRoute /\ result' = NoResult
          \/ /\ route' = [NoRoute EXCEPT !.intent = "chitchat"]
             /\ result' = [NoResult EXCEPT !.answer = "blocked"]
      BY <1>2, <3>3 DEF security_node
    <3> QED BY <3>1, <3>2, <3>4
  <2>2. mention' \in Numbers /\ blocked' \in BOOLEAN
    BY <1>2, <1>t, TextsAssumption
       DEF security_node, TypeOK, Or, Sentences
  <2>3. TypeOK'
    BY <1>2, <1>t, <2>1, <2>2 DEF security_node, TypeOK, identity
  <2> QED BY <1>2, <2>1, <2>3
      DEF security_node, IInv, CachesInOrder, RouteOfBranch, AnswerReset,
        OwnershipRemembered, SignalGuard, ReportsOfThisTurn, OldDataMarked,
        ProfileOwned, HandoffRecorded, ReportStep, identity
<1>3. ASSUME NEW llm \in LlmAnswers \cup {None}, router_node(llm)
      PROVE  IInv' /\ ReportStep
  <2>u. UNCHANGED <<now, login, threshold, owned, everOwned, turn, text,
                    blocked, result, snap, mention, profile, cache>>
    BY <1>3 DEF router_node, identity
  <2>1. CASE blocked
    <3>1. UNCHANGED <<route, slots>> /\ pc' = "respond" /\ pc = "router"
      BY <1>3, <2>1 DEF router_node
    <3>2. HandoffRecorded'
      BY <2>u, <3>1 DEF IInv, AnswerReset, HandoffRecorded
    <3>3. CachesInOrder' /\ ProfileOwned'
      BY <2>u DEF IInv, CachesInOrder, ProfileOwned
    <3>4. /\ route' \in Routes /\ result' \in ResultType
          /\ slots' \in Slots /\ profile' \in Slots
          /\ snap' \in Snapshots \cup {None}
          /\ cache' \in [Orders -> Nat \cup {None}]
      BY <1>t, <2>u, <3>1 DEF TypeOK
    <3> QED BY <2>u, <3>1, <3>2, <3>3, <3>4, StepKeeps
  <2>2. CASE ~blocked
    <3> DEFINE s == _hydrate_slots
               d == recognize_intent(text, s, mention, llm)
    <3>1. text \in Sentences /\ s \in Slots /\ mention \in Numbers
          /\ llm \in Decisions \cup {None}
      BY <1>t, Hydrated, TextsAssumption, LlmAssumption DEF TypeOK
    <3>2. pc = "router" /\ slots' = s /\ route' = d
          /\ pc' = next_after_router(d)
      BY <1>3, <2>2 DEF router_node
    <3> HIDE DEF s
    <3>3. /\ d \in Decisions
          /\ next_after_router(d) \in Nodes
          /\ query_has_order_signal(text) =>
               next_after_router(d) \notin {"rag", "chitchat"}
          /\ next_after_router(d) = "tool" =>
               d.intent = "order" /\ d.order_no # None
          /\ next_after_router(d) = "rag" => d.intent = "course_consult"
      BY <3>1, Recognized
    <3> HIDE DEF d
    <3>4. route' \in Routes
      BY <3>2, <3>3 DEF Decisions, Routes
    <3>5. TypeOK'
      BY <1>t, <2>u, <3>1, <3>2, <3>3, <3>4 DEF TypeOK
    <3>6. SignalGuard' /\ RouteOfBranch'
      BY <2>u, <3>2, <3>3 DEF SignalGuard, RouteOfBranch
    <3>7. pc' \notin {"respond", "router"}
      BY <3>2, <3>3 DEF Nodes
    <3> QED BY <2>u, <3>5, <3>6, <3>7
        DEF IInv, CachesInOrder, AnswerReset, OwnershipRemembered,
            ReportsOfThisTurn, OldDataMarked, ProfileOwned, HandoffRecorded,
            ReportStep
  <2> QED BY <2>1, <2>2
<1>4. ASSUME NEW found \in BOOLEAN, rag_node(found) PROVE IInv' /\ ReportStep
  <2>u. UNCHANGED <<now, login, threshold, owned, everOwned, turn, text,
                    blocked, snap, mention, cache>>
    BY <1>4 DEF rag_node, identity
  <2>1. pc = "rag" /\ ~query_has_order_signal(text)
    BY <1>4 DEF rag_node, IInv, SignalGuard
  <2> DEFINE name == IF found THEN "name" ELSE "not found"
  <2>2. /\ pc' = "respond" /\ result' = Answer("course") /\ route' = route
        /\ slots' = slot_updates_after_turn(slots, "course_consult", None,
                                            "phrase", name)
        /\ profile' = persist_from_state(route.intent, route.order_no,
                                         route.course_query, slots')
    BY <1>4, <2>1 DEF rag_node
  <2>3. name \in {None, "name", "not found"}
    OBVIOUS
  <2> HIDE DEF name
  <2>4. slots' \in Slots
    BY <1>t, <2>2, <2>3, SlotUpdatesType DEF TypeOK, Intents, Numbers
  <2>5. route.intent = "course_consult" /\ route.order_no \in Numbers
    BY <2>1, <1>t DEF IInv, RouteOfBranch, TypeOK, Routes
  <2>6. /\ profile' \in Slots
        /\ profile'.last_order_no \in everOwned \cup {None}
        /\ ~login => profile' = EmptySlots
    BY <2>2, <2>4, <2>5, Persisted DEF IInv, BusinessIntents
  <2>7. result' \in ResultType /\ Shown(result'.report)
        /\ result'.answer = "course"
    BY <2>2 DEF Answer, ResultType, Answers, Shown
  <2>8. ProfileOwned' /\ HandoffRecorded' /\ CachesInOrder'
    BY <1>t, <2>u, <2>6, <2>7 DEF ProfileOwned, HandoffRecorded,
                                  CachesInOrder
  <2>9. /\ route' \in Routes /\ snap' \in Snapshots \cup {None}
        /\ cache' \in [Orders -> Nat \cup {None}]
    BY <1>t, <2>u, <2>2 DEF TypeOK
  <2> QED BY <2>u, <2>2, <2>4, <2>6, <2>7, <2>8, <2>9, StepKeeps
<1>5. ASSUME NEW db \in {"ok", "busy", "timeout"}, tool_node(db)
      PROVE  IInv' /\ ReportStep
  <2> DEFINE n == ToolOrder
             r == IF n = None THEN Answer("error") ELSE query_order(n, db)
  <2>u. UNCHANGED <<now, login, threshold, owned, everOwned, turn, text,
                    blocked, mention>>
    BY <1>5 DEF tool_node, identity
  <2>1. n \in Numbers
    BY <1>t, TextsAssumption
       DEF ToolOrder, resolve_query_order_no, TypeOK, Routes, Or, Sentences,
           Numbers
  <2>2. r \in ResultType /\ Shown(r.report)
    <3>1. CASE n = None
      BY <3>1 DEF Answer, ResultType, Answers, Shown
    <3>2. CASE n # None
      <4>1. n \in Orders
        BY <2>1, <3>2 DEF Numbers
      <4> HIDE DEF n
      <4> QED BY <1>t, <3>2, <4>1, QueryOrderShown
    <3> QED BY <3>1, <3>2
  <2>3. /\ pc = "tool" /\ pc' = "respond" /\ cache' = put_cached_order(r)
        /\ CASE r.answer = "handoff" -> _handoff_state /\ UNCHANGED snap
             [] r.answer = "error" ->
                  /\ result' = Say("error")
                  /\ route' = [route EXCEPT !.intent = "order"]
                  /\ UNCHANGED <<slots, snap, profile>>
             [] OTHER ->
                  /\ result' = r
                  /\ route' = [route EXCEPT !.order_no = n]
                  /\ snap' = session_updates_for_order(r)
                  /\ slots' = slot_updates_after_turn(slots, "order", n,
                                                      None, None)
                  /\ profile' = persist_from_state(route.intent, n,
                                                   route.course_query,
                                                   slots')
    BY <1>5 DEF tool_node
  <2>4. route.intent = "order"
    BY <2>3 DEF IInv, RouteOfBranch
  <2> HIDE DEF n, r
  <2>5. /\ cache' \in [Orders -> Nat \cup {None}]
        /\ \A o \in Orders : cache'[o] # None => cache'[o] <= now
        /\ session_updates_for_order(r) \in Snapshots \cup {None}
        /\ session_updates_for_order(r) # None =>
             /\ session_updates_for_order(r).fetched
                  <= session_updates_for_order(r).cached_at
             /\ session_updates_for_order(r).cached_at <= now
    BY <1>t, <2>2, <2>3, CachePut
  <2>6. snap' \in {snap, session_updates_for_order(r)}
    BY <2>3
  <2>7. CachesInOrder' /\ snap' \in Snapshots \cup {None}
    BY <1>t, <2>u, <2>5, <2>6 DEF CachesInOrder, TypeOK
  <2>8. CASE r.answer = "handoff"
    <3>1. _handoff_state
      BY <2>3, <2>8
    <3>2. /\ result' \in ResultType /\ result'.report = result.report
          /\ route' \in Routes /\ slots' \in Slots /\ profile' \in Slots
          /\ ProfileOwned' /\ HandoffRecorded'
      BY <2>u, <3>1, HandedOff
    <3> QED BY <2>u, <2>3, <2>5, <2>7, <3>2, StepKeeps
  <2>9. CASE r.answer = "error"
    <3>1. /\ result' = Say("error")
          /\ route' = [route EXCEPT !.intent = "order"]
          /\ UNCHANGED <<slots, snap, profile>>
      BY <2>3, <2>9
    <3>2. result' \in ResultType /\ result'.report = result.report
          /\ result'.answer = "error"
      BY <1>t, <3>1, SayType DEF Answers
    <3>3. route' \in Routes
      BY <1>t, <3>1 DEF TypeOK, Routes, Intents
    <3>4. ProfileOwned' /\ HandoffRecorded'
      BY <2>u, <3>1, <3>2 DEF IInv, ProfileOwned, HandoffRecorded
    <3>5. slots' \in Slots /\ profile' \in Slots
      BY <1>t, <3>1 DEF TypeOK
    <3> QED BY <2>u, <2>3, <2>5, <2>7, <3>2, <3>3, <3>4, <3>5, StepKeeps
  <2>10. CASE r.answer \notin {"handoff", "error"}
    <3>1. /\ result' = r
          /\ route' = [route EXCEPT !.order_no = n]
          /\ slots' = slot_updates_after_turn(slots, "order", n, None, None)
          /\ profile' = persist_from_state(route.intent, n,
                                           route.course_query, slots')
      BY <2>3, <2>10
    <3>2. route' \in Routes
      BY <1>t, <2>1, <3>1 DEF TypeOK, Routes
    <3>3. slots' \in Slots
      BY <1>t, <2>1, <3>1, SlotUpdatesType DEF TypeOK, Intents
    <3>4. /\ profile' \in Slots
          /\ profile'.last_order_no \in everOwned \cup {None}
          /\ ~login => profile' = EmptySlots
      BY <2>1, <2>4, <3>1, <3>3, Persisted DEF IInv, BusinessIntents
    <3>5. ProfileOwned' /\ HandoffRecorded'
      BY <2>u, <2>10, <3>1, <3>4 DEF ProfileOwned, HandoffRecorded
    <3> QED BY <2>u, <2>2, <2>3, <2>5, <2>7, <3>1, <3>2, <3>3, <3>4, <3>5,
               StepKeeps
  <2> QED BY <2>8, <2>9, <2>10
<1>6. CASE supervisor_ask
  <2>u. UNCHANGED <<now, login, threshold, owned, everOwned, turn, text,
                    blocked, mention, slots, snap, profile, cache>>
    BY <1>6 DEF supervisor_ask, identity, session
  <2>1. /\ pc' = "respond" /\ result' = Say("clarify")
        /\ route' = [route EXCEPT !.intent = "ambiguous"]
    BY <1>6 DEF supervisor_ask
  <2>2. /\ result' \in ResultType /\ result'.report = result.report
        /\ result'.answer = "clarify"
    BY <1>t, <2>1, SayType DEF Answers
  <2>3. /\ route' \in Routes /\ slots' \in Slots /\ profile' \in Slots
        /\ snap' \in Snapshots \cup {None}
        /\ cache' \in [Orders -> Nat \cup {None}]
    BY <1>t, <2>u, <2>1 DEF TypeOK, Routes, Intents
  <2>4. ProfileOwned' /\ HandoffRecorded' /\ CachesInOrder'
    BY <2>u, <2>2 DEF IInv, ProfileOwned, HandoffRecorded, CachesInOrder
  <2> QED BY <2>u, <2>1, <2>2, <2>3, <2>4, StepKeeps
<1>7. ASSUME NEW usable \in BOOLEAN, NEW db \in {"ok", "busy", "timeout"},
             NEW search \in {"ok", "fails", "skipped"},
             supervisor_execute(usable, db, search)
      PROVE  IInv' /\ ReportStep
  <2> DEFINE p == SupervisorPlan(usable)
             n == resolve_query_order_no(Or(text.no, SupervisorOrder),
                                         SupervisorOrder)
             r == IF ~p.order THEN Answer("course")
                  ELSE IF n = None THEN Answer("error")
                  ELSE query_order(n, db)
             raised == CourseRaised(p, r, search)
             c == IF CourseSearched(p, r, search)
                    THEN "phrase" ELSE SupervisorCourse
  <2>u. UNCHANGED <<now, login, threshold, owned, everOwned, turn, text,
                    blocked, mention>>
    BY <1>7 DEF supervisor_execute, identity
  <2>1. n \in Numbers
    BY <1>t, TextsAssumption, SupervisorNumber
       DEF resolve_query_order_no, TypeOK, Or, Sentences, Numbers
  <2>2. r \in ResultType /\ Shown(r.report)
    <3> HIDE DEF n, p
    <3>1. n # None => n \in Orders
      BY <2>1 DEF Numbers
    <3>2. n # None => /\ query_order(n, db) \in ResultType
                      /\ Shown(query_order(n, db).report)
      BY <1>t, <3>1, QueryOrderShown
    <3>3. \A a \in {"course", "error"} : Answer(a) \in ResultType
                                         /\ Shown(Answer(a).report)
      BY DEF Answer, ResultType, Answers, Shown
    <3> QED BY <3>2, <3>3
  <2>3. /\ pc = "supervisor" /\ p.action = "execute"
        /\ cache' = put_cached_order(r)
        /\ CASE raised /\ ~Escalates ->
                  pc' = "idle"
                  /\ UNCHANGED <<route, result, slots, snap, profile>>
             [] ~raised /\ r.answer # "handoff" ->
                  /\ pc' = "respond"
                  /\ SupervisorDone(p.final_intent, c, r)
                  /\ snap' = session_updates_for_order(r)
             [] OTHER -> pc' = "respond" /\ _handoff_state /\ UNCHANGED snap
    BY <1>7 DEF supervisor_execute
  <2>4. p.final_intent \in {"mixed", "order", "course_consult"}
    <3>1. p.action # "ask_user"
      BY <2>3
    <3> QED BY <3>1, PlanIntent DEF SupervisorPlan
  <2> HIDE DEF n, r, p, raised, c
  <2>5. /\ cache' \in [Orders -> Nat \cup {None}]
        /\ \A o \in Orders : cache'[o] # None => cache'[o] <= now
        /\ session_updates_for_order(r) \in Snapshots \cup {None}
        /\ session_updates_for_order(r) # None =>
             /\ session_updates_for_order(r).fetched
                  <= session_updates_for_order(r).cached_at
             /\ session_updates_for_order(r).cached_at <= now
    BY <1>t, <2>2, <2>3, CachePut
  <2>6. \/ /\ pc' = "idle"
           /\ UNCHANGED <<route, result, slots, snap, profile>>
        \/ /\ r.answer # "handoff"
           /\ pc' = "respond"
           /\ SupervisorDone(p.final_intent, c, r)
           /\ snap' = session_updates_for_order(r)
        \/ pc' = "respond" /\ _handoff_state /\ snap' = snap
    <3> HIDE <2>u, <2>1, <2>2, <2>4, <2>5
    <3>1. CASE raised /\ ~Escalates
      BY <2>3, <3>1
    <3>2. CASE ~raised /\ r.answer # "handoff"
      BY <2>3, <3>2
    <3>3. CASE ~(raised /\ ~Escalates) /\ ~(~raised /\ r.answer # "handoff")
      BY <2>3, <3>3
    <3> QED BY <3>1, <3>2, <3>3
  <2>7. CachesInOrder' /\ snap' \in Snapshots \cup {None}
    <3>1. snap' \in {snap, session_updates_for_order(r)}
      BY <2>6
    <3> QED BY <1>t, <2>u, <2>5, <3>1 DEF CachesInOrder, TypeOK
  <2>8. CASE pc' = "idle" /\ UNCHANGED <<route, result, slots, snap, profile>>
    <3>1. ProfileOwned' /\ HandoffRecorded'
      BY <2>u, <2>8 DEF IInv, ProfileOwned, HandoffRecorded
    <3>2. /\ route' \in Routes /\ result' \in ResultType
          /\ slots' \in Slots /\ profile' \in Slots
      BY <1>t, <2>8 DEF TypeOK
    <3> QED BY <2>u, <2>5, <2>7, <2>8, <3>1, <3>2, StepKeeps
  <2>9. CASE r.answer # "handoff" /\ pc' = "respond"
             /\ SupervisorDone(p.final_intent, c, r)
    <3>1. /\ result' \in ResultType
          /\ result'.report = result.report \/ Shown(result'.report)
          /\ route' \in Routes /\ slots' \in Slots /\ profile' \in Slots
          /\ ProfileOwned' /\ HandoffRecorded'
      BY <2>u, <2>2, <2>4, <2>9, SupervisorAnswered
    <3> QED BY <2>u, <2>5, <2>7, <2>9, <3>1, StepKeeps
  <2>10. CASE pc' = "respond" /\ _handoff_state
    <3>1. /\ result' \in ResultType /\ result'.report = result.report
          /\ route' \in Routes /\ slots' \in Slots /\ profile' \in Slots
          /\ ProfileOwned' /\ HandoffRecorded'
      BY <2>u, <2>10, HandedOff
    <3> QED BY <2>u, <2>5, <2>7, <2>10, <3>1, StepKeeps
  <2> QED BY <2>6, <2>8, <2>9, <2>10
<1>8. ASSUME NEW usable \in BOOLEAN, NEW o \in Numbers, NEW limit \in BOOLEAN,
             supervisor_react(usable, o, limit)
      PROVE  IInv' /\ ReportStep
  <2> DEFINE p == SupervisorPlan(usable)
             r == ReactQuery(o)
  <2>u. /\ UNCHANGED <<now, login, threshold, owned, everOwned, turn, text,
                       blocked, mention, snap>>
        /\ pc' = "respond"
    BY <1>8 DEF supervisor_react, identity
  <2>1. /\ p.action = "react" /\ cache' = put_cached_order(r)
        /\ IF limit THEN _handoff_state
                    ELSE SupervisorDone(p.final_intent, SupervisorCourse, r)
    BY <1>8 DEF supervisor_react
  <2>2. p.final_intent \in {"mixed", "order", "course_consult"}
    <3>1. p.action # "ask_user"
      BY <2>1
    <3> QED BY <3>1, PlanIntent DEF SupervisorPlan
  <2>3. r \in ResultType /\ Shown(r.report) /\ r.answer # "handoff"
    <3>1. CASE o # None /\ can_access_order(o)
      <4>1. Report(o, now, None) \in Reports
        BY <1>t, <3>1 DEF Report, Reports, TypeOK, Numbers
      <4> QED BY <1>t, <3>1, <4>1
          DEF ReactQuery, ResultType, Answered, Answers, Report, Shown, TypeOK
    <3>2. CASE ~(o # None /\ can_access_order(o))
      BY <3>2 DEF ReactQuery, ResultType, Answer, Answers, Shown
    <3> QED BY <3>1, <3>2
  <2> HIDE DEF r, p
  <2>4. /\ result' \in ResultType
        /\ result'.report = result.report \/ Shown(result'.report)
        /\ route' \in Routes /\ slots' \in Slots /\ profile' \in Slots
        /\ ProfileOwned' /\ HandoffRecorded'
    <3>1. CASE limit
      BY <2>u, <2>1, <3>1, HandedOff
    <3>2. CASE ~limit
      BY <2>u, <2>1, <2>2, <2>3, <3>2, SupervisorAnswered
    <3> QED BY <3>1, <3>2
  <2>5. /\ cache' \in [Orders -> Nat \cup {None}]
        /\ \A x \in Orders : cache'[x] # None => cache'[x] <= now
    BY <1>t, <2>1, <2>3, CachePut
  <2>6. CachesInOrder' /\ snap' \in Snapshots \cup {None}
    BY <1>t, <2>u, <2>5 DEF CachesInOrder, TypeOK
  <2> QED BY <2>u, <2>4, <2>5, <2>6, StepKeeps
<1>9. CASE chitchat_node
  <2>u. UNCHANGED <<now, login, threshold, owned, everOwned, turn, text,
                    blocked, mention, route, slots, snap, profile, cache>>
    BY <1>9 DEF chitchat_node, identity, session
  <2>1. pc' = "respond" /\ result' = Say("chitchat")
    BY <1>9 DEF chitchat_node
  <2>2. /\ result' \in ResultType /\ result'.report = result.report
        /\ result'.answer = "chitchat"
    BY <1>t, <2>1, SayType DEF Answers
  <2>3. /\ route' \in Routes /\ slots' \in Slots /\ profile' \in Slots
        /\ snap' \in Snapshots \cup {None}
        /\ cache' \in [Orders -> Nat \cup {None}]
    BY <1>t, <2>u DEF TypeOK
  <2>4. ProfileOwned' /\ HandoffRecorded' /\ CachesInOrder'
    BY <2>u, <2>2 DEF IInv, ProfileOwned, HandoffRecorded, CachesInOrder
  <2> QED BY <2>u, <2>1, <2>2, <2>3, <2>4, StepKeeps
<1>10. CASE handoff_node
  <2>u. /\ UNCHANGED <<now, login, threshold, owned, everOwned, turn, text,
                       blocked, mention, snap, cache>>
        /\ pc' = "respond" /\ _handoff_state
    BY <1>10 DEF handoff_node, identity
  <2>1. /\ result' \in ResultType /\ result'.report = result.report
        /\ route' \in Routes /\ slots' \in Slots /\ profile' \in Slots
        /\ ProfileOwned' /\ HandoffRecorded'
    BY <2>u, HandedOff
  <2>2. /\ CachesInOrder' /\ snap' \in Snapshots \cup {None}
        /\ cache' \in [Orders -> Nat \cup {None}]
    BY <1>t, <2>u DEF CachesInOrder, TypeOK
  <2> QED BY <2>u, <2>1, <2>2, StepKeeps
<1>11. CASE respond_node
  <2>u. UNCHANGED <<now, login, threshold, owned, everOwned, turn, text,
                    blocked, mention, route, slots, snap, profile, cache>>
    BY <1>11 DEF respond_node, identity, session
  <2>1. pc' = "idle" /\ result' = Say(Or(result.answer, "unavailable"))
    BY <1>11 DEF respond_node
  <2>2. Or(result.answer, "unavailable") \in Answers
    BY <1>t DEF TypeOK, ResultType, Or, Answers
  <2>3. result' \in ResultType /\ result'.report = result.report
    BY <1>t, <2>1, <2>2, SayType
  <2>4. /\ route' \in Routes /\ slots' \in Slots /\ profile' \in Slots
        /\ snap' \in Snapshots \cup {None}
        /\ cache' \in [Orders -> Nat \cup {None}]
    BY <1>t, <2>u DEF TypeOK
  <2>5. ProfileOwned' /\ HandoffRecorded' /\ CachesInOrder'
    BY <2>u, <2>1 DEF IInv, ProfileOwned, HandoffRecorded, CachesInOrder
  <2> QED BY <2>u, <2>1, <2>3, <2>4, <2>5, StepKeeps
<1>12. CASE Abort
  <2>u. UNCHANGED <<now, login, threshold, owned, everOwned, turn, text,
                    blocked, mention, route, result, slots, snap, profile>>
    BY <1>12 DEF Abort, identity, session
  <2>1. /\ pc' = "idle"
        /\ \/ cache' = cache
           \/ \E o \in Orders : cache' = [cache EXCEPT ![o] = now]
    BY <1>12 DEF Abort
  <2>2. /\ route' \in Routes /\ slots' \in Slots /\ profile' \in Slots
        /\ snap' \in Snapshots \cup {None} /\ result' \in ResultType
        /\ cache' \in [Orders -> Nat \cup {None}]
    BY <1>t, <2>u, <2>1 DEF TypeOK
  <2>3. ProfileOwned' /\ HandoffRecorded' /\ CachesInOrder'
    BY <2>u, <2>1 DEF IInv, ProfileOwned, HandoffRecorded, CachesInOrder,
                      TypeOK
  <2> QED BY <2>u, <2>1, <2>2, <2>3, StepKeeps
<1>13. CASE Tick
  <2>u. /\ UNCHANGED <<login, threshold, owned, everOwned, turn, pc, text,
                       blocked, route, result, slots, snap, mention, profile,
                       cache>>
        /\ now' = now + 1
    BY <1>13 DEF Tick, identity, session
  <2>1. TypeOK'
    BY <1>t, <2>u DEF TypeOK
  <2>2. CachesInOrder'
    BY <1>t, <2>u DEF CachesInOrder, TypeOK, Snapshots
  <2> QED BY <2>u, <2>1, <2>2
      DEF IInv, RouteOfBranch, AnswerReset, OwnershipRemembered,
          SignalGuard, ReportsOfThisTurn, OldDataMarked, ProfileOwned,
          HandoffRecorded, ReportStep
<1>14. ASSUME NEW o \in Orders, Transfer(o) PROVE IInv' /\ ReportStep
  <2>u. UNCHANGED <<now, login, threshold, turn, pc, text, blocked, route,
                    result, slots, snap, mention, profile, cache>>
    BY <1>14 DEF Transfer, identity, session
  <2>1. /\ owned' \subseteq Orders /\ everOwned' = everOwned \cup owned'
    BY <1>14, <1>t DEF Transfer, TypeOK
  <2>2. TypeOK'
    BY <1>t, <2>u, <2>1 DEF TypeOK
  <2> QED BY <2>u, <2>1, <2>2
      DEF IInv, CachesInOrder, RouteOfBranch, AnswerReset,
          OwnershipRemembered, SignalGuard, ReportsOfThisTurn, OldDataMarked,
          ProfileOwned, HandoffRecorded, ReportStep
<1>15. CASE UNCHANGED vars
  BY <1>15 DEF vars, IInv, TypeOK, CachesInOrder, RouteOfBranch,
       AnswerReset, OwnershipRemembered, SignalGuard, ReportsOfThisTurn,
       OldDataMarked, ProfileOwned, HandoffRecorded, ReportStep
<1> QED BY <1>1, <1>2, <1>3, <1>4, <1>5, <1>6, <1>7, <1>8, <1>9, <1>10,
           <1>11, <1>12, <1>13, <1>14, <1>15 DEF Next

-----------------------------------------------------------------------------
(* The theorems.                                                           *)

\* The invariant holds throughout every conversation.
THEOREM Invariance == Spec => []IInv
BY InitInv, IInvStep, PTL DEF Spec

\* The fields of the graph state keep their types in every conversation.
THEOREM TypeCorrect == Spec => []TypeOK
<1>1. IInv => TypeOK
  BY DEF IInv
<1> QED BY <1>1, Invariance, PTL

\* A sentence with an order signal never reaches the retrieval or the
\* chitchat node, for every set of sentences, every answer of the intent
\* model and every history (RoutingPolicy.finalize).
THEOREM SignalNeverMisrouted == Spec => []SignalGuard
<1>1. IInv => SignalGuard
  BY DEF IInv
<1> QED BY <1>1, Invariance, PTL

\* The order tool never runs without a number (downgrade_missing_order).
THEOREM ToolAlwaysHasNumber == Spec => []ToolHasNumber
<1>1. IInv => ToolHasNumber
  BY DEF IInv, RouteOfBranch, ToolHasNumber
<1> QED BY <1>1, Invariance, PTL

\* No report of an earlier turn is sent again (reset_turn_fields).
THEOREM NoOldReports == Spec => []ReportsOfThisTurn
<1>1. IInv => ReportsOfThisTurn
  BY DEF IInv
<1> QED BY <1>1, Invariance, PTL

\* Reports from a cache are marked and not made out to be too old
\* (query_order, stale_prefix).
THEOREM CachedReportsMarked == Spec => []OldDataMarked
<1>1. IInv => OldDataMarked
  BY DEF IInv
<1> QED BY <1>1, Invariance, PTL

\* The profile names only orders that are or were the user's
\* (persist_from_state, save_user_memory).
THEOREM ProfileNamesOwnOrders == Spec => []ProfileOwned
<1>1. IInv => ProfileOwned
  BY DEF IInv
<1> QED BY <1>1, Invariance, PTL

\* A transfer the user is told of is in the session and in the profile
\* (_handoff_state).
THEOREM TransfersRecorded == Spec => []HandoffRecorded
<1>1. IInv => HandoffRecorded
  BY DEF IInv
<1> QED BY <1>1, Invariance, PTL

\* A report is shown only of an order the user may access at that moment
\* (order_access, get_cached_order).
THEOREM NoForeignReports == Spec => ReportsAccessible
<1>1. IInv /\ [Next]_vars =>
        [ /\ result'.report # None
          /\ result'.report # result.report
          => can_access_order(result'.report.order) ]_vars
  BY IInvStep DEF ReportStep
<1> QED BY <1>1, Invariance, PTL DEF Spec, ReportsAccessible

LEMMA QueryOrderAnswers ==
  ASSUME NEW o, NEW db
  PROVE  LET r == query_order(o, db)
         IN /\ r.answer \in {"report", "busy", "error", "handoff"}
            /\ r.answer = "error" => r.report = None
BY DEF query_order, Answered, Answer

LEMMA SupervisorTopic ==
  ASSUME TypeOK, NEW i, NEW c, NEW r, SupervisorDone(i, c, r),
         r.answer \in {"report", "busy", "error", "course", "react"},
         r.answer = "error" => r.report = None
  PROVE  result'.answer \notin {"clarify", "chitchat", "error", "blocked"}
BY DEF SupervisorDone, Say, TypeOK, ResultType

\* Clarifications, chitchat, errors and blocked input leave slots, snapshot
\* and profile as they were (supervisor_node's clarification path, tool_node's
\* error path, chitchat_node).
THEOREM TopicAlwaysKept == Spec => TopicKept
<1> DEFINE Quiet == {"clarify", "chitchat", "error", "blocked"}
           Kept == /\ pc' = "respond"
                   /\ result'.answer \in Quiet
                   => UNCHANGED <<slots, snap, profile>>
<1>1. IInv /\ [Next]_vars => [Kept]_vars
  <2> SUFFICES ASSUME IInv, Next PROVE Kept
    OBVIOUS
  <2>t. TypeOK
    BY DEF IInv
  <2>1. CASE NewSession \/ \E t \in Texts : security_node(t)
    BY <2>1 DEF NewSession, security_node
  <2>2. CASE \E llm \in LlmAnswers \cup {None} : router_node(llm)
    <3>1. PICK llm \in LlmAnswers \cup {None} : router_node(llm)
      BY <2>2
    <3>2. CASE blocked
      BY <3>1, <3>2 DEF router_node
    <3>3. CASE ~blocked
      <4> DEFINE d == recognize_intent(text, _hydrate_slots, mention, llm)
      <4>1. next_after_router(d) \in Nodes
        BY <2>t, Hydrated, TextsAssumption, LlmAssumption, Recognized
           DEF TypeOK
      <4> HIDE DEF d
      <4>2. pc' = next_after_router(d)
        BY <3>1, <3>3 DEF router_node, d
      <4> QED BY <4>1, <4>2 DEF Nodes
    <3> QED BY <3>2, <3>3
  <2>3. CASE \E found \in BOOLEAN : rag_node(found)
    <3>1. pc' = "supervisor" \/ result' = Answer("course")
      BY <2>3 DEF rag_node
    <3>2. Answer("course").answer = "course"
      BY DEF Answer
    <3> QED BY <3>1, <3>2
  <2>4. CASE \E db \in {"ok", "busy", "timeout"} : tool_node(db)
    <3>1. PICK db \in {"ok", "busy", "timeout"} : tool_node(db)
      BY <2>4
    <3> DEFINE n == ToolOrder
               r == IF n = None THEN Answer("error") ELSE query_order(n, db)
    <3>2. r.answer \in {"report", "busy", "error", "handoff"}
      BY QueryOrderAnswers DEF Answer
    <3>3. CASE r.answer = "handoff"
      BY <2>t, <3>1, <3>3, SayType DEF tool_node, _handoff_state, Answers
    <3>4. CASE r.answer = "error"
      BY <3>1, <3>4 DEF tool_node
    <3>5. CASE r.answer \in {"report", "busy"}
      BY <3>1, <3>5 DEF tool_node
    <3> QED BY <3>2, <3>3, <3>4, <3>5
  <2>5. CASE \E usable \in BOOLEAN, db \in {"ok", "busy", "timeout"},
                search \in {"ok", "fails", "skipped"} :
                supervisor_execute(usable, db, search)
    <3>1. PICK usable \in BOOLEAN, db \in {"ok", "busy", "timeout"},
               search \in {"ok", "fails", "skipped"} :
               supervisor_execute(usable, db, search)
      BY <2>5
    <3> DEFINE p == SupervisorPlan(usable)
               n == resolve_query_order_no(Or(text.no, SupervisorOrder),
                                           SupervisorOrder)
               r == IF ~p.order THEN Answer("course")
                    ELSE IF n = None THEN Answer("error")
                    ELSE query_order(n, db)
    <3>2. /\ r.answer \in {"report", "busy", "error", "handoff", "course"}
          /\ r.answer = "error" => r.report = None
      BY QueryOrderAnswers DEF Answer
    <3>3. \/ pc' = "idle"
          \/ /\ r.answer # "handoff"
             /\ \E c : SupervisorDone(p.final_intent, c, r)
          \/ _handoff_state
      BY <3>1 DEF supervisor_execute
    <3> HIDE DEF p, r
    <3>4. CASE /\ r.answer # "handoff"
               /\ \E c : SupervisorDone(p.final_intent, c, r)
      BY <2>t, <3>2, <3>4, SupervisorTopic
    <3>5. CASE _handoff_state
      BY <2>t, <3>5, SayType DEF _handoff_state, Answers
    <3> QED BY <3>3, <3>4, <3>5
  <2>6. CASE \E usable \in BOOLEAN, o \in Numbers, limit \in BOOLEAN :
               supervisor_react(usable, o, limit)
    <3>1. PICK usable \in BOOLEAN, o \in Numbers, limit \in BOOLEAN :
               supervisor_react(usable, o, limit)
      BY <2>6
    <3> DEFINE p == SupervisorPlan(usable)
               r == ReactQuery(o)
    <3>2. r.answer = "react"
      BY DEF ReactQuery, Answered, Answer
    <3>3. \/ SupervisorDone(p.final_intent, SupervisorCourse, r)
          \/ _handoff_state
      BY <3>1 DEF supervisor_react
    <3> HIDE DEF p, r
    <3>4. CASE SupervisorDone(p.final_intent, SupervisorCourse, r)
      BY <2>t, <3>2, <3>4, SupervisorTopic
    <3>5. CASE _handoff_state
      BY <2>t, <3>5, SayType DEF _handoff_state, Answers
    <3> QED BY <3>3, <3>4, <3>5
  <2>7. CASE handoff_node
    BY <2>t, <2>7, SayType DEF handoff_node, _handoff_state, Answers
  <2>8. CASE \/ supervisor_ask \/ chitchat_node \/ respond_node \/ Abort
             \/ Tick \/ \E o \in Orders : Transfer(o)
    BY <2>8 DEF supervisor_ask, chitchat_node, respond_node, Abort, Tick,
                Transfer, session
  <2> QED BY <2>1, <2>2, <2>3, <2>4, <2>5, <2>6, <2>7, <2>8 DEF Next
<1> QED BY <1>1, Invariance, PTL DEF Spec, TopicKept
=============================================================================
