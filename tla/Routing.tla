------------------------------ MODULE Routing ------------------------------
(***************************************************************************)
(* How one sentence is turned into a branch of the customer-service graph: *)
(* keyword recognition (agents/intent.py), completion from the session     *)
(* slots (context/slots.py) and the rules every decision passes through    *)
(* before it leaves (agents/policy.py).  Pure operators, no state.         *)
(*                                                                         *)
(* A sentence is the record of the features the rules look at, not its     *)
(* characters:                                                             *)
(*   no        the order number written in it, or None                     *)
(*   handoff   it asks for a human (HANDOFF_HINTS)                         *)
(*   order     it has a word of ORDER_HINTS                                *)
(*   force     it has a word of FORCE_ORDER_HINTS                          *)
(*   course    it has a word of COURSE_HINTS                               *)
(*   explicit  it has a word of _EXPLICIT_COURSE_HINTS and at most 40      *)
(*             characters                                                  *)
(*   greeting  it has a word of GREETING_HINTS                             *)
(*   followup  is_followup holds of it                                     *)
(*   short     it has fewer than 4 characters and is not a plain greeting  *)
(*   allowed   inspect_input lets it through                               *)
(* What a course is searched by is None, "query" (the sentence of this     *)
(* turn, whole) or "phrase" (a course name or an earlier sentence).        *)
(* Confidences are in hundredths.                                          *)
(***************************************************************************)
EXTENDS Integers

CONSTANTS Orders,     \* order numbers
          None

ASSUME NoneAssumption ==
  /\ None \notin Orders \cup Nat
  /\ None \notin {"query", "phrase", "name", "not found", "course_consult",
                 "order", "mixed", "ambiguous", "chitchat", "handoff"}

Intents == {"course_consult", "order", "mixed", "ambiguous", "chitchat",
            "handoff"}
BusinessIntents == {"course_consult", "order", "mixed", "handoff"}
Numbers == Orders \cup {None}
Searches == {None, "query", "phrase"}

Sentences == [no : Numbers, handoff : BOOLEAN, order : BOOLEAN,
              force : BOOLEAN, course : BOOLEAN, explicit : BOOLEAN,
              greeting : BOOLEAN, followup : BOOLEAN, short : BOOLEAN,
              allowed : BOOLEAN]

\* RouteDecision; clarify = needs_clarification with a question.  The field
\* target is left out: every way out of recognize_intent rebuilds it with
\* intent_to_target.
Decisions == [intent : Intents, confidence : 1..100, order_no : Numbers,
              course_query : Searches, clarify : BOOLEAN]

\* SessionSlots
Slots == [last_intent : BusinessIntents \cup {None}, last_order_no : Numbers,
          last_course_query : {None, "phrase"},
          last_course_name : {None, "name"}, handoff_pending : BOOLEAN]

EmptySlots == [last_intent |-> None, last_order_no |-> None,
               last_course_query |-> None, last_course_name |-> None,
               handoff_pending |-> FALSE]

\* Python's "a or b" on optional values
Or(a, b) == IF a # None THEN a ELSE b

RagMin == 70

Decision(intent, confidence, order_no, course_query, clarify) ==
  [intent |-> intent, confidence |-> confidence, order_no |-> order_no,
   course_query |-> course_query, clarify |-> clarify]

intent_to_target ==
  [course_consult |-> "rag", order |-> "tool", mixed |-> "supervisor",
   ambiguous |-> "supervisor", handoff |-> "handoff",
   chitchat |-> "chitchat"]

-----------------------------------------------------------------------------
(* Recognition.                                                            *)

query_has_order_signal(t) == t.no # None \/ t.force

_recognize_by_keyword(t) ==
  LET hasOrder == t.order \/ t.no # None IN
  IF t.handoff THEN Decision("handoff", 99, None, None, FALSE)
  ELSE IF t.course /\ hasOrder
    THEN Decision("mixed", 65, t.no, "query", FALSE)
  ELSE IF t.greeting /\ (t.course \/ hasOrder)
    THEN Decision("ambiguous", 35, t.no,
                  IF t.course THEN "query" ELSE None, TRUE)
  ELSE IF hasOrder THEN Decision("order", 90, t.no, None, FALSE)
  ELSE IF t.course THEN Decision("course_consult", 90, None, "query", FALSE)
  ELSE IF t.short THEN Decision("ambiguous", 30, None, None, TRUE)
  ELSE Decision("chitchat", 80, None, None, FALSE)

\* A follow-up whose own words decide nothing takes up the last business
\* intent; missing numbers and searches come from the slots.
apply_session_slots(t, d, s) ==
  LET resumed == /\ d.intent \in {"chitchat", "ambiguous"}
                 /\ t.followup
                 /\ s.last_intent \in BusinessIntents
      intent == IF resumed THEN s.last_intent ELSE d.intent
  IN Decision(
       intent,
       IF resumed /\ d.confidence < 85 THEN 85 ELSE d.confidence,
       IF intent \in {"order", "mixed"} THEN Or(d.order_no, s.last_order_no)
                                        ELSE d.order_no,
       IF intent \in {"course_consult", "mixed"} /\ d.course_query = None
         THEN IF s.last_course_name # None \/ s.last_course_query # None
                THEN "phrase" ELSE "query"
         ELSE d.course_query,
       d.clarify /\ ~resumed)

-----------------------------------------------------------------------------
(* RoutingPolicy: the rules on the way out.                                *)

_looks_like_course(t, d) == d.intent = "course_consult" \/ t.course

\* Fault for the runs: only sentences that also name a course are rerouted.
Bug_apply_order_signal(t, d) ==
  IF query_has_order_signal(t) /\ _looks_like_course(t, d)
    THEN [d EXCEPT !.intent = "mixed"] ELSE d

apply_order_signal(t, d) ==
  LET no == Or(d.order_no, t.no) IN
  IF d.intent \in {"handoff", "order", "mixed", "ambiguous"}
    THEN [d EXCEPT !.order_no = no]
  ELSE IF ~query_has_order_signal(t) THEN d
  ELSE IF _looks_like_course(t, d)
    THEN Decision("mixed", 65, no, Or(d.course_query, "query"), FALSE)
  ELSE Decision("order", 90, no, d.course_query, FALSE)

apply_low_confidence(d) ==
  IF d.intent = "course_consult" /\ d.confidence < RagMin
    THEN Decision("mixed", d.confidence, d.order_no, d.course_query, FALSE)
    ELSE d

\* Fault for the runs: an order intent goes to the tool as it is.
Bug_downgrade_missing_order(d) == d

downgrade_missing_order(d) ==
  IF d.intent = "order" /\ d.order_no = None
    THEN Decision("ambiguous", 35, None, d.course_query, TRUE)
    ELSE d

finalize(t, d) ==
  downgrade_missing_order(apply_low_confidence(apply_order_signal(t, d)))

\* recognize_intent.  mention is the number of the newest user message that
\* has one (order_no_from_history); llm is the model's answer, or None when
\* the model is off or failed.  The model is asked only when the keywords
\* say chitchat.  The early branches for ambiguous sentences (enough
\* context, model off, model on) all come to the slots applied to the
\* keyword decision.
recognize_intent(t, s, mention, llm) ==
  LET kw == _recognize_by_keyword(t)
      keyword == [kw EXCEPT !.order_no =
                    Or(kw.order_no, Or(s.last_order_no, mention))]
      base == IF keyword.intent = "chitchat" /\ llm # None
                THEN [llm EXCEPT !.order_no = Or(llm.order_no,
                                                 keyword.order_no)]
                ELSE keyword
  IN finalize(t, apply_session_slots(t, base, s))

next_after_router(d) ==
  LET dest == intent_to_target[d.intent]
  IN IF dest = "rag" /\ d.confidence < RagMin THEN "supervisor" ELSE dest

-----------------------------------------------------------------------------
(* plan_supervisor.  usable says whether a phrase is short enough, and     *)
(* free enough of order numbers, to be searched as a course.               *)

_bound_course_name(t, order_no, course_query, s, usable) ==
  \/ s.last_course_name # None
  \/ course_query = "phrase" /\ usable
  \/ course_query = "query" /\ order_no = None /\ t.no = None /\ t.explicit

\* order: the plan queries the order; course: "bound" when the course is
\* known beforehand, "from_order_product" when it is the order's product.
Plan(action, final_intent, order, course) ==
  [action |-> action, final_intent |-> final_intent, order |-> order,
   course |-> course]

plan_supervisor(t, d, order_no, course_query, s, usable) ==
  LET fi == IF d.intent \in {"mixed", "order", "course_consult"}
              THEN d.intent ELSE "mixed"
      bound == _bound_course_name(t, order_no, course_query, s, usable)
  IN IF d.clarify THEN Plan("ask_user", "ambiguous", FALSE, None)
     ELSE IF order_no # None /\ bound THEN Plan("execute", fi, TRUE, "bound")
     ELSE IF order_no # None /\ fi = "mixed"
       THEN Plan("execute", "mixed", TRUE, "from_order_product")
     ELSE IF order_no # None /\ fi = "order"
       THEN Plan("execute", "order", TRUE, None)
     ELSE IF bound /\ order_no = None /\ fi \in {"course_consult", "mixed"}
       THEN Plan("execute", "course_consult", FALSE, "bound")
     ELSE Plan("react", fi, FALSE, None)

-----------------------------------------------------------------------------
(* The slots after a business turn; what the turn did not find is kept.    *)
(* The placeholder name of an empty retrieval is not a course.             *)

MissingCourseNames == {None, "not found"}

\* A fault for the runs: a transfer is not noted.
Bug_pending(s, intent, order_no, course_query, course_name) ==
  [s EXCEPT !.last_intent = intent, !.last_order_no = Or(order_no, @)]

slot_updates_after_turn(s, intent, order_no, course_query, course_name) ==
  [last_intent |-> IF intent \in BusinessIntents THEN intent
                                                 ELSE s.last_intent,
   last_order_no |-> Or(order_no, s.last_order_no),
   last_course_query |-> IF course_query # None THEN "phrase"
                                                ELSE s.last_course_query,
   last_course_name |-> IF course_name \notin MissingCourseNames
                          THEN course_name ELSE s.last_course_name,
   handoff_pending |-> intent = "handoff"]
=============================================================================
