---------------------------- MODULE MCTurnGraph ----------------------------
(* Sentences and model answers for TLC.                                    *)
EXTENDS TurnGraph, TLC

Symmetry == Permutations(Orders)

Plain == [no |-> None, handoff |-> FALSE, order |-> FALSE, force |-> FALSE,
          course |-> FALSE, explicit |-> FALSE, greeting |-> FALSE,
          followup |-> FALSE, short |-> FALSE, allowed |-> TRUE]

MCTexts ==
  { Plain,                                          \* small talk
    [Plain EXCEPT !.allowed = FALSE],               \* blocked input
    [Plain EXCEPT !.handoff = TRUE],
    [Plain EXCEPT !.followup = TRUE, !.short = TRUE],
    [Plain EXCEPT !.order = TRUE, !.force = TRUE, !.followup = TRUE],
    [Plain EXCEPT !.force = TRUE],                  \* "which number?"
    [Plain EXCEPT !.course = TRUE, !.explicit = TRUE],
    [Plain EXCEPT !.course = TRUE, !.order = TRUE],
    [Plain EXCEPT !.greeting = TRUE, !.order = TRUE] }
  \cup { [Plain EXCEPT !.no = o, !.order = TRUE, !.force = TRUE] :
           o \in Orders }
  \cup { [Plain EXCEPT !.no = o, !.course = TRUE] : o \in Orders }

MCLlmAnswers ==
  { Decision("chitchat", 80, None, None, FALSE),
    Decision("course_consult", 90, None, "phrase", FALSE),
    Decision("course_consult", 50, None, None, FALSE),
    Decision("order", 90, None, None, FALSE),
    Decision("ambiguous", 40, None, None, FALSE) }
  \cup { Decision("mixed", 90, o, None, FALSE) : o \in Orders }
=============================================================================
