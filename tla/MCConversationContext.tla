----------------------- MODULE MCConversationContext -----------------------
(* Windows of a few messages and a summary of a few items: every turn      *)
(* after the second compresses.                                            *)
EXTENDS ConversationContext, TLC

(* What is said: orders, a question and a conclusion by users, the rival   *)
(* conclusion by replies.                                                  *)
FactsOfUsers == Order \union {Reviewing, Asks}
FactsOfReplies == {Refunded, Nothing}

(* What the model answers: an order, both conclusions, or a label and an   *)
(* open point, whether it was told of them or not.                         *)
AnyFacts ==
    {[EmptySummary EXCEPT !.orders = <<order>>] : order \in Order} \union
    {[EmptySummary EXCEPT !.confirmed = <<Refunded, Reviewing>>]} \union
    {[EmptySummary EXCEPT !.confirmed = <<topic>>, !.pending = <<point>>] :
        topic \in Topic, point \in Waits}

Histories == UNION {[1 .. n -> Says] : n \in 0 .. 4}

(* The code extracts and merges the facts one message at a time, applies   *)
(* the caps each time and resolves the result: so does ExtractFacts.       *)
ASSUME ExtractAssumption ==
    \A says \in Histories : \A order \in Order \union {Nothing} :
        LET ms == [i \in DOMAIN says |-> Message(i, TRUE, says[i])]
            only(say, S) == IF say \in S THEN <<say>> ELSE <<>>
            factsFromOne(say) == [orders    |-> only(say, Order \ {order}),
                                  confirmed |-> only(say, Label),
                                  pending   |-> only(say, Point)]
            merged[n \in 0 .. Len(says)] ==
                IF n = 0 THEN EmptySummary ELSE Merge(merged[n - 1], factsFromOne(says[n]))
        IN  Resolve(merged[Len(says)], order) = ExtractFacts(ms, order)

Windows ==
    UNION {{[i \in 1 .. n |-> [Message(i, human[i], Nothing) EXCEPT !.long = long[i]]] :
                human \in [1 .. n -> BOOLEAN], long \in [1 .. n -> BOOLEAN]} : n \in 1 .. 5}

(* _split_kept_by_budget adds the turns one by one, the newest first, and  *)
(* breaks at the first that does not fit: KeptByBudget keeps the same.     *)
ASSUME SplitAssumption ==
    \A ms \in Windows :
        LET ts == PartitionTurns(ms)
            window == DOMAIN ms
            newest(todo) == CHOOSE T \in todo : \A U \in todo : \A j \in U : \E i \in T : j =< i
            minKeep == Least(KeepRecent, Len(ms))
            split[todo \in SUBSET ts] ==
                IF todo = {} THEN window
                ELSE LET T == newest(todo)
                         selected == window \ UNION todo
                     IN  IF /\ selected # {} /\ Cardinality(selected) >= minKeep
                            /\ Cost(ms, selected) + Cost(ms, T) > Budget
                         THEN selected ELSE split[todo \ {T}]
        IN  split[ts] = KeptByBudget(ms, window, ts, EmptySummary)

Symmetry == Permutations(Order)
=============================================================================
