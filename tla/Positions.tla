----------------------------- MODULE Positions -----------------------------
(***************************************************************************)
(* Parts of sequences.  A part is named by the set of its positions, so    *)
(* that filters, cuts and rankings are sets that can be counted.           *)
(***************************************************************************)
EXTENDS Integers, Sequences, FiniteSets, Functions

Least(a, b) == IF a < b THEN a ELSE b
Most(a, b) == IF a < b THEN b ELSE a

First(s, n) == SubSeq(s, 1, Least(n, Len(s)))
Newest(s, n) == SubSeq(s, Len(s) - Least(n, Len(s)) + 1, Len(s))

(* The elements of s at the positions K, in their order.                   *)
Rank(K, i) == Cardinality({j \in K : j =< i})
Pick(s, K) == [k \in 1 .. Cardinality(K) |-> s[CHOOSE i \in K : Rank(K, i) = k]]
=============================================================================
