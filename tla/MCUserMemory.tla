---------------------------- MODULE MCUserMemory ----------------------------
(* Two sessions, three orders, two of them remembered.                     *)
EXTENDS UserMemory, TLC

Lists == UNION {[1 .. n -> Order] : n \in 0 .. MaxRecent}

(* prepend_unique is the list comprehension and the slice of the code.     *)
ASSUME PrependAssumption ==
    \A items \in Lists : \A value \in Order :
        (\A i, j \in DOMAIN items : i # j => items[i] # items[j]) =>
            LET rest == SelectSeq(items, LAMBDA item : item # value)
                whole == <<value>> \o rest
            IN  prepend_unique(items, value) = SubSeq(whole, 1, Least(MaxRecent, Len(whole)))

Symmetry == Permutations(Session) \union Permutations(Order)
=============================================================================
