--------------------------- MODULE ContextProofs ----------------------------
(***************************************************************************)
(* What the model is given to answer from: proofs about the context of the *)
(* conversation (ConversationContext, for any facts, answers of the model, *)
(* budget, caps and number of turns) and, from "First" on, about the       *)
(* context retrieved for a question (Retrieval, for any chunks, rankings   *)
(* and settings).  Both cut and filter sequences, and rest on the same     *)
(* facts about Pick.                                                       *)
(***************************************************************************)
EXTENDS ConversationContext, Retrieval, FiniteSetTheorems, SequenceTheorems, TLAPS

(* Messages are in the order of their ids, ids are never used again, and   *)
(* the reply of the turn that runs will have one that is new.              *)
IdsInOrder(ms) == \A i, j \in DOMAIN ms : i < j => ms[i].id < ms[j].id
IdsFresh ==
    /\ IdsInOrder(messages)
    /\ gone \cap Ids(messages) = {}
    /\ \A id \in gone \union Ids(messages) : id =< 2 * turns /\ (turn # "none" => id < 2 * turns)

(* The labels end with conclusion c; no rival of it follows.               *)
Concludes(labels, c) ==
    \E i \in DOMAIN labels :
        labels[i] = c /\ \A j \in i + 1 .. Len(labels) : labels[j] \notin RivalsOf(c)
Clear(labels, c) == c \in Range(labels) /\ RivalsOf(c) \cap Range(labels) = {}

(* The list ends with x.                                                   *)
Ends(l, x) == Len(l) > 0 /\ l[Len(l)] = x
(* x is the last element of the list that is in T.                         *)
LastOf(l, T, x) ==
    x \in T /\ \E i \in DOMAIN l : l[i] = x /\ \A j \in i + 1 .. Len(l) : l[j] \notin T

(* Message m states what c says.                                           *)
States(m, c) == m.id = c.id /\ m.says = c.says

(* The settled conclusion is in the window or has left it for the summary. *)
LastConclusion ==
    /\ settled.says # Nothing =>
          settled.id \in gone \/ \E m \in Range(archive.messages) : States(m, settled)
    /\ settled.says # Nothing /\ settled.id \in gone /\ ~inverted /\ ~overruled /\ ~crowded =>
          Clear(summary.confirmed, settled.says)

ContextInv ==
    TypeOK /\ IdsFresh /\ CheckpointMatchesArchive /\ LastConclusion /\ NothingForgotten

----------------------------------------------------------------------------
(* Pick *)

LEMMA RankFinite ==
    ASSUME NEW K \in SUBSET Int, IsFiniteSet(K), NEW i \in Int
    PROVE  /\ Cardinality(K) \in Nat /\ IsFiniteSet({j \in K : j =< i})
           /\ Rank(K, i) \in Nat /\ Rank(K, i) =< Cardinality(K)
<1>1. {j \in K : j =< i} \in SUBSET K
    OBVIOUS
<1>2. IsFiniteSet({j \in K : j =< i}) /\ Cardinality({j \in K : j =< i}) =< Cardinality(K)
    BY <1>1, FS_Subset
<1> QED
    BY <1>2, FS_CardinalityType DEF Rank

LEMMA RankIncreases ==
    ASSUME NEW K \in SUBSET Int, IsFiniteSet(K), NEW i \in Int, NEW j \in K, i < j
    PROVE  Rank(K, i) < Rank(K, j)
<1> DEFINE A == {k \in K : k =< i}
           B == {k \in K : k =< j}
<1>1. IsFiniteSet(B) /\ Rank(K, i) \in Nat /\ Rank(K, j) \in Nat
    BY RankFinite
<1>2. A \in SUBSET B /\ j \in B /\ j \notin A
    <2>1. A \in SUBSET B
        <3> SUFFICES ASSUME NEW k \in A PROVE k \in B
            OBVIOUS
        <3> QED
            OBVIOUS
    <2> QED
        BY <2>1
<1>3. Rank(K, i) = Cardinality(A) /\ Rank(K, j) = Cardinality(B)
    BY DEF Rank
<1> HIDE DEF A, B
<1>4. Cardinality(A) =< Cardinality(B) /\ (Cardinality(B) = Cardinality(A) => B = A)
    BY <1>1, <1>2, FS_Subset
<1> QED
    BY <1>1, <1>2, <1>3, <1>4

LEMMA RankInjective ==
    ASSUME NEW K \in SUBSET Int, IsFiniteSet(K), NEW i \in K, NEW j \in K, Rank(K, i) = Rank(K, j)
    PROVE  i = j
<1>1. Rank(K, i) \in Nat /\ i \in Int /\ j \in Int
    BY RankFinite
<1>2. ~(i < j) /\ ~(j < i)
    BY <1>1, RankIncreases
<1> QED
    BY <1>1, <1>2

LEMMA RankSurjective ==
    ASSUME NEW K \in SUBSET Int, IsFiniteSet(K)
    PROVE  /\ \A i \in K : Rank(K, i) \in 1 .. Cardinality(K)
           /\ \A k \in 1 .. Cardinality(K) : \E i \in K : Rank(K, i) = k
<1> DEFINE f == [i \in K |-> Rank(K, i)]
<1>0. PICK c \in Nat : c = Cardinality(K)
    BY FS_CardinalityType
<1>1. ASSUME NEW i \in K PROVE Rank(K, i) \in 1 .. c
    <2>1. i \in Int /\ i - 1 \in Int /\ i - 1 < i
        OBVIOUS
    <2>2. Rank(K, i - 1) < Rank(K, i)
        BY <2>1, RankIncreases
    <2>3. Rank(K, i - 1) \in Nat /\ Rank(K, i) \in Nat /\ Rank(K, i) =< c
        BY <2>1, <1>0, RankFinite
    <2> QED
        BY <2>2, <2>3
<1>2. f \in [K -> 1 .. c]
    BY <1>1
<1>3. \A i, j \in K : f[i] = f[j] => i = j
    BY RankInjective
<1>4. f \in Injection(K, 1 .. c)
    BY <1>2, <1>3 DEF Injection, IsInjective
<1>5. IsFiniteSet(1 .. c) /\ Cardinality(1 .. c) = c
    BY FS_Interval
<1> HIDE DEF f
<1>6. f \in Surjection(K, 1 .. c)
    BY <1>0, <1>4, <1>5, FS_Injection
<1>7. \A k \in 1 .. c : \E i \in K : f[i] = k
    BY <1>6 DEF Surjection
<1> QED
    BY <1>0, <1>1, <1>7 DEF f

(* What Pick returns: the chosen elements, each at the rank of its         *)
(* position.                                                               *)
LEMMA PickElements ==
    ASSUME NEW S, NEW s \in Seq(S), NEW K \in SUBSET DOMAIN s
    PROVE  /\ IsFiniteSet(K) /\ Cardinality(K) \in Nat
           /\ Pick(s, K) \in Seq(S) /\ Len(Pick(s, K)) = Cardinality(K)
           /\ DOMAIN Pick(s, K) = 1 .. Cardinality(K)
           /\ \A i \in K : /\ Rank(K, i) \in 1 .. Cardinality(K)
                           /\ Pick(s, K)[Rank(K, i)] = s[i]
           /\ \A k \in 1 .. Cardinality(K) : \E i \in K : Rank(K, i) = k /\ Pick(s, K)[k] = s[i]
<1> DEFINE e(k) == CHOOSE i \in K : Rank(K, i) = k
<1>1. Len(s) \in Nat /\ K \in SUBSET (1 .. Len(s)) /\ DOMAIN s = 1 .. Len(s) /\ K \in SUBSET Int
    OBVIOUS
<1>2. IsFiniteSet(K)
    <2>1. IsFiniteSet(1 .. Len(s))
        BY <1>1, FS_Interval
    <2> QED
        BY <1>1, <2>1, FS_Subset
<1>0. PICK c \in Nat : c = Cardinality(K)
    BY <1>2, FS_CardinalityType
<1>3. ASSUME NEW k \in 1 .. c PROVE e(k) \in K /\ Rank(K, e(k)) = k
    <2>1. \E i \in K : Rank(K, i) = k
        BY <1>0, <1>1, <1>2, RankSurjective
    <2> QED
        BY <2>1
<1>4. ASSUME NEW i \in K PROVE Rank(K, i) \in 1 .. c /\ e(Rank(K, i)) = i
    <2>1. Rank(K, i) \in 1 .. c
        BY <1>0, <1>1, <1>2, RankSurjective
    <2>2. e(Rank(K, i)) \in K /\ Rank(K, e(Rank(K, i))) = Rank(K, i)
        BY <2>1, <1>3
    <2> HIDE DEF e
    <2> QED
        BY <1>1, <1>2, <2>1, <2>2, RankInjective
<1>5. Pick(s, K) = [k \in 1 .. c |-> s[e(k)]]
    BY <1>0 DEF Pick
<1> HIDE DEF e
<1>6. \A k \in 1 .. c : s[e(k)] \in S
    BY <1>1, <1>3
<1>7. Pick(s, K) \in Seq(S) /\ Len(Pick(s, K)) = c /\ DOMAIN Pick(s, K) = 1 .. c
    <2>1. Pick(s, K) \in [1 .. c -> S]
        BY <1>5, <1>6
    <2>2. Pick(s, K) \in Seq(S)
        BY <2>1, SeqDef
    <2> QED
        BY <2>1, <2>2
<1>8. \A i \in K : Rank(K, i) \in 1 .. c /\ Pick(s, K)[Rank(K, i)] = s[i]
    BY <1>4, <1>5
<1>9. \A k \in 1 .. c : \E i \in K : Rank(K, i) = k /\ Pick(s, K)[k] = s[i]
    BY <1>3, <1>5
<1> QED
    BY <1>0, <1>2, <1>7, <1>8, <1>9

LEMMA PickRange ==
    ASSUME NEW S, NEW s \in Seq(S), NEW K \in SUBSET DOMAIN s
    PROVE  Range(Pick(s, K)) = {s[i] : i \in K}
<1>1. /\ DOMAIN Pick(s, K) = 1 .. Cardinality(K)
      /\ \A i \in K : Rank(K, i) \in 1 .. Cardinality(K) /\ Pick(s, K)[Rank(K, i)] = s[i]
      /\ \A k \in 1 .. Cardinality(K) : \E i \in K : Rank(K, i) = k /\ Pick(s, K)[k] = s[i]
    BY PickElements
<1> QED
    BY <1>1 DEF Range

(* Pick keeps the order: later elements come from later positions.         *)
LEMMA PickOrder ==
    ASSUME NEW S, NEW s \in Seq(S), NEW K \in SUBSET DOMAIN s,
           NEW k \in DOMAIN Pick(s, K), NEW l \in DOMAIN Pick(s, K), k < l
    PROVE  \E i, j \in K : i < j /\ Pick(s, K)[k] = s[i] /\ Pick(s, K)[l] = s[j]
                           /\ Rank(K, i) = k /\ Rank(K, j) = l
<1>1. /\ DOMAIN Pick(s, K) = 1 .. Cardinality(K) /\ IsFiniteSet(K)
      /\ \A x \in 1 .. Cardinality(K) : \E i \in K : Rank(K, i) = x /\ Pick(s, K)[x] = s[i]
    BY PickElements
<1>2. PICK i \in K : Rank(K, i) = k /\ Pick(s, K)[k] = s[i]
    BY <1>1
<1>3. PICK j \in K : Rank(K, j) = l /\ Pick(s, K)[l] = s[j]
    BY <1>1
<1>4. K \in SUBSET Int /\ k \in Int /\ l \in Int
    BY <1>1
<1>5. ~(j < i)
    BY <1>1, <1>2, <1>3, <1>4, RankIncreases
<1>6. i # j
    BY <1>2, <1>3, <1>4
<1> QED
    BY <1>2, <1>3, <1>4, <1>5, <1>6

LEMMA PickAgree ==
    ASSUME NEW S, NEW s \in Seq(S), NEW K \in SUBSET DOMAIN s, NEW t, \A i \in K : t[i] = s[i]
    PROVE  Pick(t, K) = Pick(s, K)
<1>1. K \in SUBSET Int /\ IsFiniteSet(K)
    BY PickElements
<1>2. \A k \in 1 .. Cardinality(K) : \E i \in K : Rank(K, i) = k
    BY <1>1, RankSurjective
<1>3. \A k \in 1 .. Cardinality(K) : (CHOOSE i \in K : Rank(K, i) = k) \in K
    BY <1>2
<1> QED
    BY <1>3 DEF Pick

(* The newest positions, when all of them are chosen, come last.           *)
LEMMA RankOfNewest ==
    ASSUME NEW n \in Nat, NEW K \in SUBSET (1 .. n), NEW i \in 1 .. n, i .. n \subseteq K
    PROVE  Rank(K, i) = Cardinality(K) - (n - i)
<1> DEFINE A == {j \in K : j =< i}
           B == i + 1 .. n
<1>0. IsFiniteSet(1 .. n) /\ K \in SUBSET Int
    BY FS_Interval
<1>1. IsFiniteSet(K)
    BY <1>0, FS_Subset
<1>2. IsFiniteSet(A) /\ Rank(K, i) = Cardinality(A) /\ Cardinality(A) \in Nat
    BY <1>0, <1>1, RankFinite DEF Rank
<1>3. IsFiniteSet(B) /\ Cardinality(B) = n - i
    BY FS_Interval
<1>4. K = A \union B /\ A \cap B = {}
    <2>1. A \cap B = {}
        OBVIOUS
    <2>2. \A j \in K : j \in A \/ j \in B
        OBVIOUS
    <2>3. \A j \in B : j \in i .. n
        OBVIOUS
    <2> QED
        BY <2>1, <2>2, <2>3
<1> HIDE DEF A, B
<1>5. Cardinality(A \cap B) = 0
    BY <1>4, FS_EmptySet
<1>6. Cardinality(A \union B) = Cardinality(A) + Cardinality(B) - Cardinality(A \cap B)
    BY <1>2, <1>3, FS_Union
<1> QED
    BY <1>2, <1>3, <1>4, <1>5, <1>6

LEMMA PickAppend ==
    ASSUME NEW S, NEW s \in Seq(S), NEW K \in SUBSET DOMAIN s, Len(s) \in K
    PROVE  Pick(s, K) = Append(Pick(s, K \ {Len(s)}), s[Len(s)])
<1> DEFINE n == Len(s)
           J == K \ {n}
           p == Pick(s, K)
           q == Pick(s, J)
<1>1. n \in Nat /\ K \in SUBSET (1 .. n) /\ DOMAIN s = 1 .. n /\ n \in K /\ n \in 1 .. n
    OBVIOUS
<1>2. /\ IsFiniteSet(K) /\ Cardinality(K) \in Nat /\ p \in Seq(S) /\ Len(p) = Cardinality(K)
      /\ \A i \in K : Rank(K, i) \in 1 .. Cardinality(K) /\ p[Rank(K, i)] = s[i]
    BY PickElements
<1>3. J \in SUBSET DOMAIN s
    OBVIOUS
<1>4. /\ q \in Seq(S) /\ Len(q) = Cardinality(J) /\ Cardinality(J) \in Nat
      /\ \A k \in 1 .. Cardinality(J) : \E i \in J : Rank(J, i) = k /\ q[k] = s[i]
    BY <1>3, PickElements
<1>5. Cardinality(K) = Cardinality(J) + 1
    <2>1. Cardinality(J) = IF n \in K THEN Cardinality(K) - 1 ELSE Cardinality(K)
        BY <1>2, FS_RemoveElement
    <2> HIDE DEF J
    <2> QED
        BY <1>1, <1>2, <1>4, <2>1
<1>6. p[Cardinality(K)] = s[n]
    <2>1. Rank(K, n) = Cardinality(K) - (n - n)
        BY <1>1, RankOfNewest
    <2> QED
        BY <1>1, <1>2, <2>1
<1>7. ASSUME NEW k \in 1 .. Cardinality(J) PROVE p[k] = q[k]
    <2>1. PICK i \in J : Rank(J, i) = k /\ q[k] = s[i]
        BY <1>4
    <2>2. {j \in K : j =< i} = {j \in J : j =< i}
        BY <1>1
    <2>3. Rank(K, i) = k
        BY <2>1, <2>2 DEF Rank
    <2> QED
        BY <1>2, <2>1, <2>3
<1>8. s[n] \in S
    BY <1>1
<1>9. /\ Append(q, s[n]) \in Seq(S) /\ Len(Append(q, s[n])) = Len(q) + 1
      /\ \A i \in 1 .. Len(q) : Append(q, s[n])[i] = q[i]
      /\ Append(q, s[n])[Len(q) + 1] = s[n]
    BY <1>4, <1>8, AppendProperties
<1> HIDE DEF p, q, J
<1>10. \A i \in 1 .. Len(p) : p[i] = Append(q, s[n])[i]
    BY <1>2, <1>4, <1>5, <1>6, <1>7, <1>9
<1>11. p = Append(q, s[n])
    BY <1>2, <1>4, <1>5, <1>9, <1>10, SeqEqual
<1> QED
    BY <1>11 DEF p, q, J

LEMMA LastPosition ==
    ASSUME NEW K \in SUBSET Int, IsFiniteSet(K), K # {}
    PROVE  \E i \in K : \A j \in K : j =< i
<1>1. Cardinality(K) \in Nat /\ Cardinality(K) # 0
    BY FS_CardinalityType, FS_EmptySet
<1>2. PICK i \in K : Rank(K, i) = Cardinality(K)
    BY <1>1, RankSurjective
<1>3. \A j \in K : Rank(K, j) =< Cardinality(K) /\ Rank(K, j) \in Nat
    BY RankFinite
<1>4. \A j \in K : ~(i < j)
    BY <1>1, <1>2, <1>3, RankIncreases
<1> QED
    BY <1>4

----------------------------------------------------------------------------
(* Newest, ExclusiveSequence *)

LEMMA NewestElements ==
    ASSUME NEW S, NEW s \in Seq(S), NEW n \in Nat
    PROVE  /\ Newest(s, n) \in Seq(S) /\ Len(Newest(s, n)) = Least(n, Len(s))
           /\ Range(Newest(s, n)) \subseteq Range(s)
           /\ n >= Len(s) => Newest(s, n) = s
<1> DEFINE k == Len(s) - Least(n, Len(s))
<1>1. k \in Nat /\ k =< Len(s) /\ Len(s) \in Nat /\ Len(s) - k = Least(n, Len(s))
    BY DEF Least
<1>2. Newest(s, n) = SubSeq(s, k + 1, Len(s))
    BY DEF Newest
<1> HIDE DEF k
<1>3. k + 1 \in Int /\ Len(s) \in Int /\ \A i \in k + 1 .. Len(s) : s[i] \in S
    BY <1>1
<1>4. /\ Newest(s, n) \in Seq(S)
      /\ Len(Newest(s, n)) = IF k + 1 <= Len(s) THEN Len(s) - (k + 1) + 1 ELSE 0
      /\ \A i \in 1 .. Len(s) - (k + 1) + 1 : Newest(s, n)[i] = s[(k + 1) + i - 1]
    BY <1>2, <1>3, SubSeqProperties
<1>5. Len(Newest(s, n)) = Len(s) - k
    BY <1>1, <1>4
<1>6. \A i \in 1 .. Len(Newest(s, n)) : Newest(s, n)[i] = s[k + i] /\ k + i \in 1 .. Len(s)
    BY <1>1, <1>4, <1>5
<1>7. Range(Newest(s, n)) \subseteq Range(s)
    BY <1>4, <1>6 DEF Range
<1>8. ASSUME n >= Len(s) PROVE Newest(s, n) = s
    <2>1. k = 0
        BY <1>1, <1>8 DEF Least, k
    <2> QED
        BY <1>2, <2>1, SubSeqFull
<1> QED
    BY <1>1, <1>4, <1>5, <1>7, <1>8

LEMMA Rivals ==
    ASSUME NEW c, NEW d
    PROVE  /\ d \in RivalsOf(c) <=> c \in Conclusion /\ d \in Conclusion /\ d # c
           /\ c \notin RivalsOf(c)
    BY DEF RivalsOf

LEMMA ExclusiveElements ==
    ASSUME NEW S, NEW l \in Seq(S)
    PROVE  /\ ExclusiveSequence(l) \in Seq(S)
           /\ Range(ExclusiveSequence(l)) = {l[i] : i \in {j \in DOMAIN l : ~Overtaken(l, j)}}
           /\ Range(ExclusiveSequence(l)) \subseteq Range(l)
<1> DEFINE K == {i \in DOMAIN l : ~Overtaken(l, i)}
<1>1. K \in SUBSET DOMAIN l /\ ExclusiveSequence(l) = Pick(l, K)
    BY DEF ExclusiveSequence
<1> HIDE DEF K
<1>2. ExclusiveSequence(l) \in Seq(S) /\ Range(ExclusiveSequence(l)) = {l[i] : i \in K}
    BY <1>1, PickElements, PickRange
<1> QED
    BY <1>1, <1>2 DEF K, Range

(* The label no rival follows stays and drives out its rivals.             *)
LEMMA ExclusiveKeeps ==
    ASSUME NEW S, NEW l \in Seq(S), NEW c, Concludes(l, c)
    PROVE  Clear(ExclusiveSequence(l), c)
<1> DEFINE K == {i \in DOMAIN l : ~Overtaken(l, i)}
<1>1. Range(ExclusiveSequence(l)) = {l[i] : i \in K} /\ DOMAIN l = 1 .. Len(l) /\ Len(l) \in Nat
    BY ExclusiveElements
<1>2. PICK i \in 1 .. Len(l) : l[i] = c /\ \A j \in i + 1 .. Len(l) : l[j] \notin RivalsOf(c)
    BY <1>1 DEF Concludes
<1> DEFINE C == {j \in 1 .. Len(l) : l[j] = c}
<1>3. C \in SUBSET Int /\ IsFiniteSet(C) /\ i \in C
    <2>1. IsFiniteSet(1 .. Len(l)) /\ C \in SUBSET (1 .. Len(l))
        BY <1>1, FS_Interval
    <2>2. IsFiniteSet(C)
        BY <2>1, FS_Subset
    <2> QED
        BY <1>2, <2>2
<1> HIDE DEF C
<1>4. PICK p \in C : \A j \in C : j =< p
    BY <1>3, LastPosition
<1>5. p \in 1 .. Len(l) /\ l[p] = c /\ i =< p /\ \A j \in p + 1 .. Len(l) : l[j] # c
    BY <1>1, <1>3, <1>4 DEF C
<1>6. \A j \in p + 1 .. Len(l) : l[j] \notin RivalsOf(c) \union {c}
    BY <1>1, <1>2, <1>5
<1>7. ~Overtaken(l, p)
    BY <1>5, <1>6 DEF Overtaken
<1>8. c \in Range(ExclusiveSequence(l))
    BY <1>1, <1>5, <1>7
<1>9. ASSUME NEW d \in RivalsOf(c), NEW q \in K, l[q] = d PROVE FALSE
    <2>1. q \in 1 .. Len(l) /\ ~Overtaken(l, q)
        BY <1>1
    <2>2. q =< i /\ q # i
        BY <1>1, <1>2, <1>9, <2>1, Rivals
    <2>3. i \in q + 1 .. Len(l) /\ l[i] \in RivalsOf(l[q])
        BY <1>1, <1>2, <1>9, <2>1, <2>2, Rivals
    <2> QED
        BY <2>1, <2>3 DEF Overtaken
<1> HIDE DEF K
<1>10. RivalsOf(c) \cap Range(ExclusiveSequence(l)) = {}
    BY <1>1, <1>9
<1> QED
    BY <1>8, <1>10 DEF Clear

(* Equal labels are recorded once.                                         *)
LEMMA ExclusiveShort ==
    ASSUME NEW S, NEW l \in Seq(S), NEW H, IsFiniteSet(H), Range(l) \subseteq H
    PROVE  Len(ExclusiveSequence(l)) =< Cardinality(H)
<1> DEFINE K == {i \in DOMAIN l : ~Overtaken(l, i)}
           f == [i \in K |-> l[i]]
<1>1. K \in SUBSET DOMAIN l /\ ExclusiveSequence(l) = Pick(l, K)
    BY DEF ExclusiveSequence
<1>2. f \in [K -> H]
    BY DEF Range
<1>3. ASSUME NEW i \in K, NEW j \in K, l[i] = l[j], i < j PROVE FALSE
    <2>1. j \in i + 1 .. Len(l) /\ ~Overtaken(l, i)
        BY <1>3
    <2> QED
        BY <1>3, <2>1 DEF Overtaken
<1>4. \A i, j \in K : f[i] = f[j] => i = j
    <2> SUFFICES ASSUME NEW i \in K, NEW j \in K, l[i] = l[j] PROVE i = j
        OBVIOUS
    <2>1. i \in Int /\ j \in Int
        OBVIOUS
    <2> QED
        BY <2>1, <1>3
<1>5. f \in Injection(K, H)
    BY <1>2, <1>4 DEF Injection, IsInjective
<1> HIDE DEF f, K
<1>6. Cardinality(K) =< Cardinality(H)
    BY <1>5, FS_Injection
<1>7. Len(Pick(l, K)) = Cardinality(K)
    BY <1>1, PickElements
<1> QED
    BY <1>1, <1>6, <1>7

LEMMA PickShorter ==
    ASSUME NEW S, NEW l \in Seq(S), NEW K \in SUBSET DOMAIN l
    PROVE  Len(Pick(l, K)) =< Len(l) /\ Len(Pick(l, K)) \in Nat
<1>1. DOMAIN l = 1 .. Len(l) /\ Len(l) \in Nat
    OBVIOUS
<1>2. Len(Pick(l, K)) = Cardinality(K) /\ Cardinality(K) \in Nat
    BY PickElements
<1>3. IsFiniteSet(1 .. Len(l)) /\ Cardinality(1 .. Len(l)) = Len(l)
    <2>1. 1 \in Int /\ Len(l) \in Int
        BY <1>1
    <2>2. IsFiniteSet(1 .. Len(l)) /\ Cardinality(1 .. Len(l)) = IF 1 > Len(l) THEN 0 ELSE Len(l) - 1 + 1
        BY <2>1, FS_Interval
    <2> QED
        BY <1>1, <2>2
<1>4. Cardinality(K) =< Cardinality(1 .. Len(l))
    BY <1>1, <1>3, FS_Subset
<1> QED
    BY <1>1, <1>2, <1>3, <1>4

(* The last element of a list is not overtaken, cut or picked away.        *)
LEMMA EndsElement ==
    ASSUME NEW S, NEW l \in Seq(S)
    PROVE  /\ \A x : Ends(l, x) => l # <<>> /\ x \in Range(l) /\ x \in S
           /\ l # <<>> => \E x \in S : Ends(l, x)
<1>1. Len(l) \in Nat /\ DOMAIN l = 1 .. Len(l) /\ (l = <<>> <=> Len(l) = 0)
    BY EmptySeq
<1>2. ASSUME Len(l) > 0 PROVE Len(l) \in DOMAIN l /\ l[Len(l)] \in S /\ l[Len(l)] \in Range(l)
    <2>1. Len(l) \in DOMAIN l
        BY <1>1, <1>2
    <2> QED
        BY <2>1 DEF Range
<1> QED
    BY <1>1, <1>2 DEF Ends

LEMMA PickEnds ==
    ASSUME NEW S, NEW l \in Seq(S), NEW K \in SUBSET DOMAIN l, NEW x, Ends(l, x), Len(l) \in K
    PROVE  Ends(Pick(l, K), x)
<1> DEFINE p == Pick(l, K \ {Len(l)})
<1>0. l[Len(l)] = x /\ x \in S
    BY EndsElement DEF Ends
<1>1. Pick(l, K) = Append(p, x) /\ x \in S
    BY <1>0, PickAppend
<1>2. p \in Seq(S)
    <2>1. K \ {Len(l)} \in SUBSET DOMAIN l
        OBVIOUS
    <2> QED
        BY <2>1, PickElements
<1> HIDE DEF p
<1>3. Len(Append(p, x)) = Len(p) + 1 /\ Append(p, x)[Len(p) + 1] = x /\ Len(p) \in Nat
    BY <1>1, <1>2, AppendProperties
<1> QED
    BY <1>1, <1>3 DEF Ends

LEMMA PickLast ==
    ASSUME NEW S, NEW l \in Seq(S), NEW T, NEW x, LastOf(l, T, x)
    PROVE  Ends(Pick(l, {i \in DOMAIN l : l[i] \in T}), x)
<1> DEFINE K == {i \in DOMAIN l : l[i] \in T}
<1>1. PICK i \in DOMAIN l : l[i] = x /\ \A j \in i + 1 .. Len(l) : l[j] \notin T
    BY DEF LastOf
<1>2. x \in T /\ i \in K /\ Len(l) \in Nat /\ DOMAIN l = 1 .. Len(l)
    BY <1>1 DEF LastOf
<1>3. {j \in K : j =< i} = K
    BY <1>1, <1>2
<1>4. K \in SUBSET DOMAIN l
    OBVIOUS
<1> HIDE DEF K
<1>5. Rank(K, i) = Cardinality(K)
    BY <1>3 DEF Rank
<1>6. /\ Rank(K, i) \in 1 .. Cardinality(K) /\ Pick(l, K)[Rank(K, i)] = l[i]
      /\ Len(Pick(l, K)) = Cardinality(K) /\ Cardinality(K) \in Nat
    BY <1>2, <1>4, PickElements
<1>7. Ends(Pick(l, K), x)
    BY <1>1, <1>5, <1>6 DEF Ends
<1> QED
    BY <1>7 DEF K

LEMMA ExclusiveEnds ==
    ASSUME NEW S, NEW l \in Seq(S), NEW x, Ends(l, x)
    PROVE  Ends(ExclusiveSequence(l), x)
<1> DEFINE K == {i \in DOMAIN l : ~Overtaken(l, i)}
<1>1. Len(l) \in DOMAIN l /\ Len(l) \in Nat
    BY DEF Ends
<1>2. ~Overtaken(l, Len(l))
    BY <1>1 DEF Overtaken
<1>3. K \in SUBSET DOMAIN l /\ Len(l) \in K /\ ExclusiveSequence(l) = Pick(l, K)
    BY <1>1, <1>2 DEF ExclusiveSequence
<1> HIDE DEF K
<1> QED
    BY <1>3, PickEnds

LEMMA NewestEnds ==
    ASSUME NEW S, NEW l \in Seq(S), NEW n \in Nat \ {0}, NEW x, Ends(l, x)
    PROVE  Ends(Newest(l, n), x)
<1>1. PICK m \in Nat : m = Len(l) /\ m > 0
    BY DEF Ends
<1>2. PICK k \in 1 .. m : k = Least(n, m)
    BY <1>1 DEF Least
<1>0. PICK j \in 1 .. m : j = m - k + 1
    BY <1>2
<1>3. Newest(l, n) = SubSeq(l, j, m)
    BY <1>0, <1>1, <1>2 DEF Newest
<1>4. j \in Int /\ m \in Int /\ \A i \in j .. m : l[i] \in S
    BY <1>1
<1>5. /\ Len(SubSeq(l, j, m)) = IF j <= m THEN m - j + 1 ELSE 0
      /\ \A i \in 1 .. m - j + 1 : SubSeq(l, j, m)[i] = l[j + i - 1]
    BY <1>4, SubSeqProperties
<1>6. k \in 1 .. m - j + 1 /\ j + k - 1 = m /\ m - j + 1 = k /\ j <= m
    BY <1>0, <1>2
<1>7. SubSeq(l, j, m)[k] = l[m] /\ Len(SubSeq(l, j, m)) = k
    BY <1>5, <1>6
<1> QED
    BY <1>1, <1>2, <1>3, <1>7 DEF Ends

LEMMA ConcatEnds ==
    ASSUME NEW S, NEW a \in Seq(S), NEW b \in Seq(S)
    PROVE  /\ a \o b \in Seq(S)
           /\ \A x : Ends(b, x) => Ends(a \o b, x)
           /\ b = <<>> => a \o b = a
           /\ a # <<>> \/ b # <<>> => \E x \in S : Ends(a \o b, x)
<1>1. /\ a \o b \in Seq(S) /\ Len(a \o b) = Len(a) + Len(b) /\ Len(a) \in Nat /\ Len(b) \in Nat
      /\ \A i \in 1 .. Len(b) : (a \o b)[Len(a) + i] = b[i]
    BY ConcatProperties
<1>2. ASSUME NEW x, Ends(b, x) PROVE Ends(a \o b, x)
    <2>1. Len(b) \in 1 .. Len(b)
        BY <1>1, <1>2 DEF Ends
    <2> QED
        BY <1>1, <1>2, <2>1 DEF Ends
<1>3. ASSUME b = <<>> PROVE a \o b = a
    BY <1>3, ConcatEmptySeq
<1>4. ASSUME a # <<>> \/ b # <<>> PROVE \E x \in S : Ends(a \o b, x)
    <2>1. Len(a) # 0 \/ Len(b) # 0
        BY <1>4, EmptySeq
    <2>2. Len(a \o b) # 0
        BY <1>1, <2>1
    <2>3. a \o b # <<>>
        BY <1>1, <2>2, EmptySeq
    <2> QED
        BY <1>1, <2>3, EndsElement
<1> QED
    BY <1>1, <1>2, <1>3, <1>4

LEMMA EndsConcludes ==
    ASSUME NEW S, NEW l \in Seq(S), NEW c, Ends(l, c)
    PROVE  Concludes(l, c)
<1>1. Len(l) \in DOMAIN l /\ Len(l) \in Nat
    BY DEF Ends
<1>2. \A j \in Len(l) + 1 .. Len(l) : FALSE
    BY <1>1
<1> QED
    BY <1>1, <1>2 DEF Concludes, Ends

LEMMA LastOfConcat ==
    ASSUME NEW S, NEW a \in Seq(S), NEW b \in Seq(S), NEW T, NEW x, LastOf(a \o b, T, x)
    PROVE  LastOf(b, T, x) \/ (LastOf(a, T, x) /\ Range(b) \cap T = {})
<1>1. /\ Len(a) \in Nat /\ Len(b) \in Nat /\ Len(a \o b) = Len(a) + Len(b)
      /\ DOMAIN a = 1 .. Len(a) /\ DOMAIN b = 1 .. Len(b) /\ DOMAIN (a \o b) = 1 .. Len(a) + Len(b)
      /\ \A i \in 1 .. Len(a) : (a \o b)[i] = a[i]
      /\ \A i \in 1 .. Len(b) : (a \o b)[Len(a) + i] = b[i]
    BY ConcatProperties
<1>2. PICK i \in 1 .. Len(a) + Len(b) :
        (a \o b)[i] = x /\ \A j \in i + 1 .. Len(a) + Len(b) : (a \o b)[j] \notin T
    BY <1>1 DEF LastOf
<1>3. CASE i > Len(a)
    <2>1. PICK k \in 1 .. Len(b) : i = Len(a) + k
        <3>1. i - Len(a) \in 1 .. Len(b) /\ i = Len(a) + (i - Len(a))
            BY <1>1, <1>3
        <3> QED
            BY <3>1
    <2>2. b[k] = x
        BY <1>1, <1>2, <2>1
    <2>3. ASSUME NEW j \in k + 1 .. Len(b) PROVE b[j] \notin T
        <3>1. j \in 1 .. Len(b) /\ Len(a) + j \in i + 1 .. Len(a) + Len(b)
            BY <1>1, <2>1
        <3> QED
            BY <1>1, <1>2, <3>1
    <2> QED
        BY <1>1, <2>2, <2>3 DEF LastOf
<1>4. CASE i =< Len(a)
    <2>1. i \in DOMAIN a /\ a[i] = x
        BY <1>1, <1>2, <1>4
    <2>2. \A j \in i + 1 .. Len(a) : a[j] \notin T
        <3>1. ASSUME NEW j \in i + 1 .. Len(a) PROVE a[j] \notin T
            <4>1. j \in 1 .. Len(a) /\ j \in i + 1 .. Len(a) + Len(b)
                BY <1>1
            <4> QED
                BY <1>1, <1>2, <4>1
        <3> QED
            BY <3>1
    <2>3. ASSUME NEW j \in 1 .. Len(b) PROVE b[j] \notin T
        <3>1. Len(a) + j \in i + 1 .. Len(a) + Len(b) /\ (a \o b)[Len(a) + j] = b[j]
            BY <1>1, <1>4
        <3> QED
            BY <1>2, <3>1
    <2> QED
        BY <1>1, <2>1, <2>2, <2>3 DEF LastOf, Range
<1> QED
    BY <1>1, <1>3, <1>4

LEMMA ConcludesPick ==
    ASSUME NEW S, NEW s \in Seq(S), NEW K \in SUBSET DOMAIN s, NEW c, Concludes(s, c),
           \A i \in DOMAIN s : s[i] = c => i \in K
    PROVE  Concludes(Pick(s, K), c)
<1> DEFINE p == Pick(s, K)
<1>1. /\ IsFiniteSet(K) /\ p \in Seq(S) /\ Len(p) \in Nat /\ DOMAIN p = 1 .. Len(p)
      /\ \A i \in K : Rank(K, i) \in 1 .. Len(p) /\ p[Rank(K, i)] = s[i]
    BY PickElements
<1>2. PICK i \in DOMAIN s : s[i] = c /\ \A j \in i + 1 .. Len(s) : s[j] \notin RivalsOf(c)
    BY DEF Concludes
<1>3. i \in K
    BY <1>2
<1>4. ASSUME NEW l \in Rank(K, i) + 1 .. Len(p) PROVE p[l] \notin RivalsOf(c)
    <2>1. Rank(K, i) \in DOMAIN p /\ l \in DOMAIN p /\ Rank(K, i) < l
        BY <1>1, <1>3
    <2>2. PICK x, j \in K : x < j /\ p[l] = s[j] /\ Rank(K, x) = Rank(K, i)
        BY <2>1, PickOrder
    <2>3. K \in SUBSET Int
        OBVIOUS
    <2>4. x = i
        BY <1>1, <1>3, <2>2, <2>3, RankInjective
    <2>5. j \in i + 1 .. Len(s)
        BY <2>2, <2>4
    <2> QED
        BY <1>2, <2>2, <2>5
<1> QED
    BY <1>1, <1>2, <1>3, <1>4 DEF Concludes

LEMMA ConcludesConcat ==
    ASSUME NEW S, NEW a \in Seq(S), NEW b \in Seq(S), NEW c
    PROVE  Concludes(a \o b, c) <=>
              Concludes(b, c) \/ (Concludes(a, c) /\ Range(b) \cap RivalsOf(c) = {})
<1>1. /\ a \o b \in Seq(S) /\ Len(a \o b) = Len(a) + Len(b) /\ Len(a) \in Nat /\ Len(b) \in Nat
      /\ DOMAIN a = 1 .. Len(a) /\ DOMAIN b = 1 .. Len(b) /\ DOMAIN (a \o b) = 1 .. Len(a) + Len(b)
      /\ \A i \in 1 .. Len(a) : (a \o b)[i] = a[i]
      /\ \A i \in 1 .. Len(b) : (a \o b)[Len(a) + i] = b[i]
    BY ConcatProperties
<1>2. ASSUME Concludes(b, c) PROVE Concludes(a \o b, c)
    <2>1. PICK i \in 1 .. Len(b) : b[i] = c /\ \A j \in i + 1 .. Len(b) : b[j] \notin RivalsOf(c)
        BY <1>1, <1>2 DEF Concludes
    <2>2. Len(a) + i \in DOMAIN (a \o b) /\ (a \o b)[Len(a) + i] = c
        BY <1>1, <2>1
    <2>3. ASSUME NEW j \in Len(a) + i + 1 .. Len(a \o b) PROVE (a \o b)[j] \notin RivalsOf(c)
        <3>1. j - Len(a) \in i + 1 .. Len(b) /\ Len(a) + (j - Len(a)) = j
            BY <1>1
        <3>2. (a \o b)[Len(a) + (j - Len(a))] = b[j - Len(a)]
            BY <1>1, <3>1
        <3> QED
            BY <2>1, <3>1, <3>2
    <2> QED
        BY <2>2, <2>3 DEF Concludes
<1>3. ASSUME Concludes(a, c), Range(b) \cap RivalsOf(c) = {} PROVE Concludes(a \o b, c)
    <2>1. PICK i \in 1 .. Len(a) : a[i] = c /\ \A j \in i + 1 .. Len(a) : a[j] \notin RivalsOf(c)
        BY <1>1, <1>3 DEF Concludes
    <2>2. ASSUME NEW j \in i + 1 .. Len(a \o b) PROVE (a \o b)[j] \notin RivalsOf(c)
        <3>1. CASE j =< Len(a)
            BY <1>1, <2>1, <3>1
        <3>2. CASE j > Len(a)
            <4>1. j - Len(a) \in 1 .. Len(b) /\ Len(a) + (j - Len(a)) = j
                BY <1>1, <3>2
            <4>2. (a \o b)[Len(a) + (j - Len(a))] = b[j - Len(a)]
                BY <1>1, <4>1
            <4> QED
                BY <1>1, <1>3, <4>1, <4>2 DEF Range
        <3> QED
            BY <1>1, <3>1, <3>2
    <2> QED
        BY <1>1, <2>1, <2>2 DEF Concludes
<1>4. ASSUME Concludes(a \o b, c)
      PROVE  Concludes(b, c) \/ (Concludes(a, c) /\ Range(b) \cap RivalsOf(c) = {})
    <2>1. PICK i \in 1 .. Len(a) + Len(b) :
            (a \o b)[i] = c /\ \A j \in i + 1 .. Len(a) + Len(b) : (a \o b)[j] \notin RivalsOf(c)
        BY <1>1, <1>4 DEF Concludes
    <2>2. CASE i > Len(a)
        <3>1. i - Len(a) \in 1 .. Len(b) /\ Len(a) + (i - Len(a)) = i
            BY <1>1, <2>2
        <3>2. (a \o b)[Len(a) + (i - Len(a))] = b[i - Len(a)]
            BY <1>1, <3>1
        <3>3. b[i - Len(a)] = c
            BY <2>1, <3>1, <3>2
        <3>4. ASSUME NEW j \in i - Len(a) + 1 .. Len(b) PROVE b[j] \notin RivalsOf(c)
            <4>1. j \in 1 .. Len(b) /\ Len(a) + j \in i + 1 .. Len(a) + Len(b)
                BY <1>1, <2>2
            <4> QED
                BY <1>1, <2>1, <4>1
        <3> QED
            BY <1>1, <3>1, <3>3, <3>4 DEF Concludes
    <2>3. CASE i =< Len(a)
        <3>1. ASSUME NEW j \in 1 .. Len(b) PROVE b[j] \notin RivalsOf(c)
            <4>1. Len(a) + j \in i + 1 .. Len(a) + Len(b) /\ (a \o b)[Len(a) + j] = b[j]
                BY <1>1, <2>3
            <4> QED
                BY <2>1, <4>1
        <3>2. i \in DOMAIN a /\ a[i] = c /\ \A j \in i + 1 .. Len(a) : a[j] \notin RivalsOf(c)
            BY <1>1, <2>1, <2>3
        <3> QED
            BY <1>1, <3>1, <3>2 DEF Concludes, Range
    <2> QED
        BY <1>1, <2>2, <2>3
<1> QED
    BY <1>2, <1>3, <1>4

LEMMA ConcludesClear ==
    ASSUME NEW S, NEW l \in Seq(S), NEW c, Clear(l, c)
    PROVE  Concludes(l, c)
<1>1. PICK i \in DOMAIN l : l[i] = c
    BY DEF Clear, Range
<1>2. \A j \in i + 1 .. Len(l) : l[j] \in Range(l)
    BY <1>1 DEF Range
<1> QED
    BY <1>1, <1>2 DEF Clear, Concludes

----------------------------------------------------------------------------
(* Summaries *)

LEMMA Constants ==
    /\ IsFiniteSet(Order) /\ IsFiniteSet(Label) /\ IsFiniteSet(Point)
    /\ Conclusion \subseteq Label /\ Asks \in Point /\ Order \cap Label = {} /\ Point \cap Label = {}
    /\ Order \cap Point = {} /\ Nothing \notin Order \union Label \union Point
    /\ Queries \subseteq Says /\ Replies \subseteq Says /\ Nothing \in Replies
    /\ Answers \subseteq StructuredSummary
    /\ Budget \in Nat \ {0} /\ MaxMessages \in Nat \ {0} /\ KeepRecent \in Nat \ {0}
    /\ LongCost \in Nat \ {0} /\ OrderCap \in Nat \ {0} /\ ConfirmedCap \in Nat \ {0}
    /\ PendingCap \in Nat \ {0}
    /\ MaxItems \in Nat /\ MaxItems >= 3 /\ MaxTurns \in Nat /\ MaxTurns >= 2
<1>1. IsFiniteSet({Reviewing}) /\ IsFiniteSet({Refunded}) /\ IsFiniteSet({Asks})
    BY FS_Singleton
<1>2. IsFiniteSet({Reviewing} \union {Refunded})
    BY <1>1, FS_Union
<1>3. Conclusion = {Reviewing} \union {Refunded}
    BY DEF Conclusion
<1>4. IsFiniteSet(Conclusion)
    BY <1>2, <1>3
<1>5. IsFiniteSet(Label) /\ IsFiniteSet(Point)
    BY <1>1, <1>4, FS_Union, ContextAssumption DEF Label, Point
<1> QED
    BY <1>5, ContextAssumption DEF Label, Point

(* Fields of a summary.                                                    *)
LEMMA SummaryFields ==
    ASSUME NEW s \in StructuredSummary
    PROVE  /\ s.orders \in Seq(Order) /\ s.confirmed \in Seq(Label) /\ s.pending \in Seq(Point)
           /\ Len(s.orders) \in Nat /\ Len(s.confirmed) \in Nat /\ Len(s.pending) \in Nat
           /\ Items(s) = Len(s.orders) + Len(s.confirmed) + Len(s.pending)
           /\ s = [orders |-> s.orders, confirmed |-> s.confirmed, pending |-> s.pending]
    BY DEF StructuredSummary, Items

LEMMA SummaryOf ==
    ASSUME NEW o \in Seq(Order), NEW c \in Seq(Label), NEW p \in Seq(Point)
    PROVE  [orders |-> o, confirmed |-> c, pending |-> p] \in StructuredSummary
    BY DEF StructuredSummary

LEMMA EmptyRange ==
    ASSUME NEW S, NEW s \in Seq(S)
    PROVE  Range(s) = {} <=> s = <<>>
<1>1. ASSUME s # <<>> PROVE Range(s) # {}
    BY <1>1, EndsElement
<1>2. Range(<<>>) = {}
    BY DEF Range
<1> QED
    BY <1>1, <1>2

LEMMA EmptySummaryType ==
    /\ EmptySummary \in StructuredSummary /\ WithinCaps(EmptySummary)
    /\ EmptySummary.orders = <<>> /\ EmptySummary.confirmed = <<>> /\ EmptySummary.pending = <<>>
    /\ Range(EmptySummary.orders) = {} /\ Range(EmptySummary.confirmed) = {}
    /\ Range(EmptySummary.pending) = {}
<1>1. /\ EmptySummary.orders = <<>> /\ EmptySummary.confirmed = <<>> /\ EmptySummary.pending = <<>>
      /\ Len(<<>>) = 0
    BY EmptySeq DEF EmptySummary
<1>2. EmptySummary \in StructuredSummary
    <2>1. <<>> \in Seq(Order) /\ <<>> \in Seq(Label) /\ <<>> \in Seq(Point)
        BY EmptySeq
    <2> QED
        BY <2>1, SummaryOf DEF EmptySummary
<1>3. WithinCaps(EmptySummary)
    BY <1>1, Constants DEF WithinCaps, Items
<1>4. Range(<<>>) = {}
    BY DEF Range
<1> QED
    BY <1>1, <1>2, <1>3, <1>4

LEMMA ExclusiveShorter ==
    ASSUME NEW S, NEW l \in Seq(S)
    PROVE  Len(ExclusiveSequence(l)) =< Len(l) /\ Len(ExclusiveSequence(l)) \in Nat
<1> DEFINE K == {i \in DOMAIN l : ~Overtaken(l, i)}
<1>1. K \in SUBSET DOMAIN l /\ ExclusiveSequence(l) = Pick(l, K)
    BY DEF ExclusiveSequence
<1> HIDE DEF K
<1> QED
    BY <1>1, PickShorter

(* Orders and open points have no rivals: none is lost to another.         *)
LEMMA ExclusivePlain ==
    ASSUME NEW S, S \cap Conclusion = {}, NEW l \in Seq(S)
    PROVE  Range(ExclusiveSequence(l)) = Range(l)
<1>1. ASSUME NEW x \in Range(l) PROVE x \in Range(ExclusiveSequence(l))
    <2>1. x \in S
        BY RangeOfSeq
    <2>2. RivalsOf(x) = {}
        BY <2>1 DEF RivalsOf
    <2>3. Clear(l, x)
        BY <2>2 DEF Clear
    <2> QED
        BY <2>3, ConcludesClear, ExclusiveKeeps DEF Clear
<1> QED
    BY <1>1, ExclusiveElements

(* A field of a merged summary.                                            *)
LEMMA Newer ==
    ASSUME NEW S, NEW l \in Seq(S), NEW cap \in Nat \ {0}
    PROVE  /\ Newest(ExclusiveSequence(l), cap) \in Seq(S)
           /\ Len(Newest(ExclusiveSequence(l), cap)) =< cap
           /\ Len(Newest(ExclusiveSequence(l), cap)) =< Len(ExclusiveSequence(l))
           /\ Range(Newest(ExclusiveSequence(l), cap)) \subseteq Range(ExclusiveSequence(l))
           /\ Range(Newest(ExclusiveSequence(l), cap)) \subseteq Range(l)
           /\ Len(ExclusiveSequence(l)) =< cap =>
                Newest(ExclusiveSequence(l), cap) = ExclusiveSequence(l)
<1> DEFINE e == ExclusiveSequence(l)
<1>1. e \in Seq(S) /\ Range(e) \subseteq Range(l) /\ Len(e) \in Nat
    BY ExclusiveElements, ExclusiveShorter
<1> HIDE DEF e
<1>2. /\ Newest(e, cap) \in Seq(S) /\ Len(Newest(e, cap)) = Least(cap, Len(e))
      /\ Range(Newest(e, cap)) \subseteq Range(e)
      /\ cap >= Len(e) => Newest(e, cap) = e
    BY <1>1, NewestElements
<1> QED
    BY <1>1, <1>2 DEF Least, e

LEMMA NewerEnds ==
    ASSUME NEW S, NEW l \in Seq(S), NEW cap \in Nat \ {0}, NEW x, Ends(l, x)
    PROVE  Ends(Newest(ExclusiveSequence(l), cap), x)
<1>1. ExclusiveSequence(l) \in Seq(S) /\ Ends(ExclusiveSequence(l), x)
    BY ExclusiveElements, ExclusiveEnds
<1> QED
    BY <1>1, NewestEnds

(* The last label of a list stays the last and is not contradicted.        *)
Tops(l, c) == Ends(l, c) /\ Clear(l, c)

LEMMA NewerTops ==
    ASSUME NEW S, NEW l \in Seq(S), NEW cap \in Nat \ {0}, NEW c, Ends(l, c)
    PROVE  Tops(Newest(ExclusiveSequence(l), cap), c)
<1> DEFINE n == Newest(ExclusiveSequence(l), cap)
<1>1. Ends(n, c)
    BY NewerEnds
<1>2. n \in Seq(S) /\ Range(n) \subseteq Range(ExclusiveSequence(l))
    BY Newer
<1>3. Clear(ExclusiveSequence(l), c)
    BY EndsConcludes, ExclusiveKeeps
<1> HIDE DEF n
<1>4. c \in Range(n)
    BY <1>1, <1>2, EndsElement
<1>5. Tops(n, c)
    BY <1>1, <1>2, <1>3, <1>4 DEF Tops, Clear
<1> QED
    BY <1>5 DEF n

(* A field of a merged summary that has room for all of H.                 *)
LEMMA NewerKeeps ==
    ASSUME NEW S, NEW l \in Seq(S), NEW cap \in Nat \ {0},
           NEW H, IsFiniteSet(H), Range(l) \subseteq H, Cardinality(H) =< cap
    PROVE  /\ Newest(ExclusiveSequence(l), cap) = ExclusiveSequence(l)
           /\ Len(ExclusiveSequence(l)) =< Cardinality(H) /\ Len(ExclusiveSequence(l)) \in Nat
<1>1. Len(ExclusiveSequence(l)) =< Cardinality(H) /\ Len(ExclusiveSequence(l)) \in Nat
    BY ExclusiveShort, ExclusiveShorter
<1>2. Cardinality(H) \in Nat
    BY FS_CardinalityType
<1>3. Len(ExclusiveSequence(l)) =< cap
    BY <1>1, <1>2
<1> QED
    BY <1>1, <1>3, Newer

LEMMA MergeIs ==
    ASSUME NEW a \in StructuredSummary, NEW b \in StructuredSummary
    PROVE  /\ Merge(a, b).orders = Newest(ExclusiveSequence(a.orders \o b.orders), OrderCap)
           /\ Merge(a, b).confirmed = Newest(ExclusiveSequence(a.confirmed \o b.confirmed), ConfirmedCap)
           /\ Merge(a, b).pending = Newest(ExclusiveSequence(a.pending \o b.pending), PendingCap)
           /\ a.orders \o b.orders \in Seq(Order) /\ a.confirmed \o b.confirmed \in Seq(Label)
           /\ a.pending \o b.pending \in Seq(Point)
<1>1. /\ a.orders \o b.orders \in Seq(Order) /\ a.confirmed \o b.confirmed \in Seq(Label)
      /\ a.pending \o b.pending \in Seq(Point)
    BY SummaryFields, ConcatProperties
<1> QED
    BY <1>1 DEF Merge

LEMMA MergeType ==
    ASSUME NEW a \in StructuredSummary, NEW b \in StructuredSummary
    PROVE  /\ Merge(a, b) \in StructuredSummary
           /\ Len(Merge(a, b).orders) =< OrderCap /\ Len(Merge(a, b).confirmed) =< ConfirmedCap
           /\ Len(Merge(a, b).pending) =< PendingCap
<1>1. /\ a.orders \o b.orders \in Seq(Order) /\ a.confirmed \o b.confirmed \in Seq(Label)
      /\ a.pending \o b.pending \in Seq(Point)
      /\ Merge(a, b) =
            [orders |-> Newest(ExclusiveSequence(a.orders \o b.orders), OrderCap),
             confirmed |-> Newest(ExclusiveSequence(a.confirmed \o b.confirmed), ConfirmedCap),
             pending |-> Newest(ExclusiveSequence(a.pending \o b.pending), PendingCap)]
    BY MergeIs DEF Merge
<1>2. OrderCap \in Nat \ {0} /\ ConfirmedCap \in Nat \ {0} /\ PendingCap \in Nat \ {0}
    BY Constants
<1> DEFINE o == a.orders \o b.orders
           c == a.confirmed \o b.confirmed
           p == a.pending \o b.pending
<1>7. /\ Merge(a, b).orders = Newest(ExclusiveSequence(o), OrderCap)
      /\ Merge(a, b).confirmed = Newest(ExclusiveSequence(c), ConfirmedCap)
      /\ Merge(a, b).pending = Newest(ExclusiveSequence(p), PendingCap)
    BY MergeIs
<1>8. o \in Seq(Order) /\ c \in Seq(Label) /\ p \in Seq(Point)
    BY <1>1
<1> HIDE DEF o, c, p
<1>3. Merge(a, b).orders \in Seq(Order) /\ Len(Merge(a, b).orders) =< OrderCap
    BY <1>2, <1>7, <1>8, Newer
<1>4. Merge(a, b).confirmed \in Seq(Label) /\ Len(Merge(a, b).confirmed) =< ConfirmedCap
    BY <1>2, <1>7, <1>8, Newer
<1>5. Merge(a, b).pending \in Seq(Point) /\ Len(Merge(a, b).pending) =< PendingCap
    BY <1>2, <1>7, <1>8, Newer
<1>6. Merge(a, b) \in StructuredSummary
    BY <1>1, <1>3, <1>4, <1>5, <1>7, SummaryOf DEF o, c, p
<1> QED
    BY <1>3, <1>4, <1>5, <1>6

LEMMA MergeEnds ==
    ASSUME NEW a \in StructuredSummary, NEW b \in StructuredSummary, NEW x
    PROVE  /\ Ends(a.orders \o b.orders, x) => Ends(Merge(a, b).orders, x)
           /\ Ends(a.confirmed \o b.confirmed, x) => Tops(Merge(a, b).confirmed, x)
           /\ Ends(a.pending \o b.pending, x) => Ends(Merge(a, b).pending, x)
<1> DEFINE o == a.orders \o b.orders
           c == a.confirmed \o b.confirmed
           p == a.pending \o b.pending
<1>1. /\ Merge(a, b).orders = Newest(ExclusiveSequence(o), OrderCap)
      /\ Merge(a, b).confirmed = Newest(ExclusiveSequence(c), ConfirmedCap)
      /\ Merge(a, b).pending = Newest(ExclusiveSequence(p), PendingCap)
      /\ o \in Seq(Order) /\ c \in Seq(Label) /\ p \in Seq(Point)
    BY MergeIs
<1>2. OrderCap \in Nat \ {0} /\ ConfirmedCap \in Nat \ {0} /\ PendingCap \in Nat \ {0}
    BY Constants
<1> HIDE DEF o, c, p
<1>3. Ends(o, x) => Ends(Merge(a, b).orders, x)
    BY <1>1, <1>2, NewerEnds
<1>4. Ends(c, x) => Tops(Merge(a, b).confirmed, x)
    BY <1>1, <1>2, NewerTops
<1>5. Ends(p, x) => Ends(Merge(a, b).pending, x)
    BY <1>1, <1>2, NewerEnds
<1> QED
    BY <1>3, <1>4, <1>5 DEF o, c, p

LEMMA ResolveIs ==
    ASSUME NEW s \in StructuredSummary, NEW order
    PROVE  /\ Resolve(s, order).orders = s.orders
           /\ Resolve(s, order).confirmed = Newest(ExclusiveSequence(s.confirmed), ConfirmedCap)
           /\ Resolve(s, order).pending =
                 Pick(s.pending, {i \in DOMAIN s.pending : ~(Closed(s, order) /\ s.pending[i] = Asks)})
           /\ Resolve(s, order) = [orders |-> Resolve(s, order).orders,
                                   confirmed |-> Resolve(s, order).confirmed,
                                   pending |-> Resolve(s, order).pending]
    BY DEF Resolve

(* An open point stays open unless it is closed.                           *)
LEMMA ResolvePending ==
    ASSUME NEW s \in StructuredSummary, NEW order
    PROVE  /\ Resolve(s, order).pending \in Seq(Point)
           /\ Len(Resolve(s, order).pending) =< Len(s.pending)
           /\ Range(Resolve(s, order).pending) \subseteq Range(s.pending)
           /\ Asks \in Range(s.pending) /\ ~Closed(s, order) => Asks \in Range(Resolve(s, order).pending)
           /\ \A x : Ends(s.pending, x) =>
                 Ends(Resolve(s, order).pending, x) \/ (x = Asks /\ Closed(s, order))
<1> DEFINE p == s.pending
           K == {i \in DOMAIN p : ~(Closed(s, order) /\ p[i] = Asks)}
           r == Resolve(s, order).pending
<1>1. r = Pick(p, K) /\ K \in SUBSET DOMAIN p /\ p \in Seq(Point) /\ Len(p) \in Nat
    BY ResolveIs, SummaryFields
<1>2. \A i \in DOMAIN p : i \in K \/ (Closed(s, order) /\ p[i] = Asks)
    OBVIOUS
<1> HIDE DEF p, K, r
<1>3. r \in Seq(Point) /\ Range(r) = {p[i] : i \in K} /\ Len(r) =< Len(p)
    BY <1>1, PickElements, PickRange, PickShorter
<1>4. Range(r) \subseteq Range(p)
    BY <1>1, <1>3 DEF Range
<1>5. ASSUME Asks \in Range(p), ~Closed(s, order) PROVE Asks \in Range(r)
    <2>1. PICK i \in DOMAIN p : p[i] = Asks
        BY <1>5 DEF Range
    <2> QED
        BY <1>2, <1>3, <1>5, <2>1
<1>6. ASSUME NEW x, Ends(p, x) PROVE Ends(r, x) \/ (x = Asks /\ Closed(s, order))
    <2>1. Len(p) \in DOMAIN p /\ p[Len(p)] = x
        BY <1>1, <1>6 DEF Ends
    <2>2. CASE Len(p) \in K
        BY <1>1, <1>6, <2>2, PickEnds
    <2>3. CASE Len(p) \notin K
        BY <1>2, <2>1, <2>3
    <2> QED
        BY <2>2, <2>3
<1> QED
    BY <1>3, <1>4, <1>5, <1>6 DEF p, r

LEMMA ResolveType ==
    ASSUME NEW s \in StructuredSummary, NEW order
    PROVE  /\ Resolve(s, order) \in StructuredSummary
           /\ Len(Resolve(s, order).confirmed) =< ConfirmedCap
           /\ Len(Resolve(s, order).confirmed) =< Len(s.confirmed)
           /\ \A c : Ends(s.confirmed, c) => Tops(Resolve(s, order).confirmed, c)
<1> DEFINE r == Resolve(s, order)
           e == ExclusiveSequence(s.confirmed)
<1>1. /\ r.orders = s.orders /\ r.confirmed = Newest(e, ConfirmedCap)
      /\ r = [orders |-> r.orders, confirmed |-> r.confirmed, pending |-> r.pending]
    BY ResolveIs
<1>2. r.pending \in Seq(Point)
    BY ResolvePending
<1>3. s.orders \in Seq(Order) /\ s.confirmed \in Seq(Label) /\ Len(s.confirmed) \in Nat
    BY SummaryFields
<1>4. ConfirmedCap \in Nat \ {0}
    BY Constants
<1>5. Len(e) =< Len(s.confirmed) /\ Len(e) \in Nat
    BY <1>3, ExclusiveShorter
<1>6. /\ Newest(e, ConfirmedCap) \in Seq(Label) /\ Len(Newest(e, ConfirmedCap)) =< ConfirmedCap
      /\ Len(Newest(e, ConfirmedCap)) =< Len(e)
    BY <1>3, <1>4, Newer
<1>7. \A c : Ends(s.confirmed, c) => Tops(Newest(e, ConfirmedCap), c)
    BY <1>3, <1>4, NewerTops
<1> HIDE DEF e, r
<1>8. Len(Newest(e, ConfirmedCap)) =< Len(s.confirmed)
    <2>1. Len(Newest(e, ConfirmedCap)) \in Nat
        BY <1>6
    <2> QED
        BY <1>3, <1>5, <1>6, <2>1
<1>9. r \in StructuredSummary
    <2>1. r.orders \in Seq(Order) /\ r.confirmed \in Seq(Label)
        BY <1>1, <1>3, <1>6
    <2> QED
        BY <1>1, <1>2, <2>1, SummaryOf
<1> QED
    BY <1>1, <1>6, <1>7, <1>8, <1>9 DEF r

(* What is cut of a list of n elements: never the last.                    *)
Spares(n, cut) == cut \in 0 .. n /\ (n > 0 => cut =< n - 1)

LEMMA SparesNewest ==
    ASSUME NEW S, NEW l \in Seq(S), NEW cut \in Nat, Spares(Len(l), cut)
    PROVE  /\ Newest(l, Len(l) - cut) \in Seq(S) /\ Len(Newest(l, Len(l) - cut)) = Len(l) - cut
           /\ Range(Newest(l, Len(l) - cut)) \subseteq Range(l)
           /\ cut = 0 => Newest(l, Len(l) - cut) = l
           /\ \A x : Ends(l, x) => Ends(Newest(l, Len(l) - cut), x)
<1>1. PICK n \in Nat : n = Len(l)
    OBVIOUS
<1>0. cut \in 0 .. n /\ (n > 0 => cut =< n - 1)
    BY <1>1 DEF Spares
<1>2. PICK k \in Nat : k = n - cut /\ (n > 0 => k > 0) /\ k =< n
    <2>1. n - cut \in Nat /\ (n > 0 => n - cut > 0) /\ n - cut =< n
        BY <1>0
    <2> QED
        BY <2>1
<1>3. /\ Newest(l, k) \in Seq(S) /\ Len(Newest(l, k)) = Least(k, n)
      /\ Range(Newest(l, k)) \subseteq Range(l) /\ (k >= n => Newest(l, k) = l)
    BY <1>1, NewestElements
<1>4. Len(Newest(l, k)) = k
    BY <1>2, <1>3 DEF Least
<1>5. ASSUME NEW x, Ends(l, x) PROVE Ends(Newest(l, k), x)
    <2>1. k \in Nat \ {0}
        BY <1>1, <1>2, <1>5 DEF Ends
    <2> QED
        BY <1>5, <2>1, NewestEnds
<1> QED
    BY <1>1, <1>2, <1>3, <1>4, <1>5

LEMMA RenderCuts ==
    ASSUME NEW s \in StructuredSummary
    PROVE  \E o, c, p \in Nat :
              /\ Spares(Len(s.orders), o) /\ Spares(Len(s.confirmed), c) /\ Spares(Len(s.pending), p)
              /\ Render(s) = [orders    |-> Newest(s.orders, Len(s.orders) - o),
                              confirmed |-> Newest(s.confirmed, Len(s.confirmed) - c),
                              pending   |-> Newest(s.pending, Len(s.pending) - p)]
              /\ Items(s) =< MaxItems => o = 0 /\ c = 0 /\ p = 0
              /\ Items(s) - o - c - p =< MaxItems
<1> DEFINE over == Most(0, Items(s) - MaxItems)
           fewer == Least(over, Most(0, Len(s.confirmed) - 1))
           closed == Least(over - fewer, Most(0, Len(s.pending) - 1))
           less == Least(over - fewer - closed, Most(0, Len(s.orders) - 1))
<1>1. Render(s) = [orders    |-> Newest(s.orders, Len(s.orders) - less),
                   confirmed |-> Newest(s.confirmed, Len(s.confirmed) - fewer),
                   pending   |-> Newest(s.pending, Len(s.pending) - closed)]
    BY DEF Render
<1>2. /\ Len(s.orders) \in Nat /\ Len(s.confirmed) \in Nat /\ Len(s.pending) \in Nat
      /\ Items(s) = Len(s.orders) + Len(s.confirmed) + Len(s.pending)
    BY SummaryFields
<1>3. MaxItems \in Nat /\ MaxItems >= 3
    BY Constants
<1> HIDE DEF less
<1>4. less = Least(over - fewer - closed, Most(0, Len(s.orders) - 1))
    BY Zenon DEF less
<1> HIDE DEF closed
<1>6. closed = Least(over - fewer, Most(0, Len(s.pending) - 1))
    BY Zenon DEF closed
<1> HIDE DEF fewer
<1>7. fewer = Least(over, Most(0, Len(s.confirmed) - 1))
    BY Zenon DEF fewer
<1> HIDE DEF over
<1>8. over = Most(0, (Len(s.orders) + Len(s.confirmed) + Len(s.pending)) - MaxItems)
    BY <1>2, Zenon DEF over
<1>9. PICK a \in Nat, b \in Nat, d \in Nat, m \in Nat :
        a = Len(s.orders) /\ b = Len(s.confirmed) /\ d = Len(s.pending) /\ m = MaxItems /\ m >= 3
    BY <1>2, <1>3
<1>10. /\ over = Most(0, (a + b + d) - m) /\ fewer = Least(over, Most(0, b - 1))
       /\ closed = Least(over - fewer, Most(0, d - 1))
       /\ less = Least(over - fewer - closed, Most(0, a - 1))
    BY <1>4, <1>6, <1>7, <1>8, <1>9
<1>5. /\ less \in Nat /\ fewer \in Nat /\ closed \in Nat
      /\ Spares(a, less) /\ Spares(b, fewer) /\ Spares(d, closed)
      /\ a + b + d =< m => less = 0 /\ fewer = 0 /\ closed = 0
      /\ (a + b + d) - less - fewer - closed =< m
    <2>1. PICK x \in Nat : x = Most(0, a - 1) /\ (a > 0 => x = a - 1) /\ (a = 0 => x = 0)
        BY DEF Most
    <2>2. PICK y \in Nat : y = Most(0, b - 1) /\ (b > 0 => y = b - 1) /\ (b = 0 => y = 0)
        BY DEF Most
    <2>3. PICK z \in Nat : z = Most(0, d - 1) /\ (d > 0 => z = d - 1) /\ (d = 0 => z = 0)
        BY DEF Most
    <2>4. over \in Nat /\ (a + b + d =< m => over = 0) /\ (a + b + d > m => over = (a + b + d) - m)
        BY <1>10 DEF Most
    <2>5. fewer \in Nat /\ fewer =< over /\ fewer =< y /\ (fewer = over \/ fewer = y)
        BY <1>10, <2>2, <2>4 DEF Least
    <2>6. PICK rest \in Nat : rest = over - fewer
        BY <2>4, <2>5
    <2>7. closed \in Nat /\ closed =< rest /\ closed =< z /\ (closed = rest \/ closed = z)
        BY <1>10, <2>3, <2>6 DEF Least
    <2>8. PICK end \in Nat : end = rest - closed /\ end = over - fewer - closed
        BY <2>4, <2>5, <2>6, <2>7
    <2>9. less \in Nat /\ less =< end /\ less =< x /\ (less = end \/ less = x)
        BY <1>10, <2>1, <2>8 DEF Least
    <2>10. Spares(a, less) /\ Spares(b, fewer) /\ Spares(d, closed)
        BY <2>1, <2>2, <2>3, <2>5, <2>7, <2>9 DEF Spares
    <2>11. a + b + d =< m => less = 0 /\ fewer = 0 /\ closed = 0
        <3> SUFFICES ASSUME a + b + d =< m PROVE less = 0 /\ fewer = 0 /\ closed = 0
            OBVIOUS
        <3>1. over = 0
            BY <2>4
        <3>2. fewer = 0
            BY <2>5, <3>1
        <3>3. rest = 0
            BY <2>6, <3>1, <3>2
        <3>4. closed = 0
            BY <2>7, <3>3
        <3>5. less = 0
            BY <2>8, <2>9, <3>3, <3>4
        <3> QED
            BY <3>2, <3>4, <3>5
    <2>12. (a + b + d) - less - fewer - closed =< m
        <3>1. CASE a + b + d =< m
            BY <2>11, <3>1
        <3>2. CASE a + b + d > m
            <4>1. over = (a + b + d) - m
                BY <2>4, <3>2
            <4>2. CASE less = end
                BY <2>5, <2>7, <2>8, <2>9, <4>1, <4>2
            <4>3. CASE less = x /\ less # end
                <5>1. (closed = z /\ fewer = y) \/ over = fewer + closed
                    BY <2>4, <2>5, <2>6, <2>7
                <5>2. over # fewer + closed
                    BY <2>4, <2>5, <2>6, <2>7, <2>8, <2>9, <4>3
                <5>3. (a + b + d) - less - fewer - closed =< 3
                    BY <2>1, <2>2, <2>3, <4>3, <5>1, <5>2
                <5>4. m >= 3
                    BY <1>9
                <5> QED
                    BY <2>5, <2>7, <2>9, <5>3, <5>4
            <4> QED
                BY <2>9, <4>2, <4>3
        <3> QED
            BY <3>1, <3>2
    <2> QED
        BY <2>5, <2>7, <2>9, <2>10, <2>11, <2>12
<1> QED
    BY <1>1, <1>2, <1>5, <1>9

LEMMA RenderType ==
    ASSUME NEW s \in StructuredSummary
    PROVE  /\ Render(s) \in StructuredSummary
           /\ Len(Render(s).orders) =< Len(s.orders) /\ Len(Render(s).confirmed) =< Len(s.confirmed)
           /\ Len(Render(s).pending) =< Len(s.pending)
           /\ Items(Render(s)) =< MaxItems
           /\ Items(s) =< MaxItems => Render(s) = s
           /\ \A x : Ends(s.orders, x) => Ends(Render(s).orders, x)
           /\ \A x : Tops(s.confirmed, x) => Tops(Render(s).confirmed, x)
           /\ \A x : Ends(s.pending, x) => Ends(Render(s).pending, x)
<1> DEFINE r == Render(s)
<1>1. PICK o, c, p \in Nat :
        /\ Spares(Len(s.orders), o) /\ Spares(Len(s.confirmed), c) /\ Spares(Len(s.pending), p)
        /\ r = [orders    |-> Newest(s.orders, Len(s.orders) - o),
                confirmed |-> Newest(s.confirmed, Len(s.confirmed) - c),
                pending   |-> Newest(s.pending, Len(s.pending) - p)]
        /\ Items(s) =< MaxItems => o = 0 /\ c = 0 /\ p = 0
        /\ Items(s) - o - c - p =< MaxItems
    BY RenderCuts
<1>2. /\ r.orders = Newest(s.orders, Len(s.orders) - o)
      /\ r.confirmed = Newest(s.confirmed, Len(s.confirmed) - c)
      /\ r.pending = Newest(s.pending, Len(s.pending) - p)
      /\ r = [orders |-> r.orders, confirmed |-> r.confirmed, pending |-> r.pending]
    BY <1>1
<1> HIDE DEF r
<1>3. /\ s.orders \in Seq(Order) /\ s.confirmed \in Seq(Label) /\ s.pending \in Seq(Point)
      /\ Len(s.orders) \in Nat /\ Len(s.confirmed) \in Nat /\ Len(s.pending) \in Nat
      /\ Items(s) = Len(s.orders) + Len(s.confirmed) + Len(s.pending)
      /\ s = [orders |-> s.orders, confirmed |-> s.confirmed, pending |-> s.pending]
    BY SummaryFields
<1>4. /\ r.orders \in Seq(Order) /\ Len(r.orders) = Len(s.orders) - o
      /\ (o = 0 => r.orders = s.orders) /\ \A x : Ends(s.orders, x) => Ends(r.orders, x)
    BY <1>1, <1>2, <1>3, SparesNewest, Zenon
<1>5. /\ r.confirmed \in Seq(Label) /\ Len(r.confirmed) = Len(s.confirmed) - c
      /\ Range(r.confirmed) \subseteq Range(s.confirmed)
      /\ (c = 0 => r.confirmed = s.confirmed) /\ \A x : Ends(s.confirmed, x) => Ends(r.confirmed, x)
    BY <1>1, <1>2, <1>3, SparesNewest, Zenon
<1>6. /\ r.pending \in Seq(Point) /\ Len(r.pending) = Len(s.pending) - p
      /\ (p = 0 => r.pending = s.pending) /\ \A x : Ends(s.pending, x) => Ends(r.pending, x)
    BY <1>1, <1>2, <1>3, SparesNewest, Zenon
<1>7. r \in StructuredSummary
    BY <1>2, <1>4, <1>5, <1>6, SummaryOf
<1>8. Items(r) =< MaxItems
    <2>1. Items(r) = Len(r.orders) + Len(r.confirmed) + Len(r.pending)
        BY <1>7, SummaryFields
    <2>2. MaxItems \in Nat
        BY Constants
    <2>3. PICK u, v, w \in Nat :
            /\ Len(s.orders) = u /\ Len(s.confirmed) = v /\ Len(s.pending) = w /\ Items(s) = u + v + w
        BY <1>3
    <2>4. (u + v + w) - o - c - p =< MaxItems
        BY <1>1, <2>3
    <2>5. Len(r.orders) = u - o /\ Len(r.confirmed) = v - c /\ Len(r.pending) = w - p
        BY <1>4, <1>5, <1>6, <2>3
    <2>6. Items(r) = (u - o) + (v - c) + (w - p)
        BY <2>1, <2>5
    <2>7. (u - o) + (v - c) + (w - p) =< MaxItems
        BY <2>2, <2>4
    <2> QED
        BY <2>6, <2>7
<1>9. Items(s) =< MaxItems => r = s
    BY <1>1, <1>2, <1>3, <1>4, <1>5, <1>6
<1>10. ASSUME NEW x, Tops(s.confirmed, x) PROVE Tops(r.confirmed, x)
    <2>1. Ends(r.confirmed, x)
        BY <1>5, <1>10 DEF Tops
    <2>2. x \in Range(r.confirmed)
        BY <1>5, <2>1, EndsElement
    <2> QED
        BY <1>5, <1>10, <2>1, <2>2 DEF Tops, Clear
<1>11. Len(r.orders) =< Len(s.orders) /\ Len(r.confirmed) =< Len(s.confirmed) /\ Len(r.pending) =< Len(s.pending)
    BY <1>3, <1>4, <1>5, <1>6
<1> QED
    BY <1>4, <1>6, <1>7, <1>8, <1>9, <1>10, <1>11 DEF r

LEMMA FinalizeType ==
    ASSUME NEW s \in StructuredSummary, NEW order, Len(s.orders) =< OrderCap, Len(s.pending) =< PendingCap
    PROVE  Finalize(s, order) \in StructuredSummary /\ WithinCaps(Finalize(s, order))
<1> DEFINE m == Resolve(s, order)
           r == Render(m)
<1>1. m \in StructuredSummary /\ Len(m.confirmed) =< ConfirmedCap
    BY ResolveType
<1>2. m.orders = s.orders
    BY ResolveIs
<1>3. Len(m.pending) =< Len(s.pending)
    BY ResolvePending
<1> HIDE DEF m
<1>4. /\ r \in StructuredSummary /\ Len(r.orders) =< Len(m.orders) /\ Len(r.confirmed) =< Len(m.confirmed)
      /\ Len(r.pending) =< Len(m.pending) /\ Items(r) =< MaxItems
    BY <1>1, RenderType
<1> HIDE DEF r
<1>5. /\ Len(s.orders) \in Nat /\ Len(s.pending) \in Nat
      /\ Len(m.orders) \in Nat /\ Len(m.confirmed) \in Nat /\ Len(m.pending) \in Nat
      /\ Len(r.orders) \in Nat /\ Len(r.confirmed) \in Nat /\ Len(r.pending) \in Nat
    BY <1>1, <1>4, SummaryFields
<1>6. OrderCap \in Nat /\ ConfirmedCap \in Nat /\ PendingCap \in Nat
    BY Constants
<1>7. Len(r.orders) =< OrderCap /\ Len(r.confirmed) =< ConfirmedCap /\ Len(r.pending) =< PendingCap
    <2>1. Len(r.orders) =< OrderCap
        BY <1>2, <1>4, <1>5, <1>6
    <2>2. Len(r.confirmed) =< ConfirmedCap
        BY <1>1, <1>4, <1>5, <1>6
    <2>3. Len(r.pending) =< PendingCap
        BY <1>3, <1>4, <1>5, <1>6
    <2> QED
        BY <2>1, <2>2, <2>3
<1>8. WithinCaps(r)
    BY <1>4, <1>7 DEF WithinCaps
<1> QED
    BY <1>4, <1>8 DEF Finalize, r, m

(* The last of each list outlives the caps.                                *)
LEMMA FinalizeEnds ==
    ASSUME NEW s \in StructuredSummary, NEW order, NEW x
    PROVE  /\ Ends(s.orders, x) => Ends(Finalize(s, order).orders, x)
           /\ Ends(s.confirmed, x) => Tops(Finalize(s, order).confirmed, x)
           /\ Ends(s.pending, x) =>
                 Ends(Finalize(s, order).pending, x) \/ (x = Asks /\ Closed(s, order))
           /\ Closed(s, order) => Closed(Finalize(s, order), order)
<1> DEFINE m == Resolve(s, order)
           r == Render(m)
<1>1. m \in StructuredSummary /\ (Ends(s.confirmed, x) => Tops(m.confirmed, x))
    BY ResolveType
<1>2. m.orders = s.orders
    BY ResolveIs
<1>3. Ends(s.pending, x) => Ends(m.pending, x) \/ (x = Asks /\ Closed(s, order))
    BY ResolvePending
<1>0. s.orders \in Seq(Order)
    BY SummaryFields
<1> HIDE DEF m
<1>4. /\ Ends(m.orders, x) => Ends(r.orders, x)
      /\ Tops(m.confirmed, x) => Tops(r.confirmed, x)
      /\ Ends(m.pending, x) => Ends(r.pending, x)
    BY <1>1, RenderType
<1>5. r \in StructuredSummary /\ \A y : Ends(m.orders, y) => Ends(r.orders, y)
    BY <1>1, RenderType
<1> HIDE DEF r
<1>6. s.orders # <<>> => r.orders # <<>>
    <2> SUFFICES ASSUME s.orders # <<>> PROVE r.orders # <<>>
        OBVIOUS
    <2>1. PICK y \in Order : Ends(s.orders, y)
        BY <1>0, EndsElement
    <2>2. Ends(r.orders, y)
        BY <1>2, <1>5, <2>1
    <2>3. r.orders \in Seq(Order)
        BY <1>5, SummaryFields
    <2> QED
        BY <2>2, <2>3, EndsElement
<1>7. Closed(s, order) => Closed(r, order)
    BY <1>6 DEF Closed
<1>8. r = Finalize(s, order)
    BY DEF r, m, Finalize
<1> QED
    BY <1>1, <1>2, <1>3, <1>4, <1>7, <1>8

(* What the caps have room for is not cut.                                 *)
LEMMA FinalizeKeeps ==
    ASSUME NEW s \in StructuredSummary, NEW order,
           Len(s.confirmed) =< ConfirmedCap, Items(s) =< MaxItems
    PROVE  /\ Finalize(s, order) = Resolve(s, order)
           /\ Finalize(s, order).orders = s.orders
           /\ Finalize(s, order).confirmed = ExclusiveSequence(s.confirmed)
<1> DEFINE m == Resolve(s, order)
           e == ExclusiveSequence(s.confirmed)
<1>1. m \in StructuredSummary /\ Len(m.confirmed) =< Len(s.confirmed)
    BY ResolveType
<1>2. m.orders = s.orders /\ m.confirmed = Newest(e, ConfirmedCap)
    BY ResolveIs
<1>3. Len(m.pending) =< Len(s.pending)
    BY ResolvePending
<1>4. s.confirmed \in Seq(Label) /\ ConfirmedCap \in Nat \ {0} /\ MaxItems \in Nat
    BY Constants, SummaryFields
<1>5. Len(e) \in Nat /\ Len(e) =< Len(s.confirmed)
    BY <1>4, ExclusiveShorter
<1>6. Len(e) =< ConfirmedCap => Newest(e, ConfirmedCap) = e
    BY <1>4, Newer
<1> HIDE DEF e, m
<1>7. Newest(e, ConfirmedCap) = e
    BY <1>4, <1>5, <1>6
<1>8. Items(m) =< MaxItems
    <2>1. PICK o \in Nat, c \in Nat, p \in Nat, k \in Nat, l \in Nat :
            /\ o = Len(s.orders) /\ c = Len(s.confirmed) /\ p = Len(s.pending)
            /\ k = Len(m.confirmed) /\ l = Len(m.pending)
        BY <1>1, SummaryFields
    <2>2. Items(s) = o + c + p
        BY <2>1, SummaryFields
    <2>3. Items(m) = o + k + l
        BY <1>1, <1>2, <2>1, SummaryFields
    <2>4. k =< c /\ l =< p /\ o + c + p =< MaxItems
        BY <1>1, <1>3, <2>1, <2>2
    <2>5. o + k + l =< MaxItems
        BY <1>4, <2>4
    <2> QED
        BY <2>3, <2>5
<1>9. Render(m) = m
    BY <1>1, <1>8, RenderType
<1> QED
    BY <1>2, <1>7, <1>9 DEF Finalize, m, e

(* A summary that was rendered keeps everything when it is rendered again. *)
LEMMA FinalizeAgain ==
    ASSUME NEW s \in StructuredSummary, NEW order, WithinCaps(s)
    PROVE  /\ Finalize(s, order) \in StructuredSummary /\ WithinCaps(Finalize(s, order))
           /\ Finalize(s, order).orders = s.orders
           /\ Finalize(s, order).confirmed = ExclusiveSequence(s.confirmed)
           /\ Range(Finalize(s, order).pending) \subseteq Range(s.pending)
           /\ Asks \in Range(s.pending) /\ ~Closed(s, order) =>
                 Asks \in Range(Finalize(s, order).pending)
<1>1. /\ Len(s.orders) =< OrderCap /\ Len(s.confirmed) =< ConfirmedCap /\ Len(s.pending) =< PendingCap
      /\ Items(s) =< MaxItems
    BY DEF WithinCaps
<1>2. Finalize(s, order) \in StructuredSummary /\ WithinCaps(Finalize(s, order))
    BY <1>1, FinalizeType
<1>3. /\ Finalize(s, order) = Resolve(s, order) /\ Finalize(s, order).orders = s.orders
      /\ Finalize(s, order).confirmed = ExclusiveSequence(s.confirmed)
    BY <1>1, FinalizeKeeps
<1>4. /\ Range(Resolve(s, order).pending) \subseteq Range(s.pending)
      /\ Asks \in Range(s.pending) /\ ~Closed(s, order) => Asks \in Range(Resolve(s, order).pending)
    BY ResolvePending
<1> QED
    BY <1>2, <1>3, <1>4

(* The summary has room for these orders, labels and open points; s        *)
(* records nothing else.                                                   *)
Ample(O, L, P) ==
    /\ IsFiniteSet(O) /\ IsFiniteSet(L) /\ IsFiniteSet(P)
    /\ Cardinality(O) =< OrderCap /\ Cardinality(L) =< ConfirmedCap /\ Cardinality(P) =< PendingCap
    /\ Cardinality(O) + Cardinality(L) + Cardinality(P) =< MaxItems
Records(s, O, L, P) ==
    Range(s.orders) \subseteq O /\ Range(s.confirmed) \subseteq L /\ Range(s.pending) \subseteq P

LEMMA MergeKeeps ==
    ASSUME NEW a \in StructuredSummary, NEW b \in StructuredSummary, NEW O, NEW L, NEW P,
           Records(a, O, L, P), Records(b, O, L, P), Ample(O, L, P)
    PROVE  /\ Records(Merge(a, b), O, L, P)
           /\ Range(Merge(a, b).orders) = Range(a.orders) \union Range(b.orders)
           /\ Range(Merge(a, b).pending) = Range(a.pending) \union Range(b.pending)
           /\ Merge(a, b).confirmed = ExclusiveSequence(a.confirmed \o b.confirmed)
           /\ Len(Merge(a, b).orders) =< Cardinality(O) /\ Len(Merge(a, b).confirmed) =< Cardinality(L)
           /\ Len(Merge(a, b).pending) =< Cardinality(P)
<1> DEFINE os == a.orders \o b.orders
           cs == a.confirmed \o b.confirmed
           ps == a.pending \o b.pending
           m == Merge(a, b)
<1>1. /\ m.orders = Newest(ExclusiveSequence(os), OrderCap)
      /\ m.confirmed = Newest(ExclusiveSequence(cs), ConfirmedCap)
      /\ m.pending = Newest(ExclusiveSequence(ps), PendingCap)
      /\ os \in Seq(Order) /\ cs \in Seq(Label) /\ ps \in Seq(Point)
    BY MergeIs
<1>2. /\ Range(os) = Range(a.orders) \union Range(b.orders)
      /\ Range(cs) = Range(a.confirmed) \union Range(b.confirmed)
      /\ Range(ps) = Range(a.pending) \union Range(b.pending)
    <2>1. /\ a.orders \in Seq(Order) /\ b.orders \in Seq(Order)
          /\ a.confirmed \in Seq(Label) /\ b.confirmed \in Seq(Label)
          /\ a.pending \in Seq(Point) /\ b.pending \in Seq(Point)
        BY SummaryFields
    <2>2. Range(os) = Range(a.orders) \union Range(b.orders)
        BY <2>1, RangeConcatenation
    <2>3. Range(cs) = Range(a.confirmed) \union Range(b.confirmed)
        BY <2>1, RangeConcatenation
    <2>4. Range(ps) = Range(a.pending) \union Range(b.pending)
        BY <2>1, RangeConcatenation
    <2> QED
        BY <2>2, <2>3, <2>4
<1>3. OrderCap \in Nat \ {0} /\ ConfirmedCap \in Nat \ {0} /\ PendingCap \in Nat \ {0}
    BY Constants
<1>4. /\ IsFiniteSet(O) /\ Cardinality(O) =< OrderCap /\ IsFiniteSet(L) /\ Cardinality(L) =< ConfirmedCap
      /\ IsFiniteSet(P) /\ Cardinality(P) =< PendingCap
    BY DEF Ample
<1>5. Range(os) \subseteq O /\ Range(cs) \subseteq L /\ Range(ps) \subseteq P
    BY <1>2 DEF Records
<1> HIDE DEF os, cs, ps, m
<1>6. m.orders = ExclusiveSequence(os) /\ Len(m.orders) =< Cardinality(O)
    BY <1>1, <1>3, <1>4, <1>5, NewerKeeps
<1>7. m.confirmed = ExclusiveSequence(cs) /\ Len(m.confirmed) =< Cardinality(L)
    BY <1>1, <1>3, <1>4, <1>5, NewerKeeps
<1>8. m.pending = ExclusiveSequence(ps) /\ Len(m.pending) =< Cardinality(P)
    BY <1>1, <1>3, <1>4, <1>5, NewerKeeps
<1>9. Order \cap Conclusion = {} /\ Point \cap Conclusion = {}
    BY Constants
<1>10. Range(m.orders) = Range(os)
    BY <1>1, <1>6, <1>9, ExclusivePlain
<1>11. Range(m.pending) = Range(ps)
    BY <1>1, <1>8, <1>9, ExclusivePlain
<1>12. Range(m.confirmed) \subseteq Range(cs)
    BY <1>1, <1>7, ExclusiveElements
<1>13. Records(m, O, L, P)
    BY <1>5, <1>10, <1>11, <1>12 DEF Records
<1> QED
    BY <1>2, <1>6, <1>7, <1>8, <1>10, <1>11, <1>13 DEF m, cs

LEMMA FinalizeMerged ==
    ASSUME NEW s \in StructuredSummary, NEW order, NEW O, NEW L, NEW P, Ample(O, L, P),
           Len(s.orders) =< Cardinality(O), Len(s.confirmed) =< Cardinality(L), Len(s.pending) =< Cardinality(P)
    PROVE  /\ Finalize(s, order) = Resolve(s, order) /\ Finalize(s, order).orders = s.orders
           /\ Finalize(s, order).confirmed = ExclusiveSequence(s.confirmed)
<1>1. PICK x \in Nat, y \in Nat, z \in Nat : x = Cardinality(O) /\ y = Cardinality(L) /\ z = Cardinality(P)
    BY FS_CardinalityType DEF Ample
<1>2. PICK o \in Nat, c \in Nat, p \in Nat : o = Len(s.orders) /\ c = Len(s.confirmed) /\ p = Len(s.pending)
    BY SummaryFields
<1>3. y =< ConfirmedCap /\ x + y + z =< MaxItems
    BY <1>1 DEF Ample
<1>4. o =< x /\ c =< y /\ p =< z
    BY <1>1, <1>2
<1>5. ConfirmedCap \in Nat /\ MaxItems \in Nat
    BY Constants
<1>6. c =< ConfirmedCap /\ o + c + p =< MaxItems
    BY <1>3, <1>4, <1>5
<1>7. Items(s) = o + c + p
    BY <1>2, SummaryFields
<1>8. Len(s.confirmed) =< ConfirmedCap /\ Items(s) =< MaxItems
    BY <1>2, <1>6, <1>7
<1> QED
    BY <1>8, FinalizeKeeps

----------------------------------------------------------------------------
(* Facts of the messages that leave *)

AnyMessage == [id : Nat, human : BOOLEAN, long : BOOLEAN, says : Says]
SaysOf(ms) == [i \in DOMAIN ms |-> ms[i].says]

LEMMA SaysOfType ==
    ASSUME NEW ms \in Seq(AnyMessage)
    PROVE  /\ SaysOf(ms) \in Seq(Says) /\ Len(SaysOf(ms)) = Len(ms) /\ DOMAIN SaysOf(ms) = DOMAIN ms
           /\ Range(SaysOf(ms)) = Said(ms) /\ Said(ms) \subseteq Says
<1>0. Len(ms) \in Nat /\ DOMAIN ms = 1 .. Len(ms)
    OBVIOUS
<1>1. ASSUME NEW i \in 1 .. Len(ms) PROVE ms[i].says \in Says
    <2>1. ms[i] \in AnyMessage
        BY <1>0
    <2> QED
        BY <2>1 DEF AnyMessage
<1>2. SaysOf(ms) \in [1 .. Len(ms) -> Says]
    BY <1>0, <1>1 DEF SaysOf
<1>3. SaysOf(ms) \in Seq(Says)
    BY <1>0, <1>2, SeqDef
<1>4. Len(SaysOf(ms)) = Len(ms) /\ DOMAIN SaysOf(ms) = DOMAIN ms
    BY <1>0, <1>2, <1>3
<1>5. Range(SaysOf(ms)) = Said(ms)
    BY DEF SaysOf, Said, Range
<1> QED
    BY <1>3, <1>4, <1>5, RangeOfSeq


Facts(says, order) ==
    [orders    |-> Pick(says, {i \in DOMAIN says : says[i] \in Order \ {order}}),
     confirmed |-> Pick(says, {i \in DOMAIN says : says[i] \in Label}),
     pending   |-> Pick(says, {i \in DOMAIN says : says[i] \in Point})]

(* One of the lists of facts: what the messages say of T.                  *)
LEMMA PickSays ==
    ASSUME NEW says \in Seq(Says), NEW T
    PROVE  /\ Pick(says, {i \in DOMAIN says : says[i] \in T}) \in Seq(T)
           /\ Range(Pick(says, {i \in DOMAIN says : says[i] \in T})) = Range(says) \cap T
           /\ \A x : LastOf(says, T, x) => Ends(Pick(says, {i \in DOMAIN says : says[i] \in T}), x)
           /\ \A c \in T : Concludes(says, c) => Concludes(Pick(says, {i \in DOMAIN says : says[i] \in T}), c)
<1> DEFINE K == {i \in DOMAIN says : says[i] \in T}
           p == Pick(says, K)
<1>1. /\ K \in SUBSET DOMAIN says /\ {says[i] : i \in K} = Range(says) \cap T
      /\ \A c \in T : \A i \in DOMAIN says : says[i] = c => i \in K
    BY DEF Range
<1>2. \A x : LastOf(says, T, x) => Ends(p, x)
    BY PickLast
<1> HIDE DEF K
<1>3. p \in Seq(Says) /\ Range(p) = Range(says) \cap T
    BY <1>1, PickElements, PickRange
<1>4. p \in Seq(T)
    <2>1. p \in Seq(Range(says) \cap T)
        BY <1>3, SeqOfRange
    <2> QED
        BY <2>1, SeqMonotonic
<1>5. \A c \in T : Concludes(says, c) => Concludes(p, c)
    BY <1>1, ConcludesPick
<1> QED
    BY <1>2, <1>3, <1>4, <1>5 DEF K

LEMMA FactsType ==
    ASSUME NEW says \in Seq(Says), NEW order
    PROVE  /\ Facts(says, order) \in StructuredSummary
           /\ Range(Facts(says, order).orders) = Range(says) \cap (Order \ {order})
           /\ Range(Facts(says, order).confirmed) = Range(says) \cap Label
           /\ Range(Facts(says, order).pending) = Range(says) \cap Point
<1> DEFINE f == Facts(says, order)
           o == Pick(says, {i \in DOMAIN says : says[i] \in Order \ {order}})
           c == Pick(says, {i \in DOMAIN says : says[i] \in Label})
           p == Pick(says, {i \in DOMAIN says : says[i] \in Point})
<1>1. f = [orders |-> o, confirmed |-> c, pending |-> p]
    BY DEF Facts
<1>2. o \in Seq(Order \ {order}) /\ Range(o) = Range(says) \cap (Order \ {order})
    BY PickSays
<1>3. c \in Seq(Label) /\ Range(c) = Range(says) \cap Label
    BY PickSays
<1>4. p \in Seq(Point) /\ Range(p) = Range(says) \cap Point
    BY PickSays
<1> HIDE DEF o, c, p, f
<1>5. o \in Seq(Order)
    BY <1>2, SeqMonotonic
<1>6. f \in StructuredSummary
    BY <1>1, <1>3, <1>4, <1>5, SummaryOf
<1>7. f.orders = o /\ f.confirmed = c /\ f.pending = p
    BY <1>1
<1> QED
    BY <1>2, <1>3, <1>4, <1>6, <1>7 DEF f

LEMMA FactsEnd ==
    ASSUME NEW says \in Seq(Says), NEW order
    PROVE  /\ \A x : LastOf(says, Order \ {order}, x) => Ends(Facts(says, order).orders, x)
           /\ \A x : LastOf(says, Label, x) => Ends(Facts(says, order).confirmed, x)
           /\ \A x : LastOf(says, Point, x) => Ends(Facts(says, order).pending, x)
           /\ \A c \in Label : Concludes(says, c) => Concludes(Facts(says, order).confirmed, c)
<1> DEFINE f == Facts(says, order)
           o == Pick(says, {i \in DOMAIN says : says[i] \in Order \ {order}})
           c == Pick(says, {i \in DOMAIN says : says[i] \in Label})
           p == Pick(says, {i \in DOMAIN says : says[i] \in Point})
<1>1. f.orders = o /\ f.confirmed = c /\ f.pending = p
    BY DEF Facts
<1>2. \A x : LastOf(says, Order \ {order}, x) => Ends(o, x)
    BY PickSays
<1>3. /\ \A x : LastOf(says, Label, x) => Ends(c, x)
      /\ \A x \in Label : Concludes(says, x) => Concludes(c, x)
    BY PickSays
<1>4. \A x : LastOf(says, Point, x) => Ends(p, x)
    BY PickSays
<1> HIDE DEF f, o, c, p
<1> QED
    BY <1>1, <1>2, <1>3, <1>4 DEF f

LEMMA ExtractIs ==
    ASSUME NEW ms, NEW order
    PROVE  ExtractFacts(ms, order) = Resolve(Merge(EmptySummary, Facts(SaysOf(ms), order)), order)
    BY DEF ExtractFacts, Facts, SaysOf

(* The facts are merged with nothing, so each list is only cut.            *)
LEMMA MergeEmpty ==
    ASSUME NEW f \in StructuredSummary
    PROVE  /\ EmptySummary.orders \o f.orders = f.orders
           /\ EmptySummary.confirmed \o f.confirmed = f.confirmed
           /\ EmptySummary.pending \o f.pending = f.pending
<1>1. f.orders \in Seq(Order) /\ f.confirmed \in Seq(Label) /\ f.pending \in Seq(Point)
    BY SummaryFields
<1>2. <<>> \o f.orders = f.orders
    BY <1>1, ConcatEmptySeq
<1>3. <<>> \o f.confirmed = f.confirmed
    BY <1>1, ConcatEmptySeq
<1>4. <<>> \o f.pending = f.pending
    BY <1>1, ConcatEmptySeq
<1> QED
    BY <1>2, <1>3, <1>4, EmptySummaryType

LEMMA MergeElements ==
    ASSUME NEW a \in StructuredSummary, NEW b \in StructuredSummary
    PROVE  /\ Range(Merge(a, b).orders) \subseteq Range(a.orders \o b.orders)
           /\ Range(Merge(a, b).confirmed) \subseteq Range(a.confirmed \o b.confirmed)
           /\ Range(Merge(a, b).pending) \subseteq Range(a.pending \o b.pending)
<1> DEFINE o == a.orders \o b.orders
           c == a.confirmed \o b.confirmed
           p == a.pending \o b.pending
<1>1. /\ Merge(a, b).orders = Newest(ExclusiveSequence(o), OrderCap)
      /\ Merge(a, b).confirmed = Newest(ExclusiveSequence(c), ConfirmedCap)
      /\ Merge(a, b).pending = Newest(ExclusiveSequence(p), PendingCap)
      /\ o \in Seq(Order) /\ c \in Seq(Label) /\ p \in Seq(Point)
    BY MergeIs
<1>2. OrderCap \in Nat \ {0} /\ ConfirmedCap \in Nat \ {0} /\ PendingCap \in Nat \ {0}
    BY Constants
<1> HIDE DEF o, c, p
<1>3. Range(Merge(a, b).orders) \subseteq Range(o)
    BY <1>1, <1>2, Newer
<1>4. Range(Merge(a, b).confirmed) \subseteq Range(c)
    BY <1>1, <1>2, Newer
<1>5. Range(Merge(a, b).pending) \subseteq Range(p)
    BY <1>1, <1>2, Newer
<1> QED
    BY <1>3, <1>4, <1>5 DEF o, c, p

LEMMA ExtractType ==
    ASSUME NEW ms \in Seq(AnyMessage), NEW order
    PROVE  /\ ExtractFacts(ms, order) \in StructuredSummary
           /\ Records(ExtractFacts(ms, order), Said(ms) \cap (Order \ {order}), Said(ms) \cap Label,
                      Said(ms) \cap Point)
<1> DEFINE f == Facts(SaysOf(ms), order)
           m == Merge(EmptySummary, f)
           d == ExtractFacts(ms, order)
<1>1. SaysOf(ms) \in Seq(Says) /\ Range(SaysOf(ms)) = Said(ms)
    BY SaysOfType
<1>2. /\ f \in StructuredSummary /\ Range(f.orders) = Said(ms) \cap (Order \ {order})
      /\ Range(f.confirmed) = Said(ms) \cap Label /\ Range(f.pending) = Said(ms) \cap Point
    BY <1>1, FactsType
<1>3. d = Resolve(m, order)
    BY ExtractIs
<1> HIDE DEF f
<1>4. EmptySummary \in StructuredSummary
    BY EmptySummaryType
<1>5. m \in StructuredSummary
    BY <1>2, <1>4, MergeType
<1>6. /\ Range(m.orders) \subseteq Range(f.orders) /\ Range(m.confirmed) \subseteq Range(f.confirmed)
      /\ Range(m.pending) \subseteq Range(f.pending)
    BY <1>2, <1>4, MergeElements, MergeEmpty
<1> HIDE DEF m, d
<1>7. d \in StructuredSummary
    BY <1>3, <1>5, ResolveType
<1>8. d.orders = m.orders /\ d.confirmed = Newest(ExclusiveSequence(m.confirmed), ConfirmedCap)
    BY <1>3, <1>5, ResolveIs
<1>9. Range(d.pending) \subseteq Range(m.pending)
    BY <1>3, <1>5, ResolvePending
<1>10. Range(d.confirmed) \subseteq Range(m.confirmed)
    <2>1. m.confirmed \in Seq(Label) /\ ConfirmedCap \in Nat \ {0}
        BY <1>5, SummaryFields, Constants
    <2> QED
        BY <1>8, <2>1, Newer
<1>11. Records(d, Said(ms) \cap (Order \ {order}), Said(ms) \cap Label, Said(ms) \cap Point)
    BY <1>2, <1>6, <1>8, <1>9, <1>10 DEF Records
<1> QED
    BY <1>7, <1>11 DEF d

(* The last of each list of facts is extracted, whatever the caps.         *)
LEMMA ExtractEnds ==
    ASSUME NEW ms \in Seq(AnyMessage), NEW order, NEW x
    PROVE  /\ LastOf(SaysOf(ms), Order \ {order}, x) => Ends(ExtractFacts(ms, order).orders, x)
           /\ LastOf(SaysOf(ms), Label, x) => Ends(ExtractFacts(ms, order).confirmed, x)
           /\ LastOf(SaysOf(ms), Point, x) =>
                 Ends(ExtractFacts(ms, order).pending, x)
                 \/ (x = Asks /\ Closed(ExtractFacts(ms, order), order))
<1> DEFINE f == Facts(SaysOf(ms), order)
           m == Merge(EmptySummary, f)
           d == ExtractFacts(ms, order)
<1>1. SaysOf(ms) \in Seq(Says)
    BY SaysOfType
<1>2. f \in StructuredSummary
    BY <1>1, FactsType
<1>3. /\ LastOf(SaysOf(ms), Order \ {order}, x) => Ends(f.orders, x)
      /\ LastOf(SaysOf(ms), Label, x) => Ends(f.confirmed, x)
      /\ LastOf(SaysOf(ms), Point, x) => Ends(f.pending, x)
    BY <1>1, FactsEnd
<1>4. d = Resolve(m, order)
    BY ExtractIs
<1> HIDE DEF f
<1>5. EmptySummary \in StructuredSummary
    BY EmptySummaryType
<1>6. m \in StructuredSummary
    BY <1>2, <1>5, MergeType
<1>7. /\ Ends(f.orders, x) => Ends(m.orders, x)
      /\ Ends(f.confirmed, x) => Tops(m.confirmed, x)
      /\ Ends(f.pending, x) => Ends(m.pending, x)
    <2>1. /\ Ends(EmptySummary.orders \o f.orders, x) => Ends(m.orders, x)
          /\ Ends(EmptySummary.confirmed \o f.confirmed, x) => Tops(m.confirmed, x)
          /\ Ends(EmptySummary.pending \o f.pending, x) => Ends(m.pending, x)
        BY <1>2, <1>5, MergeEnds
    <2>2. /\ EmptySummary.orders \o f.orders = f.orders
          /\ EmptySummary.confirmed \o f.confirmed = f.confirmed
          /\ EmptySummary.pending \o f.pending = f.pending
        BY <1>2, MergeEmpty
    <2> HIDE DEF m
    <2> QED
        BY <2>1, <2>2
<1> HIDE DEF m, d
<1>8. Ends(m.confirmed, x) => Tops(d.confirmed, x)
    BY <1>4, <1>6, ResolveType
<1>9. d.orders = m.orders
    BY <1>4, <1>6, ResolveIs
<1>10. Ends(m.pending, x) => Ends(d.pending, x) \/ (x = Asks /\ Closed(m, order))
    BY <1>4, <1>6, ResolvePending
<1>11. Closed(m, order) <=> Closed(d, order)
    BY <1>9 DEF Closed
<1>12. Tops(m.confirmed, x) => Ends(d.confirmed, x)
    BY <1>8 DEF Tops
<1> QED
    BY <1>3, <1>7, <1>9, <1>10, <1>11, <1>12 DEF d

(* With room for all of them, all facts are extracted, and the last        *)
(* conclusion is not contradicted.                                         *)
LEMMA ExtractKeeps ==
    ASSUME NEW ms \in Seq(AnyMessage), NEW order, NEW O, NEW L, NEW P, Ample(O, L, P),
           Said(ms) \cap (Order \ {order}) \subseteq O, Said(ms) \cap Label \subseteq L,
           Said(ms) \cap Point \subseteq P
    PROVE  /\ Range(ExtractFacts(ms, order).orders) = Said(ms) \cap (Order \ {order})
           /\ \A c \in Label : Concludes(SaysOf(ms), c) => Clear(ExtractFacts(ms, order).confirmed, c)
           /\ Asks \in Said(ms) /\ ~Closed(ExtractFacts(ms, order), order) =>
                 Asks \in Range(ExtractFacts(ms, order).pending)
<1> DEFINE f == Facts(SaysOf(ms), order)
           m == Merge(EmptySummary, f)
           d == ExtractFacts(ms, order)
<1>1. SaysOf(ms) \in Seq(Says) /\ Range(SaysOf(ms)) = Said(ms)
    BY SaysOfType
<1>2. /\ f \in StructuredSummary /\ Range(f.orders) = Said(ms) \cap (Order \ {order})
      /\ Range(f.confirmed) = Said(ms) \cap Label /\ Range(f.pending) = Said(ms) \cap Point
    BY <1>1, FactsType
<1>3. \A c \in Label : Concludes(SaysOf(ms), c) => Concludes(f.confirmed, c)
    BY <1>1, FactsEnd
<1>4. d = Resolve(m, order)
    BY ExtractIs
<1> HIDE DEF f
<1>5. /\ EmptySummary \in StructuredSummary /\ Range(EmptySummary.orders) = {}
      /\ Range(EmptySummary.confirmed) = {} /\ Range(EmptySummary.pending) = {}
    BY EmptySummaryType
<1>6. Records(f, O, L, P) /\ Records(EmptySummary, O, L, P)
    BY <1>2, <1>5 DEF Records
<1>7. m \in StructuredSummary
    BY <1>2, <1>5, MergeType
<1>8. /\ Range(m.orders) = Range(EmptySummary.orders) \union Range(f.orders)
      /\ Range(m.pending) = Range(EmptySummary.pending) \union Range(f.pending)
      /\ m.confirmed = ExclusiveSequence(EmptySummary.confirmed \o f.confirmed)
      /\ Len(m.confirmed) =< Cardinality(L)
    BY <1>2, <1>5, <1>6, MergeKeeps
<1>9. m.confirmed = ExclusiveSequence(f.confirmed)
    BY <1>2, <1>8, MergeEmpty
<1> HIDE DEF m, d
<1>10. d.orders = m.orders /\ d.confirmed = Newest(ExclusiveSequence(m.confirmed), ConfirmedCap)
    BY <1>4, <1>7, ResolveIs
<1>11. Asks \in Range(m.pending) /\ ~Closed(m, order) => Asks \in Range(d.pending)
    BY <1>4, <1>7, ResolvePending
<1>12. m.confirmed \in Seq(Label) /\ f.confirmed \in Seq(Label)
    BY <1>2, <1>7, SummaryFields
<1>13. d.confirmed = ExclusiveSequence(m.confirmed)
    <2>1. Range(m.confirmed) \subseteq L
        <3>1. Range(m.confirmed) \subseteq Range(f.confirmed)
            BY <1>9, <1>12, ExclusiveElements
        <3> QED
            BY <1>2, <3>1
    <2>2. IsFiniteSet(L) /\ Cardinality(L) =< ConfirmedCap /\ ConfirmedCap \in Nat \ {0}
        BY Constants DEF Ample
    <2> QED
        BY <1>10, <1>12, <2>1, <2>2, NewerKeeps
<1>14. ASSUME NEW c \in Label, Concludes(SaysOf(ms), c) PROVE Clear(d.confirmed, c)
    <2>1. Clear(m.confirmed, c)
        BY <1>3, <1>9, <1>12, <1>14, ExclusiveKeeps
    <2>2. Concludes(m.confirmed, c)
        BY <1>12, <2>1, ConcludesClear
    <2> QED
        BY <1>12, <1>13, <2>2, ExclusiveKeeps
<1>15. Range(d.orders) = Said(ms) \cap (Order \ {order})
    BY <1>2, <1>5, <1>8, <1>10
<1>16. Asks \in Said(ms) => Asks \in Range(m.pending)
    <2>1. Asks \in Point
        BY Constants
    <2> QED
        BY <1>2, <1>8, <2>1
<1>17. Closed(m, order) <=> Closed(d, order)
    BY <1>10 DEF Closed
<1> QED
    BY <1>11, <1>14, <1>15, <1>16, <1>17 DEF d

----------------------------------------------------------------------------
(* Folding *)

LEMMA FoldedType ==
    ASSUME NEW b \in StructuredSummary, NEW d \in StructuredSummary, NEW order
    PROVE  Finalize(Merge(b, d), order) \in StructuredSummary /\ WithinCaps(Finalize(Merge(b, d), order))
<1>1. /\ Merge(b, d) \in StructuredSummary /\ Len(Merge(b, d).orders) =< OrderCap
      /\ Len(Merge(b, d).pending) =< PendingCap
    BY MergeType
<1> QED
    BY <1>1, FinalizeType

LEMMA FoldedEnds ==
    ASSUME NEW b \in StructuredSummary, NEW d \in StructuredSummary, NEW order, NEW x
    PROVE  /\ Ends(b.orders \o d.orders, x) => Ends(Finalize(Merge(b, d), order).orders, x)
           /\ Ends(b.confirmed \o d.confirmed, x) => Tops(Finalize(Merge(b, d), order).confirmed, x)
           /\ Ends(b.pending \o d.pending, x) =>
                 Ends(Finalize(Merge(b, d), order).pending, x)
                 \/ (x = Asks /\ Closed(Finalize(Merge(b, d), order), order))
<1> DEFINE m == Merge(b, d)
           r == Finalize(m, order)
<1>1. m \in StructuredSummary
    BY MergeType
<1>2. /\ Ends(b.orders \o d.orders, x) => Ends(m.orders, x)
      /\ Ends(b.confirmed \o d.confirmed, x) => Tops(m.confirmed, x)
      /\ Ends(b.pending \o d.pending, x) => Ends(m.pending, x)
    BY MergeEnds
<1> HIDE DEF m
<1>3. /\ Ends(m.orders, x) => Ends(r.orders, x)
      /\ Ends(m.confirmed, x) => Tops(r.confirmed, x)
      /\ Ends(m.pending, x) => Ends(r.pending, x) \/ (x = Asks /\ Closed(m, order))
      /\ Closed(m, order) => Closed(r, order)
    BY <1>1, FinalizeEnds
<1>4. Tops(m.confirmed, x) => Ends(m.confirmed, x)
    BY DEF Tops
<1> HIDE DEF r
<1> QED
    BY <1>2, <1>3, <1>4 DEF r, m

(* Once an order is known, one stays known.                                *)
LEMMA FoldedClosed ==
    ASSUME NEW b \in StructuredSummary, NEW d \in StructuredSummary, NEW order,
           Closed(b, order) \/ Closed(d, order)
    PROVE  Closed(Finalize(Merge(b, d), order), order)
<1> DEFINE r == Finalize(Merge(b, d), order)
<1>1. CASE order # Nothing
    BY <1>1 DEF Closed
<1>2. CASE b.orders # <<>> \/ d.orders # <<>>
    <2>1. b.orders \in Seq(Order) /\ d.orders \in Seq(Order)
        BY SummaryFields
    <2>2. PICK x \in Order : Ends(b.orders \o d.orders, x)
        BY <1>2, <2>1, ConcatEnds
    <2>3. Ends(r.orders, x)
        BY <2>2, FoldedEnds
    <2>4. r.orders \in Seq(Order)
        BY FoldedType, SummaryFields
    <2>5. r.orders # <<>>
        BY <2>3, <2>4, EndsElement
    <2> QED
        BY <2>5 DEF Closed
<1> QED
    BY <1>1, <1>2 DEF Closed

LEMMA FoldedKeeps ==
    ASSUME NEW b \in StructuredSummary, NEW d \in StructuredSummary, NEW order,
           NEW O, NEW L, NEW P, Ample(O, L, P), Records(b, O, L, P), Records(d, O, L, P)
    PROVE  /\ Range(Finalize(Merge(b, d), order).orders) = Range(b.orders) \union Range(d.orders)
           /\ Records(Finalize(Merge(b, d), order), O, L, P)
           /\ \A c : Concludes(b.confirmed \o d.confirmed, c) => Clear(Finalize(Merge(b, d), order).confirmed, c)
           /\ Asks \in Range(b.pending) \union Range(d.pending)
                 /\ ~Closed(Finalize(Merge(b, d), order), order)
              => Asks \in Range(Finalize(Merge(b, d), order).pending)
<1> DEFINE m == Merge(b, d)
           r == Finalize(m, order)
           cs == b.confirmed \o d.confirmed
<1>1. cs \in Seq(Label)
    BY MergeIs
<1>2. m \in StructuredSummary
    BY MergeType
<1>3. /\ Records(m, O, L, P) /\ Range(m.orders) = Range(b.orders) \union Range(d.orders)
      /\ Range(m.pending) = Range(b.pending) \union Range(d.pending)
      /\ m.confirmed = ExclusiveSequence(cs)
    BY MergeKeeps
<1>4. /\ Len(m.orders) =< Cardinality(O) /\ Len(m.confirmed) =< Cardinality(L)
      /\ Len(m.pending) =< Cardinality(P)
    BY MergeKeeps
<1> HIDE DEF m, cs
<1>5. r = Resolve(m, order) /\ r.orders = m.orders /\ r.confirmed = ExclusiveSequence(m.confirmed)
    BY <1>2, <1>4, FinalizeMerged
<1> HIDE DEF r
<1>6. m.confirmed \in Seq(Label)
    BY <1>2, SummaryFields
<1>7. ASSUME NEW c, Concludes(cs, c) PROVE Clear(r.confirmed, c)
    <2>1. Clear(m.confirmed, c)
        BY <1>1, <1>3, <1>7, ExclusiveKeeps
    <2>2. Concludes(m.confirmed, c)
        BY <1>6, <2>1, ConcludesClear
    <2> QED
        BY <1>5, <1>6, <2>2, ExclusiveKeeps
<1>8. Range(r.confirmed) \subseteq Range(m.confirmed)
    BY <1>5, <1>6, ExclusiveElements
<1>9. /\ Range(r.pending) \subseteq Range(m.pending)
      /\ Asks \in Range(m.pending) /\ ~Closed(m, order) => Asks \in Range(r.pending)
    BY <1>2, <1>5, ResolvePending
<1>10. Closed(m, order) <=> Closed(r, order)
    BY <1>5 DEF Closed
<1>11. Records(r, O, L, P)
    BY <1>3, <1>5, <1>8, <1>9 DEF Records
<1> QED
    BY <1>3, <1>5, <1>7, <1>9, <1>10, <1>11 DEF r, m, cs

LEMMA SaidConcat ==
    ASSUME NEW a \in Seq(AnyMessage), NEW b \in Seq(AnyMessage)
    PROVE  /\ a \o b \in Seq(AnyMessage)
           /\ Said(a \o b) = Said(a) \union Said(b)
           /\ SaysOf(a \o b) = SaysOf(a) \o SaysOf(b)
<1> DEFINE ab == a \o b
           sa == SaysOf(a)
           sb == SaysOf(b)
<1>1. /\ ab \in Seq(AnyMessage) /\ Len(ab) = Len(a) + Len(b)
      /\ \A i \in 1 .. Len(a) + Len(b) : ab[i] = IF i <= Len(a) THEN a[i] ELSE b[i - Len(a)]
    BY ConcatProperties
<1>2. /\ sa \in Seq(Says) /\ Len(sa) = Len(a) /\ sb \in Seq(Says) /\ Len(sb) = Len(b)
    BY SaysOfType
<1>3. /\ SaysOf(ab) \in Seq(Says) /\ Len(SaysOf(ab)) = Len(ab)
    BY <1>1, SaysOfType
<1>4. /\ sa \o sb \in Seq(Says) /\ Len(sa \o sb) = Len(a) + Len(b)
      /\ \A i \in 1 .. Len(a) + Len(b) :
            (sa \o sb)[i] = IF i <= Len(a) THEN sa[i] ELSE sb[i - Len(a)]
    <2> HIDE DEF sa, sb
    <2>1. /\ sa \o sb \in Seq(Says) /\ Len(sa \o sb) = Len(sa) + Len(sb)
          /\ \A i \in 1 .. Len(sa) + Len(sb) :
                (sa \o sb)[i] = IF i <= Len(sa) THEN sa[i] ELSE sb[i - Len(sa)]
        BY <1>2, ConcatProperties
    <2> QED
        BY <1>2, <2>1
<1>5. PICK m \in Nat, n \in Nat : m = Len(a) /\ n = Len(b) /\ DOMAIN a = 1 .. m /\ DOMAIN b = 1 .. n
                                  /\ DOMAIN ab = 1 .. m + n
    <2> HIDE DEF ab
    <2> QED
        BY <1>1
<1>6. ASSUME NEW i \in 1 .. m + n PROVE SaysOf(ab)[i] = (sa \o sb)[i]
    <2>1. SaysOf(ab)[i] = ab[i].says
        BY <1>5 DEF SaysOf
    <2>2. CASE i <= m
        <3>1. i \in 1 .. m
            BY <2>2
        <3>2. sa[i] = a[i].says
            BY <1>5, <3>1 DEF SaysOf
        <3>3. ab[i] = a[i] /\ (sa \o sb)[i] = sa[i]
            BY <1>1, <1>4, <1>5, <2>2
        <3> QED
            BY <2>1, <3>2, <3>3
    <2>3. CASE ~(i <= m)
        <3>1. i - m \in 1 .. n
            BY <2>3
        <3>2. sb[i - m] = b[i - m].says
            BY <1>5, <3>1 DEF SaysOf
        <3>3. ab[i] = b[i - m] /\ (sa \o sb)[i] = sb[i - m]
            BY <1>1, <1>4, <1>5, <2>3
        <3> QED
            BY <2>1, <3>2, <3>3
    <2> QED
        BY <2>2, <2>3
<1>7. SaysOf(ab) = sa \o sb
    <2> DEFINE u == SaysOf(ab)
               v == sa \o sb
    <2>1. u \in Seq(Says) /\ v \in Seq(Says) /\ Len(u) = Len(v) /\ Len(u) = m + n
        BY <1>1, <1>3, <1>4, <1>5
    <2>2. \A i \in 1 .. Len(u) : u[i] = v[i]
        BY <1>6, <2>1
    <2> HIDE DEF u, v
    <2>3. u = v
        BY <2>1, <2>2, SeqEqual
    <2> QED
        BY <2>3 DEF u, v
<1>8. Range(ab) = Range(a) \union Range(b)
    BY RangeConcatenation
<1>9. Said(ab) = Said(a) \union Said(b)
    BY <1>8 DEF Said
<1> QED
    BY <1>1, <1>7, <1>9


LEMMA NothingSaid == Said(<<>>) = {} /\ SaysOf(<<>>) = <<>> /\ \A c : ~Concludes(SaysOf(<<>>), c)
<1>1. Range(<<>>) = {}
    BY DEF Range
<1>2. Said(<<>>) = {}
    BY <1>1 DEF Said
<1>3. DOMAIN SaysOf(<<>>) = {}
    BY DEF SaysOf
<1>4. <<>> \in Seq(AnyMessage) /\ Len(<<>>) = 0
    BY EmptySeq
<1>5. SaysOf(<<>>) \in Seq(Says) /\ Len(SaysOf(<<>>)) = 0
    BY <1>4, SaysOfType
<1>6. SaysOf(<<>>) = <<>>
    BY <1>5, EmptySeq
<1> QED
    BY <1>2, <1>3, <1>6 DEF Concludes

(* There is room for what the summary, the model's answer and the messages *)
(* that leave record.                                                      *)
Sayable(s, left, answer, order, O, L, P) ==
    /\ Ample(O, L, P) /\ Records(s, O, L, P) /\ Records(answer, O, L, P)
    /\ Said(left) \cap (Order \ {order}) \subseteq O /\ Said(left) \cap Label \subseteq L
    /\ Said(left) \cap Point \subseteq P

(* What r owes to s, to the answer and to the messages that left.          *)
Owes(s, left, answer, order, r, O, L, P) ==
    /\ Records(r, O, L, P)
    /\ Range(s.orders) \union (Said(left) \cap (Order \ {order})) \subseteq Range(r.orders)
    /\ Asks \in Range(s.pending) \union Said(left) /\ ~Closed(r, order) => Asks \in Range(r.pending)
    /\ \A c \in Conclusion :
          \/ Concludes(SaysOf(left), c)
          \/ Clear(s.confirmed, c) /\ (Said(left) \union Range(answer.confirmed)) \cap RivalsOf(c) = {}
          => Clear(r.confirmed, c)

Folded(s, left, answer, order, r, O, L, P) ==
    /\ r \in StructuredSummary /\ WithinCaps(r)
    /\ Sayable(s, left, answer, order, O, L, P) => Owes(s, left, answer, order, r, O, L, P)

(* The facts of the messages folded into b, which is s, or s with the      *)
(* model's answer.                                                         *)
LEMMA FoldedInto ==
    ASSUME NEW s \in StructuredSummary, NEW left \in Seq(AnyMessage), NEW answer \in StructuredSummary,
           NEW order, NEW b \in StructuredSummary, NEW O, NEW L, NEW P,
           Sayable(s, left, answer, order, O, L, P) =>
              /\ Records(b, O, L, P) /\ Range(s.orders) \subseteq Range(b.orders)
              /\ Asks \in Range(s.pending) => Asks \in Range(b.pending)
              /\ \A c \in Conclusion :
                    Clear(s.confirmed, c) /\ Range(answer.confirmed) \cap RivalsOf(c) = {}
                    => Concludes(b.confirmed, c)
    PROVE  Folded(s, left, answer, order, Finalize(Merge(b, ExtractFacts(left, order)), order), O, L, P)
<1> DEFINE d == ExtractFacts(left, order)
           r == Finalize(Merge(b, d), order)
<1>1. /\ d \in StructuredSummary
      /\ Records(d, Said(left) \cap (Order \ {order}), Said(left) \cap Label, Said(left) \cap Point)
    BY ExtractType
<1> HIDE DEF d
<1>2. r \in StructuredSummary /\ WithinCaps(r)
    BY <1>1, FoldedType
<1>3. ASSUME Sayable(s, left, answer, order, O, L, P) PROVE Owes(s, left, answer, order, r, O, L, P)
    <2>1. /\ Ample(O, L, P) /\ Said(left) \cap (Order \ {order}) \subseteq O
          /\ Said(left) \cap Label \subseteq L /\ Said(left) \cap Point \subseteq P
        BY <1>3 DEF Sayable
    <2>2. Records(d, O, L, P)
        BY <1>1, <2>1 DEF Records
    <2>3. /\ Records(b, O, L, P) /\ Range(s.orders) \subseteq Range(b.orders)
          /\ Asks \in Range(s.pending) => Asks \in Range(b.pending)
          /\ \A c \in Conclusion :
                Clear(s.confirmed, c) /\ Range(answer.confirmed) \cap RivalsOf(c) = {}
                => Concludes(b.confirmed, c)
        BY <1>3
    <2>4. /\ Range(d.orders) = Said(left) \cap (Order \ {order})
          /\ \A c \in Label : Concludes(SaysOf(left), c) => Clear(d.confirmed, c)
          /\ Asks \in Said(left) /\ ~Closed(d, order) => Asks \in Range(d.pending)
        BY <2>1, ExtractKeeps DEF d
    <2>5. /\ Range(r.orders) = Range(b.orders) \union Range(d.orders)
          /\ Records(r, O, L, P)
          /\ \A c : Concludes(b.confirmed \o d.confirmed, c) => Clear(r.confirmed, c)
          /\ Asks \in Range(b.pending) \union Range(d.pending) /\ ~Closed(r, order) => Asks \in Range(r.pending)
        BY <1>1, <2>1, <2>2, <2>3, FoldedKeeps
    <2>6. Closed(d, order) => Closed(r, order)
        BY <1>1, FoldedClosed
    <2> HIDE DEF r
    <2>7. Asks \in Range(s.pending) \union Said(left) /\ ~Closed(r, order) => Asks \in Range(r.pending)
        BY <2>3, <2>4, <2>5, <2>6
    <2>8. b.confirmed \in Seq(Label) /\ d.confirmed \in Seq(Label)
        BY <1>1, SummaryFields
    <2>9. ASSUME NEW c \in Conclusion, Concludes(SaysOf(left), c) PROVE Clear(r.confirmed, c)
        <3>1. c \in Label
            BY Constants
        <3>2. Concludes(d.confirmed, c)
            BY <2>4, <2>8, <2>9, <3>1, ConcludesClear
        <3>3. Concludes(b.confirmed \o d.confirmed, c)
            BY <2>8, <3>2, ConcludesConcat
        <3> QED
            BY <2>5, <3>3
    <2>10. ASSUME NEW c \in Conclusion, Clear(s.confirmed, c),
                  (Said(left) \union Range(answer.confirmed)) \cap RivalsOf(c) = {}
           PROVE  Clear(r.confirmed, c)
        <3>1. Concludes(b.confirmed, c)
            BY <2>3, <2>10
        <3>2. Range(d.confirmed) \cap RivalsOf(c) = {}
            BY <1>1, <2>10 DEF Records
        <3>3. Concludes(b.confirmed \o d.confirmed, c)
            BY <2>8, <3>1, <3>2, ConcludesConcat
        <3> QED
            BY <2>5, <3>3
    <2>11. Range(s.orders) \union (Said(left) \cap (Order \ {order})) \subseteq Range(r.orders)
        BY <2>3, <2>4, <2>5
    <2> QED
        BY <2>5, <2>7, <2>9, <2>10, <2>11 DEF Owes
<1> QED
    BY <1>2, <1>3 DEF Folded, r, d

(* By the rules alone.                                                     *)
LEMMA FoldedByRules ==
    ASSUME NEW s \in StructuredSummary, NEW left \in Seq(AnyMessage), NEW answer \in StructuredSummary,
           NEW order, NEW O, NEW L, NEW P
    PROVE  Folded(s, left, answer, order, FoldSummary(s, left, order), O, L, P)
<1>1. s.confirmed \in Seq(Label)
    BY SummaryFields
<1>2. \A c : Clear(s.confirmed, c) => Concludes(s.confirmed, c)
    BY <1>1, ConcludesClear
<1>3. Sayable(s, left, answer, order, O, L, P) => Records(s, O, L, P)
    BY DEF Sayable
<1>4. Folded(s, left, answer, order, Finalize(Merge(s, ExtractFacts(left, order)), order), O, L, P)
    BY <1>2, <1>3, FoldedInto
<1> QED
    BY <1>4 DEF FoldSummary

(* By the rules after the model's answer, whatever it is.                  *)
LEMMA FoldedByModel ==
    ASSUME NEW s \in StructuredSummary, NEW left \in Seq(AnyMessage), NEW answer \in StructuredSummary,
           NEW order, NEW O, NEW L, NEW P
    PROVE  Folded(s, left, answer, order, Finalize(Merge(Merge(s, answer), ExtractFacts(left, order)), order),
                  O, L, P)
<1> DEFINE b == Merge(s, answer)
<1>1. b \in StructuredSummary
    BY MergeType
<1>2. ASSUME Sayable(s, left, answer, order, O, L, P)
      PROVE  /\ Records(b, O, L, P) /\ Range(s.orders) \subseteq Range(b.orders)
             /\ Asks \in Range(s.pending) => Asks \in Range(b.pending)
             /\ \A c \in Conclusion :
                   Clear(s.confirmed, c) /\ Range(answer.confirmed) \cap RivalsOf(c) = {}
                   => Concludes(b.confirmed, c)
    <2>1. Ample(O, L, P) /\ Records(s, O, L, P) /\ Records(answer, O, L, P)
        BY <1>2 DEF Sayable
    <2>2. /\ Records(b, O, L, P) /\ Range(b.orders) = Range(s.orders) \union Range(answer.orders)
          /\ Range(b.pending) = Range(s.pending) \union Range(answer.pending)
          /\ b.confirmed = ExclusiveSequence(s.confirmed \o answer.confirmed)
        BY <2>1, MergeKeeps
    <2> HIDE DEF b
    <2>3. /\ s.confirmed \in Seq(Label) /\ answer.confirmed \in Seq(Label)
          /\ s.confirmed \o answer.confirmed \in Seq(Label)
        BY SummaryFields, ConcatProperties
    <2>4. ASSUME NEW c \in Conclusion, Clear(s.confirmed, c), Range(answer.confirmed) \cap RivalsOf(c) = {}
          PROVE  Concludes(b.confirmed, c)
        <3>1. Concludes(s.confirmed, c)
            BY <2>3, <2>4, ConcludesClear
        <3>2. Concludes(s.confirmed \o answer.confirmed, c)
            BY <2>3, <2>4, <3>1, ConcludesConcat
        <3>3. Clear(b.confirmed, c)
            BY <2>2, <2>3, <3>2, ExclusiveKeeps
        <3>4. b.confirmed \in Seq(Label)
            BY <1>1, SummaryFields
        <3> QED
            BY <3>3, <3>4, ConcludesClear
    <2> QED
        BY <2>2, <2>4
<1> HIDE DEF b
<1>3. Folded(s, left, answer, order, Finalize(Merge(b, ExtractFacts(left, order)), order), O, L, P)
    BY <1>1, <1>2, FoldedInto
<1> QED
    BY <1>3 DEF b

LEMMA FoldedByLlm ==
    ASSUME NEW s \in StructuredSummary, NEW left \in Seq(AnyMessage), NEW order,
           NEW llm \in LlmSummaries(s, left, order), NEW O, NEW L, NEW P
    PROVE  /\ llm.answer \in StructuredSummary
           /\ Folded(s, left, llm.answer, order, llm.summary, O, L, P)
<1>1. \/ llm = [answer |-> EmptySummary, summary |-> FoldSummary(s, left, order)]
      \/ \E a \in Answers :
            llm = [answer |-> a,
                   summary |-> Finalize(Merge(Merge(s, a), ExtractFacts(left, order)), order)]
    BY DEF LlmSummaries
<1>2. CASE llm = [answer |-> EmptySummary, summary |-> FoldSummary(s, left, order)]
    <2>1. llm.answer = EmptySummary /\ llm.summary = FoldSummary(s, left, order)
        BY <1>2
    <2>2. EmptySummary \in StructuredSummary
        BY EmptySummaryType
    <2> QED
        BY <2>1, <2>2, FoldedByRules
<1>3. CASE \E a \in Answers :
            llm = [answer |-> a,
                   summary |-> Finalize(Merge(Merge(s, a), ExtractFacts(left, order)), order)]
    <2>1. PICK a \in Answers :
            /\ llm.answer = a
            /\ llm.summary = Finalize(Merge(Merge(s, a), ExtractFacts(left, order)), order)
        BY <1>3
    <2>2. a \in StructuredSummary
        BY Constants
    <2> QED
        BY <2>1, <2>2, FoldedByModel
<1> QED
    BY <1>1, <1>2, <1>3

LEMMA FoldedByNone ==
    ASSUME NEW s \in StructuredSummary, WithinCaps(s), NEW answer, NEW order, NEW O, NEW L, NEW P
    PROVE  /\ Folded(s, <<>>, answer, order, s, O, L, P)
           /\ Folded(s, <<>>, answer, order, Finalize(s, order), O, L, P)
<1> DEFINE r == Finalize(s, order)
<1>1. Said(<<>>) = {} /\ \A c : ~Concludes(SaysOf(<<>>), c)
    BY NothingSaid
<1>2. Folded(s, <<>>, answer, order, s, O, L, P)
    BY <1>1 DEF Folded, Sayable, Owes
<1>3. /\ r \in StructuredSummary /\ WithinCaps(r) /\ r.orders = s.orders
      /\ r.confirmed = ExclusiveSequence(s.confirmed) /\ Range(r.pending) \subseteq Range(s.pending)
      /\ Asks \in Range(s.pending) /\ ~Closed(s, order) => Asks \in Range(r.pending)
    BY FinalizeAgain
<1> HIDE DEF r
<1>4. s.confirmed \in Seq(Label)
    BY SummaryFields
<1>5. Range(r.confirmed) \subseteq Range(s.confirmed)
    BY <1>3, <1>4, ExclusiveElements
<1>6. ASSUME NEW c \in Conclusion, Clear(s.confirmed, c) PROVE Clear(r.confirmed, c)
    BY <1>3, <1>4, <1>6, ConcludesClear, ExclusiveKeeps
<1>7. Closed(s, order) <=> Closed(r, order)
    BY <1>3 DEF Closed
<1>8. ASSUME Sayable(s, <<>>, answer, order, O, L, P) PROVE Owes(s, <<>>, answer, order, r, O, L, P)
    <2>1. Records(r, O, L, P)
        BY <1>3, <1>5, <1>8 DEF Records, Sayable
    <2> QED
        BY <1>1, <1>3, <1>6, <1>7, <2>1 DEF Owes
<1>9. Folded(s, <<>>, answer, order, r, O, L, P)
    BY <1>3, <1>8 DEF Folded
<1> QED
    BY <1>2, <1>9 DEF r

(* A second fold, by the rules.                                            *)
LEMMA FoldedTwice ==
    ASSUME NEW s \in StructuredSummary, NEW answer \in StructuredSummary, NEW order, NEW O, NEW L, NEW P,
           NEW a \in Seq(AnyMessage), NEW b \in Seq(AnyMessage), NEW r, NEW q,
           Folded(s, a, answer, order, r, O, L, P), Folded(r, b, EmptySummary, order, q, O, L, P),
           Closed(r, order) => Closed(q, order)
    PROVE  Folded(s, a \o b, answer, order, q, O, L, P)
<1> DEFINE ab == a \o b
<1>1. Said(ab) = Said(a) \union Said(b) /\ SaysOf(ab) = SaysOf(a) \o SaysOf(b)
    BY SaidConcat
<1> HIDE DEF ab
<1>2. q \in StructuredSummary /\ WithinCaps(q)
    BY DEF Folded
<1>3. ASSUME Sayable(s, ab, answer, order, O, L, P) PROVE Owes(s, ab, answer, order, q, O, L, P)
    <2>1. Sayable(s, a, answer, order, O, L, P)
        BY <1>1, <1>3 DEF Sayable
    <2>2. Owes(s, a, answer, order, r, O, L, P)
        BY <2>1 DEF Folded
    <2>3. Records(r, O, L, P) /\ Records(EmptySummary, O, L, P)
        BY <2>2, EmptySummaryType DEF Owes, Records
    <2>4. Sayable(r, b, EmptySummary, order, O, L, P)
        BY <1>1, <1>3, <2>3 DEF Sayable
    <2>5. Owes(r, b, EmptySummary, order, q, O, L, P)
        BY <2>4 DEF Folded
    <2>6. /\ Records(q, O, L, P)
          /\ Range(s.orders) \union (Said(ab) \cap (Order \ {order})) \subseteq Range(q.orders)
        BY <1>1, <2>2, <2>5 DEF Owes
    <2>7. Asks \in Range(s.pending) \union Said(ab) /\ ~Closed(q, order) => Asks \in Range(q.pending)
        BY <1>1, <2>2, <2>5 DEF Owes
    <2>8. ASSUME NEW c \in Conclusion, Clear(r.confirmed, c), Said(b) \cap RivalsOf(c) = {}
          PROVE  Clear(q.confirmed, c)
        <3>1. Range(EmptySummary.confirmed) = {}
            BY EmptySummaryType
        <3> QED
            BY <2>5, <2>8, <3>1 DEF Owes
    <2>9. ASSUME NEW c \in Conclusion, Concludes(SaysOf(ab), c) PROVE Clear(q.confirmed, c)
        <3>1. /\ SaysOf(a) \in Seq(Says) /\ SaysOf(b) \in Seq(Says) /\ Range(SaysOf(b)) = Said(b)
            BY SaysOfType
        <3>2. Concludes(SaysOf(b), c) \/ (Concludes(SaysOf(a), c) /\ Said(b) \cap RivalsOf(c) = {})
            BY <1>1, <2>9, <3>1, ConcludesConcat
        <3>3. CASE Concludes(SaysOf(b), c)
            BY <2>5, <3>3 DEF Owes
        <3>4. CASE Concludes(SaysOf(a), c) /\ Said(b) \cap RivalsOf(c) = {}
            BY <2>2, <2>8, <3>4 DEF Owes
        <3> QED
            BY <3>2, <3>3, <3>4
    <2>10. ASSUME NEW c \in Conclusion, Clear(s.confirmed, c),
                  (Said(ab) \union Range(answer.confirmed)) \cap RivalsOf(c) = {}
           PROVE  Clear(q.confirmed, c)
        <3>1. /\ (Said(a) \union Range(answer.confirmed)) \cap RivalsOf(c) = {}
              /\ Said(b) \cap RivalsOf(c) = {}
            BY <1>1, <2>10
        <3>2. Clear(r.confirmed, c)
            BY <2>2, <2>10, <3>1 DEF Owes
        <3> QED
            BY <2>8, <3>1, <3>2
    <2> QED
        BY <2>6, <2>7, <2>9, <2>10 DEF Owes
<1> QED
    BY <1>2, <1>3 DEF Folded, ab

(* Of what the messages that left say, the last order, label and open      *)
(* point are at the end of the summary's lists.                            *)
Recent(left, order, q) ==
    /\ \A x : LastOf(SaysOf(left), Order \ {order}, x) => Ends(q.orders, x)
    /\ \A x : LastOf(SaysOf(left), Label, x) => Tops(q.confirmed, x)
    /\ \A x : LastOf(SaysOf(left), Point, x) => Ends(q.pending, x) \/ (x = Asks /\ Closed(q, order))

LEMMA RecentByRules ==
    ASSUME NEW b \in StructuredSummary, NEW left \in Seq(AnyMessage), NEW order
    PROVE  Recent(left, order, Finalize(Merge(b, ExtractFacts(left, order)), order))
<1> DEFINE d == ExtractFacts(left, order)
           r == Finalize(Merge(b, d), order)
<1>1. d \in StructuredSummary
    BY ExtractType
<1>2. /\ \A x : LastOf(SaysOf(left), Order \ {order}, x) => Ends(d.orders, x)
      /\ \A x : LastOf(SaysOf(left), Label, x) => Ends(d.confirmed, x)
      /\ \A x : LastOf(SaysOf(left), Point, x) => Ends(d.pending, x) \/ (x = Asks /\ Closed(d, order))
    BY ExtractEnds
<1> HIDE DEF d
<1>3. /\ b.orders \in Seq(Order) /\ d.orders \in Seq(Order) /\ b.confirmed \in Seq(Label)
      /\ d.confirmed \in Seq(Label) /\ b.pending \in Seq(Point) /\ d.pending \in Seq(Point)
    BY <1>1, SummaryFields
<1>4. \A x : Ends(d.orders, x) => Ends(b.orders \o d.orders, x)
    BY <1>3, ConcatEnds
<1>5. \A x : Ends(d.confirmed, x) => Ends(b.confirmed \o d.confirmed, x)
    BY <1>3, ConcatEnds
<1>6. \A x : Ends(d.pending, x) => Ends(b.pending \o d.pending, x)
    BY <1>3, ConcatEnds
<1>7. /\ \A x : Ends(b.orders \o d.orders, x) => Ends(r.orders, x)
      /\ \A x : Ends(b.confirmed \o d.confirmed, x) => Tops(r.confirmed, x)
      /\ \A x : Ends(b.pending \o d.pending, x) => Ends(r.pending, x) \/ (x = Asks /\ Closed(r, order))
    BY <1>1, FoldedEnds
<1>8. Closed(d, order) => Closed(r, order)
    BY <1>1, FoldedClosed
<1> HIDE DEF r
<1>9. Recent(left, order, r)
    BY <1>2, <1>4, <1>5, <1>6, <1>7, <1>8 DEF Recent
<1> QED
    BY <1>9 DEF r, d

LEMMA RecentByLlm ==
    ASSUME NEW s \in StructuredSummary, NEW left \in Seq(AnyMessage), NEW order,
           NEW llm \in LlmSummaries(s, left, order)
    PROVE  Recent(left, order, llm.summary)
<1>1. \/ llm.summary = Finalize(Merge(s, ExtractFacts(left, order)), order)
      \/ \E a \in Answers : llm.summary = Finalize(Merge(Merge(s, a), ExtractFacts(left, order)), order)
    BY DEF LlmSummaries, FoldSummary
<1>2. ASSUME NEW a \in Answers PROVE Merge(s, a) \in StructuredSummary
    <2>1. a \in StructuredSummary
        BY Constants
    <2> QED
        BY <2>1, MergeType
<1> QED
    BY <1>1, <1>2, RecentByRules

LEMMA RecentTwice ==
    ASSUME NEW a \in Seq(AnyMessage), NEW b \in Seq(AnyMessage), NEW order,
           NEW r \in StructuredSummary, Recent(a, order, r)
    PROVE  Recent(a \o b, order, FoldSummary(r, b, order))
<1> DEFINE d == ExtractFacts(b, order)
           q == Finalize(Merge(r, d), order)
<1>1. /\ d \in StructuredSummary
      /\ Records(d, Said(b) \cap (Order \ {order}), Said(b) \cap Label, Said(b) \cap Point)
    BY ExtractType
<1>2. Recent(b, order, q)
    BY RecentByRules
<1> HIDE DEF d
<1>3. /\ r.orders \in Seq(Order) /\ d.orders \in Seq(Order) /\ r.confirmed \in Seq(Label)
      /\ d.confirmed \in Seq(Label) /\ r.pending \in Seq(Point) /\ d.pending \in Seq(Point)
    BY <1>1, SummaryFields
<1>4. /\ \A x : Ends(r.orders \o d.orders, x) => Ends(q.orders, x)
      /\ \A x : Ends(r.confirmed \o d.confirmed, x) => Tops(q.confirmed, x)
      /\ \A x : Ends(r.pending \o d.pending, x) => Ends(q.pending, x) \/ (x = Asks /\ Closed(q, order))
    BY <1>1, FoldedEnds
<1>5. Closed(r, order) => Closed(q, order)
    BY <1>1, FoldedClosed
<1>6. Said(b) \cap (Order \ {order}) = {} => r.orders \o d.orders = r.orders
    <2> SUFFICES ASSUME Said(b) \cap (Order \ {order}) = {} PROVE r.orders \o d.orders = r.orders
        OBVIOUS
    <2>1. Range(d.orders) = {}
        BY <1>1 DEF Records
    <2>2. d.orders = <<>>
        BY <1>3, <2>1, EmptyRange
    <2> QED
        BY <1>3, <2>2, ConcatEnds
<1>7. Said(b) \cap Label = {} => r.confirmed \o d.confirmed = r.confirmed
    <2> SUFFICES ASSUME Said(b) \cap Label = {} PROVE r.confirmed \o d.confirmed = r.confirmed
        OBVIOUS
    <2>1. Range(d.confirmed) = {}
        BY <1>1 DEF Records
    <2>2. d.confirmed = <<>>
        BY <1>3, <2>1, EmptyRange
    <2> QED
        BY <1>3, <2>2, ConcatEnds
<1>8. Said(b) \cap Point = {} => r.pending \o d.pending = r.pending
    <2> SUFFICES ASSUME Said(b) \cap Point = {} PROVE r.pending \o d.pending = r.pending
        OBVIOUS
    <2>1. Range(d.pending) = {}
        BY <1>1 DEF Records
    <2>2. d.pending = <<>>
        BY <1>3, <2>1, EmptyRange
    <2> QED
        BY <1>3, <2>2, ConcatEnds
<1> DEFINE ab == a \o b
<1>9. ASSUME NEW T, NEW x, LastOf(SaysOf(ab), T, x)
      PROVE  LastOf(SaysOf(b), T, x) \/ (LastOf(SaysOf(a), T, x) /\ Said(b) \cap T = {})
    <2>1. SaysOf(ab) = SaysOf(a) \o SaysOf(b)
        BY SaidConcat
    <2>2. SaysOf(a) \in Seq(Says) /\ SaysOf(b) \in Seq(Says) /\ Range(SaysOf(b)) = Said(b)
        BY SaysOfType
    <2> QED
        BY <1>9, <2>1, <2>2, LastOfConcat
<1> HIDE DEF ab, q
<1>10. ASSUME NEW x, LastOf(SaysOf(ab), Order \ {order}, x) PROVE Ends(q.orders, x)
    <2>1. CASE LastOf(SaysOf(b), Order \ {order}, x)
        BY <1>2, <2>1 DEF Recent
    <2>2. CASE LastOf(SaysOf(a), Order \ {order}, x) /\ Said(b) \cap (Order \ {order}) = {}
        BY <1>4, <1>6, <2>2 DEF Recent
    <2> QED
        BY <1>9, <1>10, <2>1, <2>2
<1>11. ASSUME NEW x, LastOf(SaysOf(ab), Label, x) PROVE Tops(q.confirmed, x)
    <2>1. CASE LastOf(SaysOf(b), Label, x)
        BY <1>2, <2>1 DEF Recent
    <2>2. CASE LastOf(SaysOf(a), Label, x) /\ Said(b) \cap Label = {}
        BY <1>4, <1>7, <2>2 DEF Recent, Tops
    <2> QED
        BY <1>9, <1>11, <2>1, <2>2
<1>12. ASSUME NEW x, LastOf(SaysOf(ab), Point, x)
       PROVE  Ends(q.pending, x) \/ (x = Asks /\ Closed(q, order))
    <2>1. CASE LastOf(SaysOf(b), Point, x)
        BY <1>2, <2>1 DEF Recent
    <2>2. CASE LastOf(SaysOf(a), Point, x) /\ Said(b) \cap Point = {}
        BY <1>4, <1>5, <1>8, <2>2 DEF Recent
    <2> QED
        BY <1>9, <1>12, <2>1, <2>2
<1>13. Recent(ab, order, q)
    BY <1>10, <1>11, <1>12 DEF Recent
<1> QED
    BY <1>13 DEF ab, q, d, FoldSummary

LEMMA RecentFinal ==
    ASSUME NEW left, NEW order, NEW t \in StructuredSummary, Recent(left, order, t)
    PROVE  Recent(left, order, Finalize(t, order))
<1> DEFINE r == Finalize(t, order)
<1>1. /\ \A x : Ends(t.orders, x) => Ends(r.orders, x)
      /\ \A x : Ends(t.confirmed, x) => Tops(r.confirmed, x)
      /\ \A x : Ends(t.pending, x) => Ends(r.pending, x) \/ (x = Asks /\ Closed(t, order))
      /\ Closed(t, order) => Closed(r, order)
    BY FinalizeEnds
<1> HIDE DEF r
<1>2. Recent(left, order, r)
    BY <1>1 DEF Recent, Tops
<1> QED
    BY <1>2 DEF r

LEMMA RecentNone ==
    ASSUME NEW order, NEW q
    PROVE  Recent(<<>>, order, q)
<1>1. \A T, x : ~LastOf(<<>>, T, x)
    BY DEF LastOf
<1> QED
    BY <1>1, NothingSaid DEF Recent

----------------------------------------------------------------------------
(* Window *)

(* A turn of the window that holds one of the KeepRecent newest positions  *)
(* never stops the loop: too few messages follow it.                       *)
LEMMA KeptRecent ==
    ASSUME NEW n \in Nat, NEW window \in SUBSET (1 .. n), NEW ms, NEW ts, NEW s
    PROVE  /\ KeptByBudget(ms, window, ts, s) \in SUBSET window
           /\ \A i \in window : i > n - KeepRecent => i \in KeptByBudget(ms, window, ts, s)
<1> DEFINE rest == Most(1, Budget - Items(s))
           minKeep == Least(KeepRecent, Cardinality(window))
           from(T) == {j \in window : \E i \in T : i =< j}
           after(T) == {j \in window : \A i \in T : i < j}
           stops(T) == Cost(ms, from(T)) > rest /\ Cardinality(after(T)) >= minKeep
<1>1. KeptByBudget(ms, window, ts, s) = window \ UNION {T \in ts : T \subseteq window /\ stops(T)}
    BY DEF KeptByBudget
<1>2. ASSUME NEW i \in window, i > n - KeepRecent, NEW T \in ts, T \subseteq window, stops(T), i \in T
      PROVE  FALSE
    <2>1. Cardinality(after(T)) >= minKeep
        BY <1>2
    <2>2. after(T) \in SUBSET (i + 1 .. n)
        <3>1. ASSUME NEW j \in after(T) PROVE j \in i + 1 .. n
            <4>1. j \in 1 .. n /\ i \in 1 .. n /\ i < j
                BY <1>2
            <4> QED
                BY <4>1
        <3> HIDE DEF after
        <3> QED
            BY <3>1
    <2>3. after(T) \in SUBSET window /\ i \notin after(T)
        BY <1>2
    <2> DEFINE A == after(T)
    <2> HIDE DEF A
    <2>4. A \in SUBSET (i + 1 .. n) /\ A \in SUBSET window /\ i \notin A /\ Cardinality(A) >= minKeep
        BY <2>1, <2>2, <2>3 DEF A
    <2>5. i \in 1 .. n
        OBVIOUS
    <2>6. IsFiniteSet(1 .. n) /\ IsFiniteSet(i + 1 .. n)
          /\ Cardinality(i + 1 .. n) = IF i + 1 > n THEN 0 ELSE n - (i + 1) + 1
        BY <2>5, FS_Interval
    <2>7. IsFiniteSet(window) /\ IsFiniteSet(A) /\ Cardinality(A) =< Cardinality(i + 1 .. n)
        BY <2>4, <2>6, FS_Subset
    <2>8. Cardinality(A) =< Cardinality(window) /\ (Cardinality(window) = Cardinality(A) => window = A)
        BY <2>4, <2>7, FS_Subset
    <2>9. Cardinality(A) # Cardinality(window)
        BY <2>4, <2>8
    <2>10. PICK a \in Nat, w \in Nat : a = Cardinality(A) /\ w = Cardinality(window)
        BY <2>7, FS_CardinalityType
    <2>11. a < w /\ a =< n - i
        <3>1. Cardinality(i + 1 .. n) = n - i
            BY <2>5, <2>6
        <3> QED
            BY <2>7, <2>8, <2>9, <2>10, <3>1
    <2>12. a >= Least(KeepRecent, w)
        BY <2>4, <2>10
    <2>13. KeepRecent \in Nat
        BY Constants
    <2> QED
        BY <1>2, <2>5, <2>11, <2>12, <2>13 DEF Least
<1>3. ASSUME NEW i \in window, i > n - KeepRecent PROVE i \in KeptByBudget(ms, window, ts, s)
    <2> HIDE DEF stops
    <2>1. i \notin UNION {T \in ts : T \subseteq window /\ stops(T)}
        BY <1>2, <1>3
    <2> QED
        BY <1>1, <2>1
<1>4. KeptByBudget(ms, window, ts, s) \in SUBSET window
    BY <1>1
<1> QED
    BY <1>3, <1>4

LEMMA MayLeaveOld ==
    ASSUME NEW ms \in Seq(AnyMessage), NEW out \in SUBSET MayLeave(ms, PartitionTurns(ms))
    PROVE  /\ UNION out \in SUBSET DOMAIN ms
           /\ \A i \in UNION out : i =< Len(ms) - KeepRecent
<1> DEFINE opens == {i \in DOMAIN ms : OpensTurn(ms, i)}
           turnAt(o) == {i \in o .. Len(ms) : \A j \in o + 1 .. i : j \notin opens}
<1>1. Len(ms) \in Nat /\ DOMAIN ms = 1 .. Len(ms)
    OBVIOUS
<1>2. ASSUME NEW o \in opens PROVE turnAt(o) \subseteq DOMAIN ms
    BY <1>1
<1>3. PartitionTurns(ms) = {turnAt(o) : o \in opens}
    BY DEF PartitionTurns
<1> HIDE DEF opens, turnAt
<1>4. \A T \in PartitionTurns(ms) : T \subseteq DOMAIN ms
    BY <1>2, <1>3
<1>5. \A T \in out : T \subseteq DOMAIN ms /\ \A i \in T : i =< Len(ms) - KeepRecent
    BY <1>4 DEF MayLeave
<1> QED
    BY <1>5

(* What a result of compression is: the window holds the recent messages,  *)
(* all others leave, the long ones in the window are replaced, and the     *)
(* summary is folded from what leaves and what the model answered.         *)
Fitting(ms, r, O, L, P) ==
    /\ r.kept \in SUBSET DOMAIN ms
    /\ \A i \in DOMAIN ms : i > Len(ms) - KeepRecent => i \in r.kept
    /\ r.left \in Seq(AnyMessage)
    /\ Range(r.left) = {ms[i] : i \in DOMAIN ms \ r.kept}
    /\ r.answer \in StructuredSummary
    /\ Folded(summary, r.left, r.answer, slot, r.summary, O, L, P)
    /\ Recent(r.left, slot, r.summary)
Distinct(ms) == \A i, j \in DOMAIN ms : ms[i].id = ms[j].id => i = j
Replaces(ms, r) == \A i \in DOMAIN ms : ms[i].id \in r.updated <=> i \in r.kept /\ ms[i].long

LEMMA UnchangedFits ==
    ASSUME NEW ms \in Seq(AnyMessage), summary \in StructuredSummary, WithinCaps(summary),
           NEW O, NEW L, NEW P
    PROVE  Fitting(ms, Unchanged(ms), O, L, P) /\ (Distinct(ms) => Replaces(ms, Unchanged(ms)))
<1> DEFINE r == Unchanged(ms)
<1>1. /\ r.kept = DOMAIN ms /\ r.left = <<>> /\ r.summary = Finalize(summary, slot)
      /\ r.answer = EmptySummary
      /\ r.updated = IdsAt(ms, LongAt(ms, DOMAIN ms))
    BY DEF Unchanged
<1> HIDE DEF r
<1>2. /\ Folded(summary, <<>>, EmptySummary, slot, Finalize(summary, slot), O, L, P)
      /\ Recent(<<>>, slot, Finalize(summary, slot))
      /\ EmptySummary \in StructuredSummary
    BY FoldedByNone, RecentNone, EmptySummaryType
<1>3. <<>> \in Seq(AnyMessage) /\ Range(<<>>) = {}
    BY EmptySeq DEF Range
<1>4. Fitting(ms, r, O, L, P)
    BY <1>1, <1>2, <1>3 DEF Fitting
<1>5. ASSUME Distinct(ms) PROVE Replaces(ms, r)
    BY <1>1, <1>5 DEF Distinct, Replaces, IdsAt, LongAt
<1> QED
    BY <1>4, <1>5 DEF r

LEMMA CompressedFits ==
    ASSUME NEW ms \in Seq(AnyMessage), summary \in StructuredSummary, WithinCaps(summary),
           NEW O, NEW L, NEW P, NEW out \in SUBSET MayLeave(ms, PartitionTurns(ms)),
           NEW r \in Compressed(ms, PartitionTurns(ms), out)
    PROVE  Fitting(ms, r, O, L, P) /\ (Distinct(ms) => Replaces(ms, r))
<1> DEFINE ts == PartitionTurns(ms)
           window == DOMAIN ms \ UNION out
           short == CompactAll(ms)
           first == KeptByBudget(short, window, ts, summary)
           graded == Pick(ms, UNION out)
           shed == Pick(ms, window \ first)
           overflow == graded \o shed
           second(s) == KeptByBudget(short, first, ts, s)
           extra(s) == Pick(ms, first \ second(s))
           last(s) == IF extra(s) = <<>> THEN s ELSE FoldSummary(s, extra(s), slot)
<1>1. PICK llm \in IF overflow = <<>> THEN {[answer |-> EmptySummary, summary |-> summary]}
                  ELSE LlmSummaries(summary, overflow, slot) :
        r = [kept |-> second(llm.summary),
             updated |-> IdsAt(ms, LongAt(ms, window)) \ IdsAt(ms, window \ second(llm.summary)),
             left |-> overflow \o extra(llm.summary),
             answer |-> llm.answer,
             summary |-> Finalize(last(llm.summary), slot)]
    BY DEF Compressed
<1> DEFINE s == llm.summary
           kept == second(s)
           more == extra(s)
           t == last(s)
<1>2. /\ r.kept = kept /\ r.left = overflow \o more /\ r.summary = Finalize(t, slot)
      /\ r.updated = IdsAt(ms, LongAt(ms, window)) \ IdsAt(ms, window \ kept)
      /\ r.answer = llm.answer
    BY <1>1
<1>3. Len(ms) \in Nat /\ DOMAIN ms = 1 .. Len(ms)
    OBVIOUS
<1>4. UNION out \in SUBSET DOMAIN ms /\ \A i \in UNION out : i =< Len(ms) - KeepRecent
    BY MayLeaveOld
<1>5. /\ window \in SUBSET (1 .. Len(ms))
      /\ \A i \in DOMAIN ms : i > Len(ms) - KeepRecent => i \in window
    <2>1. ASSUME NEW i \in DOMAIN ms, i > Len(ms) - KeepRecent PROVE i \notin UNION out
        <3>1. Len(ms) - KeepRecent \in Int /\ i \in Int
            BY <1>3, Constants
        <3>2. ~(i =< Len(ms) - KeepRecent)
            BY <2>1, <3>1
        <3> QED
            BY <1>4, <3>2, Zenon
    <2> QED
        BY <1>3, <2>1
<1>6. first \in SUBSET window /\ \A i \in window : i > Len(ms) - KeepRecent => i \in first
    <2> HIDE DEF window
    <2> QED
        BY <1>3, <1>5, KeptRecent
<1>7. kept \in SUBSET first /\ \A i \in first : i > Len(ms) - KeepRecent => i \in kept
    <2>1. first \in SUBSET (1 .. Len(ms))
        BY <1>5, <1>6
    <2> HIDE DEF first
    <2> QED
        BY <1>3, <2>1, KeptRecent
<1>8. t = IF more = <<>> THEN s ELSE FoldSummary(s, more, slot)
    OBVIOUS
<1>9. more = Pick(ms, first \ kept)
    OBVIOUS
<1> HIDE DEF first, kept, more, t, s
<1>10. /\ graded \in Seq(AnyMessage) /\ Range(graded) = {ms[i] : i \in UNION out}
       /\ shed \in Seq(AnyMessage) /\ Range(shed) = {ms[i] : i \in window \ first}
       /\ more \in Seq(AnyMessage) /\ Range(more) = {ms[i] : i \in first \ kept}
    <2>1. window \ first \in SUBSET DOMAIN ms /\ first \ kept \in SUBSET DOMAIN ms
        BY <1>3, <1>5, <1>6
    <2>0. ASSUME NEW K \in SUBSET DOMAIN ms
          PROVE  Pick(ms, K) \in Seq(AnyMessage) /\ Range(Pick(ms, K)) = {ms[i] : i \in K}
        BY PickElements, PickRange
    <2>2. graded \in Seq(AnyMessage) /\ Range(graded) = {ms[i] : i \in UNION out}
        BY <1>4, <2>0, Zenon
    <2>3. shed \in Seq(AnyMessage) /\ Range(shed) = {ms[i] : i \in window \ first}
        <3> HIDE DEF window
        <3> QED
            BY <2>0, <2>1, Zenon
    <2>4. more \in Seq(AnyMessage) /\ Range(more) = {ms[i] : i \in first \ kept}
        BY <1>9, <2>0, <2>1, Zenon
    <2> QED
        BY <2>2, <2>3, <2>4
<1> HIDE DEF graded, shed
<1>11. overflow \in Seq(AnyMessage) /\ Range(overflow) = Range(graded) \union Range(shed)
    <2>1. graded \in Seq(AnyMessage) /\ shed \in Seq(AnyMessage)
        BY <1>10
    <2> QED
        BY <2>1, ConcatProperties, RangeConcatenation
<1> HIDE DEF overflow
<1>12. overflow \o more \in Seq(AnyMessage) /\ Range(overflow \o more) = Range(overflow) \union Range(more)
    <2>1. overflow \in Seq(AnyMessage) /\ more \in Seq(AnyMessage)
        BY <1>10, <1>11
    <2> QED
        BY <2>1, ConcatProperties, RangeConcatenation
<1>13. Range(r.left) = {ms[i] : i \in DOMAIN ms \ kept}
    <2> DEFINE U == UNION out
    <2>0. U \in SUBSET DOMAIN ms /\ window = DOMAIN ms \ U
        BY <1>4
    <2> HIDE DEF window, U
    <2>1. DOMAIN ms \ kept = U \union (window \ first) \union (first \ kept)
        BY <1>6, <1>7, <2>0
    <2>2. Range(r.left) = {ms[i] : i \in U} \union {ms[i] : i \in window \ first}
                          \union {ms[i] : i \in first \ kept}
        BY <1>2, <1>10, <1>11, <1>12 DEF U
    <2>3. {ms[i] : i \in DOMAIN ms \ kept} =
          {ms[i] : i \in U} \union {ms[i] : i \in window \ first} \union {ms[i] : i \in first \ kept}
        BY <2>1
    <2> QED
        BY <2>2, <2>3
<1>14. /\ r.answer \in StructuredSummary
       /\ Folded(summary, r.left, r.answer, slot, r.summary, O, L, P)
       /\ Recent(r.left, slot, r.summary)
    <2>1. /\ llm.answer \in StructuredSummary
          /\ Folded(summary, overflow, llm.answer, slot, s, O, L, P)
          /\ Recent(overflow, slot, s)
        <3>1. CASE overflow = <<>>
            <4>1. s = summary /\ llm.answer = EmptySummary
                BY <1>1, <3>1 DEF s
            <4> QED
                BY <3>1, <4>1, FoldedByNone, RecentNone, EmptySummaryType
        <3>2. CASE overflow # <<>>
            <4>1. llm \in LlmSummaries(summary, overflow, slot)
                BY <1>1, <3>2
            <4> QED
                BY <1>11, <4>1, FoldedByLlm, RecentByLlm DEF s
        <3> QED
            BY <3>1, <3>2
    <2>2. s \in StructuredSummary /\ WithinCaps(s)
        BY <2>1 DEF Folded
    <2>3. /\ Folded(s, more, EmptySummary, slot, t, O, L, P)
          /\ Closed(s, slot) => Closed(t, slot)
          /\ Recent(overflow \o more, slot, t)
        <3>1. CASE more = <<>>
            <4>1. t = s
                BY <1>8, <3>1
            <4>2. overflow \o more = overflow
                BY <1>11, <3>1, ConcatEmptySeq
            <4> QED
                BY <2>1, <2>2, <3>1, <4>1, <4>2, FoldedByNone
        <3>2. CASE more # <<>>
            <4>1. t = FoldSummary(s, more, slot)
                BY <1>8, <3>2
            <4>2. Folded(s, more, EmptySummary, slot, t, O, L, P)
                BY <1>10, <2>2, <4>1, FoldedByRules, EmptySummaryType
            <4>3. ExtractFacts(more, slot) \in StructuredSummary
                BY <1>10, ExtractType
            <4>4. Closed(s, slot) => Closed(t, slot)
                BY <2>2, <4>1, <4>3, FoldedClosed DEF FoldSummary
            <4>5. Recent(overflow \o more, slot, t)
                BY <1>10, <1>11, <2>1, <2>2, <4>1, RecentTwice
            <4> QED
                BY <4>2, <4>4, <4>5
        <3> QED
            BY <3>1, <3>2
    <2>4. Folded(summary, overflow \o more, llm.answer, slot, t, O, L, P)
        BY <1>10, <1>11, <2>1, <2>3, FoldedTwice
    <2>5. t \in StructuredSummary /\ WithinCaps(t)
        BY <2>4 DEF Folded
    <2>6. /\ Folded(t, <<>>, EmptySummary, slot, Finalize(t, slot), O, L, P)
          /\ Closed(t, slot) => Closed(Finalize(t, slot), slot)
          /\ Recent(overflow \o more, slot, Finalize(t, slot))
        BY <2>3, <2>5, FoldedByNone, FinalizeEnds, RecentFinal
    <2>7. <<>> \in Seq(AnyMessage) /\ (overflow \o more) \o <<>> = overflow \o more
        BY <1>12, ConcatEmptySeq, EmptySeq
    <2>8. Folded(summary, (overflow \o more) \o <<>>, llm.answer, slot, Finalize(t, slot), O, L, P)
        BY <1>12, <2>1, <2>4, <2>6, <2>7, FoldedTwice
    <2> QED
        BY <1>2, <2>1, <2>6, <2>7, <2>8
<1>15. Fitting(ms, r, O, L, P)
    <2>1. kept \in SUBSET DOMAIN ms /\ \A i \in DOMAIN ms : i > Len(ms) - KeepRecent => i \in kept
        BY <1>3, <1>5, <1>6, <1>7
    <2> QED
        BY <1>2, <1>12, <1>13, <1>14, <2>1 DEF Fitting
<1>16. ASSUME Distinct(ms) PROVE Replaces(ms, r)
    <2> SUFFICES ASSUME NEW i \in DOMAIN ms PROVE ms[i].id \in r.updated <=> i \in kept /\ ms[i].long
        BY <1>2 DEF Replaces
    <2>1. kept \subseteq window /\ window \subseteq DOMAIN ms
        BY <1>6, <1>7
    <2> HIDE DEF window
    <2>2. ms[i].id \in IdsAt(ms, LongAt(ms, window)) <=> i \in window /\ ms[i].long
        BY <1>16, <2>1 DEF Distinct, IdsAt, LongAt
    <2>3. ms[i].id \in IdsAt(ms, window \ kept) <=> i \in window \ kept
        BY <1>16, <2>1 DEF Distinct, IdsAt
    <2> QED
        BY <1>2, <2>1, <2>2, <2>3
<1> QED
    BY <1>15, <1>16

LEMMA ResultFits ==
    ASSUME NEW ms \in Seq(AnyMessage), summary \in StructuredSummary, WithinCaps(summary),
           NEW O, NEW L, NEW P, NEW r \in CompressByImportance(ms)
    PROVE  Fitting(ms, r, O, L, P) /\ (Distinct(ms) => Replaces(ms, r))
<1>1. CASE Fits(ms, summary)
    BY <1>1, UnchangedFits DEF CompressByImportance
<1>2. CASE ~Fits(ms, summary)
    <2>1. PICK out \in SUBSET MayLeave(ms, PartitionTurns(ms)) : r \in Compressed(ms, PartitionTurns(ms), out)
        BY <1>2 DEF CompressByImportance, ScoredOut
    <2> QED
        BY <2>1, CompressedFits
<1> QED
    BY <1>1, <1>2

----------------------------------------------------------------------------
(* What respond_node writes *)
----------------------------------------------------------------------------
(* What respond_node writes *)

LEMMA CompactIs ==
    ASSUME NEW m \in StoredMessage
    PROVE  /\ Compact(m) = [id |-> m.id, human |-> m.human, long |-> FALSE, says |-> m.says]
           /\ Compact(m) \in StoredMessage /\ Compact(m).id = m.id /\ Compact(m).says = m.says
           /\ ~m.long => Compact(m) = m
<1>1. /\ m = [id |-> m.id, human |-> m.human, long |-> m.long, says |-> m.says]
      /\ m.long \in BOOLEAN
    BY DEF StoredMessage
<1> DEFINE d == Compact(m)
<1>0. d \in StoredMessage /\ d.id = m.id /\ d.human = m.human /\ d.long = FALSE /\ d.says = m.says
    BY DEF Compact, StoredMessage
<1> HIDE DEF d
<1>2. d = [id |-> m.id, human |-> m.human, long |-> FALSE, says |-> m.says]
    BY <1>0 DEF StoredMessage
<1>3. ~m.long => d = m
    BY <1>1, <1>2
<1> QED
    BY <1>0, <1>2, <1>3 DEF d

LEMMA CompactAllIs ==
    ASSUME NEW ms \in Seq(StoredMessage)
    PROVE  /\ CompactAll(ms) \in Seq(StoredMessage) /\ Len(CompactAll(ms)) = Len(ms)
           /\ DOMAIN CompactAll(ms) = DOMAIN ms
           /\ \A i \in DOMAIN ms : CompactAll(ms)[i] = Compact(ms[i])
<1>1. Len(ms) \in Nat /\ DOMAIN ms = 1 .. Len(ms) /\ \A i \in 1 .. Len(ms) : ms[i] \in StoredMessage
    OBVIOUS
<1>2. \A i \in 1 .. Len(ms) : Compact(ms[i]) \in StoredMessage
    BY <1>1, CompactIs
<1>3. CompactAll(ms) \in [1 .. Len(ms) -> StoredMessage]
    BY <1>1, <1>2 DEF CompactAll
<1>4. CompactAll(ms) \in Seq(StoredMessage)
    BY <1>1, <1>3, SeqDef
<1>5. \A i \in DOMAIN ms : CompactAll(ms)[i] = Compact(ms[i])
    BY DEF CompactAll
<1> HIDE DEF CompactAll
<1> QED
    BY <1>1, <1>3, <1>4, <1>5

(* The messages at the positions K, compacted, and the reply.              *)
Window(K, stored) == Append(Pick(CompactAll(messages), K), stored)

LEMMA WindowIs ==
    ASSUME messages \in Seq(StoredMessage), NEW K \in SUBSET DOMAIN messages, NEW stored \in StoredMessage
    PROVE  /\ Window(K, stored) \in Seq(StoredMessage) /\ Len(Window(K, stored)) = Cardinality(K) + 1
           /\ Cardinality(K) \in Nat /\ IsFiniteSet(K)
           /\ Range(Window(K, stored)) = {Compact(messages[i]) : i \in K} \union {stored}
           /\ Window(K, stored)[Cardinality(K) + 1] = stored
           /\ \A i \in K : Rank(K, i) \in 1 .. Cardinality(K)
                           /\ Window(K, stored)[Rank(K, i)] = Compact(messages[i])
<1> DEFINE c == CompactAll(messages)
           q == Pick(c, K)
<1>1. /\ c \in Seq(StoredMessage) /\ DOMAIN c = DOMAIN messages
      /\ \A i \in DOMAIN messages : c[i] = Compact(messages[i])
    BY CompactAllIs
<1> HIDE DEF c
<1>2. /\ IsFiniteSet(K) /\ Cardinality(K) \in Nat /\ q \in Seq(StoredMessage) /\ Len(q) = Cardinality(K)
      /\ \A i \in K : Rank(K, i) \in 1 .. Cardinality(K) /\ q[Rank(K, i)] = c[i]
    BY <1>1, PickElements
<1>3. Range(q) = {c[i] : i \in K}
    BY <1>1, PickRange
<1>4. {c[i] : i \in K} = {Compact(messages[i]) : i \in K}
    BY <1>1
<1> HIDE DEF q
<1>5. Window(K, stored) = Append(q, stored)
    BY DEF Window, q, c
<1>6. /\ Append(q, stored) \in Seq(StoredMessage) /\ Len(Append(q, stored)) = Len(q) + 1
      /\ \A i \in 1 .. Len(q) : Append(q, stored)[i] = q[i]
      /\ Append(q, stored)[Len(q) + 1] = stored
    BY <1>2, AppendProperties
<1>7. Range(Append(q, stored)) = Range(q) \union {stored}
    <2> DEFINE a == Append(q, stored)
    <2>1. DOMAIN a = 1 .. Cardinality(K) + 1 /\ DOMAIN q = 1 .. Cardinality(K)
        BY <1>2, <1>6
    <2>2. /\ \A i \in 1 .. Cardinality(K) : a[i] = q[i]
          /\ a[Cardinality(K) + 1] = stored
        BY <1>2, <1>6
    <2>3. PICK n \in Nat : n = Cardinality(K)
        BY <1>2
    <2> HIDE DEF a
    <2>4. ASSUME NEW x \in Range(a) PROVE x \in Range(q) \union {stored}
        <3>1. PICK i \in 1 .. n + 1 : x = a[i]
            BY <2>1, <2>3 DEF Range
        <3>2. i \in 1 .. n \/ i = n + 1
            OBVIOUS
        <3> QED
            BY <2>1, <2>2, <2>3, <3>1, <3>2 DEF Range
    <2>5. ASSUME NEW x \in Range(q) PROVE x \in Range(a)
        <3>1. PICK i \in 1 .. n : x = q[i]
            BY <2>1, <2>3 DEF Range
        <3>2. i \in 1 .. n + 1
            OBVIOUS
        <3> QED
            BY <2>1, <2>2, <2>3, <3>1, <3>2 DEF Range
    <2>6. stored \in Range(a)
        <3>1. n + 1 \in 1 .. n + 1
            OBVIOUS
        <3> QED
            BY <2>1, <2>2, <2>3, <3>1 DEF Range
    <2>7. Range(a) = Range(q) \union {stored}
        BY <2>4, <2>5, <2>6
    <2> QED
        BY <2>7 DEF a
<1>8. Range(Window(K, stored)) = {Compact(messages[i]) : i \in K} \union {stored}
    BY <1>3, <1>4, <1>5, <1>7
<1>9. ASSUME NEW i \in K
      PROVE  Rank(K, i) \in 1 .. Cardinality(K) /\ Window(K, stored)[Rank(K, i)] = Compact(messages[i])
    BY <1>1, <1>2, <1>5, <1>6
<1>10. /\ Window(K, stored) \in Seq(StoredMessage) /\ Len(Window(K, stored)) = Cardinality(K) + 1
       /\ Window(K, stored)[Cardinality(K) + 1] = stored
    BY <1>2, <1>5, <1>6
<1> QED
    BY <1>2, <1>8, <1>9, <1>10

LEMMA WindowOrder ==
    ASSUME messages \in Seq(StoredMessage), NEW K \in SUBSET DOMAIN messages, NEW stored \in StoredMessage,
           IdsInOrder(messages), \A i \in DOMAIN messages : messages[i].id < stored.id
    PROVE  IdsInOrder(Window(K, stored))
<1> DEFINE c == CompactAll(messages)
           q == Pick(c, K)
           w == Window(K, stored)
<1>1. /\ c \in Seq(StoredMessage) /\ DOMAIN c = DOMAIN messages
      /\ \A i \in DOMAIN messages : c[i] = Compact(messages[i])
    BY CompactAllIs
<1>2. \A i \in DOMAIN messages : c[i].id = messages[i].id
    BY <1>1, CompactIs
<1> HIDE DEF c
<1>3. PICK n \in Nat : n = Cardinality(K)
    BY WindowIs
<1>4. /\ q \in Seq(StoredMessage) /\ Len(q) = n /\ DOMAIN q = 1 .. n
      /\ \A k \in 1 .. n : \E i \in K : q[k] = c[i]
    BY <1>1, <1>3, PickElements
<1>5. ASSUME NEW k \in 1 .. n, NEW l \in 1 .. n, k < l PROVE q[k].id < q[l].id
    <2>0. k \in DOMAIN q /\ l \in DOMAIN q /\ K \in SUBSET DOMAIN c
        BY <1>1, <1>4
    <2>1. \E i, j \in K : i < j /\ q[k] = c[i] /\ q[l] = c[j] /\ Rank(K, i) = k /\ Rank(K, j) = l
        BY <1>1, <1>5, <2>0, PickOrder
    <2>2. PICK i \in K, j \in K : i < j /\ q[k] = c[i] /\ q[l] = c[j]
        BY <2>1
    <2> QED
        BY <1>2, <2>2 DEF IdsInOrder
<1>6. ASSUME NEW k \in 1 .. n PROVE q[k].id < stored.id
    <2>1. PICK i \in K : q[k] = c[i]
        BY <1>4
    <2> QED
        BY <1>2, <2>1
<1>7. w = Append(q, stored)
    BY DEF Window, c
<1> HIDE DEF q, w
<1>8. /\ DOMAIN w = 1 .. n + 1 /\ w[n + 1] = stored /\ \A k \in 1 .. n : w[k] = q[k]
    BY <1>4, <1>7, AppendProperties
<1>9. ASSUME NEW k \in 1 .. n + 1, NEW l \in 1 .. n + 1, k < l PROVE w[k].id < w[l].id
    <2>1. CASE l \in 1 .. n
        <3>1. k \in 1 .. n
            BY <1>9, <2>1
        <3> QED
            BY <1>5, <1>8, <1>9, <2>1, <3>1
    <2>2. CASE l = n + 1
        <3>1. k \in 1 .. n
            BY <1>9, <2>2
        <3> QED
            BY <1>6, <1>8, <2>2, <3>1
    <2>3. l \in 1 .. n \/ l = n + 1
        OBVIOUS
    <2> QED
        BY <2>1, <2>2, <2>3
<1>10. IdsInOrder(w)
    BY <1>8, <1>9 DEF IdsInOrder
<1> QED
    BY <1>10 DEF w

LEMMA ReplyIs ==
    ASSUME NEW says \in Says, NEW id \in Nat
    PROVE  /\ Message(id, FALSE, says) \in AnyMessage
           /\ id # NoId => Message(id, FALSE, says) \in StoredMessage
           /\ Message(id, FALSE, says).id = id /\ Message(id, FALSE, says).says = says
           /\ ~Message(id, FALSE, says).long
           /\ [Message(NoId, FALSE, says) EXCEPT !.id = id] = Message(id, FALSE, says)
<1> DEFINE m == Message(id, FALSE, says)
           q == [Message(NoId, FALSE, says) EXCEPT !.id = id]
<1>1. m = [id |-> id, human |-> FALSE, long |-> FALSE, says |-> says]
    BY DEF Message
<1>2. q = [id |-> id, human |-> FALSE, long |-> FALSE, says |-> says]
    <2> DEFINE base == Message(NoId, FALSE, says)
    <2>1. base = [id |-> 0, human |-> FALSE, long |-> FALSE, says |-> says]
        BY DEF Message, NoId
    <2>3. q = [base EXCEPT !.id = id]
        OBVIOUS
    <2> HIDE DEF base, q
    <2>2. base \in AnyMessage /\ base.human = FALSE /\ base.long = FALSE /\ base.says = says
        <3>1. base \in AnyMessage
            BY <2>1 DEF AnyMessage
        <3>2. base.human = FALSE /\ base.long = FALSE /\ base.says = says
            BY <2>1
        <3> QED
            BY <3>1, <3>2
    <2>4. q \in AnyMessage /\ q.id = id /\ q.human = FALSE /\ q.long = FALSE /\ q.says = says
        BY <2>2, <2>3 DEF AnyMessage
    <2> QED
        BY <2>4 DEF AnyMessage
<1> HIDE DEF m, q
<1>3. m \in AnyMessage /\ (id # NoId => m \in StoredMessage)
    BY <1>1 DEF AnyMessage, StoredMessage
<1>4. m.id = id /\ m.says = says /\ ~m.long
    BY <1>1
<1>5. q = m
    BY <1>1, <1>2
<1> QED
    BY <1>3, <1>4, <1>5 DEF m, q

LEMMA StoredIsAny == Seq(StoredMessage) \subseteq Seq(AnyMessage)
<1>1. StoredMessage \subseteq AnyMessage
    BY DEF StoredMessage, AnyMessage
<1> QED
    BY <1>1, SeqMonotonic

LEMMA HistoryIs ==
    ASSUME messages \in Seq(StoredMessage), IdsInOrder(messages), NEW reply \in AnyMessage, reply.id = NoId
    PROVE  LET h == Append(messages, reply) IN
           /\ h \in Seq(AnyMessage) /\ Len(h) = Len(messages) + 1
           /\ Len(messages) \in Nat /\ DOMAIN messages = 1 .. Len(messages)
           /\ DOMAIN h = 1 .. Len(messages) + 1
           /\ \A i \in DOMAIN messages : h[i] = messages[i]
           /\ h[Len(messages) + 1] = reply
           /\ Distinct(h)
<1> DEFINE h == Append(messages, reply)
<1>0. messages \in Seq(AnyMessage)
    BY StoredIsAny
<1>1. PICK n \in Nat : n = Len(messages) /\ DOMAIN messages = 1 .. n
    OBVIOUS
<1>2. /\ h \in Seq(AnyMessage) /\ Len(h) = n + 1 /\ DOMAIN h = 1 .. n + 1
      /\ \A i \in 1 .. n : h[i] = messages[i]
      /\ h[n + 1] = reply
    BY <1>0, <1>1, AppendProperties
<1> HIDE DEF h
<1>3. \A i \in 1 .. n : h[i].id \in Nat \ {0}
    <2>1. ASSUME NEW i \in 1 .. n PROVE messages[i].id \in Nat \ {0}
        <3>1. messages[i] \in StoredMessage
            BY <1>1
        <3> QED
            BY <3>1 DEF StoredMessage, NoId
    <2> QED
        BY <1>2, <2>1
<1>4. ASSUME NEW i \in 1 .. n + 1, NEW j \in 1 .. n + 1, i < j PROVE h[i].id # h[j].id
    <2>1. i \in 1 .. n
        BY <1>4
    <2>2. CASE j \in 1 .. n
        <3>1. messages[i].id < messages[j].id
            BY <1>1, <1>4, <2>1, <2>2 DEF IdsInOrder
        <3> QED
            BY <1>2, <1>3, <2>1, <2>2, <3>1
    <2>3. CASE j = n + 1
        BY <1>2, <1>3, <2>1, <2>3 DEF NoId
    <2> QED
        BY <2>2, <2>3
<1>5. ASSUME NEW i \in 1 .. n + 1, NEW j \in 1 .. n + 1, h[i].id = h[j].id PROVE i = j
    <2>1. ~(i < j) /\ ~(j < i)
        BY <1>4, <1>5
    <2> QED
        BY <2>1
<1>6. Distinct(h)
    BY <1>2, <1>5 DEF Distinct
<1> QED
    BY <1>1, <1>2, <1>6 DEF h

(* The patched checkpoint and the archived window are the same list.       *)
LEMMA WindowWritten ==
    ASSUME messages \in Seq(StoredMessage), IdsInOrder(messages),
           summary \in StructuredSummary, WithinCaps(summary),
           NEW reply \in AnyMessage, reply.id = NoId, NEW stored \in StoredMessage,
           NEW r \in CompressByImportance(Append(messages, reply)),
           NEW O, NEW L, NEW P
    PROVE  LET K == r.kept \ {Len(messages) + 1} IN
           /\ K \in SUBSET DOMAIN messages
           /\ \A i \in DOMAIN messages : i > Len(messages) + 1 - KeepRecent => i \in K
           /\ BuildMessageUpdates(messages, r, stored) = Window(K, stored)
           /\ ArchiveRow(Append(messages, reply), r, stored).messages = Window(K, stored)
           /\ r.left \in Seq(AnyMessage)
           /\ Range(r.left) = {messages[i] : i \in DOMAIN messages \ K}
           /\ r.answer \in StructuredSummary
           /\ Folded(summary, r.left, r.answer, slot, r.summary, O, L, P)
           /\ Recent(r.left, slot, r.summary)
<1> DEFINE h == Append(messages, reply)
           K == r.kept \ {Len(messages) + 1}
           c == CompactAll(messages)
<1>1. PICK n \in Nat :
        /\ n = Len(messages) /\ h \in Seq(AnyMessage) /\ Len(h) = n + 1
        /\ DOMAIN messages = 1 .. n /\ DOMAIN h = 1 .. n + 1
        /\ \A i \in 1 .. n : h[i] = messages[i]
        /\ h[n + 1] = reply /\ Distinct(h)
    BY HistoryIs
<1>2. Fitting(h, r, O, L, P) /\ Replaces(h, r)
    BY <1>1, ResultFits
<1>3. /\ c \in Seq(StoredMessage) /\ DOMAIN c = 1 .. n
      /\ \A i \in 1 .. n : c[i] = Compact(messages[i])
    BY <1>1, CompactAllIs
<1> HIDE DEF h, c
<1>4. /\ r.kept \in SUBSET (1 .. n + 1)
      /\ \A i \in 1 .. n + 1 : i > n + 1 - KeepRecent => i \in r.kept
      /\ r.left \in Seq(AnyMessage)
      /\ Range(r.left) = {h[i] : i \in (1 .. n + 1) \ r.kept}
      /\ r.answer \in StructuredSummary
      /\ Folded(summary, r.left, r.answer, slot, r.summary, O, L, P)
      /\ Recent(r.left, slot, r.summary)
    <2>1. /\ r.kept \in SUBSET DOMAIN h
          /\ \A i \in DOMAIN h : i > Len(h) - KeepRecent => i \in r.kept
        BY <1>2 DEF Fitting
    <2>2. /\ r.left \in Seq(AnyMessage)
          /\ Range(r.left) = {h[i] : i \in DOMAIN h \ r.kept}
          /\ r.answer \in StructuredSummary
          /\ Folded(summary, r.left, r.answer, slot, r.summary, O, L, P)
          /\ Recent(r.left, slot, r.summary)
        BY <1>2, Zenon DEF Fitting
    <2>3. DOMAIN h = 1 .. n + 1 /\ Len(h) = n + 1
        BY <1>1
    <2>4. Range(r.left) = {h[i] : i \in (1 .. n + 1) \ r.kept}
        BY <2>2, <2>3, Zenon
    <2>5. /\ r.kept \in SUBSET (1 .. n + 1)
          /\ \A i \in 1 .. n + 1 : i > n + 1 - KeepRecent => i \in r.kept
        <3>1. r.kept \in SUBSET (1 .. n + 1)
            BY <2>1, <2>3
        <3>2. ASSUME NEW i \in 1 .. n + 1, i > n + 1 - KeepRecent PROVE i \in r.kept
            <4>1. i \in DOMAIN h /\ KeepRecent \in Nat
                BY <2>3, Constants
            <4>2. i > Len(h) - KeepRecent
                BY <2>3, <3>2, <4>1
            <4> QED
                BY <2>1, <4>1, <4>2
        <3> QED
            BY <3>1, <3>2
    <2> QED
        BY <2>2, <2>4, <2>5, Zenon
<1>5. n + 1 \in r.kept
    <2>1. KeepRecent \in Nat \ {0}
        BY Constants
    <2>2. n + 1 > n + 1 - KeepRecent /\ n + 1 \in 1 .. n + 1
        BY <2>1
    <2> QED
        BY <1>4, <2>2
<1>6. /\ K \in SUBSET (1 .. n) /\ n + 1 \notin K /\ (1 .. n + 1) \ r.kept = (1 .. n) \ K
      /\ r.kept = K \union {n + 1} /\ K = r.kept \ {n + 1}
    <2>1. 1 .. n + 1 = (1 .. n) \union {n + 1} /\ n + 1 \notin 1 .. n
        OBVIOUS
    <2> QED
        BY <1>1, <1>4, <1>5, <2>1
<1> HIDE DEF K
<1>7. ASSUME NEW i \in 1 .. n, i > n + 1 - KeepRecent PROVE i \in K
    <2>1. i \in 1 .. n + 1 /\ i # n + 1
        OBVIOUS
    <2> QED
        BY <1>4, <1>6, <1>7, <2>1
<1>8. Range(r.left) = {messages[i] : i \in (1 .. n) \ K}
    <2>1. {h[i] : i \in (1 .. n) \ K} = {messages[i] : i \in (1 .. n) \ K}
        BY <1>1
    <2> QED
        BY <1>4, <1>6, <2>1
<1>9. \A i, j \in 1 .. n : messages[i].id = messages[j].id => i = j
    <2>1. \A i \in 1 .. n : i \in 1 .. n + 1
        OBVIOUS
    <2> QED
        BY <1>1, <2>1 DEF Distinct
<1>10. ASSUME NEW i \in 1 .. n PROVE messages[i] \in StoredMessage /\ messages[i].id # NoId
    <2>1. messages[i] \in StoredMessage
        BY <1>1
    <2> QED
        BY <2>1 DEF StoredMessage
<1>11. \A i \in 1 .. n : messages[i].id \in r.updated <=> i \in K /\ messages[i].long
    <2>1. \A i \in 1 .. n : i \in 1 .. n + 1 /\ i # n + 1
        OBVIOUS
    <2> QED
        BY <1>1, <1>2, <1>6, <2>1 DEF Replaces
<1>12. \A i \in 1 .. n : messages[i].id \in Ids(r.left) <=> i \notin K
    BY <1>8, <1>9 DEF Ids
<1> DEFINE patched == [i \in DOMAIN messages |->
                          IF messages[i].id \in r.updated \ {NoId} THEN Compact(messages[i]) ELSE messages[i]]
           J == {i \in DOMAIN messages : messages[i].id \notin Ids(r.left) \ (r.updated \ {NoId})}
           row == [i \in DOMAIN h |-> IF h[i].id = NoId THEN stored ELSE Compact(h[i])]
<1>13. J = K
    BY <1>1, <1>6, <1>10, <1>11, <1>12
<1>14. \A i \in K : patched[i] = c[i]
    <2> SUFFICES ASSUME NEW i \in K PROVE patched[i] = c[i]
        OBVIOUS
    <2>1. i \in 1 .. n /\ i \in DOMAIN messages
        BY <1>1, <1>6
    <2>2. messages[i].long => patched[i] = Compact(messages[i])
        BY <1>10, <1>11, <2>1
    <2>3. ~messages[i].long => patched[i] = messages[i]
        BY <1>10, <1>11, <2>1
    <2>4. ~messages[i].long => Compact(messages[i]) = messages[i]
        BY <1>10, <2>1, CompactIs
    <2> QED
        BY <1>3, <2>1, <2>2, <2>3, <2>4
<1>15. BuildMessageUpdates(messages, r, stored) = Window(K, stored)
    <2>1. BuildMessageUpdates(messages, r, stored) = Append(Pick(patched, J), stored)
        BY DEF BuildMessageUpdates, AddMessages
    <2> HIDE DEF patched, J
    <2>2. Pick(patched, K) = Pick(c, K)
        BY <1>3, <1>6, <1>14, PickAgree
    <2> QED
        BY <1>13, <2>1, <2>2 DEF Window, c
<1>16. row \in Seq(StoredMessage) /\ Len(row) = n + 1 /\ DOMAIN row = 1 .. n + 1
       /\ row[n + 1] = stored /\ \A i \in 1 .. n : row[i] = c[i]
    <2>1. row[n + 1] = stored
        <3>1. n + 1 \in DOMAIN h /\ h[n + 1].id = NoId
            BY <1>1
        <3> QED
            BY <3>1
    <2>2. ASSUME NEW i \in 1 .. n PROVE row[i] = c[i]
        <3>1. i \in DOMAIN h /\ h[i] = messages[i] /\ h[i].id # NoId
            BY <1>1, <1>10
        <3> QED
            BY <1>3, <3>1
    <2>3. DOMAIN row = 1 .. n + 1
        BY <1>1
    <2>4. ASSUME NEW i \in 1 .. n + 1 PROVE row[i] \in StoredMessage
        <3>1. \A k \in 1 .. n : c[k] \in StoredMessage
            BY <1>3
        <3>2. i \in 1 .. n \/ i = n + 1
            OBVIOUS
        <3> QED
            BY <2>1, <2>2, <3>1, <3>2
    <2>5. row \in [1 .. n + 1 -> StoredMessage]
        <3>1. row = [i \in 1 .. n + 1 |-> row[i]]
            BY <1>1
        <3> HIDE DEF row
        <3> QED
            BY <2>4, <3>1
    <2> HIDE DEF row
    <2>6. row \in Seq(StoredMessage) /\ Len(row) = n + 1
        <3>1. n + 1 \in Nat
            OBVIOUS
        <3>2. row \in Seq(StoredMessage)
            BY <2>5, <3>1, SeqDef
        <3> QED
            BY <2>3, <3>1, <3>2
    <2> QED
        BY <2>1, <2>2, <2>3, <2>6
<1>17. ArchiveRow(h, r, stored).messages = Window(K, stored)
    <2>1. ArchiveRow(h, r, stored).messages = Pick(row, r.kept)
        BY DEF ArchiveRow
    <2> HIDE DEF row
    <2>2. r.kept \in SUBSET DOMAIN row /\ Len(row) \in r.kept /\ Len(row) = n + 1
        BY <1>4, <1>5, <1>16
    <2>3. Pick(row, r.kept) = Append(Pick(row, r.kept \ {Len(row)}), row[Len(row)])
        BY <1>16, <2>2, PickAppend
    <2>4. Pick(row, r.kept) = Append(Pick(row, K), stored)
        BY <1>6, <1>16, <2>3
    <2>5. \A i \in K : row[i] = c[i]
        BY <1>6, <1>16
    <2>6. Pick(row, K) = Pick(c, K)
        BY <1>3, <1>6, <2>5, PickAgree
    <2> QED
        BY <2>1, <2>4, <2>6 DEF Window, c
<1> QED
    BY <1>1, <1>4, <1>6, <1>7, <1>8, <1>15, <1>17 DEF K, h

LEMMA WindowHolds ==
    ASSUME messages \in Seq(StoredMessage), NEW K \in SUBSET DOMAIN messages, NEW stored \in StoredMessage,
           NEW left \in Seq(AnyMessage), Range(left) = {messages[i] : i \in DOMAIN messages \ K}
    PROVE  /\ Ids(Window(K, stored)) = IdsAt(messages, K) \union {stored.id}
           /\ Said(Window(K, stored)) = {messages[i].says : i \in K} \union {stored.says}
           /\ Said(messages) = {messages[i].says : i \in K} \union Said(left)
           /\ Ids(messages) = IdsAt(messages, K) \union Ids(left)
           /\ Range(left) \subseteq Range(messages)
<1>1. Range(Window(K, stored)) = {Compact(messages[i]) : i \in K} \union {stored}
    BY WindowIs
<1>2. ASSUME NEW i \in K
      PROVE  Compact(messages[i]).id = messages[i].id /\ Compact(messages[i]).says = messages[i].says
    <2>1. messages[i] \in StoredMessage
        OBVIOUS
    <2> QED
        BY <2>1, CompactIs
<1> DEFINE w == Window(K, stored)
<1> HIDE DEF w
<1>3. Range(w) = {Compact(messages[i]) : i \in K} \union {stored}
    BY <1>1 DEF w
<1>4. Ids(w) = IdsAt(messages, K) \union {stored.id}
    BY <1>2, <1>3 DEF Ids, IdsAt
<1>5. Said(w) = {messages[i].says : i \in K} \union {stored.says}
    BY <1>2, <1>3 DEF Said
<1>6. Range(messages) = {messages[i] : i \in K} \union Range(left)
    BY DEF Range
<1>7. Said(messages) = {messages[i].says : i \in K} \union Said(left)
    BY <1>6 DEF Said
<1>8. Ids(messages) = IdsAt(messages, K) \union Ids(left)
    BY <1>6 DEF Ids, IdsAt
<1> QED
    BY <1>4, <1>5, <1>6, <1>7, <1>8 DEF w

LEMMA Prefix ==
    ASSUME TypeOK, CheckpointMatchesArchive
    PROVE  LET a == archive.messages IN
           /\ a \in Seq(StoredMessage) /\ DOMAIN a \subseteq DOMAIN messages
           /\ \A i \in DOMAIN a : a[i] = messages[i]
           /\ Range(a) \subseteq Range(messages) /\ Said(a) \subseteq Said(messages)
           /\ Ids(a) \subseteq Ids(messages)
<1> DEFINE a == archive.messages
<1>1. messages \in Seq(StoredMessage) /\ a \in Seq(StoredMessage)
    BY DEF TypeOK
<1>2. Len(messages) >= Len(a) /\ SubSeq(messages, 1, Len(a)) = a
    BY DEF CheckpointMatchesArchive
<1> HIDE DEF a
<1>3. PICK n \in Nat, m \in Nat : n = Len(a) /\ m = Len(messages) /\ DOMAIN a = 1 .. n /\ DOMAIN messages = 1 .. m
    BY <1>1
<1>4. n =< m
    BY <1>2, <1>3
<1>5. ASSUME NEW i \in 1 .. n PROVE a[i] = messages[i] /\ i \in 1 .. m
    <2>1. i \in 1 .. m
        BY <1>4
    <2>2. SubSeq(messages, 1, n)[i] = messages[i]
        BY <1>1, <1>3, <1>4, <2>1
    <2> QED
        BY <1>2, <1>3, <2>1, <2>2
<1>6. Range(a) \subseteq Range(messages)
    BY <1>3, <1>5 DEF Range
<1>7. Said(a) \subseteq Said(messages) /\ Ids(a) \subseteq Ids(messages)
    BY <1>6 DEF Said, Ids
<1> QED
    BY <1>1, <1>3, <1>5, <1>6, <1>7 DEF a

(* What the summary has to record when these messages leave.               *)
OrdersOf(left, answer) ==
    Range(summary.orders) \union Range(answer.orders) \union (Said(left) \cap (Order \ {slot}))
LabelsOf(left, answer) ==
    Range(summary.confirmed) \union Range(answer.confirmed) \union (Said(left) \cap Label)
PointsOf(left, answer) ==
    Range(summary.pending) \union Range(answer.pending) \union (Said(left) \cap Point)

LEMMA RoomForAll ==
    ASSUME NEW left, NEW answer \in StructuredSummary, summary \in StructuredSummary,
           ~Overfull(left, answer)
    PROVE  Sayable(summary, left, answer, slot,
                   OrdersOf(left, answer), LabelsOf(left, answer), PointsOf(left, answer))
<1> DEFINE O == OrdersOf(left, answer)
           L == LabelsOf(left, answer)
           P == PointsOf(left, answer)
<1>1. /\ Range(summary.orders) \subseteq Order /\ Range(answer.orders) \subseteq Order
      /\ Range(summary.confirmed) \subseteq Label /\ Range(answer.confirmed) \subseteq Label
      /\ Range(summary.pending) \subseteq Point /\ Range(answer.pending) \subseteq Point
    BY SummaryFields, RangeOfSeq
<1>2. O \in SUBSET Order /\ L \in SUBSET Label /\ P \in SUBSET Point
    BY <1>1 DEF OrdersOf, LabelsOf, PointsOf
<1>3. /\ ~(Cardinality(O) > OrderCap) /\ ~(Cardinality(L) > ConfirmedCap) /\ ~(Cardinality(P) > PendingCap)
      /\ ~(Cardinality(O) + Cardinality(L) + Cardinality(P) > MaxItems)
    BY DEF Overfull, OrdersOf, LabelsOf, PointsOf
<1>4. /\ Records(summary, O, L, P) /\ Records(answer, O, L, P)
      /\ Said(left) \cap (Order \ {slot}) \subseteq O /\ Said(left) \cap Label \subseteq L
      /\ Said(left) \cap Point \subseteq P
    BY DEF OrdersOf, LabelsOf, PointsOf, Records
<1> HIDE DEF O, L, P
<1>5. /\ IsFiniteSet(O) /\ IsFiniteSet(L) /\ IsFiniteSet(P)
      /\ Cardinality(O) \in Nat /\ Cardinality(L) \in Nat /\ Cardinality(P) \in Nat
    BY <1>2, Constants, FS_Subset, FS_CardinalityType
<1>6. OrderCap \in Nat /\ ConfirmedCap \in Nat /\ PendingCap \in Nat /\ MaxItems \in Nat
    BY Constants
<1>7. Ample(O, L, P)
    BY <1>3, <1>5, <1>6 DEF Ample
<1> QED
    BY <1>4, <1>7 DEF Sayable, O, L, P

(* The newest conclusion c, once its message has left, is in the summary   *)
(* the fold makes.                                                         *)
LEMMA ConclusionFolded ==
    ASSUME TypeOK, IdsFresh, LastConclusion,
           NEW left \in Seq(AnyMessage), Range(left) \subseteq Range(messages),
           NEW answer \in StructuredSummary, NEW q,
           Folded(summary, left, answer, slot, q,
                  OrdersOf(left, answer), LabelsOf(left, answer), PointsOf(left, answer)),
           NEW c \in [id : Nat, says : Conclusion],
           \A i \in DOMAIN messages : messages[i].says \in Conclusion => messages[i].id =< c.id,
           c.id \in gone => c = settled,
           c.id \notin gone => \E i \in DOMAIN messages : States(messages[i], c),
           c.id \in gone \union Ids(left), ~inverted, ~crowded, ~Overfull(left, answer), ~Inverts(left),
           Said(left) \cap Conclusion = {} => ~overruled /\ ~Contradicts(answer)
    PROVE  Clear(q.confirmed, c.says)
<1>1. c.says \in Conclusion /\ c.id \in Nat /\ c.says # Nothing
    BY Constants
<1>2. \/ Concludes(SaysOf(left), c.says)
      \/ Clear(summary.confirmed, c.says)
            /\ (Said(left) \union Range(answer.confirmed)) \cap RivalsOf(c.says) = {}
      => Clear(q.confirmed, c.says)
    <2>1. summary \in StructuredSummary
        BY DEF TypeOK
    <2>2. Owes(summary, left, answer, slot, q,
               OrdersOf(left, answer), LabelsOf(left, answer), PointsOf(left, answer))
        BY <2>1, RoomForAll DEF Folded
    <2> QED
        BY <1>1, <2>2 DEF Owes
<1>3. /\ Len(left) \in Nat /\ DOMAIN left = 1 .. Len(left) /\ Len(SaysOf(left)) = Len(left)
      /\ DOMAIN SaysOf(left) = DOMAIN left
    BY SaysOfType
<1>4. ASSUME NEW k \in DOMAIN left
      PROVE  /\ left[k].id \in Nat /\ left[k].id \in Ids(left) /\ left[k].id \in Ids(messages)
             /\ \E i \in DOMAIN messages : messages[i] = left[k]
             /\ left[k].says \in Conclusion => left[k].id =< c.id
    <2>1. left[k] \in AnyMessage /\ left[k] \in Range(left)
        BY DEF Range
    <2>2. PICK i \in DOMAIN messages : messages[i] = left[k]
        BY <2>1 DEF Range
    <2>3. left[k].id \in Nat
        BY <2>1 DEF AnyMessage
    <2>4. left[k].id \in Ids(left) /\ left[k].id \in Ids(messages)
        BY <2>1 DEF Ids
    <2>5. left[k].says \in Conclusion => left[k].id =< c.id
        BY <2>2
    <2> QED
        BY <2>2, <2>3, <2>4, <2>5
<1>5. CASE c.id \in gone
    <2>1. ASSUME NEW x \in Said(left) \cap Conclusion PROVE FALSE
        <3>1. PICK k \in DOMAIN left : left[k].says = x
            BY DEF Said, Range
        <3>2. left[k].id =< c.id /\ left[k].id \in Nat
            BY <1>4, <3>1
        <3>3. ~(left[k].id < c.id)
            BY <1>4, <1>5 DEF Inverts
        <3>4. left[k].id = c.id
            BY <1>1, <3>2, <3>3
        <3> QED
            BY <1>4, <1>5, <3>4 DEF IdsFresh
    <2>2. Said(left) \cap Conclusion = {}
        BY <2>1
    <2>3. ~overruled /\ ~Contradicts(answer) /\ c = settled
        BY <1>5, <2>2
    <2>4. Clear(summary.confirmed, c.says)
        BY <1>1, <1>5, <2>3 DEF LastConclusion
    <2>5. RivalsOf(c.says) \cap Range(answer.confirmed) = {}
        BY <2>3 DEF Contradicts
    <2>6. Said(left) \cap RivalsOf(c.says) = {}
        BY <2>2, Rivals
    <2> QED
        BY <1>2, <2>4, <2>5, <2>6
<1>6. CASE c.id \notin gone
    <2>2. PICK i \in DOMAIN messages : States(messages[i], c)
        BY <1>6
    <2>3. PICK k \in DOMAIN left : left[k].id = c.id
        BY <1>6 DEF Ids, Range
    <2>4. ASSUME NEW l \in DOMAIN left, left[l].id = c.id PROVE left[l].says = c.says
        <3>1. PICK j \in DOMAIN messages : messages[j] = left[l]
            BY <1>4
        <3>2. j \in Int /\ i \in Int
            BY DEF TypeOK
        <3>3. ~(i < j) /\ ~(j < i)
            BY <1>1, <2>2, <2>4, <3>1 DEF IdsFresh, IdsInOrder, States
        <3> QED
            BY <2>2, <3>1, <3>2, <3>3 DEF States
    <2>5. ASSUME NEW l \in k + 1 .. Len(left), left[l].says \in RivalsOf(c.says) PROVE FALSE
        <3>1. l \in DOMAIN left /\ k \in DOMAIN left /\ k < l
            BY <1>3
        <3>2. left[l].says \in Conclusion
            BY <2>5, Rivals
        <3>3. left[l].id =< c.id /\ left[l].id \in Nat
            BY <1>4, <3>1, <3>2
        <3>4. ~(left[l].id < left[k].id)
            BY <3>1 DEF Inverts
        <3>5. left[l].id = c.id
            BY <1>1, <2>3, <3>3, <3>4
        <3>6. left[l].says = c.says
            BY <2>4, <3>1, <3>5
        <3> QED
            BY <2>5, <3>6, Rivals
    <2>6. left[k].says = c.says
        BY <2>3, <2>4
    <2>7. \A l \in DOMAIN left : SaysOf(left)[l] = left[l].says
        BY DEF SaysOf
    <2>8. k \in DOMAIN SaysOf(left) /\ SaysOf(left)[k] = c.says
        BY <1>3, <2>6, <2>7
    <2>9. ASSUME NEW l \in k + 1 .. Len(SaysOf(left)) PROVE SaysOf(left)[l] \notin RivalsOf(c.says)
        <3>1. l \in k + 1 .. Len(left) /\ l \in DOMAIN left
            BY <1>3
        <3> QED
            BY <2>5, <2>7, <3>1
    <2>10. Concludes(SaysOf(left), c.says)
        BY <2>8, <2>9 DEF Concludes
    <2> QED
        BY <1>2, <2>10
<1> QED
    BY <1>5, <1>6

----------------------------------------------------------------------------
(* respond_node keeps the invariant *)

Stored(says) == Message(2 * turns, FALSE, says)
History(says) == Append(messages, Stored(says))

(* A step of Respond, by what the reply says, the positions kept, the      *)
(* messages that leave, the model's answer and the new summary.            *)
RespondWrites(says, K, left, answer, q) ==
    /\ says \in Says
    /\ K \in SUBSET DOMAIN messages
    /\ \A i \in DOMAIN messages : i > Len(messages) + 1 - KeepRecent => i \in K
    /\ left \in Seq(AnyMessage) /\ Range(left) = {messages[i] : i \in DOMAIN messages \ K}
    /\ answer \in StructuredSummary
    /\ Folded(summary, left, answer, slot, q,
              OrdersOf(left, answer), LabelsOf(left, answer), PointsOf(left, answer))
    /\ Recent(left, slot, q)
    /\ messages' = Window(K, Stored(says))
    /\ summary' = q
    /\ archive' = [messages |-> Window(K, Stored(says)), summary |-> q, slot |-> slot]
    /\ asked' = ((asked \/ Asks \in Said(messages) \union {says}) /\ ~Closed(q, slot))
    /\ named' = named \union ((Said(messages) \union {says}) \cap Order)
    /\ settled' = IF Settles(History(says)) = {} THEN settled
                  ELSE CHOOSE c \in Settles(History(says)) : TRUE
    /\ overruled' = ((overruled \/ Contradicts(answer)) /\ Said(left) \cap Conclusion = {})
    /\ shadowed' = shadowed \union (Said(left) \cap {slot} \cap Order)
    /\ crowded' = (crowded \/ Overfull(left, answer))
    /\ gone' = gone \union Ids(left)
    /\ inverted' = (inverted \/ Inverts(left))
    /\ turn' = "none"
    /\ slot' = slot /\ turns' = turns

LEMMA AppendIs ==
    ASSUME NEW S, NEW s \in Seq(S), NEW e \in S
    PROVE  LET a == Append(s, e) IN
           /\ a \in Seq(S) /\ Len(a) = Len(s) + 1 /\ Len(s) \in Nat
           /\ DOMAIN s = 1 .. Len(s) /\ DOMAIN a = 1 .. Len(s) + 1
           /\ \A i \in 1 .. Len(s) : a[i] = s[i]
           /\ a[Len(s) + 1] = e
           /\ Range(a) = Range(s) \union {e}
<1> DEFINE a == Append(s, e)
<1>1. PICK n \in Nat : n = Len(s) /\ DOMAIN s = 1 .. n
    OBVIOUS
<1>2. /\ a \in Seq(S) /\ Len(a) = n + 1 /\ DOMAIN a = 1 .. n + 1
      /\ \A i \in 1 .. n : a[i] = s[i]
      /\ a[n + 1] = e
    BY <1>1, AppendProperties
<1> HIDE DEF a
<1>3. 1 .. n + 1 = (1 .. n) \union {n + 1}
    OBVIOUS
<1>4. Range(a) = Range(s) \union {e}
    BY <1>1, <1>2, <1>3 DEF Range
<1> QED
    BY <1>1, <1>2, <1>4 DEF a

LEMMA RespondIs ==
    ASSUME TypeOK, IdsFresh, Respond
    PROVE  turn # "none" /\ \E says, K, left, answer, q : RespondWrites(says, K, left, answer, q)
<1>1. PICK says \in IF turn = "blocked" THEN {Nothing} ELSE Replies :
        LET reply == Message(NoId, FALSE, says)
            stored == [reply EXCEPT !.id = 2 * turns]
            history == Append(messages, reply)
        IN \E result \in CompressByImportance(history) :
            /\ messages' = BuildMessageUpdates(messages, result, stored)
            /\ summary' = result.summary
            /\ archive' = ArchiveRow(history, result, stored)
            /\ asked' = /\ asked \/ Asks \in Said(history)
                        /\ ~Closed(result.summary, slot)
            /\ named' = named \union (Said(history) \cap Order)
            /\ settled' = IF Settles(Append(messages, stored)) = {} THEN settled
                          ELSE CHOOSE c \in Settles(Append(messages, stored)) : TRUE
            /\ overruled' = /\ overruled \/ Contradicts(result.answer)
                            /\ Said(result.left) \cap Conclusion = {}
            /\ shadowed' = shadowed \union (Said(result.left) \cap {slot} \cap Order)
            /\ crowded' = (crowded \/ Overfull(result.left, result.answer))
            /\ gone' = gone \union Ids(result.left)
            /\ inverted' = (inverted \/ Inverts(result.left))
    BY DEF Respond
<1> DEFINE reply == Message(NoId, FALSE, says)
           history == Append(messages, reply)
           stored == Stored(says)
<1>2. says \in Says
    BY <1>1, Constants DEF Says
<1>3. /\ 2 * turns \in Nat /\ 2 * turns # NoId /\ NoId \in Nat
      /\ messages \in Seq(StoredMessage) /\ summary \in StructuredSummary /\ WithinCaps(summary)
    BY Constants DEF TypeOK, NoId
<1>4. /\ reply \in AnyMessage /\ reply.id = NoId /\ stored \in StoredMessage
      /\ [reply EXCEPT !.id = 2 * turns] = stored /\ reply.says = says
    BY <1>2, <1>3, ReplyIs DEF Stored
<1> HIDE DEF reply, stored
<1>5. PICK result \in CompressByImportance(history) :
            /\ messages' = BuildMessageUpdates(messages, result, stored)
            /\ summary' = result.summary
            /\ archive' = ArchiveRow(history, result, stored)
            /\ asked' = /\ asked \/ Asks \in Said(history)
                        /\ ~Closed(result.summary, slot)
            /\ named' = named \union (Said(history) \cap Order)
            /\ settled' = IF Settles(Append(messages, stored)) = {} THEN settled
                          ELSE CHOOSE c \in Settles(Append(messages, stored)) : TRUE
            /\ overruled' = /\ overruled \/ Contradicts(result.answer)
                            /\ Said(result.left) \cap Conclusion = {}
            /\ shadowed' = shadowed \union (Said(result.left) \cap {slot} \cap Order)
            /\ crowded' = (crowded \/ Overfull(result.left, result.answer))
            /\ gone' = gone \union Ids(result.left)
            /\ inverted' = (inverted \/ Inverts(result.left))
    BY <1>1, <1>4, Zenon DEF reply
<1> DEFINE K == result.kept \ {Len(messages) + 1}
           left == result.left
           answer == result.answer
           q == result.summary
<1>6. IdsInOrder(messages)
    BY DEF IdsFresh
<1>7. /\ K \in SUBSET DOMAIN messages
      /\ \A i \in DOMAIN messages : i > Len(messages) + 1 - KeepRecent => i \in K
      /\ BuildMessageUpdates(messages, result, stored) = Window(K, stored)
      /\ ArchiveRow(history, result, stored).messages = Window(K, stored)
      /\ left \in Seq(AnyMessage)
      /\ Range(left) = {messages[i] : i \in DOMAIN messages \ K}
      /\ answer \in StructuredSummary
      /\ Folded(summary, left, answer, slot, q,
                OrdersOf(left, answer), LabelsOf(left, answer), PointsOf(left, answer))
      /\ Recent(left, slot, q)
    BY <1>3, <1>4, <1>6, WindowWritten
<1>8. Said(history) = Said(messages) \union {says}
    <2>1. messages \in Seq(AnyMessage)
        BY <1>3, StoredIsAny
    <2>2. Range(history) = Range(messages) \union {reply}
        BY <1>4, <2>1, AppendIs
    <2> HIDE DEF history
    <2> QED
        BY <1>4, <2>2 DEF Said
<1> HIDE DEF history
<1>9. archive' = [messages |-> ArchiveRow(history, result, stored).messages, summary |-> q, slot |-> slot]
    BY <1>5 DEF ArchiveRow
<1> HIDE DEF K
<1>10. /\ messages' = Window(K, stored) /\ summary' = q
       /\ archive' = [messages |-> Window(K, stored), summary |-> q, slot |-> slot]
    BY <1>5, <1>7, <1>9, Zenon
<1>11. /\ asked' = ((asked \/ Asks \in Said(history)) /\ ~Closed(q, slot))
       /\ named' = named \union (Said(history) \cap Order)
       /\ settled' = IF Settles(Append(messages, stored)) = {} THEN settled
                     ELSE CHOOSE c \in Settles(Append(messages, stored)) : TRUE
       /\ overruled' = ((overruled \/ Contradicts(answer)) /\ Said(left) \cap Conclusion = {})
       /\ shadowed' = shadowed \union (Said(left) \cap {slot} \cap Order)
       /\ crowded' = (crowded \/ Overfull(left, answer))
       /\ gone' = gone \union Ids(left)
       /\ inverted' = (inverted \/ Inverts(left))
    BY <1>5, Zenon
<1> HIDE DEF left, q, answer
<1>12. /\ asked' = ((asked \/ Asks \in Said(messages) \union {says}) /\ ~Closed(q, slot))
       /\ named' = named \union ((Said(messages) \union {says}) \cap Order)
    BY <1>8, <1>11
<1>13. /\ turn # "none" /\ turn' = "none" /\ slot' = slot /\ turns' = turns
    BY DEF Respond
<1>14. RespondWrites(says, K, left, answer, q)
    BY <1>2, <1>7, <1>10, <1>11, <1>12, <1>13, Zenon DEF RespondWrites, stored, History
<1> QED
    BY <1>13, <1>14

LEMMA StoredIs ==
    ASSUME TypeOK, NEW says \in Says
    PROVE  /\ Stored(says) \in StoredMessage /\ Stored(says).id = 2 * turns
           /\ Stored(says).says = says
<1>1. 2 * turns \in Nat /\ 2 * turns # NoId
    BY Constants DEF TypeOK, NoId
<1> QED
    BY <1>1, ReplyIs DEF Stored

LEMMA StoredId ==
    ASSUME NEW ms \in Seq(StoredMessage), NEW k \in DOMAIN ms
    PROVE  ms[k].id \in Nat \ {NoId}
<1>1. ms[k] \in StoredMessage
    OBVIOUS
<1> QED
    BY <1>1 DEF StoredMessage

(* The settled conclusion is one the history states or the one there was,  *)
(* and no newer one is in the history.                                     *)
LEMMA NewestSettles ==
    ASSUME TypeOK, IdsFresh, turn # "none",
           NEW says, NEW K, NEW left, NEW answer, NEW q, RespondWrites(says, K, left, answer, q)
    PROVE  /\ settled' \in [id : Nat, says : Conclusion \union {Nothing}]
           /\ \/ settled' = settled
              \/ /\ settled'.id = 2 * turns /\ settled'.says = says /\ says \in Conclusion
              \/ /\ settled'.id \in Ids(messages) /\ settled'.says \in Conclusion
                 /\ \E i \in DOMAIN messages : States(messages[i], settled')
           /\ \A i \in DOMAIN messages : messages[i].says \in Conclusion => messages[i].id =< settled'.id
<1> DEFINE stored == Stored(says)
           h == History(says)
           states == {i \in DOMAIN h : h[i].says \in Conclusion}
<1>1. /\ stored \in StoredMessage /\ stored.id = 2 * turns /\ stored.says = says
    BY StoredIs DEF RespondWrites
<1>2. /\ messages \in Seq(StoredMessage) /\ turns \in Nat /\ settled.id \in Nat
      /\ settled \in [id : Nat, says : Conclusion \union {Nothing}]
    BY Constants DEF TypeOK
<1>3. PICK n \in Nat :
        /\ n = Len(messages) /\ DOMAIN messages = 1 .. n /\ DOMAIN h = 1 .. n + 1 /\ Len(h) = n + 1
        /\ \A i \in 1 .. n : h[i] = messages[i]
        /\ h[n + 1] = stored /\ h \in Seq(StoredMessage)
    BY <1>1, <1>2, AppendIs DEF History
<1> HIDE DEF h, stored
<1>4. ASSUME NEW i \in 1 .. n PROVE messages[i].id \in Ids(messages) /\ messages[i].id < 2 * turns
    <2>1. messages[i].id \in Ids(messages)
        BY <1>3 DEF Ids, Range
    <2> QED
        BY <2>1 DEF IdsFresh
<1>5. ASSUME NEW i \in 1 .. n + 1 PROVE h[i].id \in Nat
    <2>1. h[i] \in StoredMessage
        BY <1>3
    <2> QED
        BY <2>1 DEF StoredMessage
<1>6. ASSUME NEW i \in 1 .. n + 1, NEW j \in 1 .. n + 1, i < j PROVE h[i].id < h[j].id
    <2>1. i \in 1 .. n
        BY <1>6
    <2>2. CASE j \in 1 .. n
        BY <1>3, <1>6, <2>1, <2>2 DEF IdsFresh, IdsInOrder
    <2>3. CASE j = n + 1
        BY <1>1, <1>3, <1>4, <2>1, <2>3
    <2> QED
        BY <2>2, <2>3
<1>7. settled' = IF Settles(h) = {} THEN settled ELSE CHOOSE c \in Settles(h) : TRUE
    BY DEF RespondWrites, h
<1>8. ASSUME Settles(h) # {}
      PROVE  \E i \in 1 .. n + 1 :
                /\ settled' = [id |-> h[i].id, says |-> h[i].says] /\ h[i].says \in Conclusion
                /\ h[i].id > settled.id
                /\ \A j \in i + 1 .. n + 1 : h[j].says \notin Conclusion
    <2>1. settled' \in Settles(h)
        BY <1>7, <1>8
    <2> QED
        BY <1>3, <2>1 DEF Settles
<1>9. ASSUME Settles(h) = {}, NEW i \in 1 .. n, messages[i].says \in Conclusion
      PROVE  messages[i].id =< settled.id
    <2>1. i \in states /\ i \in 1 .. n + 1
        BY <1>3, <1>9
    <2>2. states \in SUBSET (1 .. n + 1) /\ IsFiniteSet(1 .. n + 1)
        BY <1>3, FS_Interval
    <2>3. IsFiniteSet(states) /\ states \in SUBSET Int /\ states # {}
        BY <2>1, <2>2, FS_Subset
    <2>4. PICK l \in states : \A j \in states : j =< l
        BY <2>3, LastPosition
    <2>5. l \in 1 .. n + 1 /\ h[l].says \in Conclusion
        BY <1>3, <2>4
    <2>6. ASSUME NEW j \in l + 1 .. n + 1 PROVE h[j].says \notin Conclusion
        BY <1>3, <2>4, <2>5
    <2>7. ~(h[l].id > settled.id)
        <3>1. ASSUME h[l].id > settled.id PROVE FALSE
            <4>1. [id |-> h[l].id, says |-> h[l].says] \in Settles(h)
                BY <1>3, <2>5, <2>6, <3>1 DEF Settles
            <4> QED
                BY <1>9, <4>1
        <3> QED
            BY <3>1
    <2>8. h[l].id =< settled.id /\ h[l].id \in Nat
        BY <1>2, <1>5, <2>5, <2>7
    <2>9. i =< l /\ h[i] = messages[i]
        BY <1>3, <2>1, <2>4
    <2>10. CASE i = l
        BY <2>8, <2>9, <2>10
    <2>11. CASE i < l
        <3>1. h[i].id < h[l].id /\ h[i].id \in Nat
            BY <1>5, <1>6, <2>1, <2>5, <2>11
        <3> QED
            BY <1>2, <2>8, <2>9, <3>1
    <2> QED
        BY <2>1, <2>5, <2>9, <2>10, <2>11
<1>10. CASE Settles(h) = {}
    BY <1>2, <1>3, <1>7, <1>9, <1>10
<1>11. CASE Settles(h) # {}
    <2>1. PICK i \in 1 .. n + 1 :
                /\ settled' = [id |-> h[i].id, says |-> h[i].says] /\ h[i].says \in Conclusion
                /\ \A j \in i + 1 .. n + 1 : h[j].says \notin Conclusion
        BY <1>8, <1>11
    <2>2. settled' \in [id : Nat, says : Conclusion \union {Nothing}]
          /\ settled'.id = h[i].id /\ settled'.says = h[i].says
        BY <1>5, <2>1
    <2>3. ASSUME NEW j \in 1 .. n, messages[j].says \in Conclusion PROVE messages[j].id =< settled'.id
        <3>1. h[j] = messages[j] /\ j \in 1 .. n + 1
            BY <1>3
        <3>2. j =< i
            BY <2>1, <2>3, <3>1
        <3>3. CASE j = i
            BY <1>5, <2>2, <3>1, <3>3
        <3>4. CASE j < i
            <4>1. h[j].id < h[i].id /\ h[j].id \in Nat /\ h[i].id \in Nat
                BY <1>5, <1>6, <3>1, <3>4
            <4> QED
                BY <2>2, <3>1, <4>1
        <3> QED
            BY <3>2, <3>3, <3>4
    <2>4. CASE i \in 1 .. n
        <3>1. States(messages[i], settled') /\ settled'.id \in Ids(messages) /\ i \in DOMAIN messages
            BY <1>3, <1>4, <2>2, <2>4 DEF States
        <3> QED
            BY <1>3, <2>1, <2>2, <2>3, <3>1
    <2>5. CASE i = n + 1
        BY <1>1, <1>3, <2>1, <2>2, <2>3, <2>5
    <2> QED
        BY <2>4, <2>5
<1> QED
    BY <1>10, <1>11

LEMMA RespondKeepsType ==
    ASSUME TypeOK, IdsFresh, turn # "none",
           NEW says, NEW K, NEW left, NEW answer, NEW q, RespondWrites(says, K, left, answer, q)
    PROVE  TypeOK' /\ CheckpointMatchesArchive'
<1> DEFINE w == Window(K, Stored(says))
<1>1. /\ w \in Seq(StoredMessage) /\ messages' = w /\ summary' = q
      /\ archive' = [messages |-> w, summary |-> q, slot |-> slot]
    <2>1. Stored(says) \in StoredMessage
        BY StoredIs DEF RespondWrites
    <2> QED
        BY <2>1, WindowIs DEF RespondWrites, TypeOK
<1>2. q \in StructuredSummary /\ WithinCaps(q)
    BY DEF RespondWrites, Folded
<1> HIDE DEF w
<1>3. /\ archive'.messages = w /\ archive'.summary = q /\ archive'.slot = slot
      /\ archive' \in [messages : Seq(StoredMessage), summary : StructuredSummary,
                       slot : Order \union {Nothing}]
    BY <1>1, <1>2 DEF TypeOK
<1>4. gone' \subseteq Nat /\ named' \subseteq Order /\ shadowed' \subseteq Order
    <2>1. Ids(left) \subseteq Nat
        <3>1. \A m \in Range(left) : m \in AnyMessage
            BY RangeOfSeq DEF RespondWrites
        <3> QED
            BY <3>1 DEF Ids, AnyMessage
    <2> QED
        BY <2>1 DEF RespondWrites, TypeOK
<1>5. settled' \in [id : Nat, says : Conclusion \union {Nothing}]
    BY NewestSettles
<1>6. asked' \in BOOLEAN /\ overruled' \in BOOLEAN /\ crowded' \in BOOLEAN /\ inverted' \in BOOLEAN
    BY DEF RespondWrites
<1>7. slot' \in Order \union {Nothing} /\ turns' \in 2 .. MaxTurns /\ turn' \in {"none", "asked", "blocked"}
    BY DEF RespondWrites, TypeOK
<1>8. {asked', overruled', crowded', inverted'} \subseteq BOOLEAN
    BY <1>6
<1>9. TypeOK'
    BY <1>1, <1>2, <1>3, <1>4, <1>5, <1>7, <1>8 DEF TypeOK
<1>10. CheckpointMatchesArchive'
    <2>1. Len(w) \in Nat /\ SubSeq(w, 1, Len(w)) = w
        BY <1>1, SubSeqFull
    <2>2. \A i \in Len(w) + 1 .. Len(w) : w[i].human
        BY <2>1
    <2> QED
        BY <1>1, <1>3, <2>1, <2>2 DEF CheckpointMatchesArchive
<1> QED
    BY <1>9, <1>10

LEMMA RespondKeepsIds ==
    ASSUME TypeOK, IdsFresh, turn # "none",
           NEW says, NEW K, NEW left, NEW answer, NEW q, RespondWrites(says, K, left, answer, q)
    PROVE  IdsFresh' /\ 2 * turns \notin gone'
<1> DEFINE w == Window(K, Stored(says))
<1>1. /\ Stored(says) \in StoredMessage /\ Stored(says).id = 2 * turns
    BY StoredIs DEF RespondWrites
<1>2. messages \in Seq(StoredMessage) /\ turns \in Nat /\ gone \subseteq Nat
    BY Constants DEF TypeOK
<1>3. /\ K \in SUBSET DOMAIN messages
      /\ left \in Seq(AnyMessage) /\ Range(left) = {messages[i] : i \in DOMAIN messages \ K}
    BY DEF RespondWrites
<1>4. ASSUME NEW i \in DOMAIN messages PROVE messages[i].id \in Ids(messages) /\ messages[i].id < 2 * turns
    <2>1. messages[i].id \in Ids(messages)
        BY DEF Ids, Range
    <2> QED
        BY <2>1 DEF IdsFresh
<1>5. IdsInOrder(w)
    BY <1>1, <1>2, <1>3, <1>4, WindowOrder DEF IdsFresh
<1>6. /\ Ids(w) = IdsAt(messages, K) \union {2 * turns}
      /\ Ids(messages) = IdsAt(messages, K) \union Ids(left)
    BY <1>1, <1>2, <1>3, WindowHolds
<1> HIDE DEF w
<1>7. Ids(left) \cap IdsAt(messages, K) = {}
    <2> SUFFICES ASSUME NEW i \in K, NEW j \in DOMAIN messages \ K, messages[i].id = messages[j].id PROVE FALSE
        BY <1>3 DEF Ids, IdsAt
    <2>1. i \in DOMAIN messages /\ i \in Nat /\ j \in Nat /\ i # j
        BY <1>2, <1>3
    <2>2. ASSUME NEW k \in DOMAIN messages PROVE messages[k].id \in Nat
        BY <1>2, StoredId
    <2>3. i < j \/ j < i
        BY <2>1
    <2> QED
        BY <2>1, <2>2, <2>3 DEF IdsFresh, IdsInOrder
<1>8. \A id \in gone \union Ids(messages) : id < 2 * turns /\ id \in Nat
    <2>1. \A id \in gone \union Ids(messages) : id < 2 * turns
        BY DEF IdsFresh
    <2>2. Ids(messages) \subseteq Nat
        BY <1>2, StoredId DEF Ids, Range
    <2> QED
        BY <1>2, <2>1, <2>2
<1>9. messages' = w /\ gone' = gone \union Ids(left) /\ turns' = turns /\ turn' = "none"
    BY DEF RespondWrites, w
<1>10. 2 * turns \notin gone \union Ids(messages)
    BY <1>2, <1>8
<1>11. gone' \cap Ids(w) = {}
    BY <1>6, <1>7, <1>9, <1>10 DEF IdsFresh
<1>12. \A id \in gone' \union Ids(w) : id =< 2 * turns
    BY <1>2, <1>6, <1>8, <1>9
<1>13. IdsFresh'
    BY <1>5, <1>9, <1>11, <1>12 DEF IdsFresh
<1> QED
    BY <1>6, <1>9, <1>10, <1>13

LEMMA RespondKeepsConclusion ==
    ASSUME TypeOK, IdsFresh, CheckpointMatchesArchive, LastConclusion, turn # "none",
           NEW says, NEW K, NEW left, NEW answer, NEW q, RespondWrites(says, K, left, answer, q)
    PROVE  LastConclusion'
<1> DEFINE w == Window(K, Stored(says))
<1>1. /\ Stored(says) \in StoredMessage /\ Stored(says).id = 2 * turns /\ Stored(says).says = says
    BY StoredIs DEF RespondWrites
<1>2. /\ messages \in Seq(StoredMessage) /\ turns \in Nat /\ gone \subseteq Nat
    BY Constants DEF TypeOK
<1>3. /\ K \in SUBSET DOMAIN messages /\ answer \in StructuredSummary
      /\ left \in Seq(AnyMessage) /\ Range(left) = {messages[i] : i \in DOMAIN messages \ K}
    BY DEF RespondWrites
<1>4. Range(w) = {Compact(messages[i]) : i \in K} \union {Stored(says)}
    BY <1>1, <1>2, <1>3, WindowIs
<1>5. Range(left) \subseteq Range(messages)
    BY <1>1, <1>2, <1>3, WindowHolds
<1>6. 2 * turns \notin gone' /\ gone \cap Ids(messages) = {}
    BY RespondKeepsIds DEF IdsFresh
<1> HIDE DEF w
<1>7. /\ archive'.messages = w /\ summary' = q /\ gone' = gone \union Ids(left)
    BY DEF RespondWrites, w
<1>8. /\ settled' \in [id : Nat, says : Conclusion \union {Nothing}]
      /\ \/ settled' = settled
         \/ /\ settled'.id = 2 * turns /\ settled'.says = says /\ says \in Conclusion
         \/ /\ settled'.id \in Ids(messages) /\ settled'.says \in Conclusion
            /\ \E i \in DOMAIN messages : States(messages[i], settled')
      /\ \A i \in DOMAIN messages : messages[i].says \in Conclusion => messages[i].id =< settled'.id
    BY NewestSettles
<1>9. ASSUME NEW i \in DOMAIN messages, States(messages[i], settled')
      PROVE  settled'.id \in gone' \/ \E m \in Range(w) : States(m, settled')
    <2>1. CASE i \in K
        <3>1. messages[i] \in StoredMessage
            BY <1>2
        <3>2. Compact(messages[i]).id = messages[i].id /\ Compact(messages[i]).says = messages[i].says
            BY <3>1, CompactIs
        <3>3. Compact(messages[i]) \in Range(w)
            BY <1>4, <2>1
        <3> QED
            BY <1>9, <3>2, <3>3 DEF States
    <2>2. CASE i \notin K
        <3>1. messages[i] \in Range(left)
            BY <1>3, <2>2
        <3> QED
            BY <1>7, <1>9, <3>1 DEF Ids, States
    <2> QED
        BY <2>1, <2>2
<1>10. ASSUME settled'.says # Nothing
       PROVE  settled'.id \in gone \/ settled'.id = 2 * turns \/ \E i \in DOMAIN messages : States(messages[i], settled')
    <2>1. CASE settled' = settled
        <3>1. settled.id \in gone \/ \E m \in Range(archive.messages) : States(m, settled)
            BY <1>10, <2>1 DEF LastConclusion
        <3>2. Range(archive.messages) \subseteq Range(messages)
            BY Prefix
        <3>3. \A m \in Range(messages) : \E i \in DOMAIN messages : m = messages[i]
            BY DEF Range
        <3> QED
            BY <2>1, <3>1, <3>2, <3>3
    <2> QED
        BY <1>8, <2>1
<1>11. ASSUME settled'.says # Nothing
       PROVE  settled'.id \in gone' \/ \E m \in Range(w) : States(m, settled')
    <2>1. CASE settled'.id \in gone
        BY <1>7, <2>1
    <2>2. CASE \E i \in DOMAIN messages : States(messages[i], settled')
        BY <1>9, <2>2
    <2>3. CASE settled'.id = 2 * turns /\ settled'.says = says
        <3>1. Stored(says) \in Range(w)
            BY <1>4
        <3> QED
            BY <1>1, <2>3, <3>1 DEF States
    <2>4. CASE settled' = settled /\ settled'.id \notin gone
        <3>1. PICK m \in Range(archive.messages) : States(m, settled')
            BY <1>11, <2>4 DEF LastConclusion
        <3>2. m \in Range(messages)
            BY Prefix
        <3> QED
            BY <2>2, <3>1, <3>2 DEF Range
    <2> QED
        BY <1>8, <2>1, <2>2, <2>3, <2>4
<1>12. ASSUME settled'.says # Nothing, settled'.id \in gone', ~inverted', ~overruled', ~crowded'
       PROVE  Clear(q.confirmed, settled'.says)
    <2> DEFINE c == settled'
    <2>1. /\ ~inverted /\ ~crowded /\ ~Overfull(left, answer) /\ ~Inverts(left)
          /\ Said(left) \cap Conclusion = {} => ~overruled /\ ~Contradicts(answer)
        BY <1>12 DEF RespondWrites
    <2>2. Folded(summary, left, answer, slot, q,
                 OrdersOf(left, answer), LabelsOf(left, answer), PointsOf(left, answer))
        BY DEF RespondWrites
    <2>3. c \in [id : Nat, says : Conclusion]
        BY <1>8, <1>12
    <2>4. c.id # 2 * turns /\ c.id \in gone \union Ids(left)
        BY <1>6, <1>7, <1>12
    <2>5. c.id \in gone => c = settled
        BY <1>6, <1>8, <2>4
    <2>6. c.id \notin gone => \E i \in DOMAIN messages : States(messages[i], c)
        BY <1>10, <1>12, <2>4
    <2>7. \A i \in DOMAIN messages : messages[i].says \in Conclusion => messages[i].id =< c.id
        BY <1>8
    <2> HIDE DEF c
    <2>8. Clear(q.confirmed, c.says)
        BY <1>3, <1>5, <2>1, <2>2, <2>3, <2>4, <2>5, <2>6, <2>7, ConclusionFolded
    <2> QED
        BY <2>8 DEF c
<1> QED
    BY <1>7, <1>11, <1>12 DEF LastConclusion

LEMMA RespondForgetsNothing ==
    ASSUME ContextInv, turn # "none", NEW says, NEW K, NEW left, NEW answer, NEW q,
           RespondWrites(says, K, left, answer, q),
           LastConclusion', CheckpointMatchesArchive'
    PROVE  NothingForgotten'
<1> DEFINE w == Window(K, Stored(says))
<1> SUFFICES ASSUME ~crowded' PROVE
        /\ named' \subseteq Shown' \union Range(archive'.summary.orders) \union shadowed'
        /\ asked' => Asks \in Shown' \union Range(archive'.summary.pending)
        /\ ~inverted' /\ ~overruled' /\ settled'.says # Nothing
             /\ settled'.id \notin Ids(archive'.messages) =>
              /\ settled'.says \in Range(archive'.summary.confirmed)
              /\ RivalsOf(settled'.says) \cap Range(archive'.summary.confirmed) = {}
    BY DEF NothingForgotten
<1>1. TypeOK /\ CheckpointMatchesArchive /\ NothingForgotten
    BY DEF ContextInv
<1>2. ~crowded /\ ~Overfull(left, answer) /\ summary \in StructuredSummary /\ messages \in Seq(StoredMessage)
    BY <1>1 DEF RespondWrites, TypeOK
<1>3. /\ Said(w) = {messages[i].says : i \in K} \union {says}
      /\ Said(messages) = {messages[i].says : i \in K} \union Said(left)
    <2>1. Stored(says) \in StoredMessage /\ Stored(says).says = says
        BY <1>1, StoredIs DEF RespondWrites
    <2>2. /\ K \in SUBSET DOMAIN messages
          /\ left \in Seq(AnyMessage) /\ Range(left) = {messages[i] : i \in DOMAIN messages \ K}
        BY DEF RespondWrites
    <2>3. /\ Said(Window(K, Stored(says))) = {messages[i].says : i \in K} \union {Stored(says).says}
          /\ Said(messages) = {messages[i].says : i \in K} \union Said(left)
        BY <1>2, <2>1, <2>2, WindowHolds
    <2> QED
        BY <2>1, <2>3
<1> HIDE DEF w
<1>4. archive'.messages = w /\ archive'.summary = q
    BY DEF RespondWrites, w
<1>5. Shown' = Said(w)
    BY <1>4 DEF Shown
<1>6. Shown \subseteq Said(messages) /\ archive.summary = summary
    BY <1>1, Prefix DEF Shown, CheckpointMatchesArchive
<1>7. /\ Range(summary.orders) \union (Said(left) \cap (Order \ {slot})) \subseteq Range(q.orders)
      /\ Asks \in Range(summary.pending) \union Said(left) /\ ~Closed(q, slot) => Asks \in Range(q.pending)
    <2>1. Folded(summary, left, answer, slot, q,
                 OrdersOf(left, answer), LabelsOf(left, answer), PointsOf(left, answer))
          /\ answer \in StructuredSummary
        BY DEF RespondWrites
    <2>2. Owes(summary, left, answer, slot, q,
               OrdersOf(left, answer), LabelsOf(left, answer), PointsOf(left, answer))
        BY <1>2, <2>1, RoomForAll DEF Folded
    <2> QED
        BY <2>2 DEF Owes
<1>8. named' \subseteq Said(w) \union Range(q.orders) \union shadowed'
    <2> SUFFICES ASSUME NEW x \in named' PROVE x \in Said(w) \union Range(q.orders) \union shadowed'
        OBVIOUS
    <2>1. shadowed' = shadowed \union (Said(left) \cap {slot} \cap Order)
          /\ named' = named \union ((Said(messages) \union {says}) \cap Order)
        BY DEF RespondWrites
    <2>2. x \in ((Said(messages) \union {says}) \cap Order) \union Range(summary.orders) \union shadowed
        BY <1>1, <1>2, <1>6, <2>1 DEF NothingForgotten, TypeOK
    <2> QED
        BY <1>3, <1>7, <2>1, <2>2
<1>9. ASSUME asked' PROVE Asks \in Said(w) \union Range(q.pending)
    <2>1. ~Closed(q, slot) /\ (asked \/ Asks \in Said(messages) \union {says})
        BY <1>9 DEF RespondWrites
    <2>2. Asks \in Said(messages) \union {says} \union Range(summary.pending)
        BY <1>1, <1>2, <1>6, <2>1 DEF NothingForgotten
    <2> QED
        BY <1>3, <1>7, <2>1, <2>2
<1>10. ASSUME ~inverted', ~overruled', settled'.says # Nothing, settled'.id \notin Ids(archive'.messages)
       PROVE  /\ settled'.says \in Range(archive'.summary.confirmed)
              /\ RivalsOf(settled'.says) \cap Range(archive'.summary.confirmed) = {}
    <2>1. ~\E m \in Range(archive'.messages) : States(m, settled')
        BY <1>10 DEF Ids, States
    <2>2. Clear(summary'.confirmed, settled'.says)
        BY <1>10, <2>1 DEF LastConclusion
    <2> QED
        BY <2>2 DEF Clear, CheckpointMatchesArchive
<1> QED
    BY <1>4, <1>5, <1>8, <1>9, <1>10


----------------------------------------------------------------------------
(* The invariant *)

LEMMA RestoredIs ==
    /\ Restored \in Seq(StoredMessage) /\ Len(Restored) = 4 /\ DOMAIN Restored = 1 .. 4
    /\ \A i \in 1 .. 4 : Restored[i].id = i /\ Restored[i].says = Nothing
<1> DEFINE a == [id |-> 1, human |-> TRUE, long |-> FALSE, says |-> Nothing]
           b == [id |-> 2, human |-> FALSE, long |-> TRUE, says |-> Nothing]
           c == [id |-> 3, human |-> TRUE, long |-> FALSE, says |-> Nothing]
           d == [id |-> 4, human |-> FALSE, long |-> TRUE, says |-> Nothing]
<1>1. Restored = <<a, b, c, d>>
    BY DEF Restored, LongReply, Message
<1>2. Nothing \in Says
    BY DEF Says
<1>3. ASSUME NEW id \in 1 .. 4, NEW human \in BOOLEAN, NEW long \in BOOLEAN
      PROVE  [id |-> id, human |-> human, long |-> long, says |-> Nothing] \in StoredMessage
    BY <1>2 DEF StoredMessage, NoId
<1>4. 1 \in 1 .. 4 /\ 2 \in 1 .. 4 /\ 3 \in 1 .. 4 /\ 4 \in 1 .. 4
    OBVIOUS
<1>5. a \in StoredMessage /\ b \in StoredMessage /\ c \in StoredMessage /\ d \in StoredMessage
    BY <1>3, <1>4, Zenon
<1>6. a.id = 1 /\ b.id = 2 /\ c.id = 3 /\ d.id = 4
    OBVIOUS
<1>7. a.says = Nothing /\ b.says = Nothing /\ c.says = Nothing /\ d.says = Nothing
    OBVIOUS
<1> HIDE DEF a, b, c, d
<1>8. Restored \in Seq(StoredMessage) /\ Len(Restored) = 4
    BY <1>1, <1>5
<1>9. Restored[1] = a /\ Restored[2] = b /\ Restored[3] = c /\ Restored[4] = d
    BY <1>1
<1>10. \A i \in 1 .. 4 : i = 1 \/ i = 2 \/ i = 3 \/ i = 4
    OBVIOUS
<1> QED
    BY <1>6, <1>7, <1>8, <1>9, <1>10

LEMMA OneOrder ==
    ASSUME NEW order \in Order
    PROVE  LET s == [EmptySummary EXCEPT !.orders = <<order>>] IN
           /\ s \in StructuredSummary /\ WithinCaps(s)
<1> DEFINE s == [EmptySummary EXCEPT !.orders = <<order>>]
<1>0. ASSUME NEW l, NEW t, t = [EmptySummary EXCEPT !.orders = l]
      PROVE  t = [orders |-> l, confirmed |-> <<>>, pending |-> <<>>]
    BY <1>0 DEF EmptySummary
<1>1. s = [orders |-> <<order>>, confirmed |-> <<>>, pending |-> <<>>]
    BY <1>0, Zenon
<1> HIDE DEF s
<1>2. /\ <<order>> \in Seq(Order) /\ Len(<<order>>) = 1
      /\ <<>> \in Seq(Label) /\ <<>> \in Seq(Point) /\ Len(<<>>) = 0
    BY EmptySeq
<1>3. s \in StructuredSummary
    BY <1>1, <1>2, SummaryOf
<1>4. Len(s.orders) = 1 /\ Len(s.confirmed) = 0 /\ Len(s.pending) = 0
    BY <1>1, <1>2
<1>5. OrderCap >= 1 /\ ConfirmedCap >= 0 /\ PendingCap >= 0 /\ MaxItems >= 1
    BY Constants
<1>6. Items(s) = 1
    BY <1>4 DEF Items
<1>7. WithinCaps(s)
    BY <1>4, <1>5, <1>6 DEF WithinCaps
<1> QED
    BY <1>3, <1>7 DEF s

LEMMA InitSays ==
    ASSUME Init
    PROVE  /\ messages \in Seq(StoredMessage) /\ summary \in StructuredSummary /\ WithinCaps(summary)
           /\ \A i \in DOMAIN messages : messages[i].id = i /\ messages[i].says = Nothing /\ i =< 4
<1>1. CASE messages = <<>> /\ summary = EmptySummary
    BY <1>1, EmptySummaryType, EmptySeq
<1>2. CASE messages = Restored /\ \E order \in Order : summary = [EmptySummary EXCEPT !.orders = <<order>>]
    BY <1>2, RestoredIs, OneOrder
<1> QED
    BY <1>1, <1>2 DEF Init

LEMMA InitInvariant == Init => ContextInv
<1> SUFFICES ASSUME Init PROVE ContextInv
    OBVIOUS
<1>1. /\ messages \in Seq(StoredMessage) /\ summary \in StructuredSummary /\ WithinCaps(summary)
      /\ \A i \in DOMAIN messages : messages[i].id = i /\ messages[i].says = Nothing /\ i =< 4
    BY InitSays
<1>2. /\ slot = Nothing /\ turn = "none" /\ turns = 2
      /\ archive = [messages |-> messages, summary |-> summary, slot |-> slot]
      /\ named = Range(summary.orders) /\ shadowed = {} /\ asked = FALSE
      /\ settled = [id |-> 0, says |-> Nothing] /\ overruled = FALSE
      /\ crowded = FALSE /\ gone = {} /\ inverted = FALSE
    BY DEF Init, NoId
<1>3. /\ archive.messages = messages /\ archive.summary = summary /\ archive.slot = Nothing
      /\ settled.says = Nothing
    BY <1>2
<1>4. TypeOK
    <2>1. archive \in [messages : Seq(StoredMessage), summary : StructuredSummary,
                       slot : Order \union {Nothing}]
        BY <1>1, <1>2
    <2>2. Range(summary.orders) \subseteq Order
        BY <1>1, RangeOfSeq DEF StructuredSummary
    <2>3. turns \in 2 .. MaxTurns
        BY <1>2, Constants
    <2>4. settled \in [id : Nat, says : Conclusion \union {Nothing}]
        BY <1>2
    <2>5. {asked, overruled, crowded, inverted} \subseteq BOOLEAN
        BY <1>2
    <2> QED
        BY <1>1, <1>2, <1>3, <2>1, <2>2, <2>3, <2>4, <2>5 DEF TypeOK
<1>5. IdsFresh
    <2>1. IdsInOrder(messages)
        BY <1>1 DEF IdsInOrder
    <2>2. \A id \in Ids(messages) : id =< 4
        BY <1>1 DEF Ids, Range
    <2> QED
        BY <1>2, <2>1, <2>2 DEF IdsFresh
<1>6. CheckpointMatchesArchive
    <2>1. Len(messages) \in Nat /\ SubSeq(messages, 1, Len(messages)) = messages
        BY <1>1, SubSeqFull
    <2> QED
        BY <1>3, <2>1 DEF CheckpointMatchesArchive
<1>8. LastConclusion
    BY <1>1, <1>3, Constants DEF LastConclusion
<1>9. NothingForgotten
    BY <1>2, <1>3 DEF NothingForgotten
<1> QED
    BY <1>4, <1>5, <1>6, <1>8, <1>9 DEF ContextInv

LEMMA AskInvariant == ContextInv /\ Ask => ContextInv'
<1> SUFFICES ASSUME ContextInv, Ask PROVE ContextInv'
    OBVIOUS
<1>0. /\ TypeOK /\ IdsFresh /\ CheckpointMatchesArchive /\ LastConclusion /\ NothingForgotten
    BY DEF ContextInv
<1>1. PICK says \in Queries : messages' = Append(messages, Message(2 * turns + 1, TRUE, says))
    BY DEF Ask
<1>2. /\ turn = "none" /\ turns < MaxTurns /\ turn' = "asked" /\ turns' = turns + 1
      /\ summary' = summary /\ archive' = archive /\ named' = named /\ shadowed' = shadowed
      /\ asked' = asked /\ settled' = settled /\ overruled' = overruled /\ crowded' = crowded
      /\ gone' = gone /\ inverted' = inverted
    BY DEF Ask, histories
<1> DEFINE m == Message(2 * turns + 1, TRUE, says)
<1>3. turns \in Nat /\ turns >= 2 /\ messages \in Seq(StoredMessage)
    BY <1>0, Constants DEF TypeOK
<1>4. m = [id |-> 2 * turns + 1, human |-> TRUE, long |-> FALSE, says |-> says]
    BY DEF Message
<1> HIDE DEF m
<1>5. m \in StoredMessage /\ m.id = 2 * turns + 1 /\ m.human /\ m.says = says
    <2>1. says \in Says /\ 2 * turns + 1 \in Nat \ {0}
        BY <1>3, Constants
    <2> QED
        BY <1>4, <2>1 DEF StoredMessage, NoId
<1>6. PICK n \in Nat :
        /\ n = Len(messages) /\ DOMAIN messages = 1 .. n /\ messages' \in Seq(StoredMessage)
        /\ Len(messages') = n + 1 /\ DOMAIN messages' = 1 .. n + 1
        /\ \A i \in 1 .. n : messages'[i] = messages[i]
        /\ messages'[n + 1] = m
        /\ Range(messages') = Range(messages) \union {m}
    <2>1. messages' = Append(messages, m)
        BY <1>1 DEF m
    <2> QED
        BY <1>3, <1>5, <2>1, AppendIs
<1>7. slot' \in Order \union {Nothing}
    BY DEF Ask
<1>8. TypeOK'
    <2>1. turns' \in 2 .. MaxTurns
        BY <1>2, <1>3, Constants
    <2> QED
        BY <1>0, <1>2, <1>6, <1>7, <2>1 DEF TypeOK
<1>9. /\ Ids(messages') = Ids(messages) \union {2 * turns + 1}
      /\ Said(messages') = Said(messages) \union {says}
    BY <1>5, <1>6 DEF Ids, Said
<1>10. \A id \in gone \union Ids(messages) : id \in Nat /\ id =< 2 * turns
    <2>1. gone \subseteq Nat /\ Ids(messages) \subseteq Nat
        BY <1>0, <1>3, StoredId DEF TypeOK, Ids, Range
    <2> QED
        BY <1>0, <2>1 DEF IdsFresh
<1>11. IdsFresh'
    <2>1. ASSUME NEW i \in 1 .. n + 1, NEW j \in 1 .. n + 1, i < j PROVE messages'[i].id < messages'[j].id
        <3>1. i \in 1 .. n
            BY <2>1
        <3>2. messages[i].id \in Ids(messages)
            BY <1>6, <3>1 DEF Ids, Range
        <3>3. CASE j \in 1 .. n
            BY <1>0, <1>6, <2>1, <3>1, <3>3 DEF IdsFresh, IdsInOrder
        <3>4. CASE j = n + 1
            <4>1. messages'[j].id = 2 * turns + 1 /\ messages'[i] = messages[i]
                BY <1>5, <1>6, <3>1, <3>4
            <4> QED
                BY <1>3, <1>10, <3>2, <4>1
        <3> QED
            BY <3>3, <3>4
    <2>2. IdsInOrder(messages')
        BY <1>6, <2>1 DEF IdsInOrder
    <2>3. 2 * turns + 1 \notin gone
        BY <1>3, <1>10
    <2>4. gone' \cap Ids(messages') = {}
        BY <1>0, <1>2, <1>9, <2>3 DEF IdsFresh
    <2>5. \A id \in gone' \union Ids(messages') : id < 2 * turns' /\ id =< 2 * turns'
        BY <1>2, <1>3, <1>9, <1>10
    <2> QED
        BY <2>2, <2>4, <2>5 DEF IdsFresh
<1>12. CheckpointMatchesArchive'
    <2> DEFINE a == archive.messages
    <2>1. a \in Seq(StoredMessage) /\ archive'.messages = a
        BY <1>0, <1>2 DEF TypeOK
    <2>2. Len(messages) >= Len(a) /\ SubSeq(messages, 1, Len(a)) = a
          /\ \A i \in Len(a) + 1 .. Len(messages) : messages[i].human
        BY <1>0 DEF CheckpointMatchesArchive
    <2> HIDE DEF a
    <2>3. PICK k \in Nat : k = Len(a) /\ DOMAIN a = 1 .. k
        BY <2>1
    <2>4. k =< n
        BY <1>6, <2>2, <2>3
    <2>5. \A i \in 1 .. k : a[i] = messages'[i]
        <3>1. ASSUME NEW i \in 1 .. k PROVE a[i] = messages'[i]
            <4>1. i \in 1 .. n
                BY <2>4
            <4>2. SubSeq(messages, 1, k)[i] = messages[i]
                BY <1>3, <1>6, <2>4
            <4> QED
                BY <1>6, <2>2, <2>3, <4>1, <4>2
        <3> QED
            BY <3>1
    <2>6. SubSeq(messages', 1, k) = a
        <3> DEFINE b == SubSeq(messages', 1, k)
        <3>1. b \in Seq(StoredMessage) /\ Len(b) = k /\ \A i \in 1 .. k : b[i] = messages'[i]
            BY <1>6, <2>4
        <3> HIDE DEF b
        <3>2. \A i \in 1 .. Len(b) : b[i] = a[i]
            BY <2>5, <3>1
        <3>3. b = a
            BY <2>1, <2>3, <3>1, <3>2, SeqEqual
        <3> QED
            BY <3>3 DEF b
    <2>7. ASSUME NEW i \in k + 1 .. n + 1 PROVE messages'[i].human
        <3>1. CASE i \in 1 .. n
            <4>1. i \in Len(a) + 1 .. Len(messages)
                BY <1>6, <2>3, <3>1
            <4> QED
                BY <1>6, <2>2, <3>1, <4>1
        <3>2. CASE i = n + 1
            BY <1>5, <1>6, <3>2
        <3>3. i \in 1 .. n \/ i = n + 1
            BY <2>3
        <3> QED
            BY <3>1, <3>2, <3>3
    <2>8. Len(messages') >= Len(a)
        BY <1>6, <2>3, <2>4
    <2>9. summary' = archive'.summary
        BY <1>0, <1>2 DEF CheckpointMatchesArchive
    <2> QED
        BY <1>6, <2>1, <2>3, <2>6, <2>7, <2>8, <2>9 DEF CheckpointMatchesArchive
<1>14. LastConclusion'
    BY <1>0, <1>2 DEF LastConclusion
<1>15. NothingForgotten'
    BY <1>0, <1>2 DEF NothingForgotten, Shown
<1> QED
    BY <1>8, <1>11, <1>12, <1>14, <1>15 DEF ContextInv

LEMMA BlockInvariant == ContextInv /\ Block => ContextInv'
<1> SUFFICES ASSUME ContextInv, Block PROVE ContextInv'
    OBVIOUS
<1>0. /\ TypeOK /\ IdsFresh /\ CheckpointMatchesArchive /\ LastConclusion /\ NothingForgotten
    BY DEF ContextInv
<1>1. /\ turn = "none" /\ turns < MaxTurns /\ turn' = "blocked" /\ turns' = turns + 1
      /\ messages' = messages /\ slot' = slot /\ summary' = summary /\ archive' = archive
      /\ named' = named /\ shadowed' = shadowed /\ asked' = asked /\ settled' = settled /\ overruled' = overruled
      /\ crowded' = crowded /\ gone' = gone /\ inverted' = inverted
    BY DEF Block, histories
<1>2. turns' \in 2 .. MaxTurns /\ turns \in Nat /\ turns' = turns + 1
    BY <1>0, <1>1, Constants DEF TypeOK
<1>3. TypeOK'
    BY <1>0, <1>1, <1>2 DEF TypeOK
<1>4. IdsFresh'
    <2>1. \A id \in gone \union Ids(messages) : id \in Nat /\ id =< 2 * turns
        <3>1. gone \subseteq Nat /\ Ids(messages) \subseteq Nat
            BY <1>0, StoredId DEF TypeOK, Ids, Range
        <3> QED
            BY <1>0, <3>1 DEF IdsFresh
    <2>2. \A id \in gone \union Ids(messages) : id < 2 * turns' /\ id =< 2 * turns'
        BY <1>2, <2>1
    <2> QED
        BY <1>0, <1>1, <2>2 DEF IdsFresh
<1>5. CheckpointMatchesArchive' /\ LastConclusion' /\ NothingForgotten'
    BY <1>0, <1>1 DEF CheckpointMatchesArchive, LastConclusion, NothingForgotten, Shown
<1> QED
    BY <1>3, <1>4, <1>5 DEF ContextInv

LEMMA AbortInvariant == ContextInv /\ Abort => ContextInv'
<1> SUFFICES ASSUME ContextInv, Abort PROVE ContextInv'
    OBVIOUS
<1>0. /\ TypeOK /\ IdsFresh /\ CheckpointMatchesArchive /\ LastConclusion /\ NothingForgotten
    BY DEF ContextInv
<1>1. /\ turn' = "none" /\ turns' = turns
      /\ messages' = messages /\ slot' = slot /\ summary' = summary /\ archive' = archive
      /\ named' = named /\ shadowed' = shadowed /\ asked' = asked /\ settled' = settled /\ overruled' = overruled
      /\ crowded' = crowded /\ gone' = gone /\ inverted' = inverted
    BY DEF Abort, histories
<1>2. TypeOK' /\ IdsFresh'
    BY <1>0, <1>1 DEF TypeOK, IdsFresh
<1>3. CheckpointMatchesArchive' /\ LastConclusion' /\ NothingForgotten'
    BY <1>0, <1>1 DEF CheckpointMatchesArchive, LastConclusion, NothingForgotten, Shown
<1> QED
    BY <1>2, <1>3 DEF ContextInv

LEMMA ExpireInvariant == ContextInv /\ Expire => ContextInv'
<1> SUFFICES ASSUME ContextInv, Expire PROVE ContextInv'
    OBVIOUS
<1>0. /\ TypeOK /\ IdsFresh /\ CheckpointMatchesArchive /\ LastConclusion /\ NothingForgotten
    BY DEF ContextInv
<1> DEFINE a == archive.messages
<1>1. /\ turn = "none" /\ turn' = turn /\ turns' = turns
      /\ messages' = a /\ slot' = archive.slot /\ summary' = archive.summary /\ archive' = archive
      /\ named' = named /\ shadowed' = shadowed /\ asked' = asked /\ settled' = settled /\ overruled' = overruled
      /\ crowded' = crowded /\ gone' = gone /\ inverted' = inverted
    BY DEF Expire, histories
<1>2. /\ a \in Seq(StoredMessage) /\ DOMAIN a \subseteq DOMAIN messages
      /\ \A i \in DOMAIN a : a[i] = messages[i]
      /\ Ids(a) \subseteq Ids(messages) /\ archive'.messages = a
    BY <1>0, <1>1, Prefix
<1>3. summary = archive.summary /\ archive.slot \in Order \union {Nothing}
    BY <1>0 DEF CheckpointMatchesArchive, TypeOK
<1> HIDE DEF a
<1>4. TypeOK'
    BY <1>0, <1>1, <1>2, <1>3 DEF TypeOK
<1>5. IdsFresh'
    <2>1. IdsInOrder(a)
        BY <1>0, <1>2 DEF IdsFresh, IdsInOrder
    <2> QED
        BY <1>0, <1>1, <1>2, <2>1 DEF IdsFresh
<1>6. CheckpointMatchesArchive'
    <2>1. Len(a) \in Nat /\ SubSeq(a, 1, Len(a)) = a
        BY <1>2, SubSeqFull
    <2>2. \A i \in Len(a) + 1 .. Len(a) : a[i].human
        BY <2>1
    <2> QED
        BY <1>1, <1>2, <1>3, <2>1, <2>2 DEF CheckpointMatchesArchive
<1>8. LastConclusion'
    BY <1>0, <1>1, <1>2, <1>3 DEF LastConclusion
<1>9. NothingForgotten'
    BY <1>0, <1>1 DEF NothingForgotten, Shown
<1> QED
    BY <1>4, <1>5, <1>6, <1>8, <1>9 DEF ContextInv

LEMMA RespondInvariant == ContextInv /\ Respond => ContextInv'
<1> SUFFICES ASSUME ContextInv, Respond PROVE ContextInv'
    OBVIOUS
<1>0. /\ TypeOK /\ IdsFresh /\ CheckpointMatchesArchive /\ LastConclusion /\ NothingForgotten
    BY DEF ContextInv
<1>1. turn # "none" /\ \E says, K, left, answer, q : RespondWrites(says, K, left, answer, q)
    BY <1>0, RespondIs
<1>2. PICK says, K, left, answer, q : RespondWrites(says, K, left, answer, q)
    BY <1>1
<1>3. TypeOK' /\ CheckpointMatchesArchive'
    BY <1>0, <1>1, <1>2, RespondKeepsType
<1>4. IdsFresh'
    BY <1>0, <1>1, <1>2, RespondKeepsIds
<1>6. LastConclusion'
    BY <1>0, <1>1, <1>2, RespondKeepsConclusion
<1>7. NothingForgotten'
    BY <1>1, <1>2, <1>3, <1>6, RespondForgetsNothing
<1> QED
    BY <1>3, <1>4, <1>6, <1>7 DEF ContextInv

LEMMA Invariance == Spec => []ContextInv
<1>1. Init => ContextInv
    BY InitInvariant
<1>2. ContextInv /\ [Next]_vars => ContextInv'
    <2> SUFFICES ASSUME ContextInv, [Next]_vars PROVE ContextInv'
        OBVIOUS
    <2>1. CASE Next
        BY <2>1, AskInvariant, BlockInvariant, AbortInvariant, RespondInvariant, ExpireInvariant DEF Next
    <2>2. CASE UNCHANGED vars
        BY <2>2 DEF vars, ContextInv, TypeOK, IdsFresh, CheckpointMatchesArchive,
                    LastConclusion, NothingForgotten, Shown
    <2> QED
        BY <2>1, <2>2
<1> QED
    BY <1>1, <1>2, PTL DEF Spec

(* The summary stays within its caps, whatever the model answers and       *)
(* however many turns are folded into it, and the state is typed.          *)
THEOREM TypeCorrect == Spec => []TypeOK
<1>1. ContextInv => TypeOK
    BY DEF ContextInv
<1> QED
    BY <1>1, Invariance, PTL

(* The patch respond_node returns turns the checkpoint's messages into the *)
(* list it archives.                                                       *)
THEOREM ArchiveCorrect == Spec => []CheckpointMatchesArchive
<1>1. ContextInv => CheckpointMatchesArchive
    BY DEF ContextInv
<1> QED
    BY <1>1, Invariance, PTL

(* Orders, the question for one and the last conclusion outlive the        *)
(* messages that stated them, whoever stated them.                         *)
THEOREM SummaryCorrect == Spec => []NothingForgotten
<1>1. ContextInv => NothingForgotten
    BY DEF ContextInv
<1> QED
    BY <1>1, Invariance, PTL

(* The newest message to leave that says one of S is the last of those     *)
(* that are folded.                                                        *)
LEMMA LeavingLast ==
    ASSUME TypeOK, IdsFresh, NEW left \in Seq(AnyMessage), Range(left) \subseteq Range(messages),
           gone' = gone \union Ids(left), ~Inverts(left),
           NEW i \in DOMAIN messages, NEW S, NewestLeaving(i, S)
    PROVE  LastOf(SaysOf(left), S, messages[i].says)
<1> DEFINE A == {k \in DOMAIN left : left[k].id = messages[i].id}
<1>1. PICK n \in Nat : n = Len(left) /\ DOMAIN left = 1 .. n /\ DOMAIN SaysOf(left) = 1 .. n /\ Len(SaysOf(left)) = n
    BY SaysOfType
<1>2. PICK m \in Nat : m = Len(messages) /\ DOMAIN messages = 1 .. m
    BY DEF TypeOK
<1>3. messages[i].id \in Ids(left) /\ messages[i].says \in S /\ messages[i].id \in Nat
    <2>1. messages[i].id \in Nat
        BY StoredId DEF TypeOK
    <2> QED
        BY <2>1 DEF NewestLeaving, Leaves
<1>4. A \in SUBSET (1 .. n) /\ A # {}
    BY <1>1, <1>3 DEF Ids, Range
<1>5. IsFiniteSet(A) /\ A \in SUBSET Int
    <2> HIDE DEF A
    <2>1. IsFiniteSet(1 .. n)
        BY FS_Interval
    <2>2. IsFiniteSet(A)
        BY <1>4, <2>1, FS_Subset
    <2>3. 1 .. n \subseteq Int
        OBVIOUS
    <2> QED
        BY <1>4, <2>2, <2>3
<1>6. PICK k \in A : \A l \in A : l =< k
    BY <1>4, <1>5, LastPosition
<1>7. ASSUME NEW l \in 1 .. n
      PROVE  \E j \in DOMAIN messages : messages[j] = left[l] /\ messages[j].id \in Nat /\ Leaves(j)
    <2>1. left[l] \in Range(left)
        BY <1>1 DEF Range
    <2>2. PICK j \in DOMAIN messages : messages[j] = left[l]
        BY <2>1 DEF Range
    <2>3. messages[j].id \in Nat
        BY StoredId DEF TypeOK
    <2>4. messages[j].id \in Ids(left) /\ messages[j].id \in Ids(messages)
        BY <2>1, <2>2 DEF Ids
    <2>5. Leaves(j)
        BY <2>4 DEF Leaves, IdsFresh
    <2> QED
        BY <2>2, <2>3, <2>5
<1>8. ASSUME NEW j \in DOMAIN messages, j < i PROVE messages[j].id < messages[i].id
    BY <1>8 DEF IdsFresh, IdsInOrder
<1>9. ASSUME NEW j \in DOMAIN messages, i < j PROVE messages[i].id < messages[j].id
    BY <1>9 DEF IdsFresh, IdsInOrder
<1>10. left[k].says = messages[i].says /\ k \in 1 .. n /\ left[k].id = messages[i].id
    <2>1. k \in 1 .. n /\ left[k].id = messages[i].id
        BY <1>4, <1>6
    <2>2. PICK j \in DOMAIN messages : messages[j] = left[k]
        BY <1>7, <2>1
    <2>3. ~(i < j) /\ ~(j < i)
        BY <1>3, <1>8, <1>9, <2>1, <2>2
    <2>4. i = j
        BY <1>2, <2>3
    <2> QED
        BY <2>1, <2>2, <2>4
<1>11. ASSUME NEW l \in k + 1 .. n, left[l].says \in S PROVE FALSE
    <2>1. l \in 1 .. n /\ k < l
        BY <1>10
    <2>2. PICK j \in DOMAIN messages : messages[j] = left[l] /\ messages[j].id \in Nat /\ Leaves(j)
        BY <1>7, <2>1
    <2>3. ~(left[l].id < left[k].id)
        BY <1>1, <1>10, <2>1 DEF Inverts
    <2>4. left[l].id # messages[i].id
        BY <1>1, <1>6, <1>10, <2>1
    <2>5. messages[j].id > messages[i].id
        BY <1>3, <1>10, <2>2, <2>3, <2>4
    <2>6. j # i /\ ~(j < i)
        BY <1>3, <1>8, <2>2, <2>5
    <2>7. j \in i + 1 .. Len(messages)
        BY <1>2, <2>6
    <2> QED
        BY <1>11, <2>2, <2>7 DEF NewestLeaving
<1>12. \A l \in 1 .. n : SaysOf(left)[l] = left[l].says
    BY <1>1 DEF SaysOf
<1>13. ASSUME NEW l \in k + 1 .. n PROVE SaysOf(left)[l] \notin S
    <2>1. l \in 1 .. n
        BY <1>10
    <2> QED
        BY <1>11, <1>12, <2>1
<1> QED
    BY <1>1, <1>3, <1>10, <1>12, <1>13 DEF LastOf

LEMMA RespondKeepsNewest ==
    ASSUME ContextInv, Respond, ~inverted', NEW i \in DOMAIN messages
    PROVE  /\ NewestLeaving(i, Label) =>
                 /\ messages[i].says \in Range(summary'.confirmed)
                 /\ RivalsOf(messages[i].says) \cap Range(summary'.confirmed) = {}
           /\ NewestLeaving(i, Order \ {slot}) => messages[i].says \in Range(summary'.orders)
           /\ NewestLeaving(i, Point) =>
                 \/ messages[i].says \in Range(summary'.pending)
                 \/ messages[i].says = Asks /\ Closed(summary', slot)
<1>1. TypeOK /\ IdsFresh
    BY DEF ContextInv
<1>2. PICK says, K, left, answer, q : RespondWrites(says, K, left, answer, q)
    BY <1>1, RespondIs
<1>3. /\ left \in Seq(AnyMessage) /\ gone' = gone \union Ids(left) /\ ~Inverts(left)
      /\ Recent(left, slot, q) /\ summary' = q
      /\ Range(left) = {messages[j] : j \in DOMAIN messages \ K}
    BY <1>2 DEF RespondWrites
<1>4. Range(left) \subseteq Range(messages)
    BY <1>3 DEF Range
<1>5. \A S : NewestLeaving(i, S) => LastOf(SaysOf(left), S, messages[i].says)
    BY <1>1, <1>3, <1>4, LeavingLast
<1>6. q \in StructuredSummary
    BY <1>2 DEF RespondWrites, Folded
<1>7. q.orders \in Seq(Order) /\ q.confirmed \in Seq(Label) /\ q.pending \in Seq(Point)
    BY <1>6, SummaryFields
<1>8. ASSUME NewestLeaving(i, Label)
      PROVE  messages[i].says \in Range(q.confirmed) /\ RivalsOf(messages[i].says) \cap Range(q.confirmed) = {}
    <2>1. Tops(q.confirmed, messages[i].says)
        BY <1>3, <1>5, <1>8 DEF Recent
    <2> QED
        BY <2>1 DEF Tops, Clear
<1>9. ASSUME NewestLeaving(i, Order \ {slot}) PROVE messages[i].says \in Range(q.orders)
    <2>1. Ends(q.orders, messages[i].says)
        BY <1>3, <1>5, <1>9 DEF Recent
    <2> QED
        BY <1>7, <2>1, EndsElement
<1>10. ASSUME NewestLeaving(i, Point)
       PROVE  messages[i].says \in Range(q.pending) \/ (messages[i].says = Asks /\ Closed(q, slot))
    <2>1. Ends(q.pending, messages[i].says) \/ (messages[i].says = Asks /\ Closed(q, slot))
        BY <1>3, <1>5, <1>10 DEF Recent
    <2> QED
        BY <1>7, <2>1, EndsElement
<1> QED
    BY <1>3, <1>8, <1>9, <1>10

(* What the newest of the messages that leave say is recorded, however     *)
(* full the summary is and whatever the model answers.                     *)
THEOREM NewestFactCorrect == Spec => NewestFactKept
<1> DEFINE Kept ==
        ~inverted' => \A i \in DOMAIN messages :
        /\ NewestLeaving(i, Label) =>
              /\ messages[i].says \in Range(summary'.confirmed)
              /\ RivalsOf(messages[i].says) \cap Range(summary'.confirmed) = {}
        /\ NewestLeaving(i, Order \ {slot}) => messages[i].says \in Range(summary'.orders)
        /\ NewestLeaving(i, Point) =>
              \/ messages[i].says \in Range(summary'.pending)
              \/ messages[i].says = Asks /\ Closed(summary', slot)
<1>1. ContextInv /\ [Next]_vars => [Kept]_vars
    <2> SUFFICES ASSUME ContextInv, Next PROVE Kept
        OBVIOUS
    <2>1. CASE Respond
        BY <2>1, RespondKeepsNewest
    <2>2. CASE Ask \/ Block \/ Abort \/ Expire
        <3>1. gone' = gone
            BY <2>2 DEF Ask, Block, Abort, Expire, histories
        <3>2. \A i, S : ~NewestLeaving(i, S)
            BY <3>1 DEF NewestLeaving, Leaves
        <3> QED
            BY <3>2
    <2> QED
        BY <2>1, <2>2 DEF Next
<1>2. NewestFactKept <=> [][Kept]_vars
    BY DEF NewestFactKept
<1> HIDE DEF Kept
<1> QED
    BY <1>1, <1>2, Invariance, PTL DEF Spec

LEMMA RespondKeepsRecent ==
    ASSUME ContextInv, Respond
    PROVE  LET n == Len(archive'.messages)
               recent == Least(KeepRecent, Len(messages) + 1)
           IN  /\ n >= recent
               /\ \A i \in 0 .. recent - 2 :
                     archive'.messages[n - 1 - i].id = messages[Len(messages) - i].id
               /\ Ids(archive'.messages) \subseteq Ids(messages) \union {2 * turns}
<1>0. TypeOK /\ IdsFresh
    BY DEF ContextInv
<1>1. PICK says, K, left, answer, q : RespondWrites(says, K, left, answer, q)
    BY <1>0, RespondIs
<1> DEFINE w == Window(K, Stored(says))
           recent == Least(KeepRecent, Len(messages) + 1)
<1>2. /\ Stored(says) \in StoredMessage /\ Stored(says).id = 2 * turns
    BY <1>0, <1>1, StoredIs DEF RespondWrites
<1>3. /\ messages \in Seq(StoredMessage) /\ K \in SUBSET DOMAIN messages /\ archive'.messages = w
      /\ \A i \in DOMAIN messages : i > Len(messages) + 1 - KeepRecent => i \in K
      /\ left \in Seq(AnyMessage) /\ Range(left) = {messages[i] : i \in DOMAIN messages \ K}
    BY <1>0, <1>1 DEF RespondWrites, TypeOK
<1>4. PICK m \in Nat, k \in Nat : m = Len(messages) /\ k = Cardinality(K) /\ DOMAIN messages = 1 .. m
    BY <1>2, <1>3, WindowIs
<1>5. /\ Len(w) = k + 1 /\ IsFiniteSet(K) /\ K \in SUBSET (1 .. m)
      /\ \A i \in K : Rank(K, i) \in 1 .. k /\ w[Rank(K, i)] = Compact(messages[i])
    BY <1>2, <1>3, <1>4, WindowIs
<1>6. /\ Ids(w) = IdsAt(messages, K) \union {2 * turns}
      /\ Ids(messages) = IdsAt(messages, K) \union Ids(left)
    BY <1>2, <1>3, WindowHolds
<1> HIDE DEF w
<1>7. PICK d \in Nat : d = KeepRecent /\ d >= 1
    BY Constants
<1>8. \A i \in 1 .. m : i > m + 1 - d => i \in K
    BY <1>3, <1>4, <1>7
<1>9. recent = Least(d, m + 1) /\ recent \in Nat /\ recent =< m + 1 /\ recent =< d
    BY <1>4, <1>7 DEF Least
<1> HIDE DEF recent
<1>10. ASSUME NEW i \in 0 .. recent - 2
       PROVE  k - i >= 1 /\ w[k - i].id = messages[m - i].id
    <2>1. m - i \in 1 .. m /\ m - i > m + 1 - d
        BY <1>9
    <2>2. \A j \in m - i .. m : j \in K
        BY <1>8, <1>9, <2>1
    <2>3. m - i .. m \subseteq K /\ m - i \in K
        BY <2>1, <2>2
    <2>4. Rank(K, m - i) = Cardinality(K) - (m - (m - i))
        BY <1>5, <2>1, <2>3, RankOfNewest
    <2>5. Rank(K, m - i) = k - i
        BY <1>4, <2>4
    <2>6. Rank(K, m - i) \in 1 .. k /\ w[Rank(K, m - i)] = Compact(messages[m - i])
        BY <1>5, <2>3
    <2>7. messages[m - i] \in StoredMessage
        BY <1>3, <1>4, <2>1
    <2>8. Compact(messages[m - i]).id = messages[m - i].id
        BY <2>7, CompactIs
    <2> QED
        BY <2>5, <2>6, <2>8
<1>11. k + 1 >= recent
    <2>1. CASE recent < 2
        BY <1>9, <2>1
    <2>2. CASE recent >= 2
        <3>1. recent - 2 \in 0 .. recent - 2
            BY <1>9, <2>2
        <3>2. k - (recent - 2) >= 1
            BY <1>10, <3>1
        <3> QED
            BY <1>9, <3>2
    <2> QED
        BY <1>9, <2>1, <2>2
<1>12. Len(archive'.messages) = k + 1
    BY <1>3, <1>5
<1>13. Ids(archive'.messages) \subseteq Ids(messages) \union {2 * turns}
    BY <1>3, <1>6
<1>14. ASSUME NEW i \in 0 .. recent - 2
       PROVE  archive'.messages[k + 1 - 1 - i].id = messages[Len(messages) - i].id
    <2>1. k + 1 - 1 - i = k - i
        BY <1>9
    <2> QED
        BY <1>3, <1>4, <1>10, <2>1
<1> QED
    BY <1>11, <1>12, <1>13, <1>14 DEF recent

(* However the turns are graded, the newest messages stay in the window.   *)
THEOREM RecentCorrect == Spec => RecentKept
<1> DEFINE Kept ==
        archive' # archive =>
        LET n == Len(archive'.messages)
            recent == Least(KeepRecent, Len(messages) + 1)
        IN  /\ n >= recent
            /\ \A i \in 0 .. recent - 2 :
                  archive'.messages[n - 1 - i].id = messages[Len(messages) - i].id
            /\ Ids(archive'.messages) \subseteq Ids(messages) \union {2 * turns}
<1>1. ContextInv /\ [Next]_vars => [Kept]_vars
    <2> SUFFICES ASSUME ContextInv, Next PROVE Kept
        OBVIOUS
    <2>1. CASE Respond
        BY <2>1, RespondKeepsRecent
    <2>2. CASE Ask \/ Block \/ Abort \/ Expire
        <3>1. archive' = archive
            BY <2>2 DEF Ask, Block, Abort, Expire
        <3> QED
            BY <3>1
    <2> QED
        BY <2>1, <2>2 DEF Next
<1>2. RecentKept <=> [][Kept]_vars
    BY DEF RecentKept
<1> HIDE DEF Kept
<1> QED
    BY <1>1, <1>2, Invariance, PTL DEF Spec

----------------------------------------------------------------------------
(* First *)

LEMMA FirstElements ==
    ASSUME NEW S, NEW s \in Seq(S), NEW n \in Nat
    PROVE  /\ First(s, n) \in Seq(S) /\ Len(First(s, n)) = Least(n, Len(s))
           /\ \A i \in DOMAIN First(s, n) : i \in DOMAIN s /\ First(s, n)[i] = s[i]
           /\ Range(First(s, n)) \subseteq Range(s)
<1> DEFINE m == Least(n, Len(s))
<1>1. m \in Nat /\ m =< Len(s) /\ Len(s) \in Nat /\ First(s, n) = SubSeq(s, 1, m)
    BY DEF Least, First
<1> HIDE DEF m
<1>2. /\ First(s, n) \in Seq(S)
      /\ Len(First(s, n)) = IF 1 <= m THEN m - 1 + 1 ELSE 0
      /\ \A i \in 1 .. m - 1 + 1 : First(s, n)[i] = s[1 + i - 1]
    BY <1>1, SubSeqProperties
<1>3. Len(First(s, n)) = m
    BY <1>1, <1>2
<1>4. \A i \in 1 .. m : First(s, n)[i] = s[i] /\ i \in DOMAIN s
    BY <1>1, <1>2
<1>5. DOMAIN First(s, n) = 1 .. m
    BY <1>2, <1>3
<1> QED
    BY <1>2, <1>3, <1>4, <1>5 DEF Range, m

(* A part that holds the first n of a larger part starts with them.        *)
LEMMA PickFirst ==
    ASSUME NEW S, NEW s \in Seq(S), NEW E \in SUBSET DOMAIN s, NEW F \in SUBSET E, NEW n \in Nat,
           \A i \in E : Rank(E, i) =< n => i \in F
    PROVE  First(Pick(s, F), n) = First(Pick(s, E), n)
<1> DEFINE e == Pick(s, E)
           f == Pick(s, F)
           ce == Cardinality(E)
           cf == Cardinality(F)
<1>1. /\ IsFiniteSet(E) /\ ce \in Nat /\ e \in Seq(S) /\ Len(e) = ce /\ E \in SUBSET Int
      /\ \A i \in E : Rank(E, i) \in 1 .. ce /\ e[Rank(E, i)] = s[i]
      /\ \A k \in 1 .. ce : \E i \in E : Rank(E, i) = k /\ e[k] = s[i]
    BY PickElements
<1>2. F \in SUBSET DOMAIN s
    OBVIOUS
<1>3. /\ IsFiniteSet(F) /\ cf \in Nat /\ f \in Seq(S) /\ Len(f) = cf
      /\ \A i \in F : Rank(F, i) \in 1 .. cf /\ f[Rank(F, i)] = s[i]
    BY <1>2, PickElements
<1>4. cf =< ce
    BY <1>1, FS_Subset
<1>5. ASSUME NEW i \in E, Rank(E, i) =< n PROVE i \in F /\ Rank(F, i) = Rank(E, i)
    <2>1. i \in Int /\ Rank(E, i) \in Int /\ i \in F
        BY <1>1, <1>5
    <2>2. ASSUME NEW j \in E, j =< i PROVE j \in F
        <3>1. j \in Int /\ Rank(E, j) \in Int
            BY <1>1
        <3>2. Rank(E, j) =< Rank(E, i)
            <4>1. CASE j = i
                BY <4>1, <2>1
            <4>2. CASE j # i
                <5>1. j < i
                    BY <2>1, <2>2, <3>1, <4>2
                <5>2. Rank(E, j) < Rank(E, i)
                    BY <1>1, <3>1, <5>1, RankIncreases
                <5> QED
                    BY <2>1, <3>1, <5>2
            <4> QED
                BY <4>1, <4>2
        <3> QED
            BY <1>5, <2>1, <3>1, <3>2
    <2>3. {j \in F : j =< i} = {j \in E : j =< i}
        BY <2>2
    <2> QED
        BY <2>1, <2>3 DEF Rank
<1>6. Least(n, cf) = Least(n, ce)
    <2>1. CASE n >= ce
        <3>1. \A i \in E : i \in F
            BY <1>1, <2>1
        <3>2. E = F
            BY <3>1
        <3> QED
            BY <3>2
    <2>2. CASE n < ce
        <3>1. CASE n = 0
            BY <1>1, <1>3, <3>1 DEF Least
        <3>2. CASE n # 0
            <4>1. n \in 1 .. ce
                BY <1>1, <2>2, <3>2
            <4>2. PICK i \in E : Rank(E, i) = n
                BY <1>1, <4>1
            <4>3. i \in F /\ Rank(F, i) = n
                BY <1>5, <4>2
            <4>4. n =< cf
                BY <1>3, <4>3
            <4> QED
                BY <1>1, <1>3, <2>2, <4>4 DEF Least
        <3> QED
            BY <3>1, <3>2
    <2> QED
        BY <1>1, <2>1, <2>2
<1> HIDE DEF e, f, ce, cf
<1>7. /\ First(f, n) \in Seq(S) /\ Len(First(f, n)) = Least(n, cf)
      /\ \A i \in DOMAIN First(f, n) : First(f, n)[i] = f[i]
    BY <1>3, FirstElements
<1>8. /\ First(e, n) \in Seq(S) /\ Len(First(e, n)) = Least(n, ce)
      /\ \A i \in DOMAIN First(e, n) : First(e, n)[i] = e[i]
    BY <1>1, FirstElements
<1>9. ASSUME NEW k \in 1 .. Least(n, ce) PROVE f[k] = e[k]
    <2>1. k \in 1 .. ce /\ k =< n
        BY <1>1, <1>9 DEF Least
    <2>2. PICK i \in E : Rank(E, i) = k /\ e[k] = s[i]
        BY <1>1, <2>1
    <2>3. i \in F /\ Rank(F, i) = k
        BY <1>5, <2>1, <2>2
    <2> QED
        BY <1>3, <2>2, <2>3
<1>10. \A i \in 1 .. Len(First(f, n)) : First(f, n)[i] = First(e, n)[i]
    BY <1>6, <1>7, <1>8, <1>9
<1>11. First(f, n) = First(e, n)
    BY <1>6, <1>7, <1>8, <1>10, SeqEqual
<1> QED
    BY <1>11 DEF e, f

----------------------------------------------------------------------------
(* Retrieval: the two searches *)

(* Of a store D, what is not wanted takes room: the first k wanted are     *)
(* within the first w of the store if the rest leaves that much room.      *)
LEMMA RoomInWindow ==
    ASSUME NEW D \in SUBSET Int, IsFiniteSet(D), NEW E \in SUBSET Int, IsFiniteSet(E),
           NEW i \in Int, NEW k \in Nat, NEW w \in Nat,
           Rank(E, i) =< k, Cardinality(D \ E) + k =< w
    PROVE  Rank(D, i) =< w
<1> DEFINE A == {j \in D : j =< i}
           B == {j \in E : j =< i}
           W == D \ E
<1>1. IsFiniteSet(W) /\ IsFiniteSet(A) /\ IsFiniteSet(B)
    <2>1. IsFiniteSet(W)
        BY FS_Subset
    <2> QED
        BY <2>1, RankFinite
<1>2. A \in SUBSET (W \union B)
    OBVIOUS
<1>3. Rank(D, i) = Cardinality(A) /\ Rank(E, i) = Cardinality(B)
    BY DEF Rank
<1> HIDE DEF A, B
<1>4. /\ Cardinality(A) \in Nat /\ Cardinality(B) \in Nat /\ Cardinality(W) \in Nat
      /\ Cardinality(W \cap B) \in Nat
    <2>1. IsFiniteSet(W \cap B)
        BY <1>1, FS_Intersection
    <2> QED
        BY <1>1, <2>1, FS_CardinalityType
<1>5. /\ IsFiniteSet(W \union B)
      /\ Cardinality(W \union B) = Cardinality(W) + Cardinality(B) - Cardinality(W \cap B)
    BY <1>1, FS_Union
<1>6. Cardinality(A) =< Cardinality(W \union B)
    BY <1>2, <1>5, FS_Subset
<1> QED
    BY <1>3, <1>4, <1>5, <1>6

(* The positions of the chunks a search is meant to find.                  *)
InScope(list, s) == {i \in DOMAIN list : list[i].scope = s}
Wanted(list, scopes, course) ==
    {i \in DOMAIN list : LET c == list[i] IN c.scope \in scopes /\ c.live /\ ~c.parent /\ c \in course}

Others(list, s, course) ==
    {i \in InScope(list, s) : LET c == list[i] IN c.live /\ ~c.parent /\ c \notin course}

LEMMA PartFinite ==
    ASSUME NEW S, NEW list \in Seq(S), NEW K \in SUBSET DOMAIN list
    PROVE  K \in SUBSET Int /\ IsFiniteSet(K) /\ Cardinality(K) \in Nat
<1>1. K \in SUBSET Int
    OBVIOUS
<1> QED
    BY <1>1, PickElements

LEMMA FirstOfPart ==
    ASSUME NEW S, NEW list \in Seq(S), NEW K \in SUBSET DOMAIN list, NEW n \in Nat
    PROVE  /\ First(Pick(list, K), n) \in Seq(S)
           /\ Range(First(Pick(list, K), n)) \subseteq {list[i] : i \in K}
<1>1. Pick(list, K) \in Seq(S) /\ Range(Pick(list, K)) = {list[i] : i \in K}
    BY PickElements, PickRange
<1> QED
    BY <1>1, FirstElements

(* In no scope the window is too small: it holds the whole index, or       *)
(* exceeds the chunks to skip (deleted ones, parents, other courses) by    *)
(* the number of candidates.                                               *)
WindowSuffices(nearest, scopes, wanted, innerK, fetchK) ==
    \A s \in scopes : LET store == InScope(nearest, s) IN
        \/ Cardinality(store) =< innerK[s]
        \/ Cardinality(store \ wanted) + fetchK =< innerK[s]

(* _search_vector returns only live children of the course from the scopes *)
(* searched; and, if the window it asks the index for suffices, the        *)
(* nearest of all of these.                                                *)
THEOREM VectorSearchSound ==
    ASSUME NEW S, NEW nearest \in Seq(S), NEW scopes, NEW innerK, \A s \in scopes : innerK[s] \in Nat,
           NEW fetchK \in Nat, NEW course
    PROVE  LET wanted == Wanted(nearest, scopes, course)
               found == SearchVector(scopes, nearest, innerK, fetchK, course)
           IN  /\ \A c \in Range(found) : \E i \in wanted : c = nearest[i]
               /\ WindowSuffices(nearest, scopes, wanted, innerK, fetchK)
                    => found = First(Pick(nearest, wanted), fetchK)
<1> DEFINE store(s) == InScope(nearest, s)
           wanted == Wanted(nearest, scopes, course)
           F == {i \in UNION {{j \in store(s) : Rank(store(s), j) =< innerK[s]} : s \in scopes} :
                    LET c == nearest[i] IN c.live /\ ~c.parent /\ c \in course}
           found == SearchVector(scopes, nearest, innerK, fetchK, course)
<1>1. found = First(Pick(nearest, F), fetchK)
    BY DEF SearchVector, InScope
<1>2. ASSUME NEW i
      PROVE  i \in F <=> i \in wanted /\ Rank(store(nearest[i].scope), i) =< innerK[nearest[i].scope]
    <2>1. i \in F <=> /\ \E s \in scopes : i \in store(s) /\ Rank(store(s), i) =< innerK[s]
                      /\ nearest[i].live /\ ~nearest[i].parent /\ nearest[i] \in course
        OBVIOUS
    <2>2. \A s : i \in store(s) <=> i \in DOMAIN nearest /\ nearest[i].scope = s
        BY DEF InScope
    <2>3. i \in wanted <=> /\ i \in DOMAIN nearest /\ nearest[i].scope \in scopes
                           /\ nearest[i].live /\ ~nearest[i].parent /\ nearest[i] \in course
        BY Zenon DEF Wanted
    <2> HIDE DEF F, store, wanted
    <2> QED
        BY <2>1, <2>2, <2>3
<1>3. wanted \in SUBSET DOMAIN nearest
    BY DEF Wanted
<1> HIDE DEF F, wanted
<1>4. F \in SUBSET wanted
    BY <1>2
<1>5. \A c \in Range(found) : \E i \in wanted : c = nearest[i]
    <2>1. F \in SUBSET DOMAIN nearest
        BY <1>3, <1>4
    <2>2. Range(found) \subseteq {nearest[i] : i \in F}
        BY <1>1, <2>1, FirstOfPart
    <2> QED
        BY <1>4, <2>2
<1>6. ASSUME WindowSuffices(nearest, scopes, wanted, innerK, fetchK)
      PROVE  found = First(Pick(nearest, wanted), fetchK)
    <2>1. ASSUME NEW i \in wanted, Rank(wanted, i) =< fetchK PROVE i \in F
        <3>1. PICK s \in scopes : s = nearest[i].scope
            BY DEF wanted, Wanted
        <3>2. store(s) \in SUBSET DOMAIN nearest
            BY DEF InScope
        <3>3. /\ store(s) \in SUBSET Int /\ IsFiniteSet(store(s)) /\ Cardinality(store(s)) \in Nat
              /\ wanted \in SUBSET Int /\ IsFiniteSet(wanted) /\ i \in Int /\ innerK[s] \in Nat
            BY <1>3, <3>2, PartFinite
        <3>4. CASE Cardinality(store(s)) =< innerK[s]
            <4>1. Rank(store(s), i) \in Nat /\ Rank(store(s), i) =< Cardinality(store(s))
                BY <3>3, RankFinite
            <4>2. Rank(store(s), i) =< innerK[s]
                BY <3>3, <3>4, <4>1
            <4> QED
                BY <1>2, <3>1, <4>2
        <3>5. CASE Cardinality(store(s) \ wanted) + fetchK =< innerK[s]
            <4>1. Rank(store(s), i) =< innerK[s]
                BY <2>1, <3>3, <3>5, RoomInWindow
            <4> QED
                BY <1>2, <3>1, <4>1
        <3> QED
            BY <1>6, <3>4, <3>5 DEF WindowSuffices
    <2> QED
        BY <1>1, <1>3, <1>4, <2>1, PickFirst
<1> QED
    BY <1>5, <1>6 DEF wanted

(* _search_bm25 returns only live children of the course from the scopes   *)
(* searched; and it returns the best of all of these, unless the other     *)
(* courses of a scope fill what lexicalFetch exceeds the candidates wanted *)
(* by: deleted chunks and parents take no room.                            *)
THEOREM WordSearchSound ==
    ASSUME NEW S, NEW scored \in Seq(S), NEW scopes, NEW lexicalFetch \in Nat,
           NEW fetchK \in Nat, NEW course
    PROVE  LET wanted == Wanted(scored, scopes, course)
               found == SearchBm25(scopes, scored, lexicalFetch, fetchK, course)
           IN  /\ \A c \in Range(found) : \E i \in wanted : c = scored[i]
               /\ (\A s \in scopes : Cardinality(Others(scored, s, course)) + fetchK =< lexicalFetch)
                  => found = First(Pick(scored, wanted), fetchK)
<1> DEFINE table(s) == {i \in DOMAIN scored : LET c == scored[i] IN c.scope = s /\ c.live /\ ~c.parent}
           others(s) == Others(scored, s, course)
           wanted == Wanted(scored, scopes, course)
           F == {i \in UNION {{j \in table(s) : Rank(table(s), j) =< lexicalFetch} : s \in scopes} :
                    scored[i] \in course}
           found == SearchBm25(scopes, scored, lexicalFetch, fetchK, course)
<1>1. found = First(Pick(scored, F), fetchK)
    BY DEF SearchBm25
<1>2. ASSUME NEW i
      PROVE  i \in F <=> i \in wanted /\ Rank(table(scored[i].scope), i) =< lexicalFetch
    <2>1. \A s : i \in table(s) <=> /\ i \in DOMAIN scored /\ scored[i].scope = s
                                    /\ scored[i].live /\ ~scored[i].parent
        BY Zenon
    <2>3. i \in wanted <=> /\ i \in DOMAIN scored /\ scored[i].scope \in scopes
                           /\ scored[i].live /\ ~scored[i].parent /\ scored[i] \in course
        BY Zenon DEF Wanted
    <2> HIDE DEF table
    <2>2. i \in F <=> /\ \E s \in scopes : i \in table(s) /\ Rank(table(s), i) =< lexicalFetch
                      /\ scored[i] \in course
        OBVIOUS
    <2> HIDE DEF F, wanted
    <2> QED
        BY <2>1, <2>2, <2>3
<1>3. wanted \in SUBSET DOMAIN scored
    BY DEF Wanted
<1>0. \A s \in scopes : table(s) \ wanted = others(s)
    BY DEF Wanted, InScope, Others
<1> HIDE DEF F, wanted
<1>4. F \in SUBSET wanted
    BY <1>2
<1>5. \A c \in Range(found) : \E i \in wanted : c = scored[i]
    <2>1. F \in SUBSET DOMAIN scored
        BY <1>3, <1>4
    <2>2. Range(found) \subseteq {scored[i] : i \in F}
        BY <1>1, <2>1, FirstOfPart
    <2> QED
        BY <1>4, <2>2
<1>6. ASSUME \A s \in scopes : Cardinality(others(s)) + fetchK =< lexicalFetch
      PROVE  found = First(Pick(scored, wanted), fetchK)
    <2>1. ASSUME NEW i \in wanted, Rank(wanted, i) =< fetchK PROVE i \in F
        <3>1. PICK s \in scopes : s = scored[i].scope
            BY DEF wanted, Wanted
        <3>2. table(s) \in SUBSET DOMAIN scored
            OBVIOUS
        <3>3. /\ table(s) \in SUBSET Int /\ IsFiniteSet(table(s))
              /\ wanted \in SUBSET Int /\ IsFiniteSet(wanted) /\ i \in Int
            BY <1>3, <3>2, PartFinite
        <3>4. Cardinality(table(s) \ wanted) + fetchK =< lexicalFetch
            BY <1>0, <1>6
        <3> HIDE DEF table
        <3>5. Rank(table(s), i) =< lexicalFetch
            BY <2>1, <3>3, <3>4, RoomInWindow
        <3> QED
            BY <1>2, <3>1, <3>5
    <2> QED
        BY <1>1, <1>3, <1>4, <2>1, PickFirst
<1> QED
    BY <1>5, <1>6 DEF wanted

----------------------------------------------------------------------------
(* The plan *)

LEMMA PlanBounds ==
    ASSUME NEW dynamic \in BOOLEAN, NEW profile,
           NEW k \in Nat, NEW low \in Nat, NEW high \in Nat, low =< high
    PROVE  /\ FetchK(dynamic, profile, k, low, high) \in Nat
           /\ dynamic => FetchK(dynamic, profile, k, low, high) \in low .. high
    BY DEF FetchK, PlannedK, Clamp, Least, Most

LEMMA WindowExceeds ==
    ASSUME NEW fetchK \in Nat, NEW bound \in BOOLEAN, NEW total \in Nat
    PROVE  /\ VectorInnerK(fetchK, bound, total) \in Nat
           /\ \/ VectorInnerK(fetchK, bound, total) = total
              \/ VectorInnerK(fetchK, bound, total) >= (IF bound THEN 8 ELSE 4) * fetchK
    BY DEF VectorInnerK, Least, Most

(* _search_vector with the candidates of the plan, or of _fetch_k without  *)
(* one, and the window of _vector_inner_k: a scope may hold three times as *)
(* many chunks to skip as the search wants candidates (seven times, for a  *)
(* bound course) and its nearest chunks are still found.                   *)
THEOREM PlannedSearchSound ==
    ASSUME NEW S, NEW nearest \in Seq(S), NEW scopes, NEW course, NEW bound \in BOOLEAN,
           NEW dynamic \in BOOLEAN, NEW profile,
           NEW k \in Nat, NEW low \in Nat, NEW high \in Nat, low =< high
    PROVE  LET fetchK == FetchK(dynamic, profile, k, low, high)
               innerK == [s \in scopes |->
                             VectorInnerK(fetchK, bound, Cardinality(InScope(nearest, s)))]
               wanted == Wanted(nearest, scopes, course)
           IN  (\A s \in scopes : Cardinality(InScope(nearest, s) \ wanted)
                                    =< (IF bound THEN 7 ELSE 3) * fetchK)
               => SearchVector(scopes, nearest, innerK, fetchK, course)
                    = First(Pick(nearest, wanted), fetchK)
<1> DEFINE fetchK == FetchK(dynamic, profile, k, low, high)
           innerK == [s \in scopes |-> VectorInnerK(fetchK, bound, Cardinality(InScope(nearest, s)))]
           wanted == Wanted(nearest, scopes, course)
<1> SUFFICES ASSUME \A s \in scopes : Cardinality(InScope(nearest, s) \ wanted)
                                        =< (IF bound THEN 7 ELSE 3) * fetchK
             PROVE  SearchVector(scopes, nearest, innerK, fetchK, course)
                      = First(Pick(nearest, wanted), fetchK)
    OBVIOUS
<1>1. fetchK \in Nat
    BY PlanBounds
<1> HIDE DEF fetchK, wanted
<1>2. ASSUME NEW s \in scopes
      PROVE  /\ innerK[s] \in Nat
             /\ \/ Cardinality(InScope(nearest, s)) =< innerK[s]
                \/ Cardinality(InScope(nearest, s) \ wanted) + fetchK =< innerK[s]
    <2>1. InScope(nearest, s) \in SUBSET DOMAIN nearest
        BY DEF InScope
    <2>2. InScope(nearest, s) \ wanted \in SUBSET DOMAIN nearest
        BY <2>1
    <2>3. PICK total \in Nat : total = Cardinality(InScope(nearest, s))
        BY <2>1, PartFinite
    <2>4. PICK waste \in Nat : waste = Cardinality(InScope(nearest, s) \ wanted)
        BY <2>2, PartFinite
    <2>5. innerK[s] = VectorInnerK(fetchK, bound, total)
        BY <2>3
    <2>6. waste =< (IF bound THEN 7 ELSE 3) * fetchK
        BY <2>4
    <2> HIDE DEF innerK
    <2>7. /\ innerK[s] \in Nat
          /\ innerK[s] = total \/ innerK[s] >= (IF bound THEN 8 ELSE 4) * fetchK
        BY <1>1, <2>3, <2>5, WindowExceeds
    <2>8. total =< innerK[s] \/ waste + fetchK =< innerK[s]
        BY <1>1, <2>6, <2>7
    <2> QED
        BY <2>3, <2>4, <2>7, <2>8
<1> HIDE DEF innerK
<1>3. \A s \in scopes : innerK[s] \in Nat
    BY <1>2
<1>4. WindowSuffices(nearest, scopes, wanted, innerK, fetchK)
    BY <1>2 DEF WindowSuffices
<1> QED
    BY <1>1, <1>3, <1>4, VectorSearchSound DEF wanted

----------------------------------------------------------------------------
(* Fusion *)

(* A strict total order on 1 .. n places its elements.                     *)
Orders(n, B) ==
    /\ \A i \in 1 .. n : <<i, i>> \notin B
    /\ \A i, j \in 1 .. n : i # j => <<i, j>> \in B \/ <<j, i>> \in B
    /\ \A i, j, k \in 1 .. n : <<i, j>> \in B /\ <<j, k>> \in B => <<i, k>> \in B
PlaceIn(n, B, i) == Cardinality({j \in 1 .. n : <<j, i>> \in B}) + 1

LEMMA Places ==
    ASSUME NEW n \in Nat, NEW B, Orders(n, B)
    PROVE  /\ \A i \in 1 .. n : PlaceIn(n, B, i) \in 1 .. n
           /\ \A i, j \in 1 .. n : <<i, j>> \in B => PlaceIn(n, B, i) < PlaceIn(n, B, j)
           /\ \A i, j \in 1 .. n : PlaceIn(n, B, i) = PlaceIn(n, B, j) => i = j
           /\ \A p \in 1 .. n : \E i \in 1 .. n : PlaceIn(n, B, i) = p
<1> DEFINE D == 1 .. n
           under(i) == {j \in D : <<j, i>> \in B}
           f == [i \in D |-> PlaceIn(n, B, i)]
<1>0. IsFiniteSet(D) /\ Cardinality(D) = n
    BY FS_Interval
<1>1. ASSUME NEW i \in D
      PROVE  /\ IsFiniteSet(under(i)) /\ Cardinality(under(i)) \in Nat
             /\ PlaceIn(n, B, i) = Cardinality(under(i)) + 1
             /\ Cardinality(under(i)) < n
    <2>1. under(i) \in SUBSET D /\ i \notin under(i)
        BY DEF Orders
    <2> HIDE DEF under
    <2>2. /\ IsFiniteSet(under(i)) /\ Cardinality(under(i)) =< Cardinality(D)
          /\ Cardinality(D) = Cardinality(under(i)) => D = under(i)
        BY <1>0, <2>1, FS_Subset
    <2>3. Cardinality(under(i)) \in Nat
        BY <2>2, FS_CardinalityType
    <2>4. Cardinality(under(i)) # n
        BY <1>0, <2>1, <2>2
    <2> QED
        BY <1>0, <2>2, <2>3, <2>4 DEF PlaceIn, under
<1>2. ASSUME NEW i \in D, NEW j \in D, <<i, j>> \in B
      PROVE  PlaceIn(n, B, i) < PlaceIn(n, B, j)
    <2>1. under(i) \in SUBSET under(j) /\ i \in under(j) /\ i \notin under(i)
        BY <1>2 DEF Orders
    <2>2. IsFiniteSet(under(j)) /\ Cardinality(under(i)) \in Nat /\ Cardinality(under(j)) \in Nat
        BY <1>1
    <2>5. /\ PlaceIn(n, B, i) = Cardinality(under(i)) + 1
          /\ PlaceIn(n, B, j) = Cardinality(under(j)) + 1
        BY <1>1
    <2> HIDE DEF under
    <2>3. /\ Cardinality(under(i)) =< Cardinality(under(j))
          /\ Cardinality(under(j)) = Cardinality(under(i)) => under(j) = under(i)
        BY <2>1, <2>2, FS_Subset
    <2> QED
        BY <2>1, <2>2, <2>3, <2>5
<1>3. ASSUME NEW i \in D PROVE PlaceIn(n, B, i) \in D
    <2>1. PICK c \in Nat : c < n /\ PlaceIn(n, B, i) = c + 1
        BY <1>1
    <2> QED
        BY <2>1
<1>4. ASSUME NEW i \in D, NEW j \in D, PlaceIn(n, B, i) = PlaceIn(n, B, j) PROVE i = j
    <2>1. PlaceIn(n, B, i) \in Nat
        BY <1>3
    <2>2. <<i, j>> \notin B /\ <<j, i>> \notin B
        BY <1>2, <1>4, <2>1
    <2> QED
        BY <2>2 DEF Orders
<1>5. f \in Injection(D, D)
    <2>1. f \in [D -> D]
        BY <1>3
    <2>2. \A i, j \in D : f[i] = f[j] => i = j
        BY <1>4
    <2> QED
        BY <2>1, <2>2 DEF Injection, IsInjective
<1> HIDE DEF f
<1>6. f \in Surjection(D, D)
    BY <1>0, <1>5, FS_Injection
<1>7. \A p \in D : \E i \in D : f[i] = p
    BY <1>6 DEF Surjection
<1> QED
    BY <1>2, <1>3, <1>4, <1>7 DEF f

(* Comparing fractions.                                                    *)
LEMMA Product ==
    ASSUME NEW a \in Int, NEW b \in Int
    PROVE  /\ a * b \in Int
           /\ a >= 0 /\ b >= 0 => a * b >= 0
           /\ a > 0 /\ b > 0 => a * b > 0
           /\ a > 0 /\ a * b >= 0 => b >= 0
           /\ a > 0 /\ a * b > 0 => b > 0
    BY Z3T(30)

Gain(x, y) == x.num * y.den - y.num * x.den
Fraction == [num : Nat \ {0}, den : Nat \ {0}]

LEMMA GainOrders ==
    ASSUME NEW x \in Fraction, NEW y \in Fraction, NEW z \in Fraction
    PROVE  /\ Gain(x, y) \in Int /\ Gain(x, x) = 0 /\ Gain(y, x) = 0 - Gain(x, y)
           /\ Gain(x, y) >= 0 /\ Gain(y, z) >= 0 => Gain(x, z) >= 0
           /\ Gain(x, y) > 0 /\ Gain(y, z) >= 0 => Gain(x, z) > 0
           /\ Gain(x, y) >= 0 /\ Gain(y, z) > 0 => Gain(x, z) > 0
<1>1. PICK a \in Nat, b \in Nat, c \in Nat, d \in Nat, e \in Nat, f \in Nat :
          /\ b > 0 /\ d > 0 /\ f > 0
          /\ x.num = a /\ x.den = b /\ y.num = c /\ y.den = d /\ z.num = e /\ z.den = f
    BY DEF Fraction
<1> DEFINE u == a * d - c * b
           v == c * f - e * d
           w == a * f - e * b
<1>2. a * d \in Int /\ c * b \in Int /\ c * f \in Int /\ e * d \in Int /\ a * f \in Int /\ e * b \in Int
    BY Product
<1>3. Gain(x, y) = u /\ Gain(y, z) = v /\ Gain(x, z) = w /\ u \in Int /\ v \in Int /\ w \in Int
    BY <1>1, <1>2 DEF Gain
<1>4. Gain(x, x) = 0 /\ Gain(y, x) = 0 - u
    BY <1>1, <1>2 DEF Gain
<1>5. d * w = f * u + b * v
    BY Z3
<1> HIDE DEF u, v, w
<1>6. f * u \in Int /\ b * v \in Int /\ d * w \in Int
    BY <1>3, Product
<1>7. /\ u >= 0 => f * u >= 0
      /\ u > 0 => f * u > 0
      /\ v >= 0 => b * v >= 0
      /\ v > 0 => b * v > 0
    BY <1>1, <1>3, Product
<1>8. /\ d * w >= 0 => w >= 0
      /\ d * w > 0 => w > 0
    BY <1>1, <1>3, Product
<1> QED
    BY <1>3, <1>4, <1>5, <1>6, <1>7, <1>8


At(list, c) == CHOOSE r \in DOMAIN list : list[r] = c
OnceEach(list) == \A i, j \in DOMAIN list : list[i] = list[j] => i = j
NoWorse(list, c, d) == d \in Range(list) => c \in Range(list) /\ At(list, c) =< At(list, d)

LEMMA AtIs ==
    ASSUME NEW S, NEW list \in Seq(S), NEW c \in Range(list)
    PROVE  At(list, c) \in DOMAIN list /\ list[At(list, c)] = c /\ At(list, c) \in Nat \ {0}
<1>1. \E r \in DOMAIN list : list[r] = c
    BY DEF Range
<1>2. At(list, c) \in DOMAIN list /\ list[At(list, c)] = c
    BY <1>1 DEF At
<1> QED
    BY <1>2

(* The score, by where the lists hold the chunk.                           *)
LEMMA ScoreIs ==
    ASSUME NEW S, NEW v \in Seq(S), NEW b \in Seq(S), NEW k \in Nat,
           NEW c \in Range(v) \union Range(b)
    PROVE  /\ Score(v, b, k, c) \in Fraction
           /\ c \notin Range(b) => Score(v, b, k, c) = [num |-> 1, den |-> k + At(v, c)]
           /\ c \notin Range(v) => Score(v, b, k, c) = [num |-> 1, den |-> k + At(b, c)]
           /\ c \in Range(v) /\ c \in Range(b) =>
                 Score(v, b, k, c) = [num |-> (k + At(v, c)) + (k + At(b, c)),
                                      den |-> (k + At(v, c)) * (k + At(b, c))]
<1>1. c \in Range(v) => k + At(v, c) \in Nat \ {0}
    BY AtIs
<1>2. c \in Range(b) => k + At(b, c) \in Nat \ {0}
    BY AtIs
<1>3. CASE c \notin Range(b)
    <2>1. Score(v, b, k, c) = [num |-> 1, den |-> k + At(v, c)]
        BY <1>3 DEF Score, At
    <2> QED
        BY <1>1, <1>3, <2>1 DEF Fraction
<1>4. CASE c \in Range(b) /\ c \notin Range(v)
    <2>1. Score(v, b, k, c) = [num |-> 1, den |-> k + At(b, c)]
        BY <1>4 DEF Score, At
    <2> QED
        BY <1>2, <1>4, <2>1 DEF Fraction
<1>5. CASE c \in Range(b) /\ c \in Range(v)
    <2>1. Score(v, b, k, c) = [num |-> (k + At(v, c)) + (k + At(b, c)),
                               den |-> (k + At(v, c)) * (k + At(b, c))]
        BY <1>5 DEF Score, At
    <2>2. PICK x \in Nat \ {0}, y \in Nat \ {0} : x = k + At(v, c) /\ y = k + At(b, c)
        BY <1>1, <1>2, <1>5
    <2>3. x + y \in Nat \ {0} /\ x * y \in Int /\ x * y > 0
        BY Product
    <2>4. [num |-> x + y, den |-> x * y] \in Fraction
        BY <2>3 DEF Fraction
    <2> QED
        BY <1>5, <2>1, <2>2, <2>4
<1> QED
    BY <1>3, <1>4, <1>5

(* One over a smaller number, or two such, is more.                        *)
LEMMA LargerSums ==
    ASSUME NEW x \in Nat, NEW y \in Nat, NEW z \in Nat, NEW w \in Nat, 0 < x, x < y, 0 < z
    PROVE  /\ 1 * y - 1 * x > 0
           /\ (x + z) * y - 1 * (x * z) > 0
           /\ z < w => (x + z) * (y * w) - (y + w) * (x * z) > 0
<1>1. (x + z) * y - 1 * (x * z) = x * y + z * (y - x)
    BY Z3
<1>2. x * y > 0 /\ z * (y - x) > 0 /\ x * y \in Int /\ z * (y - x) \in Int
    BY Product
<1>3. ASSUME z < w PROVE (x + z) * (y * w) - (y + w) * (x * z) > 0
    <2>1. (x + z) * (y * w) - (y + w) * (x * z) = (x * y) * (w - z) + (z * w) * (y - x)
        BY Z3
    <2>2. z * w \in Int /\ z * w > 0
        BY <1>3, Product
    <2>3. (x * y) * (w - z) \in Int /\ (x * y) * (w - z) > 0
        BY <1>2, <1>3, Product
    <2>4. (z * w) * (y - x) \in Int /\ (z * w) * (y - x) > 0
        BY <2>2, Product
    <2> QED
        BY <2>1, <2>3, <2>4
<1> QED
    BY <1>1, <1>2, <1>3

LEMMA ScoreDominates ==
    ASSUME NEW S, NEW v \in Seq(S), NEW b \in Seq(S), NEW k \in Nat,
           NEW c \in Range(v) \union Range(b), NEW d \in Range(v) \union Range(b), c # d,
           NoWorse(v, c, d), NoWorse(b, c, d)
    PROVE  Gain(Score(v, b, k, c), Score(v, b, k, d)) > 0
<1> DEFINE x == k + At(v, c)
           y == k + At(v, d)
           z == k + At(b, c)
           w == k + At(b, d)
<1>1. d \in Range(v) => c \in Range(v) /\ x \in Nat /\ y \in Nat /\ 0 < x /\ x < y
    BY AtIs DEF NoWorse
<1>2. d \in Range(b) => c \in Range(b) /\ z \in Nat /\ w \in Nat /\ 0 < z /\ z < w
    BY AtIs DEF NoWorse
<1>3. /\ c \in Range(b) => z \in Nat /\ 0 < z
      /\ c \in Range(v) => x \in Nat /\ 0 < x
    BY AtIs
<1>4. /\ c \notin Range(b) => Score(v, b, k, c) = [num |-> 1, den |-> x]
      /\ c \notin Range(v) => Score(v, b, k, c) = [num |-> 1, den |-> z]
      /\ c \in Range(v) /\ c \in Range(b) => Score(v, b, k, c) = [num |-> x + z, den |-> x * z]
    BY ScoreIs
<1>5. /\ d \notin Range(b) => Score(v, b, k, d) = [num |-> 1, den |-> y]
      /\ d \notin Range(v) => Score(v, b, k, d) = [num |-> 1, den |-> w]
      /\ d \in Range(v) /\ d \in Range(b) => Score(v, b, k, d) = [num |-> y + w, den |-> y * w]
    BY ScoreIs
<1> HIDE DEF x, y, z, w
<1>6. CASE d \in Range(v) /\ d \in Range(b)
    <2>1. Gain(Score(v, b, k, c), Score(v, b, k, d)) = (x + z) * (y * w) - (y + w) * (x * z)
        BY <1>1, <1>2, <1>4, <1>5, <1>6 DEF Gain
    <2> QED
        BY <1>1, <1>2, <1>6, <2>1, LargerSums
<1>7. CASE d \in Range(v) /\ d \notin Range(b)
    <2>1. CASE c \in Range(b)
        <3>1. Gain(Score(v, b, k, c), Score(v, b, k, d)) = (x + z) * y - 1 * (x * z)
            BY <1>1, <1>4, <1>5, <1>7, <2>1 DEF Gain
        <3> QED
            BY <1>1, <1>3, <1>7, <2>1, <3>1, LargerSums
    <2>2. CASE c \notin Range(b)
        <3>1. Gain(Score(v, b, k, c), Score(v, b, k, d)) = 1 * y - 1 * x
            BY <1>1, <1>4, <1>5, <1>7, <2>2 DEF Gain
        <3> QED
            BY <1>1, <1>7, <3>1
    <2> QED
        BY <2>1, <2>2
<1>8. CASE d \notin Range(v)
    <2>0. d \in Range(b)
        BY <1>8
    <2>1. CASE c \in Range(v)
        <3>1. Gain(Score(v, b, k, c), Score(v, b, k, d)) = (x + z) * w - 1 * (x * z)
            BY <1>2, <1>4, <1>5, <1>8, <2>0, <2>1 DEF Gain
        <3>2. (z + x) * w - 1 * (z * x) > 0
            BY <1>2, <1>3, <2>0, <2>1, LargerSums
        <3>3. (x + z) * w - 1 * (x * z) = (z + x) * w - 1 * (z * x)
            BY <1>2, <1>3, <2>0, <2>1, Z3
        <3> QED
            BY <3>1, <3>2, <3>3
    <2>2. CASE c \notin Range(v)
        <3>1. Gain(Score(v, b, k, c), Score(v, b, k, d)) = 1 * w - 1 * z
            BY <1>2, <1>4, <1>5, <1>8, <2>0, <2>2 DEF Gain
        <3> QED
            BY <1>2, <2>0, <3>1
    <2> QED
        BY <2>1, <2>2
<1> QED
    BY <1>6, <1>7, <1>8

LEMMA RangeHolds ==
    ASSUME NEW f
    PROVE  /\ \A i \in DOMAIN f : f[i] \in Range(f)
           /\ \A x \in Range(f) : \E i \in DOMAIN f : x = f[i]
    BY DEF Range

LEMMA OnceCount ==
    ASSUME NEW S, NEW list \in Seq(S), OnceEach(list)
    PROVE  Cardinality(Range(list)) = Len(list)
<1>0. PICK n \in Nat : n = Len(list)
    OBVIOUS
<1>1. DOMAIN list = 1 .. n /\ IsFiniteSet(1 .. n) /\ Cardinality(1 .. n) = n
    <2>1. IsFiniteSet(1 .. n) /\ Cardinality(1 .. n) = n
        BY FS_Interval
    <2>2. DOMAIN list = 1 .. n
        BY <1>0
    <2> QED
        BY <2>1, <2>2
<1>2. list \in [1 .. n -> Range(list)]
    BY <1>1 DEF Range
<1>3. list \in Surjection(1 .. n, Range(list))
    BY <1>1, <1>2 DEF Surjection, Range
<1>4. list \in Injection(1 .. n, Range(list))
    BY <1>1, <1>2 DEF Injection, IsInjective, OnceEach
<1> QED
    BY <1>0, <1>1, <1>3, <1>4, FS_Surjection

(* Both lists one after the other, what they share once.                   *)
Joined(v, b) == v \o Pick(b, {i \in DOMAIN b : b[i] \notin Range(v)})

LEMMA JoinedIs ==
    ASSUME NEW S, NEW v \in Seq(S), NEW b \in Seq(S), OnceEach(v), OnceEach(b)
    PROVE  /\ Joined(v, b) \in Seq(S) /\ OnceEach(Joined(v, b))
           /\ Range(Joined(v, b)) = Range(v) \union Range(b)
<1> DEFINE K == {i \in DOMAIN b : b[i] \notin Range(v)}
           r == Pick(b, K)
           n == Len(v)
           m == Len(r)
           all == Joined(v, b)
<1>1. /\ r \in Seq(S) /\ Range(r) = {b[i] : i \in K}
      /\ \A k, l \in DOMAIN r : k < l => \E i, j \in K : i < j /\ r[k] = b[i] /\ r[l] = b[j]
    <2>1. K \in SUBSET DOMAIN b
        OBVIOUS
    <2>2. r \in Seq(S) /\ Range(r) = {b[i] : i \in K}
        BY <2>1, PickElements, PickRange
    <2> HIDE DEF K
    <2>3. ASSUME NEW k \in DOMAIN r, NEW l \in DOMAIN r, k < l
          PROVE  \E i, j \in K : i < j /\ r[k] = b[i] /\ r[l] = b[j]
        BY <2>1, <2>3, PickOrder
    <2> QED
        BY <2>2, <2>3
<1>2. \A k, l \in DOMAIN r : k < l => r[k] # r[l]
    <2> SUFFICES ASSUME NEW k \in DOMAIN r, NEW l \in DOMAIN r, k < l PROVE r[k] # r[l]
        OBVIOUS
    <2>1. PICK i \in K, j \in K : i < j /\ r[k] = b[i] /\ r[l] = b[j]
        BY <1>1
    <2> QED
        BY <2>1 DEF OnceEach
<1>3. ASSUME NEW k \in DOMAIN r PROVE r[k] \notin Range(v) /\ r[k] \in Range(b)
    <2>1. r[k] \in Range(r)
        BY DEF Range
    <2>2. PICK i \in K : r[k] = b[i]
        BY <1>1, <2>1
    <2> QED
        BY <2>2, RangeHolds
<1>4. ASSUME NEW c \in Range(b) PROVE c \in Range(v) \/ c \in Range(r)
    <2>1. PICK i \in DOMAIN b : c = b[i]
        BY RangeHolds
    <2>2. i \in K => c \in Range(r)
        BY <1>1, <2>1
    <2> QED
        BY <2>1, <2>2
<1>5. all = v \o r
    BY DEF Joined
<1> HIDE DEF r, K, all
<1>6. /\ all \in Seq(S) /\ Len(all) = n + m /\ n \in Nat /\ m \in Nat
      /\ \A i \in 1 .. n + m : all[i] = IF i <= n THEN v[i] ELSE r[i - n]
    BY <1>1, <1>5, ConcatProperties
<1>7. /\ DOMAIN all = 1 .. n + m /\ DOMAIN v = 1 .. n /\ DOMAIN r = 1 .. m
    BY <1>1, <1>6
<1>8. \A i \in 1 .. n : i \in 1 .. n + m /\ all[i] = v[i] /\ v[i] \in Range(v)
    BY <1>6, <1>7 DEF Range
<1>9. ASSUME NEW i \in 1 .. m PROVE n + i \in 1 .. n + m /\ all[n + i] = r[i] /\ r[i] \in Range(r)
    <2>1. n + i \in 1 .. n + m /\ ~(n + i <= n) /\ (n + i) - n = i
        BY <1>6
    <2> QED
        BY <1>6, <1>7, <2>1, RangeHolds
<1>10. \A i \in 1 .. n + m : i \in 1 .. n \/ \E k \in 1 .. m : i = n + k
    <2> SUFFICES ASSUME NEW i \in 1 .. n + m, ~(i \in 1 .. n) PROVE i - n \in 1 .. m /\ i = n + (i - n)
        BY <1>6
    <2> QED
        BY <1>6
<1>11. ASSUME NEW i \in 1 .. n + m, NEW j \in 1 .. n + m, i < j PROVE all[i] # all[j]
    <2>1. CASE j \in 1 .. n
        <3>1. i \in 1 .. n
            BY <1>6, <1>11, <2>1
        <3> QED
            BY <1>7, <1>8, <1>11, <2>1, <3>1 DEF OnceEach
    <2>2. CASE \E k \in 1 .. m : j = n + k
        <3>1. PICK k \in 1 .. m : j = n + k
            BY <2>2
        <3>2. CASE i \in 1 .. n
            BY <1>3, <1>7, <1>8, <1>9, <3>1, <3>2
        <3>3. CASE \E l \in 1 .. m : i = n + l
            <4>1. PICK l \in 1 .. m : i = n + l
                BY <3>3
            <4>2. l < k
                BY <1>6, <1>11, <3>1, <4>1
            <4> QED
                BY <1>2, <1>7, <1>9, <3>1, <4>1, <4>2
        <3> QED
            BY <1>10, <3>2, <3>3
    <2> QED
        BY <1>10, <2>1, <2>2
<1>12. OnceEach(all)
    <2> SUFFICES ASSUME NEW i \in 1 .. n + m, NEW j \in 1 .. n + m, all[i] = all[j] PROVE i = j
        BY <1>7 DEF OnceEach
    <2>1. ~(i < j) /\ ~(j < i)
        BY <1>11
    <2> QED
        BY <1>6, <2>1
<1>13. Range(all) = Range(v) \union Range(b)
    <2>1. ASSUME NEW c \in Range(all) PROVE c \in Range(v) \union Range(b)
        <3>1. PICK i \in 1 .. n + m : c = all[i]
            BY <1>7 DEF Range
        <3>2. CASE i \in 1 .. n
            BY <1>8, <3>1, <3>2
        <3>3. CASE \E k \in 1 .. m : i = n + k
            BY <1>3, <1>7, <1>9, <3>1, <3>3
        <3> QED
            BY <1>10, <3>2, <3>3
    <2>2. ASSUME NEW c \in Range(v) PROVE c \in Range(all)
        <3>1. PICK i \in 1 .. n : c = v[i]
            BY <1>7 DEF Range
        <3> QED
            BY <1>7, <1>8, <3>1 DEF Range
    <2>3. ASSUME NEW c \in Range(r) PROVE c \in Range(all)
        <3>1. PICK i \in 1 .. m : c = r[i]
            BY <1>7 DEF Range
        <3>2. n + i \in DOMAIN all /\ all[n + i] = c
            BY <1>7, <1>9, <3>1
        <3> QED
            BY <3>2 DEF Range
    <2> QED
        BY <1>4, <2>1, <2>2, <2>3
<1> QED
    BY <1>6, <1>12, <1>13 DEF all

(* The order of the fused list.                                            *)
Better(v, b, k, all, i, j) ==
    LET gain == Gain(Score(v, b, k, all[i]), Score(v, b, k, all[j]))
    IN  gain > 0 \/ (gain = 0 /\ i < j)

FusionOrder(v, b, k, all, n) == {p \in (1 .. n) \X (1 .. n) : Better(v, b, k, all, p[1], p[2])}

LEMMA BetterOrders ==
    ASSUME NEW S, NEW v \in Seq(S), NEW b \in Seq(S), NEW k \in Nat,
           NEW n \in Nat, NEW all \in [1 .. n -> S], Range(all) \subseteq Range(v) \union Range(b)
    PROVE  Orders(n, FusionOrder(v, b, k, all, n))
<1> DEFINE B == FusionOrder(v, b, k, all, n)
           s(i) == Score(v, b, k, all[i])
<1>1. \A i \in 1 .. n : s(i) \in Fraction
    <2>1. ASSUME NEW i \in 1 .. n PROVE all[i] \in Range(v) \union Range(b)
        <3>1. i \in DOMAIN all
            OBVIOUS
        <3> QED
            BY <3>1, RangeHolds
    <2> QED
        BY <2>1, ScoreIs
<1>2. \A i, j \in 1 .. n : <<i, j>> \in B <=> Gain(s(i), s(j)) > 0 \/ (Gain(s(i), s(j)) = 0 /\ i < j)
    BY DEF Better, FusionOrder
<1> HIDE DEF B, s
<1>3. \A i, j \in 1 .. n : /\ Gain(s(i), s(j)) \in Int /\ Gain(s(i), s(i)) = 0
                           /\ Gain(s(j), s(i)) = 0 - Gain(s(i), s(j))
    BY <1>1, GainOrders
<1>4. \A i \in 1 .. n : <<i, i>> \notin B
    BY <1>2, <1>3
<1>5. ASSUME NEW i \in 1 .. n, NEW j \in 1 .. n, i # j PROVE <<i, j>> \in B \/ <<j, i>> \in B
    <2>1. Gain(s(i), s(j)) \in Int /\ Gain(s(j), s(i)) = 0 - Gain(s(i), s(j))
        BY <1>3
    <2>2. i < j \/ j < i
        BY <1>5
    <2>3. \/ Gain(s(i), s(j)) > 0 \/ (Gain(s(i), s(j)) = 0 /\ i < j)
          \/ Gain(s(j), s(i)) > 0 \/ (Gain(s(j), s(i)) = 0 /\ j < i)
        BY <2>1, <2>2
    <2> QED
        BY <1>2, <2>3
<1>6. ASSUME NEW i \in 1 .. n, NEW j \in 1 .. n, NEW l \in 1 .. n, <<i, j>> \in B, <<j, l>> \in B
      PROVE  <<i, l>> \in B
    <2>1. /\ Gain(s(i), s(j)) > 0 \/ (Gain(s(i), s(j)) = 0 /\ i < j)
          /\ Gain(s(j), s(l)) > 0 \/ (Gain(s(j), s(l)) = 0 /\ j < l)
        BY <1>2, <1>6
    <2>2. Gain(s(i), s(j)) \in Int /\ Gain(s(j), s(l)) \in Int /\ Gain(s(i), s(l)) \in Int
        BY <1>3
    <2>3. /\ Gain(s(i), s(j)) >= 0 /\ Gain(s(j), s(l)) >= 0 => Gain(s(i), s(l)) >= 0
          /\ Gain(s(i), s(j)) > 0 /\ Gain(s(j), s(l)) >= 0 => Gain(s(i), s(l)) > 0
          /\ Gain(s(i), s(j)) >= 0 /\ Gain(s(j), s(l)) > 0 => Gain(s(i), s(l)) > 0
        BY <1>1, GainOrders
    <2>4. Gain(s(i), s(l)) > 0 \/ (Gain(s(i), s(l)) = 0 /\ i < l)
        <3>1. CASE Gain(s(i), s(j)) > 0 \/ Gain(s(j), s(l)) > 0
            BY <2>1, <2>2, <2>3, <3>1
        <3>2. CASE Gain(s(i), s(j)) = 0 /\ i < j /\ Gain(s(j), s(l)) = 0 /\ j < l
            <4>1. Gain(s(i), s(l)) >= 0 /\ i < l
                BY <2>2, <2>3, <3>2
            <4> QED
                BY <2>2, <4>1
        <3> QED
            BY <2>1, <3>1, <3>2
    <2> QED
        BY <1>2, <2>4
<1> QED
    BY <1>4, <1>5, <1>6 DEF Orders, B

(* The list by its places.                                                 *)
Sorted(all, n, B) == [p \in 1 .. n |-> all[CHOOSE i \in 1 .. n : PlaceIn(n, B, i) = p]]
PlaceOf(all, n, B, c) == PlaceIn(n, B, At(all, c))

LEMMA SortedIs ==
    ASSUME NEW S, NEW n \in Nat, NEW all \in [1 .. n -> S], OnceEach(all), NEW B, Orders(n, B)
    PROVE  /\ Sorted(all, n, B) \in Seq(S) /\ Len(Sorted(all, n, B)) = n
           /\ \A c \in Range(all) : /\ PlaceOf(all, n, B, c) \in 1 .. n
                                    /\ Sorted(all, n, B)[PlaceOf(all, n, B, c)] = c
           /\ \A p \in 1 .. n : /\ Sorted(all, n, B)[p] \in Range(all)
                                /\ PlaceOf(all, n, B, Sorted(all, n, B)[p]) = p
           /\ \A i, j \in 1 .. n : <<i, j>> \in B =>
                                     PlaceOf(all, n, B, all[i]) < PlaceOf(all, n, B, all[j])
<1> DEFINE chosen(p) == CHOOSE i \in 1 .. n : PlaceIn(n, B, i) = p
           L == Sorted(all, n, B)
<1>1. /\ \A i \in 1 .. n : PlaceIn(n, B, i) \in 1 .. n
      /\ \A i, j \in 1 .. n : <<i, j>> \in B => PlaceIn(n, B, i) < PlaceIn(n, B, j)
      /\ \A i, j \in 1 .. n : PlaceIn(n, B, i) = PlaceIn(n, B, j) => i = j
      /\ \A p \in 1 .. n : \E i \in 1 .. n : PlaceIn(n, B, i) = p
    BY Places
<1>2. \A p \in 1 .. n : chosen(p) \in 1 .. n /\ PlaceIn(n, B, chosen(p)) = p
    BY <1>1
<1>3. DOMAIN all = 1 .. n
    OBVIOUS
<1>4. L = [p \in 1 .. n |-> all[chosen(p)]]
    BY DEF Sorted
<1> HIDE DEF chosen, L
<1>5. \A i \in 1 .. n : chosen(PlaceIn(n, B, i)) = i
    BY <1>1, <1>2
<1>6. L \in Seq(S) /\ Len(L) = n
    <2>1. \A p \in 1 .. n : all[chosen(p)] \in S
        BY <1>2, <1>3
    <2>2. L \in [1 .. n -> S]
        BY <1>4, <2>1
    <2>3. L \in Seq(S)
        BY <2>2, SeqDef
    <2> QED
        BY <2>2, <2>3
<1>7. ASSUME NEW c \in Range(all) PROVE At(all, c) \in 1 .. n /\ all[At(all, c)] = c
    <2>1. all \in Seq(S)
        BY SeqDef
    <2> QED
        BY <1>3, <2>1, AtIs
<1>8. \A i \in 1 .. n : all[i] \in Range(all) /\ At(all, all[i]) = i
    BY <1>3, <1>7, RangeHolds DEF OnceEach
<1>9. ASSUME NEW c \in Range(all)
      PROVE  PlaceOf(all, n, B, c) \in 1 .. n /\ L[PlaceOf(all, n, B, c)] = c
    BY <1>1, <1>4, <1>5, <1>7 DEF PlaceOf
<1>10. ASSUME NEW p \in 1 .. n PROVE L[p] \in Range(all) /\ PlaceOf(all, n, B, L[p]) = p
    BY <1>2, <1>4, <1>8 DEF PlaceOf
<1>11. ASSUME NEW i \in 1 .. n, NEW j \in 1 .. n, <<i, j>> \in B
       PROVE  PlaceOf(all, n, B, all[i]) < PlaceOf(all, n, B, all[j])
    BY <1>1, <1>8, <1>11 DEF PlaceOf
<1> QED
    BY <1>6, <1>9, <1>10, <1>11 DEF L

LEMMA FusedIs ==
    ASSUME NEW v, NEW b, NEW k, NEW limit, NEW all, all = Joined(v, b),
           NEW n \in Nat, DOMAIN all = 1 .. n
    PROVE  FuseHits(v, b, k, limit) = First(Sorted(all, n, FusionOrder(v, b, k, all, n)), limit)
<1> DEFINE B == FusionOrder(v, b, k, all, n)
           score(i) == Score(v, b, k, all[i])
           gain(i, j) == score(i).num * score(j).den - score(j).num * score(i).den
           before(i, j) == gain(i, j) > 0 \/ (gain(i, j) = 0 /\ i < j)
           place(i) == Cardinality({j \in DOMAIN all : before(j, i)}) + 1
<1>1. FuseHits(v, b, k, limit)
        = First([p \in DOMAIN all |-> all[CHOOSE i \in DOMAIN all : place(i) = p]], limit)
    BY DEF FuseHits, Joined
<1>2. \A i, j : before(j, i) <=> Better(v, b, k, all, j, i)
    BY DEF Better, Gain
<1> HIDE DEF before
<1>3. ASSUME NEW i \in 1 .. n PROVE place(i) = PlaceIn(n, B, i)
    <2>1. {j \in DOMAIN all : before(j, i)} = {j \in 1 .. n : <<j, i>> \in B}
        BY <1>2 DEF FusionOrder
    <2> QED
        BY <2>1 DEF PlaceIn
<1> HIDE DEF place, B
<1> DEFINE left(p) == CHOOSE i \in DOMAIN all : place(i) = p
           right(p) == CHOOSE i \in 1 .. n : PlaceIn(n, B, i) = p
<1>4. \A p : left(p) = right(p)
    BY <1>3
<1>5. [p \in DOMAIN all |-> all[CHOOSE i \in DOMAIN all : place(i) = p]] = Sorted(all, n, B)
    <2>1. Sorted(all, n, B) = [p \in 1 .. n |-> all[CHOOSE i \in 1 .. n : PlaceIn(n, B, i) = p]]
        BY DEF Sorted
    <2> HIDE DEF left, right
    <2>2. [p \in DOMAIN all |-> all[left(p)]] = [p \in 1 .. n |-> all[right(p)]]
        BY <1>4
    <2> QED
        BY <2>1, <2>2 DEF left, right
<1> QED
    BY <1>1, <1>5 DEF B

(* reciprocal_rank_fusion returns chunks of the two lists, none twice, as  *)
(* many as there are or the limit allows; and a chunk that neither list    *)
(* places behind another comes before it, however the two lists disagree   *)
(* on the rest.                                                            *)
THEOREM FusionSound ==
    ASSUME NEW S, NEW v \in Seq(S), NEW b \in Seq(S), OnceEach(v), OnceEach(b),
           NEW k \in Nat, NEW limit \in Nat
    PROVE  LET fused == FuseHits(v, b, k, limit)
               chunks == Range(v) \union Range(b)
           IN  /\ fused \in Seq(chunks) /\ OnceEach(fused)
               /\ Len(fused) = Least(limit, Cardinality(chunks))
               /\ \A q \in DOMAIN fused : \A c \in chunks :
                     NoWorse(v, c, fused[q]) /\ NoWorse(b, c, fused[q]) /\ c # fused[q]
                        => \E p \in DOMAIN fused : p < q /\ fused[p] = c
<1> DEFINE fused == FuseHits(v, b, k, limit)
           U == Range(v) \union Range(b)
<1>1. PICK all \in Seq(S) : all = Joined(v, b) /\ OnceEach(all) /\ Range(all) = U
    BY JoinedIs
<1>2. PICK n \in Nat : n = Len(all) /\ all \in [1 .. n -> S] /\ n = Cardinality(U)
    <2>1. PICK n \in Nat : n = Len(all)
        OBVIOUS
    <2>2. all \in [1 .. n -> S]
        BY <2>1
    <2>3. Cardinality(Range(all)) = Len(all)
        BY <1>1, OnceCount
    <2> QED
        BY <1>1, <2>1, <2>2, <2>3, Zenon
<1>3. PICK B : B = FusionOrder(v, b, k, all, n) /\ Orders(n, B)
    <2>1. Range(all) \subseteq Range(v) \union Range(b)
        BY <1>1
    <2>2. Orders(n, FusionOrder(v, b, k, all, n))
        BY <1>2, <2>1, BetterOrders
    <2> QED
        BY <2>2
<1> DEFINE f(c) == PlaceOf(all, n, B, c)
           L == Sorted(all, n, B)
<1>4. /\ L \in Seq(S) /\ Len(L) = n
      /\ \A c \in U : f(c) \in 1 .. n /\ L[f(c)] = c
      /\ \A p \in 1 .. n : L[p] \in U /\ f(L[p]) = p
      /\ \A i, j \in 1 .. n : <<i, j>> \in B => f(all[i]) < f(all[j])
    <2>1. n \in Nat /\ all \in [1 .. n -> S] /\ OnceEach(all) /\ Orders(n, B)
        BY <1>1, <1>2, <1>3
    <2>2. Range(all) = U
        BY <1>1
    <2> HIDE DEF U
    <2> QED
        BY <2>1, <2>2, SortedIs
<1>5. fused = First(L, limit)
    BY <1>1, <1>2, <1>3, FusedIs
<1>6. ASSUME NEW c \in U, NEW d \in U, Gain(Score(v, b, k, c), Score(v, b, k, d)) > 0
      PROVE  f(c) < f(d)
    <2>1. PICK i \in 1 .. n, j \in 1 .. n : c = all[i] /\ d = all[j]
        <3>1. c \in Range(all) /\ d \in Range(all) /\ DOMAIN all = 1 .. n
            BY <1>1, <1>2
        <3> HIDE DEF U, f, L
        <3>2. (\E i \in 1 .. n : c = all[i]) /\ (\E j \in 1 .. n : d = all[j])
            BY <3>1, RangeHolds
        <3> QED
            BY <3>2
    <2>2. Better(v, b, k, all, i, j)
        BY <1>6, <2>1 DEF Better
    <2>3. <<i, j>> \in B
        BY <1>3, <2>2 DEF FusionOrder
    <2> QED
        BY <1>4, <2>1, <2>3
<1> HIDE DEF fused, U, f, L
<1>7. /\ fused \in Seq(S) /\ Len(fused) = Least(limit, n)
      /\ \A p \in DOMAIN fused : p \in 1 .. n /\ fused[p] = L[p]
    <2>1. DOMAIN L = 1 .. n
        BY <1>4
    <2>2. /\ fused \in Seq(S) /\ Len(fused) = Least(limit, Len(L))
          /\ \A p \in DOMAIN fused : p \in DOMAIN L /\ fused[p] = L[p]
        BY <1>4, <1>5, FirstElements
    <2> QED
        BY <1>4, <2>1, <2>2, Zenon
<1>8. fused \in Seq(U)
    <2>1. \A p \in DOMAIN fused : fused[p] \in U
        BY <1>4, <1>7
    <2>2. fused \in [1 .. Len(fused) -> U] /\ Len(fused) \in Nat
        BY <1>7, <2>1
    <2> QED
        BY <2>2, SeqDef
<1>9. OnceEach(fused)
    <2> SUFFICES ASSUME NEW p \in DOMAIN fused, NEW q \in DOMAIN fused, fused[p] = fused[q] PROVE p = q
        BY DEF OnceEach
    <2>1. f(L[p]) = p /\ f(L[q]) = q /\ L[p] = L[q]
        BY <1>4, <1>7
    <2> QED
        BY <2>1
<1>10. ASSUME NEW q \in DOMAIN fused, NEW c \in U,
             NoWorse(v, c, fused[q]), NoWorse(b, c, fused[q]), c # fused[q]
      PROVE  \E p \in DOMAIN fused : p < q /\ fused[p] = c
    <2>1. fused[q] \in U /\ q \in 1 .. n /\ f(fused[q]) = q
        BY <1>4, <1>7
    <2>2. Gain(Score(v, b, k, c), Score(v, b, k, fused[q])) > 0
        BY <1>10, <2>1, ScoreDominates DEF U
    <2>3. f(c) < q /\ f(c) \in 1 .. n /\ L[f(c)] = c
        BY <1>4, <1>6, <2>1, <2>2
    <2>4. f(c) \in DOMAIN fused
        BY <1>7, <2>3
    <2> QED
        BY <1>7, <2>3, <2>4
<1> QED
    BY <1>2, <1>7, <1>8, <1>9, <1>10 DEF fused, U

----------------------------------------------------------------------------
(* The context *)

LEMMA ContextDocumentIs ==
    ASSUME NEW S, NEW corpus \in Seq(S), NEW c
    PROVE  /\ ContextDocument(c, corpus) \in {c} \union Range(corpus)
           /\ ContextDocument(c, corpus).source = c.source
<1> DEFINE parents == {i \in DOMAIN corpus : corpus[i].parent /\ corpus[i].source = c.source
                                               /\ corpus[i].section = c.section}
           last == CHOOSE i \in parents : \A j \in parents : j =< i
<1>1. ContextDocument(c, corpus) = IF parents = {} THEN c ELSE corpus[last]
    BY DEF ContextDocument
<1>2. CASE parents = {}
    BY <1>1, <1>2
<1>3. CASE parents # {}
    <2>1. parents \in SUBSET DOMAIN corpus
        OBVIOUS
    <2>2. \A i \in parents : i \in DOMAIN corpus /\ corpus[i].source = c.source
        OBVIOUS
    <2> HIDE DEF parents
    <2>3. \E i \in parents : \A j \in parents : j =< i
        BY <1>3, <2>1, PartFinite, LastPosition
    <2>4. last \in parents
        BY <2>3
    <2> QED
        BY <1>1, <1>3, <2>2, <2>4, RangeHolds
<1> QED
    BY <1>2, <1>3

(* An item stands for a chunk of the file that was hit.                    *)
ItemOf(i, hits, corpus) ==
    \E r \in DOMAIN hits, tier \in Nat, distance \in Nat : \E c \in {hits[r]} \union Range(corpus) :
        /\ c.source = hits[r].source
        /\ i = [document |-> ContextDocument(c, corpus), key |-> <<r, tier, distance>>]
Less(a, b) == \E n \in 1 .. 3 : a[n] < b[n] /\ \A m \in 1 .. n - 1 : a[m] = b[m]

LEMMA ExpandedIs ==
    ASSUME NEW S, \A c \in S : c.index \in Int, NEW hits \in Seq(S), NEW corpus \in Seq(S),
           NEW neighbor \in Nat
    PROVE  \E items :
              /\ ExpandHits(hits, corpus, neighbor)
                   = {i \in items : ~\E j \in items : j.document = i.document /\ Less(j.key, i.key)}
              /\ \A i \in items : ItemOf(i, hits, corpus)
              /\ \A r \in DOMAIN hits :
                    [document |-> ContextDocument(hits[r], corpus), key |-> <<r, 0, 0>>] \in items
<1> DEFINE children == {i \in DOMAIN corpus : ~corpus[i].parent}
           places(source, index) ==
               {i \in children : corpus[i].source = source /\ corpus[i].index = index}
           at(source, index) ==
               {corpus[i] : i \in {j \in places(source, index) :
                                       \A k \in places(source, index) : k =< j}}
           gap(c, d) == Most(c.index, d.index) - Least(c.index, d.index)
           item(c, r, tier, distance) ==
               [document |-> ContextDocument(c, corpus), key |-> <<r, tier, distance>>]
           own(r) == {item(hits[r], r, 0, 0)}
           section(r) == {item(c, r, 1, gap(c, hits[r])) : c \in
                             {d \in {corpus[i] : i \in children} \ {hits[r]} :
                                 d.source = hits[r].source /\ d.section = hits[r].section}}
           near(r) == {item(c, r, 2, gap(c, hits[r])) : c \in
                          UNION {at(hits[r].source, i) : i \in
                              (hits[r].index - neighbor .. hits[r].index + neighbor) \ {hits[r].index}}}
           items == UNION {own(r) \union section(r) \union near(r) : r \in DOMAIN hits}
<1>1. ExpandHits(hits, corpus, neighbor)
        = {i \in items : ~\E j \in items : j.document = i.document /\ Less(j.key, i.key)}
    BY DEF ExpandHits, Less
<1>2. \A c, d \in S : gap(c, d) \in Nat
    BY DEF Most, Least
<1>3. \A r \in DOMAIN hits : hits[r] \in S
    OBVIOUS
<1>4. \A i \in children : corpus[i] \in S /\ corpus[i] \in Range(corpus)
    BY RangeHolds
<1>5. ASSUME NEW r \in DOMAIN hits, NEW i \in section(r) PROVE ItemOf(i, hits, corpus)
    <2> HIDE DEF gap, children
    <2>1. PICK j \in children : /\ corpus[j].source = hits[r].source
                                /\ i = item(corpus[j], r, 1, gap(corpus[j], hits[r]))
        OBVIOUS
    <2>2. gap(corpus[j], hits[r]) \in Nat /\ corpus[j] \in Range(corpus) /\ 1 \in Nat
        BY <1>2, <1>3, <1>4
    <2> QED
        BY <2>1, <2>2 DEF ItemOf
<1>6. ASSUME NEW r \in DOMAIN hits, NEW i \in near(r) PROVE ItemOf(i, hits, corpus)
    <2> HIDE DEF gap, children
    <2>1. PICK j \in children : /\ corpus[j].source = hits[r].source
                                /\ i = item(corpus[j], r, 2, gap(corpus[j], hits[r]))
        OBVIOUS
    <2>2. gap(corpus[j], hits[r]) \in Nat /\ corpus[j] \in Range(corpus) /\ 2 \in Nat
        BY <1>2, <1>3, <1>4
    <2> QED
        BY <2>1, <2>2 DEF ItemOf
<1>7. ASSUME NEW r \in DOMAIN hits PROVE ItemOf(item(hits[r], r, 0, 0), hits, corpus)
    BY DEF ItemOf
<1> HIDE DEF section, near, item
<1>8. \A i \in items : ItemOf(i, hits, corpus)
    BY <1>5, <1>6, <1>7
<1>9. \A r \in DOMAIN hits : item(hits[r], r, 0, 0) \in items
    OBVIOUS
<1> HIDE DEF items
<1> QED
    BY <1>1, <1>8, <1>9 DEF item

(* expand_hit_documents_scored puts the document of the best hit in the    *)
(* first place, no document twice, and only documents of files that were   *)
(* hit.                                                                    *)
THEOREM ExpansionSound ==
    ASSUME NEW S, \A c \in S : c.index \in Int, NEW hits \in Seq(S), NEW corpus \in Seq(S),
           NEW neighbor \in Nat
    PROVE  LET items == ExpandHits(hits, corpus, neighbor) IN
           /\ hits # <<>> =>
                 /\ [document |-> ContextDocument(hits[1], corpus), key |-> <<1, 0, 0>>] \in items
                 /\ \A i \in items : ~Less(i.key, <<1, 0, 0>>)
           /\ \A i, j \in items : i.document = j.document => i = j
           /\ \A i \in items : \E h \in Range(hits) :
                 /\ i.document.source = h.source
                 /\ i.document \in {h} \union Range(corpus)
<1>1. PICK items :
              /\ ExpandHits(hits, corpus, neighbor)
                   = {i \in items : ~\E j \in items : j.document = i.document /\ Less(j.key, i.key)}
              /\ \A i \in items : ItemOf(i, hits, corpus)
              /\ \A r \in DOMAIN hits :
                    [document |-> ContextDocument(hits[r], corpus), key |-> <<r, 0, 0>>] \in items
    BY ExpandedIs
<1>2. ASSUME NEW i \in items PROVE ~Less(i.key, <<1, 0, 0>>)
    <2>1. PICK r \in DOMAIN hits, tier \in Nat, distance \in Nat : i.key = <<r, tier, distance>>
        BY <1>1 DEF ItemOf
    <2>2. r \in Nat /\ r >= 1
        OBVIOUS
    <2>3. i.key[1] >= 1 /\ i.key[2] >= 0 /\ i.key[3] >= 0
        BY <2>1, <2>2
    <2> QED
        BY <2>1, <2>2, <2>3 DEF Less
<1>3. ASSUME hits # <<>>
      PROVE  [document |-> ContextDocument(hits[1], corpus), key |-> <<1, 0, 0>>]
                \in ExpandHits(hits, corpus, neighbor)
    <2>1. 1 \in DOMAIN hits
        BY <1>3
    <2> QED
        BY <1>1, <1>2, <2>1
<1>4. ASSUME NEW i \in items, NEW j \in items, i.document = j.document,
             ~Less(i.key, j.key), ~Less(j.key, i.key)
      PROVE  i = j
    <2>1. PICK x \in Int, y \in Int, z \in Int : i = [document |-> i.document, key |-> <<x, y, z>>]
        BY <1>1 DEF ItemOf
    <2>2. PICK u \in Int, v \in Int, w \in Int : j = [document |-> j.document, key |-> <<u, v, w>>]
        BY <1>1 DEF ItemOf
    <2>4. ASSUME NEW a \in Int, NEW b \in Int, NEW c \in Int, NEW k \in Int, NEW l \in Int, NEW m \in Int
          PROVE  Less(<<a, b, c>>, <<k, l, m>>) <=>
                    a < k \/ (a = k /\ b < l) \/ (a = k /\ b = l /\ c < m)
        <3>1. \A n \in 1 .. 3 : n = 1 \/ n = 2 \/ n = 3
            OBVIOUS
        <3>2. 1 .. 1 - 1 = {} /\ 1 .. 2 - 1 = {1} /\ 1 .. 3 - 1 = {1, 2}
            OBVIOUS
        <3> QED
            BY <3>1, <3>2 DEF Less
    <2>3. i.key = <<x, y, z>> /\ j.key = <<u, v, w>>
        BY <2>1, <2>2
    <2>5. ~Less(<<x, y, z>>, <<u, v, w>>) /\ ~Less(<<u, v, w>>, <<x, y, z>>)
        BY <1>4, <2>3
    <2>6. x = u /\ y = v /\ z = w
        BY <2>4, <2>5
    <2> QED
        BY <1>4, <2>1, <2>2, <2>6
<1>5. ASSUME NEW i \in items
      PROVE  \E h \in Range(hits) : i.document.source = h.source /\ i.document \in {h} \union Range(corpus)
    <2>1. PICK r \in DOMAIN hits : \E c \in {hits[r]} \union Range(corpus) :
              c.source = hits[r].source /\ i.document = ContextDocument(c, corpus)
        BY <1>1 DEF ItemOf
    <2>0. PICK c \in {hits[r]} \union Range(corpus) :
              c.source = hits[r].source /\ i.document = ContextDocument(c, corpus)
        BY <2>1
    <2>2. i.document \in {c} \union Range(corpus) /\ i.document.source = c.source
        BY <2>0, ContextDocumentIs
    <2>3. hits[r] \in Range(hits)
        BY RangeHolds
    <2> QED
        BY <2>0, <2>2, <2>3
<1> QED
    BY <1>1, <1>2, <1>3, <1>4, <1>5

----------------------------------------------------------------------------
(* From the question to the context *)

LEMMA PartOnce ==
    ASSUME NEW S, NEW list \in Seq(S), OnceEach(list), NEW K \in SUBSET DOMAIN list
    PROVE  OnceEach(Pick(list, K))
<1> DEFINE p == Pick(list, K)
<1>1. DOMAIN p = 1 .. Cardinality(K) /\ Cardinality(K) \in Nat
    BY PickElements
<1>2. \A k \in 1 .. Cardinality(K) : \E i \in K : Rank(K, i) = k /\ p[k] = list[i]
    BY PickElements
<1> HIDE DEF p
<1>3. ASSUME NEW k \in DOMAIN p, NEW l \in DOMAIN p, p[k] = p[l] PROVE k = l
    <2>1. PICK i \in K : Rank(K, i) = k /\ p[k] = list[i]
        BY <1>1, <1>2
    <2>2. PICK j \in K : Rank(K, j) = l /\ p[l] = list[j]
        BY <1>1, <1>2
    <2>3. i = j
        BY <1>3, <2>1, <2>2 DEF OnceEach
    <2> QED
        BY <2>1, <2>2, <2>3
<1> QED
    BY <1>3 DEF p, OnceEach

LEMMA SeqWithin ==
    ASSUME NEW S, NEW A \in SUBSET S, NEW B \in SUBSET S, NEW list \in Seq(A \union B)
    PROVE  list \in Seq(S) /\ Range(list) \subseteq A \union B
<1>1. \A i \in 1 .. Len(list) : list[i] \in A \union B
    OBVIOUS
<1>2. DOMAIN list = 1 .. Len(list) /\ Len(list) \in Nat /\ list \in [1 .. Len(list) -> A \union B]
    OBVIOUS
<1>3. list \in [1 .. Len(list) -> S]
    BY <1>2
<1> QED
    BY <1>1, <1>2, <1>3, RangeHolds

LEMMA FirstOnce ==
    ASSUME NEW S, NEW list \in Seq(S), OnceEach(list), NEW n \in Nat
    PROVE  OnceEach(First(list, n))
<1>1. \A i \in DOMAIN First(list, n) : i \in DOMAIN list /\ First(list, n)[i] = list[i]
    BY FirstElements
<1> QED
    BY <1>1 DEF OnceEach

(* Both searches return lists of chunks, each once.                        *)
LEMMA SearchOnce ==
    ASSUME NEW S, NEW list \in Seq(S), OnceEach(list), NEW scopes, NEW n \in Nat, NEW course
    PROVE  /\ \A innerK : /\ SearchVector(scopes, list, innerK, n, course) \in Seq(S)
                          /\ OnceEach(SearchVector(scopes, list, innerK, n, course))
           /\ \A most : /\ SearchBm25(scopes, list, most, n, course) \in Seq(S)
                        /\ OnceEach(SearchBm25(scopes, list, most, n, course))
<1>1. ASSUME NEW K \in SUBSET DOMAIN list
      PROVE  First(Pick(list, K), n) \in Seq(S) /\ OnceEach(First(Pick(list, K), n))
    <2>1. Pick(list, K) \in Seq(S)
        BY PickElements
    <2> QED
        BY <2>1, FirstOfPart, PartOnce, FirstOnce
<1>2. ASSUME NEW innerK
      PROVE  \E K \in SUBSET DOMAIN list :
                SearchVector(scopes, list, innerK, n, course) = First(Pick(list, K), n)
    BY DEF SearchVector
<1>3. ASSUME NEW lexicalFetch
      PROVE  \E K \in SUBSET DOMAIN list :
                SearchBm25(scopes, list, lexicalFetch, n, course) = First(Pick(list, K), n)
    BY DEF SearchBm25
<1> QED
    BY <1>1, <1>2, <1>3

(* Reranking permutes and cuts.                                            *)
LEMMA RerankedIs ==
    ASSUME NEW S, NEW hits \in Seq(S), NEW topK \in Nat, NEW ranked \in RerankHits(hits, topK)
    PROVE  ranked \in Seq(S) /\ Range(ranked) \subseteq Range(hits)
<1>1. CASE hits = <<>> \/ topK = 0
    <2>1. ranked = <<>>
        BY <1>1 DEF RerankHits
    <2> QED
        BY <2>1 DEF Range
<1>2. CASE ~(hits = <<>> \/ topK = 0) /\ Len(hits) = 1
    <2>1. ranked = hits
        BY <1>2 DEF RerankHits
    <2> QED
        BY <2>1
<1>3. CASE ~(hits = <<>> \/ topK = 0) /\ Len(hits) # 1
    <2>1. PICK p \in Bijection(DOMAIN hits, DOMAIN hits) :
              ranked = First([i \in DOMAIN hits |-> hits[p[i]]], topK)
        BY <1>3 DEF RerankHits
    <2>2. p \in [DOMAIN hits -> DOMAIN hits]
        BY DEF Bijection, Injection
    <2> DEFINE permuted == [i \in DOMAIN hits |-> hits[p[i]]]
    <2>3. permuted \in Seq(S)
        BY <2>2
    <2>4. Range(permuted) \subseteq Range(hits)
        BY <2>2 DEF Range
    <2> HIDE DEF permuted
    <2>5. First(permuted, topK) \in Seq(S) /\ Range(First(permuted, topK)) \subseteq Range(permuted)
        BY <2>3, FirstElements
    <2>6. ranked = First(permuted, topK)
        BY <2>1 DEF permuted
    <2> QED
        BY <2>4, <2>5, <2>6
<1> QED
    BY <1>1, <1>2, <1>3

(* Accepting leaves hits out.                                              *)
LEMMA AcceptedIs ==
    ASSUME NEW S, NEW ranked \in Seq(S), NEW close, NEW b, NEW bound \in BOOLEAN
    PROVE  /\ AcceptedHits(ranked, close, b, bound) \in Seq(S)
           /\ Range(AcceptedHits(ranked, close, b, bound)) \subseteq Range(ranked)
           /\ bound /\ ranked # <<>> => AcceptedHits(ranked, close, b, bound) # <<>>
<1> DEFINE passing == {i \in DOMAIN ranked : ranked[i] \in close \union Range(b)}
           hits == AcceptedHits(ranked, close, b, bound)
<1>1. hits = IF passing = {} /\ bound THEN ranked ELSE Pick(ranked, passing)
    BY DEF AcceptedHits
<1>2. passing \in SUBSET DOMAIN ranked
    OBVIOUS
<1> HIDE DEF passing, hits
<1>3. CASE passing = {} /\ bound
    BY <1>1, <1>3 DEF hits
<1>4. CASE ~(passing = {} /\ bound)
    <2>1. hits \in Seq(S) /\ hits = Pick(ranked, passing) /\ Range(hits) = {ranked[i] : i \in passing}
        BY <1>1, <1>2, <1>4, PickElements, PickRange
    <2>2. Range(hits) \subseteq Range(ranked)
        BY <1>2, <2>1, RangeHolds
    <2>3. bound => hits # <<>>
        <3>1. \A i \in passing : ranked[i] \in Range(hits)
            BY <2>1
        <3>2. Range(<<>>) = {}
            BY DEF Range
        <3> QED
            BY <1>4, <3>1, <3>2
    <2> QED
        BY <2>1, <2>2, <2>3 DEF hits
<1> QED
    BY <1>3, <1>4

LEMMA CorpusIs ==
    ASSUME NEW S, NEW documents \in Seq(S), NEW scopes, NEW course
    PROVE  /\ TenantDocuments(documents, scopes, course) \in Seq(S)
           /\ \A c \in Range(TenantDocuments(documents, scopes, course)) :
                 c.scope \in scopes /\ c.live /\ c \in course
<1> DEFINE K == {i \in DOMAIN documents :
                    LET c == documents[i] IN c.scope \in scopes /\ c.live /\ c \in course}
           corpus == TenantDocuments(documents, scopes, course)
<1>1. corpus = Pick(documents, K) /\ K \in SUBSET DOMAIN documents
    BY DEF TenantDocuments
<1>2. \A i \in K : documents[i].scope \in scopes /\ documents[i].live /\ documents[i] \in course
    BY Zenon
<1> HIDE DEF K, corpus
<1>3. corpus \in Seq(S) /\ Range(corpus) = {documents[i] : i \in K}
    BY <1>1, PickElements, PickRange
<1>4. \A c \in Range(corpus) : \E i \in K : c = documents[i]
    BY <1>3
<1>5. \A c \in Range(corpus) : c.scope \in scopes /\ c.live /\ c \in course
    BY <1>2, <1>4, Zenon
<1> QED
    BY <1>3, <1>5 DEF corpus

(* What a prompt may be given: a chunk in use of the course, of the tenant *)
(* or the platform, and of the tenant if a course is bound.                *)
OwnKnowledge(c, tenant, platform, bound, course) ==
    /\ c.live /\ c \in course
    /\ c.scope \in {tenant, platform}
    /\ bound => c.scope = tenant

LEMMA ScopesAreOwn ==
    ASSUME NEW indexes, NEW tenant, NEW platform, NEW bound \in BOOLEAN, NEW course, NEW c,
           c.live, c \in course, c.scope \in SearchScopes(indexes, tenant, platform, bound)
    PROVE  OwnKnowledge(c, tenant, platform, bound, course)
<1>1. c.scope \in {tenant, platform} /\ (bound => c.scope = tenant)
    BY DEF SearchScopes
<1> QED
    BY <1>1, Zenon DEF OwnKnowledge

(* retrieve_course_docs: no document of another tenant, of another course  *)
(* than the bound one, or out of use when it was read reaches the prompt,  *)
(* through either search, the fusion, any order of the cross encoder or    *)
(* the expansion; also when the indexes are replaced between the search    *)
(* (searched, nearest, scored) and the expansion (expanded, documents).    *)
THEOREM OnlyOwnKnowledge ==
    ASSUME NEW S, \A c \in S : c.index \in Int, NEW nearest \in Seq(S), NEW scored \in Seq(S),
           OnceEach(nearest), OnceEach(scored), NEW documents \in Seq(S),
           NEW searched, NEW expanded, NEW tenant, NEW platform, NEW bound \in BOOLEAN, NEW course,
           NEW innerK, \A s \in SearchScopes(searched, tenant, platform, bound) : innerK[s] \in Nat,
           NEW lexicalFetch \in Nat, NEW fetchK \in Nat, NEW rrfK \in Nat, NEW limit \in Nat,
           NEW topK \in Nat, NEW close, NEW neighbor \in Nat
    PROVE  LET scopes == SearchScopes(searched, tenant, platform, bound)
               v == SearchVector(scopes, nearest, innerK, fetchK, course)
               b == SearchBm25(scopes, scored, lexicalFetch, fetchK, course)
               corpus == TenantDocuments(documents,
                             SearchScopes(expanded, tenant, platform, bound), course)
           IN  \A ranked \in RerankHits(FuseHits(v, b, rrfK, limit), topK) :
                   \A i \in ExpandHits(AcceptedHits(ranked, close, b, bound), corpus, neighbor) :
                       OwnKnowledge(i.document, tenant, platform, bound, course)
<1> DEFINE scopes == SearchScopes(searched, tenant, platform, bound)
           v == SearchVector(scopes, nearest, innerK, fetchK, course)
           b == SearchBm25(scopes, scored, lexicalFetch, fetchK, course)
           later == SearchScopes(expanded, tenant, platform, bound)
           corpus == TenantDocuments(documents, later, course)
           fused == FuseHits(v, b, rrfK, limit)
           Own(c) == OwnKnowledge(c, tenant, platform, bound, course)
<1>1. /\ v \in Seq(S) /\ OnceEach(v)
      /\ b \in Seq(S) /\ OnceEach(b)
    BY SearchOnce
<1>2. ASSUME NEW list, NEW i \in Wanted(list, scopes, course) PROVE Own(list[i])
    <2>1. list[i].scope \in scopes /\ list[i].live /\ list[i] \in course
        BY Zenon DEF Wanted
    <2> QED
        BY <2>1, ScopesAreOwn
<1>3. \A c \in Range(v) : Own(c)
    <2>1. \A c \in Range(v) : \E i \in Wanted(nearest, scopes, course) : c = nearest[i]
        BY VectorSearchSound
    <2> HIDE DEF v, Own
    <2> QED
        BY <1>2, <2>1
<1>4. \A c \in Range(b) : Own(c)
    <2>1. \A c \in Range(b) : \E i \in Wanted(scored, scopes, course) : c = scored[i]
        BY WordSearchSound
    <2> HIDE DEF b, Own
    <2> QED
        BY <1>2, <2>1
<1>5. corpus \in Seq(S) /\ \A c \in Range(corpus) : c.scope \in later /\ c.live /\ c \in course
    BY CorpusIs
<1>6. \A c \in Range(corpus) : Own(c)
    <2> HIDE DEF corpus
    <2> QED
        BY <1>5, ScopesAreOwn
<1> HIDE DEF v, b, corpus
<1>7. fused \in Seq(Range(v) \union Range(b))
    BY <1>1, FusionSound
<1>8. Range(v) \in SUBSET S /\ Range(b) \in SUBSET S
    BY <1>1 DEF Range
<1> HIDE DEF fused, Own
<1>9. fused \in Seq(S) /\ Range(fused) \subseteq Range(v) \union Range(b)
    BY <1>7, <1>8, SeqWithin
<1>10. ASSUME NEW ranked \in RerankHits(fused, topK),
              NEW i \in ExpandHits(AcceptedHits(ranked, close, b, bound), corpus, neighbor)
       PROVE  Own(i.document)
    <2> DEFINE hits == AcceptedHits(ranked, close, b, bound)
    <2>1. ranked \in Seq(S) /\ Range(ranked) \subseteq Range(fused)
        BY <1>9, RerankedIs
    <2>2. hits \in Seq(S) /\ Range(hits) \subseteq Range(ranked)
        BY <2>1, AcceptedIs
    <2> HIDE DEF hits
    <2>3. \E h \in Range(hits) : i.document \in {h} \union Range(corpus)
        <3>1. i \in ExpandHits(hits, corpus, neighbor)
            BY DEF hits
        <3> QED
            BY <1>5, <2>2, <3>1, ExpansionSound
    <2> QED
        BY <1>3, <1>4, <1>6, <1>9, <2>1, <2>2, <2>3
<1> QED
    BY <1>10 DEF v, b, corpus, fused, Own
=============================================================================
