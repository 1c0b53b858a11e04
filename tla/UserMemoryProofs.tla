-------------------------- MODULE UserMemoryProofs --------------------------
(***************************************************************************)
(* Proofs about UserMemory, for any number of sessions and orders and any  *)
(* length of the list of recent orders.                                    *)
(***************************************************************************)
EXTENDS UserMemory, TLAPS

(* A session past its load saves an order or none, an idle one not at all. *)
SaverInv ==
    \A s \in Session :
        /\ pc[s] \in {"put", "upsert"} => fact[s] \in Order \union {NoOrder}
        /\ pc[s] = "idle" => fact[s] = NoSave

MemoryInv == TypeOK /\ SaverInv

-----------------------------------------------------------------------------
LEMMA BlankProfile == Blank \in Profile /\ Coherent(Blank)
    BY MemoryAssumption DEF Blank, Profile, Coherent

(* Where the items of the old list go: value was at place at, or is new.   *)
LEMMA PrependShape ==
    ASSUME NEW items \in Seq(Order), NEW value \in Order, Len(items) <= MaxRecent
    PROVE  \E at \in 1 .. Len(items) + 1 :
            LET new == prepend_unique(items, value)
            IN  /\ at <= Len(items) => items[at] = value
                /\ at = Len(items) + 1 => \A i \in 1 .. Len(items) : items[i] # value
                /\ new \in Seq(Order)
                /\ Len(new) = Least(MaxRecent, IF at <= Len(items) THEN Len(items) ELSE Len(items) + 1)
                /\ \A j \in 1 .. Len(new) :
                    new[j] = IF j = 1 THEN value ELSE IF j <= at THEN items[j - 1] ELSE items[j]
<1> DEFINE known == \E i \in 1 .. Len(items) : items[i] = value
           at == IF known THEN CHOOSE i \in 1 .. Len(items) : items[i] = value
                 ELSE Len(items) + 1
           n == Least(MaxRecent, IF known THEN Len(items) ELSE Len(items) + 1)
           new == [j \in 1 .. n |->
                    IF j = 1 THEN value ELSE IF j <= at THEN items[j - 1] ELSE items[j]]
<1>1. prepend_unique(items, value) = new
    BY DEF prepend_unique
<1>2. at \in 1 .. Len(items) + 1
    OBVIOUS
<1>3. at <= Len(items) => known /\ items[at] = value
    OBVIOUS
<1>4. at = Len(items) + 1 => ~known
    OBVIOUS
<1>5. n \in Nat /\ n <= Len(items) + 1 /\ (known => n <= Len(items))
    BY MemoryAssumption DEF Least
<1> HIDE DEF known, at
<1>6. ASSUME NEW j \in 1 .. n PROVE new[j] \in Order
    BY <1>2, <1>3, <1>4, <1>5
<1>7. new \in Seq(Order) /\ Len(new) = n
    BY <1>5, <1>6
<1>8. n = Least(MaxRecent, IF at <= Len(items) THEN Len(items) ELSE Len(items) + 1)
    BY <1>2, <1>3, <1>4
<1>9. known <=> \E i \in 1 .. Len(items) : items[i] = value
    BY DEF known
<1> HIDE DEF n
<1> QED
    BY <1>1, <1>2, <1>3, <1>4, <1>7, <1>8, <1>9

(* The same as a renumbering: which old place the j-th new item had, and    *)
(* that only the last item of a full list falls off.                       *)
Place(at, j) == IF j <= at THEN j - 1 ELSE j

Prepends(items, value, at) ==
    LET new == prepend_unique(items, value)
    IN  /\ new \in Seq(Order) /\ Len(new) \in 1 .. MaxRecent
        /\ Len(items) <= Len(new)
        /\ new[1] = value
        /\ at <= Len(items) => items[at] = value
        /\ \A j \in 2 .. Len(new) :
            /\ Place(at, j) \in 1 .. Len(items)
            /\ new[j] = items[Place(at, j)] /\ new[j] # value
        /\ \A i, j \in 2 .. Len(new) : i < j => Place(at, i) < Place(at, j)
        /\ \A k \in 1 .. Len(items) :
            \/ k = at
            \/ \E j \in 2 .. Len(new) : Place(at, j) = k
            \/ /\ Len(new) = MaxRecent
               /\ \A j \in 2 .. Len(new) : Place(at, j) < k

LEMMA PrependPlaces ==
    ASSUME NEW items \in Seq(Order), NEW value \in Order, Len(items) <= MaxRecent,
           \A i, j \in 1 .. Len(items) : i # j => items[i] # items[j]
    PROVE  \E at \in 1 .. Len(items) + 1 : Prepends(items, value, at)
<1> DEFINE new == prepend_unique(items, value)
<1>1. PICK at \in 1 .. Len(items) + 1 :
            /\ at <= Len(items) => items[at] = value
            /\ at = Len(items) + 1 => \A i \in 1 .. Len(items) : items[i] # value
            /\ new \in Seq(Order)
            /\ Len(new) = Least(MaxRecent, IF at <= Len(items) THEN Len(items) ELSE Len(items) + 1)
            /\ \A j \in 1 .. Len(new) :
                new[j] = IF j = 1 THEN value ELSE IF j <= at THEN items[j - 1] ELSE items[j]
    BY PrependShape
<1> HIDE DEF new
<1>2. /\ Len(items) \in Nat /\ at \in Nat /\ at >= 1 /\ at <= Len(items) + 1
      /\ Len(new) \in 1 .. MaxRecent
      /\ at <= Len(items) => Len(new) = Len(items)
      /\ at = Len(items) + 1 =>
            Len(new) = IF MaxRecent < Len(items) + 1 THEN MaxRecent ELSE Len(items) + 1
    BY <1>1, MemoryAssumption DEF Least
<1>3. Len(items) <= Len(new) /\ new[1] = value
    BY <1>1, <1>2, MemoryAssumption
<1>4. ASSUME NEW j \in 2 .. Len(new)
      PROVE  /\ Place(at, j) \in 1 .. Len(items) /\ Place(at, j) # at
             /\ new[j] = items[Place(at, j)] /\ new[j] # value
    <2>1. Place(at, j) \in 1 .. Len(items) /\ Place(at, j) # at
        BY <1>2, MemoryAssumption DEF Place
    <2>2. new[j] = items[Place(at, j)]
        BY <1>1, <1>2 DEF Place
    <2>3. items[Place(at, j)] # value
        BY <1>1, <1>2, <2>1
    <2> QED
        BY <2>1, <2>2, <2>3
<1>5. ASSUME NEW i \in 2 .. Len(new), NEW j \in 2 .. Len(new), i < j
      PROVE  Place(at, i) < Place(at, j)
    BY <1>2, <1>5 DEF Place
<1>6. ASSUME NEW k \in 1 .. Len(items), k # at
      PROVE  \/ \E j \in 2 .. Len(new) : Place(at, j) = k
             \/ /\ Len(new) = MaxRecent
                /\ \A j \in 2 .. Len(new) : Place(at, j) < k
    <2>1. CASE k > at
        <3>1. k \in 2 .. Len(new) /\ Place(at, k) = k
            BY <1>2, <2>1 DEF Place
        <3> QED
            BY <3>1
    <2>2. CASE k < at /\ k + 1 <= Len(new)
        <3>1. k + 1 \in 2 .. Len(new) /\ Place(at, k + 1) = k
            BY <1>2, <2>2 DEF Place
        <3> QED
            BY <3>1
    <2>3. CASE k < at /\ k + 1 > Len(new)
        <3>1. at = Len(items) + 1 /\ Len(new) = MaxRecent
            BY <1>2, <2>3, MemoryAssumption
        <3>2. \A j \in 2 .. Len(new) : Place(at, j) < k
            BY <1>2, <2>3, <3>1, MemoryAssumption DEF Place
        <3> QED
            BY <3>1, <3>2
    <2> QED
        BY <1>2, <1>6, <2>1, <2>2, <2>3
<1>7. Prepends(items, value, at)
    BY <1>1, <1>2, <1>3, <1>4, <1>5, <1>6 DEF new, Prepends
<1> QED
    BY <1>7

(* A coherent profile stays coherent when an order is merged in.           *)
LEMMA MergedCoherent ==
    ASSUME NEW p \in Profile, NEW o \in Order \union {NoOrder}, Coherent(p)
    PROVE  Merged(p, o) \in Profile /\ Coherent(Merged(p, o))
<1>0. CASE o = NoOrder
    BY <1>0 DEF Merged
<1> SUFFICES ASSUME o \in Order PROVE Merged(p, o) \in Profile /\ Coherent(Merged(p, o))
    BY <1>0
<1> DEFINE items == p.recent
           new == prepend_unique(items, o)
<1>1. items \in Seq(Order) /\ Len(items) <= MaxRecent
    BY DEF Profile, Coherent
<1>2. \A i, j \in 1 .. Len(items) : i # j => items[i] # items[j]
    BY DEF Coherent
<1>3. PICK at \in 1 .. Len(items) + 1 : Prepends(items, o, at)
    BY <1>1, <1>2, PrependPlaces
<1>4. Merged(p, o) = [last |-> o, recent |-> new]
    BY MemoryAssumption DEF Merged
<1> HIDE DEF items
<1>5. /\ new \in Seq(Order) /\ Len(new) \in 1 .. MaxRecent /\ new[1] = o
      /\ \A j \in 2 .. Len(new) :
            Place(at, j) \in 1 .. Len(items) /\ new[j] = items[Place(at, j)] /\ new[j] # o
      /\ \A i, j \in 2 .. Len(new) : i < j => Place(at, i) < Place(at, j)
    BY <1>3 DEF Prepends
<1> HIDE DEF new
<1>6. ASSUME NEW i \in 1 .. Len(new), NEW j \in 1 .. Len(new), i < j PROVE new[i] # new[j]
    <2>1. CASE i = 1
        BY <1>5, <1>6, <2>1
    <2>2. CASE i > 1
        <3>1. i \in 2 .. Len(new) /\ j \in 2 .. Len(new)
            BY <1>6, <2>2
        <3> QED
            BY <1>1, <1>2, <1>5, <1>6, <3>1
    <2> QED
        BY <2>1, <2>2
<1>7. \A i, j \in 1 .. Len(new) : i # j => new[i] # new[j]
    BY <1>5, <1>6
<1> QED
    BY <1>4, <1>5, <1>7, MemoryAssumption DEF Profile, Coherent

(* UpToDate of a list of orders under given stamps.                        *)
Fresh(times, recent) ==
    /\ \A i \in 1 .. Len(recent) : times[recent[i]] > 0
    /\ \A i, j \in 1 .. Len(recent) : i < j => times[recent[i]] > times[recent[j]]
    /\ \A o \in Order : times[o] > 0 /\ (\A i \in 1 .. Len(recent) : recent[i] # o) =>
        /\ Len(recent) = MaxRecent
        /\ \A i \in 1 .. Len(recent) : times[o] < times[recent[i]]

LEMMA UpToDateFresh == \A p \in Profile : UpToDate(p) <=> Fresh(stamp, p.recent)
    BY DEF UpToDate, Fresh

(* A list that is up to date stays so when an order saved now comes first. *)
LEMMA PrependFresh ==
    ASSUME NEW items \in Seq(Order), NEW value \in Order, Len(items) <= MaxRecent,
           \A i, j \in 1 .. Len(items) : i # j => items[i] # items[j],
           NEW now \in Nat, NEW times \in [Order -> Nat], \A o \in Order : times[o] <= now,
           Fresh(times, items)
    PROVE  Fresh([times EXCEPT ![value] = now + 1], prepend_unique(items, value))
<1> DEFINE new == prepend_unique(items, value)
           later == [times EXCEPT ![value] = now + 1]
<1>1. PICK at \in 1 .. Len(items) + 1 : Prepends(items, value, at)
    BY PrependPlaces
<1>2. /\ new \in Seq(Order) /\ Len(new) \in 1 .. MaxRecent /\ new[1] = value
      /\ Len(items) <= Len(new)
      /\ at <= Len(items) => items[at] = value
      /\ \A j \in 2 .. Len(new) :
            Place(at, j) \in 1 .. Len(items) /\ new[j] = items[Place(at, j)] /\ new[j] # value
      /\ \A i, j \in 2 .. Len(new) : i < j => Place(at, i) < Place(at, j)
      /\ \A k \in 1 .. Len(items) :
            \/ k = at
            \/ \E j \in 2 .. Len(new) : Place(at, j) = k
            \/ /\ Len(new) = MaxRecent
               /\ \A j \in 2 .. Len(new) : Place(at, j) < k
    BY <1>1 DEF Prepends
<1> HIDE DEF new
<1>3. /\ later \in [Order -> Nat] /\ later[value] = now + 1
      /\ \A o \in Order : o # value => later[o] = times[o] /\ later[o] < now + 1
    OBVIOUS
<1> HIDE DEF later
<1>4. ASSUME NEW j \in 2 .. Len(new)
      PROVE  later[new[j]] = times[items[Place(at, j)]] /\ later[new[j]] < now + 1
    <2>1. new[j] \in Order /\ new[j] # value
        <3>1. new \in Seq(Order) /\ Len(new) \in Nat
            BY <1>2, MemoryAssumption
        <3>2. new[j] \in Order
            BY ONLY <3>1, j \in 2 .. Len(new)
        <3> QED
            BY <1>2, <3>2
    <2>2. later[new[j]] = times[new[j]] /\ later[new[j]] < now + 1
        BY <1>3, <2>1
    <2> QED
        BY <1>2, <2>2
<1>5. ASSUME NEW i \in 1 .. Len(new) PROVE later[new[i]] > 0
    <2>1. CASE i = 1
        BY <1>2, <1>3, <2>1
    <2>2. CASE i \in 2 .. Len(new)
        BY <1>2, <1>4, <2>2 DEF Fresh
    <2> QED
        BY <1>2, <2>1, <2>2
<1>6. ASSUME NEW i \in 1 .. Len(new), NEW j \in 1 .. Len(new), i < j
      PROVE  later[new[i]] > later[new[j]]
    <2>1. j \in 2 .. Len(new)
        BY <1>6
    <2>2. CASE i = 1
        BY <1>2, <1>3, <1>4, <2>1, <2>2
    <2>3. CASE i \in 2 .. Len(new)
        <3>1. times[items[Place(at, i)]] > times[items[Place(at, j)]]
            BY <1>2, <1>6, <2>1, <2>3 DEF Fresh
        <3> QED
            BY <1>4, <2>1, <2>3, <3>1
    <2> QED
        BY <2>2, <2>3
<1>7. ASSUME NEW o \in Order, later[o] > 0, \A i \in 1 .. Len(new) : new[i] # o
      PROVE  Len(new) = MaxRecent /\ \A i \in 1 .. Len(new) : later[o] < later[new[i]]
    <2>1. o # value /\ later[o] = times[o] /\ later[o] < now + 1 /\ times[o] > 0
        BY <1>2, <1>3, <1>7
    <2>2. later[o] < later[new[1]]
        BY <1>2, <1>3, <2>1
    <2>3. Len(new) = MaxRecent /\ \A j \in 2 .. Len(new) : times[o] < times[items[Place(at, j)]]
        <3>1. CASE \A k \in 1 .. Len(items) : items[k] # o
            <4>1. Len(items) = MaxRecent /\ \A k \in 1 .. Len(items) : times[o] < times[items[k]]
                BY <2>1, <3>1 DEF Fresh
            <4> QED
                BY <1>2, <4>1
        <3>2. ASSUME NEW k \in 1 .. Len(items), items[k] = o
              PROVE  /\ Len(new) = MaxRecent
                     /\ \A j \in 2 .. Len(new) : times[o] < times[items[Place(at, j)]]
            <4>1. k # at
                BY <1>2, <2>1, <3>2
            <4>2. ASSUME NEW j \in 2 .. Len(new), Place(at, j) = k PROVE FALSE
                <5>1. new[j] = items[Place(at, j)]
                    BY <1>2
                <5>2. new[j] = o
                    BY <3>2, <4>2, <5>1
                <5>3. j \in 1 .. Len(new)
                    BY <1>2
                <5> QED
                    BY <1>7, <5>2, <5>3
            <4>3. Len(new) = MaxRecent /\ \A j \in 2 .. Len(new) : Place(at, j) < k
                BY <1>2, <4>1, <4>2
            <4> QED
                BY <1>2, <3>2, <4>3 DEF Fresh
        <3> QED
            BY <3>1, <3>2
    <2>4. ASSUME NEW i \in 1 .. Len(new) PROVE later[o] < later[new[i]]
        <3>1. CASE i = 1
            BY <2>2, <3>1
        <3>2. CASE i \in 2 .. Len(new)
            BY <1>4, <2>1, <2>3, <3>2
        <3> QED
            BY <1>2, <3>1, <3>2
    <2> QED
        BY <2>3, <2>4
<1> QED
    BY <1>5, <1>6, <1>7 DEF Fresh, new, later

-----------------------------------------------------------------------------
(* Types and coherence are one induction: Put needs both of mine[s].       *)
CoherentInv == MemoryInv /\ CopiesCoherent

LEMMA InitCoherent == Init => CoherentInv
<1> SUFFICES ASSUME Init PROVE CoherentInv
    OBVIOUS
<1>1. TypeOK
    BY BlankProfile DEF Init, TypeOK, PC
<1>2. SaverInv
    BY DEF Init, SaverInv
<1>3. \A s \in Session : mine[s] = Blank
    BY DEF Init
<1>4. CopiesCoherent
    BY <1>3, BlankProfile DEF Init, CopiesCoherent, OrBlank
<1> QED
    BY <1>1, <1>2, <1>4 DEF CoherentInv, MemoryInv

(* What load_user_memory hands over is well typed if the profile is.       *)
LEMMA LoadedCoherent ==
    ASSUME CoherentInv, NEW s \in Session, NEW p \in Profile, Coherent(p), Loaded(s, p),
           UNCHANGED <<row, fact, clock, stamp, overlapped, behind>>, lost' \in BOOLEAN,
           store' \in {store, p}
    PROVE  CoherentInv'
<1> USE DEF CoherentInv, MemoryInv
<1>1. pc' \in [Session -> PC] /\ mine' \in [Session -> Profile]
    BY BlankProfile DEF Loaded, TypeOK, PC
<1>2. TypeOK'
    BY <1>1 DEF TypeOK
<1>3. SaverInv'
    BY DEF Loaded, TypeOK, SaverInv
<1>4. \A u \in Session : mine'[u] = mine[u] \/ mine'[u] = p \/ mine'[u] = Blank
    BY DEF Loaded, TypeOK
<1>5. CopiesCoherent'
    BY <1>4, BlankProfile DEF CopiesCoherent, Coherent, OrBlank
<1> QED
    BY <1>2, <1>3, <1>5

LEMMA DoneCoherent ==
    ASSUME CoherentInv, NEW s \in Session, Done(s), UNCHANGED <<store, clock, stamp, overlapped>>,
           row' \in {row, mine[s]}, behind' \in BOOLEAN, lost' \in BOOLEAN
    PROVE  CoherentInv'
<1> USE DEF CoherentInv, MemoryInv
<1>1. TypeOK'
    BY BlankProfile DEF Done, TypeOK, PC
<1>2. SaverInv'
    BY DEF Done, TypeOK, SaverInv
<1>3. \A u \in Session : mine'[u] = mine[u] \/ mine'[u] = Blank
    BY DEF Done, TypeOK
<1>4. mine[s] # NoProfile
    BY MemoryAssumption DEF TypeOK
<1>5. CopiesCoherent'
    BY <1>3, <1>4, BlankProfile DEF CopiesCoherent, Coherent, OrBlank
<1> QED
    BY <1>1, <1>2, <1>5

LEMMA NextCoherent == CoherentInv /\ [Next]_vars => CoherentInv'
<1> SUFFICES ASSUME CoherentInv, [Next]_vars PROVE CoherentInv'
    OBVIOUS
<1> USE DEF CoherentInv, MemoryInv, histories
<1>1. ASSUME NEW s \in Session, Begin(s) PROVE CoherentInv'
    <2>1. TypeOK'
        BY <1>1 DEF Begin, TypeOK, PC
    <2>2. SaverInv'
        BY <1>1 DEF Begin, TypeOK, SaverInv
    <2> QED
        BY <1>1, <2>1, <2>2 DEF Begin, CopiesCoherent
<1>2. ASSUME NEW s \in Session, Get(s) PROVE CoherentInv'
    <2>1. CASE store # NoProfile
        <3>1. store \in Profile /\ Coherent(store)
            BY <2>1 DEF TypeOK, CopiesCoherent, OrBlank
        <3> QED
            BY <1>2, <2>1, <3>1, LoadedCoherent DEF Get, TypeOK
    <2>2. CASE store = NoProfile
        <3>1. pc' \in [Session -> PC] /\ UNCHANGED mine
            BY <1>2, <2>2 DEF Get, TypeOK, PC
        <3>2. TypeOK'
            BY <1>2, <3>1 DEF Get, TypeOK
        <3>3. SaverInv'
            BY <1>2, <2>2 DEF Get, TypeOK, SaverInv
        <3> QED
            BY <1>2, <3>1, <3>2, <3>3 DEF Get, CopiesCoherent
    <2> QED
        BY <2>1, <2>2
<1>3. ASSUME NEW s \in Session, ReadRow(s) PROVE CoherentInv'
    <2>1. CASE row = NoProfile
        BY <1>3, <2>1, BlankProfile, LoadedCoherent DEF ReadRow, TypeOK
    <2>2. CASE row # NoProfile
        <3>1. row \in Profile /\ Coherent(row)
            BY <2>2 DEF TypeOK, CopiesCoherent, OrBlank
        <3>2. TypeOK'
            BY <1>3, <2>2, <3>1 DEF ReadRow, TypeOK, PC
        <3>3. SaverInv'
            BY <1>3, <2>2 DEF ReadRow, TypeOK, SaverInv
        <3>4. \A u \in Session : mine'[u] = mine[u] \/ mine'[u] = row
            BY <1>3, <2>2 DEF ReadRow, TypeOK
        <3> QED
            BY <1>3, <3>1, <3>2, <3>3, <3>4 DEF ReadRow, CopiesCoherent, Coherent
    <2> QED
        BY <2>1, <2>2
<1>4. ASSUME NEW s \in Session, RowUnreadable(s) PROVE CoherentInv'
    BY <1>4, BlankProfile, LoadedCoherent DEF RowUnreadable, TypeOK
<1>5. ASSUME NEW s \in Session, Backfill(s) PROVE CoherentInv'
    <2>1. mine[s] \in Profile /\ Coherent(mine[s])
        BY DEF TypeOK, CopiesCoherent
    <2> QED
        BY <1>5, <2>1, LoadedCoherent DEF Backfill, TypeOK
<1>6. ASSUME NEW s \in Session, Put(s) PROVE CoherentInv'
    <2> DEFINE merged == Merged(mine[s], fact[s])
    <2>1. fact[s] \in Order \union {NoOrder} /\ mine[s] \in Profile /\ Coherent(mine[s])
        BY <1>6 DEF Put, SaverInv, TypeOK, CopiesCoherent
    <2>2. merged \in Profile /\ Coherent(merged)
        BY <2>1, MergedCoherent
    <2>3. store' = merged /\ mine' = [mine EXCEPT ![s] = merged]
        BY <1>6 DEF Put
    <2> HIDE DEF merged
    <2>4. merged # NoProfile
        BY <2>2, MemoryAssumption
    <2>5. TypeOK'
        BY <1>6, <2>1, <2>2, <2>3 DEF Put, TypeOK, PC
    <2>6. SaverInv'
        BY <1>6, <2>1 DEF Put, TypeOK, SaverInv
    <2>7. \A u \in Session : mine'[u] = mine[u] \/ mine'[u] = merged
        BY <2>3 DEF TypeOK
    <2>8. row' = row
        BY <1>6 DEF Put
    <2>9. CopiesCoherent'
        BY <2>2, <2>3, <2>4, <2>7, <2>8 DEF CopiesCoherent, OrBlank, Coherent
    <2> QED
        BY <2>5, <2>6, <2>9
<1>7. ASSUME NEW s \in Session, Upsert(s) PROVE CoherentInv'
    BY <1>7, DoneCoherent DEF Upsert, TypeOK
<1>8. ASSUME NEW s \in Session, Fail(s) PROVE CoherentInv'
    BY <1>8, DoneCoherent DEF Fail, TypeOK
<1>9. ASSUME Expire PROVE CoherentInv'
    <2>1. TypeOK' /\ SaverInv'
        BY <1>9 DEF Expire, TypeOK, SaverInv
    <2> QED
        BY <1>9, <2>1, BlankProfile DEF Expire, CopiesCoherent, OrBlank, Coherent
<1>10. CASE UNCHANGED vars
    BY <1>10 DEF vars, TypeOK, SaverInv, CopiesCoherent, OrBlank, Coherent
<1> QED
    BY <1>1, <1>2, <1>3, <1>4, <1>5, <1>6, <1>7, <1>8, <1>9, <1>10 DEF Next

LEMMA AlwaysCoherent == Spec => []CoherentInv
    BY InitCoherent, NextCoherent, PTL DEF Spec

(* The variables of the memory keep their types.                           *)
THEOREM TypeCorrect == Spec => []TypeOK
<1>1. CoherentInv => TypeOK
    BY DEF CoherentInv, MemoryInv
<1> QED
    BY <1>1, AlwaysCoherent, PTL

(* Every copy of the profile is coherent, whatever the interleaving of     *)
(* loads, saves, backfills and failures.  save_user_memory                 *)
THEOREM ProfileCopiesCoherent == Spec => []CopiesCoherent
<1>1. CoherentInv => CopiesCoherent
    BY DEF CoherentInv
<1> QED
    BY <1>1, AlwaysCoherent, PTL

-----------------------------------------------------------------------------
(* Why nothing is forgotten while no operation overlaps a save and no copy *)
(* is lost: a save is alone, so what it read is still what is stored.  The *)
(* store is up to date when it holds anything, the row when it is not      *)
(* behind and no save is about to write it, and whoever holds a profile    *)
(* holds one that is up to date.                                           *)
Alone == \A s, u \in Session : s # u /\ fact[s] # NoSave => pc[u] = "idle"

Kept ==
    /\ Alone
    /\ store # NoProfile => UpToDate(store)
    /\ (\A s \in Session : pc[s] # "upsert") /\ ~behind => UpToDate(OrBlank(row))
    /\ \A s \in Session : pc[s] \in {"put", "upsert", "backfill"} => UpToDate(mine[s])
    /\ behind => store # NoProfile
    /\ \A s \in Session : pc[s] = "row" => ~behind

FreshInv ==
    /\ \A o \in Order : stamp[o] <= clock
    /\ ~overlapped /\ ~lost => Kept

LEMMA InitFresh == Init => FreshInv
<1> SUFFICES ASSUME Init PROVE FreshInv
    OBVIOUS
<1>1. \A o \in Order : stamp[o] = 0
    BY DEF Init
<1>2. UpToDate(OrBlank(row))
    BY <1>1 DEF Init, OrBlank, UpToDate, Blank
<1> QED
    BY <1>1, <1>2 DEF Init, FreshInv, Kept, Alone

(* A session at "row" has the row to itself, as far as saves go.           *)
LEMMA RowFresh ==
    ASSUME CoherentInv, Kept, NEW s \in Session, pc[s] = "row"
    PROVE  UpToDate(OrBlank(row))
<1>1. ~behind
    BY DEF Kept
<1>2. ASSUME NEW u \in Session, pc[u] = "upsert" PROVE FALSE
    BY <1>2, MemoryAssumption DEF Kept, Alone, CoherentInv, MemoryInv, SaverInv
<1> QED
    BY <1>1, <1>2 DEF Kept

LEMMA LoadedKept ==
    ASSUME CoherentInv, Kept, NEW s \in Session, NEW p \in Profile, UpToDate(p), Loaded(s, p),
           pc[s] \notin {"idle", "upsert"}, UNCHANGED <<row, fact, clock, stamp, overlapped, behind>>,
           store' \in {store, p}
    PROVE  Kept'
<1> USE DEF CoherentInv, MemoryInv
<1>1. /\ \A u \in Session : u # s => pc'[u] = pc[u] /\ mine'[u] = mine[u]
      /\ pc'[s] \in {"put", "idle"}
      /\ pc'[s] = "put" => mine'[s] = p
    BY DEF Loaded, TypeOK
<1>2. Alone'
    BY <1>1 DEF Kept, Alone
<1>3. p # NoProfile
    BY MemoryAssumption
<1>4. store' # NoProfile => UpToDate(store)'
    BY <1>3 DEF Kept, UpToDate
<1>5. (\A u \in Session : pc'[u] # "upsert") /\ ~behind' => UpToDate(OrBlank(row))'
    <2>1. SUFFICES ASSUME \A u \in Session : pc'[u] # "upsert", ~behind'
                   PROVE  UpToDate(OrBlank(row))'
        OBVIOUS
    <2>2. \A u \in Session : pc[u] # "upsert"
        BY <1>1, <2>1
    <2>3. UpToDate(OrBlank(row))
        BY <2>1, <2>2 DEF Kept
    <2> QED
        BY <2>3 DEF UpToDate, OrBlank, Blank
<1>6. ASSUME NEW u \in Session, pc'[u] \in {"put", "upsert", "backfill"} PROVE UpToDate(mine[u])'
    <2>1. CASE u = s
        BY <1>1, <1>6, <2>1 DEF UpToDate
    <2>2. CASE u # s
        <3>1. mine'[u] = mine[u] /\ UpToDate(mine[u])
            BY <1>1, <1>6, <2>2 DEF Kept
        <3> QED
            BY <3>1 DEF UpToDate
    <2> QED
        BY <2>1, <2>2
<1>7. behind' => store' # NoProfile
    BY <1>3 DEF Kept
<1>8. \A u \in Session : pc'[u] = "row" => ~behind'
    BY <1>1 DEF Kept
<1> QED
    BY <1>2, <1>4, <1>5, <1>6, <1>7, <1>8 DEF Kept

LEMMA NextFresh == CoherentInv /\ CoherentInv' /\ FreshInv /\ [Next]_vars => FreshInv'
<1> SUFFICES ASSUME CoherentInv, CoherentInv', FreshInv, [Next]_vars PROVE FreshInv'
    OBVIOUS
<1> USE DEF CoherentInv, MemoryInv, histories
<1> DEFINE Times == \A o \in Order : stamp[o] <= clock
<1>a. Times
    BY DEF FreshInv
<1>b. ASSUME UNCHANGED <<stamp, clock>> PROVE Times'
    BY <1>a, <1>b
<1>c. ASSUME Times', (~overlapped' /\ ~lost') => Kept' PROVE FreshInv'
    BY <1>c DEF FreshInv
<1>d. ASSUME NEW s \in Session, pc[s] \in {"put", "upsert", "backfill"}, Kept
      PROVE  UpToDate(mine[s])
    BY <1>d DEF Kept
<1> HIDE DEF Times
<1>1. ASSUME NEW s \in Session, Begin(s) PROVE FreshInv'
    <2>1. SUFFICES ASSUME ~overlapped', ~lost' PROVE Kept'
        BY <1>1, <1>b, <1>c DEF Begin
    <2>2. Kept
        BY <1>1, <2>1 DEF Begin, FreshInv
    <2>3. PICK o \in Order \union {NoOrder, NoSave} :
                /\ fact' = [fact EXCEPT ![s] = o]
                /\ ~ \E u \in Session : Busy(u) /\ (o # NoSave \/ fact[u] # NoSave)
        BY <1>1, <2>1 DEF Begin, TypeOK
    <2>4. Alone'
        BY <1>1, <2>2, <2>3 DEF Begin, Kept, Alone, Busy, TypeOK, SaverInv
    <2>5. /\ \A u \in Session : u # s => pc'[u] = pc[u]
          /\ pc'[s] = "get" /\ pc[s] = "idle"
          /\ UNCHANGED <<store, row, mine, stamp, behind>>
        BY <1>1 DEF Begin, TypeOK, Busy
    <2>6. \A u \in Session : pc'[u] # "get" => pc'[u] = pc[u]
        BY <2>5
    <2>7. (\A u \in Session : pc'[u] # "upsert") => (\A u \in Session : pc[u] # "upsert")
        BY <2>5
    <2> QED
        BY <2>2, <2>4, <2>5, <2>6, <2>7 DEF Kept, UpToDate, OrBlank, Blank
<1>2. ASSUME NEW s \in Session, Get(s) PROVE FreshInv'
    <2>1. SUFFICES ASSUME ~overlapped', ~lost' PROVE Kept'
        BY <1>2, <1>b, <1>c DEF Get
    <2>2. Kept
        BY <1>2, <2>1 DEF Get, FreshInv
    <2>3. CASE store # NoProfile
        <3>1. store \in Profile /\ UpToDate(store)
            BY <2>2, <2>3 DEF Kept, TypeOK
        <3> QED
            BY <1>2, <2>2, <2>3, <3>1, LoadedKept DEF Get
    <2>4. CASE store = NoProfile
        <3>1. /\ \A u \in Session : u # s => pc'[u] = pc[u]
              /\ pc'[s] = "row" /\ pc[s] = "get" /\ ~behind
              /\ UNCHANGED <<store, row, fact, mine, stamp, behind>>
            BY <1>2, <2>2, <2>4 DEF Get, TypeOK, Kept
        <3>2. Alone'
            BY <2>2, <3>1 DEF Kept, Alone
        <3>3. (\A u \in Session : pc'[u] # "upsert") => (\A u \in Session : pc[u] # "upsert")
            BY <3>1
        <3>4. (\A u \in Session : pc'[u] # "upsert") /\ ~behind' => UpToDate(OrBlank(row))'
            BY <2>2, <3>1, <3>3 DEF Kept, UpToDate, OrBlank, Blank
        <3>5. ASSUME NEW u \in Session, pc'[u] \in {"put", "upsert", "backfill"}
              PROVE  UpToDate(mine[u])'
            <4>1. mine'[u] = mine[u] /\ UpToDate(mine[u])
                BY <2>2, <3>1, <3>5 DEF Kept
            <4> QED
                BY <3>1, <4>1 DEF UpToDate
        <3> QED
            BY <2>2, <2>4, <3>1, <3>2, <3>4, <3>5 DEF Kept
    <2> QED
        BY <2>3, <2>4
<1>3. ASSUME NEW s \in Session, ReadRow(s) PROVE FreshInv'
    <2>1. SUFFICES ASSUME ~overlapped', ~lost' PROVE Kept'
        BY <1>3, <1>b, <1>c DEF ReadRow
    <2>2. Kept
        BY <1>3, <2>1 DEF ReadRow, FreshInv
    <2>3. UpToDate(OrBlank(row))
        BY <1>3, <2>2, RowFresh DEF ReadRow
    <2>4. CASE row = NoProfile
        <3>1. UpToDate(Blank)
            BY <2>3, <2>4 DEF OrBlank
        <3> QED
            BY <1>3, <2>2, <2>4, <3>1, BlankProfile, LoadedKept DEF ReadRow
    <2>5. CASE row # NoProfile
        <3>1. UpToDate(row)
            BY <2>3, <2>5 DEF OrBlank
        <3>2. /\ \A u \in Session : u # s => pc'[u] = pc[u] /\ mine'[u] = mine[u]
              /\ pc'[s] = "backfill" /\ pc[s] = "row" /\ mine'[s] = row
              /\ UNCHANGED <<store, row, fact, stamp, behind>>
            BY <1>3, <2>5 DEF ReadRow, TypeOK
        <3>3. Alone'
            BY <2>2, <3>2 DEF Kept, Alone
        <3>4. ASSUME NEW u \in Session, pc'[u] \in {"put", "upsert", "backfill"}
              PROVE  UpToDate(mine[u])'
            <4>1. CASE u = s
                BY <3>1, <3>2, <4>1 DEF UpToDate
            <4>2. CASE u # s
                <5>1. mine'[u] = mine[u] /\ UpToDate(mine[u])
                    BY <2>2, <3>2, <3>4, <4>2 DEF Kept
                <5> QED
                    BY <3>2, <5>1 DEF UpToDate
            <4> QED
                BY <4>1, <4>2
        <3>5. \A u \in Session : pc'[u] = "row" => ~behind'
            BY <2>2, <3>2 DEF Kept
        <3>6. UpToDate(OrBlank(row))'
            BY <2>3, <3>2 DEF UpToDate, OrBlank, Blank
        <3>7. store' # NoProfile => UpToDate(store)'
            BY <2>2, <3>2 DEF Kept, UpToDate
        <3>8. behind' => store' # NoProfile
            BY <2>2, <3>2 DEF Kept
        <3> QED
            BY <3>3, <3>4, <3>5, <3>6, <3>7, <3>8 DEF Kept
    <2> QED
        BY <2>4, <2>5
<1>4. ASSUME NEW s \in Session, RowUnreadable(s) PROVE FreshInv'
    <2>1. SUFFICES ASSUME ~overlapped', ~lost' PROVE Kept'
        BY <1>4, <1>b, <1>c DEF RowUnreadable
    <2>2. Kept /\ (fact[s] = NoSave \/ row = NoProfile)
        BY <1>4, <2>1 DEF RowUnreadable, FreshInv, TypeOK
    <2>3. CASE row = NoProfile
        <3>1. UpToDate(Blank)
            BY <1>4, <2>2, <2>3, RowFresh DEF RowUnreadable, OrBlank
        <3> QED
            BY <1>4, <2>2, <3>1, BlankProfile, LoadedKept DEF RowUnreadable
    <2>4. CASE fact[s] = NoSave
        <3>1. /\ \A u \in Session : u # s => pc'[u] = pc[u] /\ mine'[u] = mine[u]
              /\ pc'[s] = "idle" /\ pc[s] = "row"
              /\ UNCHANGED <<store, row, fact, stamp, behind>>
            BY <1>4, <2>4 DEF RowUnreadable, Loaded, TypeOK
        <3>2. Alone'
            BY <2>2, <3>1 DEF Kept, Alone
        <3>3. (\A u \in Session : pc'[u] # "upsert") => (\A u \in Session : pc[u] # "upsert")
            BY <3>1
        <3>4. ASSUME NEW u \in Session, pc'[u] \in {"put", "upsert", "backfill"}
              PROVE  UpToDate(mine[u])'
            <4>1. mine'[u] = mine[u] /\ UpToDate(mine[u])
                BY <2>2, <3>1, <3>4 DEF Kept
            <4> QED
                BY <3>1, <4>1 DEF UpToDate
        <3>5. \A u \in Session : pc'[u] = "row" => ~behind'
            BY <2>2, <3>1 DEF Kept
        <3> QED
            BY <2>2, <3>1, <3>2, <3>3, <3>4, <3>5 DEF Kept, UpToDate, OrBlank, Blank
    <2> QED
        BY <2>2, <2>3, <2>4
<1>5. ASSUME NEW s \in Session, Backfill(s) PROVE FreshInv'
    <2>1. SUFFICES ASSUME ~overlapped', ~lost' PROVE Kept'
        BY <1>5, <1>b, <1>c DEF Backfill
    <2>2. Kept
        BY <1>5, <2>1 DEF Backfill, FreshInv
    <2>3. mine[s] \in Profile /\ UpToDate(mine[s])
        BY <1>5, <1>d, <2>2 DEF Backfill, TypeOK
    <2> QED
        BY <1>5, <2>2, <2>3, LoadedKept DEF Backfill
<1>6. ASSUME NEW s \in Session, Put(s) PROVE FreshInv'
    <2> DEFINE o == fact[s]
               merged == Merged(mine[s], o)
    <2>1. o \in Order \union {NoOrder} /\ mine[s] \in Profile /\ Coherent(mine[s])
        BY <1>6 DEF Put, SaverInv, TypeOK, CopiesCoherent
    <2>2. merged \in Profile /\ merged # NoProfile
        BY <2>1, MergedCoherent, MemoryAssumption
    <2>3. /\ store' = merged /\ clock' = clock + 1
          /\ stamp' = IF o = NoOrder THEN stamp ELSE [stamp EXCEPT ![o] = clock + 1]
          /\ pc[s] = "put" /\ pc'[s] = "upsert" /\ mine'[s] = merged
          /\ \A u \in Session : u # s => pc'[u] = pc[u] /\ mine'[u] = mine[u]
          /\ UNCHANGED <<row, fact, behind, overlapped, lost>>
        BY <1>6 DEF Put, TypeOK
    <2>4. Times'
        BY <1>a, <2>1, <2>3 DEF Times, TypeOK
    <2>5. SUFFICES ASSUME ~overlapped, ~lost PROVE Kept'
        BY <1>c, <2>3, <2>4
    <2>6. Kept
        BY <2>5 DEF FreshInv
    <2>7. Fresh(stamp, mine[s].recent)
        BY <1>d, <2>1, <2>3, <2>6, UpToDateFresh
    <2>8. Fresh(stamp', merged.recent)
        <3>1. CASE o = NoOrder
            BY <2>3, <2>7, <3>1 DEF Merged
        <3>2. CASE o \in Order
            <4>1. /\ mine[s].recent \in Seq(Order) /\ Len(mine[s].recent) <= MaxRecent
                  /\ \A i, j \in 1 .. Len(mine[s].recent) :
                        i # j => mine[s].recent[i] # mine[s].recent[j]
                BY <2>1 DEF Profile, Coherent
            <4>2. clock \in Nat /\ stamp \in [Order -> Nat] /\ \A x \in Order : stamp[x] <= clock
                BY <1>a DEF TypeOK, Times
            <4>3. Fresh([stamp EXCEPT ![o] = clock + 1], prepend_unique(mine[s].recent, o))
                BY <2>7, <3>2, <4>1, <4>2, PrependFresh
            <4>4. merged.recent = prepend_unique(mine[s].recent, o) /\ o # NoOrder
                BY <3>2, MemoryAssumption DEF Merged
            <4> QED
                BY <2>3, <4>3, <4>4
        <3> QED
            BY <2>1, <3>1, <3>2
    <2>10. UpToDate(store)' /\ UpToDate(mine[s])'
        BY <2>3, <2>8 DEF UpToDate, Fresh
    <2> HIDE DEF o, merged
    <2>11. \A u \in Session : u # s => pc'[u] = "idle"
        BY <2>1, <2>3, <2>6, MemoryAssumption DEF Kept, Alone, o
    <2>12. Alone'
        BY <2>3, <2>6, <2>11, MemoryAssumption DEF Kept, Alone, SaverInv
    <2> QED
        BY <2>2, <2>3, <2>10, <2>11, <2>12 DEF Kept
<1>7. ASSUME NEW s \in Session, Upsert(s) PROVE FreshInv'
    <2>1. SUFFICES ASSUME ~overlapped', ~lost' PROVE Kept'
        BY <1>7, <1>b, <1>c DEF Upsert
    <2>2. Kept
        BY <1>7, <2>1 DEF Upsert, FreshInv
    <2>3. /\ row' = mine[s] /\ ~behind' /\ pc[s] = "upsert" /\ pc'[s] = "idle"
          /\ \A u \in Session : u # s => /\ pc'[u] = pc[u] /\ mine'[u] = mine[u]
                                         /\ fact'[u] = fact[u]
          /\ UNCHANGED <<store, stamp>>
        BY <1>7 DEF Upsert, Done, TypeOK
    <2>4. UpToDate(mine[s]) /\ mine[s] # NoProfile
        BY <1>d, <2>2, <2>3, MemoryAssumption DEF TypeOK
    <2>5. \A u \in Session : u # s => pc'[u] = "idle"
        BY <2>2, <2>3, MemoryAssumption DEF Kept, Alone, SaverInv
    <2>6. Alone'
        BY <2>3, <2>5 DEF Alone
    <2>7. UpToDate(OrBlank(row))'
        BY <2>3, <2>4 DEF OrBlank, UpToDate
    <2>8. store' # NoProfile => UpToDate(store)'
        BY <2>2, <2>3 DEF Kept, UpToDate
    <2> QED
        BY <2>3, <2>5, <2>6, <2>7, <2>8 DEF Kept
<1>8. ASSUME NEW s \in Session, Fail(s) PROVE FreshInv'
    <2>1. SUFFICES ASSUME ~overlapped', ~lost' PROVE Kept'
        BY <1>8, <1>b, <1>c DEF Fail
    <2>2. Kept /\ ~(pc[s] = "upsert" /\ store = NoProfile)
        BY <1>8, <2>1 DEF Fail, FreshInv, TypeOK
    <2>3. /\ behind' = (behind \/ pc[s] = "upsert") /\ pc'[s] = "idle" /\ pc[s] # "idle"
          /\ fact'[s] = NoSave
          /\ \A u \in Session : u # s => /\ pc'[u] = pc[u] /\ mine'[u] = mine[u]
                                         /\ fact'[u] = fact[u]
          /\ UNCHANGED <<store, row, stamp>>
        BY <1>8 DEF Fail, Done, TypeOK, Busy
    <2>4. Alone'
        BY <2>2, <2>3 DEF Kept, Alone
    <2>5. store' # NoProfile => UpToDate(store)'
        BY <2>2, <2>3 DEF Kept, UpToDate
    <2>6. (\A u \in Session : pc'[u] # "upsert") /\ ~behind' => UpToDate(OrBlank(row))'
        <3>1. SUFFICES ASSUME \A u \in Session : pc'[u] # "upsert", ~behind'
                       PROVE  UpToDate(OrBlank(row))'
            OBVIOUS
        <3>2. ~behind /\ \A u \in Session : pc[u] # "upsert"
            BY <2>3, <3>1
        <3>3. UpToDate(OrBlank(row))
            BY <2>2, <3>2 DEF Kept
        <3> QED
            BY <2>3, <3>3 DEF UpToDate, OrBlank, Blank
    <2>7. ASSUME NEW u \in Session, pc'[u] \in {"put", "upsert", "backfill"}
          PROVE  UpToDate(mine[u])'
        <3>1. mine'[u] = mine[u] /\ UpToDate(mine[u])
            BY <2>2, <2>3, <2>7 DEF Kept
        <3> QED
            BY <2>3, <3>1 DEF UpToDate
    <2>8. behind' => store' # NoProfile
        BY <2>2, <2>3 DEF Kept
    <2>9. ASSUME NEW u \in Session, pc'[u] = "row" PROVE ~behind'
        <3>1. u # s /\ pc[u] = "row"
            BY <2>3, <2>9
        <3>2. pc[s] # "upsert"
            BY <2>2, <3>1, MemoryAssumption DEF Kept, Alone, SaverInv
        <3> QED
            BY <2>2, <2>3, <3>1, <3>2 DEF Kept
    <2> QED
        BY <2>4, <2>5, <2>6, <2>7, <2>8, <2>9 DEF Kept
<1>9. ASSUME Expire PROVE FreshInv'
    <2>1. SUFFICES ASSUME ~overlapped', ~lost' PROVE Kept'
        BY <1>9, <1>b, <1>c DEF Expire
    <2>2. Kept /\ ~behind
        BY <1>9, <2>1 DEF Expire, FreshInv, TypeOK
    <2>3. UNCHANGED <<row, pc, fact, mine, stamp, behind>> /\ store' = NoProfile
        BY <1>9 DEF Expire
    <2> QED
        BY <2>2, <2>3 DEF Kept, Alone, UpToDate, OrBlank, Blank
<1>10. CASE UNCHANGED vars
    BY <1>10 DEF vars, FreshInv, Kept, Alone, UpToDate, OrBlank, Blank
<1> QED
    BY <1>1, <1>2, <1>3, <1>4, <1>5, <1>6, <1>7, <1>8, <1>9, <1>10 DEF Next

(* What a session saved is forgotten only after MaxRecent newer orders,    *)
(* unless operations overlapped or a copy was lost: the profile that the   *)
(* next load finds is up to date.  save_user_memory, load_user_memory      *)
THEOREM SavedOrdersKept == Spec => []NothingForgotten
<1>1. CoherentInv /\ FreshInv => NothingForgotten
    <2> SUFFICES ASSUME CoherentInv, FreshInv, ~overlapped, ~lost,
                        \A s \in Session : fact[s] = NoSave
                 PROVE  UpToDate(OrBlank(IF store # NoProfile THEN store ELSE row))
        BY DEF NothingForgotten
    <2>1. Kept
        BY DEF FreshInv
    <2>2. \A s \in Session : pc[s] # "upsert"
        BY MemoryAssumption DEF CoherentInv, MemoryInv, SaverInv
    <2>3. CASE store # NoProfile
        BY <2>1, <2>3 DEF Kept, OrBlank
    <2>4. CASE store = NoProfile
        BY <2>1, <2>2, <2>4 DEF Kept
    <2> QED
        BY <2>3, <2>4
<1>2. Spec => []FreshInv
    BY InitFresh, NextFresh, AlwaysCoherent, PTL DEF Spec
<1> QED
    BY <1>1, <1>2, AlwaysCoherent, PTL
=============================================================================
