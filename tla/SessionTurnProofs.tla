------------------------- MODULE SessionTurnProofs -------------------------
(***************************************************************************)
(* Proofs about SessionTurn, for any set of turns, any lock ttl, either    *)
(* lock, and with or without faults.                                       *)
(***************************************************************************)
EXTENDS SessionTurn, SequenceTheorems, TLAPS

(* A turn has channel values exactly in the part of the graph run that     *)
(* uses them.  With TypeOK this is inductive.                              *)
Working == {"security", "node", "respond", "put"}

WorkLoaded == \A t \in Turn : pc[t] \in Working => work[t] \in State

TypeInv == TypeOK /\ WorkLoaded

-----------------------------------------------------------------------------
(* A stored state extended by one message is a stored state.               *)
LEMMA AppendState ==
    ASSUME NEW s \in State, NEW m \in Msg
    PROVE  Append(s, m) \in State
    BY AppendProperties DEF State

(* Merging hydrated inputs into loaded channels gives a stored state.      *)
LEMMA MergedState ==
    ASSUME NEW s \in State, NEW g \in State \union {NoState}
    PROVE  Merged(s, g) \in State
<1>1. CASE g = NoState
    BY <1>1 DEF Merged
<1>2. CASE g # NoState
    BY <1>2, ConcatProperties DEF Merged, State
<1> QED
    BY <1>1, <1>2

LEMMA OldStates == OldState \in State /\ NewState \in State
<1>1. Human(Old) \in Msg /\ Answer(Old) \in Msg
    BY DEF Human, Answer, Msg
<1>2. <<Human(Old), Answer(Old)>> \in Seq(Msg)
    BY <1>1
<1>3. <<>> \in Seq(Msg)
    OBVIOUS
<1> QED
    BY <1>2, <1>3 DEF OldState, NewState, State

LEMMA Messages == \A t \in Turn : Human(t) \in Msg /\ Answer(t) \in Msg
    BY DEF Human, Answer, Msg

LEMMA InitType == Init => TypeInv
<1> SUFFICES ASSUME Init PROVE TypeInv
    OBVIOUS
<1>1. LockTypeOK
    BY LockAssumption DEF Init, LockInit, LockTypeOK
<1>2. hot \in State \union {NoState} /\ arc \in State \union {NoState}
    BY OldStates DEF Init
<1> QED
    BY <1>1, <1>2 DEF Init, TypeInv, TypeOK, WorkLoaded, Working, PC

(* Every action preserves the types.                                       *)
LEMMA NextType == TypeInv /\ [Next]_vars => TypeInv'
<1> SUFFICES ASSUME TypeInv, [Next]_vars PROVE TypeInv'
    OBVIOUS
<1> USE LockAssumption DEF TypeInv, TypeOK, LockTypeOK, WorkLoaded, Goto, Forget, lockVars
<1>1. ASSUME NEW t \in Turn, Hydrate(t) \/ HydrateArchive(t) PROVE TypeInv'
    BY <1>1 DEF Hydrate, HydrateArchive, PC, Working
<1>2. ASSUME NEW t \in Turn, Lock(t) \/ SessionBusy(t) \/ LockLost(t) PROVE TypeInv'
    BY <1>2 DEF Lock, SessionBusy, LockLost, LockGranted, LockRefused, PC, Final, Working
<1>3. ASSUME NEW t \in Turn, Load(t) PROVE TypeInv'
    <2> DEFINE base == IF hot = NoState THEN NewState ELSE hot
    <2>1. base \in State
        BY OldStates
    <2>2. Merged(base, inp[t]) \in State
        BY <2>1, MergedState
    <2>3. work' = [work EXCEPT ![t] = Merged(base, inp[t])]
        BY <1>3 DEF Load
    <2> HIDE DEF base
    <2> QED
        BY <1>3, <2>2, <2>3 DEF Load, PC, Working
<1>4. ASSUME NEW t \in Turn, Security(t) PROVE TypeInv'
    <2>1. work[t] \in State
        BY <1>4 DEF Security, Working
    <2>2. Append(work[t], Human(t)) \in State
        BY <2>1, AppendState, Messages
    <2> DEFINE w == Append(work[t], Human(t))
    <2>3. work' = [work EXCEPT ![t] = w] \/ work' = work
        BY <1>4 DEF Security
    <2>4. w \in State
        BY <2>2
    <2> HIDE DEF w
    <2>5. work' \in [Turn -> State \union {NoState}] /\ work'[t] \in State
          /\ \A u \in Turn \ {t} : work'[u] = work[u]
        BY <2>1, <2>3, <2>4
    <2> QED
        BY <1>4, <2>5 DEF Security, PC, Working
<1>5. ASSUME NEW t \in Turn, Node(t) PROVE TypeInv'
    BY <1>5 DEF Node, PC, Working
<1>6. ASSUME NEW t \in Turn, Respond(t) PROVE TypeInv'
    <2>1. work[t] \in State
        BY <1>6 DEF Respond, Working
    <2> DEFINE w == Append(work[t], Answer(t))
    <2>2. w \in State
        BY <2>1, AppendState, Messages
    <2>3. work' = [work EXCEPT ![t] = w]
        BY <1>6 DEF Respond
    <2> HIDE DEF w
    <2>4. work' \in [Turn -> State \union {NoState}] /\ work'[t] \in State
          /\ \A u \in Turn \ {t} : work'[u] = work[u]
        BY <2>2, <2>3
    <2> QED
        BY <1>6, <2>4 DEF Respond, PC, Working
<1>7. ASSUME NEW t \in Turn, FinalPut(t) \/ Abort(t) PROVE TypeInv'
    BY <1>7 DEF FinalPut, Abort, PC, Working
<1>8. ASSUME NEW t \in Turn, Unlock(t) \/ UnlockLost(t) PROVE TypeInv'
    BY <1>8 DEF Unlock, UnlockLost, Unlocked, PC, Final, Working
<1>9. ASSUME NEW t \in Turn, Crash(t) PROVE TypeInv'
    BY <1>9 DEF Crash, PC, Final, Working
<1>10. CASE HotExpire \/ Tick
    BY <1>10 DEF HotExpire, Tick, LockTick
<1>11. CASE UNCHANGED vars
    BY <1>11 DEF vars, turnVars
<1> QED
    BY <1>1, <1>2, <1>3, <1>4, <1>5, <1>6, <1>7, <1>8, <1>9, <1>10, <1>11 DEF Next

(* Types of the session lock, the turns, the checkpoint and the archive    *)
(* hold in every reachable state: session_cache.py, runner.py, hydrate.py, *)
(* archive.py.                                                             *)
THEOREM TypeCorrect == Spec => []TypeOK
<1>1. TypeInv => TypeOK
    BY DEF TypeInv
<1> QED
    BY <1>1, InitType, NextType, PTL DEF Spec

-----------------------------------------------------------------------------
(* The lock invariant is inductive on top of the types.                    *)
LockInv == TypeInv /\ LeasedHolderOwnsLock

LEMMA NextOwner == LockInv /\ [Next]_vars => LeasedHolderOwnsLock'
<1> SUFFICES ASSUME LockInv, [Next]_vars,
                    NEW u \in Turn, pc'[u] \in Inside, left'[u] > 0 \/ ~expires'
             PROVE  lock' = u
    BY DEF LeasedHolderOwnsLock, Leased
<1> USE LockAssumption DEF LockInv, TypeInv, TypeOK, LockTypeOK, LeasedHolderOwnsLock, Leased, Goto, Inside
<1>1. ASSUME NEW t \in Turn, Hydrate(t) \/ HydrateArchive(t) PROVE lock' = u
    BY <1>1 DEF Hydrate, HydrateArchive, lockVars
<1>2. ASSUME NEW t \in Turn, Lock(t) PROVE lock' = u
    BY <1>2 DEF Lock, LockGranted
<1>3. ASSUME NEW t \in Turn, SessionBusy(t) PROVE lock' = u
    BY <1>3 DEF SessionBusy, LockRefused, lockVars
<1>4. ASSUME NEW t \in Turn, LockLost(t) PROVE lock' = u
    BY <1>4 DEF LockLost, LockGranted
<1>5. ASSUME NEW t \in Turn,
             Load(t) \/ Security(t) \/ Node(t) \/ Respond(t) \/ FinalPut(t) \/ Abort(t)
      PROVE  lock' = u
    BY <1>5 DEF Load, Security, Node, Respond, FinalPut, Abort, lockVars
<1>6. ASSUME NEW t \in Turn, Unlock(t) PROVE lock' = u
    <2>1. u # t
        BY <1>6 DEF Unlock
    <2>2. pc[u] \in Inside /\ (left[u] > 0 \/ ~expires)
        BY <1>6, <2>1 DEF Unlock, Unlocked
    <2>3. lock = u
        BY <2>2
    <2>4. ~expires => lock = t
        BY <1>6 DEF Unlock
    <2> QED
        BY <1>6, <2>1, <2>3, <2>4 DEF Unlock, Unlocked
<1>7. ASSUME NEW t \in Turn, UnlockLost(t) PROVE lock' = u
    BY <1>7 DEF UnlockLost, lockVars
<1>8. ASSUME NEW t \in Turn, Crash(t) PROVE lock' = u
    <2>1. CASE expires
        BY <1>8, <2>1 DEF Crash, lockVars
    <2>2. CASE ~expires
        BY <1>8, <2>2 DEF Crash, Final
    <2> QED
        BY <2>1, <2>2
<1>9. CASE HotExpire
    BY <1>9 DEF HotExpire, lockVars
<1>10. CASE Tick
    <2>1. left[u] > 1 /\ lock = u
        BY <1>10 DEF Tick, LockTick
    <2> QED
        BY <1>10, <2>1 DEF Tick, LockTick
<1>11. CASE UNCHANGED vars
    BY <1>11 DEF vars, turnVars, lockVars
<1> QED
    BY <1>1, <1>2, <1>3, <1>4, <1>5, <1>6, <1>7, <1>8, <1>9, <1>10, <1>11 DEF Next

LEMMA LockInvariant == Spec => []LockInv
<1>1. Init => LockInv
    BY InitType DEF Init, LockInv, LeasedHolderOwnsLock, Leased, Inside
<1>2. LockInv /\ [Next]_vars => LockInv'
    BY NextType, NextOwner DEF LockInv
<1> QED
    BY <1>1, <1>2, PTL DEF Spec

(* For any number of turns and any ttl, a turn inside the session lock     *)
(* whose ttl has not run out owns the key: neither an expired holder's     *)
(* late release, nor a lost reply, nor a crash lets somebody else in       *)
(* (AsyncRedisSessionLock, AsyncDictSessionLock).                          *)
THEOREM LeasedHolderOwns == Spec => []LeasedHolderOwnsLock
<1>1. LockInv => LeasedHolderOwnsLock
    BY DEF LockInv
<1> QED
    BY <1>1, LockInvariant, PTL

-----------------------------------------------------------------------------
(* At most one turn is inside on a valid ttl.                              *)
LEMMA LeasedUnique ==
    ASSUME LockInv, NEW t \in Leased
    PROVE  Leased = {t} /\ InsideTurn = t /\ t \in Turn /\ lock = t
<1>1. \A u \in Leased : u = t
    BY DEF LockInv, LeasedHolderOwnsLock
<1>2. Leased = {t}
    BY <1>1
<1>3. t \in Turn /\ lock = t
    BY DEF LockInv, LeasedHolderOwnsLock, Leased
<1> QED
    BY <1>2, <1>3 DEF InsideTurn

(* No step but the grant of the lock adds a turn to the ones inside on a   *)
(* valid ttl.                                                              *)
LEMMA OnlyLockEnters ==
    ASSUME LockInv, [Next]_vars
    PROVE  \/ Leased' \subseteq Leased
           \/ \E t \in Turn : Lock(t)
<1> SUFFICES ASSUME \A t \in Turn : ~Lock(t), NEW u \in Leased' PROVE u \in Leased
    OBVIOUS
<1>0. u \in Turn /\ pc'[u] \in Inside /\ (left'[u] > 0 \/ ~expires')
    BY DEF Leased
<1> SUFFICES pc[u] \in Inside /\ (left[u] > 0 \/ ~expires)
    BY <1>0 DEF Leased
<1> USE <1>0, LockAssumption DEF LockInv, TypeInv, TypeOK, LockTypeOK, Goto, Inside, lockVars
<1>1. ASSUME NEW t \in Turn,
             \/ Hydrate(t) \/ HydrateArchive(t) \/ SessionBusy(t) \/ Load(t) \/ Security(t)
             \/ Node(t) \/ Respond(t) \/ FinalPut(t) \/ Abort(t) \/ UnlockLost(t)
      PROVE  pc[u] \in Inside /\ (left[u] > 0 \/ ~expires)
    BY <1>1 DEF Hydrate, HydrateArchive, SessionBusy, LockRefused, Load, Security, Node,
                Respond, FinalPut, Abort, UnlockLost
<1>2. ASSUME NEW t \in Turn, LockLost(t) PROVE pc[u] \in Inside /\ (left[u] > 0 \/ ~expires)
    BY <1>2 DEF LockLost, LockGranted
<1>3. ASSUME NEW t \in Turn, Unlock(t) PROVE pc[u] \in Inside /\ (left[u] > 0 \/ ~expires)
    BY <1>3 DEF Unlock, Unlocked
<1>4. ASSUME NEW t \in Turn, Crash(t) PROVE pc[u] \in Inside /\ (left[u] > 0 \/ ~expires)
    BY <1>4 DEF Crash, Final
<1>5. CASE HotExpire \/ Tick \/ UNCHANGED vars
    BY <1>5 DEF HotExpire, Tick, LockTick, vars, turnVars
<1> QED
    BY <1>1, <1>2, <1>3, <1>4, <1>5 DEF Next

(* Every step enters, leaves or does neither, as TurnMutex allows.         *)
LEMMA NextMutex ==
    ASSUME LockInv, LockInv', [Next]_vars
    PROVE  [Mutex!Next]_InsideTurn
<1>1. ASSUME NEW t \in Turn, Lock(t) PROVE Mutex!Enter(t)
    <2>1. Leased = {}
        BY <1>1, LockAssumption DEF Lock, LockGranted, LockInv, LeasedHolderOwnsLock, Leased
    <2>2. t \in Leased'
        BY <1>1, LockAssumption DEF Lock, LockGranted, Goto, Leased, Inside, LockInv, TypeInv,
                                    TypeOK, LockTypeOK
    <2>3. \A u \in Leased' : u = t
        BY <2>2 DEF LockInv, LeasedHolderOwnsLock
    <2>4. Leased' = {t}
        BY <2>2, <2>3
    <2> QED
        BY <2>1, <2>4 DEF InsideTurn, Mutex!Enter
<1>2. ASSUME Leased' \subseteq Leased PROVE [Mutex!Next]_InsideTurn
    <2>1. CASE Leased' = Leased
        BY <2>1 DEF InsideTurn
    <2>2. CASE Leased' # Leased
        <3>1. PICK t \in Leased : t \notin Leased'
            BY <1>2, <2>2
        <3>2. Leased = {t} /\ InsideTurn = t /\ t \in Turn
            BY <3>1, LeasedUnique
        <3>3. Leased' = {}
            BY <1>2, <3>1, <3>2
        <3>4. InsideTurn' = NoTurn
            BY <3>3 DEF InsideTurn
        <3> QED
            BY <3>2, <3>4 DEF Mutex!Next, Mutex!Leave
    <2> QED
        BY <2>1, <2>2
<1> QED
    BY <1>1, <1>2, OnlyLockEnters DEF Mutex!Next

(* The session lock gives what its docstring promises, mutual exclusion by *)
(* thread_id, for any number of turns: the in-process lock over the whole  *)
(* turn, the Redis lock until the ttl of the turn inside runs out.  The    *)
(* turns implement TurnMutex (AsyncRedisSessionLock, AsyncDictSessionLock, *)
(* _chat_turn_stream).                                                     *)
THEOREM TurnsImplementMutex == Spec => MutexSpec
<1>1. Init => Mutex!Init
    BY DEF Init, Mutex!Init, InsideTurn, Leased, Inside
<1>2. LockInv /\ LockInv' /\ [Next]_vars => [Mutex!Next]_InsideTurn
    BY NextMutex
<1> QED
    BY <1>1, <1>2, LockInvariant, PTL DEF Spec, MutexSpec, Mutex!Spec

-----------------------------------------------------------------------------
(* Until a turn overruns its ttl, every turn inside is inside on a valid   *)
(* one, and so is alone.                                                   *)
LeaseHeld == ~overran => \A t \in Turn : pc[t] \in Inside => t \in Leased

LEMMA NextLeaseHeld == LockInv /\ LeaseHeld /\ [Next]_vars => LeaseHeld'
<1> SUFFICES ASSUME LockInv, LeaseHeld, [Next]_vars, ~overran',
                    NEW u \in Turn, pc'[u] \in Inside
             PROVE  left'[u] > 0 \/ ~expires'
    BY DEF LeaseHeld, Leased
<1> USE LockAssumption DEF LockInv, TypeInv, TypeOK, LockTypeOK, LeaseHeld, Leased, Goto, Inside,
                           lockVars
<1>1. ASSUME NEW t \in Turn,
             \/ Hydrate(t) \/ HydrateArchive(t) \/ SessionBusy(t) \/ Load(t) \/ Security(t)
             \/ Node(t) \/ Respond(t) \/ FinalPut(t) \/ Abort(t) \/ UnlockLost(t)
      PROVE  left'[u] > 0 \/ ~expires'
    BY <1>1 DEF Hydrate, HydrateArchive, SessionBusy, LockRefused, Load, Security, Node,
                Respond, FinalPut, Abort, UnlockLost
<1>2. ASSUME NEW t \in Turn, Lock(t) \/ LockLost(t) PROVE left'[u] > 0 \/ ~expires'
    BY <1>2 DEF Lock, LockLost, LockGranted
<1>3. ASSUME NEW t \in Turn, Unlock(t) PROVE left'[u] > 0 \/ ~expires'
    BY <1>3 DEF Unlock, Unlocked
<1>4. ASSUME NEW t \in Turn, Crash(t) PROVE left'[u] > 0 \/ ~expires'
    BY <1>4 DEF Crash, Final
<1>5. CASE HotExpire \/ UNCHANGED vars
    BY <1>5 DEF HotExpire, vars, turnVars
<1>6. CASE Tick
    <2>1. ~\E t \in Turn : pc[t] \in Inside /\ left'[t] = 0
        BY <1>6 DEF Tick
    <2>2. pc[u] \in Inside
        BY <1>6 DEF Tick
    <2>3. left'[u] # 0
        BY <2>1, <2>2
    <2>4. left'[u] \in 0..LockTtl
        BY <1>6 DEF Tick, LockTick
    <2> QED
        BY <2>3, <2>4
<1> QED
    BY <1>1, <1>2, <1>3, <1>4, <1>5, <1>6 DEF Next

LEMMA InsideUnique ==
    ASSUME LockInv, LeaseHeld, ~overran,
           NEW t \in Turn, pc[t] \in Inside, NEW u \in Turn, pc[u] \in Inside
    PROVE  u = t
    BY DEF LockInv, LeasedHolderOwnsLock, LeaseHeld

(* The two histories are never forgotten.                                  *)
LEMMA HistoriesKept ==
    ASSUME LockInv, [Next]_vars, ~overran', ~dbFailed'
    PROVE  ~overran /\ ~dbFailed
<1>1. overran' = overran \/ Tick
    BY DEF Next, vars, turnVars, Hydrate, HydrateArchive, Lock, SessionBusy, LockLost, Load,
           Security, Node, Respond, FinalPut, Abort, Unlock, UnlockLost, Crash, HotExpire
<1>2. ~overran
    BY <1>1 DEF Tick, LockInv, TypeInv, TypeOK
<1>3. dbFailed' = dbFailed
    BY DEF Next, vars, turnVars, Hydrate, HydrateArchive, Lock, SessionBusy, LockLost, Load,
           Security, Node, Respond, FinalPut, Abort, Unlock, UnlockLost, Crash, HotExpire, Tick
<1> QED
    BY <1>2, <1>3

-----------------------------------------------------------------------------
(* Why a finished turn is not forgotten.  Whatever the next turn can load  *)
(* holds the answers of all finished turns: the archive, the checkpoint if *)
(* there is one, the channels of the turn that is inside, and the inputs a *)
(* turn was hydrated with if it will find no checkpoint.                   *)
Done == {t \in Turn : pc[t] = "done"}

Holds(s, D) == s # NoState /\ \A t \in D : Contains(s, Answer(t))

ArchiveKept == Holds(arc, Done)
HotKept == hot # NoState => Holds(hot, Done)
WorkKept == \A t \in Turn : pc[t] \in Working => Holds(work[t], Done)
InputsKept ==
    \A t \in Turn : pc[t] \in {"waiting", "load"} /\ hot = NoState => Holds(inp[t], Done)

(* A turn that has answered has its answer in the archive, and once the    *)
(* last checkpoint is written, in the checkpoint too.                      *)
AnswerStored ==
    \A t \in Turn :
        /\ pc[t] = "put" => Contains(work[t], Answer(t)) /\ Contains(arc, Answer(t))
        /\ pc[t] = "release" => Contains(hot, Answer(t)) /\ Contains(arc, Answer(t))

KeptInv == ArchiveKept /\ HotKept /\ WorkKept /\ InputsKept /\ AnswerStored

LEMMA AppendContains ==
    ASSUME NEW s \in State, NEW x \in Msg
    PROVE  LET a == Append(s, x)
           IN  /\ Contains(a, x)
               /\ \A m : Contains(s, m) => Contains(a, m)
<1> DEFINE a == Append(s, x)
<1>1. s \in Seq(Msg)
    BY DEF State
<1>2. a # NoState
    BY AppendState, StateAssumption
<1>3. Len(a) = Len(s) + 1 /\ Len(s) \in Nat /\ a[Len(s) + 1] = x
    BY <1>1, AppendProperties
<1>4. \A i \in 1..Len(s) : i \in 1..Len(a) /\ a[i] = s[i]
    BY <1>1, <1>3, AppendProperties
<1> HIDE DEF a
<1>5. Contains(a, x)
    BY <1>2, <1>3 DEF Contains
<1>6. \A m : Contains(s, m) => Contains(a, m)
    BY <1>2, <1>4 DEF Contains
<1> QED
    BY <1>5, <1>6 DEF a

(* Where the elements of two sequences are in their concatenation.         *)
LEMMA ConcatIndex ==
    ASSUME NEW S, NEW p \in Seq(S), NEW q \in Seq(S)
    PROVE  /\ \A i \in 1..Len(p) : i \in 1..Len(p \o q) /\ (p \o q)[i] = p[i]
           /\ \A i \in 1..Len(q) : Len(p) + i \in 1..Len(p \o q) /\ (p \o q)[Len(p) + i] = q[i]
<1> DEFINE n == Len(p)
           k == Len(q)
           r == p \o q
<1>1. n \in Nat /\ k \in Nat /\ Len(r) = n + k
    BY ConcatProperties
<1>2. \A i \in 1..(n + k) : r[i] = IF i <= n THEN p[i] ELSE q[i - n]
    BY ConcatProperties
<1> HIDE DEF n, k, r
<1>3. \A i \in 1..n : i \in 1..Len(r) /\ r[i] = p[i]
    BY <1>1, <1>2
<1>4. ASSUME NEW i \in 1..k PROVE n + i \in 1..Len(r) /\ r[n + i] = q[i]
    <2>1. n + i \in 1..(n + k) /\ ~(n + i <= n) /\ (n + i) - n = i
        BY <1>1
    <2> QED
        BY <1>1, <1>2, <2>1
<1> QED
    BY <1>3, <1>4 DEF n, k, r

LEMMA MergedContains ==
    ASSUME NEW s \in State, NEW g \in State \union {NoState}, NEW m,
           Contains(s, m) \/ Contains(g, m)
    PROVE  Contains(Merged(s, g), m)
<1>1. CASE g = NoState
    BY <1>1 DEF Contains, Merged
<1>2. CASE g # NoState
    <2>1. s \in Seq(Msg) /\ g \in Seq(Msg) /\ Merged(s, g) = s \o g
        BY <1>2 DEF State, Merged
    <2>2. s \o g # NoState
        BY <2>1, MergedState, StateAssumption
    <2>3. (\E i \in 1..Len(s) : s[i] = m) \/ (\E i \in 1..Len(g) : g[i] = m)
        BY DEF Contains
    <2>4. /\ \A i \in 1..Len(s) : i \in 1..Len(s \o g) /\ (s \o g)[i] = s[i]
          /\ \A i \in 1..Len(g) : Len(s) + i \in 1..Len(s \o g) /\ (s \o g)[Len(s) + i] = g[i]
        BY <2>1, ConcatIndex
    <2>5. \E i \in 1..Len(s \o g) : (s \o g)[i] = m
        BY <2>3, <2>4
    <2> QED
        BY <2>1, <2>2, <2>5 DEF Contains
<1> QED
    BY <1>1, <1>2

LEMMA InitKept == Init => KeptInv
<1> SUFFICES ASSUME Init PROVE KeptInv
    OBVIOUS
<1>1. Done = {}
    BY DEF Init, Done
<1>2. arc # NoState
    BY OldStates, StateAssumption DEF Init
<1> QED
    BY <1>1, <1>2 DEF Init, KeptInv, ArchiveKept, HotKept, WorkKept, InputsKept, AnswerStored,
                      Holds, Working

(* The steps of the turn that is inside: nobody else is.                   *)
LEMMA NextKept ==
    ASSUME LockInv, LeaseHeld, ~overran, ~dbFailed', KeptInv, [Next]_vars
    PROVE  KeptInv'
<1> DEFINE Alone(t) == \A u \in Turn \ {t} : pc[u] \notin Inside
<1>0. \A t \in Turn : pc[t] \in Inside => Alone(t)
    BY InsideUnique
<1> USE DEF KeptInv, ArchiveKept, HotKept, WorkKept, InputsKept, AnswerStored, Goto,
            LockInv, TypeInv, TypeOK
<1>1. ASSUME NEW t \in Turn, Hydrate(t) PROVE KeptInv'
    <2>1. Done' = Done
        BY <1>1 DEF Hydrate, Done
    <2> QED
        BY <1>1, <2>1 DEF Hydrate, Working, Holds, Contains
<1>2. ASSUME NEW t \in Turn, HydrateArchive(t) PROVE KeptInv'
    <2>1. Done' = Done
        BY <1>2 DEF HydrateArchive, Done
    <2> QED
        BY <1>2, <2>1 DEF HydrateArchive, Working, Holds, Contains
<1>3. ASSUME NEW t \in Turn, Lock(t) \/ SessionBusy(t) \/ LockLost(t) PROVE KeptInv'
    <2>1. Done' = Done
        BY <1>3 DEF Lock, SessionBusy, LockLost, Done
    <2>2. \A u \in Turn : /\ pc'[u] \in Working \union {"put", "release"} => pc'[u] = pc[u] /\ work'[u] = work[u]
                          /\ pc'[u] \in {"waiting", "load"} => pc[u] \in {"waiting", "load"} /\ inp'[u] = inp[u]
        BY <1>3 DEF Lock, SessionBusy, LockLost, Forget, Working
    <2>3. hot' = hot /\ arc' = arc
        BY <1>3 DEF Lock, SessionBusy, LockLost
    <2> QED
        BY <2>1, <2>2, <2>3
<1>4. ASSUME NEW t \in Turn, Load(t) PROVE KeptInv'
    <2> DEFINE base == IF hot = NoState THEN NewState ELSE hot
    <2>1. Done' = Done
        BY <1>4 DEF Load, Done
    <2>2. base \in State /\ inp[t] \in State \union {NoState}
        BY OldStates
    <2>3. \A u \in Done : Contains(base, Answer(u)) \/ Contains(inp[t], Answer(u))
        BY <1>4 DEF Load, Holds
    <2>4. Merged(base, inp[t]) # NoState
        BY <2>2, MergedState, StateAssumption
    <2>5. work'[t] = Merged(base, inp[t]) /\ \A u \in Turn \ {t} : work'[u] = work[u]
        BY <1>4 DEF Load
    <2> HIDE DEF base
    <2>6. Holds(work'[t], Done)
        BY <2>2, <2>3, <2>4, <2>5, MergedContains DEF Holds
    <2> QED
        BY <1>4, <2>1, <2>5, <2>6 DEF Load, Working, Holds, Contains
<1>5. ASSUME NEW t \in Turn, Security(t) \/ Node(t) PROVE KeptInv'
    <2>1. Done' = Done
        BY <1>5 DEF Security, Node, Done
    <2>2. Alone(t)
        BY <1>0, <1>5 DEF Security, Node, Inside
    <2>3. work[t] \in State /\ Holds(work[t], Done)
        BY <1>5 DEF Security, Node, WorkLoaded, Working
    <2> DEFINE said == Append(work[t], Human(t))
    <2>4. said # NoState
        BY <2>3, AppendState, Messages, StateAssumption
    <2>5. \A m : Contains(work[t], m) => Contains(said, m)
        BY <2>3, AppendContains, Messages
    <2>6. work'[t] \in {said, work[t]} /\ hot' = work'[t]
        BY <1>5 DEF Security, Node
    <2> HIDE DEF said
    <2>7. Holds(hot', Done) /\ Holds(work'[t], Done)
        BY <2>3, <2>4, <2>5, <2>6 DEF Holds
    <2>8. \A u \in Turn \ {t} : pc'[u] = pc[u] /\ pc[u] \notin Inside
        BY <1>5, <2>2 DEF Security, Node
    <2>9. pc'[t] \in {"node", "respond"} /\ arc' = arc
        BY <1>5 DEF Security, Node
    <2>10. \A u \in Turn : pc'[u] \in Working => u = t
        BY <2>8 DEF Inside, Working
    <2>11. \A u \in Turn : pc'[u] \notin {"put", "release"}
        BY <2>8, <2>9 DEF Inside
    <2>12. hot' # NoState
        BY <2>7 DEF Holds
    <2> QED
        BY <2>1, <2>7, <2>9, <2>10, <2>11, <2>12
<1>6. ASSUME NEW t \in Turn, Respond(t) PROVE KeptInv'
    <2>1. Done' = Done
        BY <1>6 DEF Respond, Done
    <2>2. Alone(t)
        BY <1>0, <1>6 DEF Respond, Inside
    <2>3. work[t] \in State /\ Holds(work[t], Done)
        BY <1>6 DEF Respond, WorkLoaded, Working
    <2> DEFINE said == Append(work[t], Answer(t))
    <2>4. said # NoState
        BY <2>3, AppendState, Messages, StateAssumption
    <2>5. Contains(said, Answer(t)) /\ \A m : Contains(work[t], m) => Contains(said, m)
        BY <2>3, AppendContains, Messages
    <2>6. work'[t] = said /\ arc' = said /\ hot' = hot /\ inp' = inp /\ pc'[t] = "put"
        BY <1>6 DEF Respond
    <2>7. \A u \in Turn \ {t} : pc'[u] = pc[u] /\ pc[u] \notin Inside
        BY <1>6, <2>2 DEF Respond
    <2> HIDE DEF said
    <2>8. Holds(said, Done)
        BY <2>3, <2>4, <2>5 DEF Holds
    <2>9. \A u \in Turn : pc'[u] \in Working \union {"release"} => u = t
        BY <2>7 DEF Inside, Working
    <2> QED
        BY <2>1, <2>5, <2>6, <2>7, <2>8, <2>9 DEF Working
<1>7. ASSUME NEW t \in Turn, FinalPut(t) PROVE KeptInv'
    <2>1. Done' = Done
        BY <1>7 DEF FinalPut, Done
    <2>2. Alone(t)
        BY <1>0, <1>7 DEF FinalPut, Inside
    <2>3. Holds(work[t], Done) /\ Contains(work[t], Answer(t)) /\ Contains(arc, Answer(t))
        BY <1>7 DEF FinalPut, Working
    <2>4. \A u \in Turn \ {t} : pc'[u] = pc[u] /\ pc[u] \notin Inside
        BY <1>7, <2>2 DEF FinalPut
    <2>5. hot' = work[t] /\ arc' = arc /\ pc'[t] = "release"
        BY <1>7 DEF FinalPut
    <2>6. \A u \in Turn : pc'[u] \notin Working /\ (pc'[u] = "release" => u = t)
        BY <2>4, <2>5 DEF Inside, Working
    <2>7. hot' # NoState
        BY <2>3, <2>5 DEF Holds
    <2>8. \A u \in Turn : pc'[u] # "put"
        BY <2>6 DEF Working
    <2> QED
        BY <2>1, <2>3, <2>5, <2>6, <2>7, <2>8
<1>8. ASSUME NEW t \in Turn, Abort(t) PROVE KeptInv'
    <2>1. Done' = Done
        BY <1>8 DEF Abort, Done
    <2> QED
        BY <1>8, <2>1 DEF Abort, Forget, Working, Holds, Contains
<1>9. ASSUME NEW t \in Turn, Unlock(t) \/ UnlockLost(t) PROVE KeptInv'
    <2>1. Alone(t)
        BY <1>0, <1>9 DEF Unlock, UnlockLost, Inside
    <2>2. \A u \in Turn \ {t} : pc'[u] = pc[u] /\ pc[u] \notin Inside
        BY <1>9, <2>1 DEF Unlock, UnlockLost
    <2>3. \A u \in Turn : pc'[u] \notin Inside
        BY <1>9, <2>2 DEF Unlock, UnlockLost, Inside
    <2>4. hot' = hot /\ arc' = arc /\ \A u \in Turn \ {t} : inp'[u] = inp[u]
        BY <1>9 DEF Unlock, UnlockLost, Forget
    <2>5. \A u \in Turn : pc'[u] \notin Working \union {"put", "release"}
        BY <2>3 DEF Inside, Working
    <2>6. CASE pc[t] = "release"
        <3>1. Done' = Done \union {t}
            BY <1>9, <2>6 DEF Unlock, UnlockLost, Done
        <3>2. Contains(hot, Answer(t)) /\ Contains(arc, Answer(t)) /\ hot # NoState
            BY <2>6 DEF Contains
        <3>3. Holds(arc', Done') /\ Holds(hot', Done')
            BY <2>4, <3>1, <3>2 DEF Holds
        <3> QED
            BY <2>4, <2>5, <3>2, <3>3
    <2>7. CASE pc[t] # "release"
        <3>1. Done' = Done /\ pc'[t] = "failed"
            BY <1>9, <2>7 DEF Unlock, UnlockLost, Done
        <3> QED
            BY <2>2, <2>4, <2>5, <3>1
    <2> QED
        BY <2>6, <2>7
<1>10. ASSUME NEW t \in Turn, Crash(t) PROVE KeptInv'
    <2>1. Done' = Done
        BY <1>10 DEF Crash, Final, Done
    <2>2. CASE expires
        <3>1. hot' = hot /\ arc' = arc /\ pc'[t] = "failed"
            BY <1>10, <2>2 DEF Crash
        <3>2. \A u \in Turn \ {t} : pc'[u] = pc[u] /\ work'[u] = work[u] /\ inp'[u] = inp[u]
            BY <1>10, <2>2 DEF Crash, Forget
        <3> QED
            BY <2>1, <3>1, <3>2 DEF Working
    <2>3. CASE ~expires
        <3>1. \A u \in Turn : pc'[u] \in Final \union {"idle"}
            BY <1>10, <2>3 DEF Crash, Final
        <3> QED
            BY <1>10, <2>1, <2>3, <3>1 DEF Crash, Final, Working
    <2> QED
        BY <2>2, <2>3
<1>11. CASE HotExpire
    <2>1. Done' = Done
        BY <1>11 DEF HotExpire, Done
    <2> QED
        BY <1>11, <2>1 DEF HotExpire, Final, Working
<1>12. CASE Tick \/ UNCHANGED vars
    BY <1>12 DEF Tick, LockTick, turnVars, vars, Done
<1> QED
    BY <1>1, <1>2, <1>3, <1>4, <1>5, <1>6, <1>7, <1>8, <1>9, <1>10, <1>11, <1>12 DEF Next

(* For any number of turns and either lock: as long as no turn outlives    *)
(* its ttl and no database call fails, a turn whose done event was sent is *)
(* never dropped from the conversation, however hydration outside the      *)
(* lock, failed reads of the checkpoint, its expiry, lost releases,        *)
(* aborted turns and crashes interleave (runner.py, hydrate.py,            *)
(* archive.py, session_cache.py).                                          *)
THEOREM FinishedTurnsKept == Spec => []CompletedTurnsKept
<1> DEFINE Inv == LeaseHeld /\ (~overran /\ ~dbFailed => KeptInv)
<1>1. Init => Inv
    BY InitKept DEF Init, LeaseHeld, Inside
<1>2. LockInv /\ Inv /\ [Next]_vars => Inv'
    BY NextLeaseHeld, NextKept, HistoriesKept
<1>3. Inv => CompletedTurnsKept
    BY DEF KeptInv, ArchiveKept, HotKept, Holds, Done, CompletedTurnsKept
<1> HIDE DEF Inv
<1> QED
    BY <1>1, <1>2, <1>3, LockInvariant, PTL DEF Spec
=============================================================================
