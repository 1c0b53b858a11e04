------------------------ MODULE CheckpointSaverProofs ------------------------
(***************************************************************************)
(* Proofs about CheckpointSaver, for any number of operations, processes   *)
(* and channels and without a bound on the checkpoints.                    *)
(***************************************************************************)
EXTENDS CheckpointSaver, TLAPS

-----------------------------------------------------------------------------
(* Shape of the values.                                                    *)
LEMMA Constants ==
    /\ Blank \in [Channel -> Nat] /\ NoCp \in Checkpoint /\ EmptyCopy \in Payload
    /\ EmptyCopy.cps = {}
    BY DEF Blank, NoCp, Checkpoint, EmptyCopy, Payload

LEMMA LoadedTyped ==
    ASSUME NEW copy \in Payload, NEW read \in Payload \union {NoValue}
    PROVE  Reloaded(copy, read) \in Payload
    BY Constants DEF Reloaded

LEMMA AppliedTyped ==
    ASSUME NEW copy \in Payload, NEW c \in Checkpoint, NEW a \in Op
    PROVE  WithCheckpoint(copy, c) \in Payload /\ WithWrites(copy, c, a) \in Payload
<1>1. c.id \in Nat /\ \A h \in Channel : c.ver[h] \in Nat
    BY DEF Checkpoint
<1>2. {<<h, c.ver[h]>> : h \in {x \in Channel : c.ver[x] = c.id}} \subseteq Channel \X Nat
    BY <1>1
<1>3. WithCheckpoint(copy, c) \in Payload
    BY <1>2 DEF WithCheckpoint, Payload
<1>4. WithWrites(copy, c, a) \in Payload
    BY <1>1 DEF WithWrites, Payload
<1> QED
    BY <1>3, <1>4

LEMMA PrunedTyped ==
    ASSUME NEW copy \in Payload
    PROVE  /\ Pruned(copy) \in Payload
           /\ Pruned(copy).cps = Newest(copy.cps)
           /\ Newest(copy.cps) \subseteq copy.cps
    BY DEF Pruned, Payload, Newest

(* What Apply computes.                                                    *)
Applied(a) ==
    Pruned(IF kind[a] = "put" THEN WithCheckpoint(Loaded(a), cp[a])
           ELSE WithWrites(Loaded(a), cp[a], a))

(* An operation in flight has a process; what it read is no longer junk    *)
(* when it works; no value in the cache or on its way there is without a   *)
(* checkpoint.                                                             *)
Filled(value) == value \in Payload => value.cps # {}

OpInv ==
    /\ \A a \in Op : pc[a] # "idle" => proc[a] \in Proc
    /\ \A a \in Op : pc[a] = "work" => raw[a] # Junk
    /\ \A a \in Op : Filled(raw[a]) /\ Filled(out[a])
    /\ Filled(cache)
    /\ run # "idle" => home \in Proc

SaverInv == TypeOK /\ OpInv

(* The operations of a run: one load while it starts, puts and writes      *)
(* while it runs.                                                          *)
RunInv ==
    /\ \A a \in Op : kind[a] = "load" => run = "loading" /\ pc[a] # "idle"
    /\ \A a \in Op : kind[a] \in {"put", "writes"} => run = "running" /\ pc[a] # "idle"
    /\ \A a, b \in Op : kind[a] = "load" /\ kind[b] = "load" => a = b

LEMMA InitRun == Init => RunInv
    BY DEF Init, RunInv

LEMMA NextRun == TypeOK /\ RunInv /\ [Next]_vars => RunInv'
<1> SUFFICES ASSUME TypeOK, RunInv, [Next]_vars PROVE RunInv'
    OBVIOUS
<1> USE DEF runVars, histories, opVars, Goto
<1>1. ASSUME NEW a \in Op, Probe(a) PROVE RunInv'
    <2>1. /\ \A b \in Op : b # a => kind'[b] = kind[b] /\ pc'[b] = pc[b]
          /\ kind'[a] = "get" /\ UNCHANGED run
        BY <1>1 DEF Probe, Starts, TypeOK
    <2> QED
        BY <2>1 DEF RunInv
<1>2. ASSUME NEW a \in Op, StartRun(a) PROVE RunInv'
    <2>1. /\ \A b \in Op : b # a => kind'[b] = kind[b] /\ pc'[b] = pc[b]
          /\ kind'[a] = "load" /\ pc'[a] = "get" /\ run = "idle" /\ run' = "loading"
        BY <1>2 DEF StartRun, Starts, TypeOK
    <2> QED
        BY <2>1 DEF RunInv
<1>3. ASSUME NEW a \in Op, StartPut(a) \/ StartWrites(a) PROVE RunInv'
    <2>1. /\ \A b \in Op : b # a => kind'[b] = kind[b] /\ pc'[b] = pc[b]
          /\ kind'[a] \in {"put", "writes"} /\ pc'[a] = "get" /\ run = "running" /\ UNCHANGED run
        BY <1>3 DEF StartPut, StartWrites, Starts, TypeOK
    <2> QED
        BY <2>1 DEF RunInv
<1>4. ASSUME NEW a \in Op, Get(a) \/ Discard(a) \/ Apply(a) PROVE RunInv'
    <2>1. UNCHANGED <<kind, run>> /\ \A b \in Op : pc[b] # "idle" => pc'[b] # "idle"
        BY <1>4 DEF Get, Discard, Apply, TypeOK
    <2> QED
        BY <2>1 DEF RunInv
<1>5. ASSUME NEW a \in Op, Read(a) PROVE RunInv'
    <2>1. /\ \A b \in Op : b # a => kind'[b] = kind[b] /\ pc'[b] = pc[b]
          /\ kind'[a] = "get"
          /\ (kind[a] = "get" /\ run' = run) \/ kind[a] = "load"
        BY <1>5 DEF Read, Ended, TypeOK
    <2> QED
        BY <2>1 DEF RunInv
<1>6. ASSUME NEW a \in Op, Persist(a) PROVE RunInv'
    <2>1. /\ \A b \in Op : b # a => kind'[b] = kind[b] /\ pc'[b] = pc[b]
          /\ kind'[a] = "get" /\ UNCHANGED run
        BY <1>6 DEF Persist, Ended, TypeOK
    <2> QED
        BY <2>1 DEF RunInv
<1>7. CASE EndRun
    BY <1>7 DEF EndRun, RunEnded, RunInv, Writing
<1>8. CASE AbortRun
    <2>1. \A b \in Op : kind'[b] = "get"
        BY <1>8 DEF AbortRun, Ended, Writing, RunInv, TypeOK
    <2> QED
        BY <2>1 DEF RunInv
<1>9. ASSUME Expire \/ \E p \in Proc : DeleteThread(p) PROVE RunInv'
    BY <1>9 DEF Expire, DeleteThread, RunInv
<1>10. CASE UNCHANGED vars
    BY <1>10 DEF vars, RunInv
<1> QED
    BY <1>1, <1>2, <1>3, <1>4, <1>5, <1>6, <1>7, <1>8, <1>9, <1>10 DEF Next

LEMMA InitSaver == Init => SaverInv
<1> SUFFICES ASSUME Init PROVE SaverInv
    OBVIOUS
<1>1. TypeOK
    BY Constants DEF Init, TypeOK, Value
<1>2. OpInv
    BY SaverAssumption DEF Init, OpInv, Filled
<1> QED
    BY <1>1, <1>2 DEF SaverInv

LEMMA AppliedShape ==
    ASSUME SaverInv, NEW a \in Op, pc[a] = "work"
    PROVE  Loaded(a) \in Payload /\ Applied(a) \in Payload
<1>1. mem[proc[a]] \in Payload /\ raw[a] \in Payload \union {NoValue} /\ cp[a] \in Checkpoint
    BY DEF SaverInv, OpInv, TypeOK, Value
<1>2. Loaded(a) \in Payload
    BY <1>1, LoadedTyped DEF Loaded
<1> QED
    BY <1>1, <1>2, AppliedTyped, PrunedTyped DEF Applied

LEMMA EndedSaver ==
    ASSUME SaverInv, NEW ops \in SUBSET Op, Ended(ops), cache' \in Value, Filled(cache'),
           mem' \in [Proc -> Payload],
           run' \in {"idle", "loading", "running"}, home' \in Proc \union {NoProc},
           run' # "idle" => home' \in Proc, ver' \in [Channel -> Nat], issued' \in Nat,
           stored' \in Checkpoint, written' \in SUBSET (Nat \X Op),
           overlapped' \in BOOLEAN, vanished' \in BOOLEAN
    PROVE  SaverInv'
<1> USE DEF SaverInv
<1>1. TypeOK'
    <2>1. /\ pc' \in [Op -> {"idle", "get", "discard", "work", "set"}]
          /\ kind' \in [Op -> {"get", "load", "put", "writes"}]
        BY DEF Ended, TypeOK
    <2>2. proc' \in [Op -> Proc \union {NoProc}] /\ cp' \in [Op -> Checkpoint]
        BY Constants DEF Ended, TypeOK
    <2>3. raw' \in [Op -> Value] /\ out' \in [Op -> Value]
        BY DEF Ended, TypeOK, Value
    <2> QED
        BY <2>1, <2>2, <2>3 DEF TypeOK
<1>2. OpInv'
    <2>1. ASSUME NEW b \in Op
          PROVE  /\ pc'[b] # "idle" => proc'[b] \in Proc
                 /\ pc'[b] = "work" => raw'[b] # Junk
                 /\ Filled(raw'[b]) /\ Filled(out'[b])
        BY SaverAssumption DEF Ended, OpInv, Filled
    <2> QED
        BY <2>1 DEF OpInv, Filled
<1> QED
    BY <1>1, <1>2

LEMMA StartsSaver ==
    ASSUME SaverInv, NEW a \in Op, NEW k \in {"get", "load", "put", "writes"}, NEW p \in Proc,
           NEW c \in Checkpoint, Starts(a, k, p, c),
           run' \in {"idle", "loading", "running"}, home' \in Proc \union {NoProc},
           run' # "idle" => home' \in Proc, ver' \in [Channel -> Nat], issued' \in Nat,
           stored' \in Checkpoint, written' \in SUBSET (Nat \X Op),
           overlapped' \in BOOLEAN, vanished' \in BOOLEAN
    PROVE  SaverInv'
<1> USE DEF SaverInv, Goto
<1>1. TypeOK'
    BY DEF Starts, TypeOK
<1>2. OpInv'
    <2>1. ASSUME NEW b \in Op
          PROVE  /\ pc'[b] # "idle" => proc'[b] \in Proc
                 /\ pc'[b] = "work" => raw'[b] # Junk
        BY DEF Starts, OpInv, TypeOK
    <2> QED
        BY <2>1 DEF Starts, OpInv, Filled
<1> QED
    BY <1>1, <1>2

LEMMA NextSaver == SaverInv /\ RunInv /\ [Next]_vars => SaverInv'
<1> SUFFICES ASSUME SaverInv, RunInv, [Next]_vars PROVE SaverInv'
    OBVIOUS
<1> USE DEF runVars, histories, Goto
<1>t. TypeOK /\ OpInv
    BY DEF SaverInv
<1>1. ASSUME NEW a \in Op, Probe(a) PROVE SaverInv'
    BY <1>1, <1>t, Constants, StartsSaver DEF Probe, TypeOK, OpInv
<1>2. ASSUME NEW a \in Op, StartRun(a) PROVE SaverInv'
    BY <1>2, <1>t, Constants, StartsSaver DEF StartRun, TypeOK
<1>3. ASSUME NEW a \in Op, StartPut(a) PROVE SaverInv'
    <2>1. PICK changed \in SUBSET Channel \ {{}} :
                /\ ver' = [c \in Channel |-> IF c \in changed THEN issued + 1 ELSE ver[c]]
                /\ Starts(a, "put", home, [id |-> issued + 1, ver |-> ver'])
        BY <1>3 DEF StartPut
    <2>2. ver' \in [Channel -> Nat] /\ issued' \in Nat
        BY <1>3, <1>t, <2>1 DEF StartPut, TypeOK
    <2>3. [id |-> issued + 1, ver |-> ver'] \in Checkpoint /\ home \in Proc
        BY <1>3, <1>t, <2>2 DEF StartPut, TypeOK, OpInv, Checkpoint
    <2>4. overlapped' \in BOOLEAN
        BY <1>3, <1>t DEF StartPut, Overlaps, TypeOK
    <2> QED
        BY <1>3, <1>t, <2>1, <2>2, <2>3, <2>4, StartsSaver DEF StartPut, TypeOK
<1>4. ASSUME NEW a \in Op, StartWrites(a) PROVE SaverInv'
    <2>1. [id |-> issued, ver |-> ver] \in Checkpoint /\ home \in Proc
        BY <1>4, <1>t DEF StartWrites, TypeOK, OpInv, Checkpoint
    <2>2. overlapped' \in BOOLEAN
        BY <1>4, <1>t DEF StartWrites, Overlaps, TypeOK
    <2> QED
        BY <1>4, <1>t, <2>1, <2>2, StartsSaver DEF StartWrites, TypeOK
<1>5. ASSUME NEW a \in Op, Get(a) PROVE SaverInv'
    <2>1. TypeOK'
        BY <1>5, <1>t DEF Get, TypeOK
    <2>2. OpInv'
        BY <1>5, <1>t DEF Get, OpInv, TypeOK, Filled
    <2> QED
        BY <2>1, <2>2 DEF SaverInv
<1>6. ASSUME NEW a \in Op, Discard(a) PROVE SaverInv'
    <2>1. vanished' \in BOOLEAN
        BY <1>6, <1>t DEF Discard, TypeOK
    <2>2. TypeOK'
        BY <1>6, <1>t, <2>1 DEF Discard, TypeOK, Value
    <2>3. OpInv'
        BY <1>6, <1>t, SaverAssumption DEF Discard, OpInv, TypeOK, Filled
    <2> QED
        BY <2>2, <2>3 DEF SaverInv
<1>7. ASSUME NEW a \in Op, Read(a) PROVE SaverInv'
    <2>1. Loaded(a) \in Payload /\ proc[a] \in Proc
        BY <1>7, <1>t, AppliedShape DEF Read, OpInv
    <2>2. mem' \in [Proc -> Payload]
        BY <1>7, <1>t, <2>1 DEF Read, TypeOK
    <2>3. \A c \in Newest(Loaded(a).cps) : c \in Checkpoint /\ c.ver \in [Channel -> Nat]
        BY <2>1 DEF Newest, Payload, Checkpoint
    <2>4. /\ run' \in {run, "running"} /\ ver' \in [Channel -> Nat] /\ stored' \in Checkpoint
        BY <1>7, <1>t, <2>3, Constants DEF Read, TypeOK
    <2>5. run' # "idle" => home' \in Proc
        <3>1. CASE kind[a] = "get"
            BY <1>7, <1>t, <3>1 DEF Read, OpInv
        <3>2. CASE kind[a] = "load"
            BY <1>7, <1>t, <3>2 DEF Read, OpInv, RunInv
        <3> QED
            BY <1>7, <3>1, <3>2 DEF Read
    <2> QED
        BY <1>7, <1>t, <2>2, <2>4, <2>5, EndedSaver DEF Read, TypeOK, OpInv
<1>8. ASSUME NEW a \in Op, Apply(a) PROVE SaverInv'
    <2>1. Applied(a) \in Payload /\ proc[a] \in Proc /\ pc[a] = "work"
        BY <1>8, <1>t, AppliedShape DEF Apply, OpInv
    <2>2. /\ mem' = [mem EXCEPT ![proc[a]] = Applied(a)]
          /\ out' = [out EXCEPT ![a] = IF Applied(a).cps = {} THEN NoValue ELSE Applied(a)]
        BY <1>8 DEF Apply, Applied
    <2> HIDE DEF Applied
    <2>3. TypeOK'
        BY <1>8, <1>t, <2>1, <2>2 DEF Apply, TypeOK, Value
    <2>4. \A b \in Op : Filled(out'[b])
        BY <1>t, <2>1, <2>2, SaverAssumption DEF Filled, TypeOK, OpInv
    <2>5. OpInv'
        BY <1>8, <1>t, <2>1, <2>4 DEF Apply, OpInv, TypeOK, Filled
    <2> QED
        BY <2>3, <2>5 DEF SaverInv
<1>9. ASSUME NEW a \in Op, Persist(a) PROVE SaverInv'
    <2>1. mem' \in [Proc -> Payload]
        BY <1>9, <1>t, Constants DEF Persist, TypeOK
    <2>2. cp[a] \in Checkpoint /\ <<cp[a].id, a>> \in Nat \X Op
        BY <1>t DEF TypeOK, Checkpoint
    <2>3. stored' \in Checkpoint /\ written' \in SUBSET (Nat \X Op)
        BY <1>9, <1>t, <2>2 DEF Persist, TypeOK
    <2>4. cache' \in Value /\ Filled(cache')
        BY <1>9, <1>t DEF Persist, TypeOK, OpInv
    <2> QED
        BY <1>9, <1>t, <2>1, <2>3, <2>4, EndedSaver DEF Persist, TypeOK, OpInv
<1>10. CASE EndRun
    <2>1. TypeOK'
        BY <1>10, <1>t, Constants DEF EndRun, RunEnded, TypeOK, opVars
    <2>2. OpInv'
        BY <1>10, <1>t DEF EndRun, RunEnded, OpInv, Filled, opVars
    <2> QED
        BY <2>1, <2>2 DEF SaverInv
<1>11. CASE AbortRun
    <2>1. cache' \in Value /\ Filled(cache')
        BY <1>11, <1>t DEF AbortRun, TypeOK, OpInv
    <2>2. run' = "idle" /\ home' = NoProc /\ ver' = Blank /\ stored' = NoCp /\ written' = {}
        BY <1>11 DEF AbortRun, RunEnded
    <2> QED
        BY <1>11, <1>t, <2>1, <2>2, Constants, EndedSaver DEF AbortRun, TypeOK
<1>12. CASE Expire
    <2>1. TypeOK'
        BY <1>12, <1>t DEF Expire, TypeOK, Value, opVars
    <2>2. OpInv'
        BY <1>12, <1>t, SaverAssumption DEF Expire, OpInv, Filled, opVars
    <2> QED
        BY <2>1, <2>2 DEF SaverInv
<1>13. ASSUME NEW p \in Proc, DeleteThread(p) PROVE SaverInv'
    <2>1. TypeOK'
        BY <1>13, <1>t, Constants DEF DeleteThread, TypeOK, Value, opVars
    <2>2. OpInv'
        BY <1>13, <1>t, SaverAssumption DEF DeleteThread, OpInv, Filled, opVars
    <2> QED
        BY <2>1, <2>2 DEF SaverInv
<1>14. CASE UNCHANGED vars
    <2>1. TypeOK'
        BY <1>14, <1>t DEF vars, TypeOK, opVars
    <2>2. OpInv'
        BY <1>14, <1>t DEF vars, OpInv, Filled, opVars
    <2> QED
        BY <2>1, <2>2 DEF SaverInv
<1> QED
    BY <1>1, <1>2, <1>3, <1>4, <1>5, <1>6, <1>7, <1>8, <1>9, <1>10, <1>11, <1>12, <1>13, <1>14
    DEF Next

LEMMA AlwaysSaver == Spec => [](SaverInv /\ RunInv)
<1>1. SaverInv => TypeOK
    BY DEF SaverInv
<1> QED
    BY <1>1, InitSaver, InitRun, NextSaver, NextRun, PTL DEF Spec

(* The variables of the saver keep their types.                            *)
THEOREM TypeCorrect == Spec => []TypeOK
<1>1. SaverInv => TypeOK
    BY DEF SaverInv
<1> QED
    BY <1>1, AlwaysSaver, PTL

-----------------------------------------------------------------------------
(* A run starts from what it read from the shared cache and never from     *)
(* what its process still had in memory.  _aload, _evict_thread            *)
THEOREM RunStartsFromShared == Spec => RunsFromShared
<1> DEFINE FromRead(a) ==
        kind[a] = "load" /\ run' = "running" =>
            IF raw[a] = NoValue THEN ver' = Blank
            ELSE \E c \in raw[a].cps : ver' = c.ver
<1>1. SaverInv /\ RunInv /\ Next => \A a \in Op : FromRead(a)
    <2> SUFFICES ASSUME SaverInv, RunInv, Next, NEW a \in Op, kind[a] = "load", run' = "running"
                 PROVE  IF raw[a] = NoValue THEN ver' = Blank
                        ELSE \E c \in raw[a].cps : ver' = c.ver
        OBVIOUS
    <2>1. run = "loading" /\ \A b \in Op : kind[b] = "load" => b = a
        BY DEF RunInv
    <2>2. Read(a)
        BY <2>1 DEF Next, Probe, StartRun, StartPut, StartWrites, Get, Discard, Read, Apply,
                    Persist, EndRun, AbortRun, RunEnded, Expire, DeleteThread, runVars
    <2>3. \/ Loaded(a).cps = {} /\ ver' = Blank
          \/ \E c \in Newest(Loaded(a).cps) : ver' = c.ver
        BY <2>2 DEF Read
    <2>4. CASE raw[a] = NoValue
        BY <2>3, <2>4, Constants DEF Loaded, Reloaded, Newest
    <2>5. CASE raw[a] # NoValue
        <3>1. raw[a] \in Payload /\ raw[a].cps # {}
            BY <2>2, <2>5 DEF Read, SaverInv, OpInv, TypeOK, Value, Filled
        <3>2. Loaded(a) = raw[a]
            BY <2>5 DEF Loaded, Reloaded
        <3> QED
            BY <2>3, <2>5, <3>1, <3>2 DEF Newest
    <2> QED
        BY <2>4, <2>5
<1>2. SaverInv /\ RunInv /\ [Next]_vars => [\A a \in Op : FromRead(a)]_vars
    BY <1>1
<1> QED
    BY <1>2, AlwaysSaver, PTL DEF Spec, RunsFromShared

-----------------------------------------------------------------------------
(* The conversation as long as the saver's writes do not overlap and the   *)
(* value does not vanish during a run.                                     *)
Complete(value) ==
    \A c \in value.cps : \A h \in Channel : c.ver[h] # 0 => <<h, c.ver[h]>> \in value.blobs

LEMMA PutShape ==
    ASSUME NEW copy \in Payload, NEW c \in Checkpoint, NEW prev \in Checkpoint,
           copy.cps \subseteq {prev}, prev.id < c.id, Complete(copy),
           \A h \in Channel : c.ver[h] = c.id \/ c.ver[h] = prev.ver[h],
           copy.cps = {} => \A h \in Channel : prev.ver[h] = 0
    PROVE  /\ Pruned(WithCheckpoint(copy, c)).cps = {c}
           /\ Complete(Pruned(WithCheckpoint(copy, c)))
<1> DEFINE full == WithCheckpoint(copy, c)
           new == Pruned(full)
<1>1. /\ full.cps = copy.cps \union {c}
      /\ full.blobs = copy.blobs \union {<<h, c.ver[h]>> : h \in {x \in Channel : c.ver[x] = c.id}}
    BY DEF WithCheckpoint, Payload
<1>2. c.id \in Nat /\ prev.id \in Nat
    BY DEF Checkpoint
<1>3. Newest(full.cps) = {c}
    BY <1>1, <1>2 DEF Newest
<1>4. new.cps = {c} /\ new.blobs = {b \in full.blobs : c.ver[b[1]] = b[2]}
    BY <1>1, <1>3 DEF Pruned
<1> HIDE DEF full, new
<1>5. ASSUME NEW h \in Channel, c.ver[h] # 0 PROVE <<h, c.ver[h]>> \in new.blobs
    <2>1. CASE c.ver[h] = c.id
        BY <1>1, <1>4, <2>1
    <2>2. CASE c.ver[h] # c.id
        <3>1. c.ver[h] = prev.ver[h] /\ prev \in copy.cps
            BY <1>5, <2>2
        <3>2. <<h, c.ver[h]>> \in copy.blobs
            BY <1>5, <3>1 DEF Complete
        <3> QED
            BY <1>1, <1>4, <3>2
    <2> QED
        BY <2>1, <2>2
<1> QED
    BY <1>4, <1>5 DEF Complete, new, full

LEMMA WritesShape ==
    ASSUME NEW copy \in Payload, NEW c \in Checkpoint, NEW a \in Op, NEW prev \in Checkpoint,
           copy.cps = {prev}, Complete(copy)
    PROVE  LET new == Pruned(WithWrites(copy, c, a))
           IN  /\ new.cps = {prev} /\ Complete(new)
               /\ {w \in copy.writes \union {<<c.id, a>>} : w[1] = prev.id} \subseteq new.writes
<1> DEFINE full == WithWrites(copy, c, a)
           new == Pruned(full)
<1>1. /\ full.cps = {prev} /\ full.blobs = copy.blobs
      /\ full.writes = copy.writes \union {<<c.id, a>>}
    BY DEF WithWrites, Payload
<1>2. Newest(full.cps) = {prev}
    BY <1>1 DEF Newest, Checkpoint
<1>3. /\ new.cps = {prev}
      /\ new.writes = {w \in full.writes : prev.id = w[1]}
      /\ new.blobs = {b \in full.blobs : prev.ver[b[1]] = b[2]}
    BY <1>1, <1>2 DEF Pruned
<1> HIDE DEF full, new
<1>4. ASSUME NEW h \in Channel, prev.ver[h] # 0 PROVE <<h, prev.ver[h]>> \in new.blobs
    <2>1. <<h, prev.ver[h]>> \in copy.blobs
        BY <1>4 DEF Complete
    <2> QED
        BY <1>1, <1>3, <2>1
<1> QED
    BY <1>1, <1>3, <1>4 DEF Complete, new, full

(* A value of the cache: one checkpoint of this or an earlier run.         *)
Sound(value) ==
    value \in Payload =>
        Complete(value) /\ \E c \in Checkpoint : value.cps = {c} /\ c.id <= issued

(* The cache is where the run believes it is.                              *)
Position ==
    /\ \/ /\ cache \in Payload /\ cache.cps = {stored}
          /\ {w \in written : w[1] = stored.id} \subseteq cache.writes
       \/ cache \notin Payload /\ stored = NoCp
    /\ stored.id <= issued
    /\ \A w \in written : w[1] <= issued
    /\ (\A a \in Op : kind[a] # "put") => ver = stored.ver

(* A put in flight is one superstep ahead of what is stored.               *)
PutInv(a) ==
    /\ cp[a].id = issued /\ cp[a].ver = ver /\ stored.id < issued
    /\ \A w \in written : w[1] < issued
    /\ \A h \in Channel : ver[h] = issued \/ ver[h] = stored.ver[h]
    /\ pc[a] = "set" => out[a] \in Payload /\ out[a].cps = {cp[a]} /\ Complete(out[a])

WritesInv(a) ==
    /\ cp[a].id <= issued
    /\ pc[a] = "set" =>
        \/ cache \notin Payload /\ out[a] = NoValue
        \/ /\ cache \in Payload /\ out[a] \in Payload
           /\ out[a].cps = {stored} /\ Complete(out[a])
           /\ {w \in written \union {<<cp[a].id, a>>} : w[1] = stored.id} \subseteq out[a].writes

(* One operation of the run at a time, and what it read is still there.    *)
Calm ==
    /\ \A a, b \in Op : kind[a] # "get" /\ kind[b] # "get" => a = b
    /\ \A a \in Op : kind[a] # "get" /\ pc[a] = "work" => raw[a] = cache
    /\ \A a \in Op : pc[a] = "set" => kind[a] \in {"put", "writes"}
    /\ Sound(cache)
    /\ run = "running" => Position
    /\ run # "running" => written = {}
    /\ \A a \in Op : kind[a] = "put" => PutInv(a)
    /\ \A a \in Op : kind[a] = "writes" => WritesInv(a)

CalmInv == ~overlapped /\ ~vanished => Calm

LEMMA InitCalm == Init => CalmInv
    BY SaverAssumption DEF Init, CalmInv, Calm, Sound

(* When no operation of the run is in flight only the cache matters.       *)
LEMMA RestCalm ==
    ASSUME \A b \in Op : kind'[b] = "get" /\ pc'[b] # "set", Sound(cache)',
           run' = "running" => Position', run' # "running" => written' = {}
    PROVE  Calm'
    BY DEF Calm

(* What Apply writes back.                                                 *)
LEMMA AppliedCalm ==
    ASSUME SaverInv, RunInv, Calm, NEW a \in Op, pc[a] = "work", kind[a] \in {"put", "writes"}
    PROVE  LET value == IF Applied(a).cps = {} THEN NoValue ELSE Applied(a)
           IN  /\ kind[a] = "put" =>
                    value \in Payload /\ value.cps = {cp[a]} /\ Complete(value)
               /\ kind[a] = "writes" =>
                    \/ cache \notin Payload /\ value = NoValue
                    \/ /\ cache \in Payload /\ value \in Payload
                       /\ value.cps = {stored} /\ Complete(value)
                       /\ {w \in written \union {<<cp[a].id, a>>} : w[1] = stored.id}
                            \subseteq value.writes
<1>1. /\ Loaded(a) \in Payload /\ Applied(a) \in Payload /\ cp[a] \in Checkpoint
      /\ stored \in Checkpoint /\ raw[a] = cache /\ run = "running" /\ cache \in Value
      /\ cache # Junk
    BY AppliedShape DEF Calm, RunInv, SaverInv, TypeOK, OpInv
<1>2. Position
    BY <1>1 DEF Calm
<1>3. CASE cache \in Payload
    <2>1. Loaded(a) = cache /\ cache.cps = {stored} /\ Complete(cache)
        BY <1>1, <1>2, <1>3, SaverAssumption DEF Loaded, Reloaded, Calm, Sound, Position
    <2>2. CASE kind[a] = "put"
        <3>1. PutInv(a)
            BY <2>2 DEF Calm
        <3>2. /\ stored.id < cp[a].id
              /\ \A h \in Channel : cp[a].ver[h] = cp[a].id \/ cp[a].ver[h] = stored.ver[h]
            BY <3>1 DEF PutInv
        <3>3. /\ Pruned(WithCheckpoint(cache, cp[a])).cps = {cp[a]}
              /\ Complete(Pruned(WithCheckpoint(cache, cp[a])))
            BY <1>1, <1>3, <2>1, <3>2, PutShape
        <3>4. Applied(a) = Pruned(WithCheckpoint(cache, cp[a]))
            BY <2>1, <2>2 DEF Applied
        <3> QED
            BY <1>1, <2>2, <3>3, <3>4
    <2>3. CASE kind[a] = "writes"
        <3>1. Applied(a) = Pruned(WithWrites(cache, cp[a], a))
            BY <2>1, <2>3 DEF Applied
        <3>2. /\ Applied(a).cps = {stored} /\ Complete(Applied(a))
              /\ {w \in cache.writes \union {<<cp[a].id, a>>} : w[1] = stored.id}
                    \subseteq Applied(a).writes
            BY <1>1, <1>3, <2>1, <3>1, WritesShape
        <3>3. {w \in written : w[1] = stored.id} \subseteq cache.writes
            BY <1>2, <1>3 DEF Position
        <3>4. {w \in written \union {<<cp[a].id, a>>} : w[1] = stored.id} \subseteq Applied(a).writes
            BY <3>2, <3>3
        <3> QED
            BY <1>1, <1>3, <2>3, <3>2, <3>4
    <2> QED
        BY <2>2, <2>3
<1>4. CASE cache \notin Payload
    <2>1. Loaded(a) = EmptyCopy /\ stored = NoCp /\ EmptyCopy.cps = {}
        BY <1>1, <1>2, <1>4, Constants DEF Loaded, Reloaded, Value, Position
    <2>2. CASE kind[a] = "put"
        <3>1. PutInv(a)
            BY <2>2 DEF Calm
        <3>2. /\ stored.id < cp[a].id
              /\ \A h \in Channel : cp[a].ver[h] = cp[a].id \/ cp[a].ver[h] = stored.ver[h]
              /\ \A h \in Channel : stored.ver[h] = 0
            BY <2>1, <3>1 DEF PutInv, NoCp, Blank
        <3>3. Complete(EmptyCopy)
            BY <2>1 DEF Complete
        <3>4. /\ Pruned(WithCheckpoint(EmptyCopy, cp[a])).cps = {cp[a]}
              /\ Complete(Pruned(WithCheckpoint(EmptyCopy, cp[a])))
            BY <1>1, <2>1, <3>2, <3>3, PutShape, Constants
        <3>5. Applied(a) = Pruned(WithCheckpoint(EmptyCopy, cp[a]))
            BY <2>1, <2>2 DEF Applied
        <3> QED
            BY <1>1, <2>2, <3>4, <3>5
    <2>3. CASE kind[a] = "writes"
        <3>1. Applied(a) = Pruned(WithWrites(EmptyCopy, cp[a], a))
            BY <2>1, <2>3 DEF Applied
        <3>2. WithWrites(EmptyCopy, cp[a], a).cps = {}
            BY DEF WithWrites, EmptyCopy
        <3>3. Applied(a).cps = {}
            BY <3>1, <3>2 DEF Pruned
        <3> QED
            BY <1>4, <2>3, <3>3
    <2> QED
        BY <2>2, <2>3
<1> QED
    BY <1>3, <1>4

(* A step that is not the run's: only operations of kind "get" move, the   *)
(* cache changes at most from junk to nothing.                             *)
LEMMA BystanderCalm ==
    ASSUME SaverInv, SaverInv', Calm, NEW a \in Op, kind[a] = "get", kind'[a] = "get",
           pc'[a] # "set",
           \A b \in Op : b # a => /\ pc'[b] = pc[b] /\ kind'[b] = kind[b] /\ raw'[b] = raw[b]
                                  /\ out'[b] = out[b] /\ cp'[b] = cp[b],
           UNCHANGED <<run, ver, issued, stored, written>>,
           cache' = cache \/ (cache \in {NoValue, Junk} /\ cache' = NoValue)
    PROVE  Calm'
<1>1. cache' \in Payload <=> cache \in Payload
    BY SaverAssumption
<1>2. cache' \in Payload => cache' = cache
    BY SaverAssumption
<1>3. \A b \in Op : kind'[b] # "get" => b # a /\ kind'[b] = kind[b]
    OBVIOUS
<1>4. \A b, c \in Op : kind'[b] # "get" /\ kind'[c] # "get" => b = c
    BY <1>3 DEF Calm
<1>5. ASSUME NEW b \in Op, kind'[b] # "get", pc'[b] = "work" PROVE raw'[b] = cache'
    <2>1. raw'[b] = raw[b] /\ raw[b] = cache /\ raw[b] # Junk
        BY <1>3, <1>5 DEF Calm, SaverInv, OpInv
    <2> QED
        BY <2>1
<1>6. \A b \in Op : pc'[b] = "set" => kind'[b] \in {"put", "writes"}
    BY DEF Calm
<1>7. Sound(cache)'
    BY <1>1, <1>2 DEF Calm, Sound, Complete
<1>8. run' = "running" => Position'
    <2>1. (\A b \in Op : kind'[b] # "put") => (\A b \in Op : kind[b] # "put")
        OBVIOUS
    <2> QED
        BY <1>1, <1>2, <2>1 DEF Calm, Position
<1>9. \A b \in Op : kind'[b] = "put" => PutInv(b)'
    BY <1>3 DEF Calm, PutInv, Complete
<1>10. \A b \in Op : kind'[b] = "writes" => WritesInv(b)'
    BY <1>1, <1>3 DEF Calm, WritesInv, Complete
<1> QED
    BY <1>4, <1>5, <1>6, <1>7, <1>8, <1>9, <1>10 DEF Calm

LEMMA NextCalm == SaverInv /\ SaverInv' /\ RunInv /\ RunInv' /\ CalmInv /\ [Next]_vars => CalmInv'
<1> SUFFICES ASSUME SaverInv, SaverInv', RunInv, RunInv', CalmInv, [Next]_vars,
                    ~overlapped', ~vanished'
             PROVE  Calm'
    BY DEF CalmInv
<1> USE DEF runVars, histories, opVars, Goto
<1>t. TypeOK /\ OpInv
    BY DEF SaverInv
<1>a. ~overlapped /\ ~vanished
    BY <1>t DEF TypeOK, Next, vars, Probe, StartRun, StartPut, StartWrites, Overlaps, Get, Discard,
                Read, Apply, Persist, EndRun, AbortRun, Expire, DeleteThread
<1>b. Calm
    BY <1>a DEF CalmInv
<1>c. run = "idle" => \A b \in Op : kind[b] = "get"
    BY <1>t DEF RunInv, TypeOK
<1>1. ASSUME NEW a \in Op, Probe(a) PROVE Calm'
    <2>1. kind[a] = "get"
        BY <1>1, <1>t DEF Probe, Starts, RunInv, TypeOK
    <2>2. /\ kind'[a] = "get" /\ pc'[a] = "get" /\ UNCHANGED cache
          /\ \A b \in Op : b # a => /\ pc'[b] = pc[b] /\ kind'[b] = kind[b] /\ raw'[b] = raw[b]
                                    /\ out'[b] = out[b] /\ cp'[b] = cp[b]
          /\ UNCHANGED <<run, ver, issued, stored, written>>
        BY <1>1, <1>t DEF Probe, Starts, TypeOK
    <2> QED
        BY <1>b, <2>1, <2>2, BystanderCalm
<1>2. ASSUME NEW a \in Op, StartRun(a) PROVE Calm'
    <2>1. /\ run = "idle" /\ run' = "loading" /\ UNCHANGED <<cache, issued, written>>
          /\ kind' = [kind EXCEPT ![a] = "load"] /\ pc' = [pc EXCEPT ![a] = "get"]
        BY <1>2 DEF StartRun, Starts
    <2>2. \A b \in Op : (kind'[b] # "get" => b = a) /\ kind'[b] \notin {"put", "writes"}
                        /\ pc'[b] # "set"
        BY <1>b, <1>c, <1>t, <2>1 DEF TypeOK, Calm
    <2>3. pc'[a] = "get"
        BY <1>t, <2>1 DEF TypeOK
    <2>4. Sound(cache)'
        BY <1>b, <2>1 DEF Calm, Sound, Complete
    <2> QED
        BY <1>b, <2>1, <2>2, <2>3, <2>4 DEF Calm
<1>d. ASSUME NEW a \in Op, StartPut(a) \/ StartWrites(a) PROVE \A b \in Op : kind[b] = "get" /\ pc[b] # "set"
    <2>1. run = "running" /\ \A b \in Op : ~Writing(b)
        BY <1>d DEF StartPut, StartWrites, Overlaps
    <2> QED
        BY <1>b, <1>t, <2>1 DEF Writing, RunInv, TypeOK, Calm
<1>3. ASSUME NEW a \in Op, StartPut(a) PROVE Calm'
    <2>1. PICK changed \in SUBSET Channel \ {{}} :
                /\ ver' = [c \in Channel |-> IF c \in changed THEN issued + 1 ELSE ver[c]]
                /\ Starts(a, "put", home, [id |-> issued + 1, ver |-> ver'])
        BY <1>3 DEF StartPut
    <2>2. /\ run = "running" /\ run' = "running" /\ issued' = issued + 1
          /\ UNCHANGED <<cache, stored, written>>
        BY <1>3, <2>1 DEF StartPut, Starts
    <2>3. /\ \A b \in Op : b # a => kind'[b] = "get" /\ pc'[b] # "set"
          /\ kind'[a] = "put" /\ pc'[a] = "get"
          /\ cp'[a].id = issued + 1 /\ cp'[a].ver = ver'
        BY <1>3, <1>d, <1>t, <2>1 DEF Starts, TypeOK
    <2>4. Position /\ ver = stored.ver
        BY <1>3, <1>b, <1>d, <2>2 DEF Calm, Position
    <2>5. /\ issued \in Nat /\ stored.id \in Nat /\ stored.ver \in [Channel -> Nat]
          /\ \A w \in written : w[1] \in Nat
        BY <1>t DEF TypeOK, Checkpoint
    <2>6. PutInv(a)'
        <3>1. \A h \in Channel : ver'[h] = issued' \/ ver'[h] = stored'.ver[h]
            BY <2>1, <2>2, <2>4, <2>5
        <3>2. stored'.id < issued' /\ \A w \in written' : w[1] < issued'
            BY <2>2, <2>4, <2>5 DEF Position
        <3> QED
            BY <2>2, <2>3, <3>1, <3>2 DEF PutInv
    <2>7. Position'
        <3>1. stored'.id <= issued' /\ \A w \in written' : w[1] <= issued'
            BY <2>2, <2>4, <2>5 DEF Position
        <3> QED
            BY <2>2, <2>3, <2>4, <3>1 DEF Position
    <2>8. Sound(cache)'
        BY <1>b, <2>2, <2>5 DEF Calm, Sound, Complete, Checkpoint
    <2> QED
        BY <2>2, <2>3, <2>6, <2>7, <2>8 DEF Calm
<1>4. ASSUME NEW a \in Op, StartWrites(a) PROVE Calm'
    <2>1. /\ run = "running" /\ run' = "running"
          /\ UNCHANGED <<cache, stored, written, issued, ver>>
          /\ \A b \in Op : b # a => kind'[b] = "get" /\ pc'[b] # "set"
          /\ kind'[a] = "writes" /\ pc'[a] = "get" /\ cp'[a].id = issued
        BY <1>4, <1>d, <1>t DEF StartWrites, Starts, TypeOK
    <2>2. Position /\ ver = stored.ver
        BY <1>4, <1>b, <1>d, <2>1 DEF Calm, Position
    <2>3. WritesInv(a)'
        BY <1>t, <2>1 DEF WritesInv, TypeOK
    <2>4. Position'
        BY <2>1, <2>2 DEF Position
    <2>5. Sound(cache)'
        BY <1>b, <2>1 DEF Calm, Sound, Complete
    <2> QED
        BY <2>1, <2>3, <2>4, <2>5 DEF Calm
<1>5. ASSUME NEW a \in Op, Get(a) PROVE Calm'
    <2>1. /\ pc[a] = "get" /\ pc'[a] \in {"work", "discard"} /\ raw'[a] = cache
          /\ \A b \in Op : b # a => pc'[b] = pc[b] /\ raw'[b] = raw[b]
          /\ UNCHANGED <<cache, kind, cp, out, run, ver, issued, stored, written>>
        BY <1>5, <1>t DEF Get, TypeOK
    <2>2. Sound(cache)' /\ (run' = "running" => Position')
        BY <1>b, <2>1 DEF Calm, Sound, Complete, Position
    <2>3. ASSUME NEW b \in Op PROVE (kind'[b] = "put" => PutInv(b)') /\ (kind'[b] = "writes" => WritesInv(b)')
        BY <1>b, <2>1 DEF Calm, PutInv, WritesInv, Complete
    <2> QED
        BY <1>b, <2>1, <2>2, <2>3 DEF Calm
<1>6. ASSUME NEW a \in Op, Discard(a) PROVE Calm'
    <2>1. /\ pc[a] = "discard" /\ pc'[a] = "work" /\ raw'[a] = NoValue /\ cache' = NoValue
          /\ \A b \in Op : b # a => pc'[b] = pc[b] /\ raw'[b] = raw[b]
          /\ UNCHANGED <<kind, cp, out, run, ver, issued, stored, written>>
        BY <1>6, <1>t DEF Discard, TypeOK
    <2>2. cache \in {NoValue, Junk}
        BY <1>6 DEF Discard
    <2>3. cache \notin Payload /\ cache' \notin Payload
        BY <2>1, <2>2, SaverAssumption
    <2>4. Sound(cache)' /\ (run' = "running" => Position')
        BY <1>b, <2>1, <2>3 DEF Calm, Sound, Position
    <2>5. ASSUME NEW b \in Op PROVE (kind'[b] = "put" => PutInv(b)') /\ (kind'[b] = "writes" => WritesInv(b)')
        BY <1>b, <2>1, <2>3 DEF Calm, PutInv, WritesInv, Complete
    <2>6. ASSUME NEW b \in Op, kind'[b] # "get", pc'[b] = "work" PROVE raw'[b] = cache'
        <3>1. CASE b = a
            BY <2>1, <3>1
        <3>2. CASE b # a
            <4>1. raw[b] = cache /\ raw[b] # Junk
                BY <1>b, <1>t, <2>1, <2>6, <3>2 DEF Calm, OpInv
            <4> QED
                BY <2>1, <2>2, <3>2, <4>1
        <3> QED
            BY <3>1, <3>2
    <2> QED
        BY <1>b, <2>1, <2>4, <2>5, <2>6 DEF Calm
<1>7. ASSUME NEW a \in Op, Read(a) PROVE Calm'
    <2>1. /\ pc[a] = "work" /\ pc'[a] = "idle" /\ kind'[a] = "get"
          /\ \A b \in Op : b # a => /\ pc'[b] = pc[b] /\ kind'[b] = kind[b] /\ raw'[b] = raw[b]
                                    /\ out'[b] = out[b] /\ cp'[b] = cp[b]
          /\ UNCHANGED <<cache, issued, written>>
        BY <1>7, <1>t DEF Read, Ended, TypeOK
    <2>2. CASE kind[a] = "get"
        <3>1. UNCHANGED <<run, ver, stored>>
            BY <1>7, <2>2 DEF Read
        <3> QED
            BY <1>b, <2>1, <2>2, <3>1, BystanderCalm
    <2>3. CASE kind[a] = "load"
        <3>1. /\ run = "loading" /\ run' = "running" /\ written = {}
              /\ \A b \in Op : kind'[b] = "get" /\ pc'[b] # "set"
              /\ raw[a] = cache /\ cache # Junk
            BY <1>7, <1>b, <1>t, <2>1, <2>3 DEF Read, RunInv, Calm, OpInv, TypeOK
        <3>2. \/ Loaded(a).cps = {} /\ ver' = Blank /\ stored' = NoCp
              \/ \E c \in Newest(Loaded(a).cps) : ver' = c.ver /\ stored' = c
            BY <1>7, <2>3 DEF Read
        <3>3. Sound(cache)'
            BY <1>b, <2>1 DEF Calm, Sound, Complete
        <3>4. CASE cache \in Payload
            <4>1. PICK c \in Checkpoint : cache.cps = {c} /\ c.id <= issued
                BY <1>b, <3>4 DEF Calm, Sound
            <4>2. Loaded(a) = cache
                BY <3>1, <3>4, SaverAssumption DEF Loaded, Reloaded
            <4>3. ver' = c.ver /\ stored' = c
                BY <3>2, <4>1, <4>2 DEF Newest
            <4>4. Position'
                BY <2>1, <3>1, <3>4, <4>1, <4>3 DEF Position
            <4> QED
                BY <3>1, <3>3, <4>4, RestCalm
        <3>5. CASE cache \notin Payload
            <4>1. cache = NoValue
                BY <1>t, <3>1, <3>5 DEF TypeOK, Value
            <4>2. Loaded(a).cps = {}
                BY <3>1, <4>1, Constants DEF Loaded, Reloaded
            <4>3. ver' = Blank /\ stored' = NoCp
                BY <3>2, <4>2 DEF Newest
            <4>4. NoCp.id = 0 /\ NoCp.ver = Blank
                BY DEF NoCp
            <4>5. Position'
                BY <1>t, <2>1, <3>1, <3>5, <4>3, <4>4 DEF Position, TypeOK
            <4> QED
                BY <3>1, <3>3, <4>5, RestCalm
        <3> QED
            BY <3>4, <3>5
    <2> QED
        BY <1>7, <2>2, <2>3 DEF Read
<1>8. ASSUME NEW a \in Op, Apply(a) PROVE Calm'
    <2> DEFINE value == IF Applied(a).cps = {} THEN NoValue ELSE Applied(a)
    <2>1. pc[a] = "work" /\ kind[a] \in {"put", "writes"}
        BY <1>8 DEF Apply
    <2>2. /\ kind[a] = "put" => value \in Payload /\ value.cps = {cp[a]} /\ Complete(value)
          /\ kind[a] = "writes" =>
                \/ cache \notin Payload /\ value = NoValue
                \/ /\ cache \in Payload /\ value \in Payload
                   /\ value.cps = {stored} /\ Complete(value)
                   /\ {w \in written \union {<<cp[a].id, a>>} : w[1] = stored.id} \subseteq value.writes
        BY <1>b, <2>1, AppliedCalm
    <2>3. out' = [out EXCEPT ![a] = value]
        BY <1>8 DEF Apply, Applied
    <2> HIDE DEF value
    <2>4. /\ pc'[a] = "set" /\ out'[a] = value
          /\ \A b \in Op : b # a => pc'[b] = pc[b] /\ out'[b] = out[b]
          /\ UNCHANGED <<cache, kind, cp, raw, run, ver, issued, stored, written>>
        BY <1>8, <1>t, <2>3 DEF Apply, TypeOK
    <2>5. \A b \in Op : b # a => kind[b] = "get"
        BY <1>b, <2>1 DEF Calm
    <2>6. kind[a] = "put" => PutInv(a)'
        <3>1. SUFFICES ASSUME kind[a] = "put" PROVE PutInv(a)'
            OBVIOUS
        <3>2. PutInv(a)
            BY <1>b, <3>1 DEF Calm
        <3>3. Complete(value)
            BY <2>2, <3>1
        <3> QED
            BY <2>2, <2>4, <3>1, <3>2, <3>3 DEF PutInv, Complete
    <2>7. kind[a] = "writes" => WritesInv(a)'
        <3>1. SUFFICES ASSUME kind[a] = "writes" PROVE WritesInv(a)'
            OBVIOUS
        <3>2. WritesInv(a)
            BY <1>b, <3>1 DEF Calm
        <3> QED
            BY <2>2, <2>4, <3>1, <3>2 DEF WritesInv, Complete
    <2>8. Sound(cache)' /\ (run' = "running" => Position')
        BY <1>b, <2>4 DEF Calm, Sound, Complete, Position
    <2> QED
        BY <1>b, <2>1, <2>4, <2>5, <2>6, <2>7, <2>8 DEF Calm
<1>e. ASSUME NEW a \in Op, pc[a] = "set" PROVE Sound(out[a])
    <2>1. run = "running" /\ Position /\ kind[a] \in {"put", "writes"}
        BY <1>b, <1>e DEF Calm, RunInv
    <2>2. cp[a] \in Checkpoint /\ stored \in Checkpoint /\ issued \in Nat /\ cp[a].id \in Nat
        BY <1>t DEF TypeOK, Checkpoint
    <2>3. CASE kind[a] = "put"
        BY <1>b, <1>e, <2>2, <2>3 DEF Calm, PutInv, Sound
    <2>4. CASE kind[a] = "writes"
        <3>1. WritesInv(a) /\ stored.id <= issued
            BY <1>b, <2>1, <2>4 DEF Calm, Position
        <3> QED
            BY <1>e, <2>2, <3>1, SaverAssumption DEF WritesInv, Sound
    <2> QED
        BY <2>1, <2>3, <2>4
<1>9. ASSUME NEW a \in Op, Persist(a) PROVE Calm'
    <2>1. run = "running" /\ Position /\ kind[a] \in {"put", "writes"} /\ pc[a] = "set"
        BY <1>9, <1>b DEF Persist, Calm, RunInv
    <2>2. /\ cache' = out[a] /\ UNCHANGED <<run, ver, issued>>
          /\ kind'[a] = "get" /\ pc'[a] = "idle"
          /\ \A b \in Op : b # a => kind'[b] = kind[b] /\ pc'[b] = pc[b]
        BY <1>9, <1>t DEF Persist, Ended, TypeOK
    <2>3. \A b \in Op : kind'[b] = "get" /\ pc'[b] # "set"
        BY <1>b, <2>1, <2>2 DEF Calm
    <2>4. Sound(cache)'
        BY <1>e, <2>1, <2>2 DEF Sound, Complete
    <2>5. issued \in Nat /\ cp[a].id \in Nat /\ \A w \in written : w[1] \in Nat
        BY <1>t DEF TypeOK, Checkpoint
    <2>6. CASE kind[a] = "put"
        <3>1. PutInv(a)
            BY <1>b, <2>6 DEF Calm
        <3>2. stored' = cp[a] /\ written' = written
            BY <1>9, <2>6 DEF Persist
        <3>3. {w \in written : w[1] = cp[a].id} = {}
            BY <2>5, <3>1 DEF PutInv
        <3>4. cp[a].id <= issued /\ (\A w \in written : w[1] <= issued) /\ ver = cp[a].ver
            BY <2>5, <3>1 DEF PutInv
        <3>5. cache' \in Payload /\ cache'.cps = {cp[a]}
            BY <2>1, <2>2, <3>1 DEF PutInv
        <3>6. Position'
            BY <2>2, <3>2, <3>3, <3>4, <3>5 DEF Position
        <3> QED
            BY <2>1, <2>2, <2>3, <2>4, <3>6, RestCalm
    <2>7. CASE kind[a] = "writes"
        <3>1. WritesInv(a)
            BY <1>b, <2>7 DEF Calm
        <3>2. stored' = stored /\ written' = written \union {<<cp[a].id, a>>}
            BY <1>9, <2>7 DEF Persist
        <3>3. stored.id <= issued /\ (\A w \in written' : w[1] <= issued)
            BY <2>1, <3>1, <3>2 DEF Position, WritesInv
        <3>4. ver = stored.ver
            <4>1. \A b \in Op : kind[b] # "put"
                BY <1>b, <2>7 DEF Calm
            <4> QED
                BY <2>1, <4>1 DEF Position
        <3>5. \/ cache' \notin Payload /\ stored = NoCp
              \/ /\ cache' \in Payload /\ cache'.cps = {stored}
                 /\ {w \in written' : w[1] = stored.id} \subseteq cache'.writes
            BY <2>1, <2>2, <3>1, <3>2, SaverAssumption DEF WritesInv, Position
        <3>6. Position'
            BY <2>2, <3>2, <3>3, <3>4, <3>5 DEF Position
        <3> QED
            BY <2>1, <2>2, <2>3, <2>4, <3>6, RestCalm
    <2> QED
        BY <2>1, <2>6, <2>7
<1>10. CASE EndRun
    <2>1. /\ \A b \in Op : kind'[b] = "get" /\ pc'[b] # "set"
          /\ run' = "idle" /\ written' = {} /\ UNCHANGED <<cache, issued>>
        BY <1>10, <1>b, <1>t DEF EndRun, RunEnded, Writing, RunInv, TypeOK, Calm
    <2>2. Sound(cache)'
        BY <1>b, <2>1 DEF Calm, Sound, Complete
    <2> QED
        BY <2>1, <2>2, RestCalm
<1>11. CASE AbortRun
    <2>1. \A b \in Op : kind'[b] = "get" /\ pc'[b] # "set"
        BY <1>11, <1>b, <1>t DEF AbortRun, Ended, Writing, RunInv, TypeOK, Calm
    <2>2. run' = "idle" /\ written' = {} /\ UNCHANGED issued
        BY <1>11 DEF AbortRun, RunEnded
    <2>3. cache' = cache \/ \E a \in Op : pc[a] = "set" /\ cache' = out[a]
        BY <1>11 DEF AbortRun
    <2>4. Sound(cache')
        BY <1>b, <1>e, <2>3 DEF Calm
    <2>5. Sound(cache)'
        BY <2>2, <2>4 DEF Sound, Complete
    <2> QED
        BY <2>1, <2>2, <2>5, RestCalm
<1>12. ASSUME Expire \/ \E p \in Proc : DeleteThread(p) PROVE Calm'
    <2>1. /\ run = "idle" /\ cache' = NoValue
          /\ UNCHANGED <<pc, kind, run, written>>
        BY <1>12 DEF Expire, DeleteThread
    <2>2. \A b \in Op : kind'[b] = "get" /\ pc'[b] # "set"
        BY <1>b, <1>c, <2>1 DEF Calm
    <2>3. Sound(cache)'
        BY <2>1, SaverAssumption DEF Sound
    <2> QED
        BY <1>b, <2>1, <2>2, <2>3, RestCalm DEF Calm
<1>13. CASE UNCHANGED vars
    BY <1>13, <1>b DEF vars, Calm, Sound, Complete, Position, PutInv, WritesInv
<1> QED
    BY <1>1, <1>2, <1>3, <1>4, <1>5, <1>6, <1>7, <1>8, <1>9, <1>10, <1>11, <1>12, <1>13 DEF Next

LEMMA AlwaysCalm == Spec => [](SaverInv /\ CalmInv)
    BY AlwaysSaver, InitCalm, NextCalm, PTL DEF Spec

(* Pruning never loses a blob that the kept checkpoint names, as long as   *)
(* writes do not overlap and the value does not vanish.  _prune_thread     *)
THEOREM CheckpointsComplete == Spec => []BlobsComplete
<1>1. SaverInv /\ CalmInv => BlobsComplete
    BY DEF SaverInv, TypeOK, Value, CalmInv, Calm, Sound, Complete, BlobsComplete
<1> QED
    BY <1>1, AlwaysCalm, PTL

(* Under the same condition no write-back takes the conversation back      *)
(* behind an acknowledged put or put_writes.  _apersist                    *)
THEOREM AcknowledgedStays == Spec => []NothingTakenBack
<1>1. SaverInv /\ CalmInv => NothingTakenBack
    BY SaverAssumption DEF CalmInv, Calm, Position, NothingTakenBack
<1> QED
    BY <1>1, AlwaysCalm, PTL
=============================================================================
