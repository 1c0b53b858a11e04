-------------------------- MODULE CheckpointSaver --------------------------
(***************************************************************************)
(* The checkpointer of one conversation: CachedInMemorySaver in            *)
(* app/session_cache.py over the shared session cache.                     *)
(*                                                                         *)
(* Every operation reads the conversation's whole value from the cache,    *)
(* replaces the process's working copy by it, applies itself, prunes the   *)
(* copy to the newest checkpoint, and writes the whole value back.  On the *)
(* asynchronous path the read and the write are awaits; between them the   *)
(* event loop runs nothing else, so that stretch is one step here.  The    *)
(* synchronous path is the same with the saver's lock held throughout.     *)
(*                                                                         *)
(* LangGraph, which is not part of the repository, is modelled by how it   *)
(* calls the saver: it chains the put of a superstep to the put before,    *)
(* submits put_writes beside them without waiting, and waits for all of    *)
(* them at the end of the run.  The session lock keeps two runs apart.     *)
(*                                                                         *)
(* A channel's value is its version, the checkpoint in which it changed.   *)
(***************************************************************************)
EXTENDS Naturals, FiniteSets

CONSTANTS
    Op,         \* operations in flight
    Proc,       \* worker processes
    Channel,    \* channels of the graph's state
    NoProc,     \* no process
    NoValue,    \* the key does not exist
    Junk,       \* a value decode_checkpoint_blob cannot read
    MaxCp       \* bound on checkpoint ids

Checkpoint == [id : Nat, ver : [Channel -> Nat]]
Payload == [cps : SUBSET Checkpoint, writes : SUBSET (Nat \X Op),
            blobs : SUBSET (Channel \X Nat)]
Value == Payload \union {NoValue, Junk}

ASSUME SaverAssumption ==
    /\ NoValue \notin Payload /\ Junk \notin Payload /\ NoValue # Junk
    /\ NoProc \notin Proc /\ MaxCp \in Nat

VARIABLES
    cache,      \* the value under cs:session:{thread_id}
    mem,        \* per process: storage, writes and blobs of the thread
    pc,         \* where each operation is
    kind,       \* what it is
    proc,       \* the process that runs it
    cp,         \* the checkpoint it puts, or whose writes it puts
    raw,        \* the value it read
    out,        \* the value it writes back
    run,        \* the graph run: "idle", "loading", "running"
    home,       \* the process of the run
    ver,        \* the run's channel versions
    issued,     \* id of the last checkpoint the run put
    stored,     \* history: the checkpoint this run loaded or whose put returned last
    written,    \* history: put_writes of this run that returned
    overlapped, \* history: two operations that write were in flight at once
    vanished    \* history: the value disappeared during a run

opVars == <<pc, kind, proc, cp, raw, out>>
runVars == <<run, home, ver, issued>>
histories == <<stored, written, overlapped, vanished>>
vars == <<cache, mem, opVars, runVars, histories>>

Blank == [c \in Channel |-> 0]
NoCp == [id |-> 0, ver |-> Blank]
EmptyCopy == [cps |-> {}, writes |-> {}, blobs |-> {}]

Init ==
    /\ cache \in {NoValue, Junk}
    /\ mem = [p \in Proc |-> EmptyCopy]
    /\ pc = [a \in Op |-> "idle"]
    /\ kind = [a \in Op |-> "get"]
    /\ proc = [a \in Op |-> NoProc]
    /\ cp = [a \in Op |-> NoCp]
    /\ raw = [a \in Op |-> NoValue]
    /\ out = [a \in Op |-> NoValue]
    /\ run = "idle" /\ home = NoProc /\ ver = Blank /\ issued = 0
    /\ stored = NoCp /\ written = {}
    /\ overlapped = FALSE /\ vanished = FALSE

Goto(a, there) == pc' = [pc EXCEPT ![a] = there]
Writing(a) == pc[a] # "idle" /\ kind[a] \in {"put", "writes"}

Starts(a, k, p, c) ==
    /\ pc[a] = "idle"
    /\ Goto(a, "get")
    /\ kind' = [kind EXCEPT ![a] = k]
    /\ proc' = [proc EXCEPT ![a] = p]
    /\ cp' = [cp EXCEPT ![a] = c]
    /\ UNCHANGED <<cache, mem, raw, out>>

(* The locals of the operations that end.                                  *)
Ended(ops) ==
    /\ pc' = [a \in Op |-> IF a \in ops THEN "idle" ELSE pc[a]]
    /\ kind' = [a \in Op |-> IF a \in ops THEN "get" ELSE kind[a]]
    /\ proc' = [a \in Op |-> IF a \in ops THEN NoProc ELSE proc[a]]
    /\ cp' = [a \in Op |-> IF a \in ops THEN NoCp ELSE cp[a]]
    /\ raw' = [a \in Op |-> IF a \in ops THEN NoValue ELSE raw[a]]
    /\ out' = [a \in Op |-> IF a \in ops THEN NoValue ELSE out[a]]

RunEnded ==
    /\ run' = "idle" /\ home' = NoProc /\ ver' = Blank
    /\ stored' = NoCp /\ written' = {}

-----------------------------------------------------------------------------
(* aget_tuple from outside a run: acheckpoint_exists, before the lock.     *)
Probe(a) ==
    /\ \E p \in Proc : Starts(a, "get", p, NoCp)
    /\ UNCHANGED <<runVars, histories>>

(* The run that holds the session lock starts with aget_tuple.             *)
StartRun(a) ==
    /\ run = "idle" /\ run' = "loading"
    /\ \E p \in Proc : Starts(a, "load", p, NoCp) /\ home' = p
    /\ UNCHANGED <<ver, issued, histories>>

Overlaps == overlapped' = (overlapped \/ \E b \in Op : Writing(b))

(* The put of a superstep that changed the channels in `changed`.          *)
StartPut(a) ==
    /\ run = "running" /\ issued < MaxCp
    /\ \A b \in Op : Writing(b) => kind[b] # "put"
    /\ issued' = issued + 1
    /\ \E changed \in SUBSET Channel \ {{}} :
        /\ ver' = [c \in Channel |-> IF c \in changed THEN issued + 1 ELSE ver[c]]
        /\ Starts(a, "put", home, [id |-> issued + 1, ver |-> ver'])
    /\ Overlaps
    /\ UNCHANGED <<run, home, stored, written, vanished>>

(* The writes of a finished task, for the checkpoint it started from.      *)
StartWrites(a) ==
    /\ run = "running" /\ issued > 0
    /\ Starts(a, "writes", home, [id |-> issued, ver |-> ver])
    /\ Overlaps
    /\ UNCHANGED <<runVars, stored, written, vanished>>

-----------------------------------------------------------------------------
(* _aload: the value, if any; a value that was read has its ttl renewed.   *)
Get(a) ==
    /\ pc[a] = "get"
    /\ raw' = [raw EXCEPT ![a] = cache]
    /\ Goto(a, IF cache = Junk THEN "discard" ELSE "work")
    /\ UNCHANGED <<cache, mem, kind, proc, cp, out, runVars, histories>>

(* The value could not be decoded: the key is deleted.                     *)
Discard(a) ==
    /\ pc[a] = "discard"
    /\ cache' = NoValue
    /\ raw' = [raw EXCEPT ![a] = NoValue]
    /\ vanished' = (vanished \/ cache \notin {NoValue, Junk})
    /\ Goto(a, "work")
    /\ UNCHANGED <<mem, kind, proc, cp, out, runVars, stored, written, overlapped>>

Bug_Reloaded(copy, read) ==
    IF read = NoValue THEN copy
    ELSE [cps |-> copy.cps \union read.cps, writes |-> copy.writes \union read.writes,
          blobs |-> copy.blobs \union read.blobs]

(* _evict_thread, then the decoded value becomes the working copy.         *)
Reloaded(copy, read) == IF read = NoValue THEN EmptyCopy ELSE read

(* InMemorySaver.put: the checkpoint and the blobs of changed channels.    *)
WithCheckpoint(copy, c) ==
    [copy EXCEPT !.cps = @ \union {c},
                 !.blobs = @ \union {<<h, c.ver[h]>> : h \in {x \in Channel : c.ver[x] = c.id}}]

WithWrites(copy, c, a) == [copy EXCEPT !.writes = @ \union {<<c.id, a>>}]

Bug_Newest(cps) == {c \in cps : \A d \in cps : c.id <= d.id}

Newest(cps) == {c \in cps : \A d \in cps : d.id <= c.id}

Bug_Pruned(copy) ==
    LET kept == Newest(copy.cps)
    IN  IF copy.cps = {} THEN copy
        ELSE [cps |-> kept,
              writes |-> {w \in copy.writes : \E c \in kept : c.id = w[1]},
              blobs |-> {b \in copy.blobs : \E c \in kept : c.id = b[2]}]

(* _prune_thread: the newest checkpoint, its writes, the blobs of its      *)
(* channel versions.                                                       *)
Pruned(copy) ==
    LET kept == Newest(copy.cps)
    IN  IF copy.cps = {} THEN copy
        ELSE [cps |-> kept,
              writes |-> {w \in copy.writes : \E c \in kept : c.id = w[1]},
              blobs |-> {b \in copy.blobs : \E c \in kept : c.ver[b[1]] = b[2]}]

Loaded(a) == Reloaded(mem[proc[a]], raw[a])

(* get_tuple over the working copy.  The run takes its channels from it.   *)
Read(a) ==
    /\ pc[a] = "work" /\ kind[a] \in {"get", "load"}
    /\ mem' = [mem EXCEPT ![proc[a]] = Loaded(a)]
    /\ \/ kind[a] = "get" /\ UNCHANGED <<run, ver, stored>>
       \/ /\ kind[a] = "load" /\ run' = "running"
          /\ \/ Loaded(a).cps = {} /\ ver' = Blank /\ stored' = NoCp
             \/ \E c \in Newest(Loaded(a).cps) : ver' = c.ver /\ stored' = c
    /\ Ended({a})
    /\ UNCHANGED <<cache, home, issued, written, overlapped, vanished>>

(* put and put_writes up to the await of _apersist.                        *)
Apply(a) ==
    LET copy == Pruned(IF kind[a] = "put" THEN WithCheckpoint(Loaded(a), cp[a])
                       ELSE WithWrites(Loaded(a), cp[a], a))
    IN  /\ pc[a] = "work" /\ kind[a] \in {"put", "writes"}
        /\ mem' = [mem EXCEPT ![proc[a]] = copy]
        /\ out' = [out EXCEPT ![a] = IF copy.cps = {} THEN NoValue ELSE copy]
        /\ Goto(a, "set")
        /\ UNCHANGED <<cache, kind, proc, cp, raw, runVars, histories>>

(* aset, or adelete when there is no checkpoint; then _evict_thread.       *)
Persist(a) ==
    /\ pc[a] = "set"
    /\ cache' = out[a]
    /\ mem' = [mem EXCEPT ![proc[a]] = EmptyCopy]
    /\ IF kind[a] = "put" THEN stored' = cp[a] /\ UNCHANGED written
       ELSE written' = written \union {<<cp[a].id, a>>} /\ UNCHANGED stored
    /\ Ended({a})
    /\ UNCHANGED <<runVars, overlapped, vanished>>

(* All futures of the run are done.                                        *)
EndRun ==
    /\ run = "running" /\ \A a \in Op : ~Writing(a)
    /\ RunEnded
    /\ UNCHANGED <<cache, mem, opVars, issued, overlapped, vanished>>

(* A cache call raises or the turn is cancelled: every operation of the    *)
(* run ends, a write that was sent may still be executed.                  *)
AbortRun ==
    /\ run # "idle" /\ RunEnded
    /\ \/ UNCHANGED cache
       \/ \E a \in Op : pc[a] = "set" /\ cache' = out[a]
    /\ Ended({a \in Op : Writing(a) \/ kind[a] = "load"})
    /\ UNCHANGED <<mem, issued, overlapped, vanished>>

(* The ttl passes, or Redis evicts the key.                                *)
Expire ==
    /\ cache # NoValue /\ cache' = NoValue
    /\ vanished' = (vanished \/ run # "idle")
    /\ UNCHANGED <<mem, opVars, runVars, stored, written, overlapped>>

(* adelete_thread                                                          *)
DeleteThread(p) ==
    /\ cache' = NoValue
    /\ mem' = [mem EXCEPT ![p] = EmptyCopy]
    /\ vanished' = (vanished \/ run # "idle")
    /\ UNCHANGED <<opVars, runVars, stored, written, overlapped>>

Next ==
    \/ \E a \in Op :
        \/ Probe(a) \/ StartRun(a) \/ StartPut(a) \/ StartWrites(a)
        \/ Get(a) \/ Discard(a) \/ Read(a) \/ Apply(a) \/ Persist(a)
    \/ EndRun \/ AbortRun \/ Expire
    \/ \E p \in Proc : DeleteThread(p)

Spec == Init /\ [][Next]_vars

-----------------------------------------------------------------------------
TypeOK ==
    /\ cache \in Value
    /\ mem \in [Proc -> Payload]
    /\ pc \in [Op -> {"idle", "get", "discard", "work", "set"}]
    /\ kind \in [Op -> {"get", "load", "put", "writes"}]
    /\ proc \in [Op -> Proc \union {NoProc}]
    /\ cp \in [Op -> Checkpoint]
    /\ raw \in [Op -> Value] /\ out \in [Op -> Value]
    /\ run \in {"idle", "loading", "running"} /\ home \in Proc \union {NoProc}
    /\ ver \in [Channel -> Nat] /\ issued \in Nat
    /\ stored \in Checkpoint /\ written \in SUBSET (Nat \X Op)
    /\ overlapped \in BOOLEAN /\ vanished \in BOOLEAN

(* A checkpoint in the cache can be restored in full: the blob of every    *)
(* channel version it names is stored beside it, also of the channels that *)
(* last changed many checkpoints ago, as long as the saver's writes never  *)
(* overlapped and the value did not vanish during a run.  _prune_thread    *)
BlobsComplete ==
    ~overlapped /\ ~vanished /\ cache \notin {NoValue, Junk} =>
        \A c \in cache.cps : \A h \in Channel :
            c.ver[h] # 0 => <<h, c.ver[h]>> \in cache.blobs

(* Under the same condition the cache holds the checkpoint whose put       *)
(* returned last and every write that was acknowledged for it: a later     *)
(* write-back never takes the conversation back.  _apersist                *)
NothingTakenBack ==
    ~overlapped /\ ~vanished /\ run = "running" /\ stored # NoCp =>
        /\ cache \notin {NoValue, Junk} /\ cache.cps = {stored}
        /\ {w \in written : w[1] = stored.id} \subseteq cache.writes

(* The working copy of a process never shows: a run starts from what it    *)
(* fetched from the shared cache, or from nothing if there was nothing,    *)
(* whatever reads and aborted writes left behind in its process.  _aload   *)
RunsFromShared ==
    [][\A a \in Op : kind[a] = "load" /\ run' = "running" =>
        IF raw[a] = NoValue THEN ver' = Blank
        ELSE \E c \in raw[a].cps : ver' = c.ver]_vars
=============================================================================
