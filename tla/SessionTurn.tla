---------------------------- MODULE SessionTurn ----------------------------
(***************************************************************************)
(* Turns of one conversation (one thread_id): _chat_turn_stream in         *)
(* app/graph/runner.py, hydration in app/graph/hydrate.py, the hot         *)
(* checkpoint in CachedInMemorySaver and the cold archive in               *)
(* app/db/archive.py.                                                      *)
(*                                                                         *)
(* A turn first looks whether a hot checkpoint exists and, if not, copies  *)
(* the archive into its graph inputs; only then does it take the session   *)
(* lock.  Inside the lock the graph loads the checkpoint, merges the       *)
(* inputs, writes a checkpoint after every superstep, and its last node    *)
(* writes the archive before the last checkpoint.                          *)
(*                                                                         *)
(* A stored state is its message list; the session slots and the summary   *)
(* stored beside it are left out.  Messages decoded from the archive carry *)
(* no id, so add_messages appends them.                                    *)
(***************************************************************************)
EXTENDS SessionLock, Sequences

CONSTANTS
    Old,       \* the turns before the modelled ones, as one turn
    NoState,   \* no checkpoint, no archived row, nothing hydrated
    Faults     \* TRUE: Redis reads and releases, database calls may fail

ASSUME TurnAssumption == Old \notin Turn /\ Faults \in BOOLEAN

VARIABLES
    pc,       \* where each turn is
    inp,      \* the archived state merged into its graph inputs, or NoState
    work,     \* the channel values of its graph run
    hot,      \* the checkpoint in the session cache, or NoState
    arc,      \* the archived row, or NoState
    overran,  \* history: the ttl of a turn ran out while it was inside
    dbFailed  \* history: a call to the database failed

turnVars == <<pc, inp, work, hot, arc, overran, dbFailed>>
vars == <<lockVars, turnVars>>

Human(t) == <<"human", t>>
Answer(t) == <<"ai", t>>

Msg == {"human", "ai"} \X (Turn \union {Old})
State == Seq(Msg)

ASSUME StateAssumption == NoState \notin State

Final == {"done", "busy", "failed"}
PC == {"idle", "archive", "waiting", "load", "security", "node", "respond",
       "put", "release", "abort"} \union Final

(* Between entering and leaving `async with ahold_session`.                *)
Inside == {"load", "security", "node", "respond", "put", "release", "abort"}

OldState == <<Human(Old), Answer(Old)>>
NewState == <<>>

(* A session that has been used before: its checkpoint may have expired.   *)
Init ==
    /\ LockInit
    /\ pc = [t \in Turn |-> "idle"]
    /\ inp = [t \in Turn |-> NoState]
    /\ work = [t \in Turn |-> NoState]
    /\ hot \in {OldState, NoState}
    /\ arc = OldState
    /\ overran = FALSE
    /\ dbFailed = FALSE

Goto(t, there) == pc' = [pc EXCEPT ![t] = there]

(* The turn's inputs and channel values are locals: they end with it.      *)
Forget(t) ==
    /\ inp' = [inp EXCEPT ![t] = NoState]
    /\ work' = [work EXCEPT ![t] = NoState]

-----------------------------------------------------------------------------
(* acheckpoint_exists.  A failed read counts as a miss.                    *)
Hydrate(t) ==
    /\ pc[t] = "idle"
    /\ \/ hot # NoState /\ Goto(t, "waiting")
       \/ (hot = NoState \/ Faults) /\ Goto(t, "archive")
    /\ UNCHANGED <<lockVars, inp, work, hot, arc, overran, dbFailed>>

(* load_session_archive and _merge_archive.  A failed read is logged.      *)
HydrateArchive(t) ==
    /\ pc[t] = "archive"
    /\ \/ inp' = [inp EXCEPT ![t] = arc] /\ UNCHANGED dbFailed
       \/ Faults /\ dbFailed' = TRUE /\ UNCHANGED inp
    /\ Goto(t, "waiting")
    /\ UNCHANGED <<lockVars, work, hot, arc, overran>>

Lock(t) ==
    /\ pc[t] = "waiting"
    /\ LockGranted(t)
    /\ Goto(t, "load")
    /\ UNCHANGED <<inp, work, hot, arc, overran, dbFailed>>

SessionBusy(t) ==
    /\ pc[t] = "waiting"
    /\ LockRefused(t)
    /\ Goto(t, "busy")
    /\ Forget(t)
    /\ UNCHANGED <<hot, arc, overran, dbFailed>>

(* SET NX took effect but its caller was cancelled, or the reply was lost: *)
(* no finally clause knows the token.                                      *)
LockLost(t) ==
    /\ expires
    /\ pc[t] = "waiting"
    /\ LockGranted(t)
    /\ Goto(t, "failed")
    /\ Forget(t)
    /\ UNCHANGED <<hot, arc, overran, dbFailed>>

(* Graph inputs applied to the loaded channels: messages are appended.     *)
Merged(base, given) == IF given = NoState THEN base ELSE base \o given

(* graph.astream: aget_tuple, then the inputs.                             *)
Load(t) ==
    /\ pc[t] = "load"
    /\ work' = [work EXCEPT ![t] = Merged(IF hot = NoState THEN NewState ELSE hot, inp[t])]
    /\ inp' = [inp EXCEPT ![t] = NoState]
    /\ Goto(t, "security")
    /\ UNCHANGED <<lockVars, hot, arc, overran, dbFailed>>

(* security_node and its checkpoint: the user's message is appended, or    *)
(* the request is blocked and goes straight to respond.                    *)
Security(t) ==
    /\ pc[t] = "security"
    /\ \/ /\ work' = [work EXCEPT ![t] = Append(@, Human(t))]
          /\ Goto(t, "node")
       \/ /\ UNCHANGED work
          /\ Goto(t, "respond")
    /\ hot' = work'[t]
    /\ UNCHANGED <<lockVars, inp, arc, overran, dbFailed>>

(* router and then rag, tool, supervisor, chitchat or handoff, with their  *)
(* checkpoints, as one step: no node but security and respond appends      *)
(* messages.                                                               *)
Node(t) ==
    /\ pc[t] = "node"
    /\ hot' = work[t]
    /\ Goto(t, "respond")
    /\ UNCHANGED <<lockVars, inp, work, arc, overran, dbFailed>>

Bug_Respond(t) ==
    /\ pc[t] = "respond"
    /\ arc' = work[t]
    /\ work' = [work EXCEPT ![t] = Append(@, Answer(t))]
    /\ Goto(t, "put")
    /\ UNCHANGED <<lockVars, inp, hot, overran, dbFailed>>

(* respond_node: the answer is appended and the archive written; a failed  *)
(* write is only logged.                                                   *)
Respond(t) ==
    /\ pc[t] = "respond"
    /\ work' = [work EXCEPT ![t] = Append(@, Answer(t))]
    /\ \/ arc' = work'[t] /\ UNCHANGED dbFailed
       \/ Faults /\ dbFailed' = TRUE /\ UNCHANGED arc
    /\ Goto(t, "put")
    /\ UNCHANGED <<lockVars, inp, hot, overran>>

(* The checkpoint after respond; then the done event.                      *)
FinalPut(t) ==
    /\ pc[t] = "put"
    /\ hot' = work[t]
    /\ Goto(t, "release")
    /\ UNCHANGED <<lockVars, inp, work, arc, overran, dbFailed>>

(* Quota or breaker fallback, an error, or the client is gone.             *)
Abort(t) ==
    /\ pc[t] \in {"load", "security", "node", "respond", "put"}
    /\ Goto(t, "abort")
    /\ Forget(t)
    /\ UNCHANGED <<lockVars, hot, arc, overran, dbFailed>>

Bug_Unlock(t) ==
    /\ pc[t] \in {"release", "abort"} /\ lock = t
    /\ Unlocked(t)
    /\ Goto(t, IF pc[t] = "release" THEN "done" ELSE "failed")
    /\ Forget(t)
    /\ UNCHANGED <<hot, arc, overran, dbFailed>>

(* arelease in the finally clause of ahold.                                *)
Unlock(t) ==
    /\ pc[t] \in {"release", "abort"}
    /\ Unlocked(t)
    /\ Goto(t, IF pc[t] = "release" THEN "done" ELSE "failed")
    /\ Forget(t)
    /\ UNCHANGED <<hot, arc, overran, dbFailed>>

(* arelease swallows every exception.                                      *)
UnlockLost(t) ==
    /\ expires /\ Faults
    /\ pc[t] \in {"release", "abort"}
    /\ Goto(t, IF pc[t] = "release" THEN "done" ELSE "failed")
    /\ Forget(t)
    /\ UNCHANGED <<lockVars, hot, arc, overran, dbFailed>>

(* The turn's worker dies.  With Redis the key and the checkpoint stay;    *)
(* in-process lock, cache and every other turn die too.                    *)
Crash(t) ==
    /\ pc[t] \notin Final \union {"idle"}
    /\ IF expires
       THEN /\ Goto(t, "failed")
            /\ Forget(t)
            /\ UNCHANGED <<lockVars, hot>>
       ELSE /\ pc' = [u \in Turn |-> IF pc[u] \in Final \union {"idle"} THEN pc[u] ELSE "failed"]
            /\ inp' = [u \in Turn |-> NoState]
            /\ work' = [u \in Turn |-> NoState]
            /\ lock' = NoTurn
            /\ left' = [u \in Turn |-> 0]
            /\ hot' = NoState
            /\ UNCHANGED expires
    /\ UNCHANGED <<arc, overran, dbFailed>>

(* session_ttl_seconds after the last access the checkpoint is gone.  A    *)
(* read or write renews it, and a turn is far shorter than the ttl.        *)
HotExpire ==
    /\ hot # NoState
    /\ \A t \in Turn : pc[t] \in Final \union {"idle"}
    /\ hot' = NoState
    /\ UNCHANGED <<lockVars, pc, inp, work, arc, overran, dbFailed>>

Tick ==
    /\ LockTick
    /\ overran' = (overran \/ \E t \in Turn : pc[t] \in Inside /\ left'[t] = 0)
    /\ UNCHANGED <<pc, inp, work, hot, arc, dbFailed>>

Step(t) ==
    \/ Hydrate(t) \/ HydrateArchive(t)
    \/ Lock(t) \/ SessionBusy(t)
    \/ Load(t) \/ Security(t) \/ Node(t) \/ Respond(t) \/ FinalPut(t)
    \/ Unlock(t)

Next ==
    \/ \E t \in Turn : Hydrate(t)
    \/ \E t \in Turn : HydrateArchive(t)
    \/ \E t \in Turn : Lock(t)
    \/ \E t \in Turn : SessionBusy(t)
    \/ \E t \in Turn : LockLost(t)
    \/ \E t \in Turn : Load(t)
    \/ \E t \in Turn : Security(t)
    \/ \E t \in Turn : Node(t)
    \/ \E t \in Turn : Respond(t)
    \/ \E t \in Turn : FinalPut(t)
    \/ \E t \in Turn : Abort(t)
    \/ \E t \in Turn : Unlock(t)
    \/ \E t \in Turn : UnlockLost(t)
    \/ \E t \in Turn : Crash(t)
    \/ HotExpire
    \/ Tick

Spec == Init /\ [][Next]_vars

(* A started turn goes on: every await in it has a timeout or a deadline.  *)
(* Redis expires keys without help.  Nothing makes a user start a turn.    *)
Fairness ==
    /\ \A t \in Turn : WF_vars(pc[t] # "idle" /\ Step(t))
    /\ WF_vars(Tick)

FairSpec == Spec /\ Fairness

-----------------------------------------------------------------------------
TypeOK ==
    /\ LockTypeOK
    /\ pc \in [Turn -> PC]
    /\ inp \in [Turn -> State \union {NoState}]
    /\ work \in [Turn -> State \union {NoState}]
    /\ hot \in State \union {NoState}
    /\ arc \in State \union {NoState}
    /\ overran \in BOOLEAN
    /\ dbFailed \in BOOLEAN

(* Turns inside the lock on a ttl that has not run out.                    *)
Leased == {t \in Turn : pc[t] \in Inside /\ (left[t] > 0 \/ ~expires)}

(* A turn inside the lock whose ttl has not run out still owns the key,    *)
(* whatever expired holders, lost replies and crashed workers do: nobody   *)
(* else is granted it and a late release does not delete it.  This is what *)
(* the token comparison of _UNLOCK_LUA is for.                             *)
LeasedHolderOwnsLock == \A t \in Leased : lock = t

Contains(s, m) == s # NoState /\ \E i \in 1..Len(s) : s[i] = m

(* As long as no turn outlives its ttl and no database call fails, a turn  *)
(* whose done event was sent stays part of the conversation: its answer is *)
(* in the hot checkpoint, or in the archive the next turn will be hydrated *)
(* from.                                                                   *)
CompletedTurnsKept ==
    \A t \in Turn : ~overran /\ ~dbFailed /\ pc[t] = "done" =>
        IF hot # NoState THEN Contains(hot, Answer(t)) ELSE Contains(arc, Answer(t))

(* hydrate.py:64: hot state present means the archive is not merged, so    *)
(* that messages are not repeated.                                         *)
NoRepeatedMessage ==
    hot # NoState => \A i, j \in 1..Len(hot) : hot[i] = hot[j] => i = j

(* The key never outlives its holder for ever: crashed holders and lost    *)
(* replies are cured by the ttl.                                           *)
LockIsFreed == lock # NoTurn ~> lock = NoTurn

(* Every turn that was started comes to an end.                            *)
TurnsEnd == \A t \in Turn : pc[t] # "idle" ~> pc[t] \in Final

(* Either lock implements TurnMutex: a turn is inside from its grant until *)
(* it releases the lock, dies, or its ttl runs out.                        *)
InsideTurn == IF Leased # {} THEN CHOOSE t \in Leased : TRUE ELSE NoTurn

Mutex == INSTANCE TurnMutex WITH inside <- InsideTurn

MutexSpec == Mutex!Spec
=============================================================================
