----------------------------- MODULE OrderPool -----------------------------
(***************************************************************************)
(* The order tool's thread pool with back-pressure: app/executors.py.      *)
(* Caller threads (asyncio.to_thread and LangGraph's executor) share one   *)
(* lazily created pool and a semaphore that counts jobs queued or running. *)
(* The semaphore is released by the future's done-callback, never by the   *)
(* caller once the job is submitted.                                       *)
(*                                                                         *)
(* Pools and semaphores are named after the caller that created them.      *)
(* Reentrant calls and order_tool_workers = 0 run inline and touch no      *)
(* state of this module.                                                   *)
(***************************************************************************)
EXTENDS Naturals, FiniteSets

CONSTANTS
    Caller,     \* calling threads, used again and again
    None,       \* an unset global
    Workers,    \* order_tool_workers
    Factor      \* tool_pool_queue_factor

ASSUME PoolAssumption ==
    /\ IsFiniteSet(Caller) /\ None \notin Caller /\ Caller # {}
    /\ Workers \in Nat \ {0} /\ Factor \in Nat \ {0}

VARIABLES
    warm,      \* one lone call created the pool before any others came
    pool,      \* _ORDER_POOL
    sem,       \* _ORDER_SEMAPHORE
    value,     \* value[s]: the counter of semaphore s
    closed,    \* pools that were shut down
    down,      \* "no", "closing" while pool.shutdown waits, "yes"
    stage,        \* where each caller is in run_order
    myPool,    \* what _get_order_pool returned to it
    mySem,
    job        \* the future it submitted

poolVars == <<warm, pool, sem, value, closed, down, stage, myPool, mySem, job>>

(* _pool_capacity                                                          *)
Capacity == Workers * Factor

Answered == {"busy", "ok", "timeout", "failed"}
STAGE == {"idle", "create", "createSem", "fetch", "acquire", "submit", "wait"} \union Answered
JOB == {"none", "queued", "running", "finished", "cancelled"}

(* Futures whose done-callback has not run yet.                            *)
Pending == {"queued", "running", "finished", "cancelled"}

Creator == CHOOSE c \in Caller : TRUE

PoolInit ==
    /\ warm \in BOOLEAN
    /\ pool = IF warm THEN Creator ELSE None
    /\ sem = IF warm THEN Creator ELSE None
    /\ value = [s \in Caller |-> Capacity]
    /\ closed = {}
    /\ down = "no"
    /\ stage = [c \in Caller |-> "idle"]
    /\ myPool = [c \in Caller |-> None]
    /\ mySem = [c \in Caller |-> None]
    /\ job = [c \in Caller |-> "none"]

Moves(c, there) == stage' = [stage EXCEPT ![c] = there]

-----------------------------------------------------------------------------
(* _get_order_pool: `if _ORDER_POOL is None` with no lock held.  The       *)
(* server stops taking requests before it shuts the pools down.            *)
CheckPool(c) ==
    /\ stage[c] = "idle" /\ job[c] = "none" /\ down = "no"
    /\ Moves(c, IF pool = None THEN "create" ELSE "fetch")
    /\ UNCHANGED <<warm, pool, sem, value, closed, down, myPool, mySem, job>>

CreatePool(c) ==
    /\ stage[c] = "create"
    /\ pool' = c
    /\ Moves(c, "createSem")
    /\ UNCHANGED <<warm, sem, value, closed, down, myPool, mySem, job>>

CreateSem(c) ==
    /\ stage[c] = "createSem"
    /\ sem' = c
    /\ Moves(c, "fetch")
    /\ UNCHANGED <<warm, pool, value, closed, down, myPool, mySem, job>>

(* return _ORDER_POOL, _ORDER_SEMAPHORE.  Without a pool the job runs      *)
(* inline, without a semaphore it is submitted at once.                    *)
FetchPool(c) ==
    /\ stage[c] = "fetch"
    /\ myPool' = [myPool EXCEPT ![c] = pool]
    /\ mySem' = [mySem EXCEPT ![c] = sem]
    /\ Moves(c, IF pool = None THEN "ok" ELSE IF sem = None THEN "submit" ELSE "acquire")
    /\ UNCHANGED <<warm, pool, sem, value, closed, down, job>>

Acquire(c) ==
    /\ stage[c] = "acquire"
    /\ value[mySem[c]] > 0
    /\ value' = [value EXCEPT ![mySem[c]] = @ - 1]
    /\ Moves(c, "submit")
    /\ UNCHANGED <<warm, pool, sem, closed, down, myPool, mySem, job>>

(* tool_pool_queue_wait_seconds passed: ToolPoolBusyError.                 *)
QueueFull(c) ==
    /\ stage[c] = "acquire"
    /\ value[mySem[c]] = 0
    /\ Moves(c, "busy")
    /\ UNCHANGED <<warm, pool, sem, value, closed, down, myPool, mySem, job>>

Released(s) == value' = IF s = None THEN value ELSE [value EXCEPT ![s] = @ + 1]

Bug_Submit(c) ==
    /\ stage[c] = "submit"
    /\ myPool[c] \notin closed
    /\ Released(mySem[c])
    /\ job' = [job EXCEPT ![c] = "queued"]
    /\ Moves(c, "wait")
    /\ UNCHANGED <<warm, pool, sem, closed, down, myPool, mySem>>

Submit(c) ==
    /\ stage[c] = "submit"
    /\ myPool[c] \notin closed
    /\ job' = [job EXCEPT ![c] = "queued"]
    /\ Moves(c, "wait")
    /\ UNCHANGED <<warm, pool, sem, value, closed, down, myPool, mySem>>

(* pool.submit raises after shutdown: the finally clause gives the slot    *)
(* back, since no callback will.                                           *)
SubmitRejected(c) ==
    /\ stage[c] = "submit"
    /\ myPool[c] \in closed
    /\ Released(mySem[c])
    /\ Moves(c, "failed")
    /\ UNCHANGED <<warm, pool, sem, closed, down, myPool, mySem, job>>

Running(p) == {c \in Caller : myPool[c] = p /\ job[c] = "running"}

(* A pool thread takes the job from the executor's unbounded queue.        *)
StartJob(c) ==
    /\ job[c] = "queued"
    /\ Cardinality(Running(myPool[c])) < Workers
    /\ job' = [job EXCEPT ![c] = "running"]
    /\ UNCHANGED <<warm, pool, sem, value, closed, down, stage, myPool, mySem>>

FinishJob(c) ==
    /\ job[c] = "running"
    /\ job' = [job EXCEPT ![c] = "finished"]
    /\ UNCHANGED <<warm, pool, sem, value, closed, down, stage, myPool, mySem>>

(* The done-callback _release, after the result is visible to the caller.  *)
Bug_DoneCallback(c) ==
    /\ job[c] = "finished"
    /\ Released(mySem[c])
    /\ job' = [job EXCEPT ![c] = "none"]
    /\ UNCHANGED <<warm, pool, sem, closed, down, stage, myPool, mySem>>

DoneCallback(c) ==
    /\ job[c] \in {"finished", "cancelled"}
    /\ Released(mySem[c])
    /\ job' = [job EXCEPT ![c] = "none"]
    /\ UNCHANGED <<warm, pool, sem, closed, down, stage, myPool, mySem>>

Bug_Result(c) ==
    /\ stage[c] = "wait"
    /\ job[c] \in {"finished", "none"}
    /\ Released(mySem[c])
    /\ Moves(c, "ok")
    /\ UNCHANGED <<warm, pool, sem, closed, down, myPool, mySem, job>>

(* future.result() returns or raises the job's own exception.              *)
Result(c) ==
    /\ stage[c] = "wait"
    /\ job[c] \in {"finished", "none"}
    /\ Moves(c, "ok")
    /\ UNCHANGED <<warm, pool, sem, value, closed, down, myPool, mySem, job>>

(* order_tool_timeout_seconds passed: future.cancel() removes a queued job *)
(* and cannot stop a running one, which keeps its slot.  The job may end   *)
(* between the timeout and the cancel.                                     *)
ResultTimeout(c) ==
    /\ stage[c] = "wait"
    /\ job' = [job EXCEPT ![c] = IF @ = "queued" THEN "cancelled" ELSE @]
    /\ Moves(c, "timeout")
    /\ UNCHANGED <<warm, pool, sem, value, closed, down, myPool, mySem>>

(* The thread is free for another call.  A caller stands for one future:   *)
(* after a timeout its next call is modelled once the old job has ended,   *)
(* and other callers stand for the threads that call meanwhile.            *)
CallOver(c) ==
    /\ stage[c] \in Answered /\ job[c] = "none"
    /\ Moves(c, "idle")
    /\ myPool' = [myPool EXCEPT ![c] = None]
    /\ mySem' = [mySem EXCEPT ![c] = None]
    /\ UNCHANGED <<warm, pool, sem, value, closed, down, job>>

(* shutdown_tool_pools: the executor refuses new jobs, drains its queue,   *)
(* then the globals are cleared.                                           *)
Shutdown ==
    /\ down = "no"
    /\ down' = "closing"
    /\ closed' = closed \union ({pool} \ {None})
    /\ UNCHANGED <<warm, pool, sem, value, stage, myPool, mySem, job>>

ShutdownDone ==
    /\ down = "closing"
    /\ \A c \in Caller : myPool[c] \in closed => job[c] \notin {"queued", "running"}
    /\ down' = "yes"
    /\ pool' = None
    /\ sem' = None
    /\ UNCHANGED <<warm, value, closed, stage, myPool, mySem, job>>

PoolNext ==
    \/ \E c \in Caller : CheckPool(c)
    \/ \E c \in Caller : CreatePool(c)
    \/ \E c \in Caller : CreateSem(c)
    \/ \E c \in Caller : FetchPool(c)
    \/ \E c \in Caller : Acquire(c)
    \/ \E c \in Caller : QueueFull(c)
    \/ \E c \in Caller : Submit(c)
    \/ \E c \in Caller : SubmitRejected(c)
    \/ \E c \in Caller : StartJob(c)
    \/ \E c \in Caller : FinishJob(c)
    \/ \E c \in Caller : DoneCallback(c)
    \/ \E c \in Caller : Result(c)
    \/ \E c \in Caller : ResultTimeout(c)
    \/ \E c \in Caller : CallOver(c)
    \/ Shutdown
    \/ ShutdownDone

PoolSpec == PoolInit /\ [][PoolNext]_poolVars

(* Pool threads take queued jobs and order queries end; a caller's waits   *)
(* have timeouts.  Nothing makes a caller call.                            *)
PoolFairness ==
    \A c \in Caller :
        /\ WF_poolVars(StartJob(c)) /\ WF_poolVars(FinishJob(c)) /\ WF_poolVars(DoneCallback(c))
        /\ WF_poolVars(Acquire(c) \/ QueueFull(c) \/ Submit(c) \/ SubmitRejected(c))
        /\ WF_poolVars(Result(c) \/ ResultTimeout(c))

PoolFairSpec == PoolSpec /\ PoolFairness

-----------------------------------------------------------------------------
PoolTypeOK ==
    /\ warm \in BOOLEAN
    /\ pool \in Caller \union {None} /\ sem \in Caller \union {None}
    /\ value \in [Caller -> Nat]
    /\ closed \subseteq Caller /\ down \in {"no", "closing", "yes"}
    /\ stage \in [Caller -> STAGE]
    /\ myPool \in [Caller -> Caller \union {None}]
    /\ mySem \in [Caller -> Caller \union {None}]
    /\ job \in [Caller -> JOB]

(* A slot is held between acquire and submit, and until the callback of    *)
(* the submitted future has run.                                           *)
HoldsSlot(c) == stage[c] = "submit" \/ job[c] \in Pending

Holders(s) == {c \in Caller : mySem[c] = s /\ HoldsSlot(c)}

(* Every path of _submit (result, timeout with the job queued or running,  *)
(* refused submission) gives a slot back exactly once: free slots and      *)
(* holders always add up to the capacity, for every semaphore ever made.   *)
SlotsConserved == \A s \in Caller : value[s] + Cardinality(Holders(s)) = Capacity

Waiting == {c \in Caller : job[c] \in {"queued", "running"}}

(* executors.py:1, back-pressure: a bounded queue.  Jobs queued or running *)
(* never exceed the capacity.                                              *)
QueueBounded == Cardinality(Waiting) <= Capacity

(* The same when one lone call created the pool: everybody then uses its   *)
(* semaphore, through timeouts, abandoned jobs and shutdown.               *)
WarmQueueBounded == warm => QueueBounded

(* No slot is held for ever: _submit's comment that cancel, timeout,       *)
(* result and exception all release in the end (executors.py:113), with a  *)
(* shutdown at any moment.                                                 *)
SlotsComeBack == \A c \in Caller : HoldsSlot(c) ~> ~HoldsSlot(c)
=============================================================================
