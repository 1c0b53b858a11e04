# CustomerService: TLA+ models, TLC runs and TLAPS proofs

This directory specifies the parts of the CustomerService backend (`src/app/`)
whose correctness depends on the order in which several actors act: chat
requests, turns of one conversation, model calls, tool threads, Redis, MySQL
and clocks. Every definition is translated from the source; `PROJECT.json`
names the lines each one stands for.

## 1. The system

A chat request (HTTP or CLI) passes these parts in order.

| Part | Source | State | Operations |
|---|---|---|---|
| Conversation slots | `chat_slots.py`, `concurrency.py` | two Redis sorted sets (token, expiry), or two dicts in one process | acquire, release, in_flight |
| Session lock | `session_cache.py` | one Redis key per thread_id (token, ttl), or an in-process set | acquire with deadline, release |
| Turn | `graph/runner.py`, `graph/hydrate.py`, `context/turn.py`, `db/archive.py` | graph channels, hot checkpoint, archived row | hydrate, load, run nodes, checkpoint, archive, release |
| Turn graph and routing | `graph/builder.py`, `graph/nodes.py`, `agents/policy.py`, `agents/intent.py` | per-turn fields, session slots | security, router, rag, tool, supervisor, chitchat, handoff, respond |
| Experts | `agents/supervisor.py`, `agents/react.py`, `agents/rag.py` | results of the parallel experts | plan, run, merge |
| Model gateway | `llm_gateway/gateway.py`, `stores.py` | tokens used per tenant and day, response cache | quota check, cache lookup, call with retries, commit |
| Circuit breaker | `llm_gateway/circuit.py` | failures, opened_at, probe_in_flight | guard, record success, record failure |
| Order tool | `executors.py`, `capabilities/order.py`, `tool_cache.py`, `tool_escalation.py`, `security/order_access.py` | thread pool and semaphore, cached reports, failure counters | submit, query, authorize, escalate |
| User memory | `memory.py`, `db/archive.py` | database row and hot store of a user's profile | load with backfill, merge and save |
| Context window | `context/window.py`, `context/turn.py`, `context/summary/` | messages, rolling summary, session slots | grade, compress, fold facts, patch the messages, archive |
| Index | `rag/vectorstore.py`, `rag/ingest_api.py` | knowledge files, index directory, generation; per worker a copy with its revision | upload, ingest, rebuild, persist, reload |
| Retrieval | `rag/vectorstore.py`, `lexical.py`, `reranker.py`, `retrieval_plan.py`, `agents/rag.py` | none of its own | scopes, windows, fusion, acceptance, expansion, trimming |
| Checkpointer | `session_cache.py` | one value per thread_id, a working copy per process | get, put, put_writes, prune, delete |

How they interact: the slot is held around the turn, the session lock around
the graph run but not around hydration, the checkpointer and the archive are
written from inside the graph run, model calls and order tool calls are made
from the graph's nodes, and the breaker, the quota, the order pool and the
index copy are shared by all turns of a worker process. Several worker processes
share Redis, MySQL and the index directory.

What is hard, and where it bites, is the list `hazards` in `PROJECT.json`. In
short: leases and locks that expire while their holder runs; clock readings
that are old or skewed when Redis uses them; finally clauses that do not run,
or run without a token; decisions taken before a lock and used after it;
outcomes of old calls recorded in a newer state of the breaker; a semaphore
whose release belongs to a callback; globals created by whoever comes first;
whole values rewritten from a copy read earlier; a directory written in several
steps that others read in between; facts that must survive the messages that
stated them.

What makes each part correct:

- slots: never more leased turns than the limits, no rejection without enough
  live leases, no half of a lease left behind;
- lock: a holder on a valid ttl is alone, and a dead one does not block for ever;
- turn: a turn the user saw finished stays in the conversation, exactly once,
  and every started turn ends;
- gateway: overshoot of the quota is bounded, the breaker's fields agree, a
  waiting breaker gets its probe's answer;
- pool: slots are conserved on every path and come back, the queue is bounded;
- routing: a question that needs order data is not answered without it, and no
  field of the previous turn leaks into this one;
- order access: nobody sees another user's order;
- user memory: every copy is coherent, and what was saved is found again;
- index: equal revisions mean equal content, no search runs over another
  embedding's vectors, workers reach the newest knowledge;
- checkpointer: a stored checkpoint can be restored in full, an acknowledged one
  is not taken back, a process's leftovers never show;
- context: checkpoint and archived row agree, facts survive their messages, the
  newest messages stay.

## 2. Modules

| Module | Models | Extends |
|---|---|---|
| `ChatSlots` | both slot stores and their callers | |
| `SessionLock` | both session locks, as operators on their variables | |
| `SessionTurn` | turns of one conversation over lock, checkpoint, archive | `SessionLock` |
| `TurnMutex` | what the lock promises: one turn inside at a time | |
| `CircuitBreaker` | the breaker's record and its three functions | |
| `LlmGateway` | concurrent model calls over breaker, quota and cache | `CircuitBreaker` |
| `OrderPool` | callers of the order tool's thread pool | |
| `Routing` | intent detection, slot completion, routing policy and supervisor plan, as pure operators | |
| `TurnGraph` | consecutive turns of a user through the graph, with order query, caches, access and profile | `Routing` |
| `CheckpointSaver` | the checkpointer's operations on one conversation's value | |
| `UserMemory` | sessions of one user over the profile's store and row | |
| `IndexIngest` | worker processes over knowledge files, index directory and generation | |
| `ConversationContext` | window, summary and archived row of one session over its turns | |
| `Retrieval` | what a search returns, as pure functions of rankings | |
| `Positions` | parts of sequences, named by their positions | |
| `ChatSlotsProofs`, `SessionTurnProofs`, `TurnGraphProofs`, `CheckpointSaverProofs`, `UserMemoryProofs`, `IndexIngestProofs` | the theorems of the module | the module and TLAPS |
| `ContextProofs` | the theorems on what a prompt is made of: the conversation's context and the retrieved one | `ConversationContext`, `Retrieval` and TLAPS |
| `WorkerProofs` | the theorems of the two components inside a worker process | `LlmGateway`, `OrderPool` and TLAPS |
| `MCRetrieval` | the retrieval functions against what they should compute, over small inputs | `Retrieval` |
| `MCWorker` | the instance for TLC of gateway and pool | `LlmGateway` (by `MCLlmGateway`), `OrderPool` |
| `MC...` | instances for TLC of the other modules | the module |

`CheckpointSaver` and `ConversationContext` are two of `SessionTurn`'s steps in
detail: its checkpoint reads and writes, and its `Respond`. `UserMemory` is the
profile of `TurnGraph` with store and row apart and more than one session.
`Retrieval` is the search of `IndexIngest`. They are modules of their own
because each has its own actors and its own faults.

### ChatSlots

`glob[r]` and `tens[r]` are the score of request `r`'s token in the global and
in its tenant's sorted set, 0 when absent. `Begin` is the worker's
`time.time()`, up to `MaxSkew` from the reference clock; `Acquire` is the Lua
script (purge, count, compare, add) applied with that possibly old reading, or
`MemoryChatSlotStore.acquire` when `degraded`. `AcquireLost` is a script whose
answer nobody receives, `AcquireAborted` one that never ran, `ReleaseLost` a
release that `release()` swallowed. `InFlight` purges too, as the code does,
and in Redis only the global set. `Crash` ends a worker's requests without
their finally clauses. A degraded deployment is a single process.

### SessionLock and SessionTurn

One conversation. A turn is `idle`, looks for a checkpoint (`Hydrate`), may
copy the archive into its inputs (`HydrateArchive`), and only then takes the
lock (`Lock`, `SessionBusy`). Inside it loads the checkpoint and applies its
inputs (`Load`), runs `Security`, one step for router and handler (`Node`) and
`Respond`, which writes the archive, then the last checkpoint (`FinalPut`) and
`Unlock`. `Abort` is every error path of `_chat_turn_stream`. `LockLost` is a
`SET NX` whose reply is lost, `UnlockLost` a release that fails, `Crash` the
death of a worker: with the in-process lock it takes cache, lock and all turns
with it, with Redis it leaves the key and the checkpoint. `HotExpire` is the
checkpoint's ttl, `Tick` the lock's. Messages are the pairs (role, turn), a
stored state is the list of them; `Old` stands for the turns before.
`expires`, chosen in `Init`, says which lock the deployment has. `overran` and
`dbFailed` are history variables: they record that a ttl ran out under its
holder, and that a database call failed; the properties that need a ttl longer
than the turn, or a working database, say so with them.

### CircuitBreaker and LlmGateway

One worker process. A call slot is used again and again, each time with a kind
from `Kinds`: `invoke` (a thread, cannot be cancelled), `ainvoke`, `react`
(uncached) or `astream` (no retries, may be abandoned). `Start` checks the
quota, `Lookup` the cache, `Guard` the breaker; `Retry`, `Fail`, `Succeed` and
`Cancel` are the ways an attempt ends; `Commit` charges and writes the cache.
`NewDay` is midnight. `orphaned` is a history variable: the probe was cancelled
and the breaker still has its flag set. The breaker's clock is the number of
ticks of cooldown left.

### OrderPool

`_get_order_pool` is three steps because nothing locks it (`CheckPool`,
`CreatePool`, `CreateSem`), then `FetchPool` reads both globals. `Acquire` and
`QueueFull` are the semaphore with its timeout, `Submit` and `SubmitRejected`
the executor, `Result` and `ResultTimeout` the caller's wait; the future has a
life of its own (`StartJob`, `FinishJob`, `DoneCallback`). Pools and semaphores
are named after their creator. `warm`, chosen in `Init`, says that the pool was
created by a lone call before the modelled ones.

### Routing and TurnGraph

Where `SessionTurn` has one step for the nodes between security and respond,
`TurnGraph` has the nodes and what each reads and writes, for one user whose
turns come one after the other (which the session lock provides). A sentence is
the record of the features the keyword rules test; the intent model may answer
anything. `route`, `result` and `blocked` are the fields of `RouteState` and
`ResultState`, `slots` and `snap` those of `MemoryState`. They survive from turn
to turn as in the checkpoint, `NewSession` drops them, `profile` outlives the
session. `mention` is what `order_no_from_history` finds. An order is one of
`Orders`, `owned` the ones whose `Order.user_id` is the user; `Transfer` moves
one to or from him at any moment. A report records which data it shows, when
that was read and which age it states. The nodes are the actions of the same
names; the supervisor's three ways are `supervisor_ask`, `supervisor_execute`
and `supervisor_react`; `Abort` is a call that raises in a node. `query_order`
takes what the order pool does with the job ("ok", "busy", "timeout") as
input: `OrderPool` models how that comes about.

### CheckpointSaver

`CachedInMemorySaver` and the value under `cs:session:{thread_id}`. Every
operation is `Get` (the await of the read), `Discard` if the value cannot be
decoded, then `Read` or `Apply`, which replaces the process's working copy
`mem` by the value, applies the operation and prunes, and `Persist` (the await
of the write, and the eviction of the copy). `Probe` is `acheckpoint_exists`,
outside the session lock. LangGraph is external: a run loads first, puts the
checkpoints of its supersteps one after the other, submits `put_writes` beside
them and ends when all are done (`StartRun`, `StartPut`, `StartWrites`,
`EndRun`). `AbortRun` is a cache error or a cancelled turn, with writes that are
already on their way. `Expire` and `DeleteThread` remove the value at any time.
`overlapped` and `vanished` are history: two writes of the saver were in flight
at once, or the value disappeared under a run. Each write rewrites the whole
value from what it read, so after either of these the code makes no promise and
the properties ask for none; `RunsFromShared` holds regardless.

### UserMemory

A session's operation is a load (`fact = NoSave`) or a save, with an order or
without one. `Get` reads the store; on a miss `ReadRow` or `RowUnreadable` reads
the row, and `Backfill` copies it into the store; a save goes on with `Put` (the
merge and the store) and `Upsert` (the row). `Fail` is the swallowed failure of
the upsert, an exception of the store, or the death of the process; `Expire` the
store's ttl. `stamp` says when each order was last saved, and is what
`NothingForgotten` compares the profile with. The sessions of a user hold
different locks, so the read, merge and write of two of them do overlap, and one
update is then lost: `overlapped` records it. `lost` records the two other ways
to lose a save, an unreadable row taken for an empty one and a store entry that
expires while the row is behind. Outside these three the code forgets nothing.

### IndexIngest

A process is a worker (`booting`, `serving`) or the ingest command (`cli`).
`pc` is what the holder of its `_index_lock` does; nothing locks two processes
against each other. `Upload` saves a file and leaves the ingest to a background
task; `Ingest`, `Rebuild`, `IngestRefused` and `EmbeddingFails` are what becomes
of it; `RemoveStale`, `SaveStore`, `WriteMeta`, `WriteGeneration` and `Install`
are the steps of `_persist_indexes` and of the installation, in the code's
order, and `PersistFails` and `Crash` can come between any two. A generation
read while the file is rewritten gives the revision `Torn`. A tenant's store is
the version of the file that is live in it.

A search (`Ask` to `Answer`) holds the lock throughout and calls `get_indexes`
once per stage: for the stores its vector half searches, for the scopes of that
half (`search_scopes`), for the scopes of its lexical half, and for each BM25
table it has to build (`VectorIndexes`, `VectorScopes`, `LexicalScopes`,
`BuildTable`; `UseTable` is a cached one). Every call compares the revision with
the disk and goes on (`SearchLoaded`) or reloads (`SearchReloads`, `Load`,
`LoadFails`). A scope that appears only at the second call is the code's
`KeyError`. `asked` are the scopes of the question, the tenant's own and the
platform's.

`Compatible` is `assert_embedding_compatible`. A directory without
`embedding.json` is accepted where the backend is the n-gram one (`Ngram`) and
its first store has that backend's width. `Legacy` are the unrecorded indexes an
installation may start with.

`faulted`, `skipped` and `dropped` record what the properties except: an ingest
failed half-way or two ran at once; an ingest wrote nothing because its own
stale copy already equalled the files; an accepted ingest never reached the
disk, which nothing retries. `raced` of a search says that another process was
publishing a generation while it ran, `patched` that the process holds stores an
ingest changed in place without installing them: outside these two
`HalvesAgree` promises that both halves of a search see the same content. Inside
them they need not: `index_failed` shows it of the second.

### ConversationContext

`Ask` and `Block` are `security_node`, `Respond` is the compression, the
archive write and the message patch of `respond_node`, `Abort` a turn that fails
in between, `Expire` a checkpoint that the next turn restores from the row. A
message, of a user or of the service, says at most one thing the summary records
(an order, one of two exclusive conclusions, another label, a request for an
order number, another open point) and is long or compact; the rules match the
same patterns on both. `slot`, the order the turn ends with, is arbitrary: it
may come from the query, the history or the user's profile. A session is new, or
restored from a row with long replies and an order in its summary.

A turn, the window and what leaves it are sets of positions in the history, and
`Pick` lists what is at them. `CompressByImportance` returns every result the
code may compute: for every grading of the turns outside the recent ones
(`MayLeave`, `ScoredOut`), and for every answer in `Answers` or none. An answer
is any summary: orders, labels and open points, shown to the model or not, rival
ones included; `LlmSummaries` merges it before the rules' own facts. The two
loops of the code are defined by what they leave: `KeptByBudget` drops the turns
at which the loop stops, `ExtractFacts` collects what all messages say at once.
`SplitAssumption` and `ExtractAssumption` of `MCConversationContext` compare both
with the loops, over every history of up to five and four messages.
`AddMessages` is LangGraph's reducer (external): a message that is removed and
replaced in one patch stays, which is why the patch must not name a compacted
message that leaves.

`named`, `asked`, `settled` (the newest message that stated a conclusion) and
`gone` (the ids that left) are history and say what must not be forgotten.
`crowded`, `shadowed`, `inverted` and `overruled` name the four ways the code
gives a fact up on purpose or by design: the summary must record more than its
caps, counting what the model adds (`Overfull`); the slot holds the order while
its message leaves; an older message leaves after a newer one; the model answers
the opposite of a conclusion folded earlier. `NothingForgotten` excepts them.
`NewestFactKept` excepts only the order of leaving: whatever the model answers
and however full the summary is, the newest order, label and open point of what
leaves in a turn are recorded.

### Retrieval

Pure functions of two rankings (by distance, by words) and of the corpus. A
window, a filter or a cut is a set of positions of the ranking (`Positions`), the
place in the fusion is the number of chunks with a better score, and a score is a
fraction, compared without rounding. What they compute is proved in
`ContextProofs`; assumptions in `MCRetrieval`, evaluated by TLC in the run `index`
over every ranking of up to three or four chunks, compare the same functions with
loops:

- `VectorAssumption`, `LexicalAssumption`: only live children of the course,
  best first; exactly the best ones while what is filtered out afterwards leaves
  room in the window, where for the word search deleted chunks take no room;
- `WindowAssumption`: the window is the whole index or at least four times the
  candidates wanted;
- `FusionAssumption`: fusion loses nothing, repeats nothing and respects
  dominance;
- `AcceptAssumption`: a bound course with candidates is never left without any;
- `ExpandAssumption`: the best hit's document comes first, none comes twice, all
  are of files that were hit;
- `TrimAssumption`: the context starts with the best document, and a document is
  left out only if it does not fit.

## 3. Runs

All runs use `Spec` or `FairSpec` of the module (`worker`: `WorkerSpec`) and the
instance in the cfg.
Deadlock checking is off because every system here may legitimately stop: all
turns are over, all requests answered, the pool shut down.

| Run | Shows |
|---|---|
| `slots` | limits, ownership and justified rejections, for four requests of three tenants on two workers, both stores |
| `turn` | mutual exclusion (`MutexSpec`), ownership of the key, finished turns kept, key freed, turns end; two turns, both locks, faults on |
| `turn_repeat` (violation) | the archive's messages can be merged on top of a checkpoint another turn has just written |
| `worker` | what the threads of a process share: bounded overshoot, consistent breaker, probe flag owned, probe resolved, for three call slots of two tenants; slots of the order pool conserved and returned, bounded queue once warm, for two callers and one worker thread |
| `llm_stuck` (violation) | an abandoned stream that was the probe blocks the breaker for ever |
| `graph` | routing guards, no old report, stale data marked, access, profile ownership, hand-over recorded, topic kept; two turns, two orders, logged in and anonymous |
| `saver` | stored checkpoints complete, acknowledged ones kept, runs start from the shared value; two operations in flight, two channels, two checkpoints |
| `memory` | coherent copies and no forgotten order; two sessions, three orders, lists of two, four saves |
| `index` | equal revisions mean equal content, never another embedding, both halves of a search agree, workers converge; two processes, two tenants, two events; and the assumptions of `MCRetrieval` |
| `index_stale` (violation) | a worker that has not searched since another one's ingest changes a file back, writes nothing, and the other serves the withdrawn content for ever |
| `index_failed` (violation) | after an ingest that failed half-way a search finds both versions of a file |
| `context` | checkpoint and row agree, nothing is forgotten while there is room and the newest facts of what leaves never are, the summary keeps its caps, recent messages stay; three further turns of a new or a restored session; and the two assumptions of `MCConversationContext` |

The four violations are the four `findings`: each quotes the docstring, comment
or answer text the code disagrees with. `worker` has the gateway and the pool in
one model, in which one moves only while the other rests: they share no variable,
so every behaviour of each is there.

Bounds. Two turns and the turns before them are the smallest case with a
hydration race and with a late release under a new holder; `LockTtl = 2` lets a
ttl run out before, during and after another turn's. Four requests against a
cluster limit of 2 and a tenant limit of 1 let either limit be the one that
refuses; `MaxClock = 2` with `Ttl = 2` and `MaxSkew = 1` lets leases expire on
one worker's clock and not on the other's, and is the only bound on unbounded
data (time). Threshold 2 and three call slots let two failures open the breaker
while a third, older call is still upstream; `invoke` and `astream` together
have every combination of cached, retried and cancellable that a kind's guard
tests. Two callers and a capacity of 1 are the smallest case with a queue that is full. Two turns with two orders let
every field one turn leaves behind meet every kind of sentence in the next, in
the same session or in a new one; two minutes with a Redis ttl of one let the
snapshot outlive the Redis entry; thresholds 1 and 2 are escalation at once and
the default. Two operations of the saver in flight are the least in which one
reads before another writes; two channels let one keep an old version while the
other changes, which is what pruning can get wrong. Three orders and lists of
two let one order be pushed out and come back, and four saves let two sessions
each save twice. Two events of the index (uploads, commands, crashes) are a
change and its withdrawal, or an ingest and a crash in any of its steps, or two
ingests at once; with two tenants an ingest has a step between two stores. In
`index` a file exists or not, and the searches are those of the tenant that has
none at first, so that its scope appears and disappears between two reads, and
a table is built and outdated. `index_stale` and `index_failed` have two versions
of a file. `index_stale` asks `Asked = {{}}`, the question of a tenant without an
index where the platform has none: it makes the reads of `search_scopes`, which
is what reloads, and looks up no table. `index_failed` has one process, and also
starts from an unrecorded index. In `context` a budget of 5, long messages of 3
and windows of 3 messages make every turn but a session's first compress; users
name orders, ask for one and state one conclusion, replies the other; the model's
answers are an order, both conclusions at once, and a label with an open point,
so that the cap on open points and the length of the summary are exceeded; three
further turns let a fact leave the window, stay in the summary for a turn, and
meet its rival. The proofs need none of these bounds.

Fairness. `SessionTurn`: a turn that was started goes on, because every await in
it has a timeout or a deadline, and Redis expires keys by itself; nothing makes
a user start a turn. `LlmGateway`: `llm_timeout_seconds` bounds each attempt,
and time passes; nothing makes anybody call or cancel. `OrderPool`: threads take
queued jobs, jobs end, callers' waits have timeouts. `IndexIngest`: whoever
holds `_index_lock` goes on; a background task that waits gets the lock in the
end although searches take it again and again (strong fairness of `Starts`, since
each search disables it); and questions keep coming to a serving worker (weak
fairness of `Ask`), since a reload is only ever triggered by one; nothing makes
anybody upload, run the command or start a worker.

### Known limits of the code

Behaviour the models contain and their properties leave room for:

- A turn longer than `session_lock_ttl_seconds` loses its lock while it runs
  (`session_cache.py:555`); nothing renews it. `overran` records it.
- A failure recorded late by a call from before the breaker opened clears the
  flag of a probe in flight, and a second probe goes out (`circuit.py:100`).
- Two first calls may each create an order pool and a semaphore
  (`executors.py:87`); until one pool is left, the queue bound is not the
  configured one. `WarmQueueBounded` is about a pool that exists.
- A stale report that is stored again restarts its age (`tool_cache.py:121`).
  `OldDataMarked` says that it is marked, not that the age it states is right.
- An older turn that stays in the window and leaves it after a newer one makes
  its older conclusion replace the newer in the summary: "later" is the order of
  leaving. `inverted` records it.
- Two sessions of one user that save at once: the later write wins as a whole
  (`memory.py:282`).
- Two writes of the saver that overlap: the later value, read earlier, undoes the
  other (`session_cache.py:771`).
- An ingest that died half-way leaves a half-written index that a worker may load
  as current; a rerun writes it again only if it finds something to add or retire.
- A generation that another process publishes during a search splits the search
  between the old index and the new: each half reads the index again
  (`vectorstore.py:730`, `:732`, `:776`, `:759`). It may also end the search with
  a `KeyError` when a tenant is new. `raced` records it.
- An index from before `embedding.json`, of another embedding, whose rebuild dies
  after the first tenant's store is then accepted by the width of that one store
  (`vectorstore.py:214`, `:254`).
- The model may contradict a conclusion folded in an earlier turn, or push older
  facts out of the summary: only the facts folded in the same turn come after its
  answer (`llm.py:193`).

## 4. Proofs

For every value of the constants that satisfies the named assumptions of the
modules (finite sets of requests, calls and callers; limits and ttls of at
least 1; a tenant limit not above the global one; a window that has room for the
messages that are always kept, and a summary that has room for three items).

- **SessionTurn.** `TypeCorrect` needs `WorkLoaded`: a turn in the working part
  of the graph has channel values. `LeasedHolderOwns` (`LeasedHolderOwnsLock`)
  is inductive with the types: the release compares tokens, a tick that leaves
  the holder's ttl positive leaves the key. `TurnsImplementMutex` follows: at
  most one turn is `Leased`, only `Lock` adds one, and it needs a free key.
  `FinishedTurnsKept` strengthens `CompletedTurnsKept` to `KeptInv`: whatever
  the next turn can load holds the answer of every finished turn, that is the
  archive, the checkpoint if there is one, the channels of the turn inside, and
  the inputs of a turn that will find no checkpoint; and a turn that has
  answered has its answer where it will be looked for. It holds while `overran`
  and `dbFailed` are false, and uses `LeaseHeld`: until a ttl is overrun,
  whoever is inside is inside on a valid ttl, and so alone.
- **ChatSlots.** `StoreInv` says that a token in a set carries its request's
  expiry, that the degraded store's two maps agree, that readings are not from
  the future, and that a lease no clock can have purged is in both sets. With
  `SetsBounded` (unexpired tokens never exceed the limits) it gives
  `GlobalLimitHolds` and `TenantLimitHolds`; `RejectionsJustified` is an action
  property proved from `StoreInv`.
- **LlmGateway** (in `WorkerProofs`). `BreakerStaysConsistent` and `ProbeFlagOwned` are inductive
  with the types. `OvershootBounded` needs `AccountInv`: what is used plus what
  the calls in flight may still charge stays below the limit plus one call's
  tokens for each call slot of the tenant.
- **OrderPool** (in `WorkerProofs`). `SlotsAreConserved` is inductive with `PoolInv` (a caller
  before its submission has no future). `QueueBoundedOnceWarm` needs `WarmInv`:
  after a lone creation everybody holds the one pool and the one semaphore.

- **CheckpointSaver.** `RunStartsFromShared` (an action property) needs
  `RunInv` (one load while the run starts, puts and writes only while it runs)
  and `OpInv` (what an operation has read can be decoded by the time it works,
  and no stored value is without a checkpoint).
  `CheckpointsComplete` and `AcknowledgedStays` share `CalmInv`, about
  the time before an overlap or a loss of the value: the run has one operation
  in flight and what it read is still there, the cached value is `Sound` (one
  checkpoint, its blobs beside it) and where the run believes it is
  (`Position`), a put is one superstep ahead of it (`PutInv`), and what a
  `put_writes` writes back holds it (`WritesInv`).
- **UserMemory.** `PrependShape`, `PrependPlaces` and `PrependFresh` say where
  `prepend_unique` puts every element, for lists of every length, without
  induction: it is defined by positions. `ProfileCopiesCoherent` is inductive
  with them, for any number of overlapping sessions. `SavedOrdersKept`
  strengthens `NothingForgotten` to `FreshInv`: before an overlap or a loss
  a save runs beside no other operation (`Alone`), the store and every profile
  in hand are up to date, and so is the row unless it is known to be behind
  (`Kept`).
- **IndexIngest.** `IndexNeverForeign` needs `ForeignInv`: where the directory
  may be accepted (`embedding.json` names the configured embedding, or is missing
  and the backend is the n-gram one) no store on disk is of another embedding,
  since a writer replaces every store before it writes that file. It assumes
  `LegacyOwn`: the unrecorded indexes an installation starts with are of this
  embedding where they are accepted (see the known limits).
  `SearchHalvesAgree` strengthens `HalvesAgree` to `HalvesInv`, for every process
  and every stage of a search: BM25 tables that exist are those of the stores in
  memory unless these were changed in place (`Coherent`); while nobody publishes
  a generation only the first read can load, so that from then on the revision is
  the disk's (`Calm`); and what each half has found so far is the memory's
  content of its scopes (`Halves`). It also needs to know that a process that is
  down holds no lock (`Down`).
  `RevisionSound` needs `RevisionInv`: no copy is from the future (`Past`), one
  ingest runs at a time (`Single`), the directory is what it has written so far
  (`Progress`), and outside a write a copy with the current generation is the
  disk's (`Current`); whoever loads half of a write holds the old revision, which
  the write's own generation outdates. `Torn` never equals a generation.
- **TurnGraph.** The lemmas on `Routing` hold for every sentence and decision:
  `finalize` lets no course or chitchat intent through with an order signal and
  no order intent without a number, whatever the model, the slots and the
  history contributed (`Recognized`). `IInv` joins the invariants of the run
  with four facts that carry them through a step: cached data is not from the
  future (`CachesInOrder`), the route is still the router's when the branch it
  chose runs (`RouteOfBranch`), the last turn's answer is gone when the router
  decides (`AnswerReset`), and what is owned was owned (`OwnershipRemembered`).
  `Shown` is what a node may show; `QueryOrderShown` proves it of `query_order`
  for every state of both caches, and `StepKeeps` reduces each node to the
  fields it writes. All nine properties of the run are theorems, the two action
  properties (`NoForeignReports`, `TopicAlwaysKept`) from the same invariant.

- **ConversationContext.** `ContextInv` joins the two invariants of the run and
  the types with what they need: messages are in the order of ids that are never
  used again, so that the patch, which names ids, and the window, a set of
  positions, mean the same messages (`IdsFresh`); and no message in the window
  concludes later than `settled`, whose conclusion is clear in the summary once
  its message has left, if messages leave oldest first and the model has not
  overruled it (`LastConclusion`). Four groups of lemmas carry `Respond`:
  - `Pick` keeps the elements at the given positions, their order and their
    number, for sequences of every length. Ranks are counted with the theorems on
    finite cardinalities, so no induction over sequences is needed;
  - `ExclusiveSequence`, `Merge`, `Resolve`, `Render` and `Finalize` keep the
    caps, whatever they are given; they record everything that fits when what
    there is to record does (`MergeKeeps`, `FinalizeMerged`); and they keep what
    stands last in a list in any case (`MergeEnds`, `FinalizeEnds`);
  - `Folded` and `Recent` say what one compression does to the summary, with room
    and without. They hold of the rules' fold, of every answer of the model, of
    no fold at all, and of one fold after another (`FoldedTwice`, `RecentTwice`),
    which is the overflow followed by the turns that the longer summary pushes
    out. No answer displaces what leaves in the same turn because the rules'
    facts are merged after it (`ConcludesConcat`, `ConclusionFolded`);
  - `KeptRecent` and `MayLeaveOld` say that neither split reaches the newest
    messages, and `WindowWritten` that the patched checkpoint is the archived
    window, message by message, for every grading and every answer.

  `TypeCorrect` (with the summary's caps), `ArchiveCorrect` and `SummaryCorrect`
  follow; `NewestFactCorrect` and `RecentCorrect` are action properties from the
  same invariant.

- **Retrieval** (in `ContextProofs`). No state, so each theorem is about what a
  function returns, for every ranking, index and setting.
  - `VectorSearchSound` and `WordSearchSound`: only chunks that are wanted come
    back, and the best of all of them while the window has room. `RoomInWindow`
    counts: a wanted chunk's rank in its store is at most its rank among the
    wanted plus the chunks to skip. `PickFirst` then says that a part that holds
    the first n of a larger part starts with them. `PlannedSearchSound` puts the
    plan and `_vector_inner_k` in: three chunks to skip per candidate, seven for
    a bound course, are harmless, with the plan's number of candidates and with
    the fixed one used where the plan is switched off (`FetchK`). Beyond that the vector search may miss chunks,
    which `ingest --rebuild` heals.
  - `FusionSound`: comparing scores by cross-multiplication, then positions, is a
    strict total order (`GainOrders`, `BetterOrders`); such an order gives every
    element a place of its own and leaves no place empty (`Places`, by counting),
    so sorting is a permutation and no induction is needed. `ScoreDominates` says
    that a chunk no worse in both lists and better in one has the larger sum. In
    the code's floating point too: the sums differ by more than the rounding.
  - `ExpansionSound`: every item is of a file that was hit, keys are distinct for
    distinct items of a document, and no key is less than the best hit's own.
  - `OnlyOwnKnowledge` composes them along `retrieve_course_docs`, for any order
    of the cross encoder. Search and expansion each take `_index_lock` for
    themselves; the theorem gives each its own indexes and chunks, so a reload in
    between is covered.

Type correctness of the nine modules with state is a theorem of each (`TypeCorrect`, and
`PoolTypeCorrect` of the order pool). Only the run `context` checks it too,
because there it says that the summary stays within its caps.

Only model-checked: the liveness properties (`LockIsFreed`, `TurnsEnd`,
`ProbeResolves`, `SlotsComeBack`, `Converges`), which rest on fairness; the
budget of the retrieved context (`TrimAssumption`) and the assumptions of
`MCConversationContext`, which compare with loops over data, so that an argument
about them is an induction over data; and the violations.

## 5. Simplifications

- Slots: limits are at least 1, as `_slot_limits` makes them: it replaces a limit
  of 0 by the default or, for a tenant, by the cluster's.
- Turn: session slots, summaries and message compression are left out of the
  stored state (`ConversationContext` has them); the checkpointer's `aput` and
  `aput_writes` of one superstep are one write (`CheckpointSaver` has them
  apart); a blocked turn goes from security to respond, since its router step
  changes nothing. The checkpoint's ttl (days) does not run out during a turn.
- Gateway: policies that do not enforce the quota, the synchronous `stream`, and
  failures of the quota store are left out; charging and the cache write are one
  step.
- Pool: reentrant calls and a pool of 0 workers run inline and touch no shared
  state. No call begins once shutdown has begun: the server drains first. A
  caller stands for one future; its next call begins when that future is done.

- Graph: the field `target` is left out, every exit of `recognize_intent`
  derives it from the intent. Whether a phrase is short enough to be searched,
  and whether an order's product is a course, is an arbitrary choice. One order
  query is made per node, so at the default threshold of 2 orders never
  escalate; the ReACT loop is one step with at most one order of the model's
  choice. The course result cache and the texts are left out; the profile's
  lists of recent items, its store and its row are in `UserMemory`. Numbers that
  are no order of the tenant are left out: they are refused to everybody.
- Checkpointer: a channel's value is its version; the synchronous path, which
  holds a lock throughout, is a special case of the asynchronous one.
- User memory: the profile is its order fields; the course fields, the last
  intent and the hand-over flag are merged by the same statements.
- Index: one file per tenant. A search with several queries repeats the two
  halves, and `iter_tenant_documents` makes the first two reads once more: both
  are left out, as is a search with the lexical half switched off. The hooks with
  which tests inject an index are left out.
- Retrieval: distances and BM25 scores are given rankings. Deleted chunks can
  fill the vector window (`vectorstore.py:718`), and a platform parent replaces a
  tenant's with the same file name and section (`vectorstore.py:538`): the
  assumptions and the theorems on completeness state the results outside these
  two cases. Two chunks with the same file name and text, which `document_key`
  takes for one, do not occur in a ranking; a question is one query.
- Context: scores are arbitrary grades, courses are recorded like orders, the
  archive write does not fail (`SessionTurn` has that failure). A message states
  one fact; one that states several folds like several that leave together, in
  the fixed order of the patterns. Of the two groups of exclusive labels one is
  modelled. An answer of the model without any section becomes one label of its
  own (`llm.py:192`), one of `Topic`. An order item with two constraints is
  written with a separator that the parser splits on (`facts.py:305`,
  `facts.py:81`); items without constraints are modelled.

## 6. Not modelled

- The ReACT loop as a loop: its call limit and several failing queries in one
  turn. `TurnGraph` has its outcomes.
- The course result cache: one structured answer per session and entries in
  Redis, keyed by course or query text, shown marked as old when retrieval
  fails, like the order cache that `TurnGraph` has.
- Embedding, BM25 scoring and query rewriting: numbers and texts over external
  libraries.
- Input and output filters: pattern matching on text; both outcomes of the
  security node are modelled.
- Application context: created once at the start of a worker, before the first
  request.
- Observability: written, never read by a decision.
- HTTP plumbing, CLI and static page, except what they start: turns, ingests,
  workers.
- Evaluation sets, seeding and the object store: offline tools and thin clients.
- Synchronous variants of the locks and stores: the same statements as the
  asynchronous ones, used by the CLI.
