---------------------------- MODULE IndexIngest ----------------------------
(***************************************************************************)
(* The knowledge index: app/rag/vectorstore.py with its two ingest entries *)
(* (app/rag/ingest_api.py, the command line) and the start of a worker.    *)
(*                                                                         *)
(* The index lives in one directory per tenant, an embedding record and a  *)
(* generation file.  Every worker process keeps a copy in memory with the  *)
(* revision it believes it has; _index_lock serialises the operations of   *)
(* one process, nothing serialises two processes.  A search holds the lock *)
(* from its first step to its last, and calls get_indexes in each of its   *)
(* halves: every call compares the process's revision with the generation  *)
(* on disk and loads again when they differ.                               *)
(*                                                                         *)
(* The store of a tenant is abstracted to the version of the file whose    *)
(* chunks are live in it.                                                  *)
(***************************************************************************)
EXTENDS Naturals

CONSTANTS
    Worker,     \* processes that share the index directory
    NTenants,   \* tenants, in the order of their names
    Version,    \* versions of a tenant's Markdown file (content_hash)
    Absent,     \* no file, no directory
    Gone,       \* a store whose chunks are all soft-deleted
    Foreign,    \* a store built with another embedding
    NoIndex,    \* _indexes is None
    Unbuilt,    \* _lexical has no BM25 table of a tenant
    Torn,       \* the "mtime:" revision read from a half-written file
    Shipped,    \* the knowledge trees an installation may start with
    Legacy,     \* the unrecorded indexes an installation may start with
    Ngram,      \* the configured embedding is the built-in n-gram one
    Asked,      \* the scopes a question may search: a tenant's, the platform's
    MaxEvents   \* bound on edits, command line runs and crashes

Tenant == 1 .. NTenants
Content == Version \union {Absent, Gone, Foreign}
Index == [Tenant -> Content]

ASSUME IndexAssumption ==
    /\ NTenants \in Nat \ {0} /\ MaxEvents \in Nat
    /\ Shipped \subseteq [Tenant -> Version \union {Absent}]
    /\ Legacy \subseteq Index /\ Ngram \in BOOLEAN /\ Asked \subseteq SUBSET Tenant
    /\ Unbuilt \notin Content
    /\ Absent \notin Version \union {Gone, Foreign}
    /\ Gone \notin Version \union {Foreign}
    /\ Foreign \notin Version
    /\ NoIndex \notin Index
    /\ Torn \notin Nat

VARIABLES
    knowledge,  \* data/knowledge: the file of each tenant
    disk,       \* the tenant directories of the index
    meta,       \* embedding.json: "none", "ours" as configured, or "other"
    gen,        \* generation.json; 0 before the first
    role,       \* "down", "booting", "serving", or "cli": python main.py ingest
    pc,         \* what the holder of the process's _index_lock is doing
    mem,        \* _indexes
    rev,        \* _indexes_revision
    lex,        \* _lexical: the content each BM25 table was built from
    search,     \* the locals of a search at work
    seen,       \* the revision get_indexes read before the files
    jobs,       \* background tasks waiting to ingest
    work,       \* the stores an ingest is about to persist and install
    todo,       \* tenants _persist_indexes has not saved yet
    events,
    faulted,    \* an ingest was killed or failed half-way, or two ran at once
    skipped,    \* an ingest wrote nothing since its own stale copy matched the files
    dropped,    \* an accepted ingest ended without reaching the disk
    patched     \* stores changed in place, and none installed since

disks == <<knowledge, disk, meta, gen>>
ghosts == <<events, faulted, skipped, dropped>>
vars == <<disks, role, pc, mem, rev, lex, search, seen, jobs, work, todo, ghosts, patched>>

Persisting == {"stale", "save", "meta", "generation"}
Ingesting == Persisting \union {"install"}
PC == Ingesting \union {"idle", "search", "load"}

(* What a reader of the knowledge gets to see: a store without live chunks *)
(* is as good as none.                                                     *)
Live(index) == [t \in Tenant |-> IF index[t] = Gone THEN Absent ELSE index[t]]
Empty == [t \in Tenant |-> Absent]

NoTables == [t \in Tenant |-> Unbuilt]

(* What a search has found so far.  Its stage is the get_indexes call it   *)
(* makes next; raced: another process was publishing a generation.         *)
Stage == {"none", "vector", "scopes", "lexical", "tables"}
Search == [stage : Stage, asked : SUBSET Tenant, indexes : Index, vector : Index,
           scopes : SUBSET Tenant, lexical : Index, raced : BOOLEAN]
NoSearch == [stage |-> "none", asked |-> {}, indexes |-> Empty, vector |-> Empty,
             scopes |-> {}, lexical |-> Empty, raced |-> FALSE]

(* assert_embedding_compatible: a directory without a record is accepted   *)
(* when the backend is the n-gram one and the first store has its width.   *)
Compatible ==
    \/ meta = "ours"
    \/ /\ meta = "none" /\ Ngram
       /\ \A t \in Tenant : (\A u \in 1 .. t - 1 : disk[u] = Absent) => disk[t] # Foreign

(* faiss_index_status                                                      *)
IndexStatus ==
    IF disk = Empty THEN "missing" ELSE IF Compatible THEN "ok" ELSE "mismatch"

(* An installation that was ingested before, one with another embedding,   *)
(* one from before the embedding was recorded, or one never ingested.      *)
Init ==
    /\ knowledge \in Shipped
    /\ \/ disk = knowledge /\ meta = "ours" /\ gen = 1
       \/ disk = [t \in Tenant |-> Foreign] /\ meta = "other" /\ gen = 1
       \/ disk \in Legacy /\ meta = "none" /\ gen = 0
       \/ disk = Empty /\ meta = "none" /\ gen = 0
    /\ role = [w \in Worker |-> "down"]
    /\ pc = [w \in Worker |-> "idle"]
    /\ mem = [w \in Worker |-> NoIndex]
    /\ rev = [w \in Worker |-> 0]
    /\ lex = [w \in Worker |-> NoTables]
    /\ search = [w \in Worker |-> NoSearch]
    /\ seen = [w \in Worker |-> 0]
    /\ jobs = [w \in Worker |-> 0]
    /\ work = [w \in Worker |-> Empty]
    /\ todo = [w \in Worker |-> {}]
    /\ events = 0
    /\ faulted = FALSE
    /\ skipped = FALSE
    /\ dropped = FALSE
    /\ patched = [w \in Worker |-> FALSE]

Goto(w, there) == pc' = [pc EXCEPT ![w] = there]
Happens == events < MaxEvents /\ events' = events + 1

-----------------------------------------------------------------------------
(* disk_index_revision: the id, or the file's mtime while the file is      *)
(* being rewritten.                                                        *)
disk_index_revision ==
    {gen} \union IF \E u \in Worker : pc[u] = "generation" THEN {Torn} ELSE {}

(* run and lifespan: require_index_for_serve, then load_faiss_index.       *)
Boot(w) ==
    /\ role[w] = "down"
    /\ IndexStatus = "ok"
    /\ \E r \in disk_index_revision : seen' = [seen EXCEPT ![w] = r]
    /\ role' = [role EXCEPT ![w] = "booting"]
    /\ Goto(w, "load")
    /\ UNCHANGED <<disks, mem, rev, lex, search, jobs, work, todo, ghosts, patched>>

(* search_tenant_documents takes the lock.                                 *)
Ask(w) ==
    /\ role[w] = "serving" /\ pc[w] = "idle"
    /\ \E asked \in Asked :
        search' = [search EXCEPT ![w] =
            [NoSearch EXCEPT !.stage = "vector", !.asked = asked,
                             !.raced = \E u \in Worker : pc[u] = "generation"]]
    /\ Goto(w, "search")
    /\ UNCHANGED <<disks, role, mem, rev, lex, seen, jobs, work, todo, ghosts, patched>>

Update(w, found) == search' = [search EXCEPT ![w] = found]

(* search_scopes: the scopes asked that the index has.                     *)
Present(w, index) == {t \in search[w].asked : index[t] # Absent}

(* _search_vector: the first get_indexes is the one that is searched, ...  *)
VectorIndexes(w, index, tables) ==
    /\ search[w].stage = "vector"
    /\ Update(w, [search[w] EXCEPT !.stage = "scopes", !.indexes = index])
    /\ Goto(w, "search")
    /\ lex' = [lex EXCEPT ![w] = tables]

(* ... in the scopes of the second; one that the first has not is a        *)
(* KeyError, and the search ends.                                          *)
VectorScopes(w, index, tables) ==
    LET s == search[w]
        scopes == Present(w, index)
    IN  /\ s.stage = "scopes"
        /\ \/ /\ \A t \in scopes : s.indexes[t] # Absent
              /\ Update(w, [s EXCEPT !.stage = "lexical", !.indexes = Empty, !.vector =
                     [t \in Tenant |-> IF t \in scopes THEN s.indexes[t] ELSE Absent]])
              /\ Goto(w, "search")
           \/ /\ \E t \in scopes : s.indexes[t] = Absent
              /\ Update(w, NoSearch)
              /\ Goto(w, "idle")
        /\ lex' = [lex EXCEPT ![w] = tables]

(* _search_bm25: the scopes of the third.                                  *)
LexicalScopes(w, index, tables) ==
    /\ search[w].stage = "lexical"
    /\ Update(w, [search[w] EXCEPT !.stage = "tables", !.scopes = Present(w, index)])
    /\ Goto(w, "search")
    /\ lex' = [lex EXCEPT ![w] = tables]

(* The next scope whose words are looked up: the loop has some fixed order.*)
NextScope(w) == CHOOSE t \in search[w].scopes : TRUE

LookUp(w, content) ==
    Update(w, [search[w] EXCEPT !.scopes = @ \ {NextScope(w)}, !.lexical[NextScope(w)] = content])

(* _bm25_index: a missing table is built from one more get_indexes, ...    *)
BuildTable(w, index, tables) ==
    /\ search[w].stage = "tables"
    /\ LookUp(w, index[NextScope(w)])
    /\ lex' = [lex EXCEPT ![w] = [tables EXCEPT ![NextScope(w)] = index[NextScope(w)]]]
    /\ Goto(w, "search")

(* ... a cached one is used.                                               *)
UseTable(w) ==
    /\ pc[w] = "search" /\ search[w].stage = "tables" /\ search[w].scopes # {}
    /\ lex[w][NextScope(w)] # Unbuilt
    /\ LookUp(w, lex[w][NextScope(w)])
    /\ UNCHANGED <<disks, role, pc, mem, rev, lex, seen, jobs, work, todo, ghosts, patched>>

(* A search goes on with what get_indexes returned.                        *)
Returned(w, index, tables) ==
    \/ VectorIndexes(w, index, tables) \/ VectorScopes(w, index, tables)
    \/ LexicalScopes(w, index, tables) \/ BuildTable(w, index, tables)

(* The search is about to call get_indexes.                                *)
Calls(w) ==
    /\ pc[w] = "search"
    /\ search[w].stage = "tables" => search[w].scopes # {} /\ lex[w][NextScope(w)] = Unbuilt

(* get_indexes: the revision is the disk's.                                *)
SearchLoaded(w) ==
    /\ Calls(w)
    /\ mem[w] # NoIndex /\ rev[w] \in disk_index_revision
    /\ Returned(w, mem[w], lex[w])
    /\ UNCHANGED <<disks, role, mem, rev, seen, jobs, work, todo, ghosts, patched>>

(* get_indexes finds another revision on disk.                             *)
SearchReloads(w) ==
    /\ Calls(w)
    /\ \E r \in disk_index_revision :
        /\ mem[w] = NoIndex \/ rev[w] # r
        /\ seen' = [seen EXCEPT ![w] = r]
    /\ Goto(w, "load")
    /\ UNCHANGED <<disks, role, mem, rev, lex, search, jobs, work, todo, ghosts, patched>>

Bug_Load(w) ==
    /\ pc[w] = "load"
    /\ IndexStatus = "ok"
    /\ mem' = [mem EXCEPT ![w] = disk]
    /\ rev' = [rev EXCEPT ![w] = seen[w]]
    /\ role' = [role EXCEPT ![w] = "serving"]
    /\ seen' = [seen EXCEPT ![w] = 0]
    /\ patched' = [patched EXCEPT ![w] = FALSE]
    /\ \/ search[w].stage = "none" /\ Goto(w, "idle") /\ UNCHANGED <<search, lex>>
       \/ Returned(w, disk, lex[w])
    /\ UNCHANGED <<disks, jobs, work, todo, ghosts>>

(* _read_indexes and _install_indexes with the revision read before; a     *)
(* search goes on with the new index, a worker that was starting serves.   *)
Load(w) ==
    /\ pc[w] = "load"
    /\ IndexStatus = "ok"
    /\ mem' = [mem EXCEPT ![w] = disk]
    /\ rev' = [rev EXCEPT ![w] = seen[w]]
    /\ role' = [role EXCEPT ![w] = "serving"]
    /\ seen' = [seen EXCEPT ![w] = 0]
    /\ patched' = [patched EXCEPT ![w] = FALSE]
    /\ \/ /\ search[w].stage = "none" /\ Goto(w, "idle")
          /\ lex' = [lex EXCEPT ![w] = NoTables] /\ UNCHANGED search
       \/ Returned(w, disk, NoTables)
    /\ UNCHANGED <<disks, jobs, work, todo, ghosts>>

(* IndexUnavailableError, or a file read while another process writes it.  *)
(* A worker that is starting gives up; a search fails.                     *)
LoadFails(w) ==
    /\ pc[w] = "load"
    /\ IndexStatus # "ok" \/ \E u \in Worker : pc[u] \in Persisting
    /\ role' = [role EXCEPT ![w] = IF @ = "booting" THEN "down" ELSE @]
    /\ seen' = [seen EXCEPT ![w] = 0]
    /\ Update(w, NoSearch)
    /\ Goto(w, "idle")
    /\ UNCHANGED <<disks, mem, rev, lex, jobs, work, todo, ghosts, patched>>

(* Both halves are there.                                                  *)
Searched(w) == pc[w] = "search" /\ search[w].stage = "tables" /\ search[w].scopes = {}

(* The hits are fused and the lock is released.                            *)
Answer(w) ==
    /\ Searched(w)
    /\ Update(w, NoSearch)
    /\ Goto(w, "idle")
    /\ UNCHANGED <<disks, role, mem, rev, lex, seen, jobs, work, todo, ghosts, patched>>

-----------------------------------------------------------------------------
(* ingest_knowledge: the upload is saved, or files were replaced by hand,  *)
(* and the ingest is left to a background task.                            *)
Upload(w) ==
    /\ role[w] = "serving" /\ Happens
    /\ \E t \in Tenant, v \in Version \union {Absent} :
        knowledge' = [knowledge EXCEPT ![t] = v]
    /\ jobs' = [jobs EXCEPT ![w] = @ + 1]
    /\ UNCHANGED <<disk, meta, gen, role, pc, mem, rev, lex, seen, work, todo,
                   faulted, skipped, dropped, search, patched>>

(* python main.py ingest                                                   *)
Command(w) ==
    /\ role[w] = "down" /\ Happens
    /\ role' = [role EXCEPT ![w] = "cli"]
    /\ jobs' = [jobs EXCEPT ![w] = 1]
    /\ UNCHANGED <<disks, pc, mem, rev, lex, seen, work, todo, faulted, skipped, dropped, search, patched>>

(* _stores_from_groups over the files: nothing is kept.                    *)
build_faiss_index == knowledge

Bug_Incremental(existing) ==
    [t \in Tenant |-> IF knowledge[t] = Absent THEN existing[t] ELSE knowledge[t]]

(* The loop of ingest_indexes: new chunks are added, then the chunks of    *)
(* replaced and of removed files are soft-deleted.                         *)
Incremental(existing) ==
    [t \in Tenant |->
        IF knowledge[t] # Absent THEN knowledge[t]
        ELSE IF existing[t] = Absent THEN Absent ELSE Gone]

(* existing stores are changed in place, new tenants only enter `working`. *)
InPlace(existing, working) ==
    [t \in Tenant |-> IF existing[t] = Absent THEN Absent ELSE working[t]]

(* _indexes, else what _read_indexes_or_rebuild finds on disk.             *)
Existing(w) ==
    IF mem[w] # NoIndex THEN mem[w] ELSE IF IndexStatus = "ok" THEN disk ELSE Empty

Takes(w) ==
    /\ role[w] \in {"serving", "cli"} /\ pc[w] = "idle" /\ jobs[w] > 0
    /\ jobs' = [jobs EXCEPT ![w] = @ - 1]

Raced(w) == \E u \in Worker \ {w} : pc[u] \in Ingesting

(* ingest_indexes --rebuild, or with no usable index to start from.        *)
Rebuild(w) ==
    /\ Takes(w) /\ knowledge # Empty
    /\ work' = [work EXCEPT ![w] = build_faiss_index]
    /\ faulted' = (faulted \/ Raced(w))
    /\ Goto(w, "stale")
    /\ UNCHANGED <<disks, role, mem, rev, lex, seen, todo, events, skipped, dropped, search, patched>>

(* ingest_indexes: the stores are changed in place; nothing is written     *)
(* when nothing was added or retired.                                      *)
Ingest(w) ==
    LET existing == Existing(w)
        working == Incremental(existing)
    IN  /\ Takes(w) /\ knowledge # Empty /\ existing # Empty
        /\ work' = [work EXCEPT ![w] = working]
        /\ mem' = IF mem[w] = NoIndex THEN mem
                  ELSE [mem EXCEPT ![w] = InPlace(existing, working)]
        /\ Goto(w, IF working # existing THEN "stale" ELSE "install")
        /\ patched' = [patched EXCEPT ![w] = @ \/ mem' # mem]
        /\ faulted' = (faulted \/ Raced(w))
        /\ skipped' = (skipped \/ (working = existing /\ working # disk))
        /\ UNCHANGED <<disks, role, rev, lex, seen, todo, events, dropped, search>>

(* The function returns and its locals are gone; so is the process of a    *)
(* command.                                                                *)
Exit(w) ==
    /\ role' = [role EXCEPT ![w] = IF @ = "cli" THEN "down" ELSE @]
    /\ work' = [work EXCEPT ![w] = Empty]
    /\ todo' = [todo EXCEPT ![w] = {}]
    /\ Goto(w, "idle")

(* The knowledge is empty or unreadable, or the index is half-written.     *)
IngestRefused(w) ==
    /\ Takes(w)
    /\ knowledge = Empty \/ \E u \in Worker : pc[u] \in Persisting
    /\ Exit(w)
    /\ dropped' = TRUE
    /\ UNCHANGED <<disks, mem, rev, lex, seen, events, faulted, skipped, search, patched>>

(* The embedding of tenant t's new chunks fails: the tenants before it are *)
(* changed in memory.  The BM25 tables are not rebuilt.                    *)
EmbeddingFails(w) ==
    LET existing == Existing(w)
        working == Incremental(existing)
    IN  /\ Takes(w) /\ knowledge # Empty /\ existing # Empty
        /\ \E t \in Tenant :
            /\ working[t] \notin {existing[t], Gone}
            /\ mem' = IF mem[w] = NoIndex THEN mem
                      ELSE [mem EXCEPT ![w] = [u \in Tenant |->
                               IF u < t THEN InPlace(existing, working)[u] ELSE existing[u]]]
        /\ Exit(w)
        /\ patched' = [patched EXCEPT ![w] = @ \/ mem' # mem]
        /\ faulted' = (faulted \/ mem' # mem)
        /\ dropped' = TRUE
        /\ UNCHANGED <<disks, rev, lex, seen, events, skipped, search>>

-----------------------------------------------------------------------------
(* _persist_indexes: directories of tenants without a store are removed.   *)
RemoveStale(w) ==
    /\ pc[w] = "stale"
    /\ disk' = [t \in Tenant |-> IF work[w][t] = Absent THEN Absent ELSE disk[t]]
    /\ todo' = [todo EXCEPT ![w] = {t \in Tenant : work[w][t] # Absent}]
    /\ Goto(w, "save")
    /\ UNCHANGED <<knowledge, meta, gen, role, mem, rev, lex, seen, jobs, work, ghosts, search, patched>>

SaveStore(w) ==
    /\ pc[w] = "save"
    /\ \E t \in todo[w] :
        /\ disk' = [disk EXCEPT ![t] = work[w][t]]
        /\ todo' = [todo EXCEPT ![w] = @ \ {t}]
    /\ UNCHANGED <<knowledge, meta, gen, role, pc, mem, rev, lex, seen, jobs, work, ghosts, search, patched>>

(* The generation is about to change: the searches of the other processes  *)
(* that are at work are marked.                                            *)
Publishes ==
    search' = [u \in Worker |->
        IF search[u].stage = "none" THEN search[u] ELSE [search[u] EXCEPT !.raced = TRUE]]

Bug_WriteMeta(w) ==
    /\ pc[w] = "save"
    /\ meta' = "ours"
    /\ Goto(w, IF todo[w] = {} THEN "generation" ELSE "save")
    /\ UNCHANGED <<knowledge, disk, gen, role, mem, rev, lex, seen, jobs, work, todo, ghosts, search, patched>>

WriteMeta(w) ==
    /\ pc[w] = "save" /\ todo[w] = {}
    /\ meta' = "ours"
    /\ Publishes
    /\ Goto(w, "generation")
    /\ UNCHANGED <<knowledge, disk, gen, role, mem, rev, lex, seen, jobs, work, todo, ghosts, patched>>

Bug_WriteGeneration(w) ==
    /\ pc[w] = "generation"
    /\ Goto(w, "install")
    /\ UNCHANGED <<disks, role, mem, rev, lex, seen, jobs, work, todo, ghosts, search, patched>>

WriteGeneration(w) ==
    /\ pc[w] = "generation"
    /\ gen' = gen + 1
    /\ Goto(w, "install")
    /\ UNCHANGED <<knowledge, disk, meta, role, mem, rev, lex, seen, jobs, work, todo, ghosts, search, patched>>

(* _install_indexes with the revision now on disk.                         *)
Install(w) ==
    /\ pc[w] = "install"
    /\ mem' = [mem EXCEPT ![w] = IF role[w] = "cli" THEN NoIndex ELSE work[w]]
    /\ \E r \in disk_index_revision :
        rev' = [rev EXCEPT ![w] = IF role[w] = "cli" THEN 0 ELSE r]
    /\ lex' = [lex EXCEPT ![w] = NoTables]
    /\ patched' = [patched EXCEPT ![w] = FALSE]
    /\ Exit(w)
    /\ UNCHANGED <<disks, seen, jobs, ghosts, search>>

(* An exception in _persist_indexes: memory keeps what the loop changed.   *)
PersistFails(w) ==
    /\ pc[w] \in Persisting
    /\ Exit(w)
    /\ faulted' = TRUE
    /\ dropped' = TRUE
    /\ UNCHANGED <<disks, mem, rev, lex, seen, jobs, events, skipped, search, patched>>

(* The process is killed; its background tasks are not recorded anywhere.  *)
Crash(w) ==
    /\ role[w] # "down" /\ Happens
    /\ role' = [role EXCEPT ![w] = "down"]
    /\ mem' = [mem EXCEPT ![w] = NoIndex]
    /\ rev' = [rev EXCEPT ![w] = 0]
    /\ lex' = [lex EXCEPT ![w] = NoTables]
    /\ search' = [search EXCEPT ![w] = NoSearch]
    /\ patched' = [patched EXCEPT ![w] = FALSE]
    /\ seen' = [seen EXCEPT ![w] = 0]
    /\ work' = [work EXCEPT ![w] = Empty]
    /\ todo' = [todo EXCEPT ![w] = {}]
    /\ jobs' = [jobs EXCEPT ![w] = 0]
    /\ Goto(w, "idle")
    /\ faulted' = (faulted \/ pc[w] \in Persisting)
    /\ dropped' = (dropped \/ jobs[w] > 0 \/ pc[w] \in Persisting)
    /\ UNCHANGED <<disks, skipped>>

-----------------------------------------------------------------------------
Reads(w) == SearchLoaded(w) \/ SearchReloads(w) \/ Load(w) \/ LoadFails(w)
Searches(w) == Boot(w) \/ Ask(w) \/ Reads(w) \/ UseTable(w) \/ Answer(w)
Steps(w) == RemoveStale(w) \/ SaveStore(w) \/ WriteMeta(w) \/ WriteGeneration(w) \/ Install(w)
Starts(w) == Rebuild(w) \/ Ingest(w) \/ IngestRefused(w) \/ EmbeddingFails(w)
Outside(w) == Upload(w) \/ Command(w) \/ PersistFails(w) \/ Crash(w)

Next == \E w \in Worker : Searches(w) \/ Steps(w) \/ Starts(w) \/ Outside(w)

Spec == Init /\ [][Next]_vars

(* The lock holder goes on, a waiting background task gets the lock        *)
(* between two searches, and questions keep coming to a serving worker.    *)
Fairness ==
    \A w \in Worker :
        /\ WF_vars(Steps(w)) /\ SF_vars(Starts(w)) /\ WF_vars(Ask(w))
        /\ WF_vars(Reads(w) \/ UseTable(w) \/ Answer(w))

FairSpec == Spec /\ Fairness

-----------------------------------------------------------------------------
TypeOK ==
    /\ knowledge \in [Tenant -> Version \union {Absent}]
    /\ disk \in Index /\ meta \in {"none", "ours", "other"} /\ gen \in Nat
    /\ role \in [Worker -> {"down", "booting", "serving", "cli"}]
    /\ pc \in [Worker -> PC]
    /\ mem \in [Worker -> Index \union {NoIndex}]
    /\ rev \in [Worker -> Nat \union {Torn}]
    /\ lex \in [Worker -> [Tenant -> Content \union {Unbuilt}]]
    /\ search \in [Worker -> Search]
    /\ seen \in [Worker -> Nat \union {Torn}]
    /\ jobs \in [Worker -> Nat]
    /\ work \in [Worker -> Index]
    /\ todo \in [Worker -> SUBSET Tenant]
    /\ events \in Nat
    /\ faulted \in BOOLEAN /\ skipped \in BOOLEAN /\ dropped \in BOOLEAN
    /\ patched \in [Worker -> BOOLEAN]

(* The generation is what makes a copy current: as long as every ingest    *)
(* ran to its end, alone, and none took a stale copy for the newest, a     *)
(* worker whose revision is the disk's holds exactly what is on disk       *)
(* whenever nobody is writing, however its loads fell between the steps of *)
(* earlier ingests.  get_indexes, _persist_indexes                         *)
RevisionMeansContent ==
    ~faulted /\ ~skipped /\ (\A u \in Worker : pc[u] \notin Ingesting) =>
        \A w \in Worker : mem[w] # NoIndex /\ rev[w] = gen => mem[w] = disk

(* No search ever runs over stores built with another embedding, through   *)
(* crashes, failures and concurrent ingests: embedding.json is written     *)
(* only after every store is.  assert_embedding_compatible                 *)
NeverForeign ==
    \A w \in Worker : mem[w] # NoIndex => \A t \in Tenant : mem[w][t] # Foreign

(* The two halves of a hybrid search read the index up to four times, and  *)
(* still look at the same content of every scope, unless another process   *)
(* published a generation during the search or this one holds stores that  *)
(* a failed ingest changed in place: the lock keeps this process's own     *)
(* ingests out, the revision its reloads, and _install_indexes drops the   *)
(* BM25 tables.  _search_vector, _search_bm25, _bm25_index                 *)
HalvesAgree ==
    \A w \in Worker :
        Searched(w) /\ ~search[w].raced /\ ~patched[w] => search[w].vector = search[w].lexical

(* Two versions of one file, each from a half of the search.               *)
OldWithNew(s) ==
    \E t \in s.asked : s.vector[t] # s.lexical[t] /\ {s.vector[t], s.lexical[t]} \subseteq Version

(* "Done under the lock, so that old and new cannot be searched at the     *)
(* same time" (ingest_indexes): no search finds both versions of a file.   *)
OldNeverWithNew == \A w \in Worker : Searched(w) => ~OldWithNew(search[w])

(* Once uploads and crashes end, every serving worker comes to hold the    *)
(* knowledge, unless an ingest was lost, hit by a fault, or skipped by a   *)
(* stale worker on the way.  get_indexes, ingest_indexes                   *)
Converges ==
    <>[](faulted \/ skipped \/ dropped \/ \A w \in Worker :
            mem[w] # NoIndex => Live(mem[w]) = knowledge)

(* What ingest_knowledge answers the administrator: once the ingest has    *)
(* completed, without fault or race, every worker will hot-load the index. *)
EveryWorkerReloads ==
    <>[](faulted \/ dropped \/ \A w \in Worker :
            mem[w] # NoIndex => Live(mem[w]) = knowledge)
=============================================================================
