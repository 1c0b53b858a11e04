-------------------------- MODULE IndexIngestProofs --------------------------
(***************************************************************************)
(* Proofs about IndexIngest, for any number of processes, tenants and      *)
(* versions of their files.                                                *)
(***************************************************************************)
EXTENDS IndexIngest, TLAPS

Pure(index) == \A t \in Tenant : index[t] # Foreign

Tables == [Tenant -> Content \union {Unbuilt}]

LEMMA EmptyIndex == Empty \in Index /\ Pure(Empty) /\ Empty # NoIndex
    BY IndexAssumption DEF Empty, Index, Content, Pure

LEMMA EmptySearch == NoSearch \in Search /\ NoTables \in Tables /\ NoSearch.stage = "none"
    BY EmptyIndex DEF NoSearch, Search, Stage, NoTables, Tables

LEMMA WorkingTyped ==
    ASSUME TypeOK, NEW w \in Worker
    PROVE  /\ Existing(w) \in Index
           /\ Incremental(Existing(w)) \in Index /\ Pure(Incremental(Existing(w)))
           /\ InPlace(Existing(w), Incremental(Existing(w))) \in Index
           /\ Pure(InPlace(Existing(w), Incremental(Existing(w))))
           /\ build_faiss_index \in Index /\ Pure(build_faiss_index)
<1>1. Existing(w) \in Index
    BY EmptyIndex DEF TypeOK, Existing
<1>2. \A t \in Tenant : knowledge[t] \in Version \union {Absent}
    BY DEF TypeOK
<1>3. Incremental(Existing(w)) \in Index /\ Pure(Incremental(Existing(w)))
    BY <1>2, IndexAssumption DEF Incremental, Index, Content, Pure
<1>4. ASSUME NEW e \in Index, NEW k \in Index, Pure(k)
      PROVE  InPlace(e, k) \in Index /\ Pure(InPlace(e, k))
    BY <1>4, IndexAssumption DEF InPlace, Index, Content, Pure
<1>5. build_faiss_index \in Index /\ Pure(build_faiss_index)
    BY <1>2, IndexAssumption DEF TypeOK, build_faiss_index, Index, Content, Pure
<1> QED
    BY <1>1, <1>3, <1>4, <1>5

LEMMA RevisionTyped ==
    ASSUME TypeOK PROVE disk_index_revision \subseteq Nat \union {Torn}
    BY DEF TypeOK, disk_index_revision

-----------------------------------------------------------------------------
LEMMA InitTypes == Init => TypeOK
<1> SUFFICES ASSUME Init PROVE TypeOK
    OBVIOUS
<1>1. knowledge \in [Tenant -> Version \union {Absent}]
    BY IndexAssumption DEF Init
<1>2. disk \in Index
    <2>1. CASE disk = knowledge
        BY <1>1, <2>1 DEF Index, Content
    <2>2. CASE disk = [t \in Tenant |-> Foreign]
        BY <2>2 DEF Index, Content
    <2> QED
        BY <2>1, <2>2, EmptyIndex, IndexAssumption DEF Init
<1>3. meta \in {"none", "ours", "other"}
    BY DEF Init
<1>4. gen \in Nat
    BY DEF Init
<1> QED
    BY <1>1, <1>2, <1>3, <1>4, EmptyIndex, EmptySearch DEF Init, TypeOK, PC, Tables

LEMMA ExitTypes ==
    ASSUME TypeOK, NEW w \in Worker, Exit(w)
    PROVE  /\ role' \in [Worker -> {"down", "booting", "serving", "cli"}]
           /\ pc' \in [Worker -> PC] /\ work' \in [Worker -> Index]
           /\ todo' \in [Worker -> SUBSET Tenant]
    BY EmptyIndex DEF TypeOK, Exit, Goto, PC

LEMMA PatchedTypes ==
    ASSUME TypeOK, NEW w \in Worker, patched' = [patched EXCEPT ![w] = @ \/ mem' # mem]
    PROVE  patched' \in [Worker -> BOOLEAN]
    BY DEF TypeOK

LEMMA TakesTypes ==
    ASSUME TypeOK, NEW w \in Worker, Takes(w) PROVE jobs' \in [Worker -> Nat]
    BY DEF TypeOK, Takes

(* Words of one more scope.                                                *)
LEMMA LookUpTypes ==
    ASSUME TypeOK, NEW w \in Worker, NEW c, NextScope(w) \in Tenant => c \in Content, LookUp(w, c)
    PROVE  search' \in [Worker -> Search]
<1> DEFINE n == NextScope(w)
           s == search[w]
           found == [s EXCEPT !.scopes = @ \ {n}, !.lexical[n] = c]
<1>1. s \in Search /\ search' = [search EXCEPT ![w] = found]
    BY DEF TypeOK, LookUp, Update
<1> HIDE DEF n, s
<1>2. [s.lexical EXCEPT ![n] = c] \in Index
    BY <1>1 DEF Search, Index, n
<1>3. found \in Search
    BY <1>1, <1>2 DEF Search
<1> QED
    BY <1>1, <1>3 DEF TypeOK

(* What get_indexes returns reaches only the search at work.               *)
LEMMA ReturnedTypes ==
    ASSUME TypeOK, NEW w \in Worker, NEW index \in Index, NEW tables \in Tables,
           Returned(w, index, tables)
    PROVE  /\ search' \in [Worker -> Search] /\ lex' \in [Worker -> Tables]
           /\ pc' \in [Worker -> PC] /\ pc'[w] \in {"idle", "search"}
           /\ \A u \in Worker : u # w => pc'[u] = pc[u] /\ search'[u] = search[u] /\ lex'[u] = lex[u]
<1>1. search[w] \in Search /\ search \in [Worker -> Search] /\ lex \in [Worker -> Tables]
      /\ pc \in [Worker -> PC]
    BY DEF TypeOK, Tables
<1>2. ASSUME VectorIndexes(w, index, tables)
      PROVE  /\ search' \in [Worker -> Search] /\ lex' = [lex EXCEPT ![w] = tables]
             /\ pc' = [pc EXCEPT ![w] = "search"]
             /\ \A u \in Worker : u # w => search'[u] = search[u]
    BY <1>1, <1>2 DEF VectorIndexes, Update, Goto, Search, Stage
<1>3. ASSUME VectorScopes(w, index, tables)
      PROVE  /\ search' \in [Worker -> Search] /\ lex' = [lex EXCEPT ![w] = tables]
             /\ pc' \in {[pc EXCEPT ![w] = "search"], [pc EXCEPT ![w] = "idle"]}
             /\ \A u \in Worker : u # w => search'[u] = search[u]
    <2> DEFINE s == search[w]
               vector == [t \in Tenant |-> IF t \in Present(w, index) THEN s.indexes[t] ELSE Absent]
               found == [s EXCEPT !.stage = "lexical", !.indexes = Empty, !.vector = vector]
    <2>1. vector \in Index
        BY <1>1 DEF Search, Index, Content
    <2>2. found \in Search
        BY <1>1, <2>1, EmptyIndex DEF Search, Stage
    <2>3. search' = [search EXCEPT ![w] = found] \/ search' = [search EXCEPT ![w] = NoSearch]
        BY <1>3 DEF VectorScopes, Update
    <2>4. lex' = [lex EXCEPT ![w] = tables]
        BY <1>3 DEF VectorScopes
    <2>5. pc' \in {[pc EXCEPT ![w] = "search"], [pc EXCEPT ![w] = "idle"]}
        BY <1>3 DEF VectorScopes, Goto
    <2> HIDE DEF found
    <2> QED
        BY <1>1, <2>2, <2>3, <2>4, <2>5, EmptySearch
<1>4. ASSUME LexicalScopes(w, index, tables)
      PROVE  /\ search' \in [Worker -> Search] /\ lex' = [lex EXCEPT ![w] = tables]
             /\ pc' = [pc EXCEPT ![w] = "search"]
             /\ \A u \in Worker : u # w => search'[u] = search[u]
    <2>1. Present(w, index) \in SUBSET Tenant
        BY <1>1 DEF Present, Search
    <2> QED
        BY <1>1, <1>4, <2>1 DEF LexicalScopes, Update, Goto, Search, Stage
<1>5. ASSUME BuildTable(w, index, tables)
      PROVE  /\ search' \in [Worker -> Search] /\ lex' \in [Worker -> Tables]
             /\ \A u \in Worker : u # w => lex'[u] = lex[u]
             /\ pc' = [pc EXCEPT ![w] = "search"]
             /\ \A u \in Worker : u # w => search'[u] = search[u]
    <2> DEFINE n == NextScope(w)
               built == [tables EXCEPT ![n] = index[n]]
    <2>1. n \in Tenant => index[n] \in Content
        BY DEF Index
    <2>2. built \in Tables
        BY <2>1 DEF Tables
    <2>3. lex' = [lex EXCEPT ![w] = built] /\ LookUp(w, index[n]) /\ pc' = [pc EXCEPT ![w] = "search"]
        BY <1>5 DEF BuildTable, Goto
    <2>4. search' \in [Worker -> Search]
        BY <2>1, <2>3, LookUpTypes
    <2>5. \A u \in Worker : u # w => search'[u] = search[u]
        BY <1>1, <2>3 DEF LookUp, Update
    <2> HIDE DEF built
    <2> QED
        BY <1>1, <2>2, <2>3, <2>4, <2>5

<1>6. search' \in [Worker -> Search] /\ \A u \in Worker : u # w => search'[u] = search[u]
    BY <1>2, <1>3, <1>4, <1>5 DEF Returned
<1>7. lex' \in [Worker -> Tables] /\ \A u \in Worker : u # w => lex'[u] = lex[u]
    BY <1>1, <1>2, <1>3, <1>4, <1>5 DEF Returned
<1>8. pc' \in {[pc EXCEPT ![w] = "search"], [pc EXCEPT ![w] = "idle"]}
    BY <1>2, <1>3, <1>4, <1>5 DEF Returned
<1> QED
    BY <1>1, <1>6, <1>7, <1>8 DEF PC

(* The steps of a search that read nothing from the disk: what they leave  *)
(* alone, and whose state they change.                                     *)
Local(w) == Ask(w) \/ SearchLoaded(w) \/ SearchReloads(w) \/ UseTable(w) \/ Answer(w)

LEMMA LocalStep ==
    ASSUME TypeOK, NEW w \in Worker, Local(w)
    PROVE  /\ UNCHANGED <<disks, role, mem, rev, jobs, work, todo, ghosts, patched>>
           /\ search' \in [Worker -> Search] /\ lex' \in [Worker -> Tables]
           /\ pc' \in [Worker -> PC] /\ seen' \in [Worker -> Nat \union {Torn}]
           /\ pc[w] \in {"idle", "search"} /\ pc'[w] \in {"idle", "search", "load"}
           /\ role[w] = "serving" \/ pc[w] = "search"
           /\ \A u \in Worker : u # w => pc'[u] = pc[u] /\ search'[u] = search[u]
                                         /\ lex'[u] = lex[u] /\ seen'[u] = seen[u]
           /\ seen'[w] = seen[w] \/ seen'[w] \in disk_index_revision
<1>0. search[w] \in Search /\ search \in [Worker -> Search] /\ lex \in [Worker -> Tables]
      /\ pc \in [Worker -> PC] /\ seen \in [Worker -> Nat \union {Torn}]
    BY DEF TypeOK, Tables
<1>1. CASE Ask(w)
    <2>1. PICK asked \in Asked :
              search' = [search EXCEPT ![w] =
                  [NoSearch EXCEPT !.stage = "vector", !.asked = asked,
                                   !.raced = \E u \in Worker : pc[u] = "generation"]]
        BY <1>1 DEF Ask
    <2>2. asked \in SUBSET Tenant
        BY IndexAssumption
    <2>3. (\E u \in Worker : pc[u] = "generation") \in BOOLEAN
        OBVIOUS
    <2> DEFINE raced == \E u \in Worker : pc[u] = "generation"
               new == [NoSearch EXCEPT !.stage = "vector", !.asked = asked, !.raced = raced]
    <2>4. raced \in BOOLEAN
        OBVIOUS
    <2> HIDE DEF raced
    <2>5. new \in Search
        BY <2>2, <2>4, EmptySearch DEF Search, Stage
    <2>6. search' = [search EXCEPT ![w] = new]
        BY <2>1 DEF raced
    <2> HIDE DEF new
    <2> QED
        BY <1>0, <1>1, <2>5, <2>6 DEF Ask, Goto, PC
<1>2. CASE SearchLoaded(w)
    <2>1. mem[w] \in Index /\ lex[w] \in Tables
        BY <1>0, <1>2 DEF SearchLoaded, TypeOK
    <2>2. Returned(w, mem[w], lex[w]) /\ pc[w] = "search"
          /\ UNCHANGED <<disks, role, mem, rev, seen, jobs, work, todo, ghosts, patched>>
        BY <1>2 DEF SearchLoaded, Calls
    <2>3. /\ search' \in [Worker -> Search] /\ lex' \in [Worker -> Tables]
          /\ pc' \in [Worker -> PC] /\ pc'[w] \in {"idle", "search"}
          /\ \A u \in Worker : u # w => pc'[u] = pc[u] /\ search'[u] = search[u] /\ lex'[u] = lex[u]
        BY <2>1, <2>2, ReturnedTypes
    <2> QED
        BY <1>0, <2>2, <2>3
<1>3. CASE SearchReloads(w)
    BY <1>0, <1>3, RevisionTyped DEF SearchReloads, Calls, Goto, PC
<1>4. CASE UseTable(w)
    <2>1. NextScope(w) \in Tenant => lex[w][NextScope(w)] \in Content
        BY <1>0, <1>4 DEF UseTable, Tables
    <2>2. LookUp(w, lex[w][NextScope(w)]) /\ pc[w] = "search"
          /\ UNCHANGED <<disks, role, pc, mem, rev, lex, seen, jobs, work, todo, ghosts, patched>>
        BY <1>4 DEF UseTable
    <2>3. search' \in [Worker -> Search]
        BY <2>1, <2>2, LookUpTypes
    <2>4. \A u \in Worker : u # w => search'[u] = search[u]
        BY <1>0, <2>2 DEF LookUp, Update
    <2> QED
        BY <1>0, <2>2, <2>3, <2>4
<1>5. CASE Answer(w)
    BY <1>0, <1>5, EmptySearch DEF Answer, Searched, Update, Goto, PC
<1> QED
    BY <1>1, <1>2, <1>3, <1>4, <1>5 DEF Local

(* A load replaces the index of one process.                               *)
LEMMA LoadStep ==
    ASSUME TypeOK, NEW w \in Worker, Load(w)
    PROVE  /\ UNCHANGED <<disks, jobs, work, todo, ghosts>>
           /\ search' \in [Worker -> Search] /\ lex' \in [Worker -> Tables]
           /\ pc' \in [Worker -> PC] /\ pc[w] = "load" /\ pc'[w] \in {"idle", "search"}
           /\ \A u \in Worker : u # w => pc'[u] = pc[u] /\ search'[u] = search[u] /\ lex'[u] = lex[u]
<1>1. disk \in Index /\ NoTables \in Tables /\ pc \in [Worker -> PC] /\ lex \in [Worker -> Tables]
      /\ search \in [Worker -> Search]
    BY EmptySearch DEF TypeOK, Tables
<1>2. pc[w] = "load" /\ UNCHANGED <<disks, jobs, work, todo, ghosts>>
    BY DEF Load
<1>3. CASE Returned(w, disk, NoTables)
    <2>1. /\ search' \in [Worker -> Search] /\ lex' \in [Worker -> Tables]
          /\ pc' \in [Worker -> PC] /\ pc'[w] \in {"idle", "search"}
          /\ \A u \in Worker : u # w => pc'[u] = pc[u] /\ search'[u] = search[u] /\ lex'[u] = lex[u]
        BY <1>1, <1>3, ReturnedTypes
    <2> QED
        BY <1>2, <2>1
<1>4. CASE UNCHANGED search /\ Goto(w, "idle") /\ lex' = [lex EXCEPT ![w] = NoTables]
    BY <1>1, <1>2, <1>4 DEF Goto, PC
<1> QED
    BY <1>3, <1>4 DEF Load

LEMMA NextTypes == TypeOK /\ [Next]_vars => TypeOK'
<1> SUFFICES ASSUME TypeOK, [Next]_vars PROVE TypeOK'
    OBVIOUS
<1> USE DEF disks, ghosts
<1>1. ASSUME NEW w \in Worker, Boot(w) PROVE TypeOK'
    BY <1>1, RevisionTyped DEF Boot, TypeOK, Goto, PC
<1>2. ASSUME NEW w \in Worker, Local(w) PROVE TypeOK'
    <2>1. /\ UNCHANGED <<disks, role, mem, rev, jobs, work, todo, ghosts, patched>>
          /\ search' \in [Worker -> Search] /\ lex' \in [Worker -> Tables]
          /\ pc' \in [Worker -> PC] /\ seen' \in [Worker -> Nat \union {Torn}]
        BY <1>2, LocalStep
    <2> QED
        BY <2>1 DEF TypeOK, Tables
<1>4. ASSUME NEW w \in Worker, Load(w) PROVE TypeOK'
    <2>1. /\ UNCHANGED <<disks, jobs, work, todo, ghosts>>
          /\ search' \in [Worker -> Search] /\ lex' \in [Worker -> Tables]
          /\ pc' \in [Worker -> PC]
        BY <1>4, LoadStep
    <2>2. /\ mem' = [mem EXCEPT ![w] = disk] /\ rev' = [rev EXCEPT ![w] = seen[w]]
          /\ role' = [role EXCEPT ![w] = "serving"] /\ seen' = [seen EXCEPT ![w] = 0]
          /\ patched' = [patched EXCEPT ![w] = FALSE]
        BY <1>4 DEF Load
    <2>3. patched' \in [Worker -> BOOLEAN]
        BY <2>2, Zenon DEF TypeOK
    <2> QED
        BY <2>1, <2>2, <2>3 DEF TypeOK, Tables
<1>5. ASSUME NEW w \in Worker, LoadFails(w) PROVE TypeOK'
    BY <1>5, EmptySearch DEF LoadFails, TypeOK, Goto, Update, PC
<1>6. ASSUME NEW w \in Worker, RemoveStale(w) PROVE TypeOK'
    <2>1. disk' \in Index
        BY <1>6 DEF RemoveStale, TypeOK, Index, Content
    <2>2. todo' \in [Worker -> SUBSET Tenant] /\ pc' \in [Worker -> PC]
        BY <1>6 DEF RemoveStale, TypeOK, Goto, PC, Ingesting, Persisting
    <2> QED
        BY <1>6, <2>1, <2>2 DEF RemoveStale, TypeOK
<1>7. ASSUME NEW w \in Worker, SaveStore(w) PROVE TypeOK'
    <2>1. disk' \in Index
        BY <1>7 DEF SaveStore, TypeOK, Index
    <2>2. todo' \in [Worker -> SUBSET Tenant]
        BY <1>7 DEF SaveStore, TypeOK
    <2> QED
        BY <1>7, <2>1, <2>2 DEF SaveStore, TypeOK
<1>8. ASSUME NEW w \in Worker, WriteMeta(w) PROVE TypeOK'
    <2>1. search' \in [Worker -> Search]
        <3>1. \A s \in Search : [s EXCEPT !.raced = TRUE] \in Search
            BY DEF Search
        <3> QED
            BY <1>8, <3>1 DEF WriteMeta, Publishes, TypeOK
    <2> QED
        BY <1>8, <2>1 DEF WriteMeta, TypeOK, Goto, PC, Ingesting, Persisting
<1>9. ASSUME NEW w \in Worker, WriteGeneration(w) PROVE TypeOK'
    BY <1>9 DEF WriteGeneration, TypeOK, Goto, PC, Ingesting
<1>10. ASSUME NEW w \in Worker, Install(w) PROVE TypeOK'
    <2>1. mem' \in [Worker -> Index \union {NoIndex}] /\ lex' \in [Worker -> Tables]
        BY <1>10, EmptySearch DEF Install, TypeOK, Tables
    <2>3. patched' \in [Worker -> BOOLEAN]
        BY <1>10, Zenon DEF Install, TypeOK
    <2>2. rev' \in [Worker -> Nat \union {Torn}]
        BY <1>10, RevisionTyped DEF Install, TypeOK
    <2> QED
        BY <1>10, <2>1, <2>2, <2>3, ExitTypes DEF Install, TypeOK, Tables
<1>11. ASSUME NEW w \in Worker, Rebuild(w) PROVE TypeOK'
    <2>1. work' \in [Worker -> Index] /\ pc' \in [Worker -> PC]
        BY <1>11, WorkingTyped DEF Rebuild, TypeOK, Goto, PC, Ingesting, Persisting
    <2>2. faulted' \in BOOLEAN
        BY <1>11 DEF Rebuild, TypeOK
    <2> QED
        BY <1>11, <2>1, <2>2, TakesTypes DEF Rebuild, TypeOK
<1>12. ASSUME NEW w \in Worker, Ingest(w) PROVE TypeOK'
    <2>1. work' \in [Worker -> Index] /\ mem' \in [Worker -> Index \union {NoIndex}]
        BY <1>12, WorkingTyped DEF Ingest, TypeOK
    <2>2. pc' \in [Worker -> PC]
        BY <1>12 DEF Ingest, TypeOK, Goto, PC, Ingesting, Persisting
    <2>3. faulted' \in BOOLEAN /\ skipped' \in BOOLEAN
        BY <1>12 DEF Ingest, TypeOK
    <2>4. patched' \in [Worker -> BOOLEAN]
        BY <1>12, PatchedTypes DEF Ingest
    <2> QED
        BY <1>12, <2>1, <2>2, <2>3, <2>4, TakesTypes DEF Ingest, TypeOK
<1>13. ASSUME NEW w \in Worker, IngestRefused(w) PROVE TypeOK'
    BY <1>13, TakesTypes, ExitTypes DEF IngestRefused, TypeOK
<1>14. ASSUME NEW w \in Worker, EmbeddingFails(w) PROVE TypeOK'
    <2> DEFINE existing == Existing(w)
               changed == InPlace(existing, Incremental(existing))
    <2>1. existing \in Index /\ changed \in Index
        BY WorkingTyped
    <2>2. PICK t \in Tenant :
                mem' = IF mem[w] = NoIndex THEN mem
                       ELSE [mem EXCEPT ![w] = [u \in Tenant |->
                                IF u < t THEN changed[u] ELSE existing[u]]]
        BY <1>14 DEF EmbeddingFails
    <2> HIDE DEF existing, changed
    <2>3. [u \in Tenant |-> IF u < t THEN changed[u] ELSE existing[u]] \in Index
        BY <2>1 DEF Index
    <2>4. mem' \in [Worker -> Index \union {NoIndex}]
        BY <2>2, <2>3 DEF TypeOK
    <2>5. faulted' \in BOOLEAN /\ dropped' \in BOOLEAN
        BY <1>14 DEF EmbeddingFails, TypeOK
    <2>6. UNCHANGED <<disks, rev, lex, seen, events, skipped, search>> /\ Takes(w) /\ Exit(w)
        BY <1>14 DEF EmbeddingFails
    <2>7. patched' \in [Worker -> BOOLEAN]
        BY <1>14, PatchedTypes DEF EmbeddingFails
    <2> QED
        BY <2>4, <2>5, <2>6, <2>7, TakesTypes, ExitTypes DEF TypeOK
<1>15. ASSUME NEW w \in Worker, Upload(w) PROVE TypeOK'
    BY <1>15 DEF Upload, TypeOK, Happens
<1>16. ASSUME NEW w \in Worker, Command(w) PROVE TypeOK'
    BY <1>16 DEF Command, TypeOK, Happens
<1>17. ASSUME NEW w \in Worker, PersistFails(w) PROVE TypeOK'
    BY <1>17, ExitTypes DEF PersistFails, TypeOK
<1>18. ASSUME NEW w \in Worker, Crash(w) PROVE TypeOK'
    <2>1. faulted' \in BOOLEAN /\ dropped' \in BOOLEAN
        BY <1>18 DEF Crash, TypeOK
    <2>2. patched' \in [Worker -> BOOLEAN]
        BY <1>18, Zenon DEF Crash, TypeOK
    <2>3. search' \in [Worker -> Search] /\ lex' \in [Worker -> Tables]
        BY <1>18, EmptySearch DEF Crash, TypeOK, Tables
    <2> QED
        BY <1>18, <2>1, <2>2, <2>3, EmptyIndex DEF Crash, TypeOK, Happens, Goto, PC, Tables
<1>19. CASE UNCHANGED vars
    BY <1>19 DEF vars, TypeOK
<1> QED
    BY <1>1, <1>2, <1>4, <1>5, <1>6, <1>7, <1>8, <1>9, <1>10, <1>11, <1>12, <1>13,
       <1>14, <1>15, <1>16, <1>17, <1>18, <1>19
    DEF Next, Searches, Reads, Local, Steps, Starts, Outside

(* The variables of the index keep their types.                            *)
THEOREM TypeCorrect == Spec => []TypeOK
    BY InitTypes, NextTypes, PTL DEF Spec

-----------------------------------------------------------------------------
(* Foreign stores: no step writes one, an accepted record, or its absence  *)
(* where that is accepted, stands for a directory without any, and a save  *)
(* leaves none behind among the tenants it is done with.                   *)
Accepted == meta = "ours" \/ (meta = "none" /\ Ngram)

ForeignInv ==
    /\ Accepted => Pure(disk)
    /\ NeverForeign
    /\ \A w \in Worker : Pure(work[w])
    /\ \A w \in Worker : pc[w] = "save" => \A t \in Tenant \ todo[w] : disk[t] # Foreign

(* Unrecorded indexes, where they are accepted, are of this embedding.     *)
LegacyOwn == Ngram => \A index \in Legacy : Pure(index)

LEMMA InitForeign == LegacyOwn /\ Init => ForeignInv
<1> SUFFICES ASSUME LegacyOwn, Init PROVE ForeignInv
    OBVIOUS
<1>1. Accepted => Pure(disk)
    <2>1. Shipped \subseteq [Tenant -> Version \union {Absent}] /\ Foreign \notin Version \union {Absent}
        BY IndexAssumption
    <2>2. CASE disk = knowledge
        BY <2>1, <2>2 DEF Init, Pure
    <2>3. CASE disk \in Legacy /\ meta = "none"
        BY <2>3 DEF LegacyOwn, Accepted
    <2> QED
        BY <2>2, <2>3, EmptyIndex DEF Init, Accepted
<1>2. \A w \in Worker : mem[w] = NoIndex /\ work[w] = Empty /\ pc[w] = "idle"
    BY DEF Init
<1> QED
    BY <1>1, <1>2, EmptyIndex DEF ForeignInv, NeverForeign

LEMMA ExistingPure ==
    ASSUME TypeOK, ForeignInv, NEW w \in Worker PROVE Pure(Existing(w))
    BY EmptyIndex DEF Existing, IndexStatus, Compatible, Accepted, ForeignInv, NeverForeign, Pure

(* A step that leaves the directory alone, or no save at work, keeps it    *)
(* free of foreign stores.                                                 *)
LEMMA MemoryForeign ==
    ASSUME ForeignInv, NEW w \in Worker, UNCHANGED <<disk, meta>>,
           \A u \in Worker : u # w => pc'[u] = pc[u] /\ mem'[u] = mem[u] /\ work'[u] = work[u]
                                      /\ todo'[u] = todo[u],
           pc'[w] # "save", mem'[w] # NoIndex => Pure(mem'[w]), Pure(work'[w])
    PROVE  ForeignInv'
<1>1. (Accepted => Pure(disk))'
    BY DEF ForeignInv, Accepted, Pure
<1>2. NeverForeign'
    BY DEF ForeignInv, NeverForeign, Pure
<1>3. ASSUME NEW u \in Worker PROVE Pure(work[u])'
    <2>1. Pure(work'[u])
        BY DEF ForeignInv
    <2> QED
        BY <2>1 DEF Pure
<1>4. \A u \in Worker : pc'[u] = "save" => \A t \in Tenant \ todo'[u] : disk'[t] # Foreign
    BY DEF ForeignInv
<1> QED
    BY <1>1, <1>2, <1>3, <1>4 DEF ForeignInv

LEMMA NextForeign == TypeOK /\ ForeignInv /\ [Next]_vars => ForeignInv'
<1> SUFFICES ASSUME TypeOK, ForeignInv, [Next]_vars PROVE ForeignInv'
    OBVIOUS
<1> USE DEF disks, ghosts
<1> DEFINE Elsewhere(w) ==
        \A u \in Worker : u # w => pc'[u] = pc[u] /\ mem'[u] = mem[u] /\ work'[u] = work[u]
                                   /\ todo'[u] = todo[u]
<1>a. ASSUME NEW w \in Worker, Exit(w), UNCHANGED <<disk, meta>>,
             \A u \in Worker : u # w => mem'[u] = mem[u], mem'[w] # NoIndex => Pure(mem'[w])
      PROVE  ForeignInv'
    <2>1. Elsewhere(w) /\ pc'[w] = "idle" /\ work'[w] = Empty
        BY <1>a DEF Exit, Goto, TypeOK
    <2> QED
        BY <1>a, <2>1, EmptyIndex, MemoryForeign
<1>1. ASSUME NEW w \in Worker, Boot(w) PROVE ForeignInv'
    <2>1. Elsewhere(w) /\ pc'[w] = "load" /\ UNCHANGED <<disk, meta, mem, work>>
        BY <1>1 DEF Boot, Goto, TypeOK
    <2> QED
        BY <2>1, MemoryForeign DEF ForeignInv, NeverForeign, Pure
<1>2. ASSUME NEW w \in Worker, Local(w) PROVE ForeignInv'
    <2>1. Elsewhere(w) /\ pc'[w] \in {"idle", "search", "load"} /\ UNCHANGED <<disk, meta, mem, work>>
        BY <1>2, LocalStep
    <2> QED
        BY <2>1, MemoryForeign DEF ForeignInv, NeverForeign, Pure
<1>4. ASSUME NEW w \in Worker, Load(w) PROVE ForeignInv'
    <2>1. Elsewhere(w) /\ pc'[w] \in {"idle", "search"} /\ mem'[w] = disk /\ UNCHANGED <<disk, meta, work>>
        <3>1. mem' = [mem EXCEPT ![w] = disk]
            BY <1>4 DEF Load
        <3> QED
            BY <1>4, <3>1, LoadStep DEF TypeOK
    <2>2. Pure(disk)
        BY <1>4, EmptyIndex DEF Load, IndexStatus, Compatible, Accepted, ForeignInv
    <2> QED
        BY <2>1, <2>2, MemoryForeign DEF ForeignInv, Pure
<1>5. ASSUME NEW w \in Worker, LoadFails(w) PROVE ForeignInv'
    <2>1. Elsewhere(w) /\ pc'[w] = "idle" /\ UNCHANGED <<disk, meta, mem, work>>
        BY <1>5 DEF LoadFails, Goto, TypeOK
    <2> QED
        BY <2>1, MemoryForeign DEF ForeignInv, NeverForeign, Pure
<1>6. ASSUME NEW w \in Worker, RemoveStale(w) PROVE ForeignInv'
    <2>1. /\ \A u \in Worker : u # w => pc'[u] = pc[u] /\ todo'[u] = todo[u]
          /\ todo'[w] = {t \in Tenant : work[w][t] # Absent}
          /\ \A t \in Tenant : disk'[t] = IF work[w][t] = Absent THEN Absent ELSE disk[t]
          /\ UNCHANGED <<meta, mem, work>>
        BY <1>6 DEF RemoveStale, Goto, TypeOK
    <2>2. \A t \in Tenant : disk[t] # Foreign => disk'[t] # Foreign
        BY <2>1, IndexAssumption
    <2>3. \A t \in Tenant \ todo'[w] : disk'[t] # Foreign
        BY <2>1, IndexAssumption
    <2>4. ASSUME NEW u \in Worker, pc'[u] = "save", NEW t \in Tenant \ todo'[u]
          PROVE  disk'[t] # Foreign
        BY <2>1, <2>2, <2>3, <2>4 DEF ForeignInv
    <2> QED
        BY <2>1, <2>2, <2>4 DEF ForeignInv, Accepted, NeverForeign, Pure
<1>7. ASSUME NEW w \in Worker, SaveStore(w) PROVE ForeignInv'
    <2>1. PICK t \in todo[w] : /\ disk' = [disk EXCEPT ![t] = work[w][t]]
                               /\ todo' = [todo EXCEPT ![w] = @ \ {t}]
        BY <1>7 DEF SaveStore
    <2>2. pc[w] = "save" /\ UNCHANGED <<meta, mem, work, pc>> /\ t \in Tenant
        BY <1>7 DEF SaveStore, TypeOK
    <2>3. \A x \in Tenant : disk'[x] = IF x = t THEN work[w][t] ELSE disk[x]
        BY <2>1 DEF TypeOK, Index
    <2>4. work[w][t] # Foreign
        BY <2>2 DEF ForeignInv, Pure
    <2>5. \A u \in Worker : \A x \in Tenant \ todo'[u] : x \in Tenant \ todo[u] \/ x = t
        BY <2>1 DEF TypeOK
    <2>6. ASSUME NEW u \in Worker, pc'[u] = "save", NEW x \in Tenant \ todo'[u]
          PROVE  disk'[x] # Foreign
        BY <2>2, <2>3, <2>4, <2>5, <2>6 DEF ForeignInv
    <2> QED
        BY <2>2, <2>3, <2>4, <2>6 DEF ForeignInv, Accepted, NeverForeign, Pure
<1>8. ASSUME NEW w \in Worker, WriteMeta(w) PROVE ForeignInv'
    <2>1. Pure(disk)
        BY <1>8 DEF WriteMeta, ForeignInv, Pure
    <2>2. /\ \A u \in Worker : pc'[u] = "save" => pc[u] = "save"
          /\ UNCHANGED <<disk, mem, work, todo>>
        BY <1>8 DEF WriteMeta, Goto, TypeOK
    <2> QED
        BY <2>1, <2>2 DEF ForeignInv, NeverForeign, Pure
<1>9. ASSUME NEW w \in Worker, WriteGeneration(w) PROVE ForeignInv'
    <2>1. Elsewhere(w) /\ pc'[w] = "install" /\ UNCHANGED <<disk, meta, mem, work>>
        BY <1>9 DEF WriteGeneration, Goto, TypeOK
    <2> QED
        BY <2>1, MemoryForeign DEF ForeignInv, NeverForeign, Pure
<1>10. ASSUME NEW w \in Worker, Install(w) PROVE ForeignInv'
    <2>1. /\ \A u \in Worker : u # w => mem'[u] = mem[u]
          /\ mem'[w] = NoIndex \/ mem'[w] = work[w]
          /\ Exit(w) /\ UNCHANGED <<disk, meta>>
        BY <1>10 DEF Install, TypeOK
    <2> QED
        BY <2>1, <1>a DEF ForeignInv
<1>11. ASSUME NEW w \in Worker, Rebuild(w) PROVE ForeignInv'
    <2>1. Elsewhere(w) /\ pc'[w] = "stale" /\ work'[w] = build_faiss_index
          /\ UNCHANGED <<disk, meta, mem>>
        BY <1>11 DEF Rebuild, Goto, TypeOK
    <2> QED
        BY <2>1, WorkingTyped, MemoryForeign DEF ForeignInv, NeverForeign, Pure
<1>12. ASSUME NEW w \in Worker, Ingest(w) PROVE ForeignInv'
    <2> DEFINE working == Incremental(Existing(w))
    <2>1. /\ Elsewhere(w) /\ pc'[w] \in {"stale", "install"} /\ work'[w] = working
          /\ UNCHANGED <<disk, meta>>
          /\ mem'[w] = NoIndex \/ mem'[w] = InPlace(Existing(w), working)
        BY <1>12 DEF Ingest, Goto, TypeOK
    <2> QED
        BY <2>1, WorkingTyped, MemoryForeign
<1>13. ASSUME NEW w \in Worker, IngestRefused(w) PROVE ForeignInv'
    <2>1. UNCHANGED <<disk, meta, mem>> /\ Exit(w)
        BY <1>13 DEF IngestRefused
    <2> QED
        BY <2>1, <1>a DEF ForeignInv, NeverForeign, Pure
<1>14. ASSUME NEW w \in Worker, EmbeddingFails(w) PROVE ForeignInv'
    <2> DEFINE existing == Existing(w)
               changed == InPlace(existing, Incremental(existing))
    <2>1. PICK t \in Tenant :
                mem' = IF mem[w] = NoIndex THEN mem
                       ELSE [mem EXCEPT ![w] = [u \in Tenant |->
                                IF u < t THEN changed[u] ELSE existing[u]]]
        BY <1>14 DEF EmbeddingFails
    <2>2. Pure(existing) /\ Pure(changed)
        BY WorkingTyped, ExistingPure
    <2> HIDE DEF existing, changed
    <2>3. Pure([u \in Tenant |-> IF u < t THEN changed[u] ELSE existing[u]])
        BY <2>2 DEF Pure
    <2>4. /\ \A u \in Worker : u # w => mem'[u] = mem[u]
          /\ mem'[w] = mem[w] \/ Pure(mem'[w])
        BY <2>1, <2>3 DEF TypeOK
    <2>5. UNCHANGED <<disk, meta>> /\ Exit(w)
        BY <1>14 DEF EmbeddingFails
    <2> QED
        BY <2>4, <2>5, <1>a DEF ForeignInv, NeverForeign, Pure
<1>15. ASSUME NEW w \in Worker, Upload(w) PROVE ForeignInv'
    BY <1>15 DEF Upload, ForeignInv, Accepted, NeverForeign, Pure
<1>16. ASSUME NEW w \in Worker, Command(w) PROVE ForeignInv'
    BY <1>16 DEF Command, ForeignInv, Accepted, NeverForeign, Pure
<1>17. ASSUME NEW w \in Worker, PersistFails(w) PROVE ForeignInv'
    <2>1. UNCHANGED <<disk, meta, mem>> /\ Exit(w)
        BY <1>17 DEF PersistFails
    <2> QED
        BY <2>1, <1>a DEF ForeignInv, NeverForeign, Pure
<1>18. ASSUME NEW w \in Worker, Crash(w) PROVE ForeignInv'
    <2>1. /\ Elsewhere(w) /\ pc'[w] = "idle" /\ work'[w] = Empty /\ mem'[w] = NoIndex
          /\ UNCHANGED <<disk, meta>>
        BY <1>18 DEF Crash, Goto, TypeOK
    <2> QED
        BY <2>1, EmptyIndex, MemoryForeign
<1>19. CASE UNCHANGED vars
    BY <1>19 DEF vars, ForeignInv, Accepted, NeverForeign, Pure
<1> QED
    BY <1>1, <1>2, <1>4, <1>5, <1>6, <1>7, <1>8, <1>9, <1>10, <1>11, <1>12, <1>13,
       <1>14, <1>15, <1>16, <1>17, <1>18, <1>19
    DEF Next, Searches, Reads, Local, Steps, Starts, Outside

(* No search runs over stores built with another embedding, whatever       *)
(* crashes, fails or races, provided the unrecorded indexes that are       *)
(* accepted for their width are of this embedding.                         *)
(* assert_embedding_compatible, _persist_indexes                           *)
THEOREM IndexNeverForeign == LegacyOwn => (Spec => []NeverForeign)
<1>1. ForeignInv => NeverForeign
    BY DEF ForeignInv
<1> QED
    BY <1>1, InitForeign, NextForeign, TypeCorrect, PTL DEF Spec

-----------------------------------------------------------------------------
(* A process that is down holds no lock.                                   *)
Down == \A w \in Worker : role[w] = "down" => pc[w] = "idle"

LEMMA InitDown == Init => Down
    BY DEF Init, Down

LEMMA NextDown == TypeOK /\ Down /\ [Next]_vars => Down'
<1> SUFFICES ASSUME TypeOK, Down, [Next]_vars PROVE Down'
    OBVIOUS
<1> USE DEF Goto
<1>1. ASSUME NEW w \in Worker, Searches(w) PROVE Down'
    <2>1. CASE Boot(w)
        BY <2>1 DEF Boot, TypeOK, Down
    <2>2. CASE Local(w)
        <3>1. /\ UNCHANGED role /\ (role[w] = "serving" \/ pc[w] = "search")
              /\ \A u \in Worker : u # w => pc'[u] = pc[u]
            BY <2>2, LocalStep
        <3> QED
            BY <3>1 DEF Down
    <2>3. CASE Load(w)
        <3>1. \A u \in Worker : u # w => pc'[u] = pc[u]
            BY <2>3, LoadStep
        <3>2. role' = [role EXCEPT ![w] = "serving"]
            BY <2>3 DEF Load
        <3> QED
            BY <3>1, <3>2 DEF Down, TypeOK
    <2>4. CASE LoadFails(w)
        BY <2>4 DEF LoadFails, TypeOK, Down
    <2> QED
        BY <1>1, <2>1, <2>2, <2>3, <2>4 DEF Searches, Reads, Local
<1>2. ASSUME NEW w \in Worker, Steps(w) PROVE Down'
    BY <1>2 DEF Steps, RemoveStale, SaveStore, WriteMeta, WriteGeneration, Install, Exit,
                TypeOK, Down
<1>3. ASSUME NEW w \in Worker, Starts(w) PROVE Down'
    <2>1. \A u \in Worker : u # w => role'[u] = role[u] /\ pc'[u] = pc[u]
        BY <1>3 DEF Starts, Rebuild, Ingest, IngestRefused, EmbeddingFails, Exit, TypeOK
    <2>2. pc'[w] = "idle" \/ role'[w] # "down"
        BY <1>3 DEF Starts, Rebuild, Ingest, IngestRefused, EmbeddingFails, Takes, Exit, TypeOK
    <2> QED
        BY <2>1, <2>2 DEF Down
<1>4. ASSUME NEW w \in Worker, Outside(w) PROVE Down'
    BY <1>4 DEF Outside, Upload, Command, PersistFails, Crash, Exit, TypeOK, Down
<1>5. CASE UNCHANGED vars
    BY <1>5 DEF vars, Down
<1> QED
    BY <1>1, <1>2, <1>3, <1>4, <1>5 DEF Next

LEMMA AlwaysDown == Spec => []Down
    BY InitDown, NextDown, TypeCorrect, PTL DEF Spec

-----------------------------------------------------------------------------
(* A step of a search, or the start of a worker, seen from the others: it  *)
(* changes nothing but the process's own memory.                           *)
LEMMA SearchesStep ==
    ASSUME TypeOK, Down, NEW w \in Worker, Searches(w)
    PROVE  /\ UNCHANGED <<disks, jobs, work, todo, ghosts>>
           /\ pc[w] \in {"idle", "search", "load"} /\ pc'[w] \in {"idle", "search", "load"}
           /\ \A u \in Worker : u # w =>
                  /\ pc'[u] = pc[u] /\ mem'[u] = mem[u] /\ rev'[u] = rev[u] /\ lex'[u] = lex[u]
                  /\ search'[u] = search[u] /\ seen'[u] = seen[u] /\ patched'[u] = patched[u]
           /\ (mem'[w] = mem[w] /\ rev'[w] = rev[w]) \/ (mem'[w] = disk /\ rev'[w] = seen[w])
           /\ seen'[w] \in {seen[w], 0} \union disk_index_revision
<1>1. CASE Boot(w)
    BY <1>1 DEF Boot, Goto, TypeOK, Down
<1>2. CASE Local(w)
    BY <1>2, LocalStep
<1>3. CASE Load(w)
    <2>1. /\ mem' = [mem EXCEPT ![w] = disk] /\ rev' = [rev EXCEPT ![w] = seen[w]]
          /\ seen' = [seen EXCEPT ![w] = 0] /\ patched' = [patched EXCEPT ![w] = FALSE]
        BY <1>3 DEF Load
    <2> QED
        BY <1>3, <2>1, LoadStep DEF TypeOK
<1>4. CASE LoadFails(w)
    BY <1>4 DEF LoadFails, Goto, Update, TypeOK
<1> QED
    BY <1>1, <1>2, <1>3, <1>4 DEF Searches, Reads, Local

-----------------------------------------------------------------------------
(* The BM25 tables of a process fit its stores unless an ingest changed    *)
(* these and failed.                                                       *)
Coherent(w) ==
    ~patched[w] => \A t \in Tenant : lex[w][t] # Unbuilt => mem[w] # NoIndex /\ lex[w][t] = mem[w][t]

AtWork(w) == search[w].stage # "none" => pc[w] \in {"search", "load"}

Undisturbed(w) == search[w].stage # "none" /\ ~search[w].raced

(* Nobody publishes a generation, so only the first read can load.         *)
Calm(w) ==
    /\ \A u \in Worker : pc[u] # "generation"
    /\ search[w].stage = "vector" /\ pc[w] = "load" => seen[w] = gen
    /\ search[w].stage # "vector" => pc[w] = "search" /\ mem[w] # NoIndex /\ rev[w] = gen

(* An index narrowed to some scopes.                                       *)
Of(scopes, index, t) == IF t \in scopes THEN index[t] ELSE Absent

(* Both halves, as far as they got, are of the index in memory.            *)
Halves(w) ==
    LET s == search[w]
    IN  /\ s.stage = "scopes" => s.indexes = mem[w]
        /\ s.stage \in {"lexical", "tables"} => \A t \in Tenant : s.vector[t] = Of(s.asked, mem[w], t)
        /\ s.stage # "tables" => s.lexical = Empty
        /\ s.stage = "tables" => s.scopes \subseteq s.asked
        /\ s.stage = "tables" /\ ~patched[w] =>
               \A t \in Tenant : s.lexical[t] = Of(s.asked \ s.scopes, mem[w], t)

Sound(w) == Coherent(w) /\ AtWork(w) /\ (Undisturbed(w) => Calm(w) /\ Halves(w))

HalvesInv == \A w \in Worker : Sound(w)

LEMMA InitHalves == Init => HalvesInv
<1> SUFFICES ASSUME Init, NEW w \in Worker PROVE Sound(w)
    BY DEF HalvesInv
<1>1. search[w].stage = "none" /\ \A t \in Tenant : lex[w][t] = Unbuilt
    BY EmptySearch DEF Init, NoTables
<1> QED
    BY <1>1 DEF Sound, Coherent, AtWork, Undisturbed

(* A process looks on while another takes a step.                          *)
LEMMA Bystander ==
    ASSUME NEW v \in Worker, Sound(v), pc'[v] = pc[v], mem'[v] = mem[v], rev'[v] = rev[v],
           lex'[v] = lex[v], search'[v] = search[v], seen'[v] = seen[v], patched'[v] = patched[v],
           \A u \in Worker : pc'[u] = "generation" => pc[u] = "generation", gen' = gen
    PROVE  Sound(v)'
<1>1. Coherent(v)' /\ AtWork(v)' /\ (Undisturbed(v)' => Undisturbed(v))
    BY DEF Sound, Coherent, AtWork, Undisturbed
<1>2. Calm(v) => Calm(v)'
    BY DEF Calm
<1>3. Halves(v) => Halves(v)'
    BY DEF Halves, Of
<1> QED
    BY <1>1, <1>2, <1>3 DEF Sound

(* The process itself, without a search.                                   *)
LEMMA NoSearchSound ==
    ASSUME NEW w \in Worker, search'[w].stage = "none", Coherent(w)' PROVE Sound(w)'
    BY DEF Sound, AtWork, Undisturbed

LEMMA CoherentKept ==
    ASSUME NEW w \in Worker, Coherent(w), mem'[w] = mem[w], lex'[w] = lex[w], patched'[w] = patched[w]
    PROVE  Coherent(w)'
    BY DEF Coherent

(* The process itself, without its tables.                                 *)
LEMMA CoherentEmpty ==
    ASSUME NEW w \in Worker, lex'[w] = NoTables PROVE Coherent(w)'
    BY DEF Coherent, NoTables

(* The lock holder is at no search when it ingests.                        *)
LEMMA IdleSearch ==
    ASSUME NEW w \in Worker, Sound(w), pc[w] \notin {"search", "load"} PROVE search[w].stage = "none"
    BY DEF Sound, AtWork

(* The words of one more scope, from the index in memory.                  *)
LEMMA LookedUp ==
    ASSUME TypeOK, NEW w \in Worker, NEW c, LookUp(w, c), search[w].stage = "tables"
    PROVE  /\ search'[w].stage = "tables" /\ search'[w].raced = search[w].raced
           /\ Halves(w) /\ search[w].scopes # {} /\ mem'[w] = mem[w] /\ patched'[w] = patched[w]
                 /\ (~patched[w] => c = mem[w][NextScope(w)]) => Halves(w)'
<1> DEFINE s == search[w]
           n == NextScope(w)
<1>1. s \in Search /\ search'[w] = [s EXCEPT !.scopes = @ \ {n}, !.lexical[n] = c]
    BY DEF TypeOK, LookUp, Update
<1>2. s.scopes # {} => n \in s.scopes /\ n \in Tenant
    BY <1>1 DEF NextScope, Search
<1> HIDE DEF n
<1>3. /\ search'[w].stage = "tables" /\ search'[w].vector = s.vector
      /\ search'[w].raced = s.raced /\ search'[w].lexical = [s.lexical EXCEPT ![n] = c]
      /\ search'[w].asked = s.asked /\ search'[w].scopes = s.scopes \ {n}
    BY <1>1 DEF Search
<1>4. ASSUME Halves(w), s.scopes # {}, mem'[w] = mem[w], patched'[w] = patched[w], ~patched[w] => c = mem[w][n]
      PROVE  Halves(w)'
    <2>1. s.scopes \subseteq s.asked /\ \A t \in Tenant : s.vector[t] = Of(s.asked, mem[w], t)
        BY <1>4 DEF Halves
    <2>2. ASSUME ~patched[w], NEW t \in Tenant
          PROVE  [s.lexical EXCEPT ![n] = c][t] = Of(s.asked \ (s.scopes \ {n}), mem[w], t)
        <3>1. s.lexical[t] = Of(s.asked \ s.scopes, mem[w], t) /\ s.lexical \in Index
            BY <1>1, <1>4, <2>2 DEF Halves, Search
        <3>2. CASE t = n
            BY <1>2, <1>4, <2>1, <2>2, <3>1, <3>2 DEF Of, Index
        <3>3. CASE t # n
            BY <3>1, <3>3 DEF Of, Index
        <3> QED
            BY <3>2, <3>3
    <2> QED
        BY <1>3, <1>4, <2>1, <2>2 DEF Halves, Of
<1> QED
    BY <1>3, <1>4 DEF n

(* A search that goes on with what get_indexes returned.                   *)
LEMMA ReturnedSound ==
    ASSUME TypeOK, NEW w \in Worker, NEW index \in Index, NEW tables \in Tables,
           Sound(w), Returned(w, index, tables), mem'[w] = index, gen' = gen,
           Undisturbed(w) /\ search[w].stage = "tables" => search[w].scopes # {},
           ~patched'[w] => \A t \in Tenant : tables[t] # Unbuilt => tables[t] = index[t],
           Undisturbed(w) => rev'[w] = gen,
           Undisturbed(w) /\ search[w].stage # "vector" => mem'[w] = mem[w] /\ patched'[w] = patched[w]
    PROVE  Sound(w)'
<1> DEFINE s == search[w]
<1>1. s \in Search /\ search \in [Worker -> Search] /\ lex \in [Worker -> Tables] /\ pc \in [Worker -> PC]
    BY DEF TypeOK, Tables
<1>2. index # NoIndex
    BY IndexAssumption
<1>a. /\ \A u \in Worker : pc'[u] = "generation" => pc[u] = "generation"
      /\ pc'[w] \in {"idle", "search"}
    BY ReturnedTypes
<1>3. CASE VectorIndexes(w, index, tables)
    <2>1. /\ s.stage = "vector" /\ lex'[w] = tables /\ pc'[w] = "search"
          /\ search'[w] = [s EXCEPT !.stage = "scopes", !.indexes = index]
        BY <1>1, <1>3 DEF VectorIndexes, Update, Goto
    <2>2. search'[w].stage = "scopes" /\ search'[w].indexes = index /\ search'[w].raced = s.raced
          /\ search'[w].lexical = s.lexical
        BY <1>1, <2>1 DEF Search
    <2>3. Coherent(w)' /\ AtWork(w)'
        BY <1>2, <2>1 DEF Coherent, AtWork
    <2>4. ASSUME Undisturbed(w)' PROVE Calm(w)' /\ Halves(w)'
        <3>1. Undisturbed(w) /\ Calm(w) /\ Halves(w)
            BY <2>1, <2>2, <2>4 DEF Undisturbed, Sound
        <3>2. Calm(w)'
            BY <1>2, <1>a, <2>1, <2>2, <3>1 DEF Calm
        <3>3. s.lexical = Empty
            BY <2>1, <3>1 DEF Halves
        <3> QED
            BY <2>2, <3>2, <3>3 DEF Halves, Empty
    <2> QED
        BY <2>3, <2>4 DEF Sound
<1>4. CASE VectorScopes(w, index, tables)
    <2> DEFINE vector == [t \in Tenant |-> IF t \in Present(w, index) THEN s.indexes[t] ELSE Absent]
    <2>1. /\ s.stage = "scopes" /\ lex'[w] = tables
          /\ \/ /\ pc'[w] = "search"
                /\ search'[w] = [s EXCEPT !.stage = "lexical", !.indexes = Empty, !.vector = vector]
             \/ search'[w] = NoSearch
        BY <1>1, <1>4 DEF VectorScopes, Update, Goto
    <2>2. Coherent(w)'
        BY <1>2, <2>1 DEF Coherent
    <2>3. CASE search'[w] = NoSearch
        BY <2>2, <2>3, EmptySearch, NoSearchSound
    <2>4. CASE /\ pc'[w] = "search"
               /\ search'[w] = [s EXCEPT !.stage = "lexical", !.indexes = Empty, !.vector = vector]
        <3>1. /\ search'[w].stage = "lexical" /\ search'[w].vector = vector
              /\ search'[w].raced = s.raced /\ search'[w].lexical = s.lexical
              /\ search'[w].asked = s.asked
            BY <1>1, <2>4 DEF Search
        <3>2. AtWork(w)'
            BY <2>4 DEF AtWork
        <3>3. ASSUME Undisturbed(w)' PROVE Calm(w)' /\ Halves(w)'
            <4>1. Undisturbed(w) /\ Calm(w) /\ Halves(w)
                BY <2>1, <3>1, <3>3 DEF Undisturbed, Sound
            <4>2. Calm(w)'
                BY <1>2, <1>a, <2>1, <2>4, <3>1, <4>1 DEF Calm
            <4>3. s.lexical = Empty /\ s.indexes = mem[w] /\ mem[w] = index
                BY <2>1, <4>1 DEF Halves
            <4>4. \A t \in Tenant : vector[t] = Of(s.asked, index, t)
                BY <4>3 DEF Of, Present
            <4> HIDE DEF vector
            <4> QED
                BY <3>1, <4>2, <4>3, <4>4 DEF Halves, Of, Empty
        <3> QED
            BY <2>2, <3>2, <3>3 DEF Sound
    <2> QED
        BY <2>1, <2>3, <2>4
<1>5. CASE LexicalScopes(w, index, tables)
    <2>1. /\ s.stage = "lexical" /\ lex'[w] = tables /\ pc'[w] = "search"
          /\ search'[w] = [s EXCEPT !.stage = "tables", !.scopes = Present(w, index)]
        BY <1>1, <1>5 DEF LexicalScopes, Update, Goto
    <2>2. /\ search'[w].stage = "tables" /\ search'[w].vector = s.vector
          /\ search'[w].raced = s.raced /\ search'[w].lexical = s.lexical
          /\ search'[w].asked = s.asked /\ search'[w].scopes = Present(w, index)
        BY <1>1, <2>1 DEF Search
    <2>3. Coherent(w)' /\ AtWork(w)'
        BY <1>2, <2>1 DEF Coherent, AtWork
    <2>4. ASSUME Undisturbed(w)' PROVE Calm(w)' /\ Halves(w)'
        <3>1. Undisturbed(w) /\ Calm(w) /\ Halves(w)
            BY <2>1, <2>2, <2>4 DEF Undisturbed, Sound
        <3>2. Calm(w)'
            BY <1>2, <1>a, <2>1, <2>2, <3>1 DEF Calm
        <3>3. /\ s.lexical = Empty /\ mem[w] = index
              /\ \A t \in Tenant : s.vector[t] = Of(s.asked, index, t)
            BY <2>1, <3>1 DEF Halves
        <3>4. \A t \in Tenant : s.lexical[t] = Of(s.asked \ Present(w, index), index, t)
            BY <3>3 DEF Of, Present, Empty
        <3>5. Present(w, index) \subseteq s.asked
            BY DEF Present
        <3> QED
            BY <2>2, <3>2, <3>3, <3>4, <3>5 DEF Halves, Of
    <2> QED
        BY <2>3, <2>4 DEF Sound
<1>6. CASE BuildTable(w, index, tables)
    <2> DEFINE n == NextScope(w)
    <2>1. /\ s.stage = "tables" /\ lex'[w] = [tables EXCEPT ![n] = index[n]] /\ pc'[w] = "search"
          /\ LookUp(w, index[n])
        BY <1>1, <1>6 DEF BuildTable, Goto
    <2>2. Coherent(w)'
        BY <1>2, <2>1 DEF Coherent, Tables
    <2>3. AtWork(w)'
        BY <2>1 DEF AtWork
    <2>4. ASSUME Undisturbed(w)' PROVE Calm(w)' /\ Halves(w)'
        <3>1. search'[w].stage = "tables" /\ search'[w].raced = s.raced
            BY <2>1, LookedUp
        <3>2. Undisturbed(w) /\ Calm(w) /\ Halves(w)
            BY <2>1, <2>4, <3>1 DEF Undisturbed, Sound
        <3>3. Calm(w)'
            BY <1>2, <1>a, <2>1, <3>1, <3>2 DEF Calm
        <3>4. mem[w] = index /\ patched'[w] = patched[w]
            BY <2>1, <3>2
        <3> QED
            BY <2>1, <3>2, <3>3, <3>4, LookedUp
    <2> QED
        BY <2>2, <2>3, <2>4 DEF Sound
<1> QED
    BY <1>3, <1>4, <1>5, <1>6 DEF Returned

(* While nobody publishes, the revision read is the generation.            *)
LEMMA CalmRevision ==
    ASSUME \A u \in Worker : pc[u] # "generation" PROVE disk_index_revision = {gen}
    BY DEF disk_index_revision

LEMMA SearchesSound ==
    ASSUME TypeOK, Down, NEW w \in Worker, Sound(w), Searches(w) PROVE Sound(w)'
<1>0. search[w] \in Search /\ search \in [Worker -> Search] /\ lex \in [Worker -> Tables]
      /\ pc \in [Worker -> PC] /\ gen' = gen
    BY SearchesStep DEF TypeOK, Tables, disks
<1>a. Coherent(w)
    BY DEF Sound
<1>1. CASE Boot(w)
    <2>1. UNCHANGED <<mem, lex, patched, search>> /\ pc[w] = "idle"
        BY <1>1 DEF Boot, Down
    <2> QED
        BY <1>a, <2>1, CoherentKept, IdleSearch, NoSearchSound
<1>2. CASE Ask(w)
    <2> DEFINE raced == \E u \in Worker : pc[u] = "generation"
    <2>1. PICK asked \in Asked :
              search'[w] = [NoSearch EXCEPT !.stage = "vector", !.asked = asked, !.raced = raced]
        BY <1>0, <1>2 DEF Ask
    <2>2. search'[w].stage = "vector" /\ search'[w].lexical = Empty /\ search'[w].raced = raced
        BY <2>1 DEF NoSearch
    <2>3. pc' = [pc EXCEPT ![w] = "search"] /\ UNCHANGED <<mem, lex, patched>>
        BY <1>2 DEF Ask, Goto
    <2>4. Coherent(w)' /\ AtWork(w)'
        BY <1>0, <1>a, <2>3, CoherentKept DEF AtWork
    <2>5. ASSUME ~raced PROVE Calm(w)'
        BY <1>0, <2>2, <2>3, <2>5 DEF Calm
    <2>6. Halves(w)'
        BY <2>2 DEF Halves, Empty
    <2>7. Undisturbed(w)' => ~raced
        BY <2>2 DEF Undisturbed
    <2> HIDE DEF raced
    <2> QED
        BY <2>4, <2>5, <2>6, <2>7 DEF Sound
<1>3. CASE SearchLoaded(w)
    <2>1. /\ mem[w] \in Index /\ lex[w] \in Tables /\ UNCHANGED <<mem, rev, patched>>
          /\ Returned(w, mem[w], lex[w]) /\ rev[w] \in disk_index_revision /\ Calls(w)
        BY <1>0, <1>3 DEF SearchLoaded, TypeOK
    <2>2. Undisturbed(w) => rev[w] = gen
        BY <2>1, CalmRevision DEF Sound, Calm
    <2>3. ~patched[w] => \A t \in Tenant : lex[w][t] # Unbuilt => lex[w][t] = mem[w][t]
        BY <1>a DEF Coherent
    <2>4. search[w].stage = "tables" => search[w].scopes # {}
        BY <2>1 DEF Calls
    <2> QED
        BY <1>0, <2>1, <2>2, <2>3, <2>4, ReturnedSound
<1>4. CASE SearchReloads(w)
    <2>1. PICK r \in disk_index_revision :
              (mem[w] = NoIndex \/ rev[w] # r) /\ seen' = [seen EXCEPT ![w] = r]
        BY <1>4 DEF SearchReloads
    <2>2. pc' = [pc EXCEPT ![w] = "load"] /\ UNCHANGED <<mem, lex, patched, rev, search>>
        BY <1>4 DEF SearchReloads, Goto
    <2>3. Coherent(w)' /\ AtWork(w)'
        BY <1>0, <1>a, <2>2, CoherentKept DEF AtWork
    <2>4. ASSUME Undisturbed(w)' PROVE Calm(w)' /\ Halves(w)'
        <3>1. Undisturbed(w) /\ Calm(w) /\ Halves(w)
            BY <2>2, <2>4 DEF Undisturbed, Sound
        <3>2. r = gen
            BY <3>1, CalmRevision DEF Calm
        <3>3. search[w].stage = "vector"
            BY <2>1, <3>1, <3>2 DEF Calm
        <3>4. Calm(w)'
            BY <1>0, <2>1, <2>2, <3>1, <3>2, <3>3 DEF Calm, TypeOK
        <3> QED
            BY <2>2, <3>1, <3>3, <3>4 DEF Halves, Empty
    <2> QED
        BY <2>3, <2>4 DEF Sound
<1>5. CASE Load(w)
    <2>1. /\ mem'[w] = disk /\ rev'[w] = seen[w] /\ ~patched'[w] /\ pc[w] = "load" /\ disk \in Index
        BY <1>5 DEF Load, TypeOK
    <2>2. CASE UNCHANGED search /\ search[w].stage = "none" /\ lex' = [lex EXCEPT ![w] = NoTables]
        BY <1>0, <2>2, CoherentEmpty, NoSearchSound
    <2>3. CASE Returned(w, disk, NoTables)
        <3>1. Undisturbed(w) => search[w].stage = "vector" /\ seen[w] = gen
            BY <2>1 DEF Sound, Calm, Undisturbed
        <3>3. \A t \in Tenant : NoTables[t] = Unbuilt
            BY DEF NoTables
        <3> QED
            BY <1>0, <2>1, <2>3, <3>1, <3>3, EmptySearch, ReturnedSound
    <2> QED
        BY <1>5, <2>2, <2>3 DEF Load
<1>6. CASE LoadFails(w) \/ Answer(w)
    <2>1. search'[w] = NoSearch /\ UNCHANGED <<mem, lex, patched>>
        BY <1>0, <1>6 DEF LoadFails, Answer, Update
    <2> QED
        BY <1>a, <2>1, EmptySearch, CoherentKept, NoSearchSound
<1>7. CASE UseTable(w)
    <2> DEFINE c == lex[w][NextScope(w)]
    <2>1. /\ LookUp(w, c) /\ search[w].stage = "tables" /\ search[w].scopes # {} /\ pc[w] = "search"
          /\ UNCHANGED <<pc, mem, rev, lex, seen, patched>> /\ c # Unbuilt
        BY <1>7 DEF UseTable
    <2>2. NextScope(w) \in Tenant
        BY <1>0, <2>1 DEF NextScope, Search
    <2>3. ~patched[w] => c = mem[w][NextScope(w)]
        BY <1>a, <2>1, <2>2 DEF Coherent
    <2> HIDE DEF c
    <2>4. /\ search'[w].stage = "tables" /\ search'[w].raced = search[w].raced
          /\ Halves(w) => Halves(w)'
        BY <2>1, <2>3, LookedUp
    <2>5. Coherent(w)' /\ AtWork(w)'
        BY <1>a, <2>1, CoherentKept DEF AtWork
    <2>6. Undisturbed(w)' => Undisturbed(w)
        BY <2>1, <2>4 DEF Undisturbed
    <2>7. Calm(w) => Calm(w)'
        BY <1>0, <2>1, <2>4 DEF Calm
    <2> QED
        BY <2>4, <2>5, <2>6, <2>7 DEF Sound
<1> QED
    BY <1>1, <1>2, <1>3, <1>4, <1>5, <1>6, <1>7 DEF Searches, Reads

LEMMA NextHalves == TypeOK /\ Down /\ HalvesInv /\ [Next]_vars => HalvesInv'
<1> SUFFICES ASSUME TypeOK, Down, HalvesInv, [Next]_vars PROVE HalvesInv'
    OBVIOUS
<1> USE DEF disks, ghosts
<1>a. \A v \in Worker : Sound(v) /\ Coherent(v)
    BY DEF HalvesInv, Sound
<1> DEFINE Apart(w) ==
        \A v \in Worker : v # w =>
            /\ pc'[v] = pc[v] /\ mem'[v] = mem[v] /\ rev'[v] = rev[v] /\ lex'[v] = lex[v]
            /\ search'[v] = search[v] /\ seen'[v] = seen[v] /\ patched'[v] = patched[v]
(* Everybody else looks on; the process itself is not searching.           *)
<1>b. ASSUME NEW w \in Worker, Apart(w), gen' = gen, pc'[w] # "generation" PROVE
        \A v \in Worker : v # w => Sound(v)'
    <2> TAKE v \in Worker
    <2> HAVE v # w
    <2>1. \A u \in Worker : pc'[u] = "generation" => pc[u] = "generation"
        BY <1>b
    <2> QED
        BY <1>a, <1>b, <2>1, Bystander
<1>c. ASSUME NEW w \in Worker, Apart(w), gen' = gen, pc'[w] # "generation",
             pc[w] \notin {"search", "load"}, search'[w] = search[w], Coherent(w)'
      PROVE  HalvesInv'
    <2>1. Sound(w)'
        BY <1>a, <1>c, IdleSearch, NoSearchSound
    <2> QED
        BY <1>b, <1>c, <2>1 DEF HalvesInv
<1>1. ASSUME NEW w \in Worker, Searches(w) PROVE HalvesInv'
    <2>1. Apart(w) /\ gen' = gen /\ pc'[w] # "generation"
        BY <1>1, SearchesStep
    <2>2. Sound(w)'
        BY <1>1, <1>a, SearchesSound
    <2> QED
        BY <1>b, <2>1, <2>2 DEF HalvesInv
<1>2. ASSUME NEW w \in Worker, RemoveStale(w) \/ SaveStore(w) PROVE HalvesInv'
    <2>1. /\ Apart(w) /\ gen' = gen /\ pc'[w] = "save" /\ pc[w] \in {"stale", "save"}
          /\ UNCHANGED <<mem, lex, patched, search>>
        BY <1>2 DEF RemoveStale, SaveStore, Goto, TypeOK
    <2>2. Coherent(w)'
        BY <1>a, <2>1, CoherentKept
    <2> QED
        BY <1>c, <2>1, <2>2
<1>3. ASSUME NEW w \in Worker, WriteMeta(w) PROVE HalvesInv'
    <2> SUFFICES ASSUME NEW v \in Worker PROVE Sound(v)'
        BY DEF HalvesInv
    <2>1. UNCHANGED <<mem, lex, patched>> /\ pc[w] = "save"
          /\ search'[v] = IF search[v].stage = "none" THEN search[v] ELSE [search[v] EXCEPT !.raced = TRUE]
        BY <1>3 DEF WriteMeta, Publishes
    <2>2. Coherent(v)'
        BY <1>a, <2>1, CoherentKept
    <2>3. CASE search[v].stage = "none"
        BY <2>1, <2>2, <2>3, NoSearchSound
    <2>4. CASE search[v].stage # "none"
        <3>1. search[v] \in Search
            BY DEF TypeOK
        <3>2. search'[v].raced = TRUE
            BY <2>1, <2>4, <3>1 DEF Search
        <3>3. pc[v] \in {"search", "load"}
            BY <1>a, <2>4 DEF Sound, AtWork
        <3>4. pc'[v] = pc[v]
            BY <1>3, <2>1, <3>3 DEF WriteMeta, Goto, TypeOK
        <3> QED
            BY <2>2, <3>2, <3>3, <3>4 DEF Sound, AtWork, Undisturbed
    <2> QED
        BY <2>3, <2>4
<1>4. ASSUME NEW w \in Worker, WriteGeneration(w) PROVE HalvesInv'
    <2> SUFFICES ASSUME NEW v \in Worker PROVE Sound(v)'
        BY DEF HalvesInv
    <2>1. UNCHANGED <<mem, lex, patched, search>> /\ pc[w] = "generation"
        BY <1>4 DEF WriteGeneration
    <2>2. Coherent(v)'
        BY <1>a, <2>1, CoherentKept
    <2>3. ~Undisturbed(v)
        BY <1>a, <2>1 DEF Sound, Calm
    <2>4. pc'[v] = pc[v] \/ pc[v] = "generation"
        BY <1>4, <2>1 DEF WriteGeneration, Goto, TypeOK
    <2> QED
        BY <1>a, <2>1, <2>2, <2>3, <2>4 DEF Sound, AtWork, Undisturbed
<1>5. ASSUME NEW w \in Worker, Install(w) PROVE HalvesInv'
    <2>1. /\ Apart(w) /\ gen' = gen /\ pc'[w] = "idle" /\ pc[w] = "install"
          /\ UNCHANGED search /\ lex'[w] = NoTables
        BY <1>5 DEF Install, Exit, Goto, TypeOK
    <2> QED
        BY <1>c, <2>1, CoherentEmpty
<1>6. ASSUME NEW w \in Worker, Rebuild(w) \/ IngestRefused(w) PROVE HalvesInv'
    <2>1. /\ Apart(w) /\ gen' = gen /\ pc'[w] \in {"stale", "idle"} /\ pc[w] = "idle"
          /\ UNCHANGED <<mem, lex, patched, search>>
        BY <1>6 DEF Rebuild, IngestRefused, Takes, Exit, Goto, TypeOK
    <2>2. Coherent(w)'
        BY <1>a, <2>1, CoherentKept
    <2> QED
        BY <1>c, <2>1, <2>2
<1>7. ASSUME NEW w \in Worker, Ingest(w) \/ EmbeddingFails(w) PROVE HalvesInv'
    <2>1. /\ gen' = gen /\ pc'[w] \in {"stale", "install", "idle"} /\ pc[w] = "idle"
          /\ UNCHANGED <<lex, search, rev, seen>>
          /\ patched' = [patched EXCEPT ![w] = @ \/ mem' # mem]
          /\ \A v \in Worker : v # w => pc'[v] = pc[v]
        BY <1>7 DEF Ingest, EmbeddingFails, Takes, Exit, Goto, TypeOK
    <2>2. \A v \in Worker : v # w => mem'[v] = mem[v]
        BY <1>7 DEF Ingest, EmbeddingFails, TypeOK
    <2>3. /\ \A v \in Worker : v # w => patched'[v] = patched[v]
          /\ patched'[w] = (patched[w] \/ mem' # mem)
        BY <2>1 DEF TypeOK
    <2>4. Apart(w)
        BY <2>1, <2>2, <2>3
    <2>5. Coherent(w)'
        BY <1>a, <2>1, <2>3 DEF Coherent
    <2> QED
        BY <1>c, <2>1, <2>4, <2>5
<1>8. ASSUME NEW w \in Worker, Upload(w) \/ Command(w) PROVE HalvesInv'
    <2>1. UNCHANGED <<mem, lex, patched, search, pc, rev, seen, gen>>
        BY <1>8 DEF Upload, Command
    <2> QED
        BY <1>a, <2>1, Bystander DEF HalvesInv
<1>9. ASSUME NEW w \in Worker, PersistFails(w) PROVE HalvesInv'
    <2>1. /\ Apart(w) /\ gen' = gen /\ pc'[w] = "idle" /\ pc[w] \in Persisting
          /\ UNCHANGED <<mem, lex, patched, search>>
        BY <1>9 DEF PersistFails, Exit, Goto, TypeOK
    <2>2. Coherent(w)'
        BY <1>a, <2>1, CoherentKept
    <2> QED
        BY <1>c, <2>1, <2>2 DEF Persisting
<1>10. ASSUME NEW w \in Worker, Crash(w) PROVE HalvesInv'
    <2>1. /\ Apart(w) /\ gen' = gen /\ pc'[w] = "idle" /\ search'[w] = NoSearch /\ lex'[w] = NoTables
        BY <1>10 DEF Crash, Goto, TypeOK
    <2>2. Sound(w)'
        BY <2>1, EmptySearch, CoherentEmpty, NoSearchSound
    <2> QED
        BY <1>b, <2>1, <2>2 DEF HalvesInv
<1>11. CASE UNCHANGED vars
    <2>1. UNCHANGED <<mem, lex, patched, search, pc, rev, seen, gen>>
        BY <1>11 DEF vars
    <2> QED
        BY <1>a, <2>1, Bystander DEF HalvesInv
<1> QED
    BY <1>1, <1>2, <1>3, <1>4, <1>5, <1>6, <1>7, <1>8, <1>9, <1>10, <1>11
    DEF Next, Steps, Starts, Outside

(* Both halves of a search look at the same content although each of them  *)
(* reads the index again, unless another process was publishing a          *)
(* generation or an ingest of this process failed after changing stores.   *)
(* _search_vector, search_scopes, _search_bm25, _bm25_index                *)
THEOREM SearchHalvesAgree == Spec => []HalvesAgree
<1>1. TypeOK /\ HalvesInv => HalvesAgree
    <2> SUFFICES ASSUME TypeOK, HalvesInv, NEW w \in Worker, Searched(w), ~search[w].raced, ~patched[w]
                 PROVE  search[w].vector = search[w].lexical
        BY DEF HalvesAgree
    <2>1. Halves(w) /\ search[w].stage = "tables" /\ search[w].scopes = {}
        BY DEF HalvesInv, Sound, Undisturbed, Searched
    <2>2. \A t \in Tenant : search[w].vector[t] = search[w].lexical[t]
        BY <2>1 DEF Halves, Of
    <2>3. search[w].vector \in Index /\ search[w].lexical \in Index
        BY DEF TypeOK, Search
    <2> QED
        BY <2>2, <2>3 DEF Index
<1> QED
    BY <1>1, InitHalves, NextHalves, TypeCorrect, AlwaysDown, PTL DEF Spec

-----------------------------------------------------------------------------
(* Why an equal revision means equal content.  Revisions in memory are not *)
(* ahead of the generation.  While ingests run to their end, one at a      *)
(* time, the directory is what the ingest has written so far, and whoever  *)
(* loaded half of it holds the old revision, which the ingest's generation *)
(* outdates.                                                               *)
Past(r) == r \in Nat => r <= gen

Single == \A u, w \in Worker : u # w /\ pc[u] \in Ingesting => pc[w] \notin Ingesting

Progress ==
    \A w \in Worker :
        /\ pc[w] = "save" => \A t \in Tenant \ todo[w] : disk[t] = work[w][t]
        /\ pc[w] \in {"generation", "install"} => disk = work[w]

Current ==
    (\A u \in Worker : pc[u] \notin Persisting) =>
        \A w \in Worker : mem[w] # NoIndex /\ rev[w] = gen => mem[w] = disk

RevisionInv ==
    /\ \A w \in Worker : Past(rev[w]) /\ Past(seen[w])
    /\ ~faulted /\ ~skipped => Single /\ Progress /\ Current

LEMMA InitRevision == Init => RevisionInv
<1> SUFFICES ASSUME Init PROVE RevisionInv
    OBVIOUS
<1>1. gen \in Nat
    BY DEF Init
<1>2. \A w \in Worker : pc[w] = "idle" /\ mem[w] = NoIndex /\ rev[w] = 0 /\ seen[w] = 0
    BY DEF Init
<1> QED
    BY <1>1, <1>2 DEF RevisionInv, Past, Single, Progress, Current, Ingesting, Persisting

(* The revisions alone.                                                    *)
LEMMA NextPast ==
    TypeOK /\ Down /\ (\A w \in Worker : Past(rev[w]) /\ Past(seen[w])) /\ [Next]_vars =>
        \A w \in Worker : Past(rev[w])' /\ Past(seen[w])'
<1> SUFFICES ASSUME TypeOK, Down, \A w \in Worker : Past(rev[w]) /\ Past(seen[w]), [Next]_vars,
                    NEW u \in Worker
             PROVE  Past(rev[u])' /\ Past(seen[u])'
    OBVIOUS
<1> USE DEF disks, ghosts
<1>1. gen \in Nat /\ gen' \in Nat /\ gen' >= gen
    BY SearchesStep DEF TypeOK, Next, vars, Steps, Starts, Outside, RemoveStale, SaveStore,
           WriteMeta, WriteGeneration, Install, Rebuild, Ingest, IngestRefused, EmbeddingFails,
           Upload, Command, PersistFails, Crash
<1>2. \A r \in disk_index_revision : r = gen \/ r = Torn
    BY DEF disk_index_revision
<1>3. \A r : r = rev[u] \/ r = seen[u] \/ r = 0 \/ r = Torn \/ r = gen => (r \in Nat => r <= gen')
    BY <1>1, IndexAssumption DEF Past
<1>4. /\ rev'[u] \in {rev[u], seen[u], 0, Torn, gen}
      /\ seen'[u] \in {seen[u], 0, Torn, gen}
    <2>1. ASSUME NEW w \in Worker, Searches(w)
          PROVE  rev'[u] \in {rev[u], seen[u]} /\ seen'[u] \in {seen[u], 0, Torn, gen}
        BY <1>2, <2>1, SearchesStep
    <2>2. ASSUME NEW w \in Worker, Steps(w)
          PROVE  rev'[u] \in {rev[u], 0, Torn, gen} /\ UNCHANGED seen
        BY <1>2, <2>2 DEF Steps, RemoveStale, SaveStore, WriteMeta, WriteGeneration, Install, TypeOK
    <2>3. ASSUME NEW w \in Worker, Starts(w) PROVE UNCHANGED <<rev, seen>>
        BY <2>3 DEF Starts, Rebuild, Ingest, IngestRefused, EmbeddingFails
    <2>4. ASSUME NEW w \in Worker, Outside(w)
          PROVE  rev'[u] \in {rev[u], 0} /\ seen'[u] \in {seen[u], 0}
        BY <2>4 DEF Outside, Upload, Command, PersistFails, Crash, TypeOK
    <2>5. UNCHANGED vars => UNCHANGED <<rev, seen>>
        BY DEF vars
    <2> QED
        BY <2>1, <2>2, <2>3, <2>4, <2>5 DEF Next
<1> QED
    BY <1>3, <1>4 DEF Past

(* A step of a process that is not writing and does not start to.          *)
LEMMA QuietStep ==
    ASSUME Single, Progress, Current, NEW w \in Worker, UNCHANGED <<disk, gen>>,
           \A u \in Worker : u # w => pc'[u] = pc[u] /\ mem'[u] = mem[u] /\ rev'[u] = rev[u]
                                      /\ work'[u] = work[u] /\ todo'[u] = todo[u],
           pc[w] \notin Persisting, pc'[w] \notin Ingesting,
           mem'[w] = NoIndex \/ mem'[w] = disk \/ (mem'[w] = mem[w] /\ rev'[w] = rev[w])
    PROVE  Single' /\ Progress' /\ Current'
<1>1. Single'
    BY DEF Single
<1>2. Progress'
    BY DEF Progress, Ingesting, Persisting
<1>3. Current'
    <2> SUFFICES ASSUME \A u \in Worker : pc'[u] \notin Persisting, NEW v \in Worker,
                        mem'[v] # NoIndex, rev'[v] = gen'
                 PROVE  mem'[v] = disk'
        BY DEF Current
    <2>1. \A u \in Worker : pc[u] \notin Persisting
        OBVIOUS
    <2> QED
        BY <2>1 DEF Current
<1> QED
    BY <1>1, <1>2, <1>3

(* The rest of a process that persists, alone.                             *)
LEMMA PersistStep ==
    ASSUME Single, NEW w \in Worker, pc[w] \in Ingesting \/ ~Raced(w), pc'[w] \in Persisting,
           \A u \in Worker : u # w => pc'[u] = pc[u],
           pc'[w] = "save" => \A t \in Tenant \ todo'[w] : disk'[t] = work'[w][t],
           pc'[w] = "generation" => disk' = work'[w]
    PROVE  Single' /\ Progress' /\ Current'
<1>1. \A u \in Worker : u # w => pc'[u] \notin Ingesting
    BY DEF Single, Raced
<1>2. Single'
    BY <1>1 DEF Single
<1>3. Progress'
    BY <1>1 DEF Progress, Ingesting, Persisting
<1>4. Current'
    BY DEF Current
<1> QED
    BY <1>2, <1>3, <1>4

LEMMA NextRevision == TypeOK /\ Down /\ RevisionInv /\ [Next]_vars => RevisionInv'
<1> SUFFICES ASSUME TypeOK, Down, RevisionInv, [Next]_vars, ~faulted', ~skipped'
             PROVE  Single' /\ Progress' /\ Current'
    BY NextPast DEF RevisionInv
<1> USE DEF disks, ghosts, Goto
<1>a. ~faulted /\ ~skipped
    BY SearchesStep DEF TypeOK, Next, vars, Steps, Starts, Outside, RemoveStale, SaveStore,
           WriteMeta, WriteGeneration, Install, Rebuild, Ingest, IngestRefused, EmbeddingFails,
           Upload, Command, PersistFails, Crash
<1>b. Single /\ Progress /\ Current /\ \A w \in Worker : Past(rev[w])
    BY <1>a DEF RevisionInv
<1> DEFINE Elsewhere(w) ==
        \A u \in Worker : u # w => pc'[u] = pc[u] /\ mem'[u] = mem[u] /\ rev'[u] = rev[u]
                                   /\ work'[u] = work[u] /\ todo'[u] = todo[u]
           Good == Single' /\ Progress' /\ Current'
<1>1. ASSUME NEW w \in Worker, Searches(w) PROVE Good
    <2>1. Elsewhere(w) /\ UNCHANGED <<disk, gen>>
        BY <1>1, SearchesStep
    <2>2. pc[w] \in {"idle", "search", "load"} /\ pc'[w] \in {"idle", "search", "load"}
        BY <1>1, SearchesStep
    <2>3. mem'[w] = disk \/ (mem'[w] = mem[w] /\ rev'[w] = rev[w])
        BY <1>1, SearchesStep
    <2> QED
        BY <1>b, <2>1, <2>2, <2>3, QuietStep DEF Ingesting, Persisting
<1>2. ASSUME NEW w \in Worker, RemoveStale(w) PROVE Good
    <2>1. /\ pc[w] = "stale" /\ pc'[w] = "save" /\ \A u \in Worker : u # w => pc'[u] = pc[u]
          /\ work'[w] = work[w] /\ todo'[w] = {t \in Tenant : work[w][t] # Absent}
          /\ \A t \in Tenant : work[w][t] = Absent => disk'[t] = Absent
        BY <1>2 DEF RemoveStale, TypeOK
    <2> QED
        BY <1>b, <2>1, PersistStep DEF Ingesting, Persisting
<1>3. ASSUME NEW w \in Worker, SaveStore(w) PROVE Good
    <2>1. PICK t \in todo[w] : /\ disk' = [disk EXCEPT ![t] = work[w][t]]
                               /\ todo' = [todo EXCEPT ![w] = @ \ {t}]
        BY <1>3 DEF SaveStore
    <2>2. pc[w] = "save" /\ UNCHANGED <<pc, work>> /\ t \in Tenant
        BY <1>3 DEF SaveStore, TypeOK
    <2>3. \A x \in Tenant \ todo'[w] : disk'[x] = work'[w][x]
        BY <1>b, <2>1, <2>2 DEF Progress, TypeOK, Index
    <2> QED
        BY <1>b, <2>2, <2>3, PersistStep DEF Ingesting, Persisting
<1>4. ASSUME NEW w \in Worker, WriteMeta(w) PROVE Good
    <2>1. /\ pc[w] = "save" /\ pc'[w] = "generation" /\ \A u \in Worker : u # w => pc'[u] = pc[u]
          /\ todo[w] = {} /\ UNCHANGED <<disk, work>>
        BY <1>4 DEF WriteMeta, TypeOK
    <2>2. disk = work[w]
        BY <1>b, <2>1 DEF Progress, TypeOK, Index
    <2> QED
        BY <1>b, <2>1, <2>2, PersistStep DEF Ingesting, Persisting
<1>5. ASSUME NEW w \in Worker, WriteGeneration(w) PROVE Good
    <2>1. /\ pc[w] = "generation" /\ pc'[w] = "install"
          /\ \A u \in Worker : u # w => pc'[u] = pc[u]
          /\ gen' = gen + 1 /\ UNCHANGED <<disk, work, todo, rev, mem>>
        BY <1>5 DEF WriteGeneration, TypeOK
    <2>2. \A u \in Worker : u # w => pc'[u] \notin Ingesting
        BY <1>b, <2>1 DEF Single, Ingesting, Persisting
    <2>3. Single'
        BY <2>2 DEF Single
    <2>4. Progress'
        BY <1>b, <2>1, <2>2 DEF Progress, Ingesting, Persisting
    <2>5. \A u \in Worker : rev'[u] # gen'
        BY <1>b, <2>1 DEF Past, TypeOK
    <2>6. Current'
        BY <2>5 DEF Current
    <2> QED
        BY <2>3, <2>4, <2>6
<1>6. ASSUME NEW w \in Worker, Install(w) PROVE Good
    <2>1. /\ Elsewhere(w) /\ pc[w] = "install" /\ pc'[w] = "idle" /\ UNCHANGED <<disk, gen>>
          /\ mem'[w] = NoIndex \/ mem'[w] = work[w]
        BY <1>6 DEF Install, Exit, TypeOK
    <2>2. work[w] = disk
        BY <1>b, <2>1 DEF Progress
    <2> QED
        BY <1>b, <2>1, <2>2, QuietStep DEF Ingesting, Persisting
<1>7. ASSUME NEW w \in Worker, Rebuild(w) PROVE Good
    <2>1. /\ pc'[w] = "stale" /\ \A u \in Worker : u # w => pc'[u] = pc[u]
          /\ ~Raced(w)
        BY <1>7 DEF Rebuild, TypeOK
    <2> QED
        BY <1>b, <2>1, PersistStep DEF Persisting
<1>8. ASSUME NEW w \in Worker, Ingest(w) PROVE Good
    <2> DEFINE existing == Existing(w)
               working == Incremental(existing)
    <2>1. /\ \A u \in Worker : u # w => pc'[u] = pc[u]
          /\ pc[w] = "idle" /\ ~Raced(w)
          /\ pc'[w] = IF working # existing THEN "stale" ELSE "install"
          /\ ~(working = existing /\ working # disk)
          /\ work' = [work EXCEPT ![w] = working]
          /\ mem' = IF mem[w] = NoIndex THEN mem
                    ELSE [mem EXCEPT ![w] = InPlace(existing, working)]
          /\ UNCHANGED <<disk, gen, rev, todo>>
        BY <1>8 DEF Ingest, Takes, TypeOK
    <2>2. CASE working # existing
        BY <1>b, <2>1, <2>2, PersistStep DEF Persisting
    <2>3. CASE working = existing
        <3>1. working = disk /\ pc'[w] = "install" /\ work'[w] = disk
            BY <2>1, <2>3 DEF TypeOK
        <3>2. mem' = mem
            <4>1. CASE mem[w] = NoIndex
                BY <2>1, <4>1
            <4>2. CASE mem[w] # NoIndex
                <5>1. existing = mem[w] /\ existing \in Index
                    BY <4>2, WorkingTyped DEF Existing
                <5>2. InPlace(existing, working) = existing
                    BY <2>3, <5>1 DEF InPlace, Index
                <5> QED
                    BY <2>1, <4>2, <5>1, <5>2 DEF TypeOK
            <4> QED
                BY <4>1, <4>2
        <3>3. \A u \in Worker : u # w => pc'[u] \notin Ingesting
            BY <2>1 DEF Raced
        <3>4. \A u \in Worker : pc[u] \notin Persisting
            BY <2>1 DEF Raced, Ingesting, Persisting
        <3>5. Single'
            BY <3>3 DEF Single
        <3>6. Progress'
            BY <2>1, <3>1, <3>3 DEF Progress, Ingesting, Persisting
        <3>7. Current'
            BY <1>b, <2>1, <3>2, <3>4 DEF Current
        <3> QED
            BY <3>5, <3>6, <3>7
    <2> QED
        BY <2>2, <2>3
<1>9. ASSUME NEW w \in Worker, IngestRefused(w) \/ EmbeddingFails(w) PROVE Good
    <2>1. /\ pc[w] = "idle" /\ pc'[w] = "idle" /\ mem' = mem /\ UNCHANGED <<disk, gen, rev>>
          /\ \A u \in Worker : u # w => pc'[u] = pc[u] /\ work'[u] = work[u] /\ todo'[u] = todo[u]
        BY <1>9 DEF IngestRefused, EmbeddingFails, Takes, Exit, TypeOK
    <2> QED
        BY <1>b, <2>1, QuietStep DEF Ingesting, Persisting
<1>10. ASSUME NEW w \in Worker, Upload(w) \/ Command(w) PROVE Good
    BY <1>10, <1>b DEF Upload, Command, Single, Progress, Current
<1>11. ASSUME NEW w \in Worker, PersistFails(w) PROVE Good
    BY <1>11 DEF PersistFails
<1>12. ASSUME NEW w \in Worker, Crash(w) PROVE Good
    <2>1. /\ Elsewhere(w) /\ pc'[w] = "idle" /\ mem'[w] = NoIndex /\ UNCHANGED <<disk, gen>>
        BY <1>12 DEF Crash, TypeOK
    <2>2. pc[w] \notin Persisting
        BY <1>12 DEF Crash
    <2> QED
        BY <1>b, <2>1, <2>2, QuietStep DEF Ingesting, Persisting
<1>13. CASE UNCHANGED vars
    BY <1>13, <1>b DEF vars, Single, Progress, Current
<1> QED
    BY <1>1, <1>2, <1>3, <1>4, <1>5, <1>6, <1>7, <1>8, <1>9, <1>10, <1>11, <1>12, <1>13
    DEF Next, Steps, Starts, Outside

(* A worker whose revision is the disk's holds what is on disk: loads that *)
(* fell between the steps of an ingest are outdated by its generation.     *)
(* get_indexes, _persist_indexes, _write_generation                        *)
THEOREM RevisionSound == Spec => []RevisionMeansContent
<1>1. RevisionInv => RevisionMeansContent
    BY DEF RevisionInv, Current, RevisionMeansContent, Ingesting
<1> QED
    BY <1>1, InitRevision, NextRevision, TypeCorrect, AlwaysDown, PTL DEF Spec
=============================================================================
