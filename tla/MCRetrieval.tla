---------------------------- MODULE MCRetrieval ----------------------------
(* The retrieval functions against what they are meant to compute, over    *)
(* every small input.                                                      *)
EXTENDS Retrieval

Orders(set) == {[i \in 1 .. Cardinality(set) |-> f[i]] :
                    f \in {g \in [1 .. Cardinality(set) -> set] : {g[i] : i \in DOMAIN g} = set}}
Chunk(scope, source, section, index, live) ==
    [scope |-> scope, source |-> source, section |-> section, index |-> index,
     parent |-> index < 0, live |-> live]

(* A tenant's file and a platform's, each chunk deleted or not.            *)
Corpora ==
    {{Chunk("t", "a", "s", -1, live[1]), Chunk("t", "a", "s", 0, live[2]),
      Chunk("t", "a", "s", 1, live[3]), Chunk("platform", "b", "s", 0, live[4])} :
        live \in [1 .. 4 -> BOOLEAN]}

(* The vector search returns only live children, nearest first; and as     *)
(* long as deleted chunks and parents take no more of the window than it   *)
(* exceeds the candidates wanted, it returns the nearest of them all.      *)
ASSUME VectorAssumption ==
    \A corpus \in Corpora : \A nearest \in Orders(corpus) : \A k \in 1 .. 2, wide \in 1 .. 4 :
        LET innerK == [s \in {"t", "platform"} |-> wide]
            found == SearchVector({"t", "platform"}, nearest, innerK, k, corpus)
            best == SelectSeq(nearest, LAMBDA c : c.live /\ ~c.parent)
            wasted == {c \in corpus : c.parent \/ ~c.live}
        IN  /\ Range(found) \subseteq Range(best)
            /\ (\A s \in {"t", "platform"} : Cardinality({c \in wasted : c.scope = s}) + k =< wide)
                 => found = First(best, k)

(* The word search returns only live children of the course, best first;   *)
(* only chunks of other courses take room from them, deleted chunks and    *)
(* parents do not.                                                         *)
ASSUME LexicalAssumption ==
    \A corpus \in Corpora : \A scored \in Orders(corpus) : \A k \in 1 .. 2, wide \in 1 .. 3 :
        \A course \in {corpus, {c \in corpus : c.index # 0}} :
            LET found == SearchBm25({"t", "platform"}, scored, wide, k, course)
                best == SelectSeq(scored, LAMBDA c : c.live /\ ~c.parent /\ c \in course)
                others == {c \in corpus \ course : c.live /\ ~c.parent}
            IN  /\ Range(found) \subseteq Range(best)
                /\ Cardinality(others) + k =< wide => found = First(best, k)

(* The window of the vector index always exceeds the candidates wanted,    *)
(* unless it is the whole index.                                           *)
ASSUME WindowAssumption ==
    \A k \in 1 .. 12, total \in 0 .. 60 : \A bound, dynamic \in BOOLEAN :
        \A profile \in {"explicit_course", "complex", "default"} :
            LET fetchK == FetchK(dynamic, profile, k, 12, 32)
                inner == VectorInnerK(fetchK, bound, total)
            IN  fetchK >= 12 /\ (dynamic => fetchK =< 32) /\ (inner = total \/ inner >= 4 * fetchK)

Words == {1, 2, 3}
Rankings == UNION {Orders(set) : set \in SUBSET Words}
Place(list, c) == IF c \in Range(list) THEN CHOOSE r \in DOMAIN list : list[r] = c ELSE 9

(* Fusion keeps what either list holds, once, and a chunk placed no worse  *)
(* by both lists and better by one comes first.                            *)
ASSUME FusionAssumption ==
    \A v, b \in Rankings :
        LET fused == FuseHits(v, b, 60, 9)
        IN  /\ Range(fused) = Range(v) \union Range(b)
            /\ Len(fused) = Cardinality(Range(fused))
            /\ \A c, d \in Range(fused) :
                Place(v, c) =< Place(v, d) /\ Place(b, c) =< Place(b, d) /\ c # d
                    => Place(fused, c) < Place(fused, d)

(* Two files of two sections, the second of the platform, under another    *)
(* name or under the same.                                                 *)
Library(name) ==
    <<Chunk("t", "a", "s", -1, TRUE), Chunk("t", "a", "s", 0, TRUE), Chunk("t", "a", "u", 1, TRUE),
      Chunk("platform", name, "s", -1, TRUE), Chunk("platform", name, "s", 0, TRUE),
      Chunk("platform", name, "u", 1, TRUE)>>
HitLists(library) ==
    UNION {Orders(set) : set \in {h \in SUBSET Range(library) :
                                    Cardinality(h) \in 1 .. 2 /\ \A c \in h : ~c.parent}}

(* The context has the best hit's document in the first place, no document *)
(* twice, and only documents of the files that were hit: of the scope that *)
(* was hit, too, if no file of the tenant has the name of a platform file  *)
(* or a course is bound.                                                   *)
ASSUME ExpandAssumption ==
    \A name \in {"a", "b"} : \A bound \in BOOLEAN : \A neighbor \in 0 .. 1 :
        LET scopes == SearchScopes({"t", "platform", "other"}, "t", "platform", bound)
            corpus == TenantDocuments(Library(name), scopes, Range(Library(name)))
        IN  \A hits \in HitLists(corpus) :
            LET items == ExpandHits(hits, corpus, neighbor)
            IN  /\ \E i \in items : /\ i.key = <<1, 0, 0>>
                                    /\ i.document = ContextDocument(hits[1], corpus)
                /\ \A i, j \in items : i.document = j.document => i = j
                /\ \A i \in items : \E h \in Range(hits) :
                    /\ i.document.source = h.source
                    /\ name # "a" \/ bound => i.document.scope = h.scope

(* The trimmed context starts with the best document, is within the budget *)
(* or only that document, and leaves a document out only if it does not    *)
(* fit beside what stays before it.                                        *)
ASSUME TrimAssumption ==
    \A documents \in Rankings \ {<<>>} : \A cost \in [Words -> 1 .. 3] : \A budget \in 1 .. 6 :
        LET kept == TrimByBudget(documents, budget, cost)
            total[n \in 0 .. Len(kept)] == IF n = 0 THEN 0 ELSE total[n - 1] + cost[kept[n]]
            before(d) == Cardinality({c \in Range(kept) : Place(documents, c) < Place(documents, d)})
        IN  /\ kept[1] = documents[1]
            /\ Len(kept) = 1 \/ total[Len(kept)] =< budget
            /\ \A d \in Range(documents) \ Range(kept) : total[before(d)] + cost[d] > budget

(* Accepted hits are ranked hits; a bound course with candidates is never  *)
(* left without; reranking only permutes and cuts.                         *)
ASSUME AcceptAssumption ==
    \A ranked, lexical \in Rankings : \A close \in SUBSET Words : \A bound \in BOOLEAN :
        LET hits == AcceptedHits(ranked, close, lexical, bound)
        IN  /\ Range(hits) \subseteq Range(ranked)
            /\ bound /\ ranked # <<>> => hits # <<>>
            /\ \A k \in 0 .. 3 : \A r \in RerankHits(hits, k) :
                /\ Range(r) \subseteq Range(hits)
                /\ Len(r) = Cardinality(Range(r)) /\ Len(r) >= Least(k, Len(hits))
                /\ First(hits, k) \in RerankHits(hits, k) \/ Len(hits) = 1
=============================================================================
