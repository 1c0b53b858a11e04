----------------------------- MODULE Retrieval -----------------------------
(***************************************************************************)
(* What a course question retrieves from the indexes a worker holds: the   *)
(* search half of app/rag/vectorstore.py, rag/lexical.py, rag/reranker.py, *)
(* rag/retrieval_plan.py and retrieve_course_docs of app/agents/rag.py,    *)
(* all of it under _index_lock, as functions of the indexes.               *)
(*                                                                         *)
(* A chunk is [scope, source, section, index, parent, live].  Children are *)
(* searched, a section's parent is what the prompt gets.  A file taken out *)
(* or changed leaves its chunks in the index marked deleted (live is       *)
(* false) until a rebuild.  The embedding and BM25 are rankings, given as  *)
(* sequences of chunks.                                                    *)
(***************************************************************************)
EXTENDS Positions

(* The tenant's index and the platform's; a bound course never looks in    *)
(* the platform's.                                                         *)
SearchScopes(indexes, tenant, platform, bound) ==
    indexes \cap (IF bound THEN {tenant} ELSE {tenant, platform})

Clamp(value, low, high) == Most(low, Least(high, value))

(* The plan for a question of this profile.                                *)
PlannedK(profile, k, low, high) ==
    CASE profile = "explicit_course" -> Clamp(Most(2 * k, low), low, high)
      [] profile = "complex"         -> high
      [] OTHER                       -> Clamp(Most(3 * k, low), low, high)

(* How many candidates each search returns: the plan's number, or a fixed  *)
(* one where the plan is switched off (rag_dynamic_k_enabled).             *)
FetchK(dynamic, profile, k, low, high) ==
    IF dynamic THEN PlannedK(profile, k, low, high) ELSE Most(3 * k, 12)

(* How many neighbours the vector index is asked for: more than the        *)
(* candidates wanted, as some of them are deleted chunks or parents.       *)
VectorInnerK(fetchK, bound, total) ==
    Least(total, Most(fetchK * (IF bound THEN 8 ELSE 4), IF bound THEN 32 ELSE 16))

(* nearest: all chunks by distance; innerK[s] of them from each scope.     *)
(* course: the chunks that pass the filter on the course, if any.          *)
SearchVector(scopes, nearest, innerK, fetchK, course) ==
    LET store(s) == {i \in DOMAIN nearest : nearest[i].scope = s}
        found == UNION {{i \in store(s) : Rank(store(s), i) =< innerK[s]} : s \in scopes}
    IN  First(Pick(nearest, {i \in found : LET c == nearest[i]
                                           IN  c.live /\ ~c.parent /\ c \in course}), fetchK)

(* scored: the chunks that share a word with the query, best first.  The   *)
(* tables hold only live children.                                         *)
SearchBm25(scopes, scored, lexicalFetch, fetchK, course) ==
    LET table(s) == {i \in DOMAIN scored : LET c == scored[i]
                                           IN  c.scope = s /\ c.live /\ ~c.parent}
        found == UNION {{i \in table(s) : Rank(table(s), i) =< lexicalFetch} : s \in scopes}
    IN  First(Pick(scored, {i \in found : scored[i] \in course}), fetchK)

(* Reciprocal rank fusion: the sum of 1 / (rrfK + rank) over both lists,   *)
(* as a fraction.                                                          *)
Score(vector, bm25, rrfK, c) ==
    LET over(list) == rrfK + CHOOSE r \in DOMAIN list : list[r] = c
    IN  IF c \notin Range(bm25) THEN [num |-> 1, den |-> over(vector)]
        ELSE IF c \notin Range(vector) THEN [num |-> 1, den |-> over(bm25)]
        ELSE [num |-> over(vector) + over(bm25), den |-> over(vector) * over(bm25)]

(* Best first; ties in the order of first appearance.                      *)
FuseHits(vector, bm25, rrfK, limit) ==
    LET all == vector \o Pick(bm25, {i \in DOMAIN bm25 : bm25[i] \notin Range(vector)})
        score(i) == Score(vector, bm25, rrfK, all[i])
        gain(i, j) == score(i).num * score(j).den - score(j).num * score(i).den
        before(i, j) == gain(i, j) > 0 \/ (gain(i, j) = 0 /\ i < j)
        place(i) == Cardinality({j \in DOMAIN all : before(j, i)}) + 1
    IN  First([p \in DOMAIN all |-> all[CHOOSE i \in DOMAIN all : place(i) = p]], limit)

(* Any order the cross encoder gives; its failure or timeout keeps the     *)
(* order of the fusion.  One hit is returned as it is.                     *)
RerankHits(hits, topK) ==
    IF hits = <<>> \/ topK = 0 THEN {<<>>}
    ELSE IF Len(hits) = 1 THEN {hits}
    ELSE {First([i \in DOMAIN hits |-> hits[p[i]]], topK) : p \in Bijection(DOMAIN hits, DOMAIN hits)}

(* Which hits count: close to the query (vector_sim >= rag_min_score) or   *)
(* found by a word.  A bound course takes its best candidates anyway.      *)
AcceptedHits(ranked, close, bm25, bound) ==
    LET passing == {i \in DOMAIN ranked : ranked[i] \in close \union Range(bm25)}
    IN  IF passing = {} /\ bound THEN ranked ELSE Pick(ranked, passing)

(* What the hits are expanded with: the chunks in use of the scopes        *)
(* searched, and of the course if one is bound.                            *)
TenantDocuments(documents, scopes, course) ==
    Pick(documents, {i \in DOMAIN documents : LET c == documents[i]
                                              IN  c.scope \in scopes /\ c.live /\ c \in course})

(* The parent that stands for a child: of chunks with the same file name   *)
(* and section, the last in the corpus, where the platform's come last.    *)
ContextDocument(c, corpus) ==
    LET parents == {i \in DOMAIN corpus :
                        corpus[i].parent /\ corpus[i].source = c.source /\ corpus[i].section = c.section}
    IN  IF parents = {} THEN c ELSE corpus[CHOOSE i \in parents : \A j \in parents : j =< i]

(* The context: for each hit its parent, then the parents of its section,  *)
(* then of its neighbours, each once, at its best place (rank of the hit,  *)
(* tier, distance).                                                        *)
ExpandHits(hits, corpus, neighbor) ==
    LET children == {i \in DOMAIN corpus : ~corpus[i].parent}
        places(source, index) ==
            {i \in children : corpus[i].source = source /\ corpus[i].index = index}
        at(source, index) ==
            {corpus[i] : i \in {j \in places(source, index) :
                                    \A k \in places(source, index) : k =< j}}
        gap(c, d) == Most(c.index, d.index) - Least(c.index, d.index)
        item(c, r, tier, distance) ==
            [document |-> ContextDocument(c, corpus), key |-> <<r, tier, distance>>]
        of(r) == LET hit == hits[r] IN
            {item(hit, r, 0, 0)}
            \union {item(c, r, 1, gap(c, hit)) : c \in
                {d \in {corpus[i] : i \in children} \ {hit} :
                    d.source = hit.source /\ d.section = hit.section}}
            \union {item(c, r, 2, gap(c, hit)) : c \in
                UNION {at(hit.source, i) : i \in
                    (hit.index - neighbor .. hit.index + neighbor) \ {hit.index}}}
        items == UNION {of(r) : r \in DOMAIN hits}
        less(a, b) == \E n \in 1 .. 3 : a[n] < b[n] /\ \A m \in 1 .. n - 1 : a[m] = b[m]
    IN  {i \in items : ~\E j \in items : j.document = i.document /\ less(j.key, i.key)}

(* Whole documents, best first, that fit the budget; the best always.  A   *)
(* budget of 0 keeps everything.                                           *)
TrimByBudget(documents, budget, cost) ==
    LET kept[n \in 0 .. Len(documents)] ==
            IF n = 0 THEN [docs |-> <<>>, total |-> 0]
            ELSE LET k == kept[n - 1]
                     c == cost[documents[n]]
                 IN  IF k.docs # <<>> /\ k.total + c > budget THEN k
                     ELSE [docs |-> Append(k.docs, documents[n]), total |-> k.total + c]
    IN  IF budget = 0 THEN documents ELSE kept[Len(documents)].docs
=============================================================================
