----------------------------- MODULE Activation -----------------------------
(***************************************************************************)
(* turbomemory_graph::{bm25, activation}: the lexical index over the       *)
(* memories' texts, and the search that widens a list of ANN hits with     *)
(* what the graph and the words of the query reach.                        *)
(*                                                                         *)
(* A lexical index is [docs: id -> words, freq: word -> documents, total].  *)
(* Seed scores (cosines) are in hundredths, signals and deltas in          *)
(* ten-thousandths.                                                        *)
(***************************************************************************)
EXTENDS MemoryGraph

CONSTANTS
    SeedHops,           \* seed_hops_from: seeds the expansion starts from
    MaxCandidates       \* expansion_max_candidates

-----------------------------------------------------------------------------
(* Bm25Index.  A tokenized text is the text: every word has two letters. *)

EmptyIndex == [docs |-> <<>>, freq |-> <<>>, total |-> 0]
Count(f, x) == IF x \in DOMAIN f THEN f[x] ELSE 0

add_term_freqs(freq, tokens) ==
    [t \in DOMAIN freq \cup ToSet(tokens) |-> Count(freq, t) + (IF t \in ToSet(tokens) THEN 1 ELSE 0)]

remove_term_freqs(freq, tokens) ==
    LET Left(t) == freq[t] - (IF t \in ToSet(tokens) THEN 1 ELSE 0)
    IN [t \in {t \in DOMAIN freq : Left(t) > 0} |-> Left(t)]

Bm25Remove(x, id) ==
    IF id \notin DOMAIN x.docs THEN x
    ELSE [docs |-> Without(x.docs, id), freq |-> remove_term_freqs(x.freq, x.docs[id]),
          total |-> x.total - Len(x.docs[id])]

Bm25Add(x, id, text) ==
    LET y == Bm25Remove(x, id)
    IN [docs |-> (id :> text) @@ y.docs, freq |-> add_term_freqs(y.freq, text),
        total |-> y.total + Len(text)]

recompute(x) ==
    LET words == UNION {ToSet(x.docs[d]) : d \in DOMAIN x.docs}
        AddLen(n, d) == n + Len(x.docs[d])
    IN [x EXCEPT !.freq = [t \in words |-> Cardinality({d \in DOMAIN x.docs : t \in ToSet(x.docs[d])})],
                 !.total = FoldLeft(AddLen, 0, Listed(DOMAIN x.docs))]

\* The inverse document frequency; its logarithm, which keeps the order, is
\* left out.
idf(x, t) == (200 * (Cardinality(DOMAIN x.docs) + 1)) \div (2 * Count(x.freq, t) + 1)

\* k1 = 1.2 and b = 0.75, over the average length total / docs.
TermScore(x, d, t) ==
    LET doc == x.docs[d]
        tf == Cardinality({i \in 1 .. Len(doc) : doc[i] = t})
    IN IF tf = 0 THEN 0
       ELSE (idf(x, t) * 22 * tf * x.total)
              \div (10 * tf * x.total + 3 * x.total + 9 * Len(doc) * Cardinality(DOMAIN x.docs))

\* The documents a query scores on, with their scores.
Bm25Score(x, query) ==
    LET Total(d) == FoldLeft(LAMBDA n, t : n + TermScore(x, d, t), 0, query)
    IN [d \in {d \in DOMAIN x.docs : Total(d) > 0} |-> Total(d)]

-----------------------------------------------------------------------------
(* SpreadingActivation: [graph, bm25] *)

NewActivation(graph) ==
    LET mems == memory_nodes(graph)
        Index(x, i) == Bm25Add(x, KeyOf(graph, i)[2], graph.slots[i].text)
    IN [graph |-> graph, bm25 |-> FoldLeft(Index, EmptyIndex, mems)]

AddMemory(a, m) ==
    [graph |-> add_memory_scoped(a.graph, m), bm25 |-> Bm25Add(a.bm25, m.id, m.text)]
RemoveMemory(a, id) ==
    [graph |-> remove_memory(a.graph, id), bm25 |-> Bm25Remove(a.bm25, id)]

-----------------------------------------------------------------------------
(* search_restricted.  A contribution is [pool, id, signal]; one step of the *)
(* walk adds a list of contributions and then looks at the bound.            *)

PoolOrder == <<"strong", "temporal", "normal", "abstraction">>
Pools == ToSet(PoolOrder)
NoPools == [p \in Pools |-> <<>>]
Contribute(pools, c) ==
    [pools EXCEPT ![c.pool] = (c.id :> Count(@, c.id) + c.signal) @@ @]
PoolSize(pools) ==
    FoldLeft(LAMBDA n, p : n + Cardinality(DOMAIN pools[p]), 0, PoolOrder)


\* To a memory that the caller may see, as a list of at most one.
Reach(g, allowed, pool, target, signal) ==
    IF IsMem(KeyOf(g, target)) /\ KeyOf(g, target)[2] \in allowed
    THEN <<[pool |-> pool, id |-> KeyOf(g, target)[2], signal |-> signal]>> ELSE <<>>

Suppressed(g, i) == KeyOf(g, i)[2] \in g.suppressed
EdgesOf(g, i) == LET out == AdjOf(g.adj, i) IN [k \in 1 .. Len(out) |-> g.edges[out[k]]]
Collect(s, F(_)) == FlattenSeq([k \in 1 .. Len(s) |-> F(s[k])])

\* Concepts the query names outright.
QueryConcepts(g, allowed, query) ==
    LET OfWord(w) ==
            IF Con(w) \notin DOMAIN g.ids \/ w \in g.suppressed THEN <<>>
            ELSE Collect(EdgesOf(g, g.ids[Con(w)]), LAMBDA e :
                   IF e.kind = "association"
                   THEN Reach(g, allowed, "normal", e.target, 75 * e.weight) ELSE <<>>)
    IN Collect(query, OfWord)

\* concept -> parent -> sibling concept -> memory.
ThroughParent(g, allowed, concept, parent, energy) ==
    Collect(EdgesOf(g, parent), LAMBDA p :
      IF p.kind # "abstraction" \/ p.target = concept \/ ~IsCon(KeyOf(g, p.target))
         \/ Suppressed(g, p.target)
      THEN <<>>
      ELSE Collect(EdgesOf(g, p.target), LAMBDA e :
             IF e.kind = "association"
             THEN Reach(g, allowed, "abstraction", e.target,
                        (((energy * p.weight) \div 100) * e.weight) \div 200)
             ELSE <<>>))

\* mem -> concept -> memory: one step for every edge of the concept.
ThroughConcept(g, allowed, seed, concept, energy) ==
    LET out == EdgesOf(g, concept) IN
    [k \in 1 .. Len(out) |->
       IF out[k].kind = "association" /\ IsMem(KeyOf(g, out[k].target)) /\ out[k].target # seed
       THEN Reach(g, allowed, "normal", out[k].target, (energy * out[k].weight) \div 200)
       ELSE IF out[k].kind = "abstraction" /\ IsCon(KeyOf(g, out[k].target))
       THEN ThroughParent(g, allowed, concept, out[k].target, (energy * out[k].weight) \div 100)
       ELSE <<>>]

\* The steps of one seed's edge.  A suppressed concept's is skipped.
EdgeSteps(g, allowed, seed, score, e) ==
    CASE e.kind \in Supersedes ->
           <<Reach(g, allowed, "strong", e.target, (score * e.weight) \div 2)>>
      [] e.kind = "temporal" ->
           <<Reach(g, allowed, "temporal", e.target, (score * e.weight) \div 2)>>
      [] e.kind = "association" /\ IsCon(KeyOf(g, e.target)) ->
           IF Suppressed(g, e.target) THEN <<>>
           ELSE Append(ThroughConcept(g, allowed, seed, e.target, (score * e.weight) \div 100), <<>>)
      [] OTHER -> <<<<>>>>

\* The signals a pool adds to a candidate, with the factor of its kind.
Boost(pool, signal) ==
    LET b == IF pool = "strong" THEN signal
             ELSE IF pool = "temporal" THEN signal \div 2 ELSE (3 * signal) \div 4
    IN IF b > 100 THEN b ELSE 0

Expansion(g, allowed, query, seeds) ==
    LET mine == SelectSeq(seeds, LAMBDA s : Mem(s.id) \in DOMAIN g.ids)
        steps == Collect(mine, LAMBDA s :
                   Collect(EdgesOf(g, g.ids[Mem(s.id)]), LAMBDA e :
                     EdgeSteps(g, allowed, g.ids[Mem(s.id)], s.score, e)))
        start == FoldLeft(Contribute, NoPools, QueryConcepts(g, allowed, query))
        Step(s, list) ==
            LET pools == FoldLeft(Contribute, s.pools, list) IN
            IF s.full THEN s ELSE [pools |-> pools, full |-> PoolSize(pools) >= MaxCandidates]
    IN FoldLeft(Step, [pools |-> start, full |-> FALSE], steps).pools

\* The normalised lexical boost of the documents the caller may see.
LexicalBoost(a, query, allowed) ==
    LET scored == Bm25Score(a.bm25, query)
        lexical == {<<d, scored[d]>> : d \in DOMAIN scored \cap allowed}
        max_lex == FoldSet(LAMBDA l, m : Greater(m, l[2]), 0, lexical)
    IN FoldSet(LAMBDA l, f : (l[1] :> (3000 * l[2]) \div max_lex) @@ f, <<>>, lexical)

\* The seeds the expansion starts from: the best by score.
Anchors(seeds) ==
    FirstOf(SortSeq(seeds, LAMBDA x, y : x.score > y.score \/ (x.score = y.score /\ x.id < y.id)), SeedHops)

Ranked(found, top_k) ==
    FirstOf(SortSeq(Listed(found), LAMBDA x, y : x.rank > y.rank \/ (x.rank = y.rank /\ x.id < y.id)), top_k)

\* seeds: a list of [id, score], at most one for an id.  The result is a list
\* of [id, delta, rank], <<>> for None.
search_restricted(a, query, seeds, top_k, allowed) ==
    LET mine == [k \in 1 .. Len(seeds) |-> [seeds[k] EXCEPT !.score = Greater(@, 0)]]
        floor == {s.id : s \in ToSet(mine)}
        SeedScore(id) == IF id \in floor THEN (CHOOSE s \in ToSet(mine) : s.id = id).score ELSE 0
        lexical == LexicalBoost(a, query, allowed)
        pools == Expansion(a.graph, allowed, query, Anchors(mine))
        Graph(id) == FoldLeft(LAMBDA n, p : n + Boost(p, Count(pools[p], id)), 0, PoolOrder)
        Delta(id) == Count(lexical, id) + Graph(id)
        reached == UNION {DOMAIN pools[p] : p \in Pools}
        found == floor \cup DOMAIN lexical \cup {id \in reached : Graph(id) > 0}
    IN IF seeds = <<>> THEN <<>>
       ELSE Ranked({[id |-> id, delta |-> Delta(id), rank |-> 100 * SeedScore(id) + Delta(id)] : id \in found},
                   top_k)

=============================================================================
