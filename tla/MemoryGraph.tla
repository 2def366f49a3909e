---------------------------- MODULE MemoryGraph ----------------------------
(***************************************************************************)
(* turbomemory_graph::MemoryGraph (graph.rs) as functions of a graph g:    *)
(*   g.slots       the interner: every node ever made, at its id           *)
(*   g.ids         key_to_id: the live keys and their ids                  *)
(*   g.edges       int_edges, a sequence                                   *)
(*   g.adj         int_adjacency: node id -> indices of its outgoing edges *)
(*   g.last        last_memory_id                                          *)
(*   g.heads       last_memory_by_scope                                    *)
(*   g.co          co_occurrence: pair of concepts -> count                *)
(*   g.aliases     the vocabulary                                          *)
(*   g.suppressed  suppressed_concepts                                     *)
(*                                                                         *)
(* A key is <<"mem", id>> or <<"concept", name>>; ids and names are        *)
(* numbers, in the order of the strings.  The abstraction of concepts a    *)
(* and b, "a+b", is the number 10a + b.  Weights are in hundredths.        *)
(***************************************************************************)
EXTENDS Vocabulary, TLC

CONSTANTS
    Scopes,             \* scopes a memory may have, NoScope among them
    NoScope,            \* None: the shared scope
    Nothing,            \* None of an Option
    ClampHigh           \* 8.0, in hundredths

Mem(id) == <<"mem", id>>
Con(name) == <<"concept", name>>
IsMem(key) == key[1] = "mem"
IsCon(key) == key[1] = "concept"
Parent(a, b) == IF a <= b THEN 10 * a + b ELSE 10 * b + a
IsParent(name) == name > 10

Lesser(a, b) == IF a <= b THEN a ELSE b
Greater(a, b) == IF a >= b THEN a ELSE b
Clamp(x, low, high) == Greater(low, Lesser(x, high))
Without(f, x) == [k \in DOMAIN f \ {x} |-> f[k]]

EmptyGraph ==
    [slots |-> <<>>, ids |-> <<>>, edges |-> <<>>, adj |-> <<>>,
     last |-> Nothing, heads |-> [s \in Scopes |-> Nothing],
     co |-> <<>>, aliases |-> <<>>, suppressed |-> {}]

\* sqrt of the importance, 0.1 for one that is not positive.
importance_factor(importance) ==
    IF importance <= 0 THEN 10
    ELSE 100 * (CHOOSE r \in 0 .. importance : r * r <= importance /\ (r + 1) * (r + 1) > importance)

-----------------------------------------------------------------------------
(* Nodes and edges *)

intern_node(g, key, text, base) ==
    IF key \in DOMAIN g.ids THEN g
    ELSE [g EXCEPT !.slots = Append(@, [key |-> key, text |-> text, base |-> base]),
                   !.ids = (key :> Len(g.slots) + 1) @@ @]

\* NodeInterner::iter: the ids a live key still points at, in order.
LiveIds(g) ==
    SelectSeq([i \in 1 .. Len(g.slots) |-> i],
              LAMBDA i : g.slots[i].key \in DOMAIN g.ids /\ g.ids[g.slots[i].key] = i)
memory_nodes(g) == SelectSeq(LiveIds(g), LAMBDA i : IsMem(g.slots[i].key))
KeyOf(g, i) == g.slots[i].key

Edge(s, t, kind, weight, at) ==
    [source |-> s, target |-> t, kind |-> kind, weight |-> weight, at |-> at]

AdjOf(adj, i) == IF i \in DOMAIN adj THEN adj[i] ELSE <<>>
AddAdj(adj, i, idx) == (i :> Append(AdjOf(adj, i), idx)) @@ adj

\* IntAdjacency::rebuild
rebuild(edges) ==
    [s \in {edges[i].source : i \in 1 .. Len(edges)} |->
       SelectSeq([i \in 1 .. Len(edges) |-> i], LAMBDA i : edges[i].source = s)]

AddEdge(g, e) ==
    [g EXCEPT !.edges = Append(@, e), !.adj = AddAdj(@, e.source, Len(g.edges) + 1)]
add_int_edge(g, s, t, kind, weight) == AddEdge(g, Edge(s, t, kind, weight, 0))

\* Outgoing edges of a node that satisfy P, as indices in insertion order.
Outgoing(g, i, P(_)) == SelectSeq(AdjOf(g.adj, i), LAMBDA idx : P(g.edges[idx]))
HasEdge(g, s, t, kind) == Outgoing(g, s, LAMBDA e : e.kind = kind /\ e.target = t) # <<>>

\* An edge that is there keeps the greater weight and the later stamp.
ensure_int_edge(g, s, t, kind, weight, at) ==
    LET same == Outgoing(g, s, LAMBDA e : e.kind = kind /\ e.target = t) IN
    IF same = <<>> THEN AddEdge(g, Edge(s, t, kind, weight, at))
    ELSE [g EXCEPT !.edges[same[1]] =
            [@ EXCEPT !.weight = Greater(@, weight), !.at = Greater(@, at)]]

\* Drop a node's key and every edge that touches it.
DropNode(g, key) ==
    LET i == g.ids[key]
        kept == SelectSeq(g.edges, LAMBDA e : e.source # i /\ e.target # i)
    IN [g EXCEPT !.ids = Without(@, key), !.edges = kept, !.adj = rebuild(kept)]

remove_memory(g, id) == IF Mem(id) \in DOMAIN g.ids THEN DropNode(g, Mem(id)) ELSE g

-----------------------------------------------------------------------------
(* Memories and their concepts *)

\* Every pair of a memory's concepts is counted once more.
CountPairs(co, names) ==
    LET sorted == SortSeq(names, <)
        at == {ij \in (1 .. Len(names)) \X (1 .. Len(names)) : ij[1] < ij[2]}
        PairAt(ij) == <<sorted[ij[1]], sorted[ij[2]]>>
    IN [p \in DOMAIN co \cup {PairAt(ij) : ij \in at} |->
          (IF p \in DOMAIN co THEN co[p] ELSE 0) + Cardinality({ij \in at : PairAt(ij) = p})]

\* m: [id, text, concepts, importance, scope].  The node, an edge each way for
\* every concept, the co-occurrence of its concepts, and the temporal edge
\* from the previous memory of the scope.  By then the node itself is
\* interned, so a previous memory of the same id is the node itself.
add_memory_scoped(g, m) ==
    LET imp == importance_factor(m.importance)
        g1 == intern_node(g, Mem(m.id), m.text, imp)
        me == g1.ids[Mem(m.id)]
        names == resolve_all(g.aliases, m.concepts)
        Link(h, c) == LET h1 == intern_node(h, Con(c), <<c>>, 0)
                          ci == h1.ids[Con(c)]
                      IN add_int_edge(add_int_edge(h1, me, ci, "association", imp),
                                      ci, me, "association", imp)
        g2 == FoldLeft(Link, g1, names)
        prev == IF g.heads[m.scope] # Nothing THEN g.heads[m.scope]
                ELSE IF m.scope = NoScope THEN g.last ELSE Nothing
        g3 == IF prev # Nothing /\ Mem(prev) \in DOMAIN g2.ids
              THEN add_int_edge(g2, g2.ids[Mem(prev)], me, "temporal", imp \div 2)
              ELSE g2
    IN [g3 EXCEPT !.co = CountPairs(@, names),
                  !.heads[m.scope] = m.id,
                  !.last = IF m.scope = NoScope THEN m.id ELSE @]

add_concepts_to_memory(g, id, concepts, importance) ==
    LET me == g.ids[Mem(id)]
        imp == importance_factor(importance)
        Link(h, c) == LET h1 == intern_node(h, Con(c), <<c>>, 0)
                          ci == h1.ids[Con(c)]
                      IN ensure_int_edge(ensure_int_edge(h1, me, ci, "association", imp, 0),
                                         ci, me, "association", imp, 0)
    IN IF Mem(id) \notin DOMAIN g.ids THEN g
       ELSE FoldLeft(Link, g, resolve_all(g.aliases, concepts))

concept_degree(g, name) ==
    IF Con(name) \notin DOMAIN g.ids THEN 0
    ELSE Len(Outgoing(g, g.ids[Con(name)], LAMBDA e : e.kind = "association"))

\* The names of a memory's concepts, one per edge.
memory_concepts(g, id) ==
    IF Mem(id) \notin DOMAIN g.ids THEN <<>>
    ELSE LET out == Outgoing(g, g.ids[Mem(id)], LAMBDA e :
                                e.kind = "association" /\ IsCon(KeyOf(g, e.target)))
         IN [k \in 1 .. Len(out) |-> KeyOf(g, g.edges[out[k]].target)[2]]

\* The same without abstractions, sorted.
BaseConcepts(g, id) ==
    SortSeq(SelectSeq(memory_concepts(g, id), LAMBDA c : ~IsParent(c)), <)

-----------------------------------------------------------------------------
(* Weights *)

Boosted(e, now) ==
    LET w == IF e.at = 0 THEN (3 * e.weight) \div 2
             ELSE e.weight + (10 * e.weight) \div (100 + e.weight)
    IN [e EXCEPT !.weight = Lesser(w, ClampHigh), !.at = now]

reinforce(g, id, now) ==
    LET me == g.ids[Mem(id)] IN
    IF Mem(id) \notin DOMAIN g.ids THEN g
    ELSE [g EXCEPT !.edges = [i \in 1 .. Len(@) |->
            IF @[i].source = me \/ (@[i].kind = "association" /\ @[i].target = me)
            THEN Boosted(@[i], Greater(now, 1)) ELSE @[i]]]

\* Halved for every half life since the last touch; floored at 1.0, but never
\* raised to it.
decay_edges(g, now, half_life) ==
    LET Halvings(e) == Greater(now - e.at, 0) \div half_life
        Decayed(e) == Greater(e.weight \div 2^Halvings(e), Lesser(e.weight, 100))
    IN IF half_life = 0 THEN g
       ELSE [g EXCEPT !.edges = [i \in 1 .. Len(@) |->
               IF @[i].at = 0 THEN @[i] ELSE [@[i] EXCEPT !.weight = Decayed(g.edges[i])]]]

\* Scale a memory's own edges by the change of its importance factor.  (The
\* estimate for a node without a factor, from a snapshot of an old version,
\* is left out: every node made here has one.)
reweight_memory(g, id, importance) ==
    LET me == g.ids[Mem(id)]
        Own(e) == (e.source = me \/ e.target = me) /\ e.kind \in {"association", "temporal"}
        new == importance_factor(importance)
        old == Greater(g.slots[me].base, 1)
    IN IF Mem(id) \notin DOMAIN g.ids \/ SelectSeq(g.edges, Own) = <<>> THEN g
       ELSE [g EXCEPT !.edges = [i \in 1 .. Len(@) |->
                           IF Own(@[i])
                           THEN [@[i] EXCEPT !.weight = Clamp((@ * new) \div old, 1, ClampHigh)]
                           ELSE @[i]],
                      !.slots[me].base = new]

-----------------------------------------------------------------------------
(* The concept layer: abstractions and merged concepts *)

build_abstractions(g, threshold) ==
    LET Due(p) == g.co[p] >= threshold
        pairs == SortSeq(Listed({p \in DOMAIN g.co : Due(p)}),
                         LAMBDA p, q : p[1] < q[1] \/ (p[1] = q[1] /\ p[2] < q[2]))
        Child(h, c, parent) ==
            LET h1 == intern_node(h, Con(c), <<c>>, 0)
                ci == h1.ids[Con(c)]
            IN IF HasEdge(h, ci, parent, "abstraction") THEN h
               ELSE add_int_edge(add_int_edge(h1, ci, parent, "abstraction", 100),
                                 parent, ci, "abstraction", 100)
        Lift(h, p) ==
            LET name == Parent(p[1], p[2])
                h1 == intern_node(h, Con(name), <<name>>, 0)
                parent == h1.ids[Con(name)]
            IN [Child(Child(h1, p[1], parent), p[2], parent) EXCEPT !.co[p] = 0]
    IN IF threshold = 0 THEN g ELSE FoldLeft(Lift, g, pairs)

\* Hand the alias's edges over to the canonical concept: associations with
\* memories and abstractions with concepts, in both directions; then drop the
\* alias.  A canonical concept that has no node takes over the alias's.
MigrateOut(g, canon, edges) ==
    LET Move(h, e) ==
            IF \/ e.kind = "association" /\ IsMem(KeyOf(g, e.target))
               \/ e.kind = "abstraction" /\ IsCon(KeyOf(g, e.target))
            THEN ensure_int_edge(h, canon, e.target, e.kind, e.weight, e.at) ELSE h
    IN FoldLeft(Move, g, edges)
MigrateIn(g, canon, edges) ==
    LET Move(h, e) ==
            IF \/ e.kind = "association" /\ IsMem(KeyOf(g, e.source))
               \/ e.kind = "abstraction" /\ IsCon(KeyOf(g, e.source))
            THEN ensure_int_edge(h, e.source, canon, e.kind, e.weight, e.at) ELSE h
    IN FoldLeft(Move, g, edges)

\* The concept -> memory direction is sourced at the alias again.
merge_concept_node_one_way(g, alias, canonical) ==
    LET ai == g.ids[Con(alias)]
        ci == g.ids[Con(canonical)]
        incoming == SelectSeq(g.edges, LAMBDA e : e.target = ai)
    IN IF {Con(alias), Con(canonical)} \subseteq DOMAIN g.ids
       THEN [DropNode(MigrateIn(g, ci, incoming), Con(alias)) EXCEPT
               !.aliases = add_alias(@, alias, canonical), !.suppressed = @ \ {alias}]
       ELSE g
merge_concept_node(g, alias, canonical) ==
    LET ai == g.ids[Con(alias)]
        ci == g.ids[Con(canonical)]
        out == AdjOf(g.adj, ai)
        outgoing == [k \in 1 .. Len(out) |-> g.edges[out[k]]]
        incoming == SelectSeq(g.edges, LAMBDA e : e.target = ai)
        merged == IF Con(canonical) \in DOMAIN g.ids
                  THEN DropNode(MigrateIn(MigrateOut(g, ci, outgoing), ci, incoming), Con(alias))
                  ELSE [g EXCEPT !.slots[ai].key = Con(canonical), !.slots[ai].text = <<canonical>>,
                                 !.ids = (Con(canonical) :> ai) @@ Without(@, Con(alias))]
    IN IF Con(alias) \notin DOMAIN g.ids THEN g
       ELSE [merged EXCEPT !.aliases = add_alias(@, alias, canonical),
                           !.suppressed = @ \ {alias}]

rebuild_co_occurrence(g) ==
    LET mems == memory_nodes(g)
        Count(co, i) == CountPairs(co, BaseConcepts(g, KeyOf(g, i)[2]))
    IN [g EXCEPT !.co = FoldLeft(Count, <<>>, mems)]

\* Pairs of concepts that mostly occur together, closest first: <<a, b,
\* count, union>>, where count / union is their overlap.
MergeCandidates(g, overlap_threshold) ==
    LET co == rebuild_co_occurrence(g).co
        mems == ToSet(memory_nodes(g))
        With(c) == Cardinality({i \in mems : c \in ToSet(BaseConcepts(g, KeyOf(g, i)[2]))})
        Union(p) == With(p[1]) + With(p[2]) - co[p]
        close == {p \in DOMAIN co : Union(p) > 0 /\ 100 * co[p] >= overlap_threshold * Union(p)}
        Before(p, q) == LET d == co[p] * Union(q) - co[q] * Union(p) IN
                        d > 0 \/ (d = 0 /\ (p[1] < q[1] \/ (p[1] = q[1] /\ p[2] < q[2])))
    IN SortSeq(Listed(close), Before)

\* Merge close pairs, the concept of higher degree being canonical; suppress
\* concepts that hang on too many memories; recount.
evolve_vocabulary(g, overlap_threshold, hub_percent, max_pairs) ==
    LET Merge(s, p) ==
            LET a == resolve(s.g.aliases, p[1])
                b == resolve(s.g.aliases, p[2])
                da == concept_degree(s.g, a)
                db == concept_degree(s.g, b)
                first == da > db \/ (da = db /\ a < b)
                canonical == IF first THEN a ELSE b
                alias == IF first THEN b ELSE a
            IN IF s.merged >= max_pairs \/ a = b THEN s
               ELSE [g |-> merge_concept_node(s.g, alias, canonical),
                     merged |-> s.merged + (IF Con(alias) \in DOMAIN s.g.ids THEN 1 ELSE 0)]
        done == FoldLeft(Merge, [g |-> g, merged |-> 0], MergeCandidates(g, overlap_threshold)).g
        hub == Greater((Greater(Len(memory_nodes(done)), 1) * hub_percent) \div 100, 2)
        hubs == {c \in {k[2] : k \in {k \in DOMAIN done.ids : IsCon(k)}} :
                   ~IsParent(c) /\ concept_degree(done, c) > hub}
    IN IF max_pairs = 0 THEN g
       ELSE rebuild_co_occurrence(IF hub_percent = 0 THEN done
                                  ELSE [done EXCEPT !.suppressed = @ \cup hubs])

-----------------------------------------------------------------------------
(* Beliefs: an edge from the older memory to the one that replaces it *)

Supersedes == {"refines", "contradicts"}

add_refinement(g, old, new) ==
    IF {Mem(old), Mem(new)} \subseteq DOMAIN g.ids
       /\ ~HasEdge(g, g.ids[Mem(old)], g.ids[Mem(new)], "refines")
    THEN add_int_edge(g, g.ids[Mem(old)], g.ids[Mem(new)], "refines", 80)
    ELSE g

\* Weakens the old memory's own edges first.
add_contradiction(g, old, new, weaken_percent) ==
    LET oi == g.ids[Mem(old)]
        weak == [g EXCEPT !.edges = [i \in 1 .. Len(@) |->
                   IF @[i].source = oi /\ @[i].kind \in {"association", "temporal"}
                   THEN [@[i] EXCEPT !.weight = (@ * weaken_percent) \div 100] ELSE @[i]]]
    IN IF {Mem(old), Mem(new)} \subseteq DOMAIN g.ids
          /\ ~HasEdge(g, oi, g.ids[Mem(new)], "contradicts")
       THEN add_int_edge(weak, oi, g.ids[Mem(new)], "contradicts", 80)
       ELSE g

Beliefs(g) == {e \in ToSet(g.edges) : e.kind \in Supersedes
                 /\ IsMem(KeyOf(g, e.source)) /\ IsMem(KeyOf(g, e.target))}
superseded_ids(g) == {KeyOf(g, e.source)[2] : e \in Beliefs(g)}

Replacing(g, id, kinds) ==
    LET out == IF Mem(id) \in DOMAIN g.ids
               THEN Outgoing(g, g.ids[Mem(id)], LAMBDA e : e.kind \in kinds) ELSE <<>>
    IN [k \in 1 .. Len(out) |-> KeyOf(g, g.edges[out[k]].target)[2]]
refined_by(g, id) == Replacing(g, id, {"refines"})
contradicted_by(g, id) == Replacing(g, id, {"contradicts"})

supersession_successors(g, i) ==
    Outgoing(g, i, LAMBDA e : e.kind \in Supersedes /\ IsMem(KeyOf(g, e.target)))

\* The target of the edge with the highest index; 0 when there is none.
supersession_next(g, i) ==
    LET out == supersession_successors(g, i)
    IN IF out = <<>> THEN 0 ELSE g.edges[out[Len(out)]].target

\* Follow `after` from `start` until it ends or comes back to a visited node.
Walk(start, visited, after) ==
    LET walk[k \in 0 .. Len(after)] ==
            IF k = 0 THEN <<start>>
            ELSE LET w == walk[k - 1]
                     next == after[w[Len(w)]]
                 IN IF next = 0 \/ next \in visited \cup ToSet(w) THEN w ELSE Append(w, next)
    IN walk[Len(after)]

Forward(g, i) == Walk(i, {}, [n \in 1 .. Len(g.slots) |-> supersession_next(g, n)])

belief_head(g, id) ==
    IF Mem(id) \notin DOMAIN g.ids THEN id
    ELSE KeyOf(g, Last(Forward(g, g.ids[Mem(id)])))[2]


\* Oldest first, head last; the way back also takes the latest edge.
belief_lineage(g, id) ==
    LET start == g.ids[Mem(id)]
        ahead == Forward(g, start)
        Into(n) == {k \in 1 .. Len(g.edges) : g.edges[k] \in Beliefs(g) /\ g.edges[k].target = n}
        Previous(n) == IF Into(n) = {} THEN 0
                       ELSE g.edges[CHOOSE k \in Into(n) : \A j \in Into(n) : j <= k].source
        back == Walk(start, ToSet(ahead), [n \in 1 .. Len(g.slots) |-> Previous(n)])
        chain == Reverse(Tail(back)) \o ahead
    IN IF Mem(id) \notin DOMAIN g.ids THEN <<id>>
       ELSE [k \in 1 .. Len(chain) |-> KeyOf(g, chain[k])[2]]

-----------------------------------------------------------------------------
(* Snapshots *)

KindRank == [association |-> 1, temporal |-> 2, abstraction |-> 3, refines |-> 4, contradicts |-> 5]

\* compact's order: source, target, kind, weight, by external id; names maps
\* a node to that id.
EdgeBefore(names, a, b) ==
    LET ka == <<names[a.source], names[a.target], KindRank[a.kind], a.weight>>
        kb == <<names[b.source], names[b.target], KindRank[b.kind], b.weight>>
    IN \E i \in 1 .. 4 : ka[i] < kb[i] /\ \A j \in 1 .. i - 1 : ka[j] = kb[j]

compact(g) ==
    LET names == [i \in 1 .. Len(g.slots) |-> KeyOf(g, i)[2]]
        edges == SortSeq(g.edges, LAMBDA a, b : EdgeBefore(names, a, b))
    IN [g EXCEPT !.edges = edges, !.adj = rebuild(edges)]

\* Edges as they were inserted.
to_snapshot_bytes_unsorted(g) ==
    LET live == LiveIds(g)
        Dense(i) == CHOOSE k \in 1 .. Len(live) : live[k] = i
        kept == SelectSeq(g.edges, LAMBDA e : {e.source, e.target} \subseteq ToSet(live))
    IN [nodes |-> [k \in 1 .. Len(live) |-> g.slots[live[k]]],
        edges |-> [k \in 1 .. Len(kept) |->
                     [kept[k] EXCEPT !.source = Dense(@), !.target = Dense(@)]],
        last |-> g.last, co |-> g.co, aliases |-> g.aliases, suppressed |-> g.suppressed]

\* Live nodes in id order under dense ids, edges between live nodes sorted.
to_snapshot_bytes(g) ==
    LET live == LiveIds(g)
        Dense(i) == CHOOSE k \in 1 .. Len(live) : live[k] = i
        kept == SelectSeq(g.edges, LAMBDA e : {e.source, e.target} \subseteq ToSet(live))
        mapped == [k \in 1 .. Len(kept) |->
                     [kept[k] EXCEPT !.source = Dense(@), !.target = Dense(@)]]
        nodes == [k \in 1 .. Len(live) |-> g.slots[live[k]]]
        names == [k \in 1 .. Len(live) |-> nodes[k].key[2]]
    IN [nodes |-> nodes,
        edges |-> SortSeq(mapped, LAMBDA a, b : EdgeBefore(names, a, b)),
        last |-> g.last, co |-> g.co, aliases |-> g.aliases, suppressed |-> g.suppressed]

\* The heads of the scopes are not in a snapshot.
from_snapshot_bytes(s) ==
    [EmptyGraph EXCEPT
       !.slots = s.nodes,
       !.ids = [k \in {s.nodes[i].key : i \in 1 .. Len(s.nodes)} |->
                  CHOOSE i \in 1 .. Len(s.nodes) : s.nodes[i].key = k],
       !.edges = s.edges, !.adj = rebuild(s.edges),
       !.last = s.last, !.co = s.co, !.aliases = s.aliases, !.suppressed = s.suppressed]

\* LegacyMemoryGraph, the JSON form: nodes by key, edges by the keys of their
\* ends.  Reading it interns the nodes in the order of their keys.
to_json(g) ==
    LET c == compact(g) IN
    [nodes |-> {c.slots[i] : i \in ToSet(LiveIds(c))},
     edges |-> [k \in 1 .. Len(c.edges) |->
                  [c.edges[k] EXCEPT !.source = KeyOf(c, @), !.target = KeyOf(c, @)]],
     last |-> c.last, co |-> c.co, aliases |-> c.aliases, suppressed |-> c.suppressed]

from_json(s) ==
    LET order == SortSeq(Listed(s.nodes), LAMBDA a, b :
                    \/ IsCon(a.key) /\ IsMem(b.key)
                    \/ a.key[1] = b.key[1] /\ a.key[2] < b.key[2])
        empty == [EmptyGraph EXCEPT !.last = s.last, !.co = s.co, !.aliases = s.aliases,
                                    !.suppressed = s.suppressed]
        Intern(g, n) == intern_node(g, n.key, n.text, n.base)
        nodes == FoldLeft(Intern, empty, order)
        kept == SelectSeq(s.edges, LAMBDA e : {e.source, e.target} \subseteq DOMAIN nodes.ids)
        edges == [k \in 1 .. Len(kept) |->
                    [kept[k] EXCEPT !.source = nodes.ids[@], !.target = nodes.ids[@]]]
    IN [nodes EXCEPT !.edges = edges, !.adj = rebuild(edges)]

stats(g) ==
    LET Count(P(_)) == Cardinality({k \in DOMAIN g.ids : P(k)}) IN
    [node_count |-> Len(LiveIds(g)), edge_count |-> Len(g.edges),
     memory_count |-> Count(IsMem),
     concept_count |-> Count(LAMBDA k : IsCon(k) /\ ~IsParent(k[2])),
     abstraction_count |-> Count(LAMBDA k : IsCon(k) /\ IsParent(k[2])),
     refinement_count |-> Len(SelectSeq(g.edges, LAMBDA e : e.kind = "refines")),
     contradiction_count |-> Len(SelectSeq(g.edges, LAMBDA e : e.kind = "contradicts"))]

=============================================================================
