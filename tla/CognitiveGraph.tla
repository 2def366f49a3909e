--------------------------- MODULE CognitiveGraph ---------------------------
(***************************************************************************)
(* The cognitive graph of a StorageEngine beside its records: what writes, *)
(* recall, belief revision and consolidation do to it, the snapshot that   *)
(* save_graph stores, and the graph an engine comes back with.             *)
(*                                                                         *)
(*   records   the live records: id -> [text, concepts, importance, scope, *)
(*             seq]; every write reaches the log before the graph, so they *)
(*             survive a crash                                             *)
(*   act       the SpreadingActivation: the graph and the lexical index    *)
(*   saved     the snapshot in the metadata store, or Nothing              *)
(*   clock     now_secs, in half lives of an edge                          *)
(*   steps     operations so far                                           *)
(***************************************************************************)
EXTENDS Activation

CONSTANTS
    Inputs,             \* what a caller may write: [id, text, concepts, importance, scope]
    Opening,            \* sets of inputs a database may hold when it is opened
    Queries,            \* query texts
    Callers,            \* scopes a search may run in
    Hits,               \* lists of [id, score] the ANN search may return
    Importances,        \* values recompute_importance may find
    TopK,               \* results a caller asks for
    MaxConcepts,        \* extractor max_concepts
    AbstractAt,         \* abstraction_co_occurrence_threshold
    MergeAt,            \* concept_merge_overlap_threshold, in percent
    HubPercent,         \* concept_hub_degree_fraction, in percent
    MaxPairs,           \* concept_evolution_max_pairs_per_cycle
    MaxSteps            \* bound on the operations of a behaviour

VARIABLES records, act, saved, clock, steps

vars == <<records, act, saved, clock, steps>>

Ids == {m.id : m \in Inputs}
NextSeq == Greater(steps, Cardinality(DOMAIN records)) + 10

\* prepare: the caller's concepts and the text's, through the vocabulary.
prepare(m, seq, aliases) ==
    [text |-> m.text, concepts |-> merge_concepts(m.concepts, m.text, MaxConcepts, aliases),
     importance |-> m.importance, scope |-> m.scope, seq |-> seq]

Memory(recs, id) ==
    [id |-> id, text |-> recs[id].text, concepts |-> recs[id].concepts,
     importance |-> recs[id].importance, scope |-> recs[id].scope]

-----------------------------------------------------------------------------
(* Opening *)

\* The records in the order they were written.
InOrder(recs) == SortSeq(Listed(DOMAIN recs), LAMBDA a, b : recs[a].seq < recs[b].seq)

AddMissing(graph, recs) ==
    LET Add(g, id) == IF Mem(id) \in DOMAIN graph.ids THEN g ELSE add_memory_scoped(g, Memory(recs, id))
    IN FoldLeft(Add, graph, InOrder(recs))

build_graph(recs) == NewActivation(AddMissing(EmptyGraph, recs))

\* The memory nodes of records that are gone are kept.
rebuild_graph_unpruned(recs, snapshot) ==
    IF snapshot = Nothing THEN build_graph(recs)
    ELSE NewActivation(AddMissing(from_snapshot_bytes(snapshot), recs))
rebuild_graph(recs, snapshot) ==
    LET loaded == from_snapshot_bytes(snapshot)
        stale == {i \in ToSet(memory_nodes(loaded)) : KeyOf(loaded, i)[2] \notin DOMAIN recs}
        Prune(g, i) == remove_memory(g, KeyOf(loaded, i)[2])
    IN IF snapshot = Nothing THEN build_graph(recs)
       ELSE NewActivation(AddMissing(FoldLeft(Prune, loaded, Listed(stale)), recs))

Init ==
    /\ \E opened \in Opening :
         records = [id \in {m.id : m \in opened} |->
                      prepare(CHOOSE m \in opened : m.id = id, id, <<>>)]
    /\ act = build_graph(records)
    /\ saved = Nothing
    /\ clock = 0
    /\ steps = 0

-----------------------------------------------------------------------------
(* Writes: the graph's part of insert, update and delete *)

Step == steps < MaxSteps /\ steps' = steps + 1

Insert(m) ==
    /\ Step
    /\ m.id \notin DOMAIN records
    /\ LET recs == (m.id :> prepare(m, NextSeq, act.graph.aliases)) @@ records
       IN records' = recs /\ act' = AddMemory(act, Memory(recs, m.id))
    /\ UNCHANGED <<saved, clock>>

\* Replaced under the same id: the old node goes, a new one comes.
Update(m) ==
    /\ Step
    /\ m.id \in DOMAIN records
    /\ LET recs == [records EXCEPT ![m.id] = prepare(m, NextSeq, act.graph.aliases)]
       IN records' = recs /\ act' = AddMemory(RemoveMemory(act, m.id), Memory(recs, m.id))
    /\ UNCHANGED <<saved, clock>>

Delete(id) ==
    /\ Step
    /\ id \in DOMAIN records
    /\ records' = Without(records, id)
    /\ act' = RemoveMemory(act, id)
    /\ UNCHANGED <<saved, clock>>

-----------------------------------------------------------------------------
(* Recall *)

Visible(scope) == {id \in DOMAIN records : scope = NoScope \/ records[id].scope \in {NoScope, scope}}
LiveHits(hits, scope) == SelectSeq(hits, LAMBDA s : s.id \in Visible(scope))

\* hydrate_and_fuse: superseded memories are left out, then the best by cosine
\* plus the saturated graph delta.
hydrate_and_fuse(results, hits, scope) ==
    LET Cosine(id) == IF \E s \in ToSet(hits) : s.id = id
                      THEN (CHOOSE s \in ToSet(hits) : s.id = id).score ELSE 0
        Fused(r) == 100 * Cosine(r.id) + (5000 * r.delta) \div (10000 + r.delta)
        kept == SelectSeq(results, LAMBDA r :
                  r.id \in Visible(scope) /\ r.id \notin superseded_ids(act.graph))
    IN FirstOf(SortSeq(kept, LAMBDA a, b : Fused(a) > Fused(b) \/ (Fused(a) = Fused(b) /\ a.id < b.id)),
               TopK)

\* cognitive_search, and the rehearsal of what it returns.
Recall(query, hits, scope) ==
    LET graph_k == Greater(3 * TopK, TopK + 5)
        found == search_restricted(act, query, LiveHits(hits, scope), graph_k, Visible(scope))
        answer == hydrate_and_fuse(found, hits, scope)
        Rehearse(g, r) == reinforce(g, r.id, clock)
    IN /\ Step
       /\ answer # <<>>
       /\ act' = [act EXCEPT !.graph = FoldLeft(Rehearse, @, answer)]
       /\ UNCHANGED <<records, saved, clock>>

-----------------------------------------------------------------------------
(* Upkeep: importance, beliefs, consolidation, the snapshot *)

\* recompute_importance for one record.
Reweigh(id, importance) ==
    /\ Step
    /\ id \in DOMAIN records
    /\ records[id].importance # importance
    /\ records' = [records EXCEPT ![id].importance = importance]
    /\ act' = [act EXCEPT !.graph = reweight_memory(@, id, importance)]
    /\ UNCHANGED <<saved, clock>>

SameScope(old, new) == old # new /\ records[old].scope = records[new].scope

\* commit_supersessions_by_id of a refinement: the edge, the concepts only the
\* older memory has, the snapshot.
transfer_unique_concepts(old, new) ==
    LET unique == SelectSeq(records[old].concepts, LAMBDA c : c \notin ToSet(records[new].concepts))
    IN [records EXCEPT ![new].concepts = @ \o Distinct(unique)]

Refine(old, new) ==
    LET edged == add_refinement(act.graph, old, new)
        recs == transfer_unique_concepts(old, new)
        g == IF recs = records THEN edged
             ELSE add_concepts_to_memory(edged, new, recs[new].concepts, recs[new].importance)
    IN /\ Step
       /\ {old, new} \subseteq DOMAIN records /\ SameScope(old, new)
       /\ edged # act.graph
       /\ records' = recs
       /\ act' = [act EXCEPT !.graph = g]
       /\ saved' = to_snapshot_bytes(g)
       /\ UNCHANGED clock

Contradict(old, new) ==
    LET g == add_contradiction(act.graph, old, new, 50)
    IN /\ Step
       /\ {old, new} \subseteq DOMAIN records /\ SameScope(old, new)
       /\ g # act.graph
       /\ act' = [act EXCEPT !.graph = g]
       /\ saved' = to_snapshot_bytes(g)
       /\ UNCHANGED <<records, clock>>

\* The graph's part of trigger_consolidation, a half life later.
Consolidate ==
    LET g == evolve_vocabulary(build_abstractions(decay_edges(act.graph, clock + 1, 1), AbstractAt),
                               MergeAt, HubPercent, MaxPairs)
    IN /\ Step
       /\ clock' = clock + 1
       /\ act' = [act EXCEPT !.graph = g]
       /\ saved' = to_snapshot_bytes(g)
       /\ UNCHANGED records

\* flush
SaveGraph ==
    /\ Step
    /\ saved' = to_snapshot_bytes(act.graph)
    /\ saved' # saved
    /\ UNCHANGED <<records, act, clock>>

\* The engine stops at any point and is opened again.
Reopen ==
    /\ Step
    /\ act' = rebuild_graph(records, saved)
    /\ act' # act
    /\ UNCHANGED <<records, saved, clock>>

Next ==
    \/ \E m \in Inputs : Insert(m) \/ Update(m)
    \/ \E id \in Ids : Delete(id)
    \/ \E q \in Queries, h \in Hits, s \in Callers : Recall(q, h, s)
    \/ \E id \in Ids, i \in Importances : Reweigh(id, i)
    \/ \E old, new \in Ids : Refine(old, new) \/ Contradict(old, new)
    \/ Consolidate \/ SaveGraph \/ Reopen

Spec == Init /\ [][Next]_vars

-----------------------------------------------------------------------------
(* Properties *)

g0 == act.graph
LiveSet == ToSet(LiveIds(g0))
ConceptNames == {k[2] : k \in {k \in DOMAIN g0.ids : IsCon(k)}}

\* The indices agree: the adjacency lists every edge once, under its source,
\* in the order of the edge list; no edge has an end that is gone; the
\* memories are the live records; and the lexical index, kept word by word
\* through every write, is the one recompute gives for their texts.
GraphSound ==
    /\ g0.adj = rebuild(g0.edges)
    /\ \A e \in ToSet(g0.edges) : {e.source, e.target} \subseteq LiveSet
    /\ {k[2] : k \in {k \in DOMAIN g0.ids : IsMem(k)}} = DOMAIN records
    /\ act.bm25 = recompute(act.bm25)
    /\ act.bm25.docs = [id \in DOMAIN records |-> g0.slots[g0.ids[Mem(id)]].text]

\* The concept layer survives its merges (merge_concept_node): an association
\* or an abstraction runs both ways, once; a concept that was merged away is
\* nowhere, and every name leads to a concept that was not.
ConceptLayerSound ==
    /\ \A i \in 1 .. Len(g0.edges) :
         LET e == g0.edges[i] IN
         e.kind \in {"association", "abstraction"} =>
           /\ HasEdge(g0, e.target, e.source, e.kind)
           /\ \A j \in 1 .. Len(g0.edges) :
                [g0.edges[j] EXCEPT !.weight = 0, !.at = 0] = [e EXCEPT !.weight = 0, !.at = 0] => j = i
    /\ DOMAIN g0.aliases \cap ConceptNames = {}
    /\ \A c \in DOMAIN g0.aliases : resolve(g0.aliases, c) \notin DOMAIN g0.aliases


\* Saving loses nothing that the two formats mean to keep, and both come back
\* with the same edges in the same order (to_snapshot_bytes).
Named(g) ==
    [nodes |-> {g.slots[i] : i \in ToSet(LiveIds(g))},
     edges |-> [k \in 1 .. Len(g.edges) |-> [g.edges[k] EXCEPT !.source = KeyOf(g, @), !.target = KeyOf(g, @)]],
     co |-> g.co, aliases |-> g.aliases, suppressed |-> g.suppressed, last |-> g.last]
SnapshotsAgree ==
    LET binary == from_snapshot_bytes(to_snapshot_bytes(g0))
    IN /\ Named(binary) = Named(from_json(to_json(g0)))
       /\ Named(binary) = Named(compact(g0))
       /\ stats(binary) = stats(g0)

\* rebuild_graph is to add the records that are new since the snapshot, by
\* insert_seq: after a reopen every live record is in the graph as it was last
\* written.
ReopenedGraphIsCurrent ==
    \A id \in DOMAIN records : g0.slots[g0.ids[Mem(id)]].text = records[id].text

\* A search in one scope answers as if the memories it may not see were not in
\* the store at all: not as candidates, not against the expansion's bound, not
\* in the ranking (search_restricted).
Alone(scope) ==
    FoldLeft(LAMBDA a, id : RemoveMemory(a, id), act, Listed(DOMAIN records \ Visible(scope)))

=============================================================================
