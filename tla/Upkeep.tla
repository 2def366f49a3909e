------------------------------- MODULE Upkeep -------------------------------
(***************************************************************************)
(* turbomemory_storage: a consolidation cycle (StorageEngine::             *)
(* trigger_consolidation) and the verifier's propose-and-commit path,      *)
(* beside a client that inserts, updates, deletes and searches.            *)
(*                                                                         *)
(* Maintenance takes no lock across its steps: it snapshots the metadata,  *)
(* decides, and applies the decisions one by one.  Every place where the   *)
(* code reads a record and writes it back is two steps here.  The indexes  *)
(* a write updates one after the other (module Search) change in one step. *)
(* The graph is reduced to its memory nodes, their concepts and the        *)
(* supersession edges (module MemoryGraph has the rest); segment work      *)
(* is module Segments.                                                     *)
(***************************************************************************)
EXTENDS Retention, TLC

CONSTANTS
    Initial,        \* offset -> record
    NewRecords,     \* records a client may insert
    Updates,        \* records a client may update an id to
    Doomed,         \* ids a client may delete
    Tiers,          \* configurations, each with what the client does beside it
    GistIds,        \* sequence number -> id of the gist that takes it
    GistVector,     \* the vector of a gist
    Now             \* the time during a cycle

VARIABLES
    meta,           \* offset -> record: the metadata cache
    id_index,       \* id -> offset
    history,        \* offset -> access times
    counters,       \* offset -> [count, last]: bumps not drained yet
    graph,          \* [nodes: id -> concepts, edges: sequence of [old, new, kind]]
    demotion,       \* offset -> percent
    next_seq, next_offset, watermark,
    m,              \* maintenance
    client,         \* an insert under way
    ops,            \* client operations done
    tier,           \* the configuration
    log,            \* what maintenance deleted
    deleted,        \* offsets that were deleted or replaced
    stale           \* ids updated during a cycle

store == <<meta, id_index, history, graph, demotion>>
vars == <<store, counters, next_seq, next_offset, watermark, m, client, ops, tier, log, deleted, stale>>

Without(f, S) == [x \in DOMAIN f \ S |-> f[x]]
Live == {id_index[i] : i \in DOMAIN id_index}
At(f, x, default) == IF x \in DOMAIN f THEN f[x] ELSE default
superseded_ids == {e.old : e \in ToSet(graph.edges)}
demotion_factor(o) == At(demotion, o, 100)

\* A search counts as an access of everything it returns, maintenance's own
\* searches included.
Bumped(c, offsets) ==
    LET Bump(acc, o) == (o :> [count |-> At(acc, o, [count |-> 0]).count + 1, last |-> Now]) @@ acc
    IN FoldLeft(Bump, c, offsets)
search_ann_scoped(v, scope, n) ==
    Nearest(v, scope, meta, Live, IF tier.exclude_superseded THEN superseded_ids ELSE {}, n)
search_ann_any_belief_state(v, scope, n) == Nearest(v, scope, meta, Live, {}, n)

\* Along the edge that was added last.
supersession_next(id) ==
    LET out == SelectSeq(graph.edges, LAMBDA e : e.old = id)
    IN IF out = <<>> THEN id ELSE out[Len(out)].new
belief_head(id) ==
    LET walk[n \in 0 .. Len(graph.edges)] ==
            IF n = 0 THEN [at |-> id, seen |-> {id}]
            ELSE LET w == walk[n - 1]
                     next == supersession_next(w.at)
                 IN IF next \in w.seen THEN w ELSE [at |-> next, seen |-> w.seen \cup {next}]
    IN walk[Len(graph.edges)].at

-----------------------------------------------------------------------------
(* Writes, under the write lock; an insert holds it over several steps *)

Free == client = <<>>

WithoutNode(g, id) ==
    [nodes |-> Without(g.nodes, {id}), edges |-> SelectSeq(g.edges, LAMBDA e : id \notin {e.old, e.new})]
remove_from_indexes(id, o) ==
    /\ meta' = Without(meta, {o}) /\ id_index' = Without(id_index, {id})
    /\ history' = Without(history, {o}) /\ demotion' = Without(demotion, {o})
    /\ graph' = WithoutNode(graph, id)
    /\ deleted' = deleted \cup {o}

apply(r, o) ==
    /\ meta' = (o :> r) @@ meta
    /\ id_index' = (r.id :> o) @@ id_index
    /\ graph' = [graph EXCEPT !.nodes = (r.id :> ToSet(r.concepts)) @@ @]
    /\ UNCHANGED <<history, demotion>>

\* Whatever record the id names now.
delete_by_id_any(id, offset) == id \in DOMAIN id_index
delete_by_id_at(id, offset) == id \in DOMAIN id_index /\ id_index[id] = offset

\* Maintenance deletes a record it has judged, unless it changed since.
DeleteJudged(why, id, offset, kept) ==
    /\ Free
    /\ IF delete_by_id_at(id, offset)
       THEN /\ remove_from_indexes(id, id_index[id])
            /\ log' = log \cup {[why |-> why, offset |-> id_index[id], judged |-> offset, kept |-> kept]}
       ELSE UNCHANGED <<store, log, deleted>>

\* One more client operation.
Request(op) == ops < tier.max_ops /\ op \in tier.client /\ ops' = ops + 1 /\ UNCHANGED <<watermark, tier, log>>
Disturbed == m' = [m EXCEPT !.quiet = FALSE]

\* An insert has its sequence number and its offset well before the record is
\* in the metadata.
BeginInsert ==
    /\ Free /\ Request("insert")
    /\ \E r \in NewRecords : /\ r.id \notin DOMAIN id_index
                             /\ client' = <<[r EXCEPT !.seq = next_seq], next_offset>>
    /\ next_seq' = next_seq + 1 /\ next_offset' = next_offset + 1
    /\ UNCHANGED <<store, counters, m, deleted, stale>>
FinishInsert ==
    /\ ~Free
    /\ apply(client[1], client[2])
    /\ client' = <<>>
    /\ Disturbed
    /\ UNCHANGED <<counters, next_seq, next_offset, watermark, ops, tier, log, deleted, stale>>

Update ==
    /\ Free /\ Request("update")
    /\ \E r \in Updates :
         /\ r.id \in DOMAIN id_index
         /\ LET old == id_index[r.id] IN
            /\ meta' = (next_offset :> [r EXCEPT !.seq = next_seq]) @@ Without(meta, {old})
            /\ id_index' = [id_index EXCEPT ![r.id] = next_offset]
            /\ history' = Without(history, {old}) /\ demotion' = Without(demotion, {old})
            /\ graph' = [WithoutNode(graph, r.id) EXCEPT !.nodes = (r.id :> ToSet(r.concepts)) @@ @]
            /\ deleted' = deleted \cup {old}
         /\ stale' = IF m.pc = "idle" THEN stale ELSE stale \cup {r.id}
    /\ next_seq' = next_seq + 1 /\ next_offset' = next_offset + 1
    /\ Disturbed
    /\ UNCHANGED <<counters, client>>

Delete ==
    /\ Free /\ Request("delete")
    /\ \E id \in Doomed \cap DOMAIN id_index : remove_from_indexes(id, id_index[id])
    /\ Disturbed
    /\ UNCHANGED <<counters, next_seq, next_offset, client, stale>>

\* A client's search returned the record.
bump_access ==
    /\ Request("access")
    /\ \E o \in Live : counters' = Bumped(counters, <<o>>)
    /\ UNCHANGED <<store, next_seq, next_offset, m, client, deleted, stale>>

-----------------------------------------------------------------------------
(* The cycle *)

\* held: a record read and not written back yet.  start, aside, gists, kept
\* and quiet (no client write since the snapshot) are for the properties.
Rest == [pc |-> "idle", phase |-> "none", rest |-> <<>>, drain |-> <<>>, held |-> <<>>, cands |-> <<>>,
         todo |-> <<>>, merged |-> {}, merges |-> <<>>, victims |-> <<>>, spared |-> {}, kept |-> {}, aside |-> 0,
         gists |-> 0, start |-> 0, props |-> <<>>, examined |-> 0, quiet |-> TRUE]

\* In the order of trigger_consolidation; a pass that is not configured
\* returns at once.
Passes ==
    SelectSeq(<<"importance", "dedup", "evict", "refinement", "contradiction">>,
              LAMBDA p : p \in tier.passes /\ (p \in {"refinement", "contradiction"} => ~tier.defer))
trigger_consolidation ==
    /\ m.pc = "idle" /\ tier.cycles > 0
    /\ m' = [Rest EXCEPT !.pc = "drain", !.phase = "promote",
                         !.rest = IF tier.defer THEN Passes ELSE Append(Passes, "watermark")]
    /\ tier' = [tier EXCEPT !.cycles = @ - 1]
    /\ UNCHANGED <<store, counters, next_seq, next_offset, watermark, client, ops, log, deleted, stale>>

\* The verifier's way, where the commit is deferred.
propose_supersessions ==
    /\ m.pc = "idle" /\ tier.cycles > 0 /\ tier.defer /\ tier.lexical
    /\ m' = [Rest EXCEPT !.pc = "drain", !.phase = "refinement", !.rest = <<"contradiction", "verify">>,
                         !.examined = next_seq]
    /\ tier' = [tier EXCEPT !.cycles = @ - 1]
    /\ UNCHANGED <<store, counters, next_seq, next_offset, watermark, client, ops, log, deleted, stale>>

MStep(m2) == m' = m2 /\ UNCHANGED <<next_seq, next_offset, client, ops, tier, stale>>
NextPass ==
    IF m.rest = <<>> THEN Rest
    ELSE [Rest EXCEPT !.phase = Head(m.rest), !.rest = Tail(m.rest), !.props = m.props, !.examined = m.examined,
                      !.pc = IF Head(m.rest) \in {"watermark", "verify"} THEN Head(m.rest) ELSE "drain"]

\* drain_into takes the counters at once; every record is read, and written
\* back later.
TakeCounters ==
    /\ m.pc = "drain"
    /\ counters' = <<>>
    /\ MStep([m EXCEPT !.pc = "drained", !.drain = counters])
    /\ UNCHANGED <<store, watermark, log, deleted>>
DrainGet ==
    /\ m.pc = "drained" /\ DOMAIN m.drain # {}
    /\ LET o == CHOOSE o \in DOMAIN m.drain : TRUE IN
       MStep(IF o \in DOMAIN meta THEN [m EXCEPT !.pc = "drain_put", !.held = <<o, meta[o]>>]
             ELSE [m EXCEPT !.drain = Without(@, {o})])
    /\ UNCHANGED <<store, counters, watermark, log, deleted>>
DrainPut ==
    /\ m.pc = "drain_put"
    /\ LET o == m.held[1]
           d == m.drain[o]
       IN /\ meta' = (o :> [m.held[2] EXCEPT !.access_count = @ + d.count, !.last_accessed = Max2(@, d.last)]) @@ meta
          /\ history' = (o :> append_access_history(At(history, o, <<>>), [i \in 1 .. d.count |-> d.last])) @@ history
          /\ MStep([m EXCEPT !.pc = "drained", !.drain = Without(@, {o}), !.held = <<>>])
    /\ UNCHANGED <<id_index, graph, demotion, counters, watermark, log, deleted>>

Candidates == Listed({[offset |-> o, score |-> access_score(meta[o], Now)] @@ meta[o] : o \in DOMAIN meta})
Oldest == SortSeq(Candidates, LAMBDA a, b : a.seq < b.seq)
Newest == SortSeq(Candidates, LAMBDA a, b : a.seq > b.seq)
\* What a detection pass looks at: nothing below the watermark.
Fresh(cands) ==
    SelectSeq(cands, LAMBDA c : /\ tier.incremental => c.seq >= watermark
                                /\ role_allowed(c.role, tier.roles))

Snapshot ==
    /\ m.pc = "drained" /\ DOMAIN m.drain = {}
    /\ LET next == [m EXCEPT !.quiet = Free, !.start = Cardinality(DOMAIN meta)] IN
       MStep(CASE m.phase = "promote" -> NextPass
               [] m.phase = "importance" -> [next EXCEPT !.pc = "importance", !.cands = Oldest, !.todo = Oldest]
               [] m.phase = "dedup" -> [next EXCEPT !.pc = "dedup", !.cands = Oldest, !.todo = Oldest]
               [] m.phase = "evict" -> [next EXCEPT !.pc = "choose", !.cands = Oldest]
               [] m.phase \in {"refinement", "contradiction"} ->
                    [next EXCEPT !.pc = "detect", !.cands = Newest, !.todo = Fresh(Newest)])
    /\ UNCHANGED <<store, counters, watermark, log, deleted>>

-----------------------------------------------------------------------------
(* recompute_importance *)

Highest(S) == CHOOSE x \in S : \A y \in S : y <= x
NewImportance(c) ==
    LET of(F(_)) == Highest({F(x) : x \in ToSet(m.cands)})
        target == Target(c.score, of(LAMBDA x : x.score), Len(c.concepts), of(LAMBDA x : Len(x.concepts)), tier)
    IN Moved(c.importance, target, tier)

ImportanceGet ==
    /\ m.pc = "importance"
    /\ IF m.todo = <<>> THEN MStep(NextPass)
       ELSE LET c == Head(m.todo) IN
            MStep(IF NewImportance(c) = c.importance \/ c.offset \notin DOMAIN meta
                  THEN [m EXCEPT !.todo = Tail(@)]
                  ELSE [m EXCEPT !.pc = "importance_put", !.held = <<c.offset, meta[c.offset], NewImportance(c)>>])
    /\ UNCHANGED <<store, counters, watermark, log, deleted>>
ImportancePut ==
    /\ m.pc = "importance_put"
    /\ meta' = (m.held[1] :> [m.held[2] EXCEPT !.importance = m.held[3]]) @@ meta
    /\ MStep([m EXCEPT !.pc = "importance", !.todo = Tail(@), !.held = <<>>])
    /\ UNCHANGED <<id_index, history, graph, demotion, counters, watermark, log, deleted>>

-----------------------------------------------------------------------------
(* deduplicate *)

\* The neighbours of a candidate in turn, until it is a victim itself.
Merged(c, nearest) ==
    LET Known(o) == SelectSeq(m.cands, LAMBDA x : x.id = meta[o].id)
        Try(acc, o) ==
            LET other == Known(o)[1]
                victim == IF keeps(c, other) THEN other ELSE c
                survivor == IF keeps(c, other) THEN c ELSE other
            IN IF \/ acc.stop \/ meta[o].id = c.id \/ Known(o) = <<>>
                  \/ other.scope # c.scope \/ other.offset \in acc.merged
                  \/ Similarity[c.v][other.v] < tier.dedup
               THEN acc
               ELSE [merged |-> acc.merged \cup {victim.offset},
                     merges |-> Append(acc.merges, [survivor |-> survivor.id, victim |-> victim]),
                     stop |-> victim = c \/ Len(acc.merges) + 1 >= tier.max_pairs]
    IN FoldLeft(Try, [merged |-> m.merged, merges |-> m.merges, stop |-> FALSE], nearest)

DedupScan ==
    /\ m.pc = "dedup"
    /\ IF m.todo = <<>> \/ Len(m.merges) >= tier.max_pairs
       THEN MStep([m EXCEPT !.pc = "merge", !.todo = <<>>]) /\ UNCHANGED counters
       ELSE LET c == Head(m.todo)
                nearest == search_ann_scoped(c.v, c.scope, 5)
                found == Merged(c, nearest)
            IN IF c.offset \in m.merged THEN MStep([m EXCEPT !.todo = Tail(@)]) /\ UNCHANGED counters
               ELSE /\ MStep([m EXCEPT !.todo = Tail(@), !.merged = found.merged, !.merges = found.merges])
                    /\ counters' = Bumped(counters, nearest)
    /\ UNCHANGED <<store, watermark, log, deleted>>

\* The survivor's node gets the victim's concepts, then the victim goes.
DedupTransfer ==
    /\ m.pc = "merge"
    /\ IF m.merges = <<>> THEN MStep(NextPass) /\ UNCHANGED graph
       ELSE LET p == Head(m.merges) IN
            /\ MStep([m EXCEPT !.pc = "merge_delete"])
            /\ graph' = IF p.survivor \in DOMAIN id_index /\ p.survivor \in DOMAIN graph.nodes
                        THEN [graph EXCEPT !.nodes[p.survivor] = @ \cup ToSet(p.victim.concepts)] ELSE graph
    /\ UNCHANGED <<meta, id_index, history, demotion, counters, watermark, log, deleted>>
DedupDelete ==
    /\ m.pc = "merge_delete"
    /\ DeleteJudged("dedup", Head(m.merges).victim.id, Head(m.merges).victim.offset, TRUE)
    /\ MStep([m EXCEPT !.pc = "merge", !.merges = Tail(@)])
    /\ UNCHANGED <<counters, watermark>>

-----------------------------------------------------------------------------
(* evict *)

Choose ==
    /\ m.pc = "choose"
    /\ LET cands == ToSet(m.cands)
           spare == {c \in cands : Protected(c, Now, tier)}
           scored == {[offset |-> c.offset, id |-> c.id,
                       score |-> EvictionScore(c, At(history, c.offset, <<>>), Now, tier)] : c \in cands \ spare}
           low == FloorVictims(scored, tier)
           over == CapVictims(scored, low, Cardinality(DOMAIN meta), tier)
           victims == FirstToGo(low) \o FirstToGo(over)
           offsets == {v.offset : v \in low \cup over}
       IN MStep([m EXCEPT !.victims = victims, !.aside = Cardinality(spare),
                          !.pc = IF tier.gist THEN "gist" ELSE "evict",
                          !.todo = IF tier.gist THEN GistChunks(offsets, meta, tier.gist_chunk_facts) ELSE <<>>])
    /\ UNCHANGED <<store, counters, watermark, log, deleted>>

Gist(scope) ==
    [id |-> GistIds[next_seq], scope |-> scope, seq |-> next_seq, role |-> "gist", text |-> <<>>, concepts |-> <<>>,
     importance |-> 100, access_count |-> 0, last_accessed |-> 0, v |-> GistVector]

\* One chunk: the gist is stored, the compressor has nothing to keep, or the
\* call or the insert fails.
spare_failed_call(chunk, outcome) == IF outcome = "failed" THEN ToSet(chunk) ELSE {}
spare(chunk, outcome) == IF outcome \in {"failed", "not stored"} THEN ToSet(chunk) ELSE {}
GistChunk ==
    /\ m.pc = "gist" /\ m.todo # <<>>
    /\ \E outcome \in tier.outcomes :
         LET c == Head(m.todo)
             m2 == [m EXCEPT !.todo = Tail(@), !.spared = @ \cup spare(c.offsets, outcome),
                             !.kept = @ \cup (IF outcome \in {"stored", "abstained"} THEN ToSet(c.offsets) ELSE {})]
         IN IF outcome = "stored"
            THEN /\ Free
                 /\ apply(Gist(c.scope), next_offset)
                 /\ next_seq' = next_seq + 1 /\ next_offset' = next_offset + 1
                 /\ m' = [m2 EXCEPT !.gists = @ + 1]
                 /\ UNCHANGED <<client, ops, tier, stale>>
            ELSE MStep(m2) /\ UNCHANGED store
    /\ UNCHANGED <<counters, watermark, log, deleted>>
GistsDone ==
    /\ m.pc = "gist" /\ m.todo = <<>>
    /\ MStep([m EXCEPT !.pc = "evict", !.victims = SelectSeq(@, LAMBDA v : v.offset \notin m.spared)])
    /\ UNCHANGED <<store, counters, watermark, log, deleted>>

EvictNext ==
    /\ m.pc = "evict" /\ m.victims # <<>>
    /\ LET v == Head(m.victims) IN DeleteJudged("evict", v.id, v.offset, v.offset \in m.kept)
    /\ MStep([m EXCEPT !.victims = Tail(@)])
    /\ UNCHANGED <<counters, watermark>>
EvictDone ==
    /\ m.pc = "evict" /\ m.victims = <<>>
    /\ MStep(NextPass)
    /\ UNCHANGED <<store, counters, watermark, log, deleted>>

-----------------------------------------------------------------------------
(* Belief revision *)

Proposal(old, new, kind) ==
    [old |-> old.id, old_at |-> old.offset, new |-> new.id, new_at |-> new.offset, kind |-> kind]

\* One candidate of propose_refinements or propose_contradictions: its
\* nearest older neighbour, if it is that neighbour's nearest newer one.
Detect ==
    /\ m.pc = "detect" /\ m.phase # "candidates" /\ m.todo # <<>>
    /\ LET c == Head(m.todo)
           full == Len(SelectSeq(m.props, LAMBDA p : p.kind = m.phase)) >= tier.max_pairs
           Near(r) == search_ann_scoped(r.v, r.scope, 10)
           Found(r, newer) == nearest_superseding_neighbor(r, newer, tier.min_cosine, tier.roles, Near(r), meta)
           others == SelectSeq(m.cands, LAMBDA x : \E o \in Found(c, FALSE) : x.id = meta[o].id)
           other == others[1]
           textual == others # <<>> /\ TextGate(m.phase, c, other, tier)
           mutual == textual /\ \E o \in Found(other, TRUE) : meta[o].id = c.id
       IN /\ MStep([m EXCEPT !.todo = IF full THEN <<>> ELSE Tail(@),
                             !.props = IF ~full /\ mutual THEN Append(@, Proposal(other, c, m.phase)) ELSE @])
          /\ counters' = CASE full -> counters
                           [] ~full /\ ~textual -> Bumped(counters, Near(c))
                           [] ~full /\ textual -> Bumped(Bumped(counters, Near(c)), Near(other))
    /\ UNCHANGED <<store, watermark, log, deleted>>
DetectDone ==
    /\ m.pc = "detect" /\ m.todo = <<>>
    /\ MStep(IF tier.defer THEN NextPass ELSE [m EXCEPT !.pc = "commit"])
    /\ UNCHANGED <<store, counters, watermark, log, deleted>>

propose_supersession_candidates ==
    /\ m.pc = "idle" /\ tier.cycles > 0 /\ tier.defer /\ ~tier.lexical
    /\ m' = [Rest EXCEPT !.pc = "detect", !.phase = "candidates", !.rest = <<"verify">>, !.examined = next_seq,
                         !.cands = Fresh(Newest),
                         !.todo = SelectSeq(Fresh(Newest), LAMBDA c : c.id \notin superseded_ids),
                         !.merged = superseded_ids]
    /\ tier' = [tier EXCEPT !.cycles = @ - 1]
    /\ UNCHANGED <<store, counters, next_seq, next_offset, watermark, client, ops, log, deleted, stale>>
DetectCandidates ==
    /\ m.pc = "detect" /\ m.phase = "candidates" /\ m.todo # <<>>
    /\ LET c == Head(m.todo)
           near == search_ann_any_belief_state(c.v, c.scope, Max2(4 * tier.per_record, 10))
           full == Len(m.props) >= tier.max_pairs
           heads == [id \in m.merged |-> belief_head(id)]
       IN IF full THEN MStep([m EXCEPT !.todo = <<>>]) /\ UNCHANGED counters
          ELSE /\ MStep([m EXCEPT !.todo = Tail(@),
                                  !.props = @ \o CandidatePairs(c, near, meta, heads, tier)])
               /\ counters' = Bumped(counters, near)
    /\ UNCHANGED <<store, watermark, log, deleted>>

\* The proposals go to the caller, and the watermark moves to what was
\* current when the call began.
ReturnProposals ==
    /\ m.pc = "verify"
    /\ watermark' = m.examined
    /\ MStep([m EXCEPT !.pc = "verifying"])
    /\ UNCHANGED <<store, counters, log, deleted>>

\* commit_supersessions_by_id, of the pairs the verifier accepts.
Resolved(p) ==
    LET old_at == id_index[p.old]
        new_at == id_index[p.new]
        known == p.old # p.new /\ {p.old, p.new} \subseteq DOMAIN id_index
    IN IF known /\ {old_at, new_at} \subseteq DOMAIN meta /\ meta[old_at].scope = meta[new_at].scope
       THEN <<[p EXCEPT !.old_at = old_at, !.new_at = new_at]>> ELSE <<>>
commit_supersessions_by_id ==
    /\ m.pc = "verifying"
    /\ \E accepted \in SUBSET (1 .. Len(m.props)) :
         MStep([m EXCEPT !.pc = "commit",
                         !.props = FlattenSeq([i \in 1 .. Len(@) |-> IF i \in accepted THEN Resolved(@[i]) ELSE <<>>])])
    /\ UNCHANGED <<store, counters, watermark, log, deleted>>

CommitEdge ==
    /\ m.pc = "commit" /\ m.props # <<>>
    /\ LET p == Head(m.props)
           e == [old |-> p.old, new |-> p.new, kind |-> p.kind]
           factor == Demoted(demotion_factor(p.old_at), tier)
       IN IF e \in ToSet(graph.edges) \/ ~({p.old, p.new} \subseteq DOMAIN graph.nodes)
          THEN MStep([m EXCEPT !.props = Tail(@)]) /\ UNCHANGED <<graph, demotion>>
          ELSE /\ graph' = [graph EXCEPT !.edges = Append(@, e)]
               /\ demotion' = IF factor >= 100 THEN Without(demotion, {p.old_at}) ELSE (p.old_at :> factor) @@ demotion
               /\ MStep(IF p.kind = "refinement" THEN [m EXCEPT !.pc = "transfer"]
                        ELSE [m EXCEPT !.props = Tail(@)])
    /\ UNCHANGED <<meta, id_index, history, counters, watermark, log, deleted>>
\* transfer_unique_concepts reads both records and writes one back.
TransferGet ==
    /\ m.pc = "transfer"
    /\ LET p == Head(m.props)
           both == {p.old_at, p.new_at} \subseteq DOMAIN meta
           extra == SelectSeq(meta[p.old_at].concepts, LAMBDA x : x \notin ToSet(meta[p.new_at].concepts))
       IN MStep(IF ~both THEN [m EXCEPT !.pc = "commit", !.props = Tail(@)]
                ELSE IF extra = <<>> THEN [m EXCEPT !.pc = "commit", !.props = Tail(@)]
                ELSE [m EXCEPT !.pc = "transfer_put",
                               !.held = <<p.new_at, [meta[p.new_at] EXCEPT !.concepts = @ \o Distinct(extra)]>>])
    /\ UNCHANGED <<store, counters, watermark, log, deleted>>
TransferPut ==
    /\ m.pc = "transfer_put"
    /\ LET id == Head(m.props).new IN
       /\ meta' = (m.held[1] :> m.held[2]) @@ meta
       /\ graph' = IF id \in DOMAIN graph.nodes /\ id \in DOMAIN id_index /\ id_index[id] \in DOMAIN meta'
                   THEN [graph EXCEPT !.nodes[id] = @ \cup ToSet(meta'[id_index[id]].concepts)] ELSE graph
    /\ MStep([m EXCEPT !.pc = "commit", !.props = Tail(@), !.held = <<>>])
    /\ UNCHANGED <<id_index, history, demotion, counters, watermark, log, deleted>>
CommitDone ==
    /\ m.pc = "commit" /\ m.props = <<>>
    /\ MStep(NextPass)
    /\ UNCHANGED <<store, counters, watermark, log, deleted>>

AdvanceWatermark ==
    /\ m.pc = "watermark"
    /\ watermark' = next_seq
    /\ MStep(Rest)
    /\ UNCHANGED <<store, counters, log, deleted>>

-----------------------------------------------------------------------------
Init ==
    /\ meta = Initial
    /\ id_index = [i \in {Initial[o].id : o \in DOMAIN Initial} |-> CHOOSE o \in DOMAIN Initial : Initial[o].id = i]
    /\ graph = [nodes |-> [i \in DOMAIN id_index |-> ToSet(Initial[id_index[i]].concepts)], edges |-> <<>>]
    /\ history = <<>> /\ counters = <<>> /\ demotion = <<>>
    /\ next_seq = Cardinality(DOMAIN Initial) /\ next_offset = Cardinality(DOMAIN Initial) /\ watermark = 0
    /\ m = Rest /\ client = <<>> /\ ops = 0 /\ log = {} /\ deleted = {} /\ stale = {}
    /\ tier \in Tiers

Client == BeginInsert \/ FinishInsert \/ Update \/ Delete \/ bump_access
Cycle == trigger_consolidation \/ TakeCounters \/ DrainGet \/ DrainPut \/ Snapshot \/ AdvanceWatermark
Importance == ImportanceGet \/ ImportancePut
Dedup == DedupScan \/ DedupTransfer \/ DedupDelete
Evict == Choose \/ GistChunk \/ GistsDone \/ EvictNext \/ EvictDone
Propose == propose_supersessions \/ propose_supersession_candidates \/ Detect \/ DetectCandidates \/ DetectDone
Commit == ReturnProposals \/ commit_supersessions_by_id \/ CommitEdge \/ TransferGet \/ TransferPut \/ CommitDone
Finished == m.pc = "idle" /\ tier.cycles = 0 /\ UNCHANGED vars
Next == Client \/ Cycle \/ Importance \/ Dedup \/ Evict \/ Propose \/ Commit \/ Finished
Spec == Init /\ [][Next]_vars

-----------------------------------------------------------------------------
(* Properties *)

\* Eviction and deduplication delete only the very version of a record they
\* judged: a record that was updated while they were deciding, or while the
\* summarizer ran, stays (delete_by_id_at).
VictimsArePinned == \A d \in log : d.offset = d.judged

\* With gist_before_evict, no record is evicted unless its chunk's gist was
\* stored or the compressor found nothing in it to keep; a chunk whose
\* compression or insert failed is spared.
EvictedIsSummarised == tier.gist => \A d \in log : d.why = "evict" => d.kept

\* An eviction no client write ran into leaves at most max_records records,
\* the recently accessed, the spared and the new gists aside, and removes no
\* record more than that takes.  (Where the metadata holds a record the id
\* index does not, deletion cannot reach it: see DeletedStaysDeleted.)
CapIsMet ==
    (m.pc = "evict" /\ m.victims = <<>> /\ m.quiet /\ DOMAIN meta = Live /\ tier.max_records # -1) =>
        LET n == Cardinality(DOMAIN meta) - m.gists IN
        /\ n <= tier.max_records + m.aside + Cardinality(m.spared)
        /\ tier.floor = -1 => n >= Min2(m.start, tier.max_records)


\* "Segment searches filter out offsets with no metadata, so deleted points
\* disappear from results immediately" (delete_by_id): the metadata of a
\* deleted or replaced record never comes back.
DeletedStaysDeleted == deleted \cap DOMAIN meta = {}

\* TierConfig::max_records: "Hard cap on the number of live records",
\* consolidation evicts "until the live count is back at or under" it.  Stated
\* for a cycle beside which no client does anything.
HardCap ==
    (m.pc = "evict" /\ m.victims = <<>> /\ ops = 0 /\ ~tier.gist /\ tier.max_records # -1) =>
        Cardinality(DOMAIN meta) <= tier.max_records

=============================================================================
