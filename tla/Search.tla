------------------------------- MODULE Search -------------------------------
(***************************************************************************)
(* turbomemory_storage: nearest-neighbour search over the engine's         *)
(* indexes while a writer changes them.                                    *)
(*                                                                         *)
(* A searcher runs search_ann_filtered or search_ann_batch: the filter is  *)
(* evaluated one index read at a time, the scope, the superseded ids and   *)
(* the record count are read one after the other, and then one of three    *)
(* paths runs: the GPU mirror, an exact scan, or the tiered segments.      *)
(* The writer (holder of the write lock) inserts, updates and deletes, one *)
(* index at a time.  The vector of a record is abstracted to its score for *)
(* each query; a native HNSW search returns the true nearest offsets.      *)
(***************************************************************************)
EXTENDS Filters, Ranking, TLC

CONSTANTS
    Searchers,
    Initial,        \* offset -> record [id, scope, payload, words, score]
    SealedSegments, \* sequence of sequences of offsets
    HotSegment,     \* sequence of offsets
    Writes,         \* set of [op, id, rec]
    Tiers,          \* set of [gpu_min, exact_max, exclude, rerank_min, asks, writes]:
                    \* configurations, with the requests each searcher may make,
                    \* [queries, k, filter, scope, batch], and the number of writes
    NoFilter,
    Contexts,       \* usearch search contexts of one index (search_threads)
    Selective,      \* allowed offsets an index scans exactly (100 in the code)
    FilteredFactor, \* over-fetch of a filtered search (8 in the code)
    PlainFactor,    \* over-fetch of an unfiltered one (4 in the code)
    SearchListSize, \* config.search_list_size
    CapFloor        \* smallest buffer of top_of (64 in the code)

VARIABLES
    points,         \* vectors: offset -> record, every offset ever written
    meta,           \* offsets of the metadata cache
    id_index,       \* id -> offset
    payload_index, scope_index, text_index,
    graph,          \* [nodes, edges]: memory nodes, and pairs <<newer, older>>
    hot,            \* offsets of the hot segment
    slots,          \* free search contexts of each sealed segment
    accesses,       \* offset -> bumps not yet drained
    w,              \* the writer
    written,        \* writes done
    tier,           \* the configuration in force
    s               \* [Searchers -> a search]

indexes == <<meta, id_index, payload_index, scope_index, graph, hot>>
vars == <<points, indexes, text_index, slots, accesses, w, written, tier, s>>

Lesser(a, b) == IF a < b THEN a ELSE b
Greater(a, b) == IF a > b THEN a ELSE b
\* The offsets of a set in increasing order.
InOrder(S) == SortSeq(FoldSet(LAMBDA o, l : Append(l, o), <<>>, S), <)
Superseded == {e[2] : e \in graph.edges}

-----------------------------------------------------------------------------
(* Ranking *)

ScoreOf(o, q) == points[o].score[q]
Scored(offsets, q) == [i \in 1 .. Len(offsets) |-> [offset |-> offsets[i], score |-> ScoreOf(offsets[i], q)]]

\* Best score first, the older record first on a tie.
best_first(points_) ==
    SortSeq(points_, LAMBDA a, b : a.score > b.score \/ (a.score = b.score /\ a.offset < b.offset))

\* One pass over candidates in offset order, through a buffer that is cut to
\* the best `want` whenever it fills.
top_of(candidates, want, admitted) ==
    LET cap == Greater(2 * want, CapFloor)
        Take(acc, c) ==
            IF (acc.some /\ c.score <= acc.floor) \/ c.offset \notin admitted THEN acc
            ELSE LET kept == Append(acc.kept, c) IN
                 IF Len(kept) < cap THEN [acc EXCEPT !.kept = kept]
                 ELSE LET cut == Truncate(best_first(kept), want)
                      IN [kept |-> cut, some |-> TRUE, floor |-> cut[want].score]
    IN IF want = 0 THEN <<>>
       ELSE Truncate(best_first(FoldLeft(Take, [kept |-> <<>>, some |-> FALSE, floor |-> 0], candidates).kept),
                     want)

\* Same pool, with or without superseded ids to leave out.
first_fetch(exclusion, k) == IF exclusion # {} THEN 2 * k + 5 ELSE k

Unrestricted == [some |-> FALSE, set |-> {}]
Only(S) == [some |-> TRUE, set |-> S]
Admits(allowed, o) == allowed.some => o \in allowed.set
AllowedOf(offsets, allowed) == SelectSeq(offsets, LAMBDA o : Admits(allowed, o))

-----------------------------------------------------------------------------
(* Segments *)

exact_search_over_offsets(offsets, q, k) == Truncate(BestFirst(Scored(offsets, q)), k)
hot_search(q, k, allowed) == exact_search_over_offsets(AllowedOf(hot, allowed), q, k)
\* search_unfiltered: the k nearest of an index.
nearest(offsets, q, k) == exact_search_over_offsets(offsets, q, Lesser(k, Len(offsets)))

point_count == Len(hot) + Len(FlattenSeq(SealedSegments))

pool_width(k, allowed) ==
    LET total == Greater(point_count, 1)
        base == IF allowed.some THEN FilteredFactor ELSE PlainFactor
        size == IF allowed.some THEN Cardinality(allowed.set) ELSE total
        n == (10000 * total) \div Greater(size, 1)
        selectivity_factor ==
            IF n <= 10000 THEN 100
            ELSE IF n >= 2560000 THEN 1600
            ELSE CHOOSE r \in 100 .. 1600 : r * r <= n /\ n < (r + 1) * (r + 1)
        segment_factor == Lesser(100 + 25 * Len(SealedSegments), 250)
        multiplier == IF size * 100 < total THEN base
                      ELSE (base * selectivity_factor * segment_factor) \div 10000
    IN Lesser(Greater(Lesser(k * multiplier, k * 48), SearchListSize), total)

\* merge of the per-segment lists
Merged(lists, pool) ==
    IF Len(lists) >= 4 /\ pool >= 64 THEN kway_merge_topk(lists, pool)
    ELSE merge_candidates(lists, pool)

cpu_rerank_candidates(cands, q) ==
    Scored([i \in 1 .. Len(cands) |-> cands[i].offset], q)

\* An offset seen again moves to the index past the end of the union.
union_reindexed(cands) ==
    LET Add(u, c) == [list |-> IF c.offset \in DOMAIN u.index THEN u.list ELSE Append(u.list, c.offset),
                      index |-> (c.offset :> Len(u.list) + 1) @@ u.index]
    IN FoldLeft(Add, [list |-> <<>>, index |-> <<>>], FlattenSeq(cands))
\* The union of the candidate offsets; only a new offset gets an index.
union_offsets(cands) ==
    LET Add(u, c) == IF c.offset \in DOMAIN u.index THEN u
                     ELSE [list |-> Append(u.list, c.offset),
                           index |-> u.index @@ (c.offset :> Len(u.list) + 1)]
    IN FoldLeft(Add, [list |-> <<>>, index |-> <<>>], FlattenSeq(cands))

\* One product of all queries with the union; every query keeps its own rows.
\* Past the end of the matrix row of a query lies the next one.
gpu_rerank_candidates_batch(cands, queries, k) ==
    LET u == union_offsets(cands)
        n == Len(u.list)
        matrix == [x \in 0 .. Len(queries) * n - 1 |-> ScoreOf(u.list[(x % n) + 1], queries[(x \div n) + 1])]
        At_(qi, o) == matrix[((qi - 1) * n + u.index[o] - 1) % (Len(queries) * n)]
    IN [qi \in 1 .. Len(queries) |->
          Truncate(BestFirst([i \in 1 .. Len(cands[qi]) |->
                                [offset |-> cands[qi][i].offset, score |-> At_(qi, cands[qi][i].offset)]]), k)]

-----------------------------------------------------------------------------
(* A search *)

Idle == [pc |-> "idle"]
\* Instructions of a filter in postfix order; every leaf and every
\* complement is one read of an index.
RECURSIVE Postfix(_)
Postfix(f) ==
    CASE f.op \in {"text", "eq", "range"} -> <<f>>
      [] f.op \in {"and", "or"} ->
           IF f.parts = <<>> THEN <<[op |-> "none"]>>
           ELSE FoldLeft(LAMBDA acc, q : acc \o Postfix(q) \o <<[op |-> f.op \o "2"]>>,
                         Postfix(f.parts[1]), Tail(f.parts))
      [] f.op = "not" -> Append(Postfix(f.part), [op |-> "complement"])

Instruction(i, stack) ==
    LET n == Len(stack) IN
    CASE i.op \in {"text", "eq", "range"} ->
           Append(stack, evaluate_filter_recursive(i, payload_index, text_index))
      [] i.op = "none" -> Append(stack, {})
      [] i.op = "and2" -> Append(SubSeq(stack, 1, n - 2), stack[n - 1] \cap stack[n])
      [] i.op = "or2" -> Append(SubSeq(stack, 1, n - 2), stack[n - 1] \cup stack[n])
      [] i.op = "complement" -> Append(SubSeq(stack, 1, n - 1), payload_index.all \ stack[n])

\* Live and in no writer's hands.
Settled == {o \in meta : w.old # o /\ w.new # o /\ (tier.exclude => points[o].id \notin Superseded)}
Touched(o) == w.old = o \/ w.new = o

Start(p) ==
    /\ s[p].pc = "idle"
    /\ \E r \in tier.asks[p] :
         s' = [s EXCEPT ![p] =
                 [pc |-> IF r.filter # NoFilter /\ uses_full_text(r.filter) THEN "pending" ELSE "filter",
                  req |-> r, todo |-> IF r.filter = NoFilter THEN <<>> ELSE Postfix(r.filter),
                  stack |-> <<>>, allowed |-> Unrestricted, mode |-> "single",
                  k |-> r.k, top |-> r.k, records |-> 0, exclusion |-> {}, want |-> 0, rows |-> {}, device |-> FALSE,
                  cands |-> <<>>, list |-> <<>>, found |-> <<>>, segment |-> 0, pool |-> 0,
                  fetch_k |-> 0, round |-> 0, size |-> 0, total |-> 0, pass |-> "one",
                  answers |-> <<>>,
                  whole |-> Settled, gone |-> {o \in DOMAIN points : o \notin meta /\ ~Touched(o)},
                  old |-> {o \in meta : ~Touched(o)}]]
    /\ UNCHANGED <<points, indexes, text_index, slots, accesses, w, written, tier>>

Local(p, r) == s' = [s EXCEPT ![p] = r]
Query(p) == s[p].req.queries[Len(s[p].answers) + 1]

\* commit_if_pending; commit publishes the writer's documents and only then
\* resets the count.
CommitText(p) ==
    /\ s[p].pc = "pending"
    /\ IF text_index.pending > 0
       THEN text_index' = CommitDocs(text_index) /\ Local(p, [s[p] EXCEPT !.pc = "reset"])
       ELSE Local(p, [s[p] EXCEPT !.pc = "filter"]) /\ UNCHANGED text_index
    /\ UNCHANGED <<points, indexes, slots, accesses, w, written, tier>>
ResetPending(p) ==
    /\ s[p].pc = "reset"
    /\ text_index' = CommitReset(text_index)
    /\ Local(p, [s[p] EXCEPT !.pc = "filter"])
    /\ UNCHANGED <<points, indexes, slots, accesses, w, written, tier>>

FilterStep(p) ==
    /\ s[p].pc = "filter" /\ s[p].todo # <<>>
    /\ Local(p, [s[p] EXCEPT !.stack = Instruction(Head(s[p].todo), @), !.todo = Tail(@)])
    /\ UNCHANGED <<points, indexes, text_index, slots, accesses, w, written, tier>>

in_scope(allowed, scope) ==
    Only(IF allowed.some THEN allowed.set \cap ScopeQuery(scope_index, scope)
         ELSE ScopeQuery(scope_index, scope))

allowed_offsets(p) ==
    /\ s[p].pc = "filter" /\ s[p].todo = <<>>
    /\ LET r == s[p].req
           filtered == IF r.filter = NoFilter THEN Unrestricted ELSE Only(s[p].stack[1])
       IN Local(p, [s[p] EXCEPT !.pc = IF r.batch THEN "batch" ELSE "exclude", !.stack = <<>>,
                                !.allowed = IF r.scope = Shared THEN filtered ELSE in_scope(filtered, r.scope)])
    /\ UNCHANGED <<points, indexes, text_index, slots, accesses, w, written, tier>>

\* search_ann_batch: the count decides for the whole batch.
search_ann_batch(p) ==
    /\ s[p].pc = "batch"
    /\ LET records == Cardinality(meta)
           k == Lesser(s[p].k, records)
       IN Local(p, IF k = 0
                   THEN [s[p] EXCEPT !.pc = "done", !.answers = [i \in DOMAIN s[p].req.queries |-> <<>>]]
                   ELSE [s[p] EXCEPT !.pc = "exclude", !.k = k, !.top = k, !.records = records,
                                     !.mode = IF records >= tier.gpu_min THEN "device"
                                              ELSE IF records <= tier.exact_max THEN "each" ELSE "tiered"])
    /\ UNCHANGED <<points, indexes, text_index, slots, accesses, w, written, tier>>

superseded_exclusion_set(p) ==
    /\ s[p].pc = "exclude"
    /\ LET exclusion == IF tier.exclude THEN Superseded ELSE {}
           pool == first_fetch(exclusion, s[p].k)
       IN Local(p, [s[p] EXCEPT !.exclusion = exclusion, !.want = pool,
                                !.pass = IF s[p].mode = "tiered" /\ Len(s[p].req.queries) > 1 THEN "all" ELSE "one",
                                !.pc = CASE s[p].mode \in {"single", "each"} -> "count"
                                         [] s[p].mode = "device" -> "device"
                                         [] s[p].mode = "tiered" -> "segments"])
    /\ UNCHANGED <<points, indexes, text_index, slots, accesses, w, written, tier>>

\* The list of one query is complete: the next query, or the end.
Answered(p, r, answer) ==
    LET answers == Append(r.answers, answer) IN
    IF Len(answers) = Len(r.req.queries)
    THEN [r EXCEPT !.pc = "done", !.answers = answers, !.rows = {}, !.cands = <<>>, !.list = <<>>,
                   !.found = <<>>, !.want = 0, !.pool = 0, !.fetch_k = 0, !.round = 0,
                   !.segment = 0, !.size = 0, !.total = 0]
    ELSE [r EXCEPT !.answers = answers, !.found = <<>>,
                   !.want = IF r.mode = "each" THEN 0 ELSE first_fetch(r.exclusion, r.k),
                   !.pc = CASE r.mode = "each" -> "exclude"
                            [] r.mode = "device" -> "head"
                            [] r.mode = "tiered" -> "live",
                   !.total = IF r.mode = "tiered" THEN point_count ELSE 0,
                   !.list = IF r.mode = "tiered" THEN Head(r.cands) ELSE <<>>,
                   !.size = IF r.mode = "tiered" THEN Len(Head(r.cands)) ELSE 0,
                   !.cands = IF r.mode = "tiered" THEN Tail(@) ELSE @]

\* ann_top_k_excluding
ann_top_k(p) ==
    /\ s[p].pc = "count"
    /\ LET records == Cardinality(meta)
           k == Lesser(s[p].k, records)
           r == [s[p] EXCEPT !.want = first_fetch(s[p].exclusion, k), !.top = k, !.records = records]
       IN Local(p, IF k = 0 THEN Answered(p, s[p], <<>>)
                   ELSE IF records >= tier.gpu_min THEN [r EXCEPT !.pc = "device"]
                   ELSE IF records <= tier.exact_max THEN [r EXCEPT !.pc = "scan"]
                   ELSE [r EXCEPT !.pc = "segments"])
    /\ UNCHANGED <<points, indexes, text_index, slots, accesses, w, written, tier>>

\* The scores of every vector there is, from the GPU mirror.
Device(p) ==
    /\ s[p].pc = "device"
    /\ Local(p, [s[p] EXCEPT !.pc = "head", !.rows = DOMAIN points, !.device = TRUE])
    /\ UNCHANGED <<points, indexes, text_index, slots, accesses, w, written, tier>>
\* The mirror has no answer: the CPU paths.  A batch takes the exclusion set
\* again there.
DeviceFails(p) ==
    /\ s[p].pc = "device"
    /\ LET small == s[p].records <= tier.exact_max IN
       Local(p, [s[p] EXCEPT !.device = FALSE,
                    !.mode = IF @ = "device" THEN IF small THEN "each" ELSE "tiered" ELSE @,
                    !.pc = IF s[p].mode = "device" THEN "exclude" ELSE IF small THEN "scan" ELSE "segments"])
    /\ UNCHANGED <<points, indexes, text_index, slots, accesses, w, written, tier>>

exact_candidates(p) ==
    /\ s[p].pc = "scan"
    /\ Local(p, [s[p] EXCEPT !.pc = "head", !.device = FALSE,
                             !.rows = {o \in payload_index.all \cap DOMAIN points : Admits(s[p].allowed, o)}])
    /\ UNCHANGED <<points, indexes, text_index, slots, accesses, w, written, tier>>

\* top(want): the GPU's scores are masked by what is live now.
top_of_scores(p) ==
    /\ s[p].pc = "head"
    /\ LET r == s[p]
           rows == {o \in r.rows : Admits(r.allowed, o)}
           admitted == IF r.device THEN payload_index.all ELSE rows
           head == top_of(Scored(InOrder(rows), Query(p)), r.want, admitted)
       IN Local(p, [r EXCEPT !.pc = "ids", !.list = head, !.found = <<>>, !.size = Len(head)])
    /\ UNCHANGED <<points, indexes, text_index, slots, accesses, w, written, tier>>

\* A record that is still there under an id the caller may see.
Live(r, c) == c.offset \in meta /\ points[c.offset].id \notin r.exclusion
Hit(c) == [offset |-> c.offset, id |-> points[c.offset].id, score |-> c.score]
Bumped(found) ==
    LET offs == {found[i].offset : i \in 1 .. Len(found)} IN
    [o \in DOMAIN accesses \cup offs |->
       (IF o \in DOMAIN accesses THEN accesses[o] ELSE 0) + (IF o \in offs THEN 1 ELSE 0)]

\* One id looked up; at the end of the head the answer, or a wider head.
finish_exact(p) ==
    /\ s[p].pc = "ids"
    /\ LET r == s[p]
           found == IF r.list # <<>> /\ Live(r, Head(r.list)) THEN Append(r.found, Hit(Head(r.list))) ELSE r.found
           rest == IF r.list = <<>> THEN <<>> ELSE Tail(r.list)
       IN IF Len(found) = r.top \/ (rest = <<>> /\ r.size < r.want)
          THEN Local(p, Answered(p, r, found)) /\ accesses' = Bumped(found)
          ELSE /\ Local(p, IF rest # <<>> THEN [r EXCEPT !.list = rest, !.found = found]
                           ELSE [r EXCEPT !.pc = "head", !.want = 2 * @, !.list = <<>>, !.found = <<>>])
               /\ UNCHANGED accesses
    /\ UNCHANGED <<points, indexes, text_index, slots, w, written, tier>>

-----------------------------------------------------------------------------
(* The tiered path *)

\* A batch first collects the candidates of all its queries.
PassQuery(p) == LET r == s[p] IN IF r.pass = "all" THEN r.req.queries[Len(r.cands) + 1] ELSE Query(p)

\* candidates: the pool width and the hot segment.
SearchHot(p) ==
    /\ s[p].pc = "segments"
    /\ LET pool == pool_width(s[p].want, s[p].allowed) IN
       Local(p, [s[p] EXCEPT !.pc = "index", !.segment = 1, !.pool = pool, !.fetch_k = pool, !.round = 1,
                             !.list = <<hot_search(PassQuery(p), pool, s[p].allowed)>>])
    /\ UNCHANGED <<points, indexes, text_index, slots, accesses, w, written, tier>>

NextSegment(r, list) ==
    [r EXCEPT !.pc = "index", !.segment = @ + 1, !.list = Append(@, list), !.fetch_k = r.pool, !.round = 1]

\* UsearchIndex::search: a selective filter is scanned exactly, anything
\* else waits for a context.
SearchIndex(p) ==
    /\ s[p].pc = "index" /\ s[p].segment <= Len(SealedSegments)
    /\ LET r == s[p]
           offsets == SealedSegments[r.segment]
           mine == AllowedOf(offsets, r.allowed)
       IN IF r.allowed.some /\ Len(mine) <= Greater(SearchListSize, Selective)
          THEN /\ Local(p, NextSegment(r, exact_search_over_offsets(mine, PassQuery(p), r.pool)))
               /\ UNCHANGED slots
          ELSE /\ slots[r.segment] > 0
               /\ slots' = [slots EXCEPT ![r.segment] = @ - 1]
               /\ Local(p, [r EXCEPT !.pc = "native"])
    /\ UNCHANGED <<points, indexes, text_index, accesses, w, written, tier>>

\* Drop of the SearchSlot.
Release(n, enough) == slots' = [slots EXCEPT ![n] = @ + 1]

\* One native search, its context given back; four rounds at most, and what
\* the last one found too little of is dropped.
NativeSearch(p) ==
    /\ s[p].pc = "native"
    /\ LET r == s[p]
           offsets == SealedSegments[r.segment]
           count == Len(AllowedOf(offsets, r.allowed))
           max_fetch == IF r.allowed.some THEN Lesser(Greater(count, r.pool), r.pool * 16) ELSE r.pool * 16
           results == Truncate(SelectSeq(nearest(offsets, PassQuery(p), r.fetch_k),
                                         LAMBDA c : Admits(r.allowed, c.offset)), r.pool)
       IN /\ Release(r.segment, Len(results) >= r.pool)
          /\ Local(p, IF Len(results) >= r.pool \/ r.fetch_k >= max_fetch \/ ~r.allowed.some
                      THEN NextSegment(r, results)
                      ELSE IF r.round = 4 THEN NextSegment(r, <<>>)
                      ELSE [r EXCEPT !.pc = "index", !.round = @ + 1, !.fetch_k = Lesser(2 * @, max_fetch)])
    /\ UNCHANGED <<points, indexes, text_index, accesses, w, written, tier>>

Reranked(cands, q, want) == Truncate(BestFirst(cpu_rerank_candidates(cands, q)), want)

\* The segment lists of a query are merged and, outside a batch, reranked.
MergeSegments(p) ==
    /\ s[p].pc = "index" /\ s[p].segment > Len(SealedSegments)
    /\ LET r == s[p]
           merged == Merged(r.list, r.pool)
           ranked == Reranked(merged, Query(p), r.want)
           cands == Append(r.cands, merged)
       IN Local(p, IF r.pass = "one"
                   THEN [r EXCEPT !.pc = "live", !.list = ranked, !.size = Len(ranked), !.found = <<>>,
                                  !.total = IF @ = 0 THEN point_count ELSE @]
                   ELSE [r EXCEPT !.cands = cands, !.list = <<>>,
                                  !.pc = IF Len(cands) < Len(r.req.queries) THEN "segments" ELSE "rerank"])
    /\ UNCHANGED <<points, indexes, text_index, slots, accesses, w, written, tier>>

\* search_gpu_batch: one product, or a rerank per query on the CPU.
RerankBatch(p, gpu) ==
    /\ s[p].pc = "rerank"
    /\ LET r == s[p]
           qs == r.req.queries
           ranked == IF gpu THEN gpu_rerank_candidates_batch(r.cands, qs, r.want)
                     ELSE [i \in 1 .. Len(qs) |-> Reranked(r.cands[i], qs[i], r.want)]
       IN /\ gpu => Len(FlattenSeq(r.cands)) >= tier.rerank_min
          /\ Local(p, [r EXCEPT !.pc = "live", !.pass = "one", !.found = <<>>, !.total = point_count,
                                !.list = ranked[1], !.size = Len(ranked[1]), !.cands = Tail(ranked)])
    /\ UNCHANGED <<points, indexes, text_index, slots, accesses, w, written, tier>>

\* The list of a search that fell short is final.
never_again(r) == TRUE
\* A search as wide as the index may still look again.
exhausted_when_short(r) == r.size < r.want
exhausted(r) == r.size < r.want \/ r.want >= r.total

\* One candidate looked up; at the end the answer, or a wider search.
live_top_k(p) ==
    /\ s[p].pc = "live"
    /\ LET r == s[p]
           found == IF r.list # <<>> /\ Live(r, Head(r.list)) THEN Append(r.found, Hit(Head(r.list))) ELSE r.found
           rest == IF r.list = <<>> THEN <<>> ELSE Tail(r.list)
           answer == Truncate(found, r.top)
       IN IF rest # <<>> THEN Local(p, [r EXCEPT !.list = rest, !.found = found]) /\ UNCHANGED accesses
          ELSE IF Len(found) >= r.top \/ exhausted(r)
          THEN Local(p, Answered(p, r, answer)) /\ accesses' = Bumped(answer)
          ELSE /\ Local(p, [r EXCEPT !.pc = "segments", !.want = Lesser(2 * @, r.total), !.list = <<>>, !.found = <<>>])
               /\ UNCHANGED accesses
    /\ UNCHANGED <<points, indexes, text_index, slots, w, written, tier>>

-----------------------------------------------------------------------------
(* The writer: one operation at a time, under the write lock *)

NoOffset == -1
Resting == [pc |-> "idle", op |-> "none", id |-> "none", old |-> NoOffset, new |-> NoOffset]
NextOffset == Cardinality(DOMAIN points)
\* Searches under way can no longer count on the offset.
Unsettle(o) == s' = [p \in Searchers |-> IF s[p].pc = "idle" THEN s[p] ELSE [s[p] EXCEPT !.whole = @ \ {o}]]

\* Vector and log record first; then the indexes.
Insert(x) ==
    /\ w.pc = "idle" /\ written < tier.writes /\ x.op = "insert" /\ x.id \notin DOMAIN id_index
    /\ points' = points @@ (NextOffset :> x.rec)
    /\ w' = [Resting EXCEPT !.pc = "meta", !.op = "insert", !.id = x.id, !.new = NextOffset]
    /\ written' = written + 1
    /\ UNCHANGED <<indexes, text_index, slots, accesses, tier, s>>
Update(x) ==
    /\ w.pc = "idle" /\ written < tier.writes /\ x.op = "update" /\ x.id \in DOMAIN id_index
    /\ points' = points @@ (NextOffset :> x.rec)
    /\ w' = [pc |-> "payload", op |-> "update", id |-> x.id, old |-> id_index[x.id], new |-> NextOffset]
    /\ written' = written + 1
    /\ Unsettle(id_index[x.id])
    /\ UNCHANGED <<indexes, text_index, slots, accesses, tier>>
Delete(x) ==
    /\ w.pc = "idle" /\ written < tier.writes /\ x.op = "delete" /\ x.id \in DOMAIN id_index
    /\ w' = [Resting EXCEPT !.pc = "payload", !.op = "delete", !.id = x.id, !.old = id_index[x.id]]
    /\ written' = written + 1
    /\ Unsettle(id_index[x.id])
    /\ UNCHANGED <<points, indexes, text_index, slots, accesses, tier>>

\* remove_from_indexes
remove_from_indexes ==
    /\ \/ /\ w.pc = "payload" /\ w' = [w EXCEPT !.pc = "scope"]
          /\ payload_index' = PayloadRemove(payload_index, w.old, points[w.old].payload)
          /\ UNCHANGED <<meta, id_index, scope_index, text_index, graph>>
       \/ /\ w.pc = "scope" /\ w' = [w EXCEPT !.pc = "text"]
          /\ scope_index' = ScopeRemove(scope_index, w.old, points[w.old].scope)
          /\ UNCHANGED <<meta, id_index, payload_index, text_index, graph>>
       \/ /\ w.pc = "text" /\ w' = [w EXCEPT !.pc = "forget"]
          /\ text_index' = TextRemove(text_index, w.old)
          /\ UNCHANGED <<meta, id_index, payload_index, scope_index, graph>>
       \/ /\ w.pc = "forget" /\ w' = [w EXCEPT !.pc = "id"]
          /\ meta' = meta \ {w.old}
          /\ UNCHANGED <<id_index, payload_index, scope_index, text_index, graph>>
       \/ /\ w.pc = "id" /\ w' = [w EXCEPT !.pc = "graph"]
          /\ id_index' = [i \in DOMAIN id_index \ {w.id} |-> id_index[i]]
          /\ UNCHANGED <<meta, payload_index, scope_index, text_index, graph>>
       \/ /\ w.pc = "graph"
          /\ w' = IF w.op = "update" THEN [w EXCEPT !.pc = "meta", !.old = NoOffset] ELSE Resting
          /\ graph' = [nodes |-> graph.nodes \ {w.id}, edges |-> {e \in graph.edges : w.id \notin {e[1], e[2]}}]
          /\ UNCHANGED <<meta, id_index, payload_index, scope_index, text_index>>
    /\ UNCHANGED <<points, hot, slots, accesses, written, tier, s>>

\* apply_batch, of one record: metadata; id, payload, scope and text under
\* their locks; graph; hot segment.
apply_batch ==
    /\ \/ /\ w.pc = "meta" /\ w' = [w EXCEPT !.pc = "index"]
          /\ meta' = meta \cup {w.new}
          /\ UNCHANGED <<id_index, payload_index, scope_index, text_index, graph, hot>>
       \/ /\ w.pc = "index" /\ w' = [w EXCEPT !.pc = "node"]
          /\ id_index' = (w.id :> w.new) @@ id_index
          /\ payload_index' = PayloadAdd(payload_index, w.new, points[w.new].payload)
          /\ scope_index' = ScopeAdd(scope_index, w.new, points[w.new].scope)
          /\ text_index' = add_batch(text_index, {[offset |-> w.new, words |-> points[w.new].words]})
          /\ UNCHANGED <<meta, graph, hot>>
       \/ /\ w.pc = "node" /\ w' = [w EXCEPT !.pc = "hot"]
          /\ graph' = [graph EXCEPT !.nodes = @ \cup {w.id}]
          /\ UNCHANGED <<meta, id_index, payload_index, scope_index, text_index, hot>>
       \/ /\ w.pc = "hot" /\ w' = Resting
          /\ hot' = Append(hot, w.new)
          /\ UNCHANGED <<meta, id_index, payload_index, scope_index, text_index, graph>>
    /\ UNCHANGED <<points, slots, accesses, written, tier, s>>

\* commit_supersessions, of one pair: an edge when both are memory nodes.
Supersede(x) ==
    /\ w.pc = "idle" /\ written < tier.writes /\ x.op = "supersede"
    /\ {x.id, x.rec} \subseteq graph.nodes
    /\ graph' = [graph EXCEPT !.edges = @ \cup {<<x.id, x.rec>>}]
    /\ written' = written + 1
    /\ Unsettle(id_index[x.rec])
    /\ UNCHANGED <<points, meta, id_index, payload_index, scope_index, hot, text_index, slots, accesses, w, tier>>

-----------------------------------------------------------------------------
Build(Add(_, _), empty, S) == FoldSet(Add, empty, S)
ScopesOf(S) == Build(LAMBDA o, x : ScopeAdd(x, o, points[o].scope), EmptyScopeIndex, S)
DocsOf(S) == {[offset |-> o, words |-> points[o].words] : o \in S}

Init ==
    /\ points = Initial
    /\ meta = DOMAIN Initial
    /\ id_index = [i \in {Initial[o].id : o \in DOMAIN Initial} |-> CHOOSE o \in DOMAIN Initial : Initial[o].id = i]
    /\ payload_index = from_meta_records_iter(Initial)
    /\ scope_index = ScopesOf(DOMAIN Initial)
    /\ text_index = [EmptyTextIndex EXCEPT !.docs = DocsOf(DOMAIN Initial), !.seen = DocsOf(DOMAIN Initial)]
    /\ graph = [nodes |-> {Initial[o].id : o \in DOMAIN Initial}, edges |-> {}]
    /\ hot = HotSegment
    /\ slots = [n \in 1 .. Len(SealedSegments) |-> Contexts]
    /\ accesses = <<>>
    /\ w = Resting /\ written = 0
    /\ tier \in Tiers
    /\ s = [p \in Searchers |-> Idle]

Searching(p) ==
    \/ CommitText(p) \/ ResetPending(p) \/ FilterStep(p) \/ allowed_offsets(p)
    \/ search_ann_batch(p) \/ superseded_exclusion_set(p) \/ ann_top_k(p)
    \/ Device(p) \/ DeviceFails(p) \/ exact_candidates(p) \/ top_of_scores(p) \/ finish_exact(p)
    \/ SearchHot(p) \/ SearchIndex(p) \/ NativeSearch(p) \/ MergeSegments(p)
    \/ RerankBatch(p, TRUE) \/ RerankBatch(p, FALSE) \/ live_top_k(p)
Writing ==
    \/ \E x \in Writes : Insert(x) \/ Update(x) \/ Delete(x) \/ Supersede(x)
    \/ remove_from_indexes \/ apply_batch
Done(p) == s[p].pc = "done"
\* Every request is answered.
Finished == w.pc = "idle" /\ (\A p \in Searchers : Done(p) \/ tier.asks[p] = {}) /\ UNCHANGED vars
Next == Writing \/ Finished \/ \E p \in Searchers : Start(p) \/ Searching(p)

Spec == Init /\ [][Next]_vars

-----------------------------------------------------------------------------
Offsets(answer) == {answer[i].offset : i \in DOMAIN answer}
InScope(r, o) == r.scope = Shared \/ points[o].scope \in {Shared, r.scope}
InFilter(r, o) == r.filter = NoFilter \/ Matches(r.filter, points[o])

(* Whatever the writer does meanwhile, an answer of search_ann_filtered or *)
(* search_ann_batch is best first with the true score of every record,     *)
(* names no id twice, stays in the caller's scope, holds no record whose   *)
(* deletion was complete before the search began, and no record written    *)
(* before the search began that the filter does not match.                 *)
AnswersAreLegal ==
    \A p \in Searchers : Done(p) =>
      \A n \in DOMAIN s[p].answers :
        LET a == s[p].answers[n] r == s[p].req IN
        /\ Len(a) <= r.k
        /\ \A i, j \in DOMAIN a : i < j => a[i].score >= a[j].score /\ a[i].id # a[j].id
        /\ \A i \in DOMAIN a :
             /\ a[i].score = ScoreOf(a[i].offset, r.queries[n])
             /\ InScope(r, a[i].offset)
             /\ a[i].offset \notin s[p].gone
             /\ a[i].offset \in s[p].old => InFilter(r, a[i].offset)

\* The searches that promise the exact answer: all but a filter that goes
\* through the index (it looks at some of the nearest offsets only), and
\* full text that the reader has not been given.
Exhaustive(p) ==
    LET r == s[p] IN
    /\ r.allowed.some => \A n \in 1 .. Len(SealedSegments) :
                            Len(AllowedOf(SealedSegments[n], r.allowed)) <= Greater(SearchListSize, Selective)
    /\ r.req.filter # NoFilter => ~uses_full_text(r.req.filter)

(* A record that is live, visible and matching from the start of a search  *)
(* to its end is in the answer, or everything in the answer scores at      *)
(* least as high: deleted, updated and superseded records take no slot     *)
(* from it, on any of the three paths.  An empty answer means there is no  *)
(* such record.                                                            *)
NothingBetterMissing ==
    \A p \in Searchers : Done(p) /\ Exhaustive(p) =>
      \A n \in DOMAIN s[p].answers :
        LET a == s[p].answers[n] r == s[p].req IN
        \A o \in s[p].whole :
          InScope(r, o) /\ InFilter(r, o) /\ o \notin Offsets(a) =>
            /\ a # <<>>
            /\ \A i \in DOMAIN a : a[i].score >= ScoreOf(o, r.queries[n])

(* Between writes, the incrementally maintained indexes are the ones a     *)
(* rebuild from the metadata would give: after any sequence of inserts,    *)
(* updates and deletes nothing stale is filed anywhere and nothing is      *)
(* missing, and every live record is in a segment.                         *)
IndexesAgree ==
    w.pc = "idle" =>
      /\ payload_index = from_meta_records_iter([o \in meta |-> points[o]])
      /\ scope_index = ScopesOf(meta)
      /\ ScopeAllOffsets(scope_index) = meta
      /\ \A scope \in scopes(scope_index) : exact(scope_index, scope) # {}
      /\ text_index.docs = DocsOf(meta)
      /\ DOMAIN id_index = graph.nodes
      /\ {id_index[i] : i \in DOMAIN id_index} = meta
      /\ \A i \in DOMAIN id_index : points[id_index[i]].id = i
      /\ meta \subseteq ToSet(hot) \cup ToSet(FlattenSeq(SealedSegments))
      /\ \A e \in graph.edges : {e[1], e[2]} \subseteq graph.nodes

(* A search that looks again, because deleted or superseded records took   *)
(* its slots, looks strictly wider, and never wider than the index is      *)
(* large: with a search always able to take a step, every search ends.     *)
RetriesWiden ==
    [][\A p \in Searchers :
         s[p].pc \in {"ids", "live"} /\ s'[p].pc \in {"head", "segments"} /\ Len(s'[p].answers) = Len(s[p].answers)
           => /\ s'[p].want > s[p].want
              /\ s[p].pc = "live" => s'[p].want <= s[p].total]_vars


=============================================================================
