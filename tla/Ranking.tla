------------------------------ MODULE Ranking ------------------------------
(***************************************************************************)
(* Ranked lists of turbomemory_storage::segments.  A ScoredPoint is        *)
(* [offset, score]; scores are integers and the order is cmp_score_desc,   *)
(* highest first (a NaN score does not arise: vectors and queries are      *)
(* checked to be finite).                                                  *)
(***************************************************************************)
EXTENDS Integers, Sequences, SequencesExt

Truncate(s, k) == SubSeq(s, 1, IF k < Len(s) THEN k ELSE Len(s))

\* sort_by(cmp_score_desc): stable.
cmp_score_desc(a, b) == a.score > b.score
BestFirst(points) == SortSeq(points, cmp_score_desc)
LowestFirst(points) == SortSeq(points, LAMBDA a, b : a.score < b.score)

\* A full heap takes no further point.
top_k_first(points, k) == LowestFirst(Truncate(points, k))

\* A heap of at most k points whose minimum a better point replaces.  The
\* list that comes out starts with the lowest score: into_sorted_vec of
\* reversed items is already highest first, and it is reversed once more.
top_k_minheap(points, k) ==
    LET Add(heap, p) ==
            IF Len(heap) < k THEN Append(heap, p)
            ELSE LET i == CHOOSE i \in 1 .. Len(heap) :
                            \A j \in 1 .. Len(heap) : heap[i].score <= heap[j].score
                 IN IF p.score > heap[i].score THEN Append(RemoveAt(heap, i), p) ELSE heap
    IN IF k = 0 THEN <<>> ELSE LowestFirst(FoldLeft(Add, <<>>, points))

\* Keep the first point of every offset, at most k of them.
FirstOfEach(points, k) ==
    LET Add(out, p) == IF Len(out) >= k \/ \E q \in ToSet(out) : q.offset = p.offset
                       THEN out ELSE Append(out, p)
    IN FoldLeft(Add, <<>>, points)

\* The loop pushes before it looks at the bound, so it keeps one point even
\* for top_k = 0.
merge_candidates(lists, top_k) ==
    FirstOfEach(BestFirst(FlattenSeq(lists)), IF top_k = 0 THEN 1 ELSE top_k)

\* A merge of lists that are sorted already: repeatedly take the best head.
kway_merge_topk(lists, k) ==
    LET total == Len(FlattenSeq(lists))
        Heads(rest) == {i \in 1 .. Len(rest) : rest[i] # <<>>}
        Best(rest) == CHOOSE i \in Heads(rest) :
                        \A j \in Heads(rest) : rest[i][1].score >= rest[j][1].score
        step[n \in 0 .. total] ==
            IF n = 0 THEN [rest |-> lists, out |-> <<>>]
            ELSE LET s == step[n - 1]
                     i == Best(s.rest)
                 IN [rest |-> [s.rest EXCEPT ![i] = Tail(@)], out |-> Append(s.out, s.rest[i][1])]
    IN CASE k = 0 \/ lists = <<>> -> <<>>
         [] k > 0 /\ Len(lists) = 1 -> Truncate(lists[1], k)
         [] k > 0 /\ Len(lists) > 1 -> FirstOfEach(step[total].out, k)

=============================================================================
