-------------------------------- MODULE Scan --------------------------------
(***************************************************************************)
(* A quantized segment (segments/warm.rs, segments/cold.rs) from the       *)
(* records it is built of to the answer of a search: encode, write the     *)
(* data file and the manifest, reopen them, score the encoded vectors      *)
(* chunk by chunk, keep a shortlist, and rerank it with the full vectors.  *)
(***************************************************************************)
EXTENDS Scores, Ranking

CONSTANTS
    Cases,          \* what is built: [tier, kind, vectors, cpu]
    Queries(_),     \* queries of a dimension
    TopKs,          \* top_k of a search
    Filters(_),     \* allowed_offsets for a number of vectors; None: no filter
    None,
    CHUNK,          \* vectors scored at a time
    RERANK_OVERSAMPLE, MIN_RERANK_SHORTLIST

VARIABLES
    case,       \* the case: records and quantizer kind, the CPU that runs it
    phase,      \* "new", "open", "closed", "damaged", "scan", "scanned", "done", "refused"
    file,       \* DATA_FILE: bytes
    manifest,   \* MANIFEST_FILE: the quantizer and the offsets
    seg,        \* the segment in memory: the same two, as constructed or read
    search,     \* the search in progress: query, top_k, allowed
    chunk,      \* index of the next chunk
    candidates, \* points scored so far
    result

vars == <<case, phase, file, manifest, seg, search, chunk, candidates, result>>

Count == Len(case.vectors)
Dim == Len(case.vectors[1])
\* PointOffsets of the records: not their indices in the segment.
OffsetOf(i) == 2 * i
Offsets == [i \in 1 .. Count |-> OffsetOf(i)]
VectorAt(offset) == case.vectors[offset \div 2]

Init ==
    /\ case \in Cases
    /\ phase = "new" /\ file = <<>> /\ manifest = None /\ seg = None
    /\ search = None /\ chunk = 1 /\ candidates = <<>> /\ result = <<>>

-----------------------------------------------------------------------------
\* from_records: build the quantizer, encode every record, write the data
\* file, then the manifest.
FromRecords(tier) ==
    /\ phase = "new" /\ case.tier = tier
    /\ IF Count = 0 \/ ~Constructible(case.kind, Dim)
       THEN phase' = "refused" /\ UNCHANGED <<file, manifest, seg>>
       ELSE LET q == NewQuantizer(case.kind, case.vectors) IN
            /\ phase' = "open"
            /\ file' = FlattenSeq([i \in 1 .. Count |-> encode(q, case.vectors[i])])
            /\ manifest' = [quantizer |-> serialize(q), offsets |-> Offsets]
            /\ seg' = [quantizer |-> q, offsets |-> Offsets]
    /\ UNCHANGED <<case, search, chunk, candidates, result>>

WarmFromRecords == FromRecords("warm")
ColdFromRecords == FromRecords("cold")

\* The process stops; the files stay, or something cuts the data file short.
Close ==
    /\ phase = "open"
    /\ phase' = "closed" /\ seg' = None
    /\ UNCHANGED <<case, file, manifest, search, chunk, candidates, result>>

Damage ==
    /\ phase = "closed"
    /\ phase' = "damaged" /\ file' = Front(file)
    /\ UNCHANGED <<case, manifest, seg, search, chunk, candidates, result>>

\* open maps the file and reads the manifest, and refuses a file shorter than
\* the manifest says.
Open(tier) ==
    /\ phase \in {"closed", "damaged"} /\ case.tier = tier
    /\ LET q == deserialize(manifest.quantizer) IN
       IF Len(file) < Len(manifest.offsets) * encoded_bytes_per_vector(q)
       THEN phase' = "refused" /\ UNCHANGED seg
       ELSE phase' = "open" /\ seg' = [quantizer |-> q, offsets |-> manifest.offsets]
    /\ UNCHANGED <<case, file, manifest, search, chunk, candidates, result>>

WarmOpen == Open("warm")
ColdOpen == Open("cold")

-----------------------------------------------------------------------------
\* max(top_k * rerank_oversample(dim), MIN_RERANK_SHORTLIST); the factor is
\* RERANK_OVERSAMPLE up to dimension 128, grows with its root up to 256, and
\* linearly up to 512.
rerank_oversample(dim) ==
    LET factor == IF dim <= 256
                  THEN CHOOSE r \in 0 .. dim :    \* rounded: (r - 1/2)^2 <= x < (r + 1/2)^2
                         LET x == 4 * RERANK_OVERSAMPLE * RERANK_OVERSAMPLE * dim IN
                         /\ 128 * (2 * r + 1) * (2 * r + 1) > x
                         /\ r > 0 => 128 * (2 * r - 1) * (2 * r - 1) <= x
                  ELSE (2 * RERANK_OVERSAMPLE * dim + 128) \div 256
    IN IF factor < RERANK_OVERSAMPLE THEN RERANK_OVERSAMPLE
       ELSE Least2(factor, 512)

Shortlist(top_k) ==
    LET wide == top_k * rerank_oversample(Dim)
    IN IF wide > MIN_RERANK_SHORTLIST THEN wide ELSE MIN_RERANK_SHORTLIST

\* encoded_vector(idx)
encoded_vector(i) ==
    LET n == encoded_bytes_per_vector(seg.quantizer) IN Slice(file, (i - 1) * n + 1, n)

Begin ==
    /\ phase = "open"
    /\ \E query \in Queries(Dim), top_k \in TopKs, allowed \in Filters(Count) :
          search' = [query |-> query, top_k |-> top_k, allowed |-> allowed]
    /\ phase' = "scan"
    /\ UNCHANGED <<case, file, manifest, seg, chunk, candidates, result>>

\* One chunk.  Filtered, the vectors that pass are copied together; otherwise
\* the bytes of the chunk are scored in place.
ScoreChunk(tier) ==
    LET base == (chunk - 1) * CHUNK
        members == [k \in 1 .. Least2(CHUNK, Count - base) |-> base + k]
        kept == IF search.allowed = None THEN members
                ELSE SelectSeq(members, LAMBDA i : seg.offsets[i] \in search.allowed)
        n == encoded_bytes_per_vector(seg.quantizer)
        bytes == IF search.allowed = None THEN Slice(file, base * n + 1, Len(members) * n)
                 ELSE FlattenSeq([k \in 1 .. Len(kept) |-> encoded_vector(kept[k])])
        scores == score_batch(case.cpu, encode_query(seg.quantizer, search.query), bytes)
    IN
    /\ phase = "scan" /\ case.tier = tier
    /\ candidates' = candidates \o [k \in 1 .. Len(kept) |->
                        [offset |-> seg.offsets[kept[k]], score |-> scores[k]]]
    /\ chunk' = chunk + 1
    /\ phase' = IF chunk * CHUNK >= Count THEN "scanned" ELSE "scan"
    /\ UNCHANGED <<case, file, manifest, seg, search, result>>

WarmScan == ScoreChunk("warm")
ColdScan == ScoreChunk("cold")

\* The shortlist, the full vectors of its points, and the final order.
Rerank(tier) ==
    LET short == top_k_minheap(candidates, Shortlist(search.top_k))
        scores == cosine_similarity_batch(case.cpu, search.query,
                      [k \in 1 .. Len(short) |-> VectorAt(short[k].offset)])
        reranked == [k \in 1 .. Len(short) |->
                       [offset |-> short[k].offset, score |-> scores[k]]]
    IN
    /\ phase = "scanned" /\ case.tier = tier
    /\ result' = Truncate(BestFirst(reranked), search.top_k)
    /\ phase' = "done"
    /\ UNCHANGED <<case, file, manifest, seg, search, chunk, candidates>>

WarmRerank == Rerank("warm")
ColdRerank == Rerank("cold")

Next ==
    \/ WarmFromRecords \/ ColdFromRecords
    \/ Close \/ Damage \/ WarmOpen \/ ColdOpen
    \/ Begin
    \/ WarmScan \/ ColdScan
    \/ WarmRerank \/ ColdRerank

Spec == Init /\ [][Next]_vars

-----------------------------------------------------------------------------
\* The candidates: every allowed record once, in order.
Allowed == IF search.allowed = None THEN ToSet(Offsets)
           ELSE ToSet(Offsets) \cap search.allowed


\* What is written can be read back: the bytes at a record's place in the data
\* file hold the codes chosen for it, for every width, codes that straddle two
\* bytes included, and a scalar code is off by at most half a step.
EncodingKeepsCodes ==
    phase = "open" =>
        LET q == seg.quantizer IN
        \A i \in 1 .. Count :
            LET v == case.vectors[i]
                bytes == encoded_vector(i)
                Codes(bits) == unpack_codes(bytes, bits, q.dim)
            IN CASE q.kind = "scalar" ->
                      \A j \in 1 .. q.dim :
                         2 * AbsOf(decode(q, bytes)[j] - levels(q) * v[j]) <= q.max - q.min
                 [] q.kind = "sign" -> \A j \in 1 .. q.dim : v[j] * decode(q, bytes)[j] = AbsOf(v[j])
                 [] q.kind = "mse" -> Codes(q.bits) = MseCodes(q, v)
                 [] q.kind = "prod" -> Codes(q.bits - 1) = MseCodes(MseOf(q), v)
                 [] q.kind = "rabitq" ->
                      LET proj == RaBitProject(q, v) IN
                      Codes(q.bits) = [j \in 1 .. q.dim |-> RaBitCode(q, proj[j], RaBitAlpha(v))]

\* The answer is in cosine order, holds allowed records once each and as many
\* as there are up to top_k, and a record that beats one of them is missing
\* only because a whole shortlist of others has at least its quantized score:
\* reranking repairs everything the shortlist lets through.
OnlyQuantizationLoses ==
    phase = "done" =>
        LET Cos(o) == cosine_similarity("scalar", search.query, VectorAt(o))
            Quantized(o) == candidates[CHOOSE k \in 1 .. Len(candidates) :
                                          candidates[k].offset = o].score
            found == {result[k].offset : k \in 1 .. Len(result)}
        IN
        /\ Len(result) = Least2(search.top_k, Cardinality(Allowed))
        /\ Cardinality(found) = Len(result) /\ found \subseteq Allowed
        /\ \A k \in 1 .. Len(result) : result[k].score = Cos(result[k].offset)
        /\ \A k \in 2 .. Len(result) : result[k - 1].score >= result[k].score
        /\ \A o \in Allowed \ found :
              (\E f \in found : Cos(o) > Cos(f)) =>
                 Cardinality({p \in Allowed \ {o} : Quantized(p) >= Quantized(o)})
                    >= Shortlist(search.top_k)

\* The kernels of metrics.rs agree with one another on every pair they meet:
\* |a - b|^2 = |a|^2 + |b|^2 - 2ab across three kernels, and the late
\* interaction score of a document is the sum of the best matches.
MetricsAgree ==
    phase = "done" =>
        LET q == search.query
            cpu == case.cpu
            flat == FlattenSeq(case.vectors)
        IN
        /\ \A i \in 1 .. Count :
              LET v == case.vectors[i]
                  d == dot_and_norms(cpu, q, v)
              IN /\ d = <<dot_product_scalar(q, v), dot_product(cpu, q, q), dot_product(cpu, v, v)>>
                 /\ l2_distance_sq(cpu, q, v) = d[2] + d[3] - 2 * d[1]
        /\ \E i \in 1 .. Count :
              /\ maxsim_score_batch(cpu, q \o q, <<flat>>, Dim)
                    = <<2 * dot_product(cpu, q, case.vectors[i])>>
              /\ \A j \in 1 .. Count : dot_product(cpu, q, case.vectors[j])
                                          <= dot_product(cpu, q, case.vectors[i])

=============================================================================
