------------------------------- MODULE Scores -------------------------------
(***************************************************************************)
(* Scoring encoded vectors: the encoded queries of quantized_search.rs,    *)
(* turbo_quant.rs and rabitq.rs and the batch kernels of                   *)
(* metrics_quantized.rs.  A batch is the bytes of several vectors, one     *)
(* after the other.                                                        *)
(***************************************************************************)
EXTENDS Quantizers

TableSum(tables, bytes) == SumTo(Len(bytes), LAMBDA b : tables[b][bytes[b]])
XorSum(tables, mask, bytes) == SumTo(Len(mask), LAMBDA b : tables[b][mask[b] ^^ bytes[b]])
Popcount(byte) == SumTo(8, LAMBDA k : Bit(byte, k - 1))

\* A kernel that takes `width` vectors at a time, then the rest one by one:
\* the scores of the vectors in a block, and of those left alone.
Unrolled(inBlock, alone, width) ==
    [k \in 1 .. Len(alone) |->
       IF k <= width * (Len(alone) \div width) THEN inBlock[k] ELSE alone[k]]

-----------------------------------------------------------------------------
(* Scalar codes *)

ScalarEncodedQuery(q, query) == [kind |-> "scalar", q |-> q, query |-> query]

ScalarTerm(eq, encoded, i) == eq.query[i] * ScalarValue(eq.q, encoded[i])
scalar_quantized_dot_scalar(eq, encoded) ==
    SumTo(Len(encoded), LAMBDA i : ScalarTerm(eq, encoded, i))
scalar_quantized_dot_avx2(eq, encoded) ==
    Lanes([i \in 1 .. Least2(Len(eq.query), Len(encoded)) |-> ScalarTerm(eq, encoded, i)], 8)
scalar_quantized_dot_sse(eq, encoded) == scalar_quantized_dot_scalar(eq, encoded)

scalar_quantized_dot(cpu, eq, encoded) ==
    CASE cpu = "avx2" -> scalar_quantized_dot_avx2(eq, encoded)
      [] cpu = "sse" -> scalar_quantized_dot_sse(eq, encoded)
      [] OTHER -> scalar_quantized_dot_scalar(eq, encoded)

scalar_quantized_dot_batch_avx2(eq, vectors) ==
    LET One(v) == Lanes([i \in 1 .. eq.q.dim |-> ScalarTerm(eq, v, i)], 8)
        scores == [k \in 1 .. Len(vectors) |-> One(vectors[k])]
    IN Unrolled(scores, scores, 4)

scalar_quantized_dot_batch(cpu, eq, encoded) ==
    LET vectors == Chunks(encoded, eq.q.dim) IN
    IF cpu = "avx2" THEN scalar_quantized_dot_batch_avx2(eq, vectors)
    ELSE [k \in 1 .. Len(vectors) |-> scalar_quantized_dot_scalar(eq, vectors[k])]

-----------------------------------------------------------------------------
(* Sign bits.  Where the sign of the query and the stored bit differ, the  *)
(* coordinate counts -|q| instead of |q|.                                  *)

SignTables(query) ==
    [b \in 1 .. SignBytes(Len(query)) |-> [pattern \in 0 .. 255 |->
       SumTo(Least2(8, Len(query) - 8 * (b - 1)),
             LAMBDA k : Bit(pattern, k - 1) * AbsOf(query[8 * (b - 1) + k]))]]

SignEncodedQuery(query) ==
    [kind |-> "sign", mask |-> SignMask(query), weights |-> SignTables(query),
     sum_abs |-> SumTo(Len(query), LAMBDA i : AbsOf(query[i]))]

SignScore(eq, encoded) == eq.sum_abs - 2 * XorSum(eq.weights, eq.mask, encoded)

sign_quantized_dot(query, encoded) ==
    SumTo(Len(query), LAMBDA i : AbsOf(query[i]))
    - 2 * SumTo(Len(query), LAMBDA i :
                  IF (SignAt(encoded, i) = 1) # (query[i] >= 0) THEN AbsOf(query[i]) ELSE 0)

\* Eight bytes at a time as one word, then the rest.
sign_quantized_score_batch_popcount_x86(eq, vectors, unit) ==
    LET Differing(v) == Lanes([b \in 1 .. Len(eq.mask) |-> Popcount(eq.mask[b] ^^ v[b])], 8)
    IN [k \in 1 .. Len(vectors) |-> eq.sum_abs - 2 * unit * Differing(vectors[k])]

sign_quantized_score_batch_popcount(cpu, eq, vectors, unit) ==
    LET Differing(v) == SumTo(Len(eq.mask), LAMBDA b : Popcount(eq.mask[b] ^^ v[b])) IN
    IF cpu \in {"avx2", "sse"}
    THEN sign_quantized_score_batch_popcount_x86(eq, vectors, unit)
    ELSE [k \in 1 .. Len(vectors) |-> eq.sum_abs - 2 * unit * Differing(vectors[k])]


\* Every byte has the table of the first, and that table counts bits.
UniformWeights(weights) ==
    /\ \A b \in 1 .. Len(weights), p \in 0 .. 255 : weights[b][p] = weights[1][p]
    /\ \A p \in 1 .. 255 : weights[1][p] = Popcount(p) * weights[1][1]

sign_quantized_score_batch(cpu, eq, encoded) ==
    LET vectors == Chunks(encoded, Len(eq.mask))
        scores == [k \in 1 .. Len(vectors) |-> SignScore(eq, vectors[k])]
    IN IF UniformWeights(eq.weights)
       THEN sign_quantized_score_batch_popcount(cpu, eq, vectors, eq.weights[1][1])
       ELSE Unrolled(scores, scores, 8)

sign_quantized_dot_batch(cpu, query, encoded) ==
    sign_quantized_score_batch(cpu, SignEncodedQuery(query), encoded)

-----------------------------------------------------------------------------
(* TurboQuant codes: a table per coordinate, and one per byte where a byte *)
(* holds whole codes.                                                      *)

Lut(q, rotated, unit) ==
    [j \in 1 .. q.dim |-> [c \in 0 .. 2^q.bits - 1 |-> unit * rotated[j] * Centroids(q)[c + 1]]]

ByteWeights(q, lut) ==
    LET perByte == 8 \div q.bits
        valid(b) == Least2(perByte, q.dim - (b - 1) * perByte)
    IN IF 8 % q.bits # 0 THEN <<>>
       ELSE [b \in 1 .. packed_bytes(q.dim, q.bits) |-> [pattern \in 0 .. 255 |->
               SumTo(valid(b), LAMBDA k :
                  lut[(b - 1) * perByte + k][(pattern \div 2^((k - 1) * q.bits)) % 2^q.bits])]]

ByByte(eq) == DOMAIN eq.byte_weights # {}

CodeSum(q, lut, bytes) ==
    LET codes == unpack_codes(bytes, q.bits, q.dim)
    IN SumTo(q.dim, LAMBDA j : lut[j][codes[j]])

MseEncodedQuery(q, query) ==
    LET lut == Lut(q, precondition(query, q.rotation), 1)
    IN [kind |-> "mse", q |-> q, lut |-> lut, byte_weights |-> ByteWeights(q, lut)]

MseScore(eq, encoded) ==
    IF Len(encoded) # MseBytes(eq.q) THEN NegInf
    ELSE IF ByByte(eq) THEN TableSum(eq.byte_weights, encoded)
    ELSE CodeSum(eq.q, eq.lut, encoded)

turbo_quant_mse_score_batch(eq, vectors) ==
    [k \in 1 .. Len(vectors) |-> CodeSum(eq.q, eq.lut, vectors[k])]

turbo_quant_mse_score_batch_byte_weights(eq, vectors) ==
    LET scores == [k \in 1 .. Len(vectors) |-> TableSum(eq.byte_weights, vectors[k])]
    IN Unrolled(scores, scores, 8)

MseScoreBatch(eq, encoded) ==
    LET vectors == Chunks(encoded, MseBytes(eq.q)) IN
    IF ~ByByte(eq) THEN turbo_quant_mse_score_batch(eq, vectors)
    ELSE turbo_quant_mse_score_batch_byte_weights(eq, vectors)

ProdEncodedQuery(q, query) ==
    LET mse == MseOf(q)
        lut == Lut(mse, precondition(query, q.rotation), MseUnit)
        projected == project(q, query)
    IN [kind |-> "prod", q |-> q, lut |-> lut, byte_weights |-> ByteWeights(mse, lut),
        signs |-> SignEncodedQuery(projected)]

MsePart(eq, v) == Slice(v, 1, packed_bytes(eq.q.dim, eq.q.bits - 1))
QjlPart(eq, v) == Slice(v, packed_bytes(eq.q.dim, eq.q.bits - 1) + 1, packed_bytes(eq.q.dim, 1))
QjlTerm(eq, v) == Alpha(v) * QjlScale * SignScore(eq.signs, QjlPart(eq, v))

score_turbo_quant_prod(eq, encoded) ==
    IF Len(encoded) # ProdBytes(eq.q) THEN NegInf
    ELSE (IF ByByte(eq) THEN TableSum(eq.byte_weights, MsePart(eq, encoded))
          ELSE CodeSum(MseOf(eq.q), eq.lut, MsePart(eq, encoded)))
         + QjlTerm(eq, encoded)

\* From buffers the caller keeps: no table per byte is built.
score_with_query_buffers(q, encoded, rotated, projected) ==
    score_turbo_quant_prod([kind |-> "prod", q |-> q, lut |-> Lut(MseOf(q), rotated, MseUnit),
                            byte_weights |-> <<>>, signs |-> SignEncodedQuery(projected)], encoded)

turbo_quant_prod_score_batch_scalar(eq, vectors) ==
    [k \in 1 .. Len(vectors) |->
       CodeSum(MseOf(eq.q), eq.lut, MsePart(eq, vectors[k])) + QjlTerm(eq, vectors[k])]

\* The terms of eight coordinates are gathered at once.
turbo_quant_prod_score_batch_avx2(eq, vectors) ==
    [k \in 1 .. Len(vectors) |->
       LET codes == unpack_codes(MsePart(eq, vectors[k]), eq.q.bits - 1, eq.q.dim)
       IN Lanes([j \in 1 .. eq.q.dim |-> eq.lut[j][codes[j]]], 8) + QjlTerm(eq, vectors[k])]

turbo_quant_prod_score_batch(cpu, eq, vectors) ==
    IF cpu = "avx2" THEN turbo_quant_prod_score_batch_avx2(eq, vectors)
    ELSE turbo_quant_prod_score_batch_scalar(eq, vectors)

\* In a block the sum of |q| is multiplied out first.
turbo_quant_prod_score_batch_byte_weights(eq, vectors) ==
    LET qjl_const == QjlScale * eq.signs.sum_abs
        Mse(v) == TableSum(eq.byte_weights, MsePart(eq, v))
        InBlock(v) == Mse(v) + Alpha(v) *
            (qjl_const - 2 * QjlScale * XorSum(eq.signs.weights, eq.signs.mask, QjlPart(eq, v)))
        Alone(v) == Mse(v) + QjlTerm(eq, v)
    IN Unrolled([k \in 1 .. Len(vectors) |-> InBlock(vectors[k])],
                [k \in 1 .. Len(vectors) |-> Alone(vectors[k])], 8)

ProdScoreBatch(cpu, eq, encoded) ==
    LET vectors == Chunks(encoded, ProdBytes(eq.q)) IN
    IF ~ByByte(eq) THEN turbo_quant_prod_score_batch(cpu, eq, vectors)
    ELSE turbo_quant_prod_score_batch_byte_weights(eq, vectors)

-----------------------------------------------------------------------------
(* RaBitQ codes *)

RaBitQEncodedQuery(q, query) ==
    LET proj == RaBitProject(q, query)
        perByte == 8 \div q.bits
    IN [kind |-> "rabitq", q |-> q,
        luts |-> [b \in 1 .. packed_bytes(q.dim, q.bits) |-> [byte \in 0 .. 255 |->
                    SumTo(Least2(perByte, q.dim - (b - 1) * perByte), LAMBDA k :
                       RaBitLevel(q, (byte \div 2^((k - 1) * q.bits)) % 2^q.bits)
                       * proj[(b - 1) * perByte + k])]]]

RaBitScore(eq, encoded) ==
    IF Len(encoded) < RaBitBytes(eq.q) THEN NegInf
    ELSE Alpha(encoded) * TableSum(eq.luts, Slice(encoded, 1, packed_bytes(eq.q.dim, eq.q.bits)))

-----------------------------------------------------------------------------
(* AnyEncodedQuery *)

encode_query(q, query) ==
    CASE q.kind = "scalar" -> ScalarEncodedQuery(q, query)
      [] q.kind = "sign" -> SignEncodedQuery(query)
      [] q.kind = "mse" -> MseEncodedQuery(q, query)
      [] q.kind = "prod" -> ProdEncodedQuery(q, query)
      [] q.kind = "rabitq" -> RaBitQEncodedQuery(q, query)

score(cpu, eq, encoded) ==
    CASE eq.kind = "scalar" -> scalar_quantized_dot(cpu, eq, encoded)
      [] eq.kind = "sign" -> SignScore(eq, encoded)
      [] eq.kind = "mse" -> MseScore(eq, encoded)
      [] eq.kind = "prod" -> score_turbo_quant_prod(eq, encoded)
      [] eq.kind = "rabitq" -> RaBitScore(eq, encoded)

score_batch(cpu, eq, encoded) ==
    CASE eq.kind = "scalar" -> scalar_quantized_dot_batch(cpu, eq, encoded)
      [] eq.kind = "sign" -> sign_quantized_score_batch(cpu, eq, encoded)
      [] eq.kind = "mse" -> MseScoreBatch(eq, encoded)
      [] eq.kind = "prod" -> ProdScoreBatch(cpu, eq, encoded)
      [] eq.kind = "rabitq" ->
           LET vectors == Chunks(encoded, RaBitBytes(eq.q))
           IN [k \in 1 .. Len(vectors) |-> RaBitScore(eq, vectors[k])]

=============================================================================
