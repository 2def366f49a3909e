------------------------------ MODULE Kernels ------------------------------
(***************************************************************************)
(* turbomemory_core: the similarity kernels (metrics.rs), the quantizers   *)
(* (quantization.rs, turbo_quant.rs, rabitq.rs) and the kernels that score *)
(* encoded vectors without decoding them (quantized_search.rs,             *)
(* metrics_quantized.rs).                                                  *)
(*                                                                         *)
(* A vector is a sequence of integers, a byte a number below 256, and the  *)
(* encoded vectors are sequences of real bytes.  Floating-point rounding   *)
(* is left out: every sum is exact, so two kernels that add the same terms *)
(* in another order agree.  A factor that scales every score of a          *)
(* quantizer alike (1/sqrt(dim), 1/levels) is multiplied out, and          *)
(* centroids are in thousandths.                                           *)
(*                                                                         *)
(* The code picks a kernel by the features of the CPU: cpu is "avx2",      *)
(* "sse", "neon" or "scalar".                                              *)
(***************************************************************************)
EXTENDS Integers, Sequences, SequencesExt, Bitwise

CONSTANTS
    Signs,      \* Signs[seed]: the signs random_diagonal_precondition draws
    Gauss,      \* Gauss[seed]: the rows generate_gaussian_matrix draws
    NegInf      \* f32::NEG_INFINITY, below every score

SumTo(n, F(_)) ==
    LET s[k \in 0 .. n] == IF k = 0 THEN 0 ELSE s[k - 1] + F(k) IN s[n]

DivCeil(a, b) == (a + b - 1) \div b
Least2(a, b) == IF a <= b THEN a ELSE b
AbsOf(x) == IF x >= 0 THEN x ELSE -x
NonNeg(x) == IF x >= 0 THEN 1 ELSE 0
Bit(byte, k) == (byte \div 2^k) % 2
Parity(i, h) == ((i - 1) \div h) % 2
Slice(bytes, first, n) == [k \in 1 .. n |-> bytes[first + k - 1]]
Chunks(bytes, n) == [c \in 1 .. Len(bytes) \div n |-> Slice(bytes, (c - 1) * n + 1, n)]

\* The integer square root, rounded down.
Root(n) == CHOOSE r \in 0 .. n : r * r <= n /\ (r + 1) * (r + 1) > n

-----------------------------------------------------------------------------
(* metrics.rs.  A SIMD kernel keeps one accumulator per lane over the full *)
(* blocks, adds them up, and finishes the rest one element at a time.      *)

Lanes(terms, width) ==
    LET blocks == Len(terms) \div width IN
    SumTo(width, LAMBDA lane :
              SumTo(blocks, LAMBDA b : terms[(b - 1) * width + lane]))
    + SumTo(Len(terms) - blocks * width, LAMBDA k : terms[blocks * width + k])

dot_product_scalar(a, b) == SumTo(Least2(Len(a), Len(b)), LAMBDA i : a[i] * b[i])
dot_product_avx2(a, b) == Lanes([i \in 1 .. Len(a) |-> a[i] * b[i]], 8)
dot_product_sse(a, b) == Lanes([i \in 1 .. Len(a) |-> a[i] * b[i]], 4)
dot_product_neon(a, b) == Lanes([i \in 1 .. Len(a) |-> a[i] * b[i]], 4)

dot_product(cpu, a, b) ==
    CASE cpu = "avx2" -> dot_product_avx2(a, b)
      [] cpu = "sse" -> dot_product_sse(a, b)
      [] cpu = "neon" -> dot_product_neon(a, b)
      [] cpu = "scalar" -> dot_product_scalar(a, b)

SqDiff(a, b, i) == (a[i] - b[i]) * (a[i] - b[i])
l2_distance_sq_scalar(a, b) == SumTo(Len(a), LAMBDA i : SqDiff(a, b, i))
\* The rest after the last block of eight is forgotten.
l2_distance_sq_avx2_blocks(a, b) ==
    Lanes([i \in 1 .. 8 * (Len(a) \div 8) |-> SqDiff(a, b, i)], 8)
l2_distance_sq_avx2(a, b) == Lanes([i \in 1 .. Len(a) |-> SqDiff(a, b, i)], 8)
l2_distance_sq_sse(a, b) == Lanes([i \in 1 .. Len(a) |-> SqDiff(a, b, i)], 4)
l2_distance_sq_neon(a, b) == Lanes([i \in 1 .. Len(a) |-> SqDiff(a, b, i)], 4)

l2_distance_sq(cpu, a, b) ==
    CASE cpu = "avx2" -> l2_distance_sq_avx2(a, b)
      [] cpu = "sse" -> l2_distance_sq_sse(a, b)
      [] cpu = "neon" -> l2_distance_sq_neon(a, b)
      [] cpu = "scalar" -> l2_distance_sq_scalar(a, b)

DotAndNorms(a, b, width) ==
    <<Lanes([i \in 1 .. Len(a) |-> a[i] * b[i]], width),
      Lanes([i \in 1 .. Len(a) |-> a[i] * a[i]], width),
      Lanes([i \in 1 .. Len(a) |-> b[i] * b[i]], width)>>
dot_and_norms_scalar(a, b) == DotAndNorms(a, b, 1)
dot_and_norms_avx2(a, b) == DotAndNorms(a, b, 8)
dot_and_norms_sse(a, b) == DotAndNorms(a, b, 4)
dot_and_norms_neon(a, b) == DotAndNorms(a, b, 4)

dot_and_norms(cpu, a, b) ==
    CASE cpu = "avx2" -> dot_and_norms_avx2(a, b)
      [] cpu = "sse" -> dot_and_norms_sse(a, b)
      [] cpu = "neon" -> dot_and_norms_neon(a, b)
      [] cpu = "scalar" -> dot_and_norms_scalar(a, b)

\* The dot product and the squared norm of each vector of a block of four.
DotAndNbX4(q, vs, width) ==
    [k \in 1 .. 4 |-> <<Lanes([i \in 1 .. Len(q) |-> q[i] * vs[k][i]], width),
                        Lanes([i \in 1 .. Len(q) |-> vs[k][i] * vs[k][i]], width)>>]
dot_and_nb_x4_scalar(q, vs) == DotAndNbX4(q, vs, 1)
dot_and_nb_x4_avx2(q, vs) == DotAndNbX4(q, vs, 8)
dot_and_nb_x4_sse(q, vs) == DotAndNbX4(q, vs, 4)
dot_and_nb_x4_neon(q, vs) == DotAndNbX4(q, vs, 4)

dot_and_nb_x4(cpu, q, vs) ==
    CASE cpu = "avx2" -> dot_and_nb_x4_avx2(q, vs)
      [] cpu = "sse" -> dot_and_nb_x4_sse(q, vs)
      [] cpu = "neon" -> dot_and_nb_x4_neon(q, vs)
      [] cpu = "scalar" -> dot_and_nb_x4_scalar(q, vs)

\* The cosine, as its square with its sign, in units of 1/CosUnit: the same
\* order, in integers.
CosUnit == 1000
finalize_cosine(dot, na, nb) ==
    IF na * nb = 0 THEN 0
    ELSE IF dot >= 0 THEN (CosUnit * dot * dot) \div (na * nb)
         ELSE -((CosUnit * dot * dot) \div (na * nb))

cosine_similarity(cpu, a, b) ==
    LET d == dot_and_norms(cpu, a, b) IN finalize_cosine(d[1], d[2], d[3])

cosine_similarity_batch(cpu, query, vectors) ==
    LET na == dot_product(cpu, query, query)
        blocks == Len(vectors) \div 4
        Block(b) == dot_and_nb_x4(cpu, query, Slice(vectors, 4 * b - 3, 4))
        Rest(v) == finalize_cosine(dot_product(cpu, query, v), na, dot_product(cpu, v, v))
    IN [k \in 1 .. Len(vectors) |->
          IF k <= 4 * blocks
          THEN LET dn == Block((k + 3) \div 4)[((k - 1) % 4) + 1]
               IN finalize_cosine(dn[1], na, dn[2])
          ELSE Rest(vectors[k])]

\* Late interaction: for each token of the query the best token of the
\* document, added up.  Tokens are flat.
maxsim_score(cpu, query_tokens, doc_tokens, dim) ==
    LET Best(q) == LET sims == [d \in 1 .. Len(doc_tokens) \div dim |->
                                  dot_product(cpu, q, Slice(doc_tokens, (d - 1) * dim + 1, dim))]
                   IN CHOOSE m \in ToSet(sims) : \A s \in ToSet(sims) : s <= m
    IN IF dim = 0 \/ Len(query_tokens) < dim \/ Len(doc_tokens) < dim THEN 0
       ELSE SumTo(Len(query_tokens) \div dim,
                  LAMBDA q : Best(Slice(query_tokens, (q - 1) * dim + 1, dim)))

maxsim_score_batch(cpu, query_tokens, docs, dim) ==
    [d \in 1 .. Len(docs) |-> maxsim_score(cpu, query_tokens, docs[d], dim)]

-----------------------------------------------------------------------------
(* lib.rs: the rotation. *)

\* One pass of the loop over h: v[j], v[j + h] become their sum and difference.
Butterfly(v, h) ==
    [j \in 1 .. Len(v) |-> IF Parity(j, h) = 0 THEN v[j] + v[j + h] ELSE v[j - h] - v[j]]

fwht(v) ==
    LET pass[h \in {2^k : k \in 0 .. 7}] ==
            IF h = 1 THEN v ELSE Butterfly(pass[h \div 2], h \div 2)
    IN pass[Len(v)]

random_diagonal_precondition(v, seed) == [i \in 1 .. Len(v) |-> v[i] * Signs[seed][i]]

\* precondition, without the factor 1/sqrt(dim).
precondition(v, seed) == fwht(random_diagonal_precondition(v, seed))

\* Its inverse but for the factor: H first, then the diagonal.
rotate_backward(v, seed) == random_diagonal_precondition(fwht(v), seed)

\* NextPow2(n): usize::next_power_of_two.
NextPow2(n) == CHOOSE p \in {2^k : k \in 0 .. 7} : p >= n /\ (p = 1 \/ p < 2 * n)
IsPow2(n) == \E k \in 0 .. 7 : n = 2^k

Widen(v, n) == [i \in 1 .. n |-> IF i <= Len(v) THEN v[i] ELSE 0]
Norm(v) == Root(SumTo(Len(v), LAMBDA i : v[i] * v[i]))

-----------------------------------------------------------------------------
(* turbo_quant.rs: codes of a fixed width packed into a stream of bits.    *)

packed_bytes(dim, bits) == DivCeil(dim * bits, 8)

\* The straddling part is forgotten.
pack_codes_low_only(codes, bits) ==
    [b \in 1 .. packed_bytes(Len(codes), bits) |->
       LET part[i \in 0 .. Len(codes)] ==
             IF i = 0 THEN 0
             ELSE IF (((i - 1) * bits) \div 8) + 1 = b
                  THEN part[i - 1] | ((codes[i] * 2^(((i - 1) * bits) % 8)) % 256)
                  ELSE part[i - 1]
       IN part[Len(codes)]]

\* Byte b collects `code << shift`, cut to eight bits, of every code that
\* starts in it, and `code >> (8 - shift)` of one that straddles into it.
pack_codes(codes, bits) ==
    LET Start(i) == (i - 1) * bits
        Low(i) == (codes[i] * 2^(Start(i) % 8)) % 256
        High(i) == codes[i] \div 2^(8 - (Start(i) % 8))
        Straddles(i) == (Start(i) % 8) + bits > 8
    IN [b \in 1 .. packed_bytes(Len(codes), bits) |->
          LET part[i \in 0 .. Len(codes)] ==
                IF i = 0 THEN 0
                ELSE LET at == (Start(i) \div 8) + 1 IN
                     IF at = b THEN part[i - 1] | Low(i)
                     ELSE IF at + 1 = b /\ Straddles(i) THEN part[i - 1] | High(i)
                     ELSE part[i - 1]
          IN part[Len(codes)]]

unpack_codes(encoded, bits, dim) ==
    [i \in 1 .. dim |->
       LET start == (i - 1) * bits
           shift == start % 8
           at == (start \div 8) + 1
           low == encoded[at] \div 2^shift
           high == IF shift + bits > 8 THEN encoded[at + 1] * 2^(8 - shift) ELSE 0
       IN (low | high) % 2^bits]

\* f32::to_le_bytes and from_le_bytes of the scale stored with a vector.
to_le_bytes(a) == [k \in 1 .. 4 |-> (a \div 256^(k - 1)) % 256]
from_le_bytes(bytes) == SumTo(4, LAMBDA k : bytes[k] * 256^(k - 1))
Alpha(encoded) == from_le_bytes(Slice(encoded, Len(encoded) - 3, 4))

=============================================================================
