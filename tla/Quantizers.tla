----------------------------- MODULE Quantizers -----------------------------
(***************************************************************************)
(* The quantizers of turbomemory_core and their encoded queries.  A        *)
(* quantizer is a record: its kind, the dimension, the width of a code,    *)
(* the seeds, and for "scalar" the calibrated range.  An encoded query is  *)
(* what score and score_batch keep of the query: tables from a byte to the *)
(* sum of the terms of its codes.                                          *)
(***************************************************************************)
EXTENDS Kernels

RotationSeed == "rotation"      \* QuantizerKind::ROTATION_SEED
QjlSeed == "qjl"                \* QuantizerKind::QJL_SEED

-----------------------------------------------------------------------------
(* quantization.rs *)

\* LloydMaxTable::new, in thousandths; the code of a centroid is its index
\* less one.
LloydMaxTable(bits) ==
    CASE bits = 1 -> <<-798, 798>>
      [] bits = 2 -> <<-1510, -453, 453, 1510>>
      [] bits = 3 -> <<-2151, -1344, -800, -366, 366, 800, 1344, 2151>>
      [] bits = 4 -> <<-2732, -2070, -1619, -1256, -943, -660, -393, -135,
                       135, 393, 660, 943, 1256, 1619, 2070, 2732>>
      [] OTHER -> [i \in 1 .. 2^bits |-> -3000 + ((2 * i - 1) * 3000) \div 2^bits]

calibrate(vectors, bits) ==
    LET all == UNION {ToSet(vectors[k]) : k \in 1 .. Len(vectors)} IN
    [kind |-> "scalar", dim |-> Len(vectors[1]), bits |-> bits,
     min |-> CHOOSE x \in all : \A y \in all : x <= y,
     max |-> CHOOSE x \in all : \A y \in all : y <= x]

levels(q) == 2^q.bits - 1

\* round() of a non-negative quotient, then clamp.
ScalarEncode(q, v) ==
    LET range == q.max - q.min
        Code(x) == IF range = 0 THEN x - q.min
                   ELSE (2 * (x - q.min) * levels(q) + range) \div (2 * range)
    IN [i \in 1 .. q.dim |-> Least2(Code(v[i]), levels(q))]

\* A coordinate and every score of it are in units of 1/levels.
ScalarValue(q, code) == q.min * levels(q) + code * (q.max - q.min)
ScalarDecode(q, encoded) == [i \in 1 .. q.dim |-> ScalarValue(q, encoded[i])]

SignBytes(dim) == DivCeil(dim, 8)
SignMask(v) ==
    [b \in 1 .. SignBytes(Len(v)) |->
       SumTo(Least2(8, Len(v) - 8 * (b - 1)),
             LAMBDA k : NonNeg(v[8 * (b - 1) + k]) * 2^(k - 1))]
SignEncode(q, v) == SignMask(v)
SignAt(encoded, i) == IF Bit(encoded[((i - 1) \div 8) + 1], (i - 1) % 8) = 1 THEN 1 ELSE -1
SignDecode(q, encoded) == [i \in 1 .. q.dim |-> SignAt(encoded, i)]

-----------------------------------------------------------------------------
(* turbo_quant.rs *)

Centroids(q) == LloydMaxTable(q.bits)

\* quantize_coordinate: the first of the nearest centroids.  y is in units of
\* the norm of the vector, in thousandths.
quantize_coordinate(q, y) ==
    LET c == Centroids(q)
        Dist(k) == AbsOf(y - c[k])
    IN (CHOOSE k \in 1 .. Len(c) :
          /\ \A j \in 1 .. Len(c) : Dist(k) <= Dist(j)
          /\ \A j \in 1 .. k - 1 : Dist(j) > Dist(k)) - 1

MseCodes(q, v) ==
    LET norm == Norm(v)
        rotated == precondition(v, q.rotation)
    IN [i \in 1 .. q.dim |->
          quantize_coordinate(q, IF norm = 0 THEN 0 ELSE (1000 * rotated[i]) \div norm)]

MseBytes(q) == packed_bytes(q.dim, q.bits)
MseEncode(q, v) == pack_codes(MseCodes(q, v), q.bits)
MseRecon(q, codes) ==
    rotate_backward([i \in 1 .. q.dim |-> Centroids(q)[codes[i] + 1]], q.rotation)
MseDecode(q, encoded) == MseRecon(q, unpack_codes(encoded, q.bits, q.dim))

\* TurboQuantProd spends one bit of its width on the sign of the projected
\* residual.  A score is in quarters of an MSE term; QjlScale is qjl_scale in
\* that unit, 4 * sqrt(pi/2) rounded.
MseUnit == 4
QjlScale == 5
MseOf(q) == [kind |-> "mse", dim |-> q.dim, bits |-> q.bits - 1, rotation |-> q.rotation]
project(q, v) == [i \in 1 .. q.dim |-> SumTo(q.dim, LAMBDA j : q.matrix[i][j] * v[j])]
ProdBytes(q) == packed_bytes(q.dim, q.bits - 1) + packed_bytes(q.dim, 1) + 4

ProdEncode(q, v) ==
    LET norm == Norm(v)
        codes == MseCodes(MseOf(q), v)
        recon == MseRecon(MseOf(q), codes)
        residual == [i \in 1 .. q.dim |->
                       IF norm = 0 THEN 0 ELSE (1000 * v[i]) \div norm - recon[i] \div q.dim]
        signs == LET p == project(q, residual) IN [i \in 1 .. q.dim |-> NonNeg(p[i])]
    IN pack_codes(codes, q.bits - 1) \o pack_codes(signs, 1)
       \o to_le_bytes(Norm(residual))

ProdDecode(q, encoded) ==
    LET mse == packed_bytes(q.dim, q.bits - 1)
        codes == unpack_codes(Slice(encoded, 1, mse), q.bits - 1, q.dim)
        recon == MseRecon(MseOf(q), codes)
        qjl == unpack_codes(Slice(encoded, mse + 1, packed_bytes(q.dim, 1)), 1, q.dim)
        Back(j) == SumTo(q.dim, LAMBDA i : q.matrix[i][j] * (2 * qjl[i] - 1))
    IN [j \in 1 .. q.dim |-> MseUnit * recon[j] + Alpha(encoded) * QjlScale * Back(j)]

-----------------------------------------------------------------------------
(* rabitq.rs.  The projection keeps the first dim coordinates of a         *)
(* rotation in the next power of two; its factors pad_dim/dim are          *)
(* multiplied out.  alpha is in tenths.                                    *)

RaBitProject(q, v) ==
    LET pad == NextPow2(q.dim) IN
    Slice(fwht(random_diagonal_precondition(Widen(v, pad), q.rotation)), 1, q.dim)
inverse_project(q, y) ==
    Slice(random_diagonal_precondition(fwht(Widen(y, NextPow2(q.dim))), q.rotation), 1, q.dim)

RaBitBytes(q) == packed_bytes(q.dim, q.bits) + 4
RaBitAlpha(v) == Root(100 * SumTo(Len(v), LAMBDA i : v[i] * v[i]))

RaBitCode(q, y, alpha) ==
    LET t == 6745 * alpha
        x == 100000 * y
    IN CASE q.bits = 1 -> NonNeg(y)
         [] q.bits = 2 /\ x < -t -> 0
         [] q.bits = 2 /\ -t <= x /\ x < 0 -> 1
         [] q.bits = 2 /\ 0 <= x /\ x < t -> 2
         [] q.bits = 2 /\ t <= x -> 3

RaBitEncode(q, v) ==
    LET proj == RaBitProject(q, v)
        alpha == RaBitAlpha(v)
    IN pack_codes([i \in 1 .. q.dim |-> RaBitCode(q, proj[i], alpha)], q.bits)
       \o to_le_bytes(alpha)

\* The value a code stands for, in units of alpha (of alpha/100 for two bits).
RaBitLevel(q, code) == IF q.bits = 1 THEN 2 * code - 1 ELSE <<-118, -38, 38, 118>>[code + 1]

RaBitDecode(q, encoded) ==
    LET codes == unpack_codes(Slice(encoded, 1, Len(encoded) - 4), q.bits, q.dim)
    IN inverse_project(q, [i \in 1 .. q.dim |-> Alpha(encoded) * RaBitLevel(q, codes[i])])

-----------------------------------------------------------------------------
(* VectorQuantizer: the dispatch, and which kinds can be built at all.     *)

Constructible(kind, dim) ==
    /\ kind.name = "scalar" => kind.bits \in 1 .. 8
    /\ kind.name = "mse" => IsPow2(dim) /\ kind.bits \in 1 .. 8
    /\ kind.name = "prod" => IsPow2(dim) /\ kind.bits \in 2 .. 8
    /\ kind.name = "rabitq" => dim > 0 /\ kind.bits \in {1, 2}

encoded_bytes_per_vector(q) ==
    CASE q.kind = "scalar" -> q.dim
      [] q.kind = "sign" -> SignBytes(q.dim)
      [] q.kind = "mse" -> MseBytes(q)
      [] q.kind = "prod" -> ProdBytes(q)
      [] q.kind = "rabitq" -> RaBitBytes(q)

encode(q, v) ==
    CASE q.kind = "scalar" -> ScalarEncode(q, v)
      [] q.kind = "sign" -> SignEncode(q, v)
      [] q.kind = "mse" -> MseEncode(q, v)
      [] q.kind = "prod" -> ProdEncode(q, v)
      [] q.kind = "rabitq" -> RaBitEncode(q, v)

decode(q, encoded) ==
    CASE q.kind = "scalar" -> ScalarDecode(q, encoded)
      [] q.kind = "sign" -> SignDecode(q, encoded)
      [] q.kind = "mse" -> MseDecode(q, encoded)
      [] q.kind = "prod" -> ProdDecode(q, encoded)
      [] q.kind = "rabitq" -> RaBitDecode(q, encoded)

\* The constructors.  TurboQuantProd draws its Gaussian matrix from a seed.
NewProd(dim, bits, rotation, qjl) ==
    [kind |-> "prod", dim |-> dim, bits |-> bits, rotation |-> rotation,
     qjl |-> qjl, matrix |-> Gauss[qjl]]

NewQuantizer(kind, vectors) ==
    LET dim == Len(vectors[1]) IN
    CASE kind.name = "scalar" -> calibrate(vectors, kind.bits)
      [] kind.name = "sign" -> [kind |-> "sign", dim |-> dim]
      [] kind.name \in {"mse", "rabitq"} ->
           [kind |-> kind.name, dim |-> dim, bits |-> kind.bits, rotation |-> RotationSeed]
      [] kind.name = "prod" -> NewProd(dim, kind.bits, RotationSeed, QjlSeed)

\* A manifest keeps the seeds of a TurboQuantProd and not the matrix, which is
\* drawn again when the manifest is read.
serialize(q) ==
    IF q.kind = "prod"
    THEN [kind |-> "prod", dim |-> q.dim, bits |-> q.bits, rotation |-> q.rotation, qjl |-> q.qjl]
    ELSE q
deserialize(m) ==
    IF m.kind = "prod" THEN NewProd(m.dim, m.bits, m.rotation, m.qjl) ELSE m

=============================================================================
