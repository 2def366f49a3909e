------------------------------- MODULE MCScan -------------------------------
(* Instances of Scan for TLC: ten vectors per segment, so that a block of   *)
(* eight and a block of four both leave a rest.                             *)
EXTENDS Scan

MCNegInf == -2000000000
MCSigns == [seed \in {"rotation", "qjl"} |->
              [i \in 1 .. 16 |-> IF (i * i * 5 + i) % 7 < 3 THEN 1 ELSE -1]]
MCGauss == [seed \in {"rotation", "qjl"} |->
              [i \in 1 .. 8 |-> [j \in 1 .. 8 |-> ((i * 7 + j * 3 + i * j) % 5) - 2]]]

Vectors(dim, n) ==
    [i \in 1 .. n |-> [j \in 1 .. dim |-> ((i * 3 + j * 5 + i * i * j) % 7) - 3]]

Warm(name, bits, dim) == [tier |-> "warm", kind |-> [name |-> name, bits |-> bits],
                          vectors |-> Vectors(dim, 10)]
Segs == {Warm("scalar", b, d) : b \in {1, 2, 8}, d \in {3, 9}}
        \cup {Warm("mse", b, d) : b \in {1, 2, 3, 4, 8}, d \in {4, 8}}
        \cup {Warm("prod", b, d) : b \in {2, 3, 4, 6, 8}, d \in {4, 8}}
        \cup {Warm("rabitq", b, d) : b \in {1, 2}, d \in {3, 8, 9}}
        \cup {Warm("sign", 1, d) : d \in {8, 9}}
        \cup {Warm("mse", 2, 9), Warm("prod", 1, 4), Warm("prod", 9, 4), Warm("rabitq", 3, 4)}
        \cup {[tier |-> "cold", kind |-> [name |-> "sign", bits |-> 1], vectors |-> Vectors(d, n)]
                : d \in {8, 72}, n \in {3}}
        \cup {[tier |-> "cold", kind |-> [name |-> "scalar", bits |-> 8],
               vectors |-> [i \in 1 .. 3 |-> <<1, 1>>]]}

\* Every code under the widest kernels, and a few under each of the others:
\* beyond these the choice of kernel is that of the metrics alone.
On(cpu, segs) == {[tier |-> s.tier, kind |-> s.kind, vectors |-> s.vectors, cpu |-> cpu] : s \in segs}
MCCases == On("avx2", Segs)
           \cup On("sse", {Warm("scalar", 8, 9), Warm("sign", 1, 9)})
           \cup On("neon", {Warm("scalar", 2, 9), Warm("sign", 1, 9)})
           \cup On("scalar", {Warm("scalar", 1, 9), Warm("sign", 1, 9), Warm("prod", 4, 8), Warm("prod", 6, 4)})

\* One query whose coordinates are all alike in size, one that is not.
MCQueries(dim) == {[j \in 1 .. dim |-> IF j % 3 = 0 THEN -2 ELSE 2],
                   [j \in 1 .. dim |-> ((j * j + 2 * j) % 7) - 3]}
MCFilters(n) == {None, {4, 6, 12, 20, 21}}

=============================================================================
