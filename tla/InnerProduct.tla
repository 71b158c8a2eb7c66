----------------------------- MODULE InnerProduct -----------------------------
(***************************************************************************)
(* The inner-product argument of the aggregated range proof,              *)
(* src/privacy/zeroknowledge/aggregaterange_utils.go: the prover          *)
(* (InnerProductWitness.Prove) halves the vectors a, b and the generators *)
(* G, H each round, publishing L and R; the verifier                       *)
(* (InnerProductProof.Verify) replays the folding of G, H and p and checks *)
(* the last a, b against the folded point.  Also pad, which rounds the     *)
(* number of outputs to a power of two.                                    *)
(*                                                                         *)
(* The curve group of order N is replaced by the integers modulo a small  *)
(* prime Q, a point by its discrete logarithm: Add is +, ScalarMult is *, *)
(* both mod Q.  This keeps every linear relation the protocol relies on   *)
(* and drops only hardness, which completeness does not use.  The Fiat-   *)
(* Shamir challenge generateChallengeForAggRange (not under src/) is a   *)
(* fixed nonzero function of the points it hashes, the same for prover    *)
(* and verifier.  Go slices a[:k], a[k:] are SubSeq(a, 1, k),             *)
(* SubSeq(a, k+1, Len(a)).                                                 *)
(* Bytes and SetBytes serialise a proof.  Compress, Decompress and        *)
(* AddPaddingBigInt (privacy package, not under src/) write a point as a  *)
(* tag byte and its big-endian coordinate, a scalar as big-endian bytes   *)
(* left-padded to BigIntSize; here the coordinate is the discrete log.    *)
(* The single variable is the input: a witness, a proof to serialise, or  *)
(* an argument of pad.                                                     *)
(***************************************************************************)
EXTENDS Naturals, Sequences, SequencesExt

CONSTANTS
    Q,        \* the group order (privacy.Curve.Params().N), a small prime
    NVec,     \* the vector length, a power of two
    Gen,      \* AggParam.G: NVec generators (discrete logs)
    HGen,     \* AggParam.H
    U,        \* AggParam.U
    PadMax,   \* pad is checked on 0..PadMax
    PointSize,  \* privacy.CompressedPointSize
    BigIntSize  \* privacy.BigIntSize

ASSUME Q > 2 /\ Q <= 256 /\ Len(Gen) = NVec /\ Len(HGen) = NVec

Scalars == 0..Q-1

\* ModInverse(x, N).
Inv == [x \in 1..Q-1 |-> CHOOSE y \in 1..Q-1 : (x * y) % Q = 1]

\* innerProduct (aggregaterange_utils.go:299-313): sum of a[i]*b[i] mod N.
RECURSIVE innerProduct(_, _)
innerProduct(a, b) ==
    IF a = <<>> THEN 0 ELSE (Head(a) * Head(b) + innerProduct(Tail(a), Tail(b))) % Q

\* EncodeVectors (not under src/): sum of a[i]*G[i] + b[i]*H[i].
EncodeVectors(a, b, G, H) == (innerProduct(a, G) + innerProduct(b, H)) % Q

\* generateChallengeForAggRange (not under src/): a nonzero scalar fixed
\* by p, L and R.
Challenge(p, L, R) == ((p + 2 * L + 3 * R) % (Q - 1)) + 1

\* The folding both sides apply: G' = G_lo x^-1 + G_hi x,
\* H' = H_lo x + H_hi x^-1 (aggregaterange_utils.go:152-156, 214-218).
FoldG(G, x) == LET k == Len(G) \div 2 IN
    [i \in 1..k |-> (G[i] * Inv[x] + G[i + k] * x) % Q]
FoldH(H, x) == LET k == Len(H) \div 2 IN
    [i \in 1..k |-> (H[i] * x + H[i + k] * Inv[x]) % Q]

\* P' = x^2 L + P + x^-2 R.
FoldP(p, L, R, x) == (x * x * L + p + Inv[(x * x) % Q] * R) % Q

\* Mutation: the prover folds a with x^-1 on the lower half as well.
RECURSIVE ProveLoopSameX(_, _, _, _, _, _, _)
ProveLoopSameX(a, b, G, H, p, Ls, Rs) ==
    IF Len(a) <= 1 THEN [L |-> Ls, R |-> Rs, a |-> a[1], b |-> b[1]]
    ELSE LET k == Len(a) \div 2
             lo(v) == SubSeq(v, 1, k)
             hi(v) == SubSeq(v, k + 1, Len(v))
             L == (EncodeVectors(lo(a), hi(b), hi(G), lo(H)) + U * innerProduct(lo(a), hi(b))) % Q
             R == (EncodeVectors(hi(a), lo(b), lo(G), hi(H)) + U * innerProduct(hi(a), lo(b))) % Q
             x == Challenge(p, L, R)
         IN ProveLoopSameX([i \in 1..k |-> (a[i] * Inv[x] + a[i + k] * Inv[x]) % Q],
                       [i \in 1..k |-> (b[i] * Inv[x] + b[i + k] * x) % Q],
                       FoldG(G, x), FoldH(H, x), FoldP(p, L, R, x),
                       Append(Ls, L), Append(Rs, R))

\* The for n > 1 loop of Prove (aggregaterange_utils.go:118-185): cL, cR,
\* L, R, the challenge, and the folded a, b, G, H, p.
RECURSIVE ProveLoop(_, _, _, _, _, _, _)
ProveLoop(a, b, G, H, p, Ls, Rs) ==
    IF Len(a) <= 1 THEN [L |-> Ls, R |-> Rs, a |-> a[1], b |-> b[1]]
    ELSE LET k == Len(a) \div 2
             lo(v) == SubSeq(v, 1, k)
             hi(v) == SubSeq(v, k + 1, Len(v))
             L == (EncodeVectors(lo(a), hi(b), hi(G), lo(H)) + U * innerProduct(lo(a), hi(b))) % Q
             R == (EncodeVectors(hi(a), lo(b), lo(G), hi(H)) + U * innerProduct(hi(a), lo(b))) % Q
             x == Challenge(p, L, R)
         IN ProveLoop([i \in 1..k |-> (a[i] * x + a[i + k] * Inv[x]) % Q],
                      [i \in 1..k |-> (b[i] * Inv[x] + b[i + k] * x) % Q],
                      FoldG(G, x), FoldH(H, x), FoldP(p, L, R, x),
                      Append(Ls, L), Append(Rs, R))

\* InnerProductWitness.Prove (aggregaterange_utils.go:80-190): the proof
\* for witness a, b of the point p, with the first len(a) generators.
Prove(a, b, p) ==
    IF Len(a) # Len(b) THEN [ok |-> FALSE]
    ELSE LET r == ProveLoop(a, b, SubSeq(Gen, 1, Len(a)), SubSeq(HGen, 1, Len(a)), p, <<>>, <<>>)
         IN [ok |-> TRUE, p |-> p, L |-> r.L, R |-> r.R, a |-> r.a, b |-> r.b]

\* The loop of Verify over proof.L (aggregaterange_utils.go:206-232).
RECURSIVE VerifyLoop(_, _, _, _, _)
VerifyLoop(proof, i, G, H, p) ==
    IF i > Len(proof.L) THEN [G |-> G, H |-> H, p |-> p]
    ELSE LET x == Challenge(p, proof.L[i], proof.R[i])
         IN VerifyLoop(proof, i + 1, FoldG(G, x), FoldH(H, x),
                       FoldP(p, proof.L[i], proof.R[i], x))

\* InnerProductProof.Verify (aggregaterange_utils.go:192-243): with n the
\* number of generators, compare a G[0] + b H[0] + (a b) U with the
\* folded p.
Verify(proof) ==
    LET f == VerifyLoop(proof, 1, Gen, HGen, proof.p)
    IN (f.G[1] * proof.a + f.H[1] * proof.b + U * (proof.a * proof.b)) % Q = f.p

\* Mutation: the power loop of pad also steps past an exact power.
RECURSIVE FirstPowLE(_, _)
FirstPowLE(i, l) == IF 2^i <= l THEN FirstPowLE(i + 1, l) ELSE i

\* The second loop of pad: the least i with 2^i >= l.
RECURSIVE FirstPow(_, _)
FirstPow(i, l) == IF 2^i < l THEN FirstPow(i + 1, l) ELSE i

\* The first loop of pad: strip the factors of two, counting them.
RECURSIVE StripTwos(_, _)
StripTwos(l, deg) == IF l > 0 /\ l % 2 = 0 THEN StripTwos(l \div 2, deg + 1) ELSE <<l, deg>>

\* pad (aggregaterange_utils.go:245-266).
pad(l) == LET s == StripTwos(l, 0) IN 2^(FirstPow(0, s[1]) + s[2])

\* AddPaddingBigInt(x, n): x big-endian, left-padded with zeros to n bytes
\* (x < 256 here).
AddPaddingBigInt(x, n) == [i \in 1..n |-> IF i = n THEN x ELSE 0]

\* new(big.Int).SetBytes: the big-endian value of the bytes.
BigIntSetBytes(bs) == FoldLeft(LAMBDA acc, d : acc * 256 + d, 0, bs)

\* EllipticPoint.Compress / Decompress: the tag 2, then the coordinate.
Compress(pt) == <<2>> \o AddPaddingBigInt(pt, PointSize - 1)
Decompress(bs) == BigIntSetBytes(Tail(bs))

\* InnerProductProof.Bytes (aggregaterange_utils.go:26-43): len(L) as one
\* byte, the points of L, those of R, a and b padded, then p.
Bytes(proof) ==
    <<Len(proof.L) % 256>>
    \o FlattenSeq([i \in 1..Len(proof.L) |-> Compress(proof.L[i])])
    \o FlattenSeq([i \in 1..Len(proof.R) |-> Compress(proof.R[i])])
    \o AddPaddingBigInt(proof.a, BigIntSize) \o AddPaddingBigInt(proof.b, BigIntSize)
    \o Compress(proof.p)

\* The proof SetBytes leaves untouched when given no bytes.
EmptyProof == [L |-> <<>>, R |-> <<>>, a |-> 0, b |-> 0, p |-> 0]

\* Mutation: the offset is not advanced past a, so b is read from a's bytes.
SetBytesNoOffset(bs) ==
    IF bs = <<>> THEN EmptyProof
    ELSE LET n == bs[1]
             Pt(off) == Decompress(SubSeq(bs, off + 1, off + PointSize))
             o == 1 + 2 * n * PointSize
         IN [L |-> [i \in 1..n |-> Pt(1 + (i - 1) * PointSize)],
             R |-> [i \in 1..n |-> Pt(1 + (n + i - 1) * PointSize)],
             a |-> BigIntSetBytes(SubSeq(bs, o + 1, o + BigIntSize)),
             b |-> BigIntSetBytes(SubSeq(bs, o + 1, o + BigIntSize)),
             p |-> Pt(o + BigIntSize)]

\* InnerProductProof.SetBytes (aggregaterange_utils.go:45-78): read the
\* length byte, then the L and R points, a, b and p at running offsets
\* (Pt(off) decompresses the point after byte off).
SetBytes(bs) ==
    IF bs = <<>> THEN EmptyProof
    ELSE LET n == bs[1]
             Pt(off) == Decompress(SubSeq(bs, off + 1, off + PointSize))
             o == 1 + 2 * n * PointSize
         IN [L |-> [i \in 1..n |-> Pt(1 + (i - 1) * PointSize)],
             R |-> [i \in 1..n |-> Pt(1 + (n + i - 1) * PointSize)],
             a |-> BigIntSetBytes(SubSeq(bs, o + 1, o + BigIntSize)),
             b |-> BigIntSetBytes(SubSeq(bs, o + BigIntSize + 1, o + 2 * BigIntSize)),
             p |-> Pt(o + 2 * BigIntSize)]

-----------------------------------------------------------------------------
(* The vector helpers of aggregaterange_utils.go:271-360.  Vectors of     *)
(* different lengths are an error for the binary ones.                     *)

Err == "err"

\* vectorAdd, vectorSub, hadamardProduct: entrywise a[i] op b[i] mod N.
vectorAdd(a, b) ==
    IF Len(a) # Len(b) THEN Err ELSE [i \in 1..Len(a) |-> (a[i] + b[i]) % Q]

vectorSub(a, b) ==
    IF Len(a) # Len(b) THEN Err ELSE [i \in 1..Len(a) |-> (a[i] - b[i]) % Q]

hadamardProduct(a, b) ==
    IF Len(a) # Len(b) THEN Err ELSE [i \in 1..Len(a) |-> (a[i] * b[i]) % Q]

vectorAddScalar(v, s) == [i \in 1..Len(v) |-> (v[i] + s) % Q]

vectorMulScalar(v, s) == [i \in 1..Len(v) |-> (v[i] * s) % Q]

\* Mutation: the exponents start at 1.
PowerVectorFromOne(base, n) == [i \in 1..n |-> (base ^ i) % Q]

\* powerVector: result[i] = base^i mod N for i = 0..n-1; big.Int.Exp
\* gives 1 for 0^0, which TLC leaves undefined.
powerVector(base, n) == [i \in 1..n |-> IF i = 1 THEN 1 ELSE (base ^ (i - 1)) % Q]

-----------------------------------------------------------------------------

Vec == [1..NVec -> Scalars]

\* The statement a caller proves: p = <a, G> + <b, H> + <a, b> U.
Statement(a, b) == (EncodeVectors(a, b, Gen, HGen) + U * innerProduct(a, b)) % Q

VARIABLE input

\* Proofs of 0 to 2 rounds, with scalars and points drawn from 0, 1, Q-1.
ProofVals == {0, 1, Q - 1}
Proofs ==
    UNION {[L : [1..n -> ProofVals], R : [1..n -> ProofVals],
            a : ProofVals, b : ProofVals, p : ProofVals] : n \in 0..2}

\* Witnesses: every a of the vector length, against every b whose entries
\* are 0, 1 or Q-1.
Inputs == {[kind |-> "ipa", a |-> a, b |-> b] : a \in Vec, b \in [1..NVec -> ProofVals]}
          \cup {[kind |-> "pad", l |-> l] : l \in 0..PadMax}
          \cup {[kind |-> "bytes", proof |-> pr] : pr \in Proofs}
          \cup {[kind |-> "vec", a |-> a, b |-> b, s |-> s] :
                   a \in [1..2 -> Scalars], b \in [1..2 -> Scalars], s \in Scalars}

Init == input \in Inputs

Next == UNCHANGED input

Spec == Init /\ [][Next]_input

\* Completeness of the inner-product argument: for every witness a, b of
\* the vector length the generators were made for, the proof Prove builds
\* for p = <a,G> + <b,H> + <a,b>U is accepted by Verify; the prover's and
\* the verifier's foldings of a, b, G, H and p (aggregaterange_utils.go
\* 150-184 against 212-232) agree round by round.
Completeness ==
    input.kind = "ipa" =>
        LET pr == Prove(input.a, input.b, Statement(input.a, input.b))
        IN pr.ok /\ Verify(pr)

\* pad returns the least power of two that is at least its argument: the
\* stripped factors of two and the float power loop
\* (aggregaterange_utils.go:245-266) recombine to it.
PadIsNextPowerOfTwo ==
    input.kind = "pad" =>
        LET l == input.l
            k == CHOOSE k \in 0..PadMax : 2^k >= l /\ (k = 0 \/ 2^(k - 1) < l)
        IN pad(l) = 2^k

\* A proof survives serialisation: SetBytes reads back from the bytes
\* Bytes writes the same L, R, a, b and p, so the proof a node receives
\* (aggregaterange_utils.go:45-78) is the one its sender built (26-43).
ProofBytesRoundTrip ==
    input.kind = "bytes" => SetBytes(Bytes(input.proof)) = input.proof

\* The vector helpers are the linear algebra over Z_N the range proof
\* relies on (aggregaterange_utils.go:271-360): their results stay in Z_N,
\* subtraction undoes addition, the inner product is linear in each
\* argument and commutes with the Hadamard product, and powerVector(y, n)
\* is 1, y, y^2, ... with each entry y times the one before.
VectorAlgebra ==
    input.kind = "vec" =>
        LET a == input.a  b == input.b  s == input.s
            ys == powerVector(s, Len(a))
        IN /\ \A v \in {vectorAdd(a, b), vectorSub(a, b), hadamardProduct(a, b),
                        vectorAddScalar(a, s), vectorMulScalar(a, s)} :
                 \A i \in 1..Len(a) : v[i] \in Scalars
           /\ vectorSub(vectorAdd(a, b), b) = a
           /\ vectorAddScalar(a, s) = vectorAdd(a, [i \in 1..Len(a) |-> s])
           /\ innerProduct(vectorAdd(a, b), ys)
                = (innerProduct(a, ys) + innerProduct(b, ys)) % Q
           /\ innerProduct(vectorMulScalar(a, s), b) = (s * innerProduct(a, b)) % Q
           /\ innerProduct(hadamardProduct(a, b), ys)
                = innerProduct(a, hadamardProduct(b, ys))
           /\ ys[1] = 1
           /\ \A i \in 1..Len(a) - 1 : ys[i + 1] = (ys[i] * s) % Q

=============================================================================
