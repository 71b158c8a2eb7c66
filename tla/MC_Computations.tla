-------------------------- MODULE MC_Computations --------------------------
(***************************************************************************)
(* The pure computations of the node, checked together over bounded      *)
(* inputs: the cross-shard merkle path (CrossShardMerkle), the inner-     *)
(* product argument, its serialisation, the vector helpers and pad        *)
(* (InnerProduct), the DCB's bond sale (DCBCrowdsale) and the interest    *)
(* owed on a loan (LoanInterest).  The variable is one input, tagged with *)
(* the computation it is for; each property looks only at its own kind.   *)
(***************************************************************************)
EXTENDS Naturals

CONSTANTS
    S, LastBytes, MaxTx, MaxOut,
    Q, NVec, Gen, HGen, U, PadMax, PointSize, BigIntSize,
    DCB, Buyers, NoPk, BondPrices, BondIDs, Values, MaxNotes, MaxOuts,
    Principles, InterestsDue, Rates, Maturities, Deadlines, MaxHeight

VARIABLE input

Merkle == INSTANCE CrossShardMerkle WITH txList <- input.txs
IPA == INSTANCE InnerProduct
Sale == INSTANCE DCBCrowdsale
Loan == INSTANCE LoanInterest

MCGen == <<1, 2, 3, 4>>
MCHGen == <<2, 4, 1, 3>>
MCBondPrices == [b1 |-> 2]

Init ==
    input \in [kind : {"merkle"}, txs : Merkle!TxLists] \cup IPA!Inputs \cup Sale!Inputs
                \cup Loan!Inputs

Spec == Init /\ [][UNCHANGED input]_input

\* GetMerklePathCrossShard returns, for every shard of every block, the
\* siblings of that shard's leaf in the complete tree and the tree's root
\* (CrossShardMerkle!PathIsSiblings).
MerklePathIsSiblings == input.kind = "merkle" => Merkle!PathIsSiblings

\* Verify accepts every proof Prove builds (InnerProduct!Completeness).
Completeness == IPA!Completeness

\* pad rounds up to the next power of two (InnerProduct!PadIsNextPowerOfTwo).
PadIsNextPowerOfTwo == IPA!PadIsNextPowerOfTwo

\* SetBytes reads back the proof Bytes wrote
\* (InnerProduct!ProofBytesRoundTrip).
ProofBytesRoundTrip == IPA!ProofBytesRoundTrip

\* A bond sale spends a prefix of the DCB's outputs, pays out exactly what
\* it spends, and is refused only when the outputs cannot cover it
\* (DCBCrowdsale!BondResponseBalanced).
BondResponseBalanced == Sale!BondResponseBalanced

\* The vector helpers of the range proof keep the algebra of Z_N
\* (InnerProduct!VectorAlgebra).
VectorAlgebra == IPA!VectorAlgebra

\* A loan's debt is its principle plus the interest due and one perTerm
\* per completed term past the deadline, and never falls as the height
\* grows (LoanInterest!DebtPerCompletedTerm).
DebtPerCompletedTerm == Loan!DebtPerCompletedTerm
=============================================================================
