------------------------------ MODULE SealedVotes ------------------------------
(***************************************************************************)
(* The sealed vote-proposal chain of src/metadata/voteproposal.go.  A     *)
(* voter seals a vote under the payment addresses of three lockers (a     *)
(* level-3 transaction); the lockers then publish level-2 and level-1     *)
(* transactions, each pointing back along the chain; the vote is finally  *)
(* opened either by the sealers (NormalVoteProposalFromSealer) or by the  *)
(* owner (NormalVoteProposalFromOwner).  Each transaction is validated    *)
(* against the transactions already on the chain                           *)
(* (ValidateMetadataByItself, then ValidateTxWithBlockChain) before it is *)
(* included.                                                               *)
(*                                                                         *)
(* The chain is the sequence of included transactions; a pointer (a tx   *)
(* hash) is the position of the transaction it names.  A transaction is   *)
(* a record with the fields of all five metadata types: the sealed data   *)
(* (for the normal types, the vote bytes), the locker list, and pointers   *)
(* p1, p2, p3 to a level-1, level-2 and level-3 transaction (0 where the   *)
(* type has none).  Anyone may submit anything: the data of a submission   *)
(* is either the value the validation expects or some other value, which  *)
(* covers every outcome of the equality checks.  A slice index out of     *)
(* range panics; the node is then gone.                                    *)
(* The DCB and GOV boards run the same code on different type tags and   *)
(* are not told apart; the height windows (ValidataBeforeNewBlock) are    *)
(* not modelled.                                                           *)
(***************************************************************************)
EXTENDS Naturals, Sequences, SequencesExt

CONSTANTS
    Board,        \* bcr.GetBoardPaymentAddress(boardType)
    Addr,         \* every payment address used as a locker (Board and others)
    LockerLists,  \* the locker lists submitters may use
    Votes,        \* VoteProposalData values an owner may seal
    Junk,         \* a data value that matches no expected value
    MaxTx         \* bound on the length of the chain

ASSUME Board \subseteq Addr /\ LockerLists \subseteq Seq(Addr) /\ MaxTx \in Nat

Types == {"lv3", "lv2", "lv1", "sealer", "owner"}

VARIABLES
    chain,      \* the included vote-proposal transactions, oldest first
    panicked    \* a validation panicked and brought the node down

vars == <<chain, panicked>>

\* common.Encrypt (not under src/): an injective constructor, since the code
\* only ever compares ciphertexts for equality.
Encrypt(data, pk) == <<"enc", data, pk>>

\* The sealed data of a level-3 transaction for vote v under lockers l, as
\* NormalVoteProposalFromOwner recomputes it (voteproposal.go:564-575).
Seal(v, l) == Encrypt(Encrypt(Encrypt(v, l[3]), l[2]), l[1])

Init == chain = <<>> /\ panicked = FALSE

-----------------------------------------------------------------------------
(* Validation                                                              *)

\* SealedVoteProposal.ValidateMetadataByItself (and its copies for the
\* normal types): no locker appears twice.
ValidateMetadataByItself(l) ==
    \A i, j \in 1..Len(l) : i < j => l[i] # l[j]

\* SealedVoteProposal.ValidateLockerPubKeys: every locker is on the board.
ValidateLockerPubKeys(l) == \A i \in 1..Len(l) : l[i] \in Board

\* GetSealedLv{1,2,3}VoteProposalMetadata: the metadata a pointer names.
GetSealedVoteProposalMetadata(p) == chain[p]

\* Mutation: the loop stops one element short.
CheckArrayEqualSkipLast(own, other) ==
    LET n == IF Len(own) - 1 < Len(other) THEN Len(own) - 1 ELSE Len(other)
    IN IF n > 0 /\ SubSeq(own, 1, n) # SubSeq(other, 1, n) THEN "reject"
       ELSE IF Len(own) - 1 > Len(other) THEN "panic" ELSE "ok"

\* The "check 2 array equal" loop: for i < len(own), own[i] against
\* other[i]; the first difference rejects, and an index past the end of
\* other panics.
CheckArrayEqual(own, other) ==
    LET n == IF Len(own) < Len(other) THEN Len(own) ELSE Len(other)
    IN IF SubSeq(own, 1, n) # SubSeq(other, 1, n) THEN "reject"
       ELSE IF Len(own) > Len(other) THEN "panic" ELSE "ok"

\* data == Encrypt(src.data, src.LockerPaymentAddress[i].Pk); the index is
\* read first and panics when out of range.
CheckEncrypt(data, src, i) ==
    IF Len(src.lockers) <= i THEN "panic"
    ELSE IF data = Encrypt(src.data, src.lockers[i + 1]) THEN "ok" ELSE "reject"

\* The first failing step decides.
AndThen(r, s) == IF r = "ok" THEN s ELSE r

\* SealedLv3VoteProposalMetadata: ValidateMetadataByItself, and
\* ValidateTxWithBlockChain, which accepts anything.
ValidateLv3(tx) ==
    IF ValidateMetadataByItself(tx.lockers) THEN "ok" ELSE "reject"

\* SealedLv2VoteProposalMetadata.ValidateTxWithBlockChain.
ValidateLv2(tx) ==
    LET lv3 == GetSealedVoteProposalMetadata(tx.p3)
    IN IF ~ValidateLockerPubKeys(tx.lockers) \/ lv3.type # "lv3" THEN "reject"
       ELSE AndThen(CheckArrayEqual(tx.lockers, lv3.lockers), CheckEncrypt(tx.data, lv3, 2))

\* SealedLv1VoteProposalMetadata.ValidateTxWithBlockChain: the level-3
\* pointer is checked for its type only.
ValidateLv1(tx) ==
    LET lv2 == GetSealedVoteProposalMetadata(tx.p2)
    IN IF \/ ~ValidateLockerPubKeys(tx.lockers)
          \/ lv2.type # "lv2" \/ chain[tx.p3].type # "lv3" THEN "reject"
       ELSE AndThen(CheckArrayEqual(tx.lockers, lv2.lockers), CheckEncrypt(tx.data, lv2, 1))

\* NormalVoteProposalFromSealerMetadata: ValidateMetadataByItself, then
\* ValidateTxWithBlockChain; the vote bytes must be the level-1 data
\* encrypted under the first locker.
ValidateSealer(tx) ==
    LET lv1 == GetSealedVoteProposalMetadata(tx.p1)
    IN IF \/ ~ValidateMetadataByItself(tx.lockers) \/ ~ValidateLockerPubKeys(tx.lockers)
          \/ lv1.type # "lv1" \/ chain[tx.p3].type # "lv3" THEN "reject"
       ELSE AndThen(CheckArrayEqual(tx.lockers, lv1.lockers), CheckEncrypt(tx.data, lv1, 0))

\* NormalVoteProposalFromOwnerMetadata: the level-3 data must be the vote
\* encrypted under lockers 2, 1, 0 of the level-3 transaction.
ValidateOwner(tx) ==
    LET lv3 == GetSealedVoteProposalMetadata(tx.p3)
    IN IF \/ ~ValidateMetadataByItself(tx.lockers) \/ ~ValidateLockerPubKeys(tx.lockers)
          \/ lv3.type # "lv3" THEN "reject"
       ELSE AndThen(CheckArrayEqual(tx.lockers, lv3.lockers),
                    IF Len(lv3.lockers) < 3 THEN "panic"
                    ELSE IF lv3.data = Seal(tx.data, lv3.lockers) THEN "ok" ELSE "reject")

Validate(tx) ==
    CASE tx.type = "lv3" -> ValidateLv3(tx)
      [] tx.type = "lv2" -> ValidateLv2(tx)
      [] tx.type = "lv1" -> ValidateLv1(tx)
      [] tx.type = "sealer" -> ValidateSealer(tx)
      [] tx.type = "owner" -> ValidateOwner(tx)

-----------------------------------------------------------------------------
(* Submissions                                                             *)

Ptr == 1..Len(chain)

\* The value a check of src's i-th locker expects, when it exists, or Junk.
Expect(src, i) ==
    {Junk} \cup (IF Len(src.lockers) > i THEN {Encrypt(src.data, src.lockers[i + 1])} ELSE {})

Tx(t, d, l, a, b, c) == [type |-> t, data |-> d, lockers |-> l, p1 |-> a, p2 |-> b, p3 |-> c]

\* Every transaction anyone may submit in the current state.
Candidates ==
    UNION {
      {Tx("lv3", d, l, 0, 0, 0) :
          d \in {Junk} \cup {Seal(x, l) : x \in IF Len(l) >= 3 THEN Votes ELSE {}}}
      \cup UNION {{Tx("lv2", d, l, 0, 0, k) : d \in Expect(chain[k], 2)} : k \in Ptr}
      \cup UNION {{Tx("lv1", d, l, 0, k, k3) : d \in Expect(chain[k], 1), k3 \in Ptr} : k \in Ptr}
      \cup UNION {{Tx("sealer", d, l, k, 0, k3) : d \in Expect(chain[k], 0), k3 \in Ptr} : k \in Ptr}
      \cup {Tx("owner", x, l, 0, 0, k) : k \in Ptr, x \in Votes}
    : l \in LockerLists}

\* A transaction is validated and, if valid, included; a rejected one
\* leaves the chain as it is; a panicking one ends the node.
ValidateAndInclude(tx) ==
    /\ ~panicked /\ Len(chain) < MaxTx
    /\ \/ Validate(tx) = "ok" /\ chain' = Append(chain, tx) /\ UNCHANGED panicked
       \/ Validate(tx) = "panic" /\ panicked' = TRUE /\ UNCHANGED chain

\* The chain has reached its bound, or the node is down.
Done == (panicked \/ Len(chain) = MaxTx) /\ UNCHANGED vars

Next == (\E tx \in Candidates : ValidateAndInclude(tx)) \/ Done

Spec == Init /\ [][Next]_vars

-----------------------------------------------------------------------------
(* Properties                                                              *)

\* The transaction a chain link points back to.
Parent(tx) ==
    CASE tx.type \in {"lv2", "owner"} -> tx.p3
      [] tx.type = "lv1" -> tx.p2
      [] tx.type = "sealer" -> tx.p1

ParentType == [lv2 |-> "lv3", lv1 |-> "lv2", sealer |-> "lv1", owner |-> "lv3"]

\* The level-3 transaction at the root of position k's chain.
RECURSIVE Root(_)
Root(k) == IF chain[k].type = "lv3" THEN k ELSE Root(Parent(chain[k]))

\* Sealed chains are well formed: every included level-2, level-1 or
\* opening transaction points back, link by link, through the level the
\* protocol expects, to a level-3 seal, and every locker it names is the
\* seal's locker at the same position (the "check 2 array equal" loops of
\* voteproposal.go:115-121, 231-240, 437-443, 553-561, applied along the
\* whole chain).
SealedChainRooted ==
    \A k \in 1..Len(chain) : chain[k].type # "lv3" =>
        /\ chain[Parent(chain[k])].type = ParentType[chain[k].type]
        /\ IsPrefix(chain[k].lockers, chain[Root(k)].lockers)

\* Validating a transaction never crashes the node, whatever was included
\* before it: the locker loops and the fixed indices [0], [1], [2] of the
\* encryption checks (voteproposal.go:117-125, 233-246, 439-449,
\* 555-574) stay within the slices they read.
NoValidationPanic == ~panicked

=============================================================================
