--------------------------- MODULE CrossShardMerkle ---------------------------
(***************************************************************************)
(* The cross-shard merkle proof of src/blockchain/shard_cross_process.go:  *)
(* the producer groups the output coins of a shard block's transactions   *)
(* by destination shard, hashes each group into a leaf, builds the tree    *)
(* and extracts a shard's path (GetMerklePathCrossShard); the consumer     *)
(* recomputes the leaf from the coins it was sent and folds the path       *)
(* (VerifyCrossShardBlockUTXO, VerifyMerkleTree).                           *)
(*                                                                         *)
(* The Go functions are operators.  HashH is an injective constructor, so  *)
(* two hashes are equal exactly when their preimages are; the bytes of a   *)
(* coin list are the list itself, and the 64 bytes of two concatenated     *)
(* hashes are the pair.  A slice index out of range panics: the recursive *)
(* steps return a record whose ok field is FALSE.                          *)
(* The single variable is the transaction list of the producing block;     *)
(* Init ranges over every list within the bounds, and the properties are   *)
(* checked for every shard of every list.  Go slice indices start at 0,    *)
(* TLA+ sequences at 1: data[k + 1] is merkleData[k].                      *)
(***************************************************************************)
EXTENDS Naturals, Sequences, SequencesExt

CONSTANTS
    S,          \* common.SHARD_NUMBER
    LastBytes,  \* last bytes of the coins' public keys
    MaxTx,      \* transactions per block
    MaxOut      \* output coins per transaction

ASSUME S \in Nat \ {0} /\ LastBytes \subseteq 0..255

\* A coin, abstracted to the last byte of its public key.
Coins == [last : LastBytes]

\* Transactions, abstracted to their output coins (tx.GetProof().OutputCoins).
Txs == UNION {[1..k -> Coins] : k \in 1..MaxOut}

TxLists == UNION {[1..k -> Txs] : k \in 0..MaxTx}

Shards == 0..S-1

\* The result of a computation that panicked with index out of range.
Panic == [ok |-> FALSE, data |-> <<>>]
Ok(d) == [ok |-> TRUE, data |-> d]

\* common.HashH, and the concatenation of two hashes it is applied to.
HashH(bytes) == <<"H", bytes>>
Cat(h1, h2) == <<h1, h2>>

\* common.GetShardIDFromLastByte (not under src/): the shard a coin goes to.
GetShardIDFromLastByte(b) == b % S

\* Every output coin of the list, in transaction order.
OutCoins(txList) == FlattenSeq(txList)

\* The coins of txList that go to shard i, in order (outCoinEachShard[i]).
Group(txList, i) ==
    SelectSeq(OutCoins(txList), LAMBDA c : GetShardIDFromLastByte(c.last) = i)

\* getOutCoinHashEachShard: one leaf per shard; an empty group hashes the
\* empty string, which is the hash of its (empty) coin bytes.
getOutCoinHashEachShard(txList) == [i \in 1..S |-> HashH(Group(txList, i - 1))]

\* Step 1 of GetMerklePathCrossShard: append the hash of merkleData[cursor]
\* and merkleData[cursor+1] until cursor >= len(merkleData)-1.
RECURSIVE BuildMerkleData(_, _)
BuildMerkleData(data, cursor) ==
    IF cursor + 1 >= Len(data) THEN Panic
    ELSE LET d == Append(data, HashH(Cat(data[cursor + 1], data[cursor + 2])))
         IN IF cursor + 2 >= Len(d) - 1 THEN Ok(d) ELSE BuildMerkleData(d, cursor + 2)

\* Mutation: the cursor advances by a whole level width, not half of it.
RECURSIVE MerklePathFullStep(_, _, _, _, _, _)
MerklePathFullStep(data, nLeaves, cursor, lastCursor, i, path) ==
    IF cursor >= Len(data) - 2 THEN Ok(path)
    ELSE LET sib == IF i % 2 = 0 THEN cursor + i + 1 ELSE cursor + i - 1
         IN IF sib >= Len(data) THEN Panic
            ELSE MerklePathFullStep(data, nLeaves,
                            IF cursor = 0 THEN nLeaves ELSE cursor + (cursor - lastCursor),
                            IF cursor = 0 THEN lastCursor ELSE cursor,
                            i \div 2, Append(path, data[sib + 1]))

\* Step 2: from the leaf of shard i, take the sibling at each level; cursor
\* is the start of the level, lastCursor the start of the one below.
RECURSIVE MerklePath(_, _, _, _, _, _)
MerklePath(data, nLeaves, cursor, lastCursor, i, path) ==
    IF cursor >= Len(data) - 2 THEN Ok(path)
    ELSE LET sib == IF i % 2 = 0 THEN cursor + i + 1 ELSE cursor + i - 1
         IN IF sib >= Len(data) THEN Panic
            ELSE MerklePath(data, nLeaves,
                            IF cursor = 0 THEN nLeaves ELSE cursor + (cursor - lastCursor) \div 2,
                            IF cursor = 0 THEN lastCursor ELSE cursor,
                            i \div 2, Append(path, data[sib + 1]))

\* GetMerklePathCrossShard: the path of shardID and the root.
GetMerklePathCrossShard(txList, shardID) ==
    LET leaves == getOutCoinHashEachShard(txList)
        built == BuildMerkleData(leaves, 0)
        walk == MerklePath(built.data, Len(leaves), 0, 0, shardID, <<>>)
    IN IF ~built.ok \/ ~walk.ok THEN [ok |-> FALSE, path |-> <<>>, root |-> <<>>]
       ELSE [ok |-> TRUE, path |-> walk.data, root |-> built.data[Len(built.data)]]

\* One pass over the path: hash (accumulator || sibling) for each entry.
FoldPath(h, path) == FoldLeft(LAMBDA acc, sib : HashH(Cat(acc, sib)), h, path)

\* VerifyMerkleTree: fold the path into finalHash and compare with the root.
VerifyMerkleTree(finalHash, merklePath, merkleRoot) ==
    FoldPath(finalHash, merklePath) = merkleRoot

\* VerifyCrossShardBlockUTXO: hash the block's coins, fold the path, and
\* hand the result to VerifyMerkleTree.
VerifyCrossShardBlockUTXO(block, merklePathShard) ==
    VerifyMerkleTree(FoldPath(HashH(block.coins), merklePathShard),
                     merklePathShard, block.root)

\* getOutCoinCrossShard: the coins a cross-shard block for shardID carries,
\* those whose public key's last byte equals shardID, in order.
getOutCoinCrossShard(txList, shardID) ==
    SelectSeq(OutCoins(txList), LAMBDA c : c.last = shardID)

\* VerifyCrossShardBlock: the aggregated signature first (ValidateAggSignature,
\* not under src/, is the block's sigOK), then the merkle path.
VerifyCrossShardBlock(block) ==
    IF ~block.sigOK THEN "SignatureError"
    ELSE IF ~VerifyCrossShardBlockUTXO(block, block.path) THEN "HashError"
    ELSE "none"

-----------------------------------------------------------------------------
(* The reference: a complete binary tree over the S leaves (spec 4.3)      *)

\* The level above: parent k hashes children 2k-1 and 2k.
Parents(level) == [k \in 1..Len(level) \div 2 |-> HashH(Cat(level[2*k - 1], level[2*k]))]

RECURSIVE RefRoot(_)
RefRoot(level) == IF Len(level) = 1 THEN level[1] ELSE RefRoot(Parents(level))

\* Siblings of leaf i (0-based), leaf to root.
RECURSIVE RefPath(_, _)
RefPath(level, i) ==
    IF Len(level) = 1 THEN <<>>
    ELSE <<level[(IF i % 2 = 0 THEN i + 1 ELSE i - 1) + 1]>> \o RefPath(Parents(level), i \div 2)

-----------------------------------------------------------------------------

VARIABLE txList

Init == txList \in TxLists

\* The list is an input: it never changes.
Next == UNCHANGED txList

Spec == Init /\ [][Next]_txList

\* Path extraction (spec 4.3 Build, Path extraction): for every shard, the
\* path GetMerklePathCrossShard returns is the list of siblings of that
\* shard's leaf in the complete tree, leaf to root, and the root is that
\* tree's root; the flat merkleData layout and the cursor/lastCursor walk
\* (shard_cross_process.go:17-54) reproduce the tree exactly.
PathIsSiblings ==
    \A i \in Shards :
        LET leaves == getOutCoinHashEachShard(txList)
        IN GetMerklePathCrossShard(txList, i)
             = [ok |-> TRUE, path |-> RefPath(leaves, i), root |-> RefRoot(leaves)]

\* Merkle round trip (spec 8): the cross-shard block a producer makes for
\* shard i, with the coins getOutCoinCrossShard selects for i, the path and
\* root GetMerklePathCrossShard computes and a valid aggregated signature,
\* passes VerifyCrossShardBlock at shard i (shard_cross_process.go:13-138).
RoundTrip ==
    \A i \in Shards :
        LET pr == GetMerklePathCrossShard(txList, i)
        IN VerifyCrossShardBlock([coins |-> getOutCoinCrossShard(txList, i),
                                  root |-> pr.root, path |-> pr.path,
                                  sigOK |-> TRUE]) = "none"

=============================================================================
