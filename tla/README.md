# TLA+ models of the constant node

This directory holds TLA+ specifications of the parts of the Go sources
under `src/` where ordering, concurrency or arithmetic can go wrong: the
per-height BFT consensus round, its phase timers, the cross-shard
merkle proof, the sealed vote-proposal chain, the loan index in leveldb,
the inner-product argument of the range proofs, the DCB crowdsale
responses and the JSON-RPC handlers that create and submit transactions. Every definition in the modules was translated from the
Go code. `PROJECT.json` maps each definition to the lines it models and
lists the runs, mutants, findings and hazards.

## The system

- **BFT consensus round.** This is `src/consensus/constantpos/bft.go`.
  `BFTProtocol.Start` runs one round for one member of a committee.
  - The proposer builds a block, waits for Ready messages and
    broadcasts a Propose.
  - The others listen for that Propose and validate it.
  - Then every member reveals its nonce commitment Ri in the prepare
    phase. It combines the collected Ri into R, signs, and sends its
    partial signature in the commit phase.
  - Finally it combines the largest group of signatures that share
    one R.

  Each phase waits in a `select` on the message channel `cBFTMsg` and
  on `cTimeout`.
- **Phase timers.** `cTimeout` is a field re-made at the top of every
  loop iteration. It is closed by the phase's `time.AfterFunc`
  callback, or by the main loop when a quorum is seen.
- **Cross-shard proof.** This is `src/blockchain/shard_cross_process.go`.
  A shard groups the output coins of its block by destination shard
  and hashes each group into a leaf. It then builds a merkle tree and
  hands each destination its path. The destination rehashes the coins
  it received and folds the path up to the root in the block header.

- **Sealed vote proposals.** This is `src/metadata/voteproposal.go`. A
  voter seals a vote under three lockers (level 3). The lockers publish
  level-2 and level-1 transactions pointing back along the chain. The
  vote is opened by the sealers or by the owner. Each transaction is
  validated against the chain before it is included.
- **Loan index.** This is `src/database/lvdb/loan.go`. A loan request
  or response is stored with two Puts: the loan key, then the tx-hash
  index key.
- **Inner-product argument.** This is
  `src/privacy/zeroknowledge/aggregaterange_utils.go`: `Prove`,
  `Verify`, `innerProduct` and `pad`.
- **Crowdsale responses.** This is `src/transaction/txcrowdsale.go`.
  `BuildResponseForBond` sells bonds to a buyer who paid Constant to the
  DCB. It spends a prefix of the DCB's unspent bond outputs and returns
  the rest. `BuildResponseForCoin` buys bonds back for Constant.
- **RPC submission.** This is `src/rpcserver/rpcfunctiontx.go` and
  `rpcfuntionsubmitproposal.go`. For each kind of transaction (normal,
  staking, custom token, privacy custom token, DCB and GOV proposal),
  a create handler builds and encodes it. A send handler decodes it,
  hands it to the mempool and broadcasts it. A create-and-send handler
  does both.

The members interact only through messages. The timers interact with
the main loop through the shared `cTimeout` field. The RPC requests
interact through the shared mempool. The merkle proof, the inner
product, the crowdsale responses and the loan interest are pure
computation.

## Modules

| Module | Models | State | Actions |
|---|---|---|---|
| `BFTProtocol` | `BFTProtocol.Start` of every committee member (bft.go:44-360) | per member: phase, outcome, returned block, `dataToSig`, `readyMsgCount`, `collectedRiList`, `combine.R`, `phaseData.Sigs` (a bag of (R, signer)), whether `cTimeout` is closed, pending delayed sends; the network: all messages sent, what each member has read, duplicates used | `Start`, `RecvReady`, `ProposeTimeout`, `RecvPropose`, `ListenTimeout`, `RecvPrepare`, `PrepareTimeout`, `RecvCommit`, `CommitTimeout`, `Timeout`, `SendPrepareMsg`, `SendCommitMsg` |
| `MC_BFT` | committee and message constants for `BFTProtocol` | | |
| `BFTTimer` | the goroutines of one member that touch `cTimeout` | loop position, `protocol.phase`, the channels made so far and which are closed, each phase timer's state (armed, firing, done, stopped), `cQuit`, panic | `LoopTop`, `Quorum`, `ListenAccept`, `PhaseTimeout`, `Quit`, `Fire`, `Callback` |
| `CrossShardMerkle` | the functions of shard_cross_process.go, as operators | the block's transaction list, chosen once from every list within the bounds | none (an input) |
| `SealedVotes`, `MC_SealedVotes` | validation and inclusion of the five vote-proposal types | the included chain, whether a validation panicked | `ValidateAndInclude`, `Done` |
| `LoanDB`, `MC_LoanDB` | `StoreLoanRequest`/`StoreLoanResponse`, `StoreLoanPayment`, `GetLoanTxs` | the key-value map, the store call between its two Puts, the last error | `StoreLoanKey`, `StoreTxKey`, `StoreLoanPayment`, `Crash` |
| `BFTRound` | what a round promises (spec 3, 4.1, 8) | per member: its partial signature (block, R), the block it returned and its signers | `Sign`, `Decide` |
| `InnerProduct` | `Prove`, `Verify`, `Bytes`, `SetBytes`, `pad` and the vector helpers, as operators | a witness or a `pad` argument, chosen once | none (an input) |
| `DCBCrowdsale`, `MC_DCBCrowdsale` | `BuildResponseForBond`, `BuildResponseForCoin`, as operators | a request, a bond ID and the DCB's unspent outputs, chosen once | none (an input) |
| `LoanInterest` | `GetInterestPerTerm`, `GetTotalInterest`, `GetTotalDebt` (loanpayment.go:70-88), as operators | a loan, chosen once | none (an input) |
| `MC_Computations` | the merkle, inner-product, crowdsale and loan-interest operators, checked together | one input of any kind | none (an input) |
| `RpcTx`, `MC_RpcTx` | the create, send and create-and-send handlers of six transaction kinds | the mempool, the transactions broadcast, per request its step, whether it added its transaction, its reply | `Create`, `Accept`, `Push`, `Done` |

### How the BFT model corresponds to the code

- **Receives.** Each `Recv*` action is one iteration of a phase's
  `select` that takes a message.
  - The guard says the phase handles that message type.
  - A message read by a phase that does not handle its type is dropped
    by the Go loop. That read is the same as the message never
    arriving, so it is not represented.
- **Timeouts.** Each `*Timeout` action is the `cTimeout` case. It
  covers every early return, and the entry into the next phase: the
  arming of timers, the delayed broadcasts, and the reset of the
  phase's locals.
- **Network.** Messages live in a pool. A member reads any message it
  has not read, in any order. `MaxDup` bounds how many messages it
  may read twice.
- **Abstracted data.**
  - Signatures and Ri are replaced by who signed, under which R (the
    set of members whose Ri were combined), and for which block.
  - `VerifyCommitSig` is not under `src/`. It is modelled from spec 4.2:
    a signature verifies when it is genuine and for our block.
  - The two layers (beacon, shard) run the same code and are not told
    apart.
- **Single-node returns.** `ProposeShortcut` selects between the code as
  written and the code without the returns at bft.go:88/102.
  - As written (TRUE), the proposer returns its unsigned block before
    any exchange, and the rest of the propose phase is dead code.
  - With FALSE, the model checks the protocol the rest of the code
    implements.

- **Refinement.** `RoundRefinement` checks that `BFTProtocol` implements
  `BFTRound`. The mapping `SignedBy` takes a member's signature from
  `combineR` and `dataToSig` once `PrepareTimeout` has run `SignData`.
  `Decided` is `result` with the signers as a set.

### How the timer model corresponds to the code

- **Channels.** A channel is named by the loop iteration that made it.
  `owner[i]` is the phase of iteration i, and `Cur` is the channel in
  `protocol.cTimeout`.
- **Timer lifecycle.** `Fire` is the runtime starting an expired
  timer's goroutine. `Callback` is that goroutine's
  `close(protocol.cTimeout)`, which reads the field when it runs.
  `StopTimer` is `timer.Stop()`, which has no effect once the timer
  has fired.
- **Abstracted choices.** Whether a quorum is seen, or a Propose is
  accepted, depends on message contents. It is a free choice here.

### How the merkle model corresponds to the code

- **Hashes.** `HashH` is an injective constructor: two hashes are equal
  exactly when their inputs are.
- **Slice indexing.** Go slices are indexed from 0 and TLA+ sequences
  from 1, so `data[k+1]` is `merkleData[k]`.
- **Out-of-range panics.** An index out of range makes the operator
  return `ok |-> FALSE`.
- **Reference.** `RefRoot` and `RefPath` define the complete binary
  tree of spec 4.3 recursively. They are what the flat `merkleData`
  walk is checked against.
- **Cross-shard block.** `getOutCoinCrossShard` is the coin list a
  block for a shard carries. `VerifyCrossShardBlock` returns
  `"SignatureError"`, `"HashError"` or `"none"` in the order of the code.
  `ValidateAggSignature` is not under src/; it is the block's `sigOK`
  field, and the round trip sets it to TRUE.

### How the sealed-vote model corresponds to the code

- **Chain.** A transaction hash is the position of the transaction on
  the chain. A transaction is a record with the type, the sealed data,
  the locker list and the pointers p1, p2, p3.
- **Validation.** `ValidateLv3`, `ValidateLv2`, `ValidateLv1`,
  `ValidateSealer` and `ValidateOwner` are the `ValidateTxWithBlockChain`
  methods (with `ValidateMetadataByItself` where the code calls it).
  Each returns "ok", "reject" or "panic". An index out of range in Go
  is "panic".
- **Data.** `common.Encrypt` (not under `src/`) is an injective
  constructor. A submission's data is either what the check expects or
  `Junk`, which covers both outcomes of every comparison.
- **Inclusion.** The caller of the validation is outside `src/`; a
  valid transaction is appended, a panicking one ends the node.

### How the loan model corresponds to the code

- **Keys.** Keys are tuples of their parts. The byte concatenations of
  the code are unambiguous for the fixed-length hashes used as IDs.
- **Two steps.** `StoreLoanKey` is the first check and Put,
  `StoreTxKey` the second. Each Put may fail, and `Crash` stops the
  process between them. leveldb keeps each Put, not the pair.
- **Retries.** A caller may repeat any store at any time.

### How the inner-product model corresponds to the code

- **Group.** The curve group is replaced by the integers modulo a small
  prime Q. A point is its discrete logarithm, so point addition is +
  and scalar multiplication is *, both mod Q. Completeness only uses
  these linear relations.
- **Challenge.** `generateChallengeForAggRange` is not under `src/`. It
  is a fixed nonzero function of the points it hashes, the same for
  prover and verifier.
- **pad.** `StripTwos` and `FirstPow` are its two loops.
- **Serialisation.** `Bytes` and `SetBytes` work on byte sequences at
  the real sizes (33-byte points, 32-byte scalars). `Compress`,
  `Decompress` and `AddPaddingBigInt` are not under `src/`. A point is
  written as a tag byte and its big-endian coordinate; here the
  coordinate is the discrete log.
- **Vector helpers.** `vectorAdd`, `vectorSub` and `hadamardProduct`
  return an error for vectors of different lengths. `powerVector` gives 1 for 0^0 as `big.Int.Exp` does.

### How the loan-interest model corresponds to the code

- **Arithmetic.** `\div` is Go's truncating division of non-negative
  integers. The checked loans are small, so no uint64 product or sum
  can wrap, and TLA+ integers give the Go values.
- **Maturity 0.** The Go division panics. TLC's division fails in the
  same way, so the inputs keep the maturity at 1 or more.

### How the crowdsale model corresponds to the code

- **Requests.** A request is reduced to what the functions read: the
  notes of its Constant transfer (receiver key and value), its bond
  outputs, and the requester's key. Keys are model values.
- **Prices.** A bond ID with no entry in `bondPrices` has price 0, and
  the division at line 58 panics.
- **Loop.** `UseOuts` is the loop at lines 60-67 that takes outputs
  until their sum reaches the bonds sold.

### How the RPC model corresponds to the code

- **Collaborators.** The transaction builders, `TxMemPool` and
  `Server.PushMessageToAll` are not in the repository.
  - A build fails exactly for `BadParams`.
  - `MaybeAcceptTransaction` refuses a transaction already in the pool.
  - A broadcast may fail.
- **Data.** A transaction is its kind and its parameters, so its hash
  is itself. `Encode` records the codec (Base58Check or hex). `Decode`
  fails under the other codec and on `Garbage`.
- **Steps.** A create touches no shared state and is one step. A send
  is two steps: up to the accept into the mempool (`Accept`), then the
  broadcast and the reply (`Push`). Other requests may run in between,
  as each RPC request runs in its own goroutine.
- **Handlers.** The per-handler definitions differ only where the code
  differs: the codec, and whether the broadcast error is returned
  (`handleSendRawTransaction`) or dropped (the others). A proposal
  build that fails panics, because `tx.Metadata` is set on a nil tx.

## Runs

| Run | Expect | What it shows |
|---|---|---|
| `bft_safety` | pass | The round without the single-node returns, for three members, a forged and an invalid proposal, and a tampered commit on the network. Every returned block is signed by more than N/2 members who signed that block under the R it was combined with (`MajoritySigned`). No member signs anything but the authentic block (`OnlyAuthenticSigned`). The round refines `BFTRound` (`RoundRefinement`). About 372k states, 1.5 min. |
| `bft_dup_commit` | violation | A duplicated commit is counted twice and lets a member combine too few real signers. |
| `timer_live` | pass | Every phase wait ends, for a proposer and a listener (`Termination`). |
| `timer_double_close` | violation | A timer whose callback is already running cannot be stopped; its close after the quorum close panics. |
| `computations` | pass | For every input within the bounds: `GetMerklePathCrossShard` returns each shard's siblings and the tree root (`MerklePathIsSiblings`); `Verify` accepts every proof `Prove` builds (`Completeness`); `SetBytes` reads back every proof of up to two rounds that `Bytes` writes (`ProofBytesRoundTrip`); `pad` returns the next power of two (`PadIsNextPowerOfTwo`); a bond sale spends a prefix of the DCB's outputs, pays out exactly what it spends, and is refused only when the outputs cannot cover it (`BondResponseBalanced`); the vector helpers keep the algebra of Z_N: results stay in range, subtraction undoes addition, the inner product is linear and commutes with the Hadamard product, and `powerVector` is 1, y, y^2, ... (`VectorAlgebra`); a loan owes its principle, the interest due and one `perTerm` per term completed since the deadline, and its debt never falls as the height grows (`DebtPerCompletedTerm`). About 60k states, under 30 s. |
| `merkle_roundtrip` | violation | The block a producer builds for shard i (the coins `getOutCoinCrossShard` selects, the path and root of `GetMerklePathCrossShard`, a valid signature) fails `VerifyCrossShardBlock` with HashError, already for the empty list: the path is folded twice. Independently, `getOutCoinCrossShard` selects coins by `lastByte == shardID` (line 117) while the leaves group them by `GetShardIDFromLastByte`; a scratch run with the fold replaced by a correct check still fails for a coin with last byte 5 among 4 shards. |
| `votes_chain` | pass | Every accepted level-2, level-1 or opening transaction hangs, link by link, off a level-3 seal whose lockers it repeats (`SealedChainRooted`). Chains of up to 4 transactions, 8,856 states. |
| `votes_panic` | violation | A level-3 seal with two lockers is accepted; validating a level-2 transaction that points to it panics (`NoValidationPanic`). |
| `loan_store` | pass | Under failed Puts, crashes and retries, a loanTx entry always names a loan key that holds its hash (`TxIndexSound`). 252 states. |
| `loan_crash` | violation | A failed or interrupted second Put leaves a loan transaction with no loanTx entry, and a retry returns KeyExisted (`LoanTxsIndexed`). |
| `bond_recipient` | violation | `BuildResponseForBond` pays the bonds to the DCB's own key, or the zero key, never to the buyer (`BondsToBuyer`). |
| `rpc_send_error` | violation | A create-and-send whose broadcast fails is answered with an error while its transaction stays in the mempool; a retry is refused as a duplicate (`ErrorMeansNotAccepted`). |

The run of the propose phase as written (`ProposeShortcut = TRUE`),
where the proposer returns its unsigned block at once, is not among the
runs. The hazard at bft.go:88 records it.

## Bounds and fairness

- **BFT committee size.** Three members is the smallest committee where
  each quorum is non-trivial: ReadyQuorum 1, N/2 = 1, early exit 2.
  At three members the early exit (2) always exceeds N/2 (1), so
  the commit early exit cannot close the wait on a group too small to
  combine. Four members, where the two thresholds disagree, is not
  among the runs. A scratch run with a fourth member finds the
  disagreement in about 20k states, as recorded in the hazard at
  bft.go:348: the wait closes at 2 signatures, but combining needs 3.
- **Forged messages.** One of each kind of bad input the code checks
  for: a bad producer signature, a failed pre-sign validation, and an
  invalid partial signature.
- **`MaxDup`.** Set to 1 where duplication is the question, 0
  elsewhere.
- **Timer fairness.** The Go runtime eventually runs every expired
  timer and its goroutine. A `select` whose `cTimeout` is closed
  eventually takes that case, because Go picks uniformly among ready
  cases.
- **No fairness for messages.** No fairness is assumed for messages, a
  quorum or a quit. They depend on other nodes.
- **Deadlock in `timer_live`.** `timer_live` does not check deadlock: a
  process really stops after Start returns or after a panic. Every
  other stop shows up as a `Termination` violation.
- **Merkle bounds.** The path extraction is checked for 8 shards, which
  gives three levels and exercises the `lastCursor` arithmetic twice.
  Coins with last bytes 0, 1, 3 and 5 give empty and non-empty groups.
  Byte 5 is a coin whose last byte is not a shard index.

- **Vote bounds.** Three board members and one outsider give locker
  lists in order, reversed, with a non-member, and too short. Four
  transactions are enough for a full lv3, lv2, lv1, sealer chain.
- **Loan bounds.** One loan with a request, a response and a second
  request under another hash; two payment values.
- **Inner-product bounds.** Vectors of length 4 give two folding
  rounds. Q = 5 is the smallest prime with more than one nonzero
  challenge value, so a wrong fold is visible. The witness a ranges
  over all 625 vectors; b ranges over the 81 vectors with entries 0, 1
  and 4 = -1. That keeps the run near 20 s, so a mutant is found well
  within the time limit. Every two-round fold still mixes a nonzero
  challenge with its inverse.
- **Vector-helper bounds.** Every pair of length-2 vectors over Z_5
  and every scalar: 3,125 inputs. Length 2 is the shortest where
  `powerVector` has a second entry and the inner product sums.
- **Loan bounds.** Principles 0, 5000 and 20000; rates 0, 1 and 3 (so
  `perTerm` is 0, 1, 2 or 6, and 0 by truncation for 5000 at rate 1);
  interest due 0 or 7; maturities 1 to 3; deadlines 0 and 2; heights 0
  to 8. So every maturity has a partial term and at least two full
  ones.
- **Crowdsale bounds.** One buyer, the DCB, one priced bond (price 2)
  and one bond with no price. Requests of up to 2 notes, up to 3
  unspent outputs of values 1 to 3. This gives sales that are
  refused, sales that spend outputs exactly, and sales with change.
- **RPC bounds.** Five requests: a create-and-send of a normal
  transaction, a later send of the same data (a retry), a
  create-and-send of a custom-token transaction, a create-and-send of a
  DCB proposal with bad parameters, and a send of garbage.

## Not modelled

- **Other components.** See `components` in PROJECT.json. The height
  windows of the vote proposals (`ValidataBeforeNewBlock`) are not
  modelled. Nothing under `src/` calls them. Three of the five call
  `GetBoardType`, which panics "override me". What their result means
  depends on that absent caller.
- **Loan metadata.** The `LoanPayment` validation methods call a
  retriever and wallet code that are not under `src/`.
- **Proof size.** `estimateMultiRangeProofSize` is a float formula over
  constants of the privacy package, which is not under `src/`.
- **Read-only and static parts.** The read-only RPC handlers change no state. Wire serialisation,
  genesis data and the command-line tool are I/O or static data.
