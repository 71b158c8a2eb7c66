---------------------------- MODULE BFTProtocol ----------------------------
(***************************************************************************)
(* The per-height BFT round of src/consensus/constantpos/bft.go, run by    *)
(* every member of one committee.  Each member executes                    *)
(* BFTProtocol.Start: propose (proposer) or listen (others), then prepare  *)
(* (reveal Ri, combine R, sign) and commit (collect partial signatures,    *)
(* aggregate).                                                             *)
(*                                                                         *)
(* Every phase waits in a select on cBFTMsg and cTimeout.  cTimeout is a   *)
(* fresh channel per phase, closed by the phase's time.AfterFunc callback  *)
(* (Timeout) or by the main loop once a quorum is seen (tclosed).  The     *)
(* goroutine races of those callbacks are the subject of BFTTimer; here a  *)
(* phase's timeout is a single step that may happen at any time while the *)
(* phase waits.                                                            *)
(*                                                                         *)
(* Messages are broadcast into the pool msgs.  The network may deliver a   *)
(* message to a member in any order, never, or (up to MaxDup times per     *)
(* member) more than once; a message read in a phase that does not handle  *)
(* its type is consumed and dropped, as the select loops do.               *)
(***************************************************************************)
EXTENDS Naturals, FiniteSets, Bags, BagsExt, Functions

CONSTANTS
    Node,             \* RoleData.Committee
    Proposer,         \* the member started with isProposer = TRUE
    ProposeShortcut,  \* TRUE: the "//single-node" returns of bft.go:74-103
    MaxDup,           \* duplicate deliveries the network may make per member
    Forged,           \* messages injected by a non-member (bad signatures)
    Readies           \* Ready messages the other members have sent

ASSUME Proposer \in Node /\ ProposeShortcut \in BOOLEAN /\ MaxDup \in Nat

N == Cardinality(Node)

\* bft.go:121,134 readyMsgCount >= (2*len(Committee)/3)-1
ReadyQuorum == (2 * N) \div 3 - 1
\* bft.go:348 len(phaseData.Sigs[R]) >= (2 * len(Committee) / 3)
CommitEarlyQuorum == (2 * N) \div 3
\* bft.go:240,290 len(Committee) >> 1
Half == N \div 2

\* Blocks a Propose message may carry.  "blk" is the proposer's block;
\* "forged" fails ValidateDataB58 (producer signature); "invalid" is
\* signed but fails VerifyPreSign{Beacon,Shard}Block.
Blocks == {"blk", "forged", "invalid"}
ProducerSigOK(b) == b # "forged"
PreSignValid(b) == b = "blk"

\* MessageBFTReady carries the best-state hash its sender saw.
StateHashes == {"best", "stale"}

Msgs ==
       [type : {"propose"}, from : Node, blk : Blocks]
  \cup [type : {"ready"}, from : Node, hash : StateHashes]
  \cup [type : {"prepare"}, from : Node, blk : Blocks]
  \cup [type : {"commit"}, from : Node, r : SUBSET Node, blk : Blocks,
        valid : BOOLEAN]

Phases == {"start", "propose", "listen", "prepare", "commit", "done", "failed"}

Outcomes == {"none", "block", "buildErr", "notEnoughReady", "listenTimeout",
             "notEnoughRi", "notEnoughSigs", "invalidSig"}

\* A block returned by Start: the header hash with the consensus fields
\* R (= ValidatorsIdx[0]) and the aggregated signers (ValidatorsIdx[1]);
\* aggR is the R under which CombineSigs aggregated the signatures.
NoResult == [blk |-> "none", r |-> {}, aggR |-> {}, signers |-> EmptyBag]

VARIABLES
    phase,       \* protocol.phase, plus start/done/failed
    outcome,     \* what Start returned
    result,      \* the block Start returned
    dataToSig,   \* multiSigScheme.dataToSig (pending block's hash)
    readyCount,  \* readyMsgCount of the propose phase
    riList,      \* collectedRiList keys of the prepare phase
    combineR,    \* multiSigScheme.combine.R after SignData
    sigs,        \* phaseData.Sigs as a bag of [r, from] entries
    tclosed,     \* the current phase's cTimeout is closed
    delayed,     \* pending 1500ms AfterFunc sends: "prepare", "commit"
    msgs,        \* every message ever broadcast
    recvd,       \* messages each member has read from cBFTMsg
    dups         \* duplicate deliveries used per member

roundVars == <<phase, outcome, result, dataToSig, readyCount, riList, combineR, sigs>>
netVars == <<msgs, recvd, dups>>
vars == <<roundVars, tclosed, delayed, netVars>>

TypeOK ==
    /\ phase \in [Node -> Phases]
    /\ outcome \in [Node -> Outcomes]
    /\ dataToSig \in [Node -> Blocks \cup {"none"}]
    /\ readyCount \in [Node -> Nat]
    /\ riList \in [Node -> SUBSET Node]
    /\ combineR \in [Node -> SUBSET Node]
    /\ \A n \in Node : IsABag(sigs[n]) /\ BagToSet(sigs[n]) \subseteq [r : SUBSET Node, from : Node]
    /\ \A n \in Node : result[n] = NoResult \/ result[n].blk \in Blocks
    /\ tclosed \in [Node -> BOOLEAN]
    /\ delayed \in [Node -> SUBSET {"prepare", "commit"}]
    /\ msgs \subseteq Msgs
    /\ recvd \in [Node -> SUBSET Msgs] /\ dups \in [Node -> Nat]

Init ==
    /\ phase = [n \in Node |-> "start"]
    /\ outcome = [n \in Node |-> "none"]
    /\ result = [n \in Node |-> NoResult]
    /\ dataToSig = [n \in Node |-> "none"]
    /\ readyCount = [n \in Node |-> 0]
    /\ riList = [n \in Node |-> {}]
    /\ combineR = [n \in Node |-> {}]
    /\ sigs = [n \in Node |-> EmptyBag]
    /\ tclosed = [n \in Node |-> FALSE]
    /\ delayed = [n \in Node |-> {}]
    /\ msgs = Forged \cup Readies
    /\ recvd = [n \in Node |-> {}]
    /\ dups = [n \in Node |-> 0]

-----------------------------------------------------------------------------
(* Helpers                                                                 *)

\* The phase whose select loop handles messages of type t.  A message read
\* by any other phase is dropped by that loop, which leaves the round as if
\* the network had never delivered it; such reads are therefore not
\* represented (they would only add states that differ in recvd).
HandledIn(t) ==
    CASE t = "ready"   -> "propose"
      [] t = "propose" -> "listen"
      [] t = "prepare" -> "prepare"
      [] t = "commit"  -> "commit"

\* cBFTMsg can yield message m to member n now: a first delivery, or a
\* duplicate while the network's duplication budget lasts.
Deliverable(n, m) ==
    /\ m \in msgs
    /\ m.from # n
    /\ phase[n] = HandledIn(m.type)
    /\ m \in recvd[n] => dups[n] < MaxDup

\* The read of m, when the phase goes on waiting afterwards.
Consume(n, m) ==
    /\ recvd' = [recvd EXCEPT ![n] = @ \cup {m}]
    /\ dups' = [dups EXCEPT ![n] = @ + (IF m \in recvd[n] THEN 1 ELSE 0)]

\* The read of m, when the phase ends with it.
ConsumeLast(n, m) ==
    dups' = [dups EXCEPT ![n] = @ + (IF m \in recvd[n] THEN 1 ELSE 0)]

\* Leaving a phase: the locals of the case block (readyMsgCount,
\* collectedRiList, phaseData) go out of scope and the for loop makes a
\* fresh cTimeout; rc, ri and sg are the locals the next phase starts with.
\* recvd restarts empty, since no later phase reads the earlier types.
Locals(n, rc, ri, sg) ==
    /\ readyCount' = [readyCount EXCEPT ![n] = rc]
    /\ riList' = [riList EXCEPT ![n] = ri]
    /\ sigs' = [sigs EXCEPT ![n] = sg]
    /\ recvd' = [recvd EXCEPT ![n] = {}]
    /\ tclosed' = [tclosed EXCEPT ![n] = FALSE]

\* Return from Start with an error.
Fail(n, why) ==
    /\ phase' = [phase EXCEPT ![n] = "failed"]
    /\ outcome' = [outcome EXCEPT ![n] = why]
    /\ Locals(n, 0, {}, EmptyBag)

\* The quorum path: stop the phase timer and close cTimeout unless it is
\* closed already (bft.go:122-129 and 349-356).
QuorumClose(n) == tclosed' = [tclosed EXCEPT ![n] = TRUE]

\* Entry of the prepare phase (bft.go:204-226): new cTimeout, prepare timer
\* armed, own Ri broadcast scheduled, collectedRiList = {own Ri}.
EnterPrepare(n) ==
    /\ phase' = [phase EXCEPT ![n] = "prepare"]
    /\ delayed' = [delayed EXCEPT ![n] = @ \cup {"prepare"}]
    /\ Locals(n, 0, {n}, EmptyBag)

\* Number of collected signatures under randomness r.
GroupSize(B, r) == BagCardinality(RestrictDomain(B, LAMBDA e : e.r = r))

\* Signers of the signatures collected under randomness r, as a bag.
GroupSigners(B, r) ==
    [s \in {e.from : e \in {x \in DOMAIN B : x.r = r}} |-> B[[r |-> r, from |-> s]]]

-----------------------------------------------------------------------------
(* Start and the propose / listen phases                                   *)

\* Start (bft.go:44-64) and the first iteration's phase entry: the
\* proposer arms its timer and builds a block (bft.go:65-103); the others
\* arm the listen timer (bft.go:150-155).
Start(n) ==
    /\ phase[n] = "start"
    /\ IF n = Proposer
       THEN \/ /\ Fail(n, "buildErr")
               /\ UNCHANGED <<result, dataToSig>>
            \/ /\ dataToSig' = [dataToSig EXCEPT ![n] = "blk"]
               /\ IF ProposeShortcut
                  THEN /\ phase' = [phase EXCEPT ![n] = "done"]
                       /\ outcome' = [outcome EXCEPT ![n] = "block"]
                       /\ result' = [result EXCEPT ![n] = [NoResult EXCEPT !.blk = "blk"]]
                  ELSE /\ phase' = [phase EXCEPT ![n] = "propose"]
                       /\ UNCHANGED <<outcome, result>>
               /\ UNCHANGED <<readyCount, riList, sigs, recvd, tclosed>>
       ELSE /\ phase' = [phase EXCEPT ![n] = "listen"]
            /\ UNCHANGED <<outcome, result, dataToSig, readyCount, riList, sigs, recvd, tclosed>>
    /\ UNCHANGED <<combineR, delayed, msgs, dups>>

\* A Ready read in the propose phase (bft.go:111-132): one for the local
\* best state is counted, and at the quorum the wait is cut short.
RecvReady(n) ==
    /\ \E m \in msgs :
        /\ Deliverable(n, m)
        /\ m.type = "ready"
        /\ Consume(n, m)
        /\ IF m.hash = "best"
           THEN /\ readyCount' = [readyCount EXCEPT ![n] = @ + 1]
                /\ IF readyCount'[n] >= ReadyQuorum
                   THEN QuorumClose(n)
                   ELSE UNCHANGED tclosed
           ELSE UNCHANGED <<readyCount, tclosed>>
    /\ UNCHANGED <<phase, outcome, result, dataToSig, riList, combineR, sigs,
                   delayed, msgs>>

\* cTimeout in the propose phase (bft.go:133-148): broadcast the block and
\* go to prepare, or fail.
ProposeTimeout(n) ==
    /\ phase[n] = "propose"
    /\ tclosed[n]
    /\ IF readyCount[n] >= ReadyQuorum
       THEN /\ msgs' = msgs \cup {[type |-> "propose", from |-> n, blk |-> dataToSig[n]]}
            /\ EnterPrepare(n)
            /\ UNCHANGED outcome
       ELSE /\ Fail(n, "notEnoughReady")
            /\ UNCHANGED <<msgs, delayed>>
    /\ UNCHANGED <<result, dataToSig, combineR, dups>>

\* Mutation: the ValidateDataB58 check of the producer signature is lost.
RecvProposeNoProducerSig(n) ==
    /\ \E m \in msgs :
        /\ Deliverable(n, m)
        /\ m.type = "propose"
        /\ IF PreSignValid(m.blk) \/ m.blk = "forged"
           THEN /\ dataToSig' = [dataToSig EXCEPT ![n] = m.blk]
                /\ EnterPrepare(n)
                /\ ConsumeLast(n, m)
           ELSE /\ Consume(n, m)
                /\ UNCHANGED <<dataToSig, phase, delayed, readyCount, riList, sigs, tclosed>>
    /\ UNCHANGED <<outcome, result, combineR, msgs>>

\* A Propose read in the listen phase (bft.go:159-199).  One whose
\* producer signature and pre-sign validation pass becomes the pending
\* block; the listen timer is stopped and prepare begins.
RecvPropose(n) ==
    /\ \E m \in msgs :
        /\ Deliverable(n, m)
        /\ m.type = "propose"
        /\ IF ProducerSigOK(m.blk) /\ PreSignValid(m.blk)
           THEN /\ dataToSig' = [dataToSig EXCEPT ![n] = m.blk]
                /\ EnterPrepare(n)
                /\ ConsumeLast(n, m)
           ELSE /\ Consume(n, m)
                /\ UNCHANGED <<dataToSig, phase, delayed, readyCount, riList, sigs, tclosed>>
    /\ UNCHANGED <<outcome, result, combineR, msgs>>

\* cTimeout in the listen phase (bft.go:200-201).
ListenTimeout(n) ==
    /\ phase[n] = "listen"
    /\ tclosed[n]
    /\ Fail(n, "listenTimeout")
    /\ UNCHANGED <<result, dataToSig, combineR, delayed, msgs, dups>>

-----------------------------------------------------------------------------
(* Prepare and commit phases                                               *)

\* A Prepare read in the prepare phase (bft.go:230-236): the Ri of a
\* committee member revealed for our block is recorded (keyed by member).
RecvPrepare(n) ==
    /\ \E m \in msgs :
        /\ Deliverable(n, m)
        /\ m.type = "prepare"
        /\ Consume(n, m)
        /\ IF m.from \in Node /\ m.blk = dataToSig[n]
           THEN riList' = [riList EXCEPT ![n] = @ \cup {m.from}]
           ELSE UNCHANGED riList
    /\ UNCHANGED <<phase, outcome, result, dataToSig, readyCount, combineR, sigs,
                   tclosed, delayed, msgs>>

\* cTimeout in the prepare phase (bft.go:237-250): with enough Ri, SignData
\* combines them into R and signs; then the commit phase is entered
\* (bft.go:252-281): new cTimeout, cmTimeout armed, the delayed commit
\* broadcast scheduled, and the own signature stored under R.
PrepareTimeout(n) ==
    /\ phase[n] = "prepare"
    /\ tclosed[n]
    /\ IF Cardinality(riList[n]) < Half
       THEN /\ Fail(n, "notEnoughRi")
            /\ UNCHANGED <<combineR, delayed>>
       ELSE /\ combineR' = [combineR EXCEPT ![n] = riList[n]]
            /\ phase' = [phase EXCEPT ![n] = "commit"]
            /\ delayed' = [delayed EXCEPT ![n] = @ \cup {"commit"}]
            /\ Locals(n, 0, {}, SetToBag({[r |-> riList[n], from |-> n]}))
            /\ UNCHANGED outcome
    /\ UNCHANGED <<result, dataToSig, msgs, dups>>

\* multiSigScheme.VerifyCommitSig (not under src/): the partial signature
\* must verify for the claimed signer under R over our dataToSig.
VerifyCommitSig(n, m) == m.valid /\ m.blk = dataToSig[n]

\* Mutation: the signature is recorded without its Pubkey.
RecvCommitNoPubkey(n) ==
    /\ \E m \in msgs :
        /\ Deliverable(n, m)
        /\ m.type = "commit"
        /\ IF ~VerifyCommitSig(n, m)
           THEN /\ Fail(n, "invalidSig")
                /\ ConsumeLast(n, m)
           ELSE /\ Consume(n, m)
                /\ sigs' = [sigs EXCEPT ![n] = BagAdd(@, [r |-> m.r])]
                /\ IF GroupSize(sigs'[n], m.r) >= CommitEarlyQuorum
                   THEN QuorumClose(n)
                   ELSE UNCHANGED tclosed
                /\ UNCHANGED <<phase, outcome, readyCount, riList>>
    /\ UNCHANGED <<result, dataToSig, combineR, delayed, msgs>>

\* Mutation: the early exit fires one signature sooner.
RecvCommitEarlier(n) ==
    /\ \E m \in msgs :
        /\ Deliverable(n, m)
        /\ m.type = "commit"
        /\ IF ~VerifyCommitSig(n, m)
           THEN /\ Fail(n, "invalidSig")
                /\ ConsumeLast(n, m)
           ELSE /\ Consume(n, m)
                /\ sigs' = [sigs EXCEPT ![n] = BagAdd(@, [r |-> m.r, from |-> m.from])]
                /\ IF GroupSize(sigs'[n], m.r) >= CommitEarlyQuorum - 1
                   THEN QuorumClose(n)
                   ELSE UNCHANGED tclosed
                /\ UNCHANGED <<phase, outcome, readyCount, riList>>
    /\ UNCHANGED <<result, dataToSig, combineR, delayed, msgs>>

\* A Commit read in the commit phase (bft.go:334-358).  An invalid partial
\* signature aborts the round; a valid one is appended under its R and,
\* once that R has 2N/3 entries, the commit wait is cut short.
RecvCommit(n) ==
    /\ \E m \in msgs :
        /\ Deliverable(n, m)
        /\ m.type = "commit"
        /\ IF ~VerifyCommitSig(n, m)
           THEN /\ Fail(n, "invalidSig")
                /\ ConsumeLast(n, m)
           ELSE /\ Consume(n, m)
                /\ sigs' = [sigs EXCEPT ![n] = BagAdd(@, [r |-> m.r, from |-> m.from])]
                /\ IF GroupSize(sigs'[n], m.r) >= CommitEarlyQuorum
                   THEN QuorumClose(n)
                   ELSE UNCHANGED tclosed
                /\ UNCHANGED <<phase, outcome, readyCount, riList>>
    /\ UNCHANGED <<result, dataToSig, combineR, delayed, msgs>>

\* Mutation: a group of exactly N/2 entries is taken as eligible.
CombinableAtHalf(n) ==
    LET eligible == {e.r : e \in {x \in DOMAIN sigs[n] : GroupSize(sigs[n], x.r) >= Half}}
    IN {r \in eligible : \A q \in eligible : GroupSize(sigs[n], q) <= GroupSize(sigs[n], r)}

\* The randomness values whose group may be combined (bft.go:289-299):
\* more than half the committee, and no other group strictly larger.  Go's
\* map iteration order decides between groups of equal size.
Combinable(n) ==
    LET eligible == {e.r : e \in {x \in DOMAIN sigs[n] : GroupSize(sigs[n], x.r) > Half}}
    IN {r \in eligible : \A q \in eligible : GroupSize(sigs[n], q) <= GroupSize(sigs[n], r)}

\* Mutation: the block is stamped with the member's own combine.R as the
\* aggregation randomness, whichever group was combined.
CommitTimeoutOwnR(n) ==
    /\ phase[n] = "commit"
    /\ tclosed[n]
    /\ IF Combinable(n) = {}
       THEN /\ Fail(n, "notEnoughSigs")
            /\ UNCHANGED result
       ELSE \E szR \in Combinable(n) :
            /\ phase' = [phase EXCEPT ![n] = "done"]
            /\ outcome' = [outcome EXCEPT ![n] = "block"]
            /\ result' = [result EXCEPT ![n] =
                            [blk |-> dataToSig[n], r |-> combineR[n], aggR |-> combineR[n],
                             signers |-> GroupSigners(sigs[n], szR)]]
            /\ Locals(n, 0, {}, EmptyBag)
    /\ UNCHANGED <<dataToSig, combineR, delayed, msgs, dups>>

\* cTimeout in the commit phase (bft.go:285-333): CombineSigs on the chosen
\* group, then R, AggregatedSig and ValidatorsIdx are written into the
\* pending block.  R and ValidatorsIdx[0] come from the member's own
\* multiSigScheme.combine, ValidatorsIdx[1] from the combined group.
CommitTimeout(n) ==
    /\ phase[n] = "commit"
    /\ tclosed[n]
    /\ IF Combinable(n) = {}
       THEN /\ Fail(n, "notEnoughSigs")
            /\ UNCHANGED result
       ELSE \E szR \in Combinable(n) :
            /\ phase' = [phase EXCEPT ![n] = "done"]
            /\ outcome' = [outcome EXCEPT ![n] = "block"]
            /\ result' = [result EXCEPT ![n] =
                            [blk |-> dataToSig[n], r |-> combineR[n], aggR |-> szR,
                             signers |-> GroupSigners(sigs[n], szR)]]
            /\ Locals(n, 0, {}, EmptyBag)
    /\ UNCHANGED <<dataToSig, combineR, delayed, msgs, dups>>

-----------------------------------------------------------------------------
(* Timers and the delayed broadcasts                                       *)

\* The waiting phase's AfterFunc timer expires and its callback closes
\* cTimeout (bft.go:66-69, 152-155, 206-209, 254-257).
Timeout(n) ==
    /\ phase[n] \in {"propose", "listen", "prepare", "commit"}
    /\ ~tclosed[n]
    /\ tclosed' = [tclosed EXCEPT ![n] = TRUE]
    /\ UNCHANGED <<roundVars, delayed, netVars>>

\* The 1500ms AfterFunc of the prepare phase broadcasts this member's Ri
\* for dataToSig (bft.go:210-222).
SendPrepareMsg(n) ==
    /\ "prepare" \in delayed[n]
    /\ delayed' = [delayed EXCEPT ![n] = @ \ {"prepare"}]
    /\ msgs' = msgs \cup {[type |-> "prepare", from |-> n, blk |-> dataToSig[n]]}
    /\ UNCHANGED <<roundVars, tclosed, recvd, dups>>

\* The 1500ms AfterFunc of the commit phase broadcasts the partial
\* signature made by SignData under combine.R (bft.go:259-271).
SendCommitMsg(n) ==
    /\ "commit" \in delayed[n]
    /\ delayed' = [delayed EXCEPT ![n] = @ \ {"commit"}]
    /\ msgs' = msgs \cup {[type |-> "commit", from |-> n, r |-> combineR[n],
                           blk |-> dataToSig[n], valid |-> TRUE]}
    /\ UNCHANGED <<roundVars, tclosed, recvd, dups>>

Returned(n) == phase[n] \in {"done", "failed"}

\* Every round has returned and its delayed broadcasts have gone out.
Finished ==
    /\ \A n \in Node : Returned(n) /\ delayed[n] = {}
    /\ UNCHANGED vars

Next ==
    \/ \E n \in Node :
        \/ Start(n) \/ RecvReady(n) \/ ProposeTimeout(n)
        \/ RecvPropose(n) \/ ListenTimeout(n)
        \/ RecvPrepare(n) \/ PrepareTimeout(n)
        \/ RecvCommit(n) \/ CommitTimeout(n)
        \/ Timeout(n) \/ SendPrepareMsg(n) \/ SendCommitMsg(n)
    \/ Finished

\* The Go runtime fires expired timers and runs their callbacks, and a
\* select whose cTimeout is closed eventually takes that case.
Fairness ==
    \A n \in Node :
        /\ WF_vars(Start(n)) /\ WF_vars(Timeout(n))
        /\ WF_vars(SendPrepareMsg(n)) /\ WF_vars(SendCommitMsg(n))
        /\ WF_vars(ProposeTimeout(n)) /\ WF_vars(ListenTimeout(n))
        /\ WF_vars(PrepareTimeout(n)) /\ WF_vars(CommitTimeout(n))

Spec == Init /\ [][Next]_vars /\ Fairness

-----------------------------------------------------------------------------
(* Properties                                                              *)

\* Member s "signed" block b under randomness r: it ran SignData with R = r
\* while dataToSig was b, so its partial signature exists.
Signed(s, r, b) ==
    /\ phase[s] \in {"commit", "done", "failed"}
    /\ combineR[s] = r /\ r # {}
    /\ dataToSig[s] = b

\* Finality (spec 3, 8): a block returned by Start carries an aggregated
\* signature of more than half of the committee, every one of whom really
\* signed that block under the randomness the signatures were combined
\* with.  Bears on the combine choice (bft.go:289-304), VerifyCommitSig
\* (bft.go:343) and the early returns of the propose phase.
MajoritySigned ==
    \A n \in Node : result[n] # NoResult =>
        LET res == result[n] IN
        /\ Cardinality(BagToSet(res.signers)) > Half
        /\ \A s \in BagToSet(res.signers) : Signed(s, res.aggR, res.blk)

\* Authentication (spec 4.1): a member reveals Ri and partial signatures
\* only for the proposer's authentic, pre-validated block; forged or
\* invalid proposals read in the listen phase (bft.go:166-191) never
\* become the block anyone signs.
OnlyAuthenticSigned ==
    \A m \in msgs \ (Forged \cup Readies) : m.type \in {"prepare", "commit"} => m.blk = "blk"

\* The refinement mapping: a member has signed once SignData ran in
\* PrepareTimeout (it stays in combineR and dataToSig); a member has
\* decided once Start returned a block.  RoundNone is BFTRound's None.
RoundNone == [blk |-> "none"]

SignedBy ==
    [s \in Node |-> IF phase[s] \in {"commit", "done", "failed"} /\ combineR[s] # {}
                    THEN [blk |-> dataToSig[s], r |-> combineR[s]]
                    ELSE RoundNone]

Decided ==
    [n \in Node |-> IF result[n] = NoResult THEN RoundNone
                    ELSE [blk |-> result[n].blk, aggR |-> result[n].aggR,
                          signers |-> BagToSet(result[n].signers)]]

\* BFTRound under the refinement mapping SignedBy, Decided below.
Round == INSTANCE BFTRound WITH Authentic <- "blk", signedBy <- SignedBy, decided <- Decided

\* Refinement: every behaviour of the round as coded (the phases of
\* bft.go:44-360, lost, reordered and forged messages, timers) is a
\* behaviour of BFTRound: each member's partial signature is made once,
\* for the authentic block, and never changes; a block Start returns
\* (bft.go:306-320) aggregates signatures of a majority that signed it
\* under the R recorded as aggregated, and is never withdrawn.
RoundRefinement == Round!Spec

=============================================================================
