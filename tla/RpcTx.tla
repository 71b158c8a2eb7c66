-------------------------------- MODULE RpcTx --------------------------------
(***************************************************************************)
(* The JSON-RPC handlers that create and submit transactions,              *)
(* src/rpcserver/rpcfunctiontx.go and rpcfuntionsubmitproposal.go: for a   *)
(* normal, staking, custom-token, privacy-custom-token and DCB or GOV      *)
(* proposal transaction, a create handler builds it and returns it         *)
(* encoded, a send handler decodes raw data, hands the transaction to the  *)
(* mempool and broadcasts it, and a create-and-send handler does both.     *)
(*                                                                         *)
(* Requests run concurrently, one goroutine each.  The mempool is shared   *)
(* between them; a send takes two steps, the accept into the mempool and   *)
(* the broadcast, and other requests may run in between.  The transaction  *)
(* builders, TxMemPool and Server.PushMessageToAll are not in src/: a       *)
(* build fails exactly for the bad parameters, MaybeAcceptTransaction      *)
(* refuses a transaction already in the pool, and a broadcast may fail.    *)
(* A transaction is identified by its kind and parameters, so its hash is  *)
(* itself; encoding records the codec, and decoding under another codec,  *)
(* or of data no create produced, fails.                                   *)
(***************************************************************************)
EXTENDS Naturals, FiniteSets

CONSTANTS
    Params,     \* parameters a build accepts
    BadParams,  \* parameters a build rejects
    Garbage,    \* raw data that is no encoding of a transaction
    Calls       \* a function from request IDs to the call each one makes

Kinds == {"tx", "staking", "token", "ptoken", "dcb", "gov"}

Reqs == DOMAIN Calls

VARIABLES
    pool,   \* TxMemPool: transactions accepted
    sent,   \* transactions pushed to all peers
    st,     \* per request: "new", "accepted" (between accept and push), "done"
    acc,    \* per request: whether its MaybeAcceptTransaction added its tx
    res     \* per request: the reply, None until done

vars == <<pool, sent, st, acc, res>>

\* Replies that carry no transaction.
Err == [err |-> "err"]
Panic == [err |-> "panic"]
None == [err |-> "none"]

Tx(k, p) == [kind |-> k, p |-> p]

\* base58.Base58Check{}.Encode and hex.EncodeToString of json.Marshal(tx).
Encode(codec, tx) == [codec |-> codec, tx |-> tx]

\* Base58Check decode or hex.DecodeString, then json.Unmarshal.
Decode(codec, d) ==
    IF d # Garbage /\ d.codec = codec THEN d.tx ELSE Err

-----------------------------------------------------------------------------
(* Create handlers: a build, then the encoding of its result.              *)

\* handleCreateRawTransaction, handleCreateRawCustomTokenTransaction,
\* handleCreateRawPrivacyCustomTokenTransaction: a failed build is an
\* ErrCreateTxData error, a built one is returned Base58Check encoded.
CreateB58(k, p) ==
    IF p \in BadParams THEN Err
    ELSE [id |-> Tx(k, p), data |-> Encode("b58", Tx(k, p))]

handleCreateRawTransaction(p) == CreateB58("tx", p)

handleCreateRawCustomTokenTransaction(p) == CreateB58("token", p)

handleCreateRawPrivacyCustomTokenTransaction(p) == CreateB58("ptoken", p)

\* handleCreateRawStakingTransaction: fewer than five params or a staking
\* type that is not a number is ErrRPCInvalidParams, both among BadParams.
handleCreateRawStakingTransaction(p) == CreateB58("staking", p)

\* buildRawSubmitDCBProposalTransaction / GOV: the metadata is set on the
\* built tx before err is looked at; a failed build returns no tx, and
\* tx.Metadata dereferences nil.
BuildProposal(k, p) == IF p \in BadParams THEN Panic ELSE Tx(k, p)

buildRawSubmitDCBProposalTransaction(p) == BuildProposal("dcb", p)

buildRawSubmitGOVProposalTransaction(p) == BuildProposal("gov", p)

\* handleCreateRawSubmitDCBProposalTransaction / GOV: hex encoded.
CreateHex(tx) ==
    IF tx = Panic THEN Panic ELSE [id |-> tx, data |-> Encode("hex", tx)]

handleCreateRawSubmitDCBProposalTransaction(p) ==
    CreateHex(buildRawSubmitDCBProposalTransaction(p))

handleCreateRawSubmitGOVProposalTransaction(p) ==
    CreateHex(buildRawSubmitGOVProposalTransaction(p))

CreateRaw(k, p) ==
    CASE k = "tx"      -> handleCreateRawTransaction(p)
      [] k = "staking" -> handleCreateRawStakingTransaction(p)
      [] k = "token"   -> handleCreateRawCustomTokenTransaction(p)
      [] k = "ptoken"  -> handleCreateRawPrivacyCustomTokenTransaction(p)
      [] k = "dcb"     -> handleCreateRawSubmitDCBProposalTransaction(p)
      [] k = "gov"     -> handleCreateRawSubmitGOVProposalTransaction(p)

-----------------------------------------------------------------------------
(* Send handlers, by the codec they decode and whether they return the     *)
(* error of PushMessageToAll; the others drop it and return the hash.     *)
(* wire.MakeEmptyMessage cannot fail for the commands they pass.          *)

handleSendRawTransaction == [codec |-> "b58", pushErr |-> TRUE]

handleSendRawCustomTokenTransaction == [codec |-> "b58", pushErr |-> FALSE]

handleSendRawPrivacyCustomTokenTransaction == [codec |-> "b58", pushErr |-> FALSE]

handleSendRawSubmitDCBProposalTransaction == [codec |-> "hex", pushErr |-> FALSE]

handleSendRawSubmitGOVProposalTransaction == [codec |-> "hex", pushErr |-> FALSE]

\* The send handler of each kind; staking transactions go through
\* handleSendRawTransaction.
SendOf(k) ==
    CASE k \in {"tx", "staking"} -> handleSendRawTransaction
      [] k = "token"  -> handleSendRawCustomTokenTransaction
      [] k = "ptoken" -> handleSendRawPrivacyCustomTokenTransaction
      [] k = "dcb"    -> handleSendRawSubmitDCBProposalTransaction
      [] k = "gov"    -> handleSendRawSubmitGOVProposalTransaction

\* A create-and-send: the create's error ends it, else its encoded data is
\* what the send decodes.
CreateThenSend(cr, send) ==
    IF cr \in {Err, Panic} THEN cr ELSE Decode(send.codec, cr.data)

handleCreateAndSendTx(p) ==
    CreateThenSend(handleCreateRawTransaction(p), handleSendRawTransaction)

handleCreateAndSendStakingTx(p) ==
    CreateThenSend(handleCreateRawStakingTransaction(p), handleSendRawTransaction)

handleCreateAndSendCustomTokenTransaction(p) ==
    CreateThenSend(handleCreateRawCustomTokenTransaction(p),
                   handleSendRawCustomTokenTransaction)

handleCreateAndSendPrivacyCustomTokenTransaction(p) ==
    CreateThenSend(handleCreateRawPrivacyCustomTokenTransaction(p),
                   handleSendRawPrivacyCustomTokenTransaction)

handleCreateAndSendSubmitDCBProposalTransaction(p) ==
    CreateThenSend(handleCreateRawSubmitDCBProposalTransaction(p),
                   handleSendRawSubmitDCBProposalTransaction)

handleCreateAndSendSubmitGOVProposalTransaction(p) ==
    CreateThenSend(handleCreateRawSubmitGOVProposalTransaction(p),
                   handleSendRawSubmitGOVProposalTransaction)

\* The transaction a request hands to the mempool, or the error or panic
\* that ends it first.
ToAccept(c) ==
    IF c.handler = "send" THEN Decode(SendOf(c.kind).codec, c.raw)
    ELSE CASE c.kind = "tx"      -> handleCreateAndSendTx(c.p)
           [] c.kind = "staking" -> handleCreateAndSendStakingTx(c.p)
           [] c.kind = "token"   -> handleCreateAndSendCustomTokenTransaction(c.p)
           [] c.kind = "ptoken"  -> handleCreateAndSendPrivacyCustomTokenTransaction(c.p)
           [] c.kind = "dcb"     -> handleCreateAndSendSubmitDCBProposalTransaction(c.p)
           [] c.kind = "gov"     -> handleCreateAndSendSubmitGOVProposalTransaction(c.p)

\* TxMemPool.MaybeAcceptTransaction.
MaybeAcceptTransaction(tx) == tx \notin pool

-----------------------------------------------------------------------------

Init ==
    /\ pool = {}
    /\ sent = {}
    /\ st = [r \in Reqs |-> "new"]
    /\ acc = [r \in Reqs |-> FALSE]
    /\ res = [r \in Reqs |-> None]

Finish(r, reply) ==
    /\ st' = [st EXCEPT ![r] = "done"]
    /\ res' = [res EXCEPT ![r] = reply]

\* A create handler runs to its reply in one step: it touches no shared
\* state.
Create(r) ==
    /\ st[r] = "new"
    /\ Calls[r].handler = "create"
    /\ Finish(r, CreateRaw(Calls[r].kind, Calls[r].p))
    /\ UNCHANGED <<pool, sent, acc>>

\* A send, or the send of a create-and-send, up to MaybeAcceptTransaction:
\* a failed create, a failed decode or a refused tx ends the request.
Accept(r) ==
    LET c == Calls[r]
        tx == ToAccept(c)
    IN /\ st[r] = "new"
       /\ c.handler \in {"send", "createAndSend"}
       /\ IF tx \in {Err, Panic} \/ ~MaybeAcceptTransaction(tx)
          THEN /\ Finish(r, IF tx = Panic THEN Panic ELSE Err)
               /\ UNCHANGED <<pool, acc>>
          ELSE /\ pool' = pool \cup {tx}
               /\ acc' = [acc EXCEPT ![r] = TRUE]
               /\ st' = [st EXCEPT ![r] = "accepted"]
               /\ UNCHANGED res
       /\ UNCHANGED sent

\* wire.MakeEmptyMessage and PushMessageToAll, then the reply.
Push(r) ==
    LET c == Calls[r]
        tx == ToAccept(c)
    IN /\ st[r] = "accepted"
       /\ \/ /\ sent' = sent \cup {tx}
             /\ Finish(r, [id |-> tx])
          \/ /\ UNCHANGED sent
             /\ Finish(r, IF SendOf(c.kind).pushErr THEN Err ELSE [id |-> tx])
       /\ UNCHANGED <<pool, acc>>

Done ==
    /\ \A r \in Reqs : st[r] = "done"
    /\ UNCHANGED vars

Next ==
    \/ \E r \in Reqs : Create(r) \/ Accept(r) \/ Push(r)
    \/ Done

Spec == Init /\ [][Next]_vars

-----------------------------------------------------------------------------

TypeOK ==
    /\ pool \subseteq {Tx(k, p) : k \in Kinds, p \in Params}
    /\ sent \subseteq pool
    /\ st \in [Reqs -> {"new", "accepted", "done"}]
    /\ acc \in [Reqs -> BOOLEAN]

\* A send answers with the transaction's ID or with an error ("Result--a
\* TXID or error Message", rpcfunctiontx.go:123): a request told that its
\* send failed did not put its transaction into the mempool, so the client
\* may retry it.
ErrorMeansNotAccepted ==
    \A r \in Reqs : res[r] = Err => ~acc[r]

=============================================================================
