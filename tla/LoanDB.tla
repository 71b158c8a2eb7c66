-------------------------------- MODULE LoanDB --------------------------------
(***************************************************************************)
(* The loan index kept in leveldb by src/database/lvdb/loan.go.  The      *)
(* header comment of that file describes three kinds of key: for a loan   *)
(* ID, the hash of its request and of its response transaction            *)
(* (loanID-ID-req, loanID-ID-res), and for a transaction hash the loan    *)
(* and side it belongs to (loanTx-txHash); a fourth key holds the loan's  *)
(* payment state.                                                          *)
(*                                                                         *)
(* StoreLoanRequest and StoreLoanResponse write two keys with two         *)
(* separate Puts, each preceded by a HasValue check; leveldb makes each   *)
(* Put atomic and durable, not the pair.  A store is therefore two steps, *)
(* and the process may crash between them; the database survives the     *)
(* crash.  A Put may fail (the Go code returns UnexpectedError).  The      *)
(* caller may invoke any store at any time, which covers the retry of a   *)
(* call that failed or was cut short by a crash.                           *)
(* Keys are tuples; IDs and hashes are model values, so two keys are      *)
(* equal only when their parts are (the byte concatenations of the code   *)
(* are unambiguous for the fixed-length hashes used as IDs).              *)
(***************************************************************************)
EXTENDS Naturals, FiniteSets

CONSTANTS
    LoanIDs,       \* loan IDs
    Calls,         \* <<postfix, loanID, txHash>>: the loan transactions a
                   \* block may carry ("req" or "res"), one per hash
    Payments,      \* <<principle, interest, deadline>> values to store
    Missing,       \* the value of an absent key
    PutMayFail,    \* TRUE: db.Put may return an error
    MayCrash       \* TRUE: the process may stop between two Puts

Postfixes == {"req", "res"}

\* A transaction hash belongs to one loan transaction.
ASSUME \A c, d \in Calls : c[1] \in Postfixes /\ c[2] \in LoanIDs /\ (c[3] = d[3] => c = d)

TxHashes == {c[3] : c \in Calls}

\* The keys of loan.go's scheme.
LoanKey(id, p) == <<"loanID", id, p>>      \* loanIDKeyPrefix + loanID + postfix
TxKey(h) == <<"loanTx", h>>                \* loanTxKeyPrefix + txHash
PaymentKey(id) == <<"loanPayment", id>>    \* loanPaymentKeyPrefix + loanID

Keys == {LoanKey(id, p) : id \in LoanIDs, p \in Postfixes}
        \cup {TxKey(h) : h \in TxHashes} \cup {PaymentKey(id) : id \in LoanIDs}

Values == TxHashes \cup (LoanIDs \X Postfixes) \cup Payments

VARIABLES
    db,     \* the key-value store
    pc,     \* Idle, or <<c>> for the store call c between its two Puts
    ret     \* the error the last call returned

vars == <<db, pc, ret>>

Idle == <<>>

Results == {"none", "nil", "KeyExisted", "UnexpectedError"}

TypeOK ==
    /\ db \in [Keys -> Values \cup {Missing}]
    /\ pc \in {Idle} \cup {<<c>> : c \in Calls}
    /\ ret \in Results

Init ==
    /\ db = [k \in Keys |-> Missing]
    /\ pc = Idle
    /\ ret = "none"

HasValue(k) == db[k] # Missing

-----------------------------------------------------------------------------
(* Operations                                                              *)

\* Mutation: the loan key is written without checking that it is absent.
StoreLoanKeyNoCheck(c) ==
    LET k == LoanKey(c[2], c[1]) IN
    /\ pc = Idle
    /\ \/ PutMayFail /\ ret' = "UnexpectedError" /\ UNCHANGED <<db, pc>>
       \/ db' = [db EXCEPT ![k] = c[3]] /\ pc' = <<c>> /\ UNCHANGED ret

\* First half of StoreLoanRequest / StoreLoanResponse (loan.go:27-36,
\* 50-57): return KeyExisted if loanID-ID-postfix is present, else Put the
\* transaction hash under it.
StoreLoanKey(c) ==
    LET k == LoanKey(c[2], c[1]) IN
    /\ pc = Idle
    /\ \/ HasValue(k) /\ ret' = "KeyExisted" /\ UNCHANGED <<db, pc>>
       \/ ~HasValue(k) /\ PutMayFail /\ ret' = "UnexpectedError" /\ UNCHANGED <<db, pc>>
       \/ ~HasValue(k) /\ db' = [db EXCEPT ![k] = c[3]] /\ pc' = <<c>> /\ UNCHANGED ret

\* Mutation: the index value is built as postfix + loanID.
StoreTxKeySwapped ==
    /\ pc # Idle
    /\ LET k == TxKey(pc[1][3]) IN
       /\ \/ HasValue(k) /\ ret' = "KeyExisted" /\ UNCHANGED db
          \/ ~HasValue(k) /\ PutMayFail /\ ret' = "UnexpectedError" /\ UNCHANGED db
          \/ ~HasValue(k) /\ db' = [db EXCEPT ![k] = <<pc[1][1], pc[1][2]>>] /\ ret' = "nil"
       /\ pc' = Idle

\* Second half (loan.go:38-46, 59-67): return KeyExisted if loanTx-txHash
\* is present, else Put the loan ID and postfix under it.
StoreTxKey ==
    /\ pc # Idle
    /\ LET k == TxKey(pc[1][3]) IN
       /\ \/ HasValue(k) /\ ret' = "KeyExisted" /\ UNCHANGED db
          \/ ~HasValue(k) /\ PutMayFail /\ ret' = "UnexpectedError" /\ UNCHANGED db
          \/ ~HasValue(k) /\ db' = [db EXCEPT ![k] = <<pc[1][2], pc[1][1]>>] /\ ret' = "nil"
       /\ pc' = Idle

\* StoreLoanPayment (loan.go:103-112): Put the payment state, overwriting.
StoreLoanPayment(id, pay) ==
    /\ pc = Idle
    /\ \/ PutMayFail /\ ret' = "UnexpectedError" /\ UNCHANGED db
       \/ db' = [db EXCEPT ![PaymentKey(id)] = pay] /\ ret' = "nil"
    /\ UNCHANGED pc

\* The process stops between the two Puts of a store and restarts; what
\* was Put stays.
Crash ==
    /\ MayCrash /\ pc # Idle
    /\ pc' = Idle /\ ret' = "none"
    /\ UNCHANGED db

Next ==
    \/ \E c \in Calls : StoreLoanKey(c)
    \/ StoreTxKey
    \/ \E id \in LoanIDs, pay \in Payments : StoreLoanPayment(id, pay)
    \/ Crash

Spec == Init /\ [][Next]_vars

-----------------------------------------------------------------------------
(* Reads                                                                   *)

\* GetLoanTxs (loan.go:70-92): the values of the loan's -req and -res keys.
GetLoanTxs(id) == {db[LoanKey(id, p)] : p \in {q \in Postfixes : HasValue(LoanKey(id, q))}}

-----------------------------------------------------------------------------
(* Properties                                                              *)

\* The transaction index never lies: if loanTx-h names a loan and side,
\* that loan's key for the side holds h, whatever crashes, failed Puts and
\* repeated or conflicting stores came before (the HasValue checks of
\* loan.go:30 and 52 keep a loan key from being overwritten).
TxIndexSound ==
    \A h \in TxHashes : HasValue(TxKey(h)) =>
        LET lp == db[TxKey(h)] IN db[LoanKey(lp[1], lp[2])] = h

\* The scheme of loan.go:12-25 holds between calls: every transaction
\* hash GetLoanTxs returns for a loan has its loanTx-txHash entry, naming
\* that loan.
LoanTxsIndexed ==
    pc = Idle =>
        \A id \in LoanIDs : \A h \in GetLoanTxs(id) :
            HasValue(TxKey(h)) /\ db[TxKey(h)][1] = id

=============================================================================
