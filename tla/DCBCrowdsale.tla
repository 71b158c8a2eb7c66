----------------------------- MODULE DCBCrowdsale -----------------------------
(***************************************************************************)
(* The responses the DCB gives to crowdsale requests,                      *)
(* src/transaction/txcrowdsale.go.  BuildResponseForBond answers a buyer   *)
(* who paid Constant to the DCB: it computes the bonds bought, spends a   *)
(* prefix of the DCB's unspent bond outputs, pays the bonds and the       *)
(* change, and hands the unspent outputs it did not touch back to its     *)
(* caller.  BuildResponseForCoin answers a seller who sent bonds to the   *)
(* DCB: it mints their value in Constant.                                 *)
(*                                                                         *)
(* A request is abstracted to the parts these functions read: the notes   *)
(* of its Constant transfer (receiver and value), its bond outputs, and   *)
(* the requester's payment address.  A public key is a model value.       *)
(* bondPrices is a map: a bond with no entry has price 0, and dividing by *)
(* it panics.  The sums stay far below 2^64 within the bounds, so uint64  *)
(* arithmetic is plain arithmetic here.                                    *)
(* The single variable is the input: a request, the bond asked for and   *)
(* the DCB's unspent outputs.                                             *)
(***************************************************************************)
EXTENDS Naturals, Sequences, SequencesExt

CONSTANTS
    DCB,          \* dcbAddress
    Buyers,       \* payment addresses of requesters
    NoPk,         \* the zero privacy.PublicKey{}
    BondPrices,   \* bondPrices: a function from bond IDs to prices
    BondIDs,      \* bond IDs a request may name (some without a price)
    Values,       \* note and output values
    MaxNotes,     \* notes per request
    MaxOuts       \* unspent outputs of the DCB

Price(id) == IF id \in DOMAIN BondPrices THEN BondPrices[id] ELSE 0

\* The sum of the values of a sequence of notes or outputs.
SumValues(s) == FoldLeft(LAMBDA acc, x : acc + x.value, 0, s)

-----------------------------------------------------------------------------

\* Mutation: usedID is counted after the break test.
RECURSIVE UseOutsLateCount(_, _, _, _)
UseOutsLateCount(outs, bonds, usedID, sum) ==
    IF usedID = Len(outs) THEN [usedID |-> usedID, sum |-> sum]
    ELSE LET s == sum + outs[usedID + 1].value
         IN IF s >= bonds THEN [usedID |-> usedID, sum |-> s]
            ELSE UseOutsLateCount(outs, bonds, usedID + 1, s)

\* The prefix loop of BuildResponseForBond (txcrowdsale.go:60-67): count
\* and sum unspent outputs until the sum reaches bonds.
RECURSIVE UseOuts(_, _, _, _)
UseOuts(outs, bonds, usedID, sum) ==
    IF usedID = Len(outs) THEN [usedID |-> usedID, sum |-> sum]
    ELSE LET s == sum + outs[usedID + 1].value
         IN IF s >= bonds THEN [usedID |-> usedID + 1, sum |-> s]
            ELSE UseOuts(outs, bonds, usedID + 1, s)

\* BuildResponseForBond (txcrowdsale.go:47-116).
BuildResponseForBond(req, bondID, unspent) ==
    LET toDCB == SelectSeq(req.notes, LAMBDA n : n.apk = DCB)
        value == SumValues(toDCB)
        userPk == IF toDCB = <<>> THEN NoPk ELSE toDCB[Len(toDCB)].apk
    IN IF Price(bondID) = 0 THEN [ok |-> FALSE, panic |-> TRUE]
       ELSE
         LET bonds == value \div Price(bondID)
             u == UseOuts(unspent, bonds, 0, 0)
         IN IF u.sum < bonds
            THEN [ok |-> FALSE, panic |-> FALSE, remaining |-> unspent]
            ELSE [ok |-> TRUE, panic |-> FALSE,
                  vins |-> SubSeq(unspent, 1, u.usedID),
                  vouts |-> <<[pk |-> userPk, value |-> bonds]>>
                            \o (IF u.sum > bonds
                                THEN <<[pk |-> DCB, value |-> u.sum - bonds]>>
                                ELSE <<>>),
                  remaining |-> SubSeq(unspent, u.usedID + 1, Len(unspent))]

\* BuildResponseForCoin (txcrowdsale.go:17-45): the bonds the requester
\* sent to the DCB, minted back as bonds * price Constant to the requester.
BuildResponseForCoin(req, bondID) ==
    LET bonds == SumValues(SelectSeq(req.vouts, LAMBDA o : o.pk = DCB))
    IN [to |-> req.pk, amounts |-> <<bonds * Price(bondID), 0>>]

-----------------------------------------------------------------------------

Pks == {DCB} \cup Buyers

Notes == [apk : Pks, value : Values]

\* A bond purchase request of buyer b.
Requests == [pk : Buyers, notes : BoundedSeq(Notes, MaxNotes), vouts : {<<>>}]

Inputs == [kind : {"bond"}, req : Requests, bondID : BondIDs,
           unspent : BoundedSeq([pk : {DCB}, value : Values], MaxOuts)]

VARIABLE input

Init == input \in Inputs

Next == UNCHANGED input

Spec == Init /\ [][Next]_input

\* A bond sale moves bonds, never makes or loses them: the DCB outputs the
\* response spends are the first ones of its unspent list, the list handed
\* back is the rest, the response's outputs add up to what it spends, and
\* the buyer is paid the Constant value over the price; the sale is refused
\* only when the unspent outputs cannot cover it (txcrowdsale.go:57-116).
BondResponseBalanced ==
    input.kind = "bond" /\ Price(input.bondID) > 0 =>
        LET r == BuildResponseForBond(input.req, input.bondID, input.unspent)
            paid == SumValues(SelectSeq(input.req.notes, LAMBDA n : n.apk = DCB))
        IN IF r.ok
           THEN /\ r.vins \o r.remaining = input.unspent
                /\ SumValues(r.vins) = SumValues(r.vouts)
                /\ r.vouts[1].value = paid \div Price(input.bondID)
           ELSE /\ SumValues(input.unspent) < paid \div Price(input.bondID)
                /\ r.remaining = input.unspent

\* The bonds a sale pays go to the buyer who paid for them
\* (txcrowdsale.go:52-56, 91-95).
BondsToBuyer ==
    input.kind = "bond" /\ Price(input.bondID) > 0 =>
        LET r == BuildResponseForBond(input.req, input.bondID, input.unspent)
        IN r.ok => r.vouts[1].pk = input.req.pk

=============================================================================
