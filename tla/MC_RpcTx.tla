------------------------------- MODULE MC_RpcTx -------------------------------
EXTENDS RpcTx

CONSTANTS p1, bad

\* A create-and-send of a normal transaction, a later send of the same
\* transaction (a client's retry), a create-and-send of a custom-token and
\* of a DCB proposal transaction, and create calls with good and bad
\* parameters.
MCCalls ==
    [r1 |-> [handler |-> "createAndSend", kind |-> "tx", p |-> p1],
     r2 |-> [handler |-> "send", kind |-> "tx",
             raw |-> Encode("b58", Tx("tx", p1))],
     r3 |-> [handler |-> "createAndSend", kind |-> "token", p |-> p1],
     r4 |-> [handler |-> "createAndSend", kind |-> "dcb", p |-> bad],
     r5 |-> [handler |-> "send", kind |-> "gov", raw |-> Garbage]]

=============================================================================
