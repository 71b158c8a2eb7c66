------------------------------ MODULE MC_LoanDB ------------------------------
(* Constants of LoanDB for TLC: one loan with two competing request      *)
(* transactions and a response.                                          *)
EXTENDS LoanDB

CONSTANTS l1, h1, h2, h3, missing

MCCalls == {<<"req", l1, h1>>, <<"req", l1, h2>>, <<"res", l1, h3>>}

\* <<principle, interest, deadline>>: the initial state and a later one.
MCPayments == {<<100, 0, 10>>, <<100, 5, 20>>}
=============================================================================
