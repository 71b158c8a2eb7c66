------------------------------ MODULE MC_BFT ------------------------------
(* Model-checking instance of BFTProtocol.  Members are model values; p  *)
(* is the proposer.                                                       *)
EXTENDS BFTProtocol, TLC

CONSTANTS p, a, b

\* Committee of three.
MCNode == {p, a, b}

\* On the network from the start: a Propose with a bad producer
\* signature, one that fails pre-sign validation, and a commit with a
\* tampered partial signature claiming to come from b.
MCForged ==
    { [type |-> "propose", from |-> p, blk |-> "forged"],
      [type |-> "propose", from |-> p, blk |-> "invalid"],
      [type |-> "commit", from |-> b, r |-> {p, a}, blk |-> "blk", valid |-> FALSE] }

MCNoForged == {}

\* a saw the proposer's best state, b a stale one.
MCReadies ==
    { [type |-> "ready", from |-> a, hash |-> "best"],
      [type |-> "ready", from |-> b, hash |-> "stale"] }

=============================================================================
