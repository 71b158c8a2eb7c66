---------------------------- MODULE MC_SealedVotes ----------------------------
(* Constants of SealedVotes for TLC: a board of three, one outsider.      *)
EXTENDS SealedVotes

CONSTANTS b1, b2, b3, o, v, junk

MCBoard == {b1, b2, b3}
MCAddr == {b1, b2, b3, o}

\* The lists a client builds (three board lockers), a reordering, one with
\* an outsider last, and a short one.
MCLockerLists == {<<b1, b2, b3>>, <<b3, b2, b1>>, <<b1, b2, o>>, <<b1, b2>>}

MCVotes == {v}
=============================================================================
