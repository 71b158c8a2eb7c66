----------------------------- MODULE BFTRound -----------------------------
(***************************************************************************)
(* What one BFT round promises (spec 3, 4.1, 8), without phases, messages  *)
(* or timers.  A member signs at most once, only the proposer's authentic  *)
(* block, under some randomness R; a member returns a block only with the *)
(* signatures of more than half of the committee, all made for that block  *)
(* under one R.  A signature, once made, and a returned block stay.        *)
(* BFTProtocol implements this specification under the mapping in its      *)
(* Properties section.                                                     *)
(***************************************************************************)
EXTENDS Naturals, FiniteSets

CONSTANTS
    Node,       \* the committee
    Authentic   \* the proposer's block

VARIABLES
    signedBy,   \* per member: the block and R of its partial signature
    decided     \* per member: the block Start returned, and its signers

\* No signature, no returned block.
None == [blk |-> "none"]

Half == Cardinality(Node) \div 2

Init ==
    /\ signedBy = [n \in Node |-> None]
    /\ decided = [n \in Node |-> None]

\* Member s signs the authentic block under a randomness made of the Ri
\* of some members.
Sign(s) ==
    /\ signedBy[s] = None
    /\ \E r \in SUBSET Node \ {{}} :
        signedBy' = [signedBy EXCEPT ![s] = [blk |-> Authentic, r |-> r]]
    /\ UNCHANGED decided

\* Member n returns a block carrying the signatures of a majority S, all
\* made for it under the R it aggregates.
Decide(n) ==
    /\ decided[n] = None
    /\ \E r \in {signedBy[s].r : s \in {x \in Node : signedBy[x] # None}} :
        LET signers == {s \in Node : signedBy[s] = [blk |-> Authentic, r |-> r]}
        IN \E S \in SUBSET signers :
            /\ Cardinality(S) > Half
            /\ decided' = [decided EXCEPT ![n] = [blk |-> Authentic, aggR |-> r, signers |-> S]]
    /\ UNCHANGED signedBy

Next == \E n \in Node : Sign(n) \/ Decide(n)

Spec == Init /\ [][Next]_<<signedBy, decided>>

=============================================================================
