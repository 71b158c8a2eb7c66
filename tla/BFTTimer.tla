------------------------------ MODULE BFTTimer ------------------------------
(***************************************************************************)
(* The goroutines of one member's BFTProtocol.Start (bft.go:44-360) that   *)
(* touch protocol.cTimeout: the main loop, and the time.AfterFunc          *)
(* callbacks of the phase timers.                                           *)
(*                                                                         *)
(* Each iteration of the main loop stores a fresh channel in the field     *)
(* protocol.cTimeout (bft.go:58).  A phase timer's callback runs in its    *)
(* own goroutine and executes close(protocol.cTimeout): it reads the field *)
(* when it runs, not when the timer was armed, so it closes whatever       *)
(* channel the loop has installed by then.  Closing a closed channel       *)
(* panics, and a panic in a goroutine ends the process.                    *)
(*                                                                         *)
(* A channel is named by the loop iteration that made it (1, 2, ...).     *)
(* What the messages say is abstracted away: whether a quorum is seen or   *)
(* a Propose is accepted, and whether a phase timeout succeeds or fails,   *)
(* are free choices, since each depends only on message contents.          *)
(***************************************************************************)
EXTENDS Naturals, Sequences

CONSTANTS
    Roles,            \* first phases to explore: "propose" for a Start
                      \* with isProposer, "listen" for one without
    ProposeShortcut   \* TRUE: the "//single-node" returns of bft.go:88/102

ASSUME Roles \subseteq {"propose", "listen"} /\ ProposeShortcut \in BOOLEAN

\* The phase timers, named by the phase that arms them.
Timers == {"propose", "listen", "prepare", "commit"}

\* armed: AfterFunc pending; firing: expired, callback goroutine started;
\* done: callback finished; stopped: Stop() cancelled it in time.
TimerStates == {"idle", "armed", "firing", "done", "stopped"}

VARIABLES
    pc,        \* where the main loop is: "top", a phase's wait, "returned"
    next,      \* protocol.phase: the case the next iteration runs
    owner,     \* owner[i]: the phase of the iteration that made channel i
    closed,    \* the channels that have been closed
    timer,     \* timer[t]: state of the AfterFunc armed by phase t
    quit,      \* protocol.cQuit has been closed
    panicked   \* a goroutine closed a closed channel: the process is gone

vars == <<pc, next, owner, closed, timer, quit, panicked>>

\* protocol.cTimeout: the channel made by the latest iteration.
Cur == Len(owner)

Waiting == {"propose", "listen", "prepare", "commit"}

TypeOK ==
    /\ pc \in {"top", "returned"} \cup Waiting
    /\ next \in Waiting
    /\ owner \in Seq(Waiting)
    /\ closed \subseteq 1..Cur
    /\ timer \in [Timers -> TimerStates]
    /\ quit \in BOOLEAN /\ panicked \in BOOLEAN

Init ==
    /\ pc = "top"
    /\ next \in Roles
    /\ owner = <<>>
    /\ closed = {}
    /\ timer = [t \in Timers |-> "idle"]
    /\ quit = FALSE
    /\ panicked = FALSE

-----------------------------------------------------------------------------
(* The main loop                                                           *)

\* Top of the for loop (bft.go:57-64): make a new cTimeout, return if
\* cQuit is closed, else run the case of protocol.phase, whose first act
\* is to arm the phase timer (bft.go:66, 152, 206, 254).  The proposer's
\* case then returns at once when the single-node shortcut is in place.
LoopTop ==
    /\ pc = "top" /\ ~panicked
    /\ owner' = Append(owner, next)
    /\ IF quit
       THEN /\ pc' = "returned"
            /\ UNCHANGED timer
       ELSE /\ timer' = [timer EXCEPT ![next] = "armed"]
            /\ pc' = IF next = "propose" /\ ProposeShortcut THEN "returned" ELSE next
    /\ UNCHANGED <<next, closed, quit, panicked>>

\* timeout.Stop(): cancels the timer unless it has already expired.
StopTimer(t) ==
    timer' = [timer EXCEPT ![t] = IF @ = "armed" THEN "stopped" ELSE @]

\* Mutation: the quorum path stops the timer but never closes cTimeout.
QuorumNoClose ==
    /\ pc \in {"propose", "commit"} /\ ~panicked
    /\ Cur \notin closed
    /\ StopTimer(pc)
    /\ UNCHANGED <<pc, next, owner, closed, quit, panicked>>

\* The quorum path of the propose and commit phases (bft.go:121-130,
\* 348-356): Stop the phase timer, then close cTimeout unless a receive
\* from it succeeds.  Once cTimeout is closed a further quorum message only
\* repeats a Stop that has no effect, so it is not represented.
Quorum ==
    /\ pc \in {"propose", "commit"} /\ ~panicked
    /\ Cur \notin closed
    /\ StopTimer(pc)
    /\ closed' = closed \cup {Cur}
    /\ UNCHANGED <<pc, next, owner, quit, panicked>>

\* A valid Propose read in the listen phase (bft.go:194-196): the next
\* phase is prepare, the listen timer is stopped and the loop goes on.  The
\* select may pick this case even when cTimeout is already closed.
ListenAccept ==
    /\ pc = "listen" /\ ~panicked
    /\ next' = "prepare"
    /\ StopTimer("listen")
    /\ pc' = "top"
    /\ UNCHANGED <<owner, closed, quit, panicked>>

\* Mutation: the commit phase sets protocol.phase to "done" instead of
\* returning.
AfterToDone == [propose |-> {"prepare"}, listen |-> {}, prepare |-> {"commit"},
                commit |-> {"done"}]

\* The phases a successful timeout of each phase leads to.
After == [propose |-> {"prepare"}, listen |-> {}, prepare |-> {"commit"},
          commit |-> {}]

\* The cTimeout case of a waiting phase (bft.go:133-148, 200-201, 237-250,
\* 285-333): the phase either returns from Start (any error, or the
\* combined block of the commit phase) or sets protocol.phase to its
\* successor and breaks out to the top of the loop.
PhaseTimeout ==
    /\ pc \in Waiting /\ ~panicked
    /\ Cur \in closed
    /\ \/ /\ pc' = "returned"
          /\ UNCHANGED next
       \/ \E nx \in After[pc] :
            /\ next' = nx
            /\ pc' = "top"
    /\ UNCHANGED <<owner, closed, timer, quit, panicked>>

\* Another goroutine closes cQuit (BFTProtocol's quit channel).
Quit ==
    /\ ~quit /\ pc # "returned" /\ ~panicked
    /\ quit' = TRUE
    /\ UNCHANGED <<pc, next, owner, closed, timer, panicked>>

-----------------------------------------------------------------------------
(* The timer goroutines                                                    *)

\* Timer t expires; the runtime starts its callback in a new goroutine.
Fire(t) ==
    /\ timer[t] = "armed" /\ ~panicked
    /\ timer' = [timer EXCEPT ![t] = "firing"]
    /\ UNCHANGED <<pc, next, owner, closed, quit, panicked>>

\* The callback runs close(protocol.cTimeout) on the channel the field
\* holds now; if that channel is closed already, the close panics.
Callback(t) ==
    /\ timer[t] = "firing" /\ ~panicked
    /\ timer' = [timer EXCEPT ![t] = "done"]
    /\ IF Cur \in closed
       THEN /\ panicked' = TRUE
            /\ UNCHANGED closed
       ELSE /\ closed' = closed \cup {Cur}
            /\ UNCHANGED panicked
    /\ UNCHANGED <<pc, next, owner, quit>>

Next ==
    \/ LoopTop \/ Quorum \/ ListenAccept \/ PhaseTimeout \/ Quit
    \/ \E t \in Timers : Fire(t) \/ Callback(t)

\* The runtime runs expired timers and their goroutines, and a main loop
\* blocked in a select whose cTimeout is closed eventually takes that case.
\* Quorum, ListenAccept and Quit depend on other members and are not fair.
Fairness ==
    /\ WF_vars(LoopTop) /\ WF_vars(PhaseTimeout)
    /\ \A t \in Timers : WF_vars(Fire(t)) /\ WF_vars(Callback(t))

Spec == Init /\ [][Next]_vars /\ Fairness

-----------------------------------------------------------------------------
(* Properties                                                              *)

\* Idempotent timeout (spec 5, 9): the phase timer's callback and the
\* quorum path (bft.go:66-69 against 121-130, 254-257 against 348-356)
\* never both close the same cTimeout, so no close panics.
NoTimerPanic == ~panicked

\* Every wait ends: Start eventually returns (or the process is gone).
Termination == <>(pc = "returned" \/ panicked)

=============================================================================
