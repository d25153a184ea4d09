-------------------------- MODULE SessionLifecycle --------------------------
(***************************************************************************)
(* What the session registry promises about one server's sessions, with    *)
(* no connections, processes groups or files in it: a session is started,  *)
(* may be published once as resumable, and is withdrawn for good, never    *)
(* while its compositor runs unless the server has given up on ending it.  *)
(***************************************************************************)
CONSTANTS Session, Legacy

VARIABLES
    phase,     \* where each session is in its life
    running,   \* sessions whose compositor runs
    givenUp    \* sessions whose processes could not be ended

lifecycleVars == <<phase, running, givenUp>>

Phases == {"unborn", "private", "resumable", "over"}

Init ==
    /\ phase = [s \in Session |-> IF s \in Legacy THEN "resumable" ELSE "unborn"]
    /\ running = Legacy
    /\ givenUp = {}

\* A compositor is started for a client that nobody else knows of yet.
Start(s) ==
    /\ phase[s] = "unborn"
    /\ phase' = [phase EXCEPT ![s] = "private"]
    /\ running' = running \cup {s}
    /\ UNCHANGED givenUp

\* The session becomes resumable by later connections.
Publish(s) ==
    /\ phase[s] = "private"
    /\ phase' = [phase EXCEPT ![s] = "resumable"]
    /\ UNCHANGED <<running, givenUp>>

\* The compositor exits, by itself or because the session is being closed.
Exit(s) ==
    /\ running' = running \ {s}
    /\ UNCHANGED <<phase, givenUp>>

\* Closing the session has failed to end its processes.
GiveUp(s) ==
    /\ phase[s] \in {"resumable", "over"}
    /\ givenUp' = givenUp \cup {s}
    /\ UNCHANGED <<phase, running>>

\* The session is no longer offered, and never will be again.
Withdraw(s) ==
    /\ phase[s] = "resumable"
    /\ s \notin running \/ s \in givenUp
    /\ phase' = [phase EXCEPT ![s] = "over"]
    /\ UNCHANGED <<running, givenUp>>

Next == \E s \in Session : Start(s) \/ Publish(s) \/ Exit(s) \/ GiveUp(s) \/ Withdraw(s)

Spec == Init /\ [][Next]_lifecycleVars
============================================================================
