-------------------------- MODULE ComponentContract --------------------------
(***************************************************************************)
(* What an App promises its components, without the threads: a component   *)
(* is brought up once and down once; the App adopts it only while it is    *)
(* open; what it has adopted it brings down itself.  The promise is that   *)
(* of the comments on disposeComponents and MountComponent in              *)
(* pkg/appkit/component.go and pkg/appkit/mount.go.                        *)
(***************************************************************************)
CONSTANT Comp

VARIABLES
    status,  \* status[c]: "new", "live" or "gone"
    adopted, \* the components the App has accepted and not yet brought down
    closed   \* the App no longer accepts components

vars == <<status, adopted, closed>>

Init ==
    /\ status = [c \in Comp |-> "new"]
    /\ adopted = {}
    /\ closed = FALSE

\* Somebody brings a component up and offers it to the App.
Offer(c) ==
    /\ status[c] = "new"
    /\ status' = [status EXCEPT ![c] = "live"]
    /\ UNCHANGED <<adopted, closed>>

\* The open App accepts a live component.
Adopt(c) ==
    /\ ~closed
    /\ status[c] = "live"
    /\ adopted' = adopted \cup {c}
    /\ UNCHANGED <<status, closed>>

\* The App brings one of its own components up and keeps it.
BringUp(c) ==
    /\ ~closed
    /\ status[c] = "new"
    /\ status' = [status EXCEPT ![c] = "live"]
    /\ adopted' = adopted \cup {c}
    /\ UNCHANGED closed

\* A component is brought down, for good: by the App, or, refused by a
\* closed App, by the one who offered it.
BringDown(c) ==
    /\ status[c] = "live"
    /\ c \in adopted \/ closed
    /\ status' = [status EXCEPT ![c] = "gone"]
    /\ adopted' = adopted \ {c}
    /\ UNCHANGED closed

Close ==
    /\ closed' = TRUE
    /\ UNCHANGED <<status, adopted>>

Next ==
    \/ Close
    \/ \E c \in Comp : Offer(c) \/ Adopt(c) \/ BringUp(c) \/ BringDown(c)

(* A closed App and those it refused bring every live component down.      *)
Fairness == \A c \in Comp : WF_vars(closed /\ BringDown(c))

Spec == Init /\ [][Next]_vars /\ Fairness
=============================================================================
