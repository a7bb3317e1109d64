----------------------------- MODULE ServerRole -----------------------------
(***************************************************************************)
(* What a daemon process promises to the clients that reach its socket,    *)
(* without the goroutines, channels and clocks that keep the promise.      *)
(* DaemonServer implements it; DaemonElection abstracts its daemons further*)
(* still, to when they can be reached.                                     *)
(***************************************************************************)
CONSTANT Conns      \* the connections clients may open

VARIABLES
    listening,      \* the listener is open
    running,        \* Run has not returned
    exited,         \* the process is gone
    conn            \* how far each connection has come

vars == <<listening, running, exited, conn>>

Init ==
    /\ listening = TRUE
    /\ running = TRUE
    /\ exited = FALSE
    /\ conn = [k \in Conns |-> "none"]

Move(k, from, to) == conn[k] = from /\ conn' = [conn EXCEPT ![k] = to]

Connect(k) ==
    listening /\ Move(k, "none", "queued") /\ UNCHANGED <<listening, running, exited>>

PickUp(k) ==
    running /\ Move(k, "queued", "handled") /\ UNCHANGED <<listening, running, exited>>

Answer(k) ==
    ~exited /\ Move(k, "handled", "answered") /\ UNCHANGED <<listening, running, exited>>

(* A connection is lost only when it was not picked up before the listener *)
(* closed, or not answered before the process ended.                       *)
Lose(k) ==
    /\ \/ ~listening /\ Move(k, "queued", "lost")
       \/ exited /\ Move(k, "handled", "lost")
    /\ UNCHANGED <<listening, running, exited>>

Unlisten == listening /\ listening' = FALSE /\ UNCHANGED <<running, exited, conn>>

Return == running /\ running' = FALSE /\ UNCHANGED <<listening, exited, conn>>

Exit ==
    /\ ~running /\ ~listening /\ ~exited
    /\ exited' = TRUE
    /\ UNCHANGED <<listening, running, conn>>

Next ==
    \/ \E k \in Conns : Connect(k) \/ PickUp(k) \/ Answer(k) \/ Lose(k)
    \/ Unlisten \/ Return \/ Exit

Spec == Init /\ [][Next]_vars
=============================================================================
