--------------------------- MODULE SessionContract ---------------------------
(***************************************************************************)
(* What a session promises to the rest of the service, whatever order its  *)
(* requests, its worker and its readers come in: how its state, its worker *)
(* and its private flash image go together.  SessionLifecycle implements   *)
(* it (MCSessionLifecycle); SessionPool relies on it.                      *)
(***************************************************************************)

VARIABLES
    shown,      \* the state clients see
    alive,      \* a worker runs
    private,    \* the flash image exists
    busy        \* create, stop, power_off or power_on is at work on the session

vars == <<shown, alive, private, busy>>

Powered  == {"running", "paused"}
Terminal == {"stopped", "failed", "expired"}

Init == shown = "starting" /\ alive = FALSE /\ private = TRUE /\ busy = TRUE

Begin ==
    /\ ~busy /\ busy' = TRUE
    /\ UNCHANGED <<shown, alive, private>>

\* A worker starts for a session that is starting, from its own image.
Launch ==
    /\ busy /\ shown = "starting" /\ ~alive /\ private
    /\ alive' = TRUE
    /\ UNCHANGED <<shown, private, busy>>

Die ==
    /\ alive /\ alive' = FALSE
    /\ UNCHANGED <<shown, private, busy>>

\* The operation at work, if there is one, may end with the step.
MayEnd == busy' \in {busy, FALSE}

\* A session becomes running or paused only while a worker runs.
Show ==
    /\ shown \in Powered \cup {"starting"}
    /\ shown' \in Powered /\ alive
    /\ MayEnd
    /\ UNCHANGED <<alive, private>>

\* power_on has restored the virtual devices of a session that may have ended.
Restored ==
    /\ busy /\ shown \notin {"starting", "powered_off"}
    /\ shown \in Terminal => ~alive
    /\ busy' = FALSE
    /\ UNCHANGED <<shown, alive, private>>

\* It is shown as powered off when its worker is gone, ...
PowerOff ==
    /\ busy /\ ~alive
    /\ shown' = "powered_off"
    /\ MayEnd
    /\ UNCHANGED <<alive, private>>

PowerOn ==
    /\ ~busy /\ shown = "powered_off" /\ ~alive
    /\ shown' = "starting" /\ busy' = TRUE
    /\ UNCHANGED <<alive, private>>

\* ... and as ended when its image is gone, and its worker too unless someone
\* is still at work to get rid of it.
End ==
    /\ shown' \in Terminal /\ private' = FALSE
    /\ alive => busy'
    /\ MayEnd
    /\ UNCHANGED alive

Next == \/ Begin \/ Launch \/ Die \/ Show \/ Restored
        \/ PowerOff \/ PowerOn \/ End

Spec == Init /\ [][Next]_vars
=============================================================================
