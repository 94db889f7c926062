------------------------------ MODULE PauseGate ------------------------------
(***************************************************************************)
(* What CheckPause of internal/live/control_manager.go promises the loops  *)
(* that call it: while the program is paused nobody comes out of it. The   *)
(* lock and the condition variable that keep the promise are in            *)
(* ControlManager; Maestro is written against this gate.                   *)
(***************************************************************************)
CONSTANT Agents     \* the goroutines that call CheckPause

VARIABLES paused,   \* ControlManager.isPaused
          held      \* the agents inside CheckPause

gateVars == <<paused, held>>

Init == paused = FALSE /\ held = {}

Pause  == paused' = TRUE /\ UNCHANGED held

Resume == paused' = FALSE /\ UNCHANGED held

Arrive(a) ==
    /\ a \notin held
    /\ held' = held \cup {a}
    /\ UNCHANGED paused

Clear(a) ==
    /\ a \in held
    /\ ~ paused
    /\ held' = held \ {a}
    /\ UNCHANGED paused

Next ==
    \/ Pause \/ Resume
    \/ \E a \in Agents : Arrive(a) \/ Clear(a)

Spec == Init /\ [][Next]_gateVars
=============================================================================
