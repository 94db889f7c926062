---------------------------- MODULE TurnContract ----------------------------
(***************************************************************************)
(* What the conductor may expect of one turn of the editor, whatever the   *)
(* model answers and the tools do: the turn ends, unless a call it waits   *)
(* for never returns; when it ends with an error it names no file; when it *)
(* ends well it names only files that the plan covers, and at least one if *)
(* the conversation opens with a request for an edit.                      *)
(***************************************************************************)
CONSTANTS Files, Covered(_, _),     \* Covered(f, allowed): may f be written?
          Waits                     \* the places where the turn waits for a call

VARIABLES
    owes,               \* the conversation opens with a request for an edit
    allowed,            \* the files of the plan
    running, ok, files, \* how the turn stands, and what it returned
    at                  \* where it is

turn == <<running, ok, files>>

Init == running = TRUE /\ ok = FALSE /\ files = {}

\* owes and allowed are given to the turn: it reads them when it returns.
Return ==
    /\ running
    /\ running' = FALSE
    /\ ok' \in BOOLEAN
    /\ files' \in SUBSET {f \in Files : Covered(f, allowed)}
    /\ ~ ok' => files' = {}
    /\ ok' /\ owes => files' # {}

Safety == Init /\ [][Return]_turn

Ends == <>(~ running) \/ \E place \in Waits : <>[](at = place)

Spec == Safety /\ Ends
=============================================================================
