------------------------------ MODULE Snapshots ------------------------------
(***************************************************************************)
(* What the checkpoints of internal/maestro/checkpoint.go are for: a set   *)
(* of photographs of some files of the working tree. One is taken in a     *)
(* single step, shows the files as they are, and is never lost or altered. *)
(***************************************************************************)
CONSTANT Files

VARIABLES tree,     \* the working tree
          snaps     \* the snapshots that can be restored

Init == snaps = {}

\* The working tree is anybody's.
Change == UNCHANGED snaps

\* A file that does not exist is left out of the picture.
Take ==
    /\ \E F \in SUBSET Files : snaps' = snaps \cup {[f \in F |-> tree[f]]}
    /\ UNCHANGED tree

Spec == Init /\ [][Change \/ Take]_<<tree, snaps>>
=============================================================================
