---------------------------- MODULE MCAgentTurn -----------------------------
(***************************************************************************)
(* AgentTurn with two files of one name: the path of the first is a part   *)
(* of the second's.                                                        *)
(***************************************************************************)
EXTENDS AgentTurn

MCFiles == {"counter.go", "internal/counter.go"}

MCCovers == {<<f, f>> : f \in MCFiles} \cup {<<"counter.go", "internal/counter.go">>}
=============================================================================
