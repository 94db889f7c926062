---------------------------- MODULE LoopDetector ----------------------------
(***************************************************************************)
(* internal/llm/loop_detector.go: the iteration budget, which bounds the   *)
(* attempts of the conductor and the rounds of the tool orchestrator, and  *)
(* the counters of repeated calls and answers, which only the latter uses. *)
(* The detector's fields are passed in by the module that owns the loop.   *)
(***************************************************************************)
EXTENDS Integers

Intents == {"query", "edit", "plan", "research"}

\* getMaxIterationsForIntent: a limit given by the caller wins over the table.
MaxIterationsForIntent(intent, maxIterations) ==
    IF maxIterations > 0 THEN maxIterations
    ELSE CASE intent \in {"query", "plan"} -> 10
           [] OTHER -> 15

\* The safety limit of ShouldContinue, on the iteration it has just counted.
LimitReached(intent, maxIterations, iteration) ==
    iteration > MaxIterationsForIntent(intent, maxIterations)

\* Mutant of NoProgress: off by one.
NoProgressLate(intent, iteration, fileModifications) ==
    intent = "edit" /\ iteration > 7 /\ fileModifications = 0

\* The progress check of ShouldContinue: only the "edit" intent has one.
NoProgress(intent, iteration, fileModifications) ==
    /\ intent = "edit"
    /\ iteration >= 7
    /\ fileModifications = 0

ShouldContinue(intent, maxIterations, iteration, fileModifications) ==
    /\ ~ LimitReached(intent, maxIterations, iteration)
    /\ ~ NoProgress(intent, iteration, fileModifications)

-----------------------------------------------------------------------------
(* A run of equal items: tool calls with their arguments, or answers.      *)

NoRun(none) == [last |-> none, times |-> 0]

\* Mutant of Record: what has not changed is not counted.
RecordChange(run, item) ==
    IF item = run.last THEN run ELSE [last |-> item, times |-> 1]

\* RecordToolCall and RecordResponse: count on, or start again with the item.
Record(run, item) ==
    [last |-> item, times |-> IF item = run.last THEN run.times + 1 ELSE 1]
=============================================================================
