----------------------------- MODULE Conductor ------------------------------
(***************************************************************************)
(* Conductor.ExecuteTask of internal/maestro/conductor.go: one coding task *)
(* is planned, edited, formatted, checked by deterministic gates, reviewed *)
(* and, on any objection, sent back to the editor with the reason.         *)
(*                                                                         *)
(* Models (planner, editor, reviewer) and commands (gofmt, the             *)
(* verification) are the environment: each may answer, object or fail.     *)
(* The workspace is kept as far as the gates can tell one from another.    *)
(***************************************************************************)
EXTENDS Integers, Sequences, LoopDetector

CONSTANTS
    Failures,       \* normalised, non-empty outputs of a failing verification
    NoOutput,       \* the output of a verification that fails silently
    MaxAttempts,    \* Conductor.maxAttempts; 0 leaves the intent's own limit
    MaxErrors,      \* consecutive editor errors that abort the task
    Plateau         \* equivalent failures that abort the task

ASSUME ConductorAssumption ==
    /\ NoOutput \notin Failures
    /\ MaxAttempts \in Nat
    /\ MaxErrors \in Nat \ {0}
    /\ Plateau \in Nat \ {0}

Outputs == Failures \cup {NoOutput}
Pass == "pass"
ASSUME PassAssumption == Pass \notin Outputs

\* Gate facts of a working tree: what its verification answers, how its
\* exported Go API compares with the tree the task started from ("broken":
\* some Go file does not parse), and whether a verification command is found.
Workspaces == [verdict : Outputs \cup {Pass},
               api     : {"same", "changed", "broken"},
               command : BOOLEAN]

\* What the task's text and the program's environment fix for the whole run.
Tasks == [editWords  : BOOLEAN,     \* the task contains an edit indicator
          stableAPI  : BOOLEAN,     \* ... and asks for an unchanged public API
          requested  : BOOLEAN,     \* ... and names its verification command
          go         : BOOLEAN,     \* the project's language is Go
          skipReview : BOOLEAN]     \* SKIP_VALIDATION=1

VARIABLES
    pc,             \* the stage ExecuteTask is in
    exit,           \* why it returned, or "running"
    task,           \* see Tasks
    planQuery,      \* the plan contains a query indicator
    ws,             \* the working tree
    baseline,       \* publicAPIBaseline # nil
    iteration,      \* loopDetector.Iteration
    errors,         \* consecutiveErrors
    modified,       \* len(modifiedFiles) > 0, of the current attempt
    progress,       \* verificationProgress
    messages,       \* len(history)
    feedback,       \* sentiments recorded for the editor's model
    \* history variables, read by the properties only
    gate,           \* {the tree that passed the verification of this attempt}
    touched,        \* some attempt of the task has reported modified files
    observed        \* the last Plateau outputs of failed verifications

vars == <<pc, exit, task, planQuery, ws, baseline, iteration, errors, modified,
          progress, messages, feedback, gate, touched, observed>>

control == <<task, planQuery, baseline>>
ghosts  == <<gate, touched, observed>>

Done   == {"query answered", "review skipped", "reviewed"}
Failed == {"baseline", "planning", "iteration limit", "no modifications", "model selection",
           "editor errors", "retry context", "api snapshot", "no verification command",
           "plateau"}

Stages == {"baseline", "plan", "continue", "edit", "format", "query", "api", "verify",
           "select", "review", "over"}

-----------------------------------------------------------------------------
(* The tracker of repeated failures, verification_progress.go.             *)

NewProgress == [lastFailure |-> NoOutput, consecutive |-> 0]

\* Mutant of Observe: a changed failure does not reset the counter.
ObserveAnyFailure(p, output) ==
    [lastFailure |-> output, consecutive |-> p.consecutive + 1]

Observe(p, output) ==
    [lastFailure |-> output,
     consecutive |-> IF output = p.lastFailure /\ output # NoOutput
                       THEN p.consecutive + 1 ELSE 1]

\* Mutant of IsPlateau: one failure too late.
IsPlateauLate(p) == p.lastFailure # NoOutput /\ p.consecutive > Plateau

IsPlateau(p) == p.lastFailure # NoOutput /\ p.consecutive >= Plateau

\* The last Plateau elements of a sequence.
Recent(s) == IF Len(s) <= Plateau THEN s ELSE SubSeq(s, Len(s) - Plateau + 1, Len(s))

-----------------------------------------------------------------------------
(* A task is answered without any gate when neither the task nor this      *)
(* attempt's modifications speak of an edit and the plan reads as a query. *)

\* Mutant of IsQueryTask: what the attempt modified is not looked at.
IsQueryTaskByPlan(someModified) == ~ task.editWords /\ planQuery

IsQueryTask(someModified) == ~ someModified /\ ~ task.editWords /\ planQuery

Intent == IF IsQueryTask(FALSE) THEN "query" ELSE "edit"

Return(why) == pc' = "over" /\ exit' = why

Goto(stage) == pc' = stage /\ UNCHANGED exit

\* Mutant of Retry: the editor is sent off again without the reason.
RetryUnexplained == Goto("continue") /\ UNCHANGED messages

\* buildRetryMessage appends the reason to the conversation, or its walk of
\* the repository fails and so does the task.
Retry ==
    \/ Goto("continue") /\ messages' = messages + 1
    \/ Return("retry context") /\ UNCHANGED messages

Init ==
    /\ pc = "baseline"
    /\ exit = "running"
    /\ task \in Tasks
    /\ planQuery = FALSE
    /\ ws \in {w \in Workspaces : w.api # "changed"}
    /\ baseline = FALSE
    /\ iteration = 0
    /\ errors = 0
    /\ modified = FALSE
    /\ progress = NewProgress
    /\ messages = 0
    /\ feedback = {}
    /\ gate = {}
    /\ touched = FALSE
    /\ observed = <<>>

\* publicAPIBaseline is taken only for Go tasks that promise a stable API.
SnapshotBaseline ==
    /\ pc = "baseline"
    /\ IF task.stableAPI /\ task.go
         THEN IF ws.api = "broken" THEN Return("baseline") /\ UNCHANGED baseline
                                   ELSE Goto("plan") /\ baseline' = TRUE
         ELSE Goto("plan") /\ UNCHANGED baseline
    /\ UNCHANGED <<task, planQuery, ws, iteration, errors, modified, progress, messages,
                   feedback, ghosts>>

\* Model selection, the repository context and the planner may each fail; the
\* planner's text decides how the task is classified from then on.
CreatePlan ==
    /\ pc = "plan"
    /\ \/ Return("planning") /\ UNCHANGED <<planQuery, messages>>
       \/ /\ Goto("continue")
          /\ planQuery' \in BOOLEAN
          /\ messages' = 1
    /\ UNCHANGED <<task, ws, baseline, iteration, errors, modified, progress, feedback, ghosts>>

\* ShouldContinue counts the attempt and asks the limits of LoopDetector. The
\* conductor never calls RecordFileModification, so the count it passes is 0.
StartAttempt ==
    /\ pc = "continue"
    /\ iteration' = iteration + 1
    /\ IF LimitReached(Intent, MaxAttempts, iteration') THEN Return("iteration limit")
       ELSE IF NoProgress(Intent, iteration', 0) THEN Return("no modifications")
       ELSE Goto("edit") \/ Return("model selection")
    /\ gate' = {}
    /\ UNCHANGED <<control, ws, errors, modified, progress, messages, feedback, touched, observed>>

\* The editor comes back with an error. Its tools may have changed the tree in
\* the rounds before, but the error path of Execute returns no file names.
EditorFails ==
    /\ pc = "edit"
    /\ ws' \in Workspaces
    /\ modified' = FALSE
    /\ errors' = errors + 1
    /\ IF errors' >= MaxErrors THEN Return("editor errors") /\ UNCHANGED messages
                               ELSE Retry
    /\ UNCHANGED <<control, iteration, progress, feedback, ghosts>>

\* The editor comes back with an answer and the names of the files it wrote;
\* run_command changes the tree without naming a file.
EditorAnswers ==
    /\ pc = "edit"
    /\ ws' \in Workspaces
    /\ modified' \in BOOLEAN
    /\ touched' = (touched \/ modified')
    /\ errors' = 0
    /\ Goto(IF task.go /\ modified' THEN "format" ELSE "query")
    /\ UNCHANGED <<control, iteration, progress, messages, feedback, gate, observed>>

\* gofmt -w on the files of this attempt, which leaves the gates' facts alone.
\* It cannot format a file that does not parse.
Format ==
    /\ pc = "format"
    /\ \/ Goto("query") /\ UNCHANGED messages
       \/ Retry
    /\ UNCHANGED <<control, ws, iteration, errors, modified, progress, feedback, ghosts>>

\* A query is answered here and now: no gate, no review.
AnswerQuery ==
    /\ pc = "query"
    /\ IF IsQueryTask(modified)
         THEN Return("query answered") /\ feedback' = feedback \cup {"good"}
         ELSE Goto("api") /\ UNCHANGED feedback
    /\ UNCHANGED <<control, ws, iteration, errors, modified, progress, messages, ghosts>>

CheckPublicAPI ==
    /\ pc = "api"
    /\ IF ~ baseline \/ ws.api = "same" THEN Goto("verify") /\ UNCHANGED messages
       ELSE IF ws.api = "broken" THEN Return("api snapshot") /\ UNCHANGED messages
       ELSE Retry
    /\ UNCHANGED <<control, ws, iteration, errors, modified, progress, feedback, ghosts>>

\* requestedVerificationCommand, else repositoryVerificationCommand.
HasCommand == task.requested \/ ws.command

RefuseWithoutCommand ==
    /\ pc = "verify"
    /\ ~ HasCommand
    /\ Return("no verification command")
    /\ UNCHANGED <<control, ws, iteration, errors, modified, progress, messages, feedback, ghosts>>

VerificationPasses ==
    /\ pc = "verify"
    /\ HasCommand
    /\ ws.verdict = Pass
    /\ Goto("select")
    /\ gate' = {ws}
    /\ UNCHANGED <<control, ws, iteration, errors, modified, progress, messages, feedback,
                   touched, observed>>

\* The tree's own failure, or a command that cannot be started or is killed
\* with the context and then fails with no output.
VerificationFails ==
    /\ pc = "verify"
    /\ HasCommand
    /\ \E output \in Outputs :
         /\ output \in {ws.verdict, NoOutput}
         /\ progress' = Observe(progress, output)
         /\ observed' = Recent(Append(observed, output))
    /\ IF IsPlateau(progress')
         THEN /\ Return("plateau")
              /\ feedback' = feedback \cup {"bad"}
              /\ UNCHANGED messages
         ELSE Retry /\ UNCHANGED feedback
    /\ UNCHANGED <<control, ws, iteration, errors, modified, gate, touched>>

\* The reviewer's model is selected even when the review is then skipped.
SelectReviewer ==
    /\ pc = "select"
    /\ \/ Return("model selection") /\ UNCHANGED feedback
       \/ task.skipReview /\ Return("review skipped") /\ feedback' = feedback \cup {"good"}
       \/ ~ task.skipReview /\ Goto("review") /\ UNCHANGED feedback
    /\ UNCHANGED <<control, ws, iteration, errors, modified, progress, messages, ghosts>>

\* The reviewer has run_command, so it can leave another tree than it was shown.
ReviewApproves ==
    /\ pc = "review"
    /\ ws' \in Workspaces
    /\ Return("reviewed")
    /\ feedback' = feedback \cup {"good"}
    /\ UNCHANGED <<control, iteration, errors, modified, progress, messages, ghosts>>

\* Mutant of ReviewObjects: the editor is sent back with no attempt counted.
ReviewObjectsUncounted ==
    /\ pc = "review"
    /\ ws' \in Workspaces
    /\ Goto("edit")
    /\ UNCHANGED <<control, iteration, errors, modified, progress, messages, feedback, ghosts>>

\* Mutant of ReviewObjects: the editor is praised for verified but rejected work.
ReviewObjectsPraising ==
    /\ pc = "review"
    /\ ws' \in Workspaces
    /\ Retry
    /\ feedback' = feedback \cup {"good"}
    /\ UNCHANGED <<control, iteration, errors, modified, progress, ghosts>>

\* Objections and errors of the reviewer take the same way back.
ReviewObjects ==
    /\ pc = "review"
    /\ ws' \in Workspaces
    /\ Retry
    /\ UNCHANGED <<control, iteration, errors, modified, progress, feedback, ghosts>>

Returned == pc = "over" /\ UNCHANGED vars

\* What ExecuteTask does by itself, and the calls it waits for: models, most of
\* whose HTTP clients have no timeout, and commands, all under the background
\* context.
Local ==
    \/ SnapshotBaseline \/ StartAttempt \/ AnswerQuery \/ CheckPublicAPI
    \/ RefuseWithoutCommand \/ SelectReviewer

Awaited ==
    \/ CreatePlan \/ EditorFails \/ EditorAnswers \/ Format
    \/ VerificationPasses \/ VerificationFails \/ ReviewApproves \/ ReviewObjects

Step == Local \/ Awaited

Next == Step \/ Returned

Spec == Init /\ [][Next]_vars

\* ExecuteTask is one goroutine and runs on where it need not wait. No call need
\* ever come back.
FairSpec == Spec /\ WF_vars(Local)

-----------------------------------------------------------------------------
TypeOK ==
    /\ pc \in Stages
    /\ exit \in Done \cup Failed \cup {"running"}
    /\ task \in Tasks
    /\ planQuery \in BOOLEAN
    /\ ws \in Workspaces
    /\ baseline \in BOOLEAN
    /\ iteration \in Nat
    /\ errors \in 0..MaxErrors
    /\ modified \in BOOLEAN
    /\ progress \in [lastFailure : Outputs, consecutive : 0..Plateau]
    /\ messages \in Nat
    /\ feedback \in SUBSET {"good", "bad"}
    /\ gate \in SUBSET Workspaces
    /\ touched \in BOOLEAN
    /\ observed \in Seq(Outputs)

\* An attempt passed the deterministic gates when its tree verified and kept
\* the exported API it had to keep.
GatesPassed ==
    \E tree \in gate :
        /\ tree.verdict = Pass
        /\ tree.command \/ task.requested
        /\ baseline => tree.api = "same"

\* A task that says it edits, one whose last attempt wrote a file and one whose
\* plan is no query are reported complete only on the gates of that very
\* attempt: no pass of an earlier attempt, no review and no SKIP_VALIDATION
\* stands in for them ("but never the deterministic gate above").
EditsPassTheGates ==
    exit \in Done /\ (task.editWords \/ modified \/ ~ planQuery) => GatesPassed

\* The counter of equivalent failures agrees with the failures themselves: the
\* task stops for a plateau exactly when its last failed verifications, however
\* many editor errors and rejected reviews lie between them, say the same.
PlateauIsExact ==
    exit = "plateau" <=> \E f \in Failures : observed = [i \in 1..Plateau |-> f]

\* What the conductor teaches the model selector is what happened: an editor is
\* praised exactly when its task completes, and blamed exactly for a plateau.
FeedbackIsHonest ==
    /\ "good" \in feedback <=> exit \in Done
    /\ "bad" \in feedback <=> exit = "plateau"

\* No attempt repeats the conversation of the one before it: attempt n is made
\* on the task and the n - 1 objections met so far.
EveryRetryIsExplained == pc = "edit" => messages = iteration

\* The attempts the editor gets are bounded by the caller's limit and, for an
\* edit, by the progress check, and five errors in a row leave nothing to retry.
AttemptsAreBounded ==
    pc \notin {"continue", "over"} =>
        /\ iteration <= MaxIterationsForIntent(Intent, MaxAttempts)
        /\ Intent = "edit" => iteration < 7
        /\ errors < MaxErrors

\* Every task comes back with a verdict, whatever the models answer, unless one
\* call of a model or of a command never returns: the retries do not go round for
\* ever.
Terminates ==
    \/ <>(pc = "over")
    \/ \E stage \in {"plan", "edit", "format", "verify", "review"} : <>[](pc = stage)

\* What these invariants rest on: the facts each stage hands to the next one.
ReturnInv == exit = "running" <=> pc # "over"

MessagesInv ==
    /\ pc \in {"baseline", "plan"} => iteration = 0
    /\ pc = "continue" => messages = iteration + 1
    /\ pc \notin {"baseline", "plan", "continue", "over"} => messages = iteration

ErrorsInv == pc # "over" => errors < MaxErrors

ProgressInv ==
    /\ progress.lastFailure = NoOutput => progress.consecutive <= 1
    /\ pc # "over" => ~ IsPlateau(progress)

GateInv ==
    /\ pc = "verify" /\ baseline => ws.api = "same"
    /\ pc \in {"select", "review"} => GatesPassed
    /\ exit \in {"review skipped", "reviewed"} => GatesPassed
    /\ exit = "query answered" => IsQueryTask(modified)

StageInv == ReturnInv /\ MessagesInv /\ ErrorsInv /\ ProgressInv /\ GateInv

\* "Implement a bounded change with tool-backed verification" (README.md:142):
\* a task that changed files is not reported complete unverified.
ChangedFilesAreVerified == exit \in Done /\ touched => gate # {}

\* "abort if no file modifications after 7 iterations": the progress check
\* stops only tasks that have modified no file.
StopsOnlyWithoutModifications == exit = "no modifications" => ~ touched
=============================================================================
