------------------------------- MODULE Maestro -------------------------------
(***************************************************************************)
(* `gptcode implement plan.md --auto`: Maestro.ExecutePlan and             *)
(* ResumeExecution of internal/maestro/orchestrator.go under their only    *)
(* caller, runAutonomousImplement of cmd/gptcode/implement.go. A plan's    *)
(* steps are executed in order, each verified, retried and checkpointed;   *)
(* the process may be killed anywhere and started again, and the dashboard *)
(* may pause it (the gate of PauseGate, with Maestro as its one agent).    *)
(*                                                                         *)
(* The editor and the verifiers' commands are the environment. The working *)
(* tree is kept as far as the verifiers can tell one from another, and of  *)
(* a checkpoint only that its directory exists (see CheckpointStore).      *)
(***************************************************************************)
EXTENDS Integers, Sequences, FiniteSetsExt

CONSTANTS
    NumSteps,       \* the steps of the plan
    MaxRetries,     \* Maestro.MaxRetries: the attempts each of them gets
    Lint,           \* --lint
    MaxRuns,        \* bound: how often the command is started
    MaxPauses       \* bound: how often the dashboard pauses

ASSUME MaestroAssumption ==
    /\ NumSteps \in 0..100      \* NameRank knows step numbers of two digits
    /\ MaxRetries \in Nat \ {0}
    /\ Lint \in BOOLEAN
    /\ MaxRuns \in Nat /\ MaxPauses \in Nat

Steps == 0 .. NumSteps - 1

\* A working tree: what `git diff --diff-filter=ACMR` lists of its changed code
\* (none of it when it is all in untracked or deleted files; "error": git
\* fails), and how build, tests and lint would come out.
Trees == [diff  : {"code", "unlisted code", "no code", "error"},
          build : BOOLEAN, tests : BOOLEAN, lint : BOOLEAN]

\* What the plain `git diff` of a verifier of its own gives, whatever the one of
\* the selection gave: it fails by itself, it lists the files that were deleted
\* since, and GIT_DIR or GIT_INDEX_FILE, which only the selection clears, may
\* turn it to other files.
Listings == {"code", "other code", "no code", "error"}

VARIABLES
    pc,             \* where the process is; "off" when none runs, "wait" in CheckPause's loop
    outcome,        \* how the last process ended
    resuming,       \* ExecutePlan was called by ResumeExecution
    step,           \* stepIdx, kept in CurrentStepIdx
    attempt,        \* attempt
    history,        \* the steps whose failures the recovery prompts report
    tree,           \* the working tree
    dirs,           \* the steps with a directory under .gptcode/checkpoints
    paused,         \* ControlManager.isPaused
    runs, pauses,   \* counted against the bounds
    \* history variables, read by the properties only
    calls,          \* editor calls of this process
    verified,       \* steps of this process whose verification passed
    saved,          \* {the tree of the last checkpoint of this process}
    resumeAt,       \* the step after the checkpoint ResumeExecution found
    late,           \* editor calls completed since the dashboard paused
    blind           \* the verifiers that passed without having looked at the changed code

control == <<outcome, resuming>>
ledger  == <<calls, verified, saved, resumeAt, late, blind>>
pausing == <<paused, pauses>>
vars    == <<pc, control, step, attempt, history, tree, dirs, runs, pausing, ledger>>

-----------------------------------------------------------------------------
(* The verifiers, chosen anew for each verification.                       *)

\* Mutant of Selected: a failing git means that nothing is checked.
SelectedIfGitWorks(t) ==
    (IF t.diff = "code" THEN {"build", "tests"} ELSE {}) \cup (IF Lint THEN {"lint"} ELSE {})

\* selectVerifiers: a failing git forgets the lint verifier.
Selected(t) ==
    CASE t.diff = "error"   -> {"build", "tests"}
      [] t.diff = "code"    -> {"build", "tests"} \cup (IF Lint THEN {"lint"} ELSE {})
      [] OTHER              -> IF Lint THEN {"lint"} ELSE {}

\* BuildVerifier builds only when its own git lists code, and is content
\* otherwise, a failing git included. TestVerifier then runs all the tests, and
\* leaves the changed packages out only when it is shown others.
Looks(v, listing) ==
    CASE v = "build" -> listing = "code"
      [] v = "tests" -> listing # "other code"
      [] v = "lint"  -> TRUE

Passes(v, t, listing) == Looks(v, listing) => t[v]

-----------------------------------------------------------------------------
(* The checkpoint ResumeExecution takes for the latest: the last name in   *)
(* the order of the file system's listing. Names are ckpt_<step>_<time>    *)
(* and "_" sorts behind the digits.                                        *)

NameRank(s) == IF s < 10 THEN 11 * s + 10 ELSE 11 * (s \div 10) + (s % 10)

IsLatest(s) == \A r \in dirs : NameRank(r) <= NameRank(s)

-----------------------------------------------------------------------------
Init ==
    /\ pc = "off"
    /\ outcome = "none"
    /\ resuming = FALSE
    /\ step = 0
    /\ attempt = 0
    /\ history = <<>>
    /\ tree \in Trees
    /\ dirs = {}
    /\ paused = FALSE
    /\ runs = 0
    /\ pauses = 0
    /\ calls = 0
    /\ verified = {}
    /\ saved = {}
    /\ resumeAt = 0
    /\ late = 0
    /\ blind = {}

\* A new process: the pause and everything in memory is gone. ResumeExecution
\* finds a checkpoint with a step left behind it, or fails and the command
\* starts fresh.
Launch ==
    /\ pc = "off"
    /\ runs < MaxRuns
    /\ runs' = runs + 1
    /\ pc' = "begin"
    /\ outcome' = "none"
    /\ \/ resuming' = FALSE /\ resumeAt' = 0
       \/ \E s \in dirs :
            /\ IsLatest(s)
            /\ s + 1 < NumSteps
            /\ resuming' = TRUE
            /\ resumeAt' = s + 1
    /\ paused' = FALSE
    /\ late' = 0
    /\ calls' = 0
    /\ verified' = {}
    /\ saved' = {}
    /\ UNCHANGED <<step, attempt, history, tree, dirs, pauses, blind>>

\* The setup cannot be read or the month's budget is spent. After a failed
\* resume the command calls ExecutePlan a second time.
Refuse ==
    /\ pc = "begin"
    /\ IF resuming
         THEN /\ pc' = "begin"
              /\ resuming' = FALSE
              /\ resumeAt' = 0
              /\ UNCHANGED outcome
         ELSE /\ pc' = "off"
              /\ outcome' = "refused"
              /\ UNCHANGED <<resuming, resumeAt>>
    /\ UNCHANGED <<step, attempt, history, tree, dirs, runs, pausing, calls,
                   verified, saved, late, blind>>

\* Mutant of EnterStep: the prompts of the step before are carried along.
EnterStepKeeping(s) ==
    /\ step' = s
    /\ attempt' = 0
    /\ UNCHANGED history
    /\ IF s < NumSteps THEN pc' = "check" /\ UNCHANGED outcome
                       ELSE pc' = "off" /\ outcome' = "completed"

\* The head of the loop over the steps, or its end.
EnterStep(s) ==
    /\ step' = s
    /\ attempt' = 0
    /\ history' = <<>>
    /\ IF s < NumSteps THEN pc' = "check" /\ UNCHANGED outcome
                       ELSE pc' = "off" /\ outcome' = "completed"

\* Mutant of Retry: the next attempt does not stop at the gate.
RetryUngated(prompts) ==
    /\ pc' = "execute"
    /\ attempt' = attempt + 1
    /\ history' = prompts
    /\ UNCHANGED <<outcome, step>>

Retry(prompts) ==
    /\ pc' = "check"
    /\ attempt' = attempt + 1
    /\ history' = prompts
    /\ UNCHANGED <<outcome, step>>

\* Mutants of NextAttempt: an attempt too many, and one too few.
NextAttemptTooMany(prompts) ==
    IF attempt + 1 <= MaxRetries THEN Retry(prompts) ELSE EnterStep(step + 1)
NextAttemptTooFew(prompts) ==
    IF attempt + 2 < MaxRetries THEN Retry(prompts) ELSE EnterStep(step + 1)

\* The head of the loop over the attempts. When they are used up, the err that
\* is looked at is the step's, which the attempts' own err shadows: it is nil,
\* and the next step begins.
NextAttempt(prompts) ==
    IF attempt + 1 < MaxRetries THEN Retry(prompts) ELSE EnterStep(step + 1)

\* ExecutePlan starts with the first step, whoever called it.
Begin ==
    /\ pc = "begin"
    /\ EnterStep(0)
    /\ UNCHANGED <<resuming, tree, dirs, runs, pausing, ledger>>

\* Mutant of CheckPause: the gate does not hold.
CheckPauseOpen ==
    /\ pc = "check"
    /\ pc' = "execute"
    /\ UNCHANGED <<control, step, attempt, history, tree, dirs, runs, pausing, ledger>>

\* checkPause loads the flag: an attempt that finds it set waits.
CheckPause ==
    /\ pc = "check"
    /\ pc' = IF paused THEN "wait" ELSE "execute"
    /\ UNCHANGED <<control, step, attempt, history, tree, dirs, runs, pausing, ledger>>

\* Woken, the waiter finds the flag clear. That a Resume wakes it is not certain
\* (see ControlManager), and the flag may be set again before it looks.
Released ==
    /\ pc = "wait"
    /\ ~ paused
    /\ pc' = "execute"
    /\ UNCHANGED <<control, step, attempt, history, tree, dirs, runs, pausing, ledger>>

\* The editor works for as long as it likes: the pause may come meanwhile.
CountCall ==
    /\ calls' = calls + 1
    /\ late' = IF paused THEN late + 1 ELSE late
    /\ UNCHANGED <<verified, saved, resumeAt, blind>>

\* Mutant of ExecutionFails: the attempt does not count.
ExecutionFailsFree ==
    /\ pc = "execute"
    /\ tree' \in Trees
    /\ pc' = "check"
    /\ UNCHANGED <<control, step, attempt, history, dirs, runs, pausing, ledger>>

\* Mutant of ExecutionFails: a failed call is made again in the same attempt.
ExecutionFailsAgain ==
    /\ pc = "execute"
    /\ tree' \in Trees
    /\ CountCall
    /\ pc' = "check"
    /\ UNCHANGED <<control, step, attempt, history, dirs, runs, pausing>>

\* An error of the editor leaves what its tools did, and no recovery prompt.
ExecutionFails ==
    /\ pc = "execute"
    /\ tree' \in Trees
    /\ CountCall
    /\ NextAttempt(history)
    /\ UNCHANGED <<resuming, dirs, runs, pausing>>

ExecutionSucceeds ==
    /\ pc = "execute"
    /\ tree' \in Trees
    /\ CountCall
    /\ pc' = "verify"
    /\ UNCHANGED <<control, step, attempt, history, dirs, runs, pausing>>

VerificationPasses ==
    /\ pc = "verify"
    /\ \E own \in [{"build", "tests", "lint"} -> Listings] :
         /\ \A v \in Selected(tree) : Passes(v, tree, own[v])
         /\ blind' = {v \in Selected(tree) : ~ Looks(v, own[v])}
    /\ pc' = "mkdir"
    /\ verified' = verified \cup {step}
    /\ UNCHANGED <<control, step, attempt, history, tree, dirs, runs, pausing, calls, saved,
                   resumeAt, late>>

\* A verifier also fails when its command cannot be started or is killed. The
\* recovery prompt replaces the step's own in the next attempt's conversation.
\* The rollback before it is for a lastCheckpoint that nothing ever assigns.
VerificationFails ==
    /\ pc = "verify"
    /\ Selected(tree) # {}
    /\ NextAttempt(Append(history, step))
    /\ UNCHANGED <<resuming, tree, dirs, runs, pausing, ledger>>

\* Save creates the directory first; what fails in Save is only warned of.
MakeDirectory ==
    /\ pc = "mkdir"
    /\ pc' = "save"
    /\ dirs' = dirs \cup {step}
    /\ UNCHANGED <<control, step, attempt, history, tree, runs, pausing, calls, verified, saved,
                   resumeAt, late, blind>>

FinishSave ==
    /\ pc = "save"
    /\ EnterStep(step + 1)
    /\ saved' = {tree}
    /\ blind' = {}
    /\ UNCHANGED <<resuming, tree, dirs, runs, pausing, calls, verified, resumeAt, late>>

SaveFails ==
    /\ pc \in {"mkdir", "save"}
    /\ EnterStep(step + 1)
    /\ blind' = {}
    /\ UNCHANGED <<resuming, tree, dirs, runs, pausing, calls, verified, saved, resumeAt, late>>

\* Ctrl+C, a crash, or Kill from the dashboard. An editor that was at work
\* leaves any tree.
Die ==
    /\ pc # "off"
    /\ pc' = "off"
    /\ outcome' = "killed"
    /\ IF pc = "execute" THEN tree' \in Trees ELSE UNCHANGED tree
    /\ blind' = {}
    /\ UNCHANGED <<resuming, step, attempt, history, dirs, runs, pausing, calls, verified, saved,
                   resumeAt, late>>

Pause ==
    /\ pc # "off"
    /\ pauses < MaxPauses
    /\ paused' = TRUE
    /\ pauses' = pauses + 1
    /\ UNCHANGED <<pc, control, step, attempt, history, tree, dirs, runs, ledger>>

Resume ==
    /\ pc # "off"
    /\ paused' = FALSE
    /\ late' = 0
    /\ UNCHANGED <<pc, control, step, attempt, history, tree, dirs, runs, pauses, calls, verified,
                   saved, resumeAt, blind>>

\* Between two processes the user may do anything to the tree.
EditByHand ==
    /\ pc = "off"
    /\ tree' \in Trees
    /\ UNCHANGED <<pc, control, step, attempt, history, dirs, runs, pausing, ledger>>

\* What the process does by itself, and what it waits for: an editor whose
\* provider's HTTP client has no timeout, verifiers' commands under a context
\* that is never cancelled, and a wake-up.
Local == Refuse \/ Begin \/ CheckPause \/ MakeDirectory \/ FinishSave \/ SaveFails

Awaited ==
    \/ Released \/ ExecutionFails \/ ExecutionSucceeds \/ VerificationPasses \/ VerificationFails

Process == Local \/ Awaited

Next == Launch \/ Process \/ Die \/ Pause \/ Resume \/ EditByHand

Spec == Init /\ [][Next]_vars

\* A process that can go on by itself does. Nothing it waits for need ever come.
FairSpec == Spec /\ WF_vars(Local)

-----------------------------------------------------------------------------
TypeOK ==
    /\ pc \in {"off", "begin", "check", "wait", "execute", "verify", "mkdir", "save"}
    /\ outcome \in {"none", "completed", "refused", "killed"}
    /\ resuming \in BOOLEAN
    /\ step \in 0..NumSteps
    /\ pc \in {"check", "wait", "execute", "verify", "mkdir", "save"} => step < NumSteps
    /\ attempt \in 0..MaxRetries - 1
    /\ history \in Seq(Steps)
    /\ tree \in Trees
    /\ dirs \in SUBSET Steps
    /\ paused \in BOOLEAN
    /\ runs \in 0..MaxRuns
    /\ pauses \in 0..MaxPauses
    /\ calls \in Nat
    /\ verified \in SUBSET Steps
    /\ saved \in SUBSET Trees
    /\ resumeAt \in 0..NumSteps
    /\ late \in Nat
    /\ blind \in SUBSET {"build", "tests"}

\* The editor is told of failures of the step it is at, and of no other, and
\* of at most one failure for each attempt made so far: the prompts of a step
\* end with the step ("Track history across attempts").
PromptsAreOfThisStep ==
    /\ \A i \in DOMAIN history : history[i] = step
    /\ Len(history) <= attempt

\* What is checkpointed is a tree that build and tests, on request lint, have
\* passed on: the ones that the selection's git asks for, the first two when
\* that git fails. Only a verifier whose own git hid the changed code from it may
\* have let it by.
CheckpointsAreVerified ==
    pc = "save" =>
        /\ tree.diff \in {"code", "error"} => \A v \in {"build", "tests"} \ blind : tree[v]
        /\ tree.diff # "error" /\ Lint => tree.lint

\* "Pause halts execution at the next checkpoint": of a paused process only the
\* editor call that was already past the gate comes to its end.
PauseHolds == late <= 1

\* 1 when the editor has been called in this attempt.
Finished ==
    IF pc \in {"check", "wait", "execute"} \/ (pc = "off" /\ outcome = "completed") THEN 0 ELSE 1

\* Paused with a call come to its end, the process stands before the gate.
PauseInv == late > 0 => paused /\ pc # "execute"

\* A process makes at most MaxRetries editor calls for each step, whatever
\* fails in between; a resume that fails and starts fresh does not double them.
CallsAreBounded ==
    calls <= IF pc = "begin" THEN 0 ELSE step * MaxRetries + attempt + Finished

\* A step is left behind only verified or with all its attempts used up.
StepsGetTheirAttempts ==
    [][step' = step + 1 => step \in verified \/ attempt = MaxRetries - 1]_vars

InCheckPause == {"check", "wait"}

Gate == INSTANCE PauseGate WITH
            Agents <- {"maestro"},
            held   <- IF pc \in InCheckPause THEN {"maestro"} ELSE {}

\* For as long as the process lives it is an agent of the gate that
\* ControlManager implements: it goes on to an attempt only out of CheckPause.
UsesTheGate == [][Gate!Next \/ pc' = "off"]_<<paused, pc \in InCheckPause>>

\* Each process comes to its end, unless one call of the editor, one run of the
\* verifiers or one wait in CheckPause, the last paused or with its Resume lost,
\* never does: the retries and the steps do not go round for ever.
Terminates ==
    []<>(pc = "off") \/ \E stage \in {"wait", "execute", "verify"} : <>[](pc = stage)

\* "step %d failed after %d retries" is the error of a step that cannot be
\* verified: what is reported complete has all its steps verified.
CompletedMeansVerified == outcome = "completed" => verified = Steps

\* "Verifies with build + tests after each step": a checkpoint of changed code
\* that git could list is of code that builds.
VisibleCodeIsBuilt == pc = "save" /\ tree.diff = "code" => tree.build

\* "Rolls back on failure": a failed build puts the last checkpoint's tree back
\* before the next attempt.
RollsBack ==
    [][pc = "verify" /\ pc' = "check" /\ step' = step /\ tree.diff = "code" /\ ~ tree.build
        => saved = {} \/ tree' \in saved]_vars

\* "ResumeExecution continues from the last successful checkpoint": no step
\* before it is executed again.
ResumeContinues == resuming /\ pc = "execute" => step >= resumeAt
=============================================================================
