---------------------------- MODULE Maestro_proofs ----------------------------
(***************************************************************************)
(* Proofs about Maestro for every plan, retry limit and number of runs.    *)
(* The invariants of the run maestro become inductive together with        *)
(* PauseInv and CheckpointsInv; a process's own steps bring it nearer to   *)
(* its end.                                                                *)
(***************************************************************************)
EXTENDS Maestro, TLAPS

IInv ==
    /\ TypeOK
    /\ PromptsAreOfThisStep
    /\ CheckpointsAreVerified
    /\ PauseHolds /\ PauseInv
    /\ CallsAreBounded

LEMMA Constants == MaxRetries \in Nat \ {0} /\ NumSteps \in Nat
BY MaestroAssumption

\* What a new step of the loop over the steps hands to the first attempt.
LEMMA EnterStepType ==
    ASSUME TypeOK, NEW s \in Nat, s <= NumSteps, EnterStep(s)
    PROVE  /\ pc' \in {"check", "off"} /\ (pc' = "check" => s < NumSteps)
           /\ outcome' \in {"none", "completed", "refused", "killed"}
           /\ step' \in 0..NumSteps /\ step' = s
           /\ attempt' \in 0..MaxRetries - 1 /\ attempt' = 0
           /\ history' \in Seq(Steps) /\ history' = <<>>
           /\ pc' = "off" => outcome' = "completed"
BY Constants DEF EnterStep, TypeOK

\* What the next attempt, or the next step after the last attempt, starts from.
LEMMA NextAttemptType ==
    ASSUME TypeOK, step < NumSteps, NEW h \in Seq(Steps), NextAttempt(h)
    PROVE  /\ pc' \in {"check", "off"} /\ (pc' = "check" => step' < NumSteps)
           /\ outcome' \in {"none", "completed", "refused", "killed"}
           /\ step' \in 0..NumSteps
           /\ attempt' \in 0..MaxRetries - 1
           /\ history' \in Seq(Steps)
           /\ \/ step' = step /\ attempt' = attempt + 1 /\ history' = h /\ pc' = "check"
              \/ /\ step' = step + 1 /\ attempt = MaxRetries - 1 /\ attempt' = 0 /\ history' = <<>>
                 /\ pc' = "off" => outcome' = "completed"
<1>0. attempt \in Nat /\ step \in Nat /\ MaxRetries \in Nat \ {0}
  BY Constants DEF TypeOK
<1>1. CASE attempt + 1 < MaxRetries
  <2>1. Retry(h)
    BY <1>1 DEF NextAttempt
  <2>2. pc' = "check" /\ attempt' = attempt + 1 /\ history' = h /\ outcome' = outcome /\ step' = step
    BY <2>1 DEF Retry
  <2> QED
    BY <1>0, <1>1, <2>2 DEF TypeOK
<1>2. CASE ~ (attempt + 1 < MaxRetries)
  <2>1. EnterStep(step + 1) /\ step + 1 \in Nat /\ step + 1 <= NumSteps
    BY <1>0, <1>2, Constants DEF NextAttempt
  <2>2. attempt = MaxRetries - 1
    BY <1>0, <1>2 DEF TypeOK
  <2> QED
    BY <2>1, <2>2, EnterStepType
<1> QED
  BY <1>1, <1>2

LEMMA InitIInv == Init => IInv
<1> SUFFICES ASSUME Init PROVE IInv
  OBVIOUS
<1> USE DEF Init
<1>1. 0 \in 0..NumSteps /\ 0 \in 0..MaxRetries - 1 /\ 0 \in 0..MaxRuns /\ 0 \in 0..MaxPauses
  BY MaestroAssumption
<1>2. <<>> \in Seq(Steps)
  OBVIOUS
<1>3. TypeOK
  BY <1>1, <1>2 DEF TypeOK
<1>4. PromptsAreOfThisStep
  BY DEF PromptsAreOfThisStep
<1>5. CallsAreBounded
  BY Constants DEF CallsAreBounded, Finished
<1> QED
  BY <1>3, <1>4, <1>5 DEF IInv, CheckpointsAreVerified, PauseHolds, PauseInv

\* Each step of the process, of its user and of the dashboard keeps the types.
LEMMA TypeStep == TypeOK /\ [Next]_vars => TypeOK'
<1> SUFFICES ASSUME TypeOK, [Next]_vars PROVE TypeOK'
  OBVIOUS
<1>0. MaxRetries \in Nat \ {0} /\ NumSteps \in Nat
  BY Constants
<1>s. Steps \subseteq Int /\ \A s \in Steps : s + 1 \in 0..NumSteps
  BY <1>0 DEF Steps
<1>w. pc \in {"check", "wait", "execute", "verify", "mkdir", "save"} => step \in Steps
  BY <1>0 DEF TypeOK, Steps
<1> USE DEF control, ledger, pausing
<1>1. CASE Launch
  <2>1. resumeAt' \in 0..NumSteps /\ resuming' \in BOOLEAN
    <3>1. CASE resuming' = FALSE /\ resumeAt' = 0
      <4>1. 0 \in 0..NumSteps
        BY <1>0
      <4> QED
        BY <3>1, <4>1
    <3>2. ASSUME NEW s \in dirs, resuming' = TRUE, resumeAt' = s + 1
                 PROVE  resumeAt' \in 0..NumSteps /\ resuming' \in BOOLEAN
      <4>1. s \in Steps
        BY <3>2 DEF TypeOK
      <4>2. s + 1 \in 0..NumSteps
        BY <1>s, <4>1
      <4> QED
        BY <3>2, <4>2
    <3> QED
      BY <1>1, <3>1, <3>2 DEF Launch
  <2>2. runs' \in 0..MaxRuns
    BY <1>1, MaestroAssumption DEF Launch, TypeOK
  <2> QED
    BY <1>1, <2>1, <2>2 DEF Launch, TypeOK
<1>2. CASE Refuse
  <2>1. CASE resuming
    <3>1. 0 \in 0..NumSteps
      BY <1>0
    <3>2. pc' = "begin" /\ resuming' = FALSE /\ resumeAt' = 0 /\ outcome' = outcome
      BY <1>2, <2>1 DEF Refuse
    <3> QED
      BY <1>2, <3>1, <3>2 DEF Refuse, TypeOK
  <2>2. CASE ~ resuming
    BY <1>2, <2>2 DEF Refuse, TypeOK
  <2> QED
    BY <2>1, <2>2
<1>3. CASE Begin
  BY <1>0, <1>3, EnterStepType DEF Begin, TypeOK
<1>4. CASE CheckPause \/ Released
  BY <1>4 DEF CheckPause, Released, TypeOK
<1>5. CASE ExecutionFails
  BY <1>5, NextAttemptType DEF ExecutionFails, CountCall, TypeOK
<1>6. CASE ExecutionSucceeds
  BY <1>6 DEF ExecutionSucceeds, CountCall, TypeOK
<1>7. CASE VerificationPasses
  <2>1. blind' \in SUBSET {"build", "tests"}
    BY <1>7 DEF VerificationPasses, Selected, Looks
  <2> QED
    BY <1>7, <1>w, <2>1 DEF VerificationPasses, TypeOK
<1>8. CASE VerificationFails
  <2>1. Append(history, step) \in Seq(Steps)
    BY <1>8, <1>0 DEF VerificationFails, TypeOK, Steps
  <2> QED
    BY <1>8, <2>1, NextAttemptType DEF VerificationFails, TypeOK
<1>9. CASE MakeDirectory
  BY <1>9, <1>w DEF MakeDirectory, TypeOK
<1>10. CASE FinishSave
  <2>1. step + 1 \in Nat /\ step + 1 <= NumSteps
    BY <1>0, <1>10 DEF FinishSave, TypeOK
  <2> QED
    BY <1>10, <2>1, EnterStepType DEF FinishSave, TypeOK
<1>11. CASE SaveFails
  <2>1. step + 1 \in Nat /\ step + 1 <= NumSteps
    BY <1>0, <1>11 DEF SaveFails, TypeOK
  <2> QED
    BY <1>11, <2>1, EnterStepType DEF SaveFails, TypeOK
<1>12. CASE Die
  BY <1>12 DEF Die, TypeOK
<1>13. CASE Pause
  BY <1>13, MaestroAssumption DEF Pause, TypeOK
<1>14. CASE Resume
  BY <1>14 DEF Resume, TypeOK
<1>15. CASE EditByHand
  BY <1>15 DEF EditByHand, TypeOK
<1>16. CASE UNCHANGED vars
  BY <1>16 DEF vars, TypeOK
<1> QED
  BY <1>1, <1>2, <1>3, <1>4, <1>5, <1>6, <1>7, <1>8, <1>9, <1>10, <1>11, <1>12, <1>13, <1>14,
     <1>15, <1>16 DEF Next, Process, Local, Awaited

-----------------------------------------------------------------------------
\* The prompts of a step are its own, and no more of them than attempts made.
LEMMA PromptsStep ==
    ASSUME TypeOK, PromptsAreOfThisStep, [Next]_vars PROVE PromptsAreOfThisStep'
<1> USE DEF PromptsAreOfThisStep, control, ledger, pausing
<1>0. attempt \in Nat /\ history \in Seq(Steps)
  BY Constants DEF TypeOK
<1>1. ASSUME NEW s \in Nat, s <= NumSteps, EnterStep(s) PROVE PromptsAreOfThisStep'
  BY <1>1, EnterStepType
<1>2. ASSUME step < NumSteps, NEW h \in Seq(Steps), NextAttempt(h),
             \A i \in DOMAIN h : h[i] = step, Len(h) <= attempt + 1
      PROVE  PromptsAreOfThisStep'
  BY <1>2, NextAttemptType
<1>n. pc \in {"mkdir", "save"} => step + 1 \in Nat /\ step + 1 <= NumSteps
  BY Constants DEF TypeOK
<1>3. CASE Begin
  BY <1>1, <1>3, Constants DEF Begin
<1>4. CASE ExecutionFails
  BY <1>0, <1>2, <1>4 DEF ExecutionFails, TypeOK
<1>5. CASE VerificationFails
  <2> DEFINE h == Append(history, step)
  <2>1. step \in Steps /\ step < NumSteps
    BY <1>5, Constants DEF VerificationFails, TypeOK, Steps
  <2>2. h \in Seq(Steps) /\ Len(h) = Len(history) + 1
    BY <1>0, <2>1
  <2>3. \A i \in DOMAIN h : h[i] = step
    BY <1>0, <2>1
  <2>4. Len(h) <= attempt + 1
    BY <1>0, <2>2
  <2>5. NextAttempt(h)
    BY <1>5 DEF VerificationFails
  <2> HIDE DEF h
  <2> QED
    BY <1>2, <2>1, <2>2, <2>3, <2>4, <2>5
<1>6. CASE FinishSave \/ SaveFails
  BY <1>1, <1>6, <1>n DEF FinishSave, SaveFails
<1>7. CASE Launch \/ Refuse \/ CheckPause \/ Released \/ ExecutionSucceeds \/ VerificationPasses
           \/ MakeDirectory \/ Die \/ Pause \/ Resume \/ EditByHand \/ UNCHANGED vars
  <2>1. UNCHANGED <<step, attempt, history>>
    BY <1>7 DEF Launch, Refuse, CheckPause, Released, ExecutionSucceeds, VerificationPasses,
                MakeDirectory, Die, Pause, Resume, EditByHand, vars
  <2> QED
    BY <2>1
<1> QED
  BY <1>3, <1>4, <1>5, <1>6, <1>7 DEF Next, Process, Local, Awaited

-----------------------------------------------------------------------------
\* Where pc goes is all the pause needs of EnterStep and NextAttempt.
LEMMA LoopHead ==
    /\ \A s : EnterStep(s) => pc' \in {"check", "off"}
    /\ \A h : NextAttempt(h) => pc' \in {"check", "off"}
BY DEF EnterStep, NextAttempt, Retry

\* One editor call at most comes to its end while the process is paused.
LEMMA PauseStep ==
    ASSUME TypeOK, PauseHolds, PauseInv, [Next]_vars PROVE PauseHolds' /\ PauseInv'
<1> USE DEF PauseHolds, PauseInv, control, ledger, pausing
<1>0. late \in Nat /\ paused \in BOOLEAN
  BY DEF TypeOK
<1>1. ASSUME late' = late, paused' = paused, pc' # "execute" PROVE PauseHolds' /\ PauseInv'
  BY <1>1
<1>2. ASSUME late' = 0 PROVE PauseHolds' /\ PauseInv'
  BY <1>2
<1>3. ASSUME pc = "execute", CountCall, paused' = paused, pc' # "execute"
      PROVE  PauseHolds' /\ PauseInv'
  <2>1. late = 0
    BY <1>0, <1>3
  <2>2. late' = IF paused THEN late + 1 ELSE late
    BY <1>3 DEF CountCall
  <2> QED
    BY <1>3, <2>1, <2>2
<1>4. CASE Launch \/ Resume
  BY <1>2, <1>4 DEF Launch, Resume
<1>5. CASE ExecutionFails \/ ExecutionSucceeds
  <2>1. pc = "execute" /\ CountCall /\ paused' = paused /\ pc' # "execute"
    BY <1>5, LoopHead DEF ExecutionFails, ExecutionSucceeds
  <2> QED
    BY <1>3, <2>1
<1>6. CASE CheckPause \/ Released
  <2>1. late' = late /\ paused' = paused
    BY <1>6 DEF CheckPause, Released
  <2>2. CASE paused
    BY <1>1, <1>6, <2>1, <2>2 DEF CheckPause, Released
  <2>3. CASE ~ paused
    BY <1>2, <2>1, <2>3
  <2> QED
    BY <2>2, <2>3
<1>7. CASE Refuse \/ Begin \/ VerificationPasses \/ VerificationFails \/ MakeDirectory \/ FinishSave
           \/ SaveFails \/ Die
  <2>1. late' = late /\ paused' = paused /\ pc' # "execute"
    BY <1>7, LoopHead DEF Refuse, Begin, VerificationPasses, VerificationFails, MakeDirectory,
                          FinishSave, SaveFails, Die
  <2> QED
    BY <1>1, <2>1
<1>8. CASE Pause
  BY <1>8 DEF Pause
<1>9. CASE EditByHand \/ UNCHANGED vars
  BY <1>9 DEF EditByHand, vars
<1> QED
  BY <1>4, <1>5, <1>6, <1>7, <1>8, <1>9 DEF Next, Process, Local, Awaited

-----------------------------------------------------------------------------
\* A directory is made only behind a verification of its step that passed on
\* the same tree, as far as the verifiers looked at it.
CheckpointsInv ==
    pc \in {"mkdir", "save"} => step \in verified /\ \A v \in Selected(tree) \ blind : tree[v]

LEMMA CheckpointsStep ==
    ASSUME TypeOK, CheckpointsInv, [Next]_vars PROVE CheckpointsInv'
<1> USE DEF CheckpointsInv, control, ledger, pausing
<1>1. CASE VerificationPasses
  <2>1. PICK own : /\ \A v \in Selected(tree) : Passes(v, tree, own[v])
                   /\ blind' = {v \in Selected(tree) : ~ Looks(v, own[v])}
    BY <1>1 DEF VerificationPasses
  <2>2. \A v \in Selected(tree) \ blind' : tree[v]
    BY <2>1 DEF Passes
  <2>3. UNCHANGED <<tree, step>> /\ step \in verified'
    BY <1>1 DEF VerificationPasses
  <2> QED
    BY <2>2, <2>3 DEF Selected
<1>2. CASE MakeDirectory
  BY <1>2 DEF MakeDirectory, Selected
<1>3. CASE Launch \/ Refuse \/ Begin \/ CheckPause \/ Released \/ ExecutionFails
           \/ ExecutionSucceeds \/ VerificationFails \/ FinishSave \/ SaveFails \/ Die \/ EditByHand
  <2>1. pc' \notin {"mkdir", "save"}
    BY <1>3, LoopHead DEF Launch, Refuse, Begin, CheckPause, Released, ExecutionFails,
                          ExecutionSucceeds, VerificationFails, FinishSave, SaveFails, Die, EditByHand
  <2> QED
    BY <2>1
<1>4. CASE Pause \/ Resume \/ UNCHANGED vars
  <2>1. UNCHANGED <<pc, step, verified, tree, blind>>
    BY <1>4 DEF Pause, Resume, vars
  <2> QED
    BY <2>1 DEF Selected
<1> QED
  BY <1>1, <1>2, <1>3, <1>4 DEF Next, Process, Local, Awaited

-----------------------------------------------------------------------------
\* The editor's calls are paid for by the attempts they were made in.
LEMMA CallsStep ==
    ASSUME TypeOK, CallsAreBounded, [Next]_vars PROVE CallsAreBounded'
<1> DEFINE Paid == step * MaxRetries + attempt
<1> USE DEF control, ledger, pausing
<1>0. /\ MaxRetries \in Nat \ {0} /\ NumSteps \in Nat
      /\ step \in Nat /\ attempt \in Nat /\ calls \in Nat
      /\ attempt <= MaxRetries - 1
      /\ step * MaxRetries \in Nat /\ 0 * MaxRetries = 0
      /\ (step + 1) * MaxRetries = step * MaxRetries + MaxRetries
  BY Constants DEF TypeOK
<1>b. Finished \in {0, 1} /\ Finished' \in {0, 1}
  BY DEF Finished
<1>c. pc # "begin" => calls <= Paid + Finished
  BY DEF CallsAreBounded
\* A step that counts no call and leaves the counters leaves the bound, unless
\* it takes back that the editor was called.
<1>1. ASSUME pc # "begin", calls' = calls, step' = step, attempt' = attempt,
             Finished' = Finished, pc' # "begin"
      PROVE  CallsAreBounded'
  BY <1>c, <1>1 DEF CallsAreBounded
\* Entering the next step pays for the call of the attempt it leaves.
<1>2. ASSUME pc # "begin", calls' <= Paid + 1, step' = step + 1, attempt' = 0, calls' \in Nat,
             pc' # "begin"
      PROVE  CallsAreBounded'
  <2>1. calls' <= step * MaxRetries + MaxRetries
    BY <1>0, <1>2
  <2>2. calls' <= step' * MaxRetries + attempt'
    BY <1>0, <1>2, <2>1
  <2>3. step' * MaxRetries + attempt' \in Nat
    BY <1>0, <1>2
  <2> HIDE DEF Paid
  <2> QED
    BY <1>b, <1>2, <2>2, <2>3 DEF CallsAreBounded
<1>3. ASSUME NEW h \in Seq(Steps), NextAttempt(h), pc # "begin", step < NumSteps,
             calls' <= Paid + 1, calls' \in Nat
      PROVE  CallsAreBounded'
  <2>0. pc' # "begin"
    BY <1>3, LoopHead
  <2>1. CASE step' = step + 1 /\ attempt' = 0
    BY <1>2, <1>3, <2>0, <2>1
  <2>2. CASE step' = step /\ attempt' = attempt + 1
    <3>1. step' * MaxRetries = step * MaxRetries
      BY <2>2
    <3>2. calls' <= step' * MaxRetries + attempt' /\ step' * MaxRetries + attempt' \in Nat
      BY <1>0, <1>3, <2>2, <3>1
    <3> HIDE DEF Paid
    <3> QED
      BY <1>b, <1>3, <2>0, <3>2 DEF CallsAreBounded
  <2> QED
    BY <1>3, <2>1, <2>2, NextAttemptType
<1>4. CASE Launch
  BY <1>4 DEF Launch, CallsAreBounded
<1>5. CASE Refuse
  <2>1. calls = 0 /\ calls' = 0
    BY <1>0, <1>5 DEF Refuse, CallsAreBounded
  <2>2. step' * MaxRetries + attempt' \in Nat
    BY <1>0, <1>5 DEF Refuse
  <2> QED
    BY <1>b, <2>1, <2>2 DEF CallsAreBounded
<1>6. CASE Begin
  <2>1. calls = 0 /\ calls' = 0
    BY <1>0, <1>6 DEF Begin, CallsAreBounded
  <2>2. step' = 0 /\ attempt' = 0
    BY <1>0, <1>6, EnterStepType DEF Begin
  <2>3. step' * MaxRetries + attempt' = 0
    BY <1>0, <2>2
  <2> QED
    BY <1>b, <2>1, <2>3 DEF CallsAreBounded
<1>7. CASE CheckPause \/ Released
  BY <1>1, <1>7 DEF CheckPause, Released, Finished
<1>8. CASE ExecutionFails
  <2>2. pc = "execute" => Finished = 0
    BY DEF Finished
  <2>3. calls' = calls + 1 /\ NextAttempt(history) /\ history \in Seq(Steps) /\ pc = "execute"
    BY <1>8 DEF ExecutionFails, CountCall, TypeOK
  <2>4. step < NumSteps
    BY <2>3 DEF TypeOK
  <2>5. calls' <= Paid + 1 /\ calls' \in Nat
    BY <1>0, <1>c, <2>2, <2>3
  <2> HIDE DEF Paid
  <2> QED
    BY <1>3, <2>3, <2>4, <2>5
<1>9. CASE ExecutionSucceeds
  <2>1. Finished = 0 /\ Finished' = 1 /\ pc # "begin" /\ pc' # "begin"
    BY <1>9 DEF ExecutionSucceeds, Finished
  <2>2. calls' = calls + 1 /\ step' = step /\ attempt' = attempt
    BY <1>9 DEF ExecutionSucceeds, CountCall
  <2>3. calls' <= Paid + 1
    BY <1>0, <1>c, <2>1, <2>2
  <2> QED
    BY <2>1, <2>2, <2>3 DEF CallsAreBounded
<1>10. CASE VerificationPasses \/ MakeDirectory
  <2>1. Finished' = Finished /\ pc # "begin" /\ pc' # "begin"
    BY <1>10 DEF VerificationPasses, MakeDirectory, Finished
  <2> QED
    BY <1>1, <1>10, <2>1 DEF VerificationPasses, MakeDirectory
<1>11. CASE VerificationFails
  <2>1. pc = "verify" /\ calls' = calls /\ NextAttempt(Append(history, step))
    BY <1>11 DEF VerificationFails
  <2>2. step \in Steps /\ step < NumSteps
    BY <2>1, Constants DEF TypeOK, Steps
  <2>3. Append(history, step) \in Seq(Steps)
    BY <2>2 DEF TypeOK
  <2>4. Finished = 1
    BY <2>1 DEF Finished
  <2>5. calls' <= Paid + 1 /\ calls' \in Nat
    BY <1>0, <1>c, <2>1, <2>4
  <2> HIDE DEF Paid
  <2> QED
    BY <1>3, <2>1, <2>2, <2>3, <2>5
<1>12. CASE FinishSave \/ SaveFails
  <2>1. pc \in {"mkdir", "save"} /\ calls' = calls /\ EnterStep(step + 1)
    BY <1>12 DEF FinishSave, SaveFails
  <2>2. step + 1 \in Nat /\ step + 1 <= NumSteps
    BY <1>0, <2>1 DEF TypeOK
  <2>3. step' = step + 1 /\ attempt' = 0 /\ pc' # "begin"
    BY <2>1, <2>2, EnterStepType
  <2>4. Finished = 1
    BY <2>1 DEF Finished
  <2>5. calls' <= Paid + 1 /\ calls' \in Nat
    BY <1>0, <1>c, <2>1, <2>4
  <2> HIDE DEF Paid
  <2> QED
    BY <1>2, <2>1, <2>3, <2>5
<1>13. CASE Die
  <2>1. calls' = calls /\ step' = step /\ attempt' = attempt /\ pc' = "off" /\ Finished' = 1
    BY <1>13 DEF Die, Finished
  <2>2. CASE pc = "begin"
    <3>1. calls = 0
      BY <1>0, <2>2 DEF CallsAreBounded
    <3> QED
      BY <1>0, <2>1, <3>1 DEF CallsAreBounded
  <2>3. CASE pc # "begin"
    <3>1. calls' <= Paid + 1
      BY <1>0, <1>b, <1>c, <2>1, <2>3
    <3> QED
      BY <2>1, <3>1 DEF CallsAreBounded
  <2> QED
    BY <2>2, <2>3
<1>14. CASE Pause \/ Resume \/ EditByHand \/ UNCHANGED vars
  <2>1. UNCHANGED <<pc, outcome, calls, step, attempt>>
    BY <1>14 DEF Pause, Resume, EditByHand, vars
  <2> QED
    BY <2>1 DEF CallsAreBounded, Finished
<1> QED
  BY <1>4, <1>5, <1>6, <1>7, <1>8, <1>9, <1>10, <1>11, <1>12, <1>13, <1>14
     DEF Next, Process, Local, Awaited

-----------------------------------------------------------------------------
LEMMA Inductive == IInv /\ CheckpointsInv /\ [Next]_vars => (IInv /\ CheckpointsInv)'
<1> SUFFICES ASSUME IInv, CheckpointsInv, [Next]_vars PROVE (IInv /\ CheckpointsInv)'
  OBVIOUS
<1>1. TypeOK' /\ PromptsAreOfThisStep' /\ PauseHolds' /\ PauseInv' /\ CallsAreBounded'
  BY TypeStep, PromptsStep, PauseStep, CallsStep DEF IInv
<1>2. CheckpointsInv'
  BY CheckpointsStep DEF IInv
<1>3. CheckpointsAreVerified'
  <2> SUFFICES ASSUME pc' = "save" PROVE CheckpointsAreVerified'
    BY DEF CheckpointsAreVerified
  <2>1. \A v \in Selected(tree') \ blind' : (tree')[v]
    BY <1>2 DEF CheckpointsInv, Selected
  <2>2. tree'.diff \in {"code", "error"} => {"build", "tests"} \subseteq Selected(tree')
    BY DEF Selected
  <2>3. tree'.diff # "error" /\ Lint => "lint" \in Selected(tree') \ blind'
    BY <1>1 DEF Selected, TypeOK, Trees
  <2>4. tree'["lint"] = tree'.lint
    BY <1>1 DEF TypeOK, Trees
  <2> QED
    BY <2>1, <2>2, <2>3, <2>4 DEF CheckpointsAreVerified
<1> QED
  BY <1>1, <1>2, <1>3 DEF IInv

\* The state of an autonomous run is well formed through kills, restarts and
\* pauses, whatever the plan and the limits of ExecutePlan.
THEOREM Invariance == Spec => [](IInv /\ CheckpointsInv)
<1>1. Init => IInv /\ CheckpointsInv
  BY InitIInv DEF Init, CheckpointsInv
<1> QED
  BY <1>1, Inductive, PTL DEF Spec

\* The counters of ExecutePlan, the tree and the directories keep their types,
\* and a process that works on a step works on one of the plan.
THEOREM TypeCorrect == Spec => []TypeOK
BY Invariance, PTL DEF IInv

\* ExecutePlan gives an editor no prompt about another step than its own.
THEOREM PromptsAreOfThisStepAlways == Spec => []PromptsAreOfThisStep
BY Invariance, PTL DEF IInv

\* Save is reached only with a tree that the selected verifiers have passed on,
\* or whose changes their own git did not show them.
THEOREM CheckpointsAreVerifiedAlways == Spec => []CheckpointsAreVerified
BY Invariance, PTL DEF IInv

\* Of a paused run one editor call at most comes to its end.
THEOREM PauseHoldsAlways == Spec => []PauseHolds
BY Invariance, PTL DEF IInv

\* One run of the command makes at most MaxRetries editor calls for each step
\* of ExecutePlan's loop, and none for a resume that failed.
THEOREM CallsAreBoundedAlways == Spec => []CallsAreBounded
BY Invariance, PTL DEF IInv

LEMMA StepStep ==
    ASSUME IInv, CheckpointsInv, [Next]_vars
    PROVE  [step' = step + 1 => step \in verified \/ attempt = MaxRetries - 1]_vars
<1> USE DEF control, ledger, pausing
<1>0. step \in Nat /\ step # step + 1 /\ 0 # step + 1
  BY Constants DEF IInv, TypeOK
<1>1. CASE ExecutionFails \/ VerificationFails
  <2>1. PICK h \in Seq(Steps) : NextAttempt(h)
    <3>1. step < NumSteps /\ step \in Steps
      BY <1>1, Constants DEF ExecutionFails, VerificationFails, IInv, TypeOK, Steps
    <3>2. history \in Seq(Steps) /\ Append(history, step) \in Seq(Steps)
      BY <3>1 DEF IInv, TypeOK
    <3> QED
      BY <1>1, <3>2 DEF ExecutionFails, VerificationFails
  <2>2. step < NumSteps
    BY <1>1 DEF ExecutionFails, VerificationFails, IInv, TypeOK
  <2> QED
    BY <1>0, <2>1, <2>2, NextAttemptType DEF IInv
<1>2. CASE FinishSave \/ SaveFails
  BY <1>2 DEF FinishSave, SaveFails, CheckpointsInv
<1>3. CASE Begin
  BY <1>0, <1>3, Constants, EnterStepType DEF Begin, IInv
<1>4. CASE Launch \/ Refuse \/ CheckPause \/ Released \/ ExecutionSucceeds \/ VerificationPasses
           \/ MakeDirectory \/ Die \/ Pause \/ Resume \/ EditByHand \/ UNCHANGED vars
  <2>1. step' = step
    BY <1>4 DEF Launch, Refuse, CheckPause, Released, ExecutionSucceeds, VerificationPasses,
                MakeDirectory, Die, Pause, Resume, EditByHand, vars
  <2> QED
    BY <1>0, <2>1
<1> QED
  BY <1>1, <1>2, <1>3, <1>4 DEF Next, Process, Local, Awaited

\* A step is left behind only verified or with its attempts used up: the loop
\* over the attempts in ExecutePlan has no other way out.
THEOREM StepsGetTheirAttemptsAlways == Spec => StepsGetTheirAttempts
BY Invariance, StepStep, PTL DEF Spec, StepsGetTheirAttempts

-----------------------------------------------------------------------------
(* Maestro as an agent of the gate.                                          *)

LEMMA ToTheGate ==
    ASSUME pc \notin InCheckPause, pc' \in {"check", "off"}, paused' = paused
    PROVE  Gate!Next \/ pc' = "off"
BY DEF Gate!Next, Gate!Arrive, InCheckPause

LEMMA NotAtTheGate ==
    ASSUME (pc \in InCheckPause)' = (pc \in InCheckPause), paused' = paused
    PROVE  UNCHANGED <<paused, pc \in InCheckPause>>
OBVIOUS

LEMMA GateStep ==
    ASSUME TypeOK, [Next]_vars
    PROVE  [Gate!Next \/ pc' = "off"]_<<paused, pc \in InCheckPause>>
<1>0. paused \in BOOLEAN
  BY DEF TypeOK
<1>1. CASE Launch
  <2>1. pc \notin InCheckPause /\ pc' \notin InCheckPause /\ paused' = FALSE
    BY <1>1 DEF Launch, InCheckPause
  <2>2. Gate!Resume
    BY <2>1 DEF Gate!Resume
  <2> QED
    BY <2>2 DEF Gate!Next
<1>2. CASE Begin \/ ExecutionFails \/ VerificationFails \/ FinishSave \/ SaveFails
  <2>1. pc \notin InCheckPause /\ pc' \in {"check", "off"} /\ paused' = paused
    BY <1>2 DEF Begin, ExecutionFails, VerificationFails, FinishSave, SaveFails, NextAttempt,
                Retry, EnterStep, pausing, InCheckPause
  <2> QED
    BY <2>1, ToTheGate
<1>3. CASE Refuse \/ ExecutionSucceeds \/ VerificationPasses \/ MakeDirectory
  <2>1. pc \notin InCheckPause /\ pc' \notin InCheckPause /\ paused' = paused
    BY <1>3 DEF Refuse, ExecutionSucceeds, VerificationPasses, MakeDirectory, pausing, InCheckPause
  <2> QED
    BY <2>1, NotAtTheGate
<1>4. ASSUME pc \in InCheckPause, pc' = "execute", ~ paused, paused' = paused
      PROVE  Gate!Next
  BY <1>4 DEF Gate!Next, Gate!Clear, InCheckPause
<1>5. CASE CheckPause
  <2>1. CASE paused
    <3>1. pc \in InCheckPause /\ pc' \in InCheckPause /\ paused' = paused
      BY <1>5, <2>1 DEF CheckPause, InCheckPause, pausing
    <3> QED
      BY <3>1, NotAtTheGate
  <2>2. CASE ~ paused
    BY <1>4, <1>5, <2>2 DEF CheckPause, InCheckPause, pausing
  <2> QED
    BY <2>1, <2>2
<1>6. CASE Released
  BY <1>4, <1>6 DEF Released, InCheckPause, pausing
<1>7. CASE Die
  BY <1>7 DEF Die
<1>8. CASE Pause
  BY <1>8 DEF Pause, Gate!Next, Gate!Pause
<1>9. CASE Resume
  BY <1>9 DEF Resume, Gate!Next, Gate!Resume
<1>10. CASE EditByHand \/ UNCHANGED vars
  <2>1. pc' = pc /\ paused' = paused
    BY <1>10 DEF EditByHand, vars, pausing
  <2> QED
    BY <2>1
<1> QED
  BY <1>1, <1>2, <1>3, <1>5, <1>6, <1>7, <1>8, <1>9, <1>10 DEF Next, Process, Local, Awaited

\* ExecutePlan uses CheckPause as PauseGate demands: from the head of its loop
\* over the attempts it goes on only through the gate, or dies.
THEOREM UsesTheGateAlways == Spec => UsesTheGate
<1>1. IInv /\ [Next]_vars => [Gate!Next \/ pc' = "off"]_<<paused, pc \in InCheckPause>>
  BY GateStep DEF IInv
<1> QED
  BY <1>1, Invariance, PTL DEF Spec, UsesTheGate

-----------------------------------------------------------------------------
(* The way to the end of a process.                                        *)

StepsToGo(stage, s) ==
    CASE stage = "off" -> 0
      [] stage = "begin" -> NumSteps + 1
      [] OTHER -> NumSteps - s

AttemptsToGo(stage, a) == IF stage \in {"off", "begin"} THEN 0 ELSE MaxRetries - a

\* A resume that fails starts fresh once.
StagesToGo(stage, r) ==
    CASE stage = "check" -> 6 [] stage = "wait" -> 5 [] stage = "execute" -> 4
      [] stage = "verify" -> 3
      [] stage = "mkdir" -> 2 [] stage = "save" -> 1
      [] stage = "begin" -> IF r THEN 1 ELSE 0
      [] OTHER -> 0

\* The steps of the plan that are left, the attempts left of this step, and the
\* stages left of this attempt; the triples are ordered lexicographically.
ToGo == <<StepsToGo(pc, step), AttemptsToGo(pc, attempt), StagesToGo(pc, resuming)>>
Below(r, q) ==
    \/ r[1] < q[1]
    \/ r[1] = q[1] /\ r[2] < q[2]
    \/ r[1] = q[1] /\ r[2] = q[2] /\ r[3] < q[3]
NearsTheEnd == Below(ToGo', ToGo)

\* The process's own steps bring it nearer to its end, and nothing that happens to
\* it, a pause or a death, takes it further away.
ProcessNearsItsEnd == [][(Process => NearsTheEnd) /\ (pc # "off" => NearsTheEnd \/ UNCHANGED ToGo)]_vars

LEMMA StagesFacts ==
    ASSUME NEW r
    PROVE  /\ StagesToGo("check", r) = 6 /\ StagesToGo("wait", r) = 5
           /\ StagesToGo("execute", r) = 4
           /\ StagesToGo("verify", r) = 3
           /\ StagesToGo("mkdir", r) = 2 /\ StagesToGo("save", r) = 1
           /\ StagesToGo("begin", r) = (IF r THEN 1 ELSE 0)
           /\ StagesToGo("off", r) = 0
BY DEF StagesToGo

LEMMA ToGoFacts == TypeOK => ToGo \in Nat \X Nat \X Nat
<1> SUFFICES ASSUME TypeOK PROVE ToGo \in Nat \X Nat \X Nat
    OBVIOUS
<1>0. /\ step \in 0..NumSteps /\ attempt \in 0..MaxRetries - 1
      /\ MaxRetries \in Nat \ {0} /\ NumSteps \in Nat
      /\ pc \in {"off", "begin", "check", "wait", "execute", "verify", "mkdir", "save"}
    BY Constants DEF TypeOK
<1>1. StepsToGo(pc, step) \in Nat
    BY <1>0 DEF StepsToGo
<1>2. AttemptsToGo(pc, attempt) \in Nat
    BY <1>0 DEF AttemptsToGo
<1>3. StagesToGo(pc, resuming) \in Nat
    BY <1>0, StagesFacts
<1> QED BY <1>1, <1>2, <1>3 DEF ToGo

\* A later stage of the same attempt, the next attempt, or the next step.
LEMMA Onward ==
    ASSUME TypeOK, pc \in {"check", "wait", "execute", "verify", "mkdir", "save"},
           \/ /\ pc' \in {"check", "wait", "execute", "verify", "mkdir", "save"}
              /\ \/ /\ UNCHANGED <<step, attempt>>
                    /\ StagesToGo(pc', resuming') < StagesToGo(pc, resuming)
                 \/ step' = step /\ attempt' = attempt + 1
                 \/ step' = step + 1 /\ step' < NumSteps
           \/ pc' = "off"
    PROVE  NearsTheEnd
<1>0. /\ step \in 0..NumSteps /\ attempt \in 0..MaxRetries - 1 /\ step < NumSteps
      /\ MaxRetries \in Nat \ {0} /\ NumSteps \in Nat
    BY Constants DEF TypeOK
<1>1. StepsToGo(pc, step) = NumSteps - step /\ AttemptsToGo(pc, attempt) = MaxRetries - attempt
    BY DEF StepsToGo, AttemptsToGo
<1>2. CASE pc' = "off"
    <2>1. StepsToGo(pc', step') = 0
        BY <1>2 DEF StepsToGo
    <2> QED BY <1>0, <1>1, <2>1 DEF NearsTheEnd, Below, ToGo
<1>3. CASE pc' # "off"
    <2>1. StepsToGo(pc', step') = NumSteps - step' /\ AttemptsToGo(pc', attempt') = MaxRetries - attempt'
        BY <1>3 DEF StepsToGo, AttemptsToGo
    <2> QED BY <1>0, <1>1, <1>3, <2>1 DEF NearsTheEnd, Below, ToGo
<1> QED BY <1>2, <1>3

LEMMA ProcessNears == ASSUME TypeOK, Process PROVE NearsTheEnd
<1> USE DEF control, pausing, ledger
<1>0. /\ step \in 0..NumSteps /\ MaxRetries \in Nat \ {0} /\ NumSteps \in Nat
      /\ history \in Seq(Steps) /\ resuming \in BOOLEAN
    BY Constants DEF TypeOK
<1>a. pc \in {"check", "wait", "execute", "verify", "mkdir", "save"} => step < NumSteps
    BY DEF TypeOK
<1>1. CASE Refuse
    <2>1. pc = "begin" /\ StepsToGo(pc, step) = NumSteps + 1 /\ AttemptsToGo(pc, attempt) = 0
        BY <1>1 DEF Refuse, StepsToGo, AttemptsToGo
    <2>2. CASE resuming
        <3>1. pc' = "begin" /\ resuming' = FALSE
            BY <1>1, <2>2 DEF Refuse
        <3>2. /\ StepsToGo(pc', step') = NumSteps + 1 /\ AttemptsToGo(pc', attempt') = 0
              /\ StagesToGo(pc', resuming') = 0 /\ StagesToGo(pc, resuming) = 1
            BY <2>1, <2>2, <3>1 DEF StepsToGo, AttemptsToGo, StagesToGo
        <3> QED BY <2>1, <3>2 DEF NearsTheEnd, Below, ToGo
    <2>3. CASE ~ resuming
        <3>1. pc' = "off"
            BY <1>1, <2>3 DEF Refuse
        <3>2. StepsToGo(pc', step') = 0
            BY <3>1 DEF StepsToGo
        <3> QED BY <1>0, <2>1, <3>2 DEF NearsTheEnd, Below, ToGo
    <2> QED BY <2>2, <2>3
<1>2. CASE Begin
    <2>1. pc = "begin" /\ EnterStep(0)
        BY <1>2 DEF Begin
    <2>2. pc' \in {"check", "off"} /\ step' = 0
        BY <1>0, <2>1 DEF EnterStep
    <2>3. StepsToGo(pc, step) = NumSteps + 1 /\ StepsToGo(pc', step') \in {0, NumSteps}
        BY <1>0, <2>1, <2>2 DEF StepsToGo
    <2> QED BY <1>0, <2>3 DEF NearsTheEnd, Below, ToGo
<1>3. CASE CheckPause \/ Released \/ ExecutionSucceeds \/ VerificationPasses \/ MakeDirectory
    <2>1. /\ UNCHANGED <<step, attempt>>
          /\ \/ pc = "check" /\ pc' \in {"wait", "execute"}
             \/ pc = "wait" /\ pc' = "execute"
             \/ pc = "execute" /\ pc' = "verify"
             \/ pc = "verify" /\ pc' = "mkdir"
             \/ pc = "mkdir" /\ pc' = "save"
        BY <1>3 DEF CheckPause, Released, ExecutionSucceeds, VerificationPasses, MakeDirectory
    <2>2. StagesToGo(pc', resuming') < StagesToGo(pc, resuming)
        <3>1. \A r, q : /\ StagesToGo("execute", r) < StagesToGo("check", q)
                        /\ StagesToGo("wait", r) < StagesToGo("check", q)
                        /\ StagesToGo("execute", r) < StagesToGo("wait", q)
                        /\ StagesToGo("verify", r) < StagesToGo("execute", q)
                        /\ StagesToGo("mkdir", r) < StagesToGo("verify", q)
                        /\ StagesToGo("save", r) < StagesToGo("mkdir", q)
            BY StagesFacts
        <3> QED BY <2>1, <3>1
    <2> QED BY <2>1, <2>2, Onward
<1>4. CASE ExecutionFails \/ VerificationFails
    <2>1. /\ pc \in {"execute", "verify"}
          /\ NextAttempt(history) \/ NextAttempt(Append(history, step))
        BY <1>4 DEF ExecutionFails, VerificationFails
    <2>2. step < NumSteps /\ Append(history, step) \in Seq(Steps)
        BY <1>0, <1>a, <2>1 DEF Steps
    <2>3. PICK h \in Seq(Steps) : NextAttempt(h)
        BY <1>0, <2>1, <2>2
    <2>4. /\ pc' \in {"check", "off"} /\ (pc' = "check" => step' < NumSteps)
          /\ \/ step' = step /\ attempt' = attempt + 1
             \/ step' = step + 1
        BY <2>2, <2>3, NextAttemptType
    <2> QED BY <2>1, <2>4, Onward
<1>5. CASE FinishSave \/ SaveFails
    <2>1. pc \in {"mkdir", "save"} /\ EnterStep(step + 1)
        BY <1>5 DEF FinishSave, SaveFails
    <2>2. step + 1 \in Nat /\ step + 1 <= NumSteps
        BY <1>0, <1>a, <2>1
    <2>3. pc' \in {"check", "off"} /\ (pc' = "check" => step + 1 < NumSteps) /\ step' = step + 1
        BY <2>1, <2>2, EnterStepType
    <2> QED BY <2>1, <2>3, Onward
<1> QED BY <1>1, <1>2, <1>3, <1>4, <1>5 DEF Process, Local, Awaited

LEMMA NearsStep == ASSUME TypeOK, [Next]_vars, pc # "off" PROVE NearsTheEnd \/ UNCHANGED ToGo
<1> USE DEF control, pausing, ledger
<1>1. CASE Process
    BY <1>1, ProcessNears
<1>2. CASE Die
    <2>0. step \in Nat /\ NumSteps \in Nat /\ step <= NumSteps
        BY Constants DEF TypeOK
    <2>1. pc' = "off" /\ StepsToGo(pc', step') = 0
        BY <1>2 DEF Die, StepsToGo
    <2>2. StepsToGo(pc, step) > 0
        BY <2>0 DEF TypeOK, StepsToGo
    <2> QED BY <2>1, <2>2 DEF NearsTheEnd, Below, ToGo
<1>3. CASE Pause \/ Resume \/ UNCHANGED vars
    <2>1. UNCHANGED <<pc, step, attempt, resuming>>
        BY <1>3 DEF Pause, Resume, vars
    <2> QED BY <2>1 DEF ToGo
<1>4. CASE Launch \/ EditByHand
    BY <1>4 DEF Launch, EditByHand
<1> QED BY <1>1, <1>2, <1>3, <1>4 DEF Next

\* A process cannot go on for ever: whatever the editor, the verifiers and the
\* pauses do, each of its own steps leaves fewer steps of the plan, fewer attempts
\* of this one, or fewer stages of this attempt, and nothing brings any of them back.
THEOREM ProcessNearsItsEndAlways == Spec => [](ToGo \in Nat \X Nat \X Nat) /\ ProcessNearsItsEnd
<1>1. TypeOK /\ [Next]_vars => [(Process => NearsTheEnd) /\ (pc # "off" => NearsTheEnd \/ UNCHANGED ToGo)]_vars
    BY ProcessNears, NearsStep
<1> QED BY <1>1, ToGoFacts, TypeCorrect, PTL DEF Spec, ProcessNearsItsEnd
=============================================================================
