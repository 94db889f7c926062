-------------------------- MODULE Conductor_proofs --------------------------
(***************************************************************************)
(* Proofs about Conductor for every value of its constants: its types, the *)
(* facts its stages hand on (StageInv), and from them that no edit is      *)
(* reported complete without passing the gates of its own attempt, and     *)
(* that every step leaves less of the task to go.                          *)
(***************************************************************************)
EXTENDS Conductor, TLAPS

Exits == Done \cup Failed \cup {"running"}
ProgressType == [lastFailure : Outputs, consecutive : 0..Plateau]

-----------------------------------------------------------------------------
(* The operators of the model.                                             *)

\* A tracker that has not reached the plateau stays within it for one more
\* failure, and never counts silent ones.
LEMMA ObserveType ==
    ASSUME NEW p \in ProgressType, NEW output \in Outputs,
           ~ IsPlateau(p),
           p.lastFailure = NoOutput => p.consecutive <= 1
    PROVE  /\ Observe(p, output) \in ProgressType
           /\ Observe(p, output).lastFailure = NoOutput => Observe(p, output).consecutive <= 1
BY ConductorAssumption DEF Observe, IsPlateau, ProgressType

\* Cutting a history leaves a history.
LEMMA RecentType ==
    ASSUME NEW s \in Seq(Outputs)
    PROVE  Recent(s) \in Seq(Outputs)
BY ConductorAssumption DEF Recent

\* A retry goes back to the top of the loop or returns.
LEMMA RetryType ==
    ASSUME TypeOK, Retry
    PROVE  /\ pc' \in Stages
           /\ exit' \in Exits
           /\ messages' \in Nat
<1>1. pc' \in Stages
    BY DEF Retry, Return, Goto, Stages
<1>2. exit' \in Exits
    BY DEF TypeOK, Exits, Retry, Return, Goto, Failed
<1>3. messages \in Nat
    BY DEF TypeOK
<1>4. messages' = messages + 1 \/ messages' = messages
    BY DEF Retry
<1>5. messages' \in Nat
    BY <1>3, <1>4
<1> QED BY <1>1, <1>2, <1>5

-----------------------------------------------------------------------------
(* Types.                                                                  *)

LEMMA InitTypeOK == Init => TypeOK
<1> SUFFICES ASSUME Init PROVE TypeOK
    OBVIOUS
<1>1. /\ pc \in Stages
      /\ exit \in Exits
    BY DEF Init, Stages, Exits
<1>2. progress \in ProgressType
    BY ConductorAssumption DEF Init, NewProgress, Outputs, ProgressType
<1>3. /\ errors \in 0..MaxErrors
      /\ iteration \in Nat
      /\ messages \in Nat
    BY ConductorAssumption DEF Init
<1>4. observed \in Seq(Outputs)
    BY DEF Init
<1> QED BY <1>1, <1>2, <1>3, <1>4 DEF Init, TypeOK, Exits, ProgressType

LEMMA NextTypeOK == TypeOK /\ ErrorsInv /\ ProgressInv /\ [Next]_vars => TypeOK'
<1> SUFFICES ASSUME TypeOK, ErrorsInv, ProgressInv, [Next]_vars PROVE TypeOK'
    OBVIOUS
<1> USE DEF control, ghosts
<1>1. CASE SnapshotBaseline
    <2>1. pc' \in Stages /\ exit' \in Exits
        BY <1>1 DEF TypeOK, SnapshotBaseline, Return, Goto, Stages, Exits, Failed
    <2> QED BY <1>1, <2>1 DEF TypeOK, SnapshotBaseline, Exits
<1>2. CASE CreatePlan
    <2>1. pc' \in Stages
        BY <1>2 DEF CreatePlan, Return, Goto, Stages
    <2>2. exit' \in Exits
        BY <1>2 DEF TypeOK, CreatePlan, Return, Goto, Exits, Failed
    <2>3. messages' \in Nat /\ planQuery' \in BOOLEAN
        BY <1>2 DEF TypeOK, CreatePlan, Return, Goto
    <2> QED BY <1>2, <2>1, <2>2, <2>3 DEF TypeOK, CreatePlan, Exits
<1>3. CASE StartAttempt
    <2>1. pc' \in Stages
        BY <1>3 DEF StartAttempt, Return, Goto, Stages
    <2>2. exit' \in Exits
        BY <1>3 DEF TypeOK, StartAttempt, Return, Goto, Exits, Failed
    <2>3. iteration' \in Nat
        <3>1. iteration \in Nat /\ iteration' = iteration + 1
            BY <1>3 DEF TypeOK, StartAttempt
        <3> QED BY <3>1
    <2> QED BY <1>3, <2>1, <2>2, <2>3 DEF TypeOK, StartAttempt, Exits
<1>4. CASE EditorFails
    <2>1. pc' \in Stages /\ exit' \in Exits /\ messages' \in Nat
        <3>1. CASE Retry
            BY <3>1, RetryType
        <3>2. CASE Return("editor errors") /\ UNCHANGED messages
            BY <3>2 DEF Return, Stages, Exits, Failed, TypeOK
        <3> QED BY <1>4, <3>1, <3>2 DEF EditorFails
    <2>2. errors' \in 0..MaxErrors
        <3>1. pc # "over" /\ errors' = errors + 1 /\ errors \in 0..MaxErrors
            BY <1>4 DEF EditorFails, TypeOK
        <3> QED BY <3>1, ConductorAssumption DEF ErrorsInv
    <2> QED BY <1>4, <2>1, <2>2 DEF TypeOK, EditorFails, Exits
<1>5. CASE EditorAnswers
    <2>1. pc' \in Stages /\ exit' \in Exits
        BY <1>5 DEF TypeOK, EditorAnswers, Goto, Stages, Exits
    <2>2. errors' \in 0..MaxErrors
        BY <1>5, ConductorAssumption DEF EditorAnswers
    <2> QED BY <1>5, <2>1, <2>2 DEF TypeOK, EditorAnswers, Exits
<1>6. CASE Format
    <2>1. pc' \in Stages /\ exit' \in Exits /\ messages' \in Nat
        <3>1. CASE Retry
            BY <3>1, RetryType
        <3>2. CASE Goto("query") /\ UNCHANGED messages
            BY <3>2 DEF Goto, Stages, Exits, TypeOK
        <3> QED BY <1>6, <3>1, <3>2 DEF Format
    <2> QED BY <1>6, <2>1 DEF TypeOK, Format, Exits
<1>7. CASE AnswerQuery
    <2>1. pc' \in Stages /\ exit' \in Exits
        BY <1>7 DEF TypeOK, AnswerQuery, Return, Goto, Stages, Exits, Done
    <2> QED BY <1>7, <2>1 DEF TypeOK, AnswerQuery, Exits
<1>8. CASE CheckPublicAPI
    <2>1. pc' \in Stages /\ exit' \in Exits /\ messages' \in Nat
        <3>1. CASE Retry
            BY <3>1, RetryType
        <3>2. CASE (Goto("verify") \/ Return("api snapshot")) /\ UNCHANGED messages
            BY <3>2 DEF Goto, Return, Stages, Exits, Failed, TypeOK
        <3> QED BY <1>8, <3>1, <3>2 DEF CheckPublicAPI
    <2> QED BY <1>8, <2>1 DEF TypeOK, CheckPublicAPI, Exits
<1>9. CASE RefuseWithoutCommand
    <2>1. pc' \in Stages /\ exit' \in Exits
        BY <1>9 DEF RefuseWithoutCommand, Return, Stages, Exits, Failed
    <2> QED BY <1>9, <2>1 DEF TypeOK, RefuseWithoutCommand, Exits
<1>10. CASE VerificationPasses
    <2>1. pc' \in Stages /\ exit' \in Exits
        BY <1>10 DEF TypeOK, VerificationPasses, Goto, Stages, Exits
    <2> QED BY <1>10, <2>1 DEF TypeOK, VerificationPasses, Exits
<1>11. CASE VerificationFails
    <2>1. PICK output \in Outputs :
            /\ progress' = Observe(progress, output)
            /\ observed' = Recent(Append(observed, output))
        BY <1>11 DEF VerificationFails
    <2>2. progress' \in ProgressType
        BY <1>11, <2>1, ObserveType DEF VerificationFails, ProgressInv, TypeOK, ProgressType
    <2>3. observed' \in Seq(Outputs)
        <3>1. observed \in Seq(Outputs)
            BY DEF TypeOK
        <3>2. Append(observed, output) \in Seq(Outputs)
            BY <3>1
        <3> QED BY <2>1, <3>2, RecentType
    <2>4. pc' \in Stages /\ exit' \in Exits /\ messages' \in Nat
        <3>1. CASE Retry
            BY <3>1, RetryType
        <3>2. CASE Return("plateau") /\ UNCHANGED messages
            BY <3>2 DEF Return, Stages, Exits, Failed, TypeOK
        <3> QED BY <1>11, <3>1, <3>2 DEF VerificationFails
    <2> QED BY <1>11, <2>2, <2>3, <2>4 DEF TypeOK, VerificationFails, Exits, ProgressType
<1>12. CASE SelectReviewer
    <2>1. pc' \in Stages /\ exit' \in Exits
        BY <1>12 DEF TypeOK, SelectReviewer, Return, Goto, Stages, Exits, Done, Failed
    <2> QED BY <1>12, <2>1 DEF TypeOK, SelectReviewer, Exits
<1>13. CASE ReviewApproves
    <2>1. pc' \in Stages /\ exit' \in Exits
        BY <1>13 DEF ReviewApproves, Return, Stages, Exits, Done
    <2> QED BY <1>13, <2>1 DEF TypeOK, ReviewApproves, Exits
<1>14. CASE ReviewObjects
    BY <1>14, RetryType DEF TypeOK, ReviewObjects, Exits
<1>15. CASE UNCHANGED vars
    BY <1>15 DEF TypeOK, vars
<1> QED BY <1>1, <1>2, <1>3, <1>4, <1>5, <1>6, <1>7, <1>8, <1>9, <1>10, <1>11, <1>12, <1>13,
           <1>14, <1>15 DEF Next, Step, Local, Awaited, Returned

-----------------------------------------------------------------------------
(* The parts of StageInv. Init gives each one; each step keeps it.          *)

LEMMA InitStageInv == Init => StageInv
BY ConductorAssumption DEF Init, StageInv, ReturnInv, MessagesInv, ErrorsInv, ProgressInv, GateInv,
   NewProgress, IsPlateau

\* Nothing leaves "over", and only Return leads there.
LEMMA NextReturnInv == ReturnInv /\ [Next]_vars => ReturnInv'
<1> SUFFICES ASSUME ReturnInv, [Next]_vars PROVE ReturnInv'
    OBVIOUS
<1> USE DEF ReturnInv, Return, Goto
<1>1. CASE SnapshotBaseline \/ CreatePlan \/ StartAttempt
    BY <1>1 DEF SnapshotBaseline, CreatePlan, StartAttempt
<1>2. CASE EditorFails \/ EditorAnswers \/ Format \/ AnswerQuery
    BY <1>2 DEF EditorFails, EditorAnswers, Format, AnswerQuery, Retry
<1>3. CASE CheckPublicAPI \/ RefuseWithoutCommand \/ VerificationPasses \/ VerificationFails
    BY <1>3 DEF CheckPublicAPI, RefuseWithoutCommand, VerificationPasses, VerificationFails, Retry
<1>4. CASE SelectReviewer \/ ReviewApproves \/ ReviewObjects
    BY <1>4 DEF SelectReviewer, ReviewApproves, ReviewObjects, Retry
<1>5. CASE UNCHANGED vars
    BY <1>5 DEF vars
<1> QED BY <1>1, <1>2, <1>3, <1>4, <1>5 DEF Next, Step, Local, Awaited, Returned

\* Every way back to the top of the loop adds one message.
LEMMA NextMessagesInv == TypeOK /\ MessagesInv /\ [Next]_vars => MessagesInv'
<1> SUFFICES ASSUME TypeOK, MessagesInv, [Next]_vars PROVE MessagesInv'
    OBVIOUS
<1>0. iteration \in Nat /\ messages \in Nat
    BY DEF TypeOK
<1> USE <1>0 DEF MessagesInv, Return, Goto
<1>1. CASE SnapshotBaseline \/ CreatePlan
    BY <1>1 DEF SnapshotBaseline, CreatePlan
<1>2. CASE StartAttempt
    BY <1>2 DEF StartAttempt
<1>3. CASE EditorFails \/ EditorAnswers \/ Format \/ AnswerQuery
    BY <1>3 DEF EditorFails, EditorAnswers, Format, AnswerQuery, Retry
<1>4. CASE CheckPublicAPI \/ RefuseWithoutCommand \/ VerificationPasses \/ VerificationFails
    BY <1>4 DEF CheckPublicAPI, RefuseWithoutCommand, VerificationPasses, VerificationFails, Retry
<1>5. CASE SelectReviewer \/ ReviewApproves \/ ReviewObjects
    BY <1>5 DEF SelectReviewer, ReviewApproves, ReviewObjects, Retry
<1>6. CASE UNCHANGED vars
    BY <1>6 DEF vars
<1> QED BY <1>1, <1>2, <1>3, <1>4, <1>5, <1>6 DEF Next, Step, Local, Awaited, Returned

\* The editor's errors in a row reach the limit only on the way out.
LEMMA NextErrorsInv == TypeOK /\ ErrorsInv /\ [Next]_vars => ErrorsInv'
<1> SUFFICES ASSUME TypeOK, ErrorsInv, [Next]_vars PROVE ErrorsInv'
    OBVIOUS
<1>1. CASE EditorFails
    <2>1. CASE errors' >= MaxErrors
        BY <1>1, <2>1 DEF EditorFails, Return, ErrorsInv
    <2>2. CASE ~ (errors' >= MaxErrors)
        <3>1. errors \in 0..MaxErrors /\ errors' = errors + 1
            BY <1>1 DEF EditorFails, TypeOK
        <3> QED BY <2>2, <3>1, ConductorAssumption DEF ErrorsInv
    <2> QED BY <2>1, <2>2
<1>2. CASE EditorAnswers
    BY <1>2, ConductorAssumption DEF EditorAnswers, ErrorsInv
<1>3. CASE pc # "over" /\ UNCHANGED errors
    BY <1>3 DEF ErrorsInv
<1>4. CASE UNCHANGED <<pc, errors>>
    BY <1>4 DEF ErrorsInv
<1> QED BY <1>1, <1>2, <1>3, <1>4
        DEF Next, Step, Local, Awaited, Returned, vars, SnapshotBaseline, CreatePlan,
           StartAttempt, Format, AnswerQuery, CheckPublicAPI, RefuseWithoutCommand,
           VerificationPasses, VerificationFails, SelectReviewer, ReviewApproves, ReviewObjects

\* So do the equivalent failures.
LEMMA NextProgressInv == TypeOK /\ ProgressInv /\ [Next]_vars => ProgressInv'
<1> SUFFICES ASSUME TypeOK, ProgressInv, [Next]_vars PROVE ProgressInv'
    OBVIOUS
<1>1. CASE VerificationFails
    <2>1. PICK output \in Outputs : progress' = Observe(progress, output)
        BY <1>1 DEF VerificationFails
    <2>2. progress'.lastFailure = NoOutput => progress'.consecutive <= 1
        BY <1>1, <2>1, ObserveType DEF VerificationFails, ProgressInv, TypeOK, ProgressType
    <2>3. pc' # "over" => ~ IsPlateau(progress')
        BY <1>1 DEF VerificationFails, Return
    <2> QED BY <2>2, <2>3 DEF ProgressInv, IsPlateau
<1>2. CASE pc # "over" /\ UNCHANGED progress
    BY <1>2 DEF ProgressInv, IsPlateau
<1>3. CASE UNCHANGED <<pc, progress>>
    BY <1>3 DEF ProgressInv, IsPlateau
<1> QED BY <1>1, <1>2, <1>3
        DEF Next, Step, Local, Awaited, Returned, vars, SnapshotBaseline, CreatePlan,
           StartAttempt, EditorFails, EditorAnswers, Format, AnswerQuery, CheckPublicAPI,
           RefuseWithoutCommand, VerificationPasses, SelectReviewer, ReviewApproves, ReviewObjects

\* The gates are passed in order and by one and the same tree: the API check
\* hands it to the verification, and a pass is kept until the next attempt.
LEMMA NextGateInv == TypeOK /\ ReturnInv /\ GateInv /\ [Next]_vars => GateInv'
<1> SUFFICES ASSUME TypeOK, ReturnInv, GateInv, [Next]_vars PROVE GateInv'
    OBVIOUS
<1>0. exit = "running" \/ pc = "over"
    BY DEF ReturnInv
<1> USE DEF GateInv, GatesPassed, Return, Goto, control, ghosts
<1>1. CASE SnapshotBaseline
    BY <1>0, <1>1 DEF SnapshotBaseline
<1>2. CASE CreatePlan
    BY <1>0, <1>2 DEF CreatePlan
<1>3. CASE StartAttempt
    BY <1>0, <1>3 DEF StartAttempt
<1>4. CASE EditorFails
    BY <1>0, <1>4 DEF EditorFails, Retry
<1>5. CASE EditorAnswers
    BY <1>0, <1>5 DEF EditorAnswers
<1>6. CASE Format
    BY <1>0, <1>6 DEF Format, Retry
<1>7. CASE AnswerQuery
    BY <1>0, <1>7 DEF AnswerQuery, IsQueryTask
<1>8. CASE CheckPublicAPI
    BY <1>0, <1>8 DEF CheckPublicAPI, Retry
<1>9. CASE RefuseWithoutCommand
    BY <1>0, <1>9 DEF RefuseWithoutCommand
<1>10. CASE VerificationPasses
    BY <1>0, <1>10 DEF VerificationPasses, HasCommand
<1>11. CASE VerificationFails
    BY <1>0, <1>11 DEF VerificationFails, Retry
<1>12. CASE SelectReviewer
    BY <1>0, <1>12 DEF SelectReviewer
<1>13. CASE ReviewApproves
    BY <1>0, <1>13 DEF ReviewApproves
<1>14. CASE ReviewObjects
    BY <1>0, <1>14 DEF ReviewObjects, Retry
<1>15. CASE UNCHANGED vars
    BY <1>15 DEF vars, IsQueryTask
<1> QED BY <1>1, <1>2, <1>3, <1>4, <1>5, <1>6, <1>7, <1>8, <1>9, <1>10, <1>11, <1>12, <1>13,
           <1>14, <1>15 DEF Next, Step, Local, Awaited, Returned

-----------------------------------------------------------------------------
(* The theorems.                                                           *)

\* Every variable of a task keeps its type, and every stage hands the next one
\* the facts StageInv names.
THEOREM Invariance == Spec => [](TypeOK /\ StageInv)
<1>1. Init => TypeOK /\ StageInv
    BY InitTypeOK, InitStageInv
<1>2. (TypeOK /\ StageInv) /\ [Next]_vars => (TypeOK /\ StageInv)'
    BY NextTypeOK, NextReturnInv, NextMessagesInv, NextErrorsInv, NextProgressInv, NextGateInv
       DEF StageInv
<1> QED BY <1>1, <1>2, PTL DEF Spec

\* Whatever the limits and the failures are, an edit is reported complete only
\* by an attempt whose own tree passed the API check and the verification.
THEOREM EditsPassTheGatesAlways == Spec => []EditsPassTheGates
<1>1. TypeOK /\ StageInv => EditsPassTheGates
    BY DEF StageInv, GateInv, EditsPassTheGates, IsQueryTask, Done
<1> QED BY <1>1, Invariance, PTL

\* The editor never starts an attempt without being told what was wrong with the
\* attempt before it.
THEOREM EveryRetryIsExplainedAlways == Spec => []EveryRetryIsExplained
<1>1. TypeOK /\ StageInv => EveryRetryIsExplained
    BY DEF StageInv, MessagesInv, EveryRetryIsExplained
<1> QED BY <1>1, Invariance, PTL

-----------------------------------------------------------------------------
(* The budget.                                                             *)

LEMMA BudgetStep == TypeOK /\ StageInv /\ AttemptsAreBounded /\ [Next]_vars => AttemptsAreBounded'
<1> SUFFICES ASSUME TypeOK, StageInv, AttemptsAreBounded, [Next]_vars PROVE AttemptsAreBounded'
    OBVIOUS
<1>0. /\ iteration \in Nat /\ MaxAttempts \in Nat
      /\ \A intent : MaxIterationsForIntent(intent, MaxAttempts) \in Nat
    BY ConductorAssumption DEF TypeOK, MaxIterationsForIntent
<1>e. pc' # "over" => errors' < MaxErrors
    BY NextErrorsInv DEF StageInv, ErrorsInv
<1>z. iteration = 0 => /\ iteration <= MaxIterationsForIntent(Intent, MaxAttempts)
                       /\ iteration < 7
    BY <1>0
<1> USE DEF control, ghosts, Goto, Return
<1>c. UNCHANGED control => Intent' = Intent
    BY DEF Intent, IsQueryTask
<1>1. CASE SnapshotBaseline
    <2>1. iteration' = 0 /\ task' = task /\ planQuery' = planQuery /\ iteration' = iteration
        BY <1>1 DEF SnapshotBaseline, StageInv, MessagesInv
    <2>2. Intent' = Intent
        BY <2>1 DEF Intent, IsQueryTask
    <2> QED BY <1>e, <1>z, <2>1, <2>2 DEF AttemptsAreBounded
<1>2. CASE CreatePlan
    BY <1>2 DEF CreatePlan, AttemptsAreBounded
<1>3. CASE StartAttempt
    <2>1. iteration' = iteration + 1 /\ Intent' = Intent /\ pc' \in {"over", "edit"}
        BY <1>3, <1>c DEF StartAttempt
    <2>2. CASE pc' = "edit"
        <3>1. ~ LimitReached(Intent, MaxAttempts, iteration') /\ ~ NoProgress(Intent, iteration', 0)
            BY <1>3, <2>2 DEF StartAttempt
        <3>2. iteration' \in Nat
            BY <1>0, <2>1
        <3>3. iteration' <= MaxIterationsForIntent(Intent, MaxAttempts)
            BY <1>0, <3>1, <3>2 DEF LimitReached
        <3>4. Intent = "edit" => iteration' < 7
            BY <3>1, <3>2 DEF NoProgress
        <3> QED BY <1>e, <2>1, <2>2, <3>3, <3>4 DEF AttemptsAreBounded
    <2> QED BY <2>1, <2>2 DEF AttemptsAreBounded
<1>4. CASE EditorFails \/ EditorAnswers \/ Format \/ AnswerQuery
    BY <1>4, <1>c, <1>e DEF EditorFails, EditorAnswers, Format, AnswerQuery, Retry, AttemptsAreBounded
<1>5. CASE CheckPublicAPI \/ RefuseWithoutCommand \/ VerificationPasses \/ VerificationFails
    BY <1>5, <1>c, <1>e DEF CheckPublicAPI, RefuseWithoutCommand, VerificationPasses,
       VerificationFails, Retry, AttemptsAreBounded
<1>6. CASE SelectReviewer \/ ReviewApproves \/ ReviewObjects
    BY <1>6, <1>c, <1>e DEF SelectReviewer, ReviewApproves, ReviewObjects, Retry, AttemptsAreBounded
<1>7. CASE UNCHANGED vars
    BY <1>7, <1>c DEF vars, AttemptsAreBounded
<1> QED BY <1>1, <1>2, <1>3, <1>4, <1>5, <1>6, <1>7 DEF Next, Step, Local, Awaited, Returned

\* For every limit and every task, the editor gets no more attempts than the limit
\* of the intent allows, and an edit fewer than seven.
THEOREM AttemptsAreBoundedAlways == Spec => []AttemptsAreBounded
<1>1. Init => AttemptsAreBounded
    <2>1. 0 < MaxErrors /\ 0 < 7 /\ \A intent : 0 <= MaxIterationsForIntent(intent, MaxAttempts)
        BY ConductorAssumption DEF MaxIterationsForIntent
    <2> QED BY <2>1 DEF Init, AttemptsAreBounded
<1>2. (TypeOK /\ StageInv) /\ AttemptsAreBounded /\ [Next]_vars => AttemptsAreBounded'
    BY BudgetStep
<1> QED BY <1>1, <1>2, Invariance, PTL DEF Spec

-----------------------------------------------------------------------------
(* The feedback.                                                           *)

LEMMA FeedbackStep == TypeOK /\ StageInv /\ FeedbackIsHonest /\ [Next]_vars => FeedbackIsHonest'
<1> SUFFICES ASSUME TypeOK, StageInv, FeedbackIsHonest, [Next]_vars PROVE FeedbackIsHonest'
    OBVIOUS
<1>0. pc # "over" => exit = "running"
    BY DEF StageInv, ReturnInv
<1> USE DEF FeedbackIsHonest, Return, Goto, Done
<1>1. CASE SnapshotBaseline \/ CreatePlan \/ StartAttempt
    BY <1>0, <1>1 DEF SnapshotBaseline, CreatePlan, StartAttempt
<1>2. CASE EditorFails \/ EditorAnswers \/ Format
    BY <1>0, <1>2 DEF EditorFails, EditorAnswers, Format, Retry
<1>3. CASE AnswerQuery
    <2>1. pc = "query"
        BY <1>3 DEF AnswerQuery
    <2>2. "good" \notin feedback /\ "bad" \notin feedback
        BY <1>0, <2>1
    <2>3. CASE IsQueryTask(modified)
        <3>1. exit' = "query answered" /\ feedback' = feedback \cup {"good"}
            BY <1>3, <2>3 DEF AnswerQuery
        <3> QED BY <2>2, <3>1
    <2>4. CASE ~ IsQueryTask(modified)
        <3>1. exit' = exit /\ feedback' = feedback
            BY <1>3, <2>4 DEF AnswerQuery
        <3> QED BY <3>1
    <2> QED BY <2>3, <2>4
<1>4. CASE CheckPublicAPI \/ RefuseWithoutCommand \/ VerificationPasses
    BY <1>0, <1>4 DEF CheckPublicAPI, RefuseWithoutCommand, VerificationPasses, Retry
<1>5. CASE VerificationFails
    BY <1>0, <1>5 DEF VerificationFails, Retry
<1>6. CASE SelectReviewer
    BY <1>0, <1>6 DEF SelectReviewer
<1>7. CASE ReviewApproves \/ ReviewObjects
    BY <1>0, <1>7 DEF ReviewApproves, ReviewObjects, Retry
<1>8. CASE UNCHANGED vars
    BY <1>8 DEF vars
<1> QED BY <1>1, <1>2, <1>3, <1>4, <1>5, <1>6, <1>7, <1>8 DEF Next, Step, Local, Awaited, Returned

\* The editor's model is praised and blamed for what happened, for every task.
THEOREM FeedbackIsHonestAlways == Spec => []FeedbackIsHonest
<1>1. Init => FeedbackIsHonest
    BY DEF Init, FeedbackIsHonest, Done
<1>2. (TypeOK /\ StageInv) /\ FeedbackIsHonest /\ [Next]_vars => FeedbackIsHonest'
    BY FeedbackStep
<1> QED BY <1>1, <1>2, Invariance, PTL DEF Spec

-----------------------------------------------------------------------------
(* The plateau.                                                            *)

\* The counter and the failures tell the same story: consecutive is the length of
\* the longest run of equal failures the observed ones end with.
TrackInv ==
    /\ Len(observed) <= Plateau
    /\ observed = <<>> => progress.lastFailure = NoOutput
    /\ observed # <<>> => /\ progress.consecutive \in 1..Len(observed)
                          /\ progress.lastFailure = observed[Len(observed)]
    /\ progress.lastFailure # NoOutput =>
         /\ \A i \in 1..Len(observed) :
              i > Len(observed) - progress.consecutive => observed[i] = progress.lastFailure
         /\ progress.consecutive < Len(observed) =>
              observed[Len(observed) - progress.consecutive] # progress.lastFailure

PlateauInv == IsPlateau(progress) <=> exit = "plateau"

\* One more failure, and the oldest one forgotten when there are Plateau of them.
LEMMA RecentAppend ==
    ASSUME NEW s \in Seq(Outputs), NEW output \in Outputs, Len(s) <= Plateau
    PROVE  LET r == Recent(Append(s, output)) IN
           /\ r \in Seq(Outputs) /\ r # <<>>
           /\ r[Len(r)] = output
           /\ Len(s) < Plateau => Len(r) = Len(s) + 1 /\ \A i \in 1..Len(s) : r[i] = s[i]
           /\ Len(s) = Plateau => Len(r) = Len(s) /\ \A i \in 1..(Len(s) - 1) : r[i] = s[i + 1]
<1> DEFINE a == Append(s, output)
           r == Recent(a)
<1>0. Plateau \in Nat /\ Plateau >= 1 /\ Len(s) \in Nat
    BY ConductorAssumption
<1>1. /\ a \in Seq(Outputs) /\ Len(a) = Len(s) + 1 /\ a[Len(s) + 1] = output
      /\ \A i \in 1..Len(s) : a[i] = s[i]
    OBVIOUS
<1>2. CASE Len(s) < Plateau
    <2>1. r = a
        BY <1>0, <1>1, <1>2 DEF Recent
    <2>2. a # <<>>
        BY <1>1, <1>0
    <2> QED BY <1>0, <1>1, <1>2, <2>1, <2>2
<1>3. CASE Len(s) = Plateau
    <2>1. r = SubSeq(a, 2, Plateau + 1)
        BY <1>0, <1>1, <1>3 DEF Recent
    <2> HIDE DEF a, r
    <2>2. Len(r) = Plateau /\ \A i \in 1..Plateau : r[i] = a[i + 1]
        BY <1>0, <1>1, <1>3, <2>1
    <2>3. r \in Seq(Outputs)
        BY <1>0, <1>1, <1>3, <2>1
    <2>4. r[Plateau] = output /\ \A i \in 1..(Len(s) - 1) : r[i] = s[i + 1]
        BY <1>0, <1>1, <1>3, <2>2
    <2>5. r # <<>>
        BY <1>0, <2>2
    <2> QED BY <1>3, <2>2, <2>3, <2>4, <2>5 DEF a, r
<1> QED BY <1>0, <1>2, <1>3

\* A failed verification, before the plateau is reached.
LEMMA TrackFailure ==
    ASSUME TypeOK, TrackInv, ~ IsPlateau(progress), ProgressInv, NEW output \in Outputs,
           progress' = Observe(progress, output),
           observed' = Recent(Append(observed, output))
    PROVE  TrackInv'
<1> DEFINE L == Len(observed)
           c == progress.consecutive
           last == progress.lastFailure
<1>1. /\ observed \in Seq(Outputs) /\ L \in Nat /\ L <= Plateau /\ Plateau \in Nat /\ Plateau >= 1
      /\ c \in Nat
    BY ConductorAssumption DEF TypeOK, TrackInv
<1>2. /\ observed' \in Seq(Outputs) /\ observed' # <<>>
      /\ observed'[Len(observed')] = output
      /\ L < Plateau => Len(observed') = L + 1 /\ \A i \in 1..L : observed'[i] = observed[i]
      /\ L = Plateau => Len(observed') = L /\ \A i \in 1..(L - 1) : observed'[i] = observed[i + 1]
    BY <1>1, RecentAppend
<1>3. /\ progress'.lastFailure = output
      /\ progress'.consecutive = IF output = last /\ output # NoOutput THEN c + 1 ELSE 1
    BY DEF Observe
<1>4. Len(observed') <= Plateau /\ Len(observed') \in Nat /\ Len(observed') >= 1
    BY <1>1, <1>2
<1>5. CASE output = last /\ output # NoOutput
    <2>1. observed # <<>> /\ c \in 1..L /\ c < Plateau
        BY <1>1, <1>5 DEF TrackInv, IsPlateau
    <2>2. /\ \A i \in 1..L : i > L - c => observed[i] = last
          /\ c < L => observed[L - c] # last
        BY <1>5 DEF TrackInv
    <2>3. progress'.consecutive = c + 1
        BY <1>3, <1>5
    <2>4. CASE L < Plateau
        <3>1. Len(observed') = L + 1 /\ \A i \in 1..L : observed'[i] = observed[i]
            BY <1>2, <2>4
        <3>2. ASSUME NEW i \in 1..Len(observed'), i > Len(observed') - (c + 1)
              PROVE  observed'[i] = output
            <4>1. CASE i = L + 1
                BY <1>2, <3>1, <4>1
            <4>2. CASE i # L + 1
                <5>1. i \in 1..L /\ i > L - c
                    BY <1>1, <2>1, <3>1, <3>2, <4>2
                <5>2. observed'[i] = observed[i] /\ observed[i] = last
                    BY <2>2, <3>1, <5>1
                <5> QED BY <1>5, <5>2
            <4> QED BY <4>1, <4>2
        <3>3. ASSUME c + 1 < Len(observed') PROVE observed'[Len(observed') - (c + 1)] # output
            <4>1. Len(observed') - (c + 1) = L - c /\ L - c \in 1..L /\ c < L
                BY <1>1, <2>1, <3>1, <3>3
            <4>2. observed'[L - c] = observed[L - c]
                BY <3>1, <4>1
            <4> QED BY <1>5, <2>2, <4>1, <4>2
        <3>4. c + 1 \in 1..Len(observed')
            BY <1>1, <2>1, <3>1
        <3> QED BY <1>2, <1>3, <1>4, <2>3, <3>2, <3>3, <3>4 DEF TrackInv
    <2>5. CASE L = Plateau
        <3>1. Len(observed') = L /\ \A i \in 1..(L - 1) : observed'[i] = observed[i + 1]
            BY <1>2, <2>5
        <3>2. ASSUME NEW i \in 1..Len(observed'), i > Len(observed') - (c + 1)
              PROVE  observed'[i] = output
            <4>1. CASE i = L
                BY <1>2, <3>1, <4>1
            <4>2. CASE i # L
                <5>1. i \in 1..(L - 1) /\ i + 1 \in 1..L /\ i + 1 > L - c
                    BY <1>1, <2>1, <3>1, <3>2, <4>2
                <5>2. observed'[i] = observed[i + 1] /\ observed[i + 1] = last
                    BY <2>2, <3>1, <5>1
                <5> QED BY <1>5, <5>2
            <4> QED BY <4>1, <4>2
        <3>3. ASSUME c + 1 < Len(observed') PROVE observed'[Len(observed') - (c + 1)] # output
            <4>1. L - (c + 1) \in 1..(L - 1) /\ (L - (c + 1)) + 1 = L - c /\ c < L
                BY <1>1, <2>1, <3>1, <3>3
            <4>2. observed'[L - (c + 1)] = observed[L - c]
                BY <3>1, <4>1
            <4> QED BY <1>5, <2>2, <3>1, <4>1, <4>2
        <3>4. c + 1 \in 1..Len(observed')
            BY <1>1, <2>1, <2>5, <3>1
        <3> QED BY <1>2, <1>3, <1>4, <2>3, <3>2, <3>3, <3>4 DEF TrackInv
    <2> QED BY <1>1, <2>4, <2>5
<1>6. CASE ~ (output = last /\ output # NoOutput)
    <2>1. progress'.consecutive = 1
        BY <1>3, <1>6
    <2>2. \A i \in 1..Len(observed') : i > Len(observed') - 1 => observed'[i] = output
        BY <1>2, <1>4
    <2>3. ASSUME output # NoOutput, 1 < Len(observed')
          PROVE  observed'[Len(observed') - 1] # output
        <3>1. L >= 1 /\ observed'[Len(observed') - 1] = observed[L]
            BY <1>1, <1>2, <2>3
        <3>2. observed # <<>>
            BY <3>1
        <3> QED BY <1>6, <2>3, <3>1, <3>2 DEF TrackInv
    <2>4. 1 \in 1..Len(observed')
        BY <1>4
    <2> QED BY <1>2, <1>3, <1>4, <2>1, <2>2, <2>3, <2>4 DEF TrackInv
<1> QED BY <1>5, <1>6

LEMMA PlateauStep == TypeOK /\ StageInv /\ TrackInv /\ PlateauInv /\ [Next]_vars
                        => TrackInv' /\ PlateauInv'
<1> SUFFICES ASSUME TypeOK, StageInv, TrackInv, PlateauInv, [Next]_vars
             PROVE  TrackInv' /\ PlateauInv'
    OBVIOUS
<1>0. pc # "over" => exit = "running" /\ ~ IsPlateau(progress)
    BY DEF StageInv, ReturnInv, ProgressInv
<1>u. ASSUME UNCHANGED <<progress, observed>>, exit' = "plateau" <=> exit = "plateau"
      PROVE  TrackInv' /\ PlateauInv'
    BY <1>u DEF TrackInv, PlateauInv, IsPlateau
<1> USE DEF Return, Goto, control, ghosts
<1>1. CASE VerificationFails
    <2>1. PICK output \in Outputs : /\ progress' = Observe(progress, output)
                                    /\ observed' = Recent(Append(observed, output))
        BY <1>1 DEF VerificationFails
    <2>2. pc = "verify"
        BY <1>1 DEF VerificationFails
    <2>3. TrackInv'
        BY <1>0, <2>1, <2>2, TrackFailure DEF StageInv
    <2>4. PlateauInv'
        BY <1>0, <1>1, <2>2 DEF VerificationFails, Retry, PlateauInv, IsPlateau
    <2> QED BY <2>3, <2>4
<1>2. CASE SnapshotBaseline \/ CreatePlan \/ StartAttempt
    BY <1>0, <1>u, <1>2 DEF SnapshotBaseline, CreatePlan, StartAttempt
<1>3. CASE EditorFails \/ EditorAnswers \/ Format \/ AnswerQuery
    BY <1>0, <1>u, <1>3 DEF EditorFails, EditorAnswers, Format, AnswerQuery, Retry
<1>4. CASE CheckPublicAPI \/ RefuseWithoutCommand \/ VerificationPasses
    BY <1>0, <1>u, <1>4 DEF CheckPublicAPI, RefuseWithoutCommand, VerificationPasses, Retry
<1>5. CASE SelectReviewer \/ ReviewApproves \/ ReviewObjects
    BY <1>0, <1>u, <1>5 DEF SelectReviewer, ReviewApproves, ReviewObjects, Retry
<1>6. CASE UNCHANGED vars
    BY <1>u, <1>6 DEF vars
<1> QED BY <1>1, <1>2, <1>3, <1>4, <1>5, <1>6 DEF Next, Step, Local, Awaited, Returned

\* For any number of equivalent failures the program is set to: it stops for a
\* plateau exactly when the last ones are equal.
THEOREM PlateauIsExactAlways == Spec => []PlateauIsExact
<1>1. Init => TrackInv /\ PlateauInv
    <2> SUFFICES ASSUME Init PROVE TrackInv /\ PlateauInv
        OBVIOUS
    <2>1. Len(observed) = 0 /\ observed = <<>> /\ Len(observed) <= Plateau
        BY ConductorAssumption DEF Init
    <2> QED BY <2>1 DEF Init, NewProgress, TrackInv, PlateauInv, IsPlateau
<1>2. (TypeOK /\ StageInv) /\ (TrackInv /\ PlateauInv) /\ [Next]_vars => (TrackInv /\ PlateauInv)'
    BY PlateauStep
<1>3. TypeOK /\ TrackInv /\ PlateauInv => PlateauIsExact
    <2> SUFFICES ASSUME TypeOK, TrackInv, PlateauInv PROVE PlateauIsExact
        OBVIOUS
    <2>0. /\ observed \in Seq(Outputs) /\ Plateau \in Nat /\ Plateau >= 1 /\ Len(observed) \in Nat
          /\ progress.lastFailure \in Outputs /\ progress.consecutive \in 0..Plateau
        BY ConductorAssumption DEF TypeOK
    <2>1. ASSUME exit = "plateau" PROVE \E f \in Failures : observed = [i \in 1..Plateau |-> f]
        <3>1. progress.lastFailure # NoOutput /\ progress.consecutive >= Plateau
            BY <2>1 DEF PlateauInv, IsPlateau
        <3>2. Len(observed) = Plateau /\ progress.consecutive = Plateau
            BY <2>0, <3>1 DEF TrackInv
        <3>3. \A i \in 1..Plateau : observed[i] = progress.lastFailure
            BY <2>0, <3>1, <3>2 DEF TrackInv
        <3>4. observed = [i \in 1..Plateau |-> progress.lastFailure]
            BY <2>0, <3>2, <3>3
        <3> QED BY <2>0, <3>1, <3>4 DEF Outputs
    <2>2. ASSUME NEW f \in Failures, observed = [i \in 1..Plateau |-> f] PROVE exit = "plateau"
        <3>1. Len(observed) = Plateau /\ \A i \in 1..Plateau : observed[i] = f
            BY <2>0, <2>2
        <3>2. observed # <<>>
            BY <2>0, <3>1
        <3>3. progress.lastFailure = f /\ f # NoOutput
            BY <2>0, <3>1, <3>2, ConductorAssumption DEF TrackInv
        <3>4. progress.consecutive \in 1..Plateau
            BY <3>1, <3>2 DEF TrackInv
        <3>5. ~ (progress.consecutive < Len(observed))
            BY <2>0, <3>1, <3>3, <3>4 DEF TrackInv
        <3> QED BY <2>0, <3>1, <3>3, <3>4, <3>5 DEF PlateauInv, IsPlateau
    <2> QED BY <2>1, <2>2 DEF PlateauIsExact
<1> QED BY <1>1, <1>2, <1>3, Invariance, PTL DEF Spec

-----------------------------------------------------------------------------
(* The way to the end of a task.                                           *)

\* The largest number of attempts, whatever the intent turns out to be.
MostAttempts == IF MaxAttempts > 0 THEN MaxAttempts ELSE 15

\* The stages that are left of an attempt that is at the given one.
Left(stage) ==
    CASE stage = "baseline" -> 10 [] stage = "plan" -> 9
      [] stage = "edit" -> 8 [] stage = "format" -> 7 [] stage = "query" -> 6
      [] stage = "api" -> 5 [] stage = "verify" -> 4 [] stage = "select" -> 3
      [] stage = "review" -> 2 [] stage = "continue" -> 1 [] OTHER -> 0

\* The attempts that are left, then the stages that are left of this one: the
\* pairs are ordered lexicographically, and no sequence of them decreases for ever.
ToGo == <<MostAttempts + 1 - iteration, Left(pc)>>
Below(r, q) == r[1] < q[1] \/ (r[1] = q[1] /\ r[2] < q[2])
NearsTheEnd == Below(ToGo', ToGo)

BudgetInv == iteration <= MostAttempts + 1 /\ (pc # "over" => iteration <= MostAttempts)

LEMMA LeftFacts ==
    /\ Left("baseline") = 10 /\ Left("plan") = 9 /\ Left("edit") = 8 /\ Left("format") = 7
    /\ Left("query") = 6 /\ Left("api") = 5 /\ Left("verify") = 4 /\ Left("select") = 3
    /\ Left("review") = 2 /\ Left("continue") = 1 /\ Left("over") = 0
BY DEF Left

LEMMA MostFacts ==
    /\ MostAttempts \in Nat
    /\ \A intent : MaxIterationsForIntent(intent, MaxAttempts) \in Nat
    /\ \A intent : MaxIterationsForIntent(intent, MaxAttempts) <= MostAttempts
BY ConductorAssumption DEF MostAttempts, MaxIterationsForIntent

LEMMA ToGoFacts == TypeOK /\ BudgetInv => ToGo \in Nat \X Nat
<1> SUFFICES ASSUME TypeOK, BudgetInv PROVE ToGo \in Nat \X Nat
    OBVIOUS
<1>1. MostAttempts + 1 - iteration \in Nat
    BY MostFacts DEF TypeOK, BudgetInv
<1>2. Left(pc) \in Nat
    BY LeftFacts DEF TypeOK, Stages
<1> QED BY <1>1, <1>2 DEF ToGo

\* A task that may retry is not over, and its attempts are within the budget.
LEMMA NearsStep == TypeOK /\ BudgetInv /\ [Next]_vars => BudgetInv' /\ [NearsTheEnd]_vars
<1> SUFFICES ASSUME TypeOK, BudgetInv, [Next]_vars PROVE BudgetInv' /\ [NearsTheEnd]_vars
    OBVIOUS
<1>0. iteration \in Nat /\ MostAttempts \in Nat
    BY MostFacts DEF TypeOK
<1>1. ASSUME iteration' = iteration, pc # "over", Left(pc') < Left(pc) PROVE BudgetInv' /\ NearsTheEnd
    BY <1>0, <1>1 DEF BudgetInv, NearsTheEnd, ToGo, Below
<1>2. CASE StartAttempt
    <2>1. iteration' = iteration + 1 /\ iteration <= MostAttempts
        BY <1>2 DEF StartAttempt, BudgetInv
    <2>2. pc' # "over" => iteration' <= MostAttempts
        <3>1. pc' # "over" => ~ LimitReached(Intent, MaxAttempts, iteration')
            BY <1>2 DEF StartAttempt, Return
        <3> QED BY <1>0, <2>1, <3>1, MostFacts DEF LimitReached
    <2>3. BudgetInv'
        BY <1>0, <2>1, <2>2 DEF BudgetInv
    <2>4. NearsTheEnd
        BY <1>0, <2>1 DEF NearsTheEnd, ToGo, Below
    <2> QED BY <2>3, <2>4
\* Every other step goes on to a later stage, or back to the next attempt.
<1>3. ASSUME iteration' = iteration,
             \/ pc = "baseline" /\ pc' \in {"plan", "over"}
             \/ pc = "plan" /\ pc' \in {"continue", "over"}
             \/ pc = "edit" /\ pc' \in {"format", "query", "continue", "over"}
             \/ pc = "format" /\ pc' \in {"query", "continue", "over"}
             \/ pc = "query" /\ pc' \in {"api", "over"}
             \/ pc = "api" /\ pc' \in {"verify", "continue", "over"}
             \/ pc = "verify" /\ pc' \in {"select", "continue", "over"}
             \/ pc = "select" /\ pc' \in {"review", "over"}
             \/ pc = "review" /\ pc' \in {"continue", "over"}
      PROVE  BudgetInv' /\ NearsTheEnd
    BY <1>1, <1>3, LeftFacts
<1> USE DEF Return, Goto
<1>4. CASE SnapshotBaseline \/ CreatePlan
    BY <1>3, <1>4 DEF SnapshotBaseline, CreatePlan
<1>5. CASE EditorFails \/ EditorAnswers
    BY <1>3, <1>5 DEF EditorFails, EditorAnswers, Retry
<1>6. CASE Format \/ AnswerQuery
    BY <1>3, <1>6 DEF Format, AnswerQuery, Retry
<1>7. CASE CheckPublicAPI \/ RefuseWithoutCommand \/ VerificationPasses \/ VerificationFails
    BY <1>3, <1>7 DEF CheckPublicAPI, RefuseWithoutCommand, VerificationPasses, VerificationFails, Retry
<1>8. CASE SelectReviewer \/ ReviewApproves \/ ReviewObjects
    BY <1>3, <1>8 DEF SelectReviewer, ReviewApproves, ReviewObjects, Retry
<1>9. CASE UNCHANGED vars
    BY <1>9 DEF vars, BudgetInv
<1> QED BY <1>2, <1>3, <1>4, <1>5, <1>6, <1>7, <1>8, <1>9 DEF Next, Step, Local, Awaited, Returned

\* ExecuteTask cannot go on for ever: whatever the models and the commands
\* answer, every step leaves fewer attempts, or fewer stages of this one.
THEOREM TaskNearsItsEnd == Spec => [](ToGo \in Nat \X Nat) /\ [][NearsTheEnd]_vars
<1>1. Init => BudgetInv
    BY MostFacts DEF Init, BudgetInv
<1>2. TypeOK /\ BudgetInv /\ [Next]_vars => BudgetInv' /\ [NearsTheEnd]_vars
    BY NearsStep
<1> QED BY <1>1, <1>2, ToGoFacts, Invariance, PTL DEF Spec
=============================================================================
