-------------------------- MODULE AgentTurn_proofs --------------------------
(***************************************************************************)
(* Proofs about AgentTurn for every value of its constants: any tree, any  *)
(* plan, any number of rounds and of calls in an answer. The safety part   *)
(* of the turn's contract follows, step by step; and every step brings the *)
(* turn nearer to its end.                                                 *)
(***************************************************************************)
EXTENDS AgentTurn, TLAPS

\* What a call answers, of whatever tool.
Answers == [ok : BOOLEAN, text : BOOLEAN, files : SUBSET Files, tree : SUBSET Files]

\* The tool messages and the calls still to run make up the answer's calls; texts are
\* compared by the orchestrator alone.
AnsweredInv ==
    /\ pc = "tools" => answers + left = asked /\ left > 0
    /\ pc \in {"classify", "head", "said", "ask", "final"} => answers = asked
    /\ pc = "said" => role = "orchestrator"

\* The files collected are the files written, all of them covered by the plan;
\* there are none before the role is known.
ModifiedInv ==
    /\ modified = touched
    /\ pc = "classify" => modified = {}
    /\ \A f \in touched : IsCovered(f, allowed)
    /\ role = "editor" /\ result.ok => result.files = modified

\* The detector has counted the last call as often as it has been run.
RepeatInv ==
    /\ ran.inARow < ToolLoop
    /\ pc # "over" => ran = [call |-> calls.last, inARow |-> calls.times]

TurnInv == TypeOK /\ AnsweredInv /\ ModifiedInv /\ RepeatInv

-----------------------------------------------------------------------------
(* The tools.                                                              *)

\* A tool leaves a tree, and only the tools that write report a file: the one
\* the call names.
LEMMA ToolAnswers ==
    ASSUME NEW call \in Calls, NEW t \in SUBSET Files, NEW answer \in ExecuteTool(call, t)
    PROVE  /\ answer \in Answers
           /\ answer.files # {} =>
                call.tool \in {"write_file", "apply_patch"} /\ call.file \in Files
                  /\ answer.files = {call.file}
<1>0. CASE \E ok \in BOOLEAN, t0 \in BOOLEAN : answer = Answer(ok, t0, {}, t)
    BY <1>0 DEF Answer, Answers
<1>w. CASE call.file \in Files /\ answer \in Written(call.file, t)
                /\ call.tool \in {"write_file", "apply_patch"}
    <2>1. t \cup {call.file} \in SUBSET Files
        BY <1>w
    <2>2. CASE answer = Answer(TRUE, TRUE, {call.file}, t \cup {call.file})
        BY <1>w, <2>1, <2>2 DEF Answer, Answers
    <2>3. CASE answer = Refused(t)
        BY <2>3 DEF Refused, Answer, Answers
    <2>4. CASE answer = Refused(t \cup {call.file})
        BY <2>1, <2>4 DEF Refused, Answer, Answers
    <2> QED BY <1>w, <2>2, <2>3, <2>4 DEF Written
<1>1. CASE call.tool = "read_file"
    <2>1. answer \in ReadFile(call.file, t)
        BY <1>1 DEF ExecuteTool
    <2> QED BY <1>0, <2>1 DEF ReadFile, Refused
<1>2. CASE call.tool = "write_file"
    <2>1. answer \in WriteFile(call.file, t)
        BY <1>2 DEF ExecuteTool
    <2>2. CASE Resolves(call.file, t, TRUE)
        BY <1>2, <1>w, <2>1, <2>2 DEF WriteFile, Resolves
    <2>3. CASE ~ Resolves(call.file, t, TRUE)
        BY <1>0, <2>1, <2>3 DEF WriteFile, Refused
    <2> QED BY <2>2, <2>3
<1>3. CASE call.tool = "apply_patch"
    <2>1. answer \in ApplyPatch(call.file, t)
        BY <1>3 DEF ExecuteTool
    <2>2. CASE answer = Refused(t)
        BY <1>0, <2>2 DEF Refused
    <2>3. CASE answer # Refused(t)
        BY <1>3, <1>w, <2>1, <2>3 DEF ApplyPatch, Resolves
    <2> QED BY <2>2, <2>3
<1>4. CASE call.tool = "run_command"
    BY <1>4 DEF ExecuteTool, RunCommand, Answers
<1>5. CASE call.tool \in {"sudo", "patch_file", "other"}
    BY <1>0, <1>5
       DEF ExecuteTool, Refused, ListFiles, SearchCode, ReadGuideline, ProjectMap, WebSearch
<1> QED BY <1>1, <1>2, <1>3, <1>4, <1>5 DEF Calls

\* Counting a call gives a run of calls.
LEMMA RecordType ==
    ASSUME NEW run \in RunsOfCalls, NEW call \in Calls
    PROVE  /\ Record(run, call) \in RunsOfCalls
           /\ Record(run, call).last = call
BY DEF Record, RunsOfCalls

\* What a return leaves behind.
LEMMA ReturnFacts ==
    ASSUME TypeOK, NEW ok \in BOOLEAN, NEW why \in Reasons \ {"running"},
           modified' \in SUBSET Files, Return(ok, why)
    PROVE  /\ pc' = "over"
           /\ result' \in [ok : BOOLEAN, why : Reasons, files : SUBSET Files]
           /\ result' # Running
           /\ result'.ok = ok
           /\ result'.files = IF ok /\ role = "editor" THEN modified' ELSE {}
<1>1. pc' = "over" /\ result' = [ok |-> ok, why |-> why,
                                 files |-> IF ok /\ role = "editor" THEN modified' ELSE {}]
    BY DEF Return
<1> QED BY <1>1 DEF Running

-----------------------------------------------------------------------------
(* The invariant.                                                          *)

LEMMA InitTurnInv == Init => TurnInv
<1> SUFFICES ASSUME Init PROVE TurnInv
    OBVIOUS
<1>1. TypeOK
    <2>1. /\ pc \in {"classify", "head"}
          /\ role \in Roles
          /\ allowed \in SUBSET Files
          /\ intent \in Intents
        BY DEF Init, Roles, Intents
    <2>2. /\ calls \in RunsOfCalls
          /\ said \in [last : Texts \cup {NoText}, times : Nat]
          /\ ran \in [call : Calls \cup {NoCall}, inARow : Nat]
        BY DEF Init, NoRun, RunsOfCalls
    <2>3. result \in [ok : BOOLEAN, why : Reasons, files : SUBSET Files]
        BY DEF Init, Running, Reasons
    <2>4. opensWithEdit \in BOOLEAN /\ asksEdit \in BOOLEAN /\ (opensWithEdit => asksEdit)
        BY DEF Init
    <2>5. asked \in Nat /\ left \in 0..asked /\ answers \in 0..asked /\ round \in Nat
        <3>1. asked = 0 /\ left = 0 /\ answers = 0 /\ round = 0
            BY DEF Init
        <3> QED BY <3>1
    <2>6. /\ text \in Texts /\ tree \in SUBSET Files /\ modified = {} /\ touched = {}
          /\ fileOps \in BOOLEAN
          /\ pc # "over" /\ result = Running
        BY DEF Init, Texts
    <2> QED BY <2>1, <2>2, <2>3, <2>4, <2>5, <2>6 DEF TypeOK
<1>2. AnsweredInv /\ ModifiedInv
    BY DEF Init, AnsweredInv, ModifiedInv, Running
<1>3. RepeatInv
    <2>1. 0 < ToolLoop
        BY AgentTurnAssumption
    <2>2. ran = [call |-> NoCall, inARow |-> 0] /\ calls = [last |-> NoCall, times |-> 0]
        BY DEF Init, NoRun
    <2> QED BY <2>1, <2>2 DEF RepeatInv
<1> QED BY <1>1, <1>2, <1>3 DEF TurnInv

\* A step that runs no tool and leaves the detector alone keeps the invariant if its
\* conversation is in order and what it returns is a result.
LEMMA QuietStep ==
    ASSUME TurnInv, pc # "over", pc # "classify", pc' # "classify",
           UNCHANGED <<setting, tree, modified, detector, touched, ran>>,
           round' \in Nat, asked' \in Nat, left' \in 0..asked', answers' \in 0..asked',
           text' \in Texts,
           pc' # "over" => pc' \in {"head", "ask", "tools", "said", "final"} /\ UNCHANGED result,
           pc' = "over" => \E ok \in BOOLEAN, why \in Reasons \ {"running"} : Return(ok, why),
           AnsweredInv'
    PROVE  TurnInv'
<1> USE DEF setting, detector
<1>0. TypeOK /\ AnsweredInv /\ ModifiedInv /\ RepeatInv
    BY DEF TurnInv
<1>1. /\ result' \in [ok : BOOLEAN, why : Reasons, files : SUBSET Files]
      /\ (pc' = "over") = (result' # Running)
      /\ role = "editor" /\ result'.ok => result'.files = modified
    <2>1. CASE pc' = "over"
        <3>1. PICK ok \in BOOLEAN, why \in Reasons \ {"running"} : Return(ok, why)
            BY <2>1
        <3>2. modified' \in SUBSET Files
            BY <1>0 DEF TypeOK
        <3> QED BY <1>0, <3>1, <3>2, ReturnFacts
    <2>2. CASE pc' # "over"
        BY <1>0, <2>2 DEF TypeOK, ModifiedInv
    <2> QED BY <2>1, <2>2
<1>2. TypeOK'
    BY <1>0, <1>1 DEF TypeOK
<1>3. ModifiedInv'
    BY <1>0, <1>1 DEF ModifiedInv, IsCovered
<1>4. RepeatInv'
    BY <1>0 DEF RepeatInv
<1> QED BY <1>2, <1>3, <1>4 DEF TurnInv

LEMMA NextTurnInv == TurnInv /\ [Next]_vars => TurnInv'
<1> SUFFICES ASSUME TurnInv, [Next]_vars PROVE TurnInv'
    OBVIOUS
<1>0. TypeOK /\ AnsweredInv /\ ModifiedInv /\ RepeatInv
    BY DEF TurnInv
<1> USE DEF setting, conversation, detector
<1>1. CASE Route
    <2>1. TypeOK'
        BY <1>0, <1>1 DEF TypeOK, ModifiedInv, Route, Roles
    <2>2. AnsweredInv' /\ RepeatInv'
        BY <1>0, <1>1 DEF Route, AnsweredInv, RepeatInv
    <2>3. ModifiedInv'
        BY <1>0, <1>1 DEF TypeOK, Route, ModifiedInv, IsCovered, Running
    <2> QED BY <2>1, <2>2, <2>3 DEF TurnInv
<1>a. round \in Nat /\ asked \in Nat /\ left \in 0..asked /\ answers \in 0..asked /\ text \in Texts
    BY <1>0 DEF TypeOK
<1>2. CASE EditorRound
    <2>0. round' \in {round, round + 1}
        BY <1>2 DEF EditorRound, Round
    <2>1. pc = "head" /\ pc' \in {"ask", "over"} /\ round' \in Nat
        <3>1. pc = "head" /\ pc' \in {"ask", "over"}
            BY <1>2 DEF EditorRound, Round, EndOfRounds, Return
        <3> QED BY <1>a, <2>0, <3>1
    <2>2. pc' = "over" => \E ok \in BOOLEAN, why \in Reasons \ {"running"} : Return(ok, why)
        BY <1>2 DEF EditorRound, Round, EndOfRounds, Reasons
    <2>3. pc' # "over" => UNCHANGED result
        BY <1>2 DEF EditorRound, Round, EndOfRounds, Return
    <2>4. UNCHANGED <<setting, conversation, tree, modified, detector, touched, ran>>
        BY <1>2 DEF EditorRound, Round
    <2>5. AnsweredInv'
        BY <1>0, <2>1, <2>4 DEF AnsweredInv
    <2> QED BY <1>a, <2>1, <2>2, <2>3, <2>4, <2>5, QuietStep
<1>3. CASE QueryRound \/ ReviewRound \/ ValidatorRound
    <2>1. pc = "head" /\ pc' \in {"ask", "final"} /\ round' \in Nat /\ UNCHANGED result
        BY <1>a, <1>3 DEF QueryRound, ReviewRound, ValidatorRound, Round, AskWithoutTools
    <2>2. UNCHANGED <<setting, conversation, tree, modified, detector, touched, ran>>
        BY <1>3 DEF QueryRound, ReviewRound, ValidatorRound, Round
    <2>3. AnsweredInv'
        BY <1>0, <2>1, <2>2 DEF AnsweredInv
    <2> QED BY <1>a, <2>1, <2>2, <2>3, QuietStep
<1>4. CASE NextIteration
    <2>1. pc = "head" /\ pc' \in {"ask", "over"} /\ round' \in Nat
        BY <1>a, <1>4 DEF NextIteration, Return
    <2>2. pc' = "over" => \E ok \in BOOLEAN, why \in Reasons \ {"running"} : Return(ok, why)
        BY <1>4 DEF NextIteration, Reasons
    <2>3. pc' # "over" => UNCHANGED result
        BY <1>4 DEF NextIteration, Return
    <2>4. UNCHANGED <<setting, conversation, tree, modified, detector, touched, ran>>
        BY <1>4 DEF NextIteration
    <2>5. AnsweredInv'
        BY <1>0, <2>1, <2>4 DEF AnsweredInv
    <2> QED BY <1>a, <2>1, <2>2, <2>3, <2>4, <2>5, QuietStep
<1>5. CASE ProviderFails
    <2>1. pc \in {"ask", "final"} /\ pc' = "over" /\ Return(FALSE, "provider")
        BY <1>5 DEF ProviderFails, Return
    <2>2. UNCHANGED <<setting, round, conversation, tree, modified, detector, touched, ran>>
        BY <1>5 DEF ProviderFails
    <2>3. AnsweredInv'
        BY <2>1 DEF AnsweredInv
    <2>4. \E ok \in BOOLEAN, why \in Reasons \ {"running"} : Return(ok, why)
        BY <2>1 DEF Reasons
    <2> QED BY <1>a, <2>1, <2>2, <2>3, <2>4, QuietStep
<1>6. CASE AnswerWithCalls
    <2>1. /\ pc = "ask" /\ pc' = "tools"
          /\ asked' \in 1..MaxCalls /\ left' = asked' /\ answers' = 0
          /\ text' \in Texts
          /\ UNCHANGED <<setting, round, tree, modified, detector, result, touched, ran>>
        BY <1>6 DEF AnswerWithCalls, Texts
    <2>2. asked' \in Nat /\ left' \in 0..asked' /\ answers' \in 0..asked'
        BY <2>1, AgentTurnAssumption
    <2>3. AnsweredInv'
        <3>1. asked' \in 1..MaxCalls /\ left' = asked' /\ answers' = 0 /\ pc' = "tools"
            BY <2>1
        <3>2. \A n \in Nat : \A i \in 1..n : i > 0 /\ 0 + i = i
            OBVIOUS
        <3>3. MaxCalls \in Nat
            BY AgentTurnAssumption
        <3>4. left' > 0 /\ answers' + left' = asked'
            BY <3>1, <3>2, <3>3
        <3> QED BY <3>1, <3>4 DEF AnsweredInv
    <2> QED BY <1>a, <2>1, <2>2, <2>3, QuietStep
<1>7. CASE AnswerWithText
    <2>1. pc = "ask" /\ pc' \in {"head", "over"}
        BY <1>7 DEF AnswerWithText, EditorAnswer, QueryAnswer, ReviewAnswer, Verdict, Return
    <2>2. pc' = "over" => \E ok \in BOOLEAN, why \in Reasons \ {"running"} : Return(ok, why)
        BY <1>7 DEF AnswerWithText, EditorAnswer, QueryAnswer, ReviewAnswer, Verdict,
           VerdictsByWords, Reasons
    <2>3. pc' # "over" => UNCHANGED result
        BY <1>7 DEF AnswerWithText, EditorAnswer, QueryAnswer, ReviewAnswer, Verdict, Return
    <2>4. UNCHANGED <<setting, round, conversation, tree, modified, detector, touched, ran>>
        BY <1>7 DEF AnswerWithText
    <2>5. AnsweredInv'
        BY <1>0, <2>1, <2>4 DEF AnsweredInv
    <2> QED BY <1>a, <2>1, <2>2, <2>3, <2>4, <2>5, QuietStep
<1>8. CASE FinalAnswer
    <2>1. pc = "final" /\ pc' = "over"
        BY <1>8 DEF FinalAnswer, QueryFinal, ReviewFinal, VerdictFinal, Return
    <2>2. \E ok \in BOOLEAN, why \in Reasons \ {"running"} : Return(ok, why)
        BY <1>8 DEF FinalAnswer, QueryFinal, ReviewFinal, VerdictFinal, ExplicitVerdicts, Reasons
    <2>3. UNCHANGED <<setting, round, conversation, tree, modified, detector, touched, ran>>
        BY <1>8 DEF FinalAnswer
    <2>4. AnsweredInv'
        BY <2>1 DEF AnsweredInv
    <2> QED BY <1>a, <2>1, <2>2, <2>3, <2>4, QuietStep
<1>b. ASSUME pc = "tools", ToolMessage, UNCHANGED setting
      PROVE  /\ pc' \in {"tools", "said", "head"} /\ UNCHANGED <<asked, text, result>>
             /\ left' \in 0..asked' /\ answers' \in 0..asked'
             /\ AnsweredInv'
    <2>1. answers + left = asked /\ left > 0
        BY <1>0, <1>b DEF AnsweredInv
    <2>2. answers' = answers + 1 /\ left' = left - 1 /\ UNCHANGED <<asked, text, result>>
        BY <1>b DEF ToolMessage
    <2>3. /\ pc' \in {"tools", "said", "head"} /\ (pc' = "tools" <=> left' # 0)
          /\ pc' = "said" => role' = "orchestrator"
        BY <1>b DEF ToolMessage
    <2>4. left' \in 0..asked' /\ answers' \in 0..asked' /\ answers' + left' = asked'
        BY <1>a, <2>1, <2>2
    <2>5. AnsweredInv'
        BY <1>a, <2>2, <2>3, <2>4 DEF AnsweredInv
    <2> QED BY <2>2, <2>3, <2>4, <2>5
<1>9. ASSUME NEW call \in Calls, Reject(call)
      PROVE  TurnInv'
    <2>1. pc = "tools" /\ ToolMessage
        BY <1>9 DEF Reject
    <2>2. UNCHANGED <<setting, round, tree, modified, detector, touched, ran>>
        BY <1>9 DEF Reject
    <2> QED BY <1>a, <1>b, <2>1, <2>2, QuietStep
<1>10. ASSUME NEW call \in Calls, EditorRuns(call)
       PROVE  TurnInv'
    <2>1. PICK answer \in ExecuteTool(call, tree) :
            /\ tree' = answer.tree
            /\ modified' = modified \cup answer.files
            /\ Ran(call, answer)
            /\ IF AnswersQuery(call, answer)
                 THEN Return(TRUE, "tool result") /\ UNCHANGED conversation
                 ELSE ToolMessage
        BY <1>10 DEF EditorRuns
    <2>2. pc = "tools" /\ role = "editor" /\ ~ Unplanned(call) /\ UNCHANGED <<setting, round, detector>>
        BY <1>10 DEF EditorRuns
    <2>3. /\ answer \in Answers
          /\ answer.files # {} =>
                call.tool \in {"write_file", "apply_patch"} /\ call.file \in Files
                  /\ answer.files = {call.file}
        BY <1>0, <2>1, ToolAnswers DEF TypeOK
    <2>4. \A f \in answer.files : IsCovered(f, allowed)
        BY <2>2, <2>3, ToolsAssumption DEF Unplanned
    <2>5. touched' = touched \cup answer.files /\ UNCHANGED ran
        BY <2>1, <2>2 DEF Ran
    <2>6. tree' \in SUBSET Files /\ modified' \in SUBSET Files /\ touched' \in SUBSET Files
        BY <1>0, <2>1, <2>3, <2>5 DEF TypeOK, Answers
    <2>7. modified' = touched' /\ \A f \in touched' : IsCovered(f, allowed)'
        BY <1>0, <2>1, <2>2, <2>4, <2>5 DEF ModifiedInv, IsCovered
    <2>8. CASE AnswersQuery(call, answer)
        <3>1. Return(TRUE, "tool result") /\ UNCHANGED conversation
            BY <2>1, <2>8
        <3>2. "tool result" \in Reasons \ {"running"}
            BY DEF Reasons
        <3>3. /\ pc' = "over"
              /\ result' \in [ok : BOOLEAN, why : Reasons, files : SUBSET Files]
              /\ result' # Running
              /\ result'.files = modified'
            BY <1>0, <2>2, <2>6, <3>1, <3>2, ReturnFacts
        <3>4. TypeOK'
            BY <1>0, <2>2, <2>5, <2>6, <3>1, <3>3 DEF TypeOK
        <3>5. AnsweredInv' /\ RepeatInv'
            BY <1>0, <2>2, <2>5, <3>3 DEF AnsweredInv, RepeatInv
        <3>6. ModifiedInv'
            BY <2>7, <3>3 DEF ModifiedInv
        <3> QED BY <3>4, <3>5, <3>6 DEF TurnInv
    <2>9. CASE ~ AnswersQuery(call, answer)
        <3>1. /\ pc' \in {"tools", "said", "head"} /\ UNCHANGED <<asked, text, result>>
              /\ left' \in 0..asked' /\ answers' \in 0..asked'
              /\ AnsweredInv'
            BY <1>b, <2>1, <2>2, <2>9
        <3>2. TypeOK'
            BY <1>0, <2>2, <2>5, <2>6, <3>1 DEF TypeOK
        <3>3. RepeatInv'
            BY <1>0, <2>2, <2>5, <3>1 DEF RepeatInv
        <3>4. result = Running
            BY <1>0, <2>2 DEF TypeOK
        <3>5. ModifiedInv'
            BY <2>7, <3>1, <3>4 DEF ModifiedInv, Running
        <3> QED BY <3>1, <3>2, <3>3, <3>5 DEF TurnInv
    <2> QED BY <2>8, <2>9
<1>11. ASSUME NEW call \in Calls, QueryRuns(call) \/ ReviewRuns(call) \/ ValidatorRuns(call)
       PROVE  TurnInv'
    <2>1. Runs(call) /\ role \in {"query", "review", "validator"}
        BY <1>11 DEF QueryRuns, ReviewRuns, ValidatorRuns
    <2>2. PICK answer \in ExecuteTool(call, tree) :
            tree' = answer.tree /\ Ran(call, answer) /\ ToolMessage
        BY <2>1 DEF Runs
    <2>3. pc = "tools" /\ UNCHANGED <<setting, round, modified, detector>>
        BY <2>1 DEF Runs
    <2>4. tree' \in SUBSET Files
        BY <1>0, <2>2, ToolAnswers DEF TypeOK, Answers
    <2>5. UNCHANGED <<touched, ran>>
        BY <2>1, <2>2 DEF Ran
    <2>6. /\ pc' \in {"tools", "said", "head"} /\ UNCHANGED <<asked, text, result>>
          /\ left' \in 0..asked' /\ answers' \in 0..asked'
          /\ AnsweredInv'
        BY <1>b, <2>2, <2>3
    <2>7. TypeOK'
        BY <1>0, <2>3, <2>4, <2>5, <2>6 DEF TypeOK
    <2>8. ModifiedInv' /\ RepeatInv'
        BY <1>0, <2>3, <2>5, <2>6 DEF ModifiedInv, RepeatInv, IsCovered
    <2> QED BY <2>6, <2>7, <2>8 DEF TurnInv
<1>12. ASSUME NEW call \in Calls, RunChecked(call)
       PROVE  TurnInv'
    <2>1. /\ pc = "tools" /\ role = "orchestrator" /\ calls' = Record(calls, call)
          /\ UNCHANGED <<setting, round, said, modified>>
        BY <1>12 DEF RunChecked
    <2>2. calls' \in RunsOfCalls
        BY <1>0, <2>1, RecordType DEF TypeOK
    <2>3. CASE /\ Return(TRUE, "loop")
               /\ UNCHANGED <<conversation, tree, fileOps, touched, ran>>
        <3>1. "loop" \in Reasons \ {"running"} /\ modified' \in SUBSET Files
            BY <1>0, <2>1 DEF Reasons, TypeOK
        <3>2. /\ pc' = "over"
              /\ result' \in [ok : BOOLEAN, why : Reasons, files : SUBSET Files]
              /\ result' # Running
            BY <1>0, <2>3, <3>1, ReturnFacts
        <3>3. TypeOK'
            BY <1>0, <2>1, <2>2, <2>3, <3>2 DEF TypeOK
        <3>4. AnsweredInv' /\ RepeatInv'
            BY <1>0, <2>3, <3>2 DEF AnsweredInv, RepeatInv
        <3>5. ModifiedInv'
            BY <1>0, <2>1, <2>3, <3>2 DEF ModifiedInv, IsCovered
        <3> QED BY <3>3, <3>4, <3>5 DEF TurnInv
    <2>4. CASE /\ calls'.times < ToolLoop
               /\ \E answer \in ExecuteTool(call, tree) : tree' = answer.tree /\ Ran(call, answer)
               /\ fileOps' = (fileOps \/ call.tool \in ProgressNames)
               /\ ToolMessage
        <3>1. PICK answer \in ExecuteTool(call, tree) : tree' = answer.tree /\ Ran(call, answer)
            BY <2>4
        <3>2. tree' \in SUBSET Files
            BY <1>0, <3>1, ToolAnswers DEF TypeOK, Answers
        <3>3. /\ touched' = touched
              /\ ran' = [call |-> call, inARow |-> IF call = ran.call THEN ran.inARow + 1 ELSE 1]
            BY <2>1, <3>1 DEF Ran
        <3>4. ran' = [call |-> calls'.last, inARow |-> calls'.times]
            BY <1>0, <2>1, <3>3 DEF RepeatInv, Record
        <3>5. ran' \in [call : Calls \cup {NoCall}, inARow : Nat] /\ ran'.inARow < ToolLoop
            BY <2>2, <2>4, <3>4 DEF RunsOfCalls
        <3>6. /\ pc' \in {"tools", "said", "head"} /\ UNCHANGED <<asked, text, result>>
              /\ left' \in 0..asked' /\ answers' \in 0..asked'
              /\ AnsweredInv'
            BY <1>b, <2>1, <2>4
        <3>7. TypeOK'
            BY <1>0, <2>1, <2>2, <2>4, <3>2, <3>3, <3>5, <3>6 DEF TypeOK
        <3>8. RepeatInv'
            BY <3>4, <3>5 DEF RepeatInv
        <3>9. ModifiedInv'
            BY <1>0, <2>1, <3>3, <3>6 DEF ModifiedInv, IsCovered
        <3> QED BY <3>6, <3>7, <3>8, <3>9 DEF TurnInv
    <2> QED BY <1>12, <2>3, <2>4 DEF RunChecked
<1>13. CASE CheckContent
    <2>1. /\ pc = "said" /\ said' = Record(said, text)
          /\ UNCHANGED <<setting, round, conversation, tree, modified, fileOps, calls, touched, ran>>
        BY <1>13 DEF CheckContent
    <2>2. said' \in [last : Texts \cup {NoText}, times : Nat]
        BY <1>0, <2>1 DEF TypeOK, Record
    <2>3. CASE Return(TRUE, "chant")
        <3>1. "chant" \in Reasons \ {"running"} /\ modified' \in SUBSET Files
            BY <1>0, <2>1 DEF Reasons, TypeOK
        <3>2. /\ pc' = "over"
              /\ result' \in [ok : BOOLEAN, why : Reasons, files : SUBSET Files]
              /\ result' # Running
              /\ role = "editor" => result'.files = modified'
            BY <1>0, <2>3, <3>1, ReturnFacts
        <3>3. TypeOK'
            BY <1>0, <2>1, <2>2, <3>2 DEF TypeOK
        <3>4. AnsweredInv' /\ RepeatInv'
            BY <1>0, <2>1, <3>2 DEF AnsweredInv, RepeatInv
        <3>5. ModifiedInv'
            BY <1>0, <2>1, <3>2 DEF ModifiedInv, IsCovered
        <3> QED BY <3>3, <3>4, <3>5 DEF TurnInv
    <2>4. CASE pc' = "head" /\ UNCHANGED result
        <3>1. TypeOK'
            BY <1>0, <2>1, <2>2, <2>4 DEF TypeOK
        <3>2. AnsweredInv' /\ RepeatInv'
            BY <1>0, <2>1, <2>4 DEF AnsweredInv, RepeatInv
        <3>3. ModifiedInv'
            BY <1>0, <2>1, <2>4 DEF ModifiedInv, IsCovered
        <3> QED BY <3>1, <3>2, <3>3 DEF TurnInv
    <2> QED BY <1>13, <2>3, <2>4 DEF CheckContent
<1>14. CASE UNCHANGED vars
    <2>1. TypeOK'
        BY <1>0, <1>14 DEF TypeOK, vars
    <2>2. AnsweredInv' /\ ModifiedInv' /\ RepeatInv'
        BY <1>0, <1>14 DEF AnsweredInv, ModifiedInv, RepeatInv, IsCovered, vars
    <2> QED BY <2>1, <2>2 DEF TurnInv
<1> QED BY <1>1, <1>2, <1>3, <1>4, <1>5, <1>6, <1>7, <1>8, <1>9, <1>10, <1>11, <1>12, <1>13, <1>14
        DEF Next

-----------------------------------------------------------------------------
(* The theorems.                                                           *)

\* Every turn keeps the types, the order of its conversation and the account of what
\* its tools wrote and how often they ran.
THEOREM Invariance == Spec => []TurnInv
BY InitTurnInv, NextTurnInv, PTL DEF Spec

\* Whatever the model answers and the tools do, every variable keeps its type, and
\* only the editor collects files.
THEOREM TypeCorrect == Spec => []TypeOK
<1>1. TurnInv => TypeOK
    BY DEF TurnInv
<1> QED BY <1>1, Invariance, PTL

\* No request leaves the program with a tool call that has no message or two.
THEOREM RequestsAreAnsweredAlways == Spec => []RequestsAreAnswered
<1>1. TurnInv => RequestsAreAnswered
    BY DEF TurnInv, AnsweredInv, RequestsAreAnswered
<1> QED BY <1>1, Invariance, PTL

\* The conductor learns of exactly the files whose writing the editor's tools have
\* reported, and they are ones the plan covers.
THEOREM ReportsItsWritesAlways == Spec => []ReportsItsWrites
<1>1. TurnInv => ReportsItsWrites
    BY DEF TurnInv, ModifiedInv, ReportsItsWrites
<1> QED BY <1>1, Invariance, PTL

\* The detector stops a call before it is run ToolLoop times in a row, whatever the
\* rounds, the calls of an answer and the threshold.
THEOREM NoCallIsRepeatedAlways == Spec => []NoCallIsRepeated
<1>1. TurnInv => NoCallIsRepeated
    BY DEF TurnInv, RepeatInv, NoCallIsRepeated
<1> QED BY <1>1, Invariance, PTL

-----------------------------------------------------------------------------
(* The contract.                                                           *)

\* A step that ends the turn is a return; a good one of an editor whose conversation
\* opens with a request for an edit has a file to name.
LEMMA EndsWithReturn ==
    ASSUME TurnInv, Next, pc # "over", pc' = "over"
    PROVE  /\ \E ok \in BOOLEAN, why \in Reasons \ {"running"} :
                /\ Return(ok, why)
                /\ ok /\ role = "editor" /\ opensWithEdit => modified' # {}
           /\ UNCHANGED setting
<1> USE DEF setting, conversation, detector
<1>0. opensWithEdit \in BOOLEAN /\ asksEdit \in BOOLEAN /\ (opensWithEdit => asksEdit)
    BY DEF TurnInv, TypeOK
<1>1. CASE Route
    BY <1>1 DEF Route
<1>2. CASE EditorRound
    BY <1>0, <1>2 DEF EditorRound, Round, EndOfRounds, Reasons
<1>3. CASE QueryRound \/ ReviewRound \/ ValidatorRound
    BY <1>3 DEF QueryRound, ReviewRound, ValidatorRound, Round, AskWithoutTools
<1>4. CASE NextIteration
    BY <1>4 DEF NextIteration, Reasons
<1>5. CASE ProviderFails
    BY <1>5 DEF ProviderFails, Reasons
<1>6. CASE AnswerWithCalls
    BY <1>6 DEF AnswerWithCalls
<1>7. CASE AnswerWithText
    <2>1. CASE EditorAnswer
        BY <1>0, <1>7, <2>1 DEF AnswerWithText, EditorAnswer, Reasons
    <2>2. CASE ~ EditorAnswer
        BY <1>7, <2>2 DEF AnswerWithText, QueryAnswer, ReviewAnswer, Verdict, VerdictsByWords, Reasons
    <2> QED BY <2>1, <2>2
<1>8. CASE FinalAnswer
    BY <1>8 DEF FinalAnswer, QueryFinal, ReviewFinal, VerdictFinal, ExplicitVerdicts, Reasons
<1>9. ASSUME ToolMessage PROVE FALSE
    BY <1>9 DEF ToolMessage
<1>10. ASSUME NEW call \in Calls, Reject(call) PROVE FALSE
    BY <1>9, <1>10 DEF Reject
<1>11. ASSUME NEW call \in Calls, EditorRuns(call)
       PROVE  Return(TRUE, "tool result") /\ ~ opensWithEdit /\ UNCHANGED setting
    BY <1>9, <1>11 DEF EditorRuns, AnswersQuery
<1>12. ASSUME NEW call \in Calls, QueryRuns(call) \/ ReviewRuns(call) \/ ValidatorRuns(call)
       PROVE  FALSE
    BY <1>9, <1>12 DEF QueryRuns, ReviewRuns, ValidatorRuns, Runs
<1>13. ASSUME NEW call \in Calls, RunChecked(call)
       PROVE  Return(TRUE, "loop") /\ role = "orchestrator" /\ UNCHANGED setting
    BY <1>9, <1>13 DEF RunChecked
<1>14. CASE CheckContent
    <2>1. Return(TRUE, "chant") /\ UNCHANGED setting
        BY <1>14 DEF CheckContent
    <2>2. role = "orchestrator"
        BY <1>14 DEF CheckContent, TurnInv, AnsweredInv
    <2> QED BY <2>1, <2>2 DEF Reasons
<1>15. {"tool result", "loop"} \subseteq Reasons \ {"running"}
    BY DEF Reasons
<1> QED BY <1>1, <1>2, <1>3, <1>4, <1>5, <1>6, <1>7, <1>8, <1>10, <1>11, <1>12, <1>13, <1>14, <1>15
        DEF Next

LEMMA StepKeepsContract ==
    ASSUME TurnInv, TurnInv', [Next]_vars
    PROVE  [Contract!Return]_(Contract!turn)
<1> USE DEF Contract!turn
<1>1. CASE UNCHANGED vars
    BY <1>1 DEF vars, setting
<1>2. CASE Next /\ pc' # "over"
    <2>1. pc # "over"
        BY <1>2 DEF Next, Route, EditorRound, QueryRound, ReviewRound, ValidatorRound, Round,
           NextIteration, ProviderFails, AnswerWithCalls, AnswerWithText, FinalAnswer, Reject,
           EditorRuns, QueryRuns, ReviewRuns, ValidatorRuns, Runs, RunChecked, CheckContent
    <2>2. result = Running /\ result' = Running
        BY <1>2, <2>1 DEF TurnInv, TypeOK
    <2> QED BY <1>2, <2>1, <2>2
<1>3. CASE Next /\ pc' = "over"
    <2>1. pc # "over"
        BY <1>3 DEF Next, Route, EditorRound, QueryRound, ReviewRound, ValidatorRound, Round,
           NextIteration, ProviderFails, AnswerWithCalls, AnswerWithText, FinalAnswer, Reject,
           EditorRuns, QueryRuns, ReviewRuns, ValidatorRuns, Runs, RunChecked, CheckContent
    <2>2. PICK ok \in BOOLEAN, why \in Reasons \ {"running"} :
            /\ Return(ok, why)
            /\ ok /\ role = "editor" /\ opensWithEdit => modified' # {}
        BY <1>3, <2>1, EndsWithReturn
    <2>3. UNCHANGED setting
        BY <1>3, <2>1, EndsWithReturn
    <2>4. modified' \in SUBSET Files /\ \A f \in modified' : IsCovered(f, allowed)
        BY <2>3 DEF TurnInv, TypeOK, ModifiedInv, IsCovered, setting
    <2>5. result'.ok = ok /\ result'.files = IF ok /\ role = "editor" THEN modified' ELSE {}
        BY <2>2, <2>4, ReturnFacts DEF TurnInv
    <2>6. result'.files \in SUBSET {f \in Files : IsCovered(f, allowed)}
        BY <2>4, <2>5
    <2> QED BY <1>3, <2>1, <2>2, <2>5, <2>6 DEF Contract!Return
<1> QED BY <1>1, <1>2, <1>3

\* Whatever the model answers and the tools do, a turn returns once, an error names no
\* file, and an editor asked for an edit does not end well without one.
THEOREM KeepsTheContract == Spec => Contract!Safety
<1>1. Init => Contract!Init
    <2>1. Init => pc # "over" /\ result = Running
        BY DEF Init
    <2> QED BY <2>1 DEF Contract!Init, Running
<1>2. TurnInv /\ TurnInv' /\ [Next]_vars => [Contract!Return]_(Contract!turn)
    BY StepKeepsContract
<1> QED BY <1>1, <1>2, Invariance, PTL DEF Spec, Contract!Safety
-----------------------------------------------------------------------------
(* The way to the end of a turn.                                           *)

\* The rounds a loop may take.
Rounds(r) ==
    CASE r = "editor" -> EditorRounds
      [] r = "query" -> QueryRounds
      [] r = "review" -> ReviewRounds
      [] r = "validator" -> ValidatorRounds
      [] OTHER -> MaxIterationsForIntent("edit", 0)

\* More than any loop has: before the classifier has chosen one.
MostRounds ==
    EditorRounds + QueryRounds + ReviewRounds + ValidatorRounds + MaxIterationsForIntent("edit", 0)

RoundsLeft(stage, r, n) == IF stage = "classify" THEN MostRounds + 2 ELSE Rounds(r) + 1 - n

\* The steps that are left of a round, of whose calls n have not been run.
StepsLeft(stage, n) ==
    CASE stage = "ask" -> 4 + MaxCalls
      [] stage = "tools" -> 3 + n
      [] stage = "said" -> 3
      [] stage = "head" -> 2
      [] stage = "final" -> 1
      [] OTHER -> 0

\* The rounds that are left, then the steps that are left of this one.
ToGo == <<RoundsLeft(pc, role, round), StepsLeft(pc, left)>>
Below(r, q) == r[1] < q[1] \/ (r[1] = q[1] /\ r[2] < q[2])
NearsTheEnd == Below(ToGo', ToGo)

\* No loop goes beyond its rounds; the orchestrator counts the one it refuses too.
RoundsInv ==
    /\ pc = "classify" => round = 0
    /\ intent = "edit"
    /\ round <= Rounds(role) + (IF pc = "over" /\ role = "orchestrator" THEN 1 ELSE 0)

LEMMA RoundsFacts ==
    /\ \A r \in Roles : Rounds(r) \in Nat /\ Rounds(r) + 1 < MostRounds + 2
    /\ Rounds("editor") = EditorRounds /\ Rounds("query") = QueryRounds
    /\ Rounds("review") = ReviewRounds /\ Rounds("validator") = ValidatorRounds
    /\ Rounds("orchestrator") = 15 /\ MostRounds \in Nat
BY AgentTurnAssumption DEF Rounds, MostRounds, Roles, MaxIterationsForIntent

LEMMA StepsFacts ==
    /\ StepsLeft("ask", left) = 4 + MaxCalls /\ StepsLeft("tools", left) = 3 + left
    /\ StepsLeft("said", left) = 3 /\ StepsLeft("head", left) = 2
    /\ StepsLeft("final", left) = 1
    /\ StepsLeft("over", left) = 0 /\ StepsLeft("classify", left) = 0
BY DEF StepsLeft

LEMMA ToGoFacts == TurnInv /\ RoundsInv => ToGo \in Nat \X Nat
<1> SUFFICES ASSUME TurnInv, RoundsInv PROVE ToGo \in Nat \X Nat
    OBVIOUS
<1>0. /\ pc \in {"classify", "head", "ask", "tools", "said", "final", "over"}
      /\ role \in Roles /\ round \in Nat /\ left \in Nat
    BY DEF TurnInv, TypeOK
<1>1. RoundsLeft(pc, role, round) \in Nat
    <2>1. CASE pc = "classify"
        BY <2>1, RoundsFacts DEF RoundsLeft
    <2>2. CASE pc # "classify"
        <3>1. Rounds(role) \in Nat /\ round <= Rounds(role) + 1
            BY <1>0, RoundsFacts DEF RoundsInv
        <3> QED BY <1>0, <2>2, <3>1 DEF RoundsLeft
    <2> QED BY <2>1, <2>2
<1>2. StepsLeft(pc, left) \in Nat
    BY <1>0, StepsFacts, AgentTurnAssumption
<1> QED BY <1>1, <1>2 DEF ToGo

\* Behind a tool message fewer calls are left, or none and the round ends.
LEMMA CallsNear ==
    ASSUME TurnInv, pc = "tools", ToolMessage
    PROVE  /\ pc' \in {"tools", "said", "head"}
           /\ StepsLeft(pc', left') < StepsLeft(pc, left)
<1>1. left \in Nat /\ left > 0
    BY DEF TurnInv, TypeOK, AnsweredInv
<1>2. left' = left - 1 /\ pc' \in {"tools", "said", "head"}
    BY DEF ToolMessage
<1>3. StepsLeft(pc, left) = 3 + left
    BY StepsFacts
<1>4. \/ StepsLeft(pc', left') = 3 + left' 
      \/ StepsLeft(pc', left') \in {2, 3}
    BY <1>2 DEF StepsLeft
<1> QED BY <1>1, <1>2, <1>3, <1>4

LEMMA NearsStep == TurnInv /\ RoundsInv /\ [Next]_vars => RoundsInv' /\ [NearsTheEnd]_vars
<1> SUFFICES ASSUME TurnInv, RoundsInv, [Next]_vars PROVE RoundsInv' /\ [NearsTheEnd]_vars
    OBVIOUS
<1>0. /\ role \in Roles /\ round \in Nat /\ left \in Nat /\ MaxCalls \in Nat
      /\ Rounds(role) \in Nat /\ Rounds(role) + 1 < MostRounds + 2
    BY RoundsFacts, AgentTurnAssumption DEF TurnInv, TypeOK
<1> USE DEF setting, conversation, detector
\* A step within a round.
<1>a. ASSUME pc \notin {"classify", "over"}, pc' # "classify", UNCHANGED <<setting, round>>,
             StepsLeft(pc', left') < StepsLeft(pc, left)
      PROVE  RoundsInv' /\ NearsTheEnd
    <2>1. round <= Rounds(role)
        BY <1>0, <1>a DEF RoundsInv
    <2>2. RoundsInv'
        BY <1>0, <1>a, <2>1 DEF RoundsInv
    <2>3. RoundsLeft(pc', role', round') = RoundsLeft(pc, role, round)
        BY <1>a DEF RoundsLeft
    <2> QED BY <1>a, <2>2, <2>3 DEF NearsTheEnd, ToGo, Below
<1>b. ASSUME pc' \in {"head", "final", "over"}, pc \in {"head", "ask", "tools", "said", "final"},
             pc' = "head" => pc \in {"ask", "said"}, pc' = "final" => pc = "head",
             UNCHANGED <<setting, round>>
      PROVE  RoundsInv' /\ NearsTheEnd
    <2>1. StepsLeft(pc', left') < StepsLeft(pc, left)
        BY <1>0, <1>b, StepsFacts DEF StepsLeft
    <2> QED BY <1>a, <1>b, <2>1
\* A new round.
<1>c. ASSUME pc = "head", round' = round + 1, UNCHANGED setting, pc' \in {"ask", "over"},
             round' <= Rounds(role) + (IF pc' = "over" /\ role = "orchestrator" THEN 1 ELSE 0)
      PROVE  RoundsInv' /\ NearsTheEnd
    <2>1. RoundsInv'
        BY <1>0, <1>c DEF RoundsInv
    <2>2. RoundsLeft(pc', role', round') < RoundsLeft(pc, role, round)
        BY <1>0, <1>c DEF RoundsLeft
    <2> QED BY <2>1, <2>2 DEF NearsTheEnd, ToGo, Below
<1>1. CASE Route
    <2>1. /\ pc = "classify" /\ pc' = "head" /\ round = 0 /\ round' = 0 /\ intent' = intent
          /\ role' \in Roles
        BY <1>1 DEF Route, RoundsInv, Roles
    <2>2. Rounds(role') \in Nat /\ Rounds(role') + 1 < MostRounds + 2
        BY <2>1, RoundsFacts
    <2>3. RoundsInv'
        BY <2>1, <2>2 DEF RoundsInv
    <2>4. RoundsLeft(pc', role', round') < RoundsLeft(pc, role, round)
        BY <2>1, <2>2 DEF RoundsLeft
    <2> QED BY <2>3, <2>4 DEF NearsTheEnd, ToGo, Below
<1>2. CASE EditorRound \/ QueryRound \/ ReviewRound \/ ValidatorRound
    <2>1. /\ pc = "head" /\ UNCHANGED setting
          /\ \/ round < Rounds(role) /\ pc' = "ask" /\ round' = round + 1
             \/ pc' \in {"final", "over"} /\ UNCHANGED round
        BY <1>2, RoundsFacts DEF EditorRound, QueryRound, ReviewRound, ValidatorRound, Round,
           EndOfRounds, AskWithoutTools, Return
    <2> QED BY <1>0, <1>b, <1>c, <2>1
<1>3. CASE NextIteration
    <2>1. pc = "head" /\ round' = round + 1 /\ UNCHANGED setting /\ role = "orchestrator"
        BY <1>3 DEF NextIteration
    <2>2. /\ pc' \in {"ask", "over"}
          /\ pc' = "ask" => ~ LimitReached(intent, 0, round')
        BY <1>3 DEF NextIteration, ShouldContinue, Return
    <2>3. pc' = "ask" => round' <= 15
        BY <1>0, <2>1, <2>2 DEF LimitReached, MaxIterationsForIntent, RoundsInv
    <2>4. round <= 15 /\ Rounds(role) = 15
        BY <2>1, RoundsFacts DEF RoundsInv
    <2> QED BY <1>0, <1>c, <2>1, <2>2, <2>3, <2>4
<1>4. CASE ProviderFails \/ AnswerWithText \/ FinalAnswer
    BY <1>b, <1>4 DEF ProviderFails, AnswerWithText, EditorAnswer, QueryAnswer, ReviewAnswer,
       Verdict, FinalAnswer, QueryFinal, ReviewFinal, VerdictFinal, Return
<1>5. CASE AnswerWithCalls
    <2>1. /\ pc = "ask" /\ pc' = "tools" /\ UNCHANGED <<setting, round>>
          /\ left' \in 1..MaxCalls
        BY <1>5 DEF AnswerWithCalls
    <2>2. StepsLeft(pc, left) = 4 + MaxCalls /\ StepsLeft(pc', left') = 3 + left'
        BY <2>1 DEF StepsLeft
    <2>3. StepsLeft(pc', left') < StepsLeft(pc, left)
        BY <1>0, <2>1, <2>2
    <2> QED BY <1>a, <2>1, <2>3
<1>6. ASSUME pc = "tools", UNCHANGED <<setting, round>>,
             ToolMessage \/ \E why \in Reasons : Return(TRUE, why)
      PROVE  RoundsInv' /\ NearsTheEnd
    <2>1. CASE ToolMessage
        BY <1>6, <1>a, <2>1, CallsNear
    <2>2. CASE \E why \in Reasons : Return(TRUE, why)
        BY <1>6, <1>b, <2>2 DEF Return
    <2> QED BY <1>6, <2>1, <2>2
<1>7. ASSUME NEW call \in Calls,
             \/ Reject(call) \/ EditorRuns(call)
             \/ QueryRuns(call) \/ ReviewRuns(call) \/ ValidatorRuns(call)
             \/ RunChecked(call)
      PROVE  RoundsInv' /\ NearsTheEnd
    <2>1. {"tool result", "loop"} \subseteq Reasons
        BY DEF Reasons
    <2>2. CASE Reject(call)
        BY <1>6, <2>2 DEF Reject
    <2>3. CASE EditorRuns(call)
        BY <1>6, <2>1, <2>3 DEF EditorRuns
    <2>4. CASE QueryRuns(call) \/ ReviewRuns(call) \/ ValidatorRuns(call)
        BY <1>6, <2>4 DEF QueryRuns, ReviewRuns, ValidatorRuns, Runs
    <2>5. CASE RunChecked(call)
        BY <1>6, <2>1, <2>5 DEF RunChecked
    <2> QED BY <1>7, <2>2, <2>3, <2>4, <2>5
<1>8. CASE CheckContent
    BY <1>b, <1>8 DEF CheckContent, Return
<1>9. CASE UNCHANGED vars
    BY <1>9 DEF vars, RoundsInv
<1> QED BY <1>1, <1>2, <1>3, <1>4, <1>5, <1>7, <1>8, <1>9 DEF Next

\* A turn cannot go on for ever: whatever the model answers and the tools do, every
\* step leaves fewer rounds, or fewer steps of this one; and no loop asks the model
\* for more answers than its limit.
THEOREM TurnNearsItsEnd == Spec => [](ToGo \in Nat \X Nat) /\ [][NearsTheEnd]_vars
<1>1. Init => RoundsInv
    <2>1. Init => role \in Roles /\ round = 0 /\ intent = "edit"
        BY DEF Init, Roles
    <2> QED BY <2>1, RoundsFacts DEF RoundsInv
<1>2. TurnInv /\ RoundsInv /\ [Next]_vars => RoundsInv' /\ [NearsTheEnd]_vars
    BY NearsStep
<1> QED BY <1>1, <1>2, ToGoFacts, Invariance, PTL DEF Spec
=============================================================================
