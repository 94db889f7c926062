----------------------------- MODULE AgentTurn ------------------------------
(***************************************************************************)
(* One turn of an agent (internal/agents, llm/orchestrator.go): the model  *)
(* is asked, the tools it calls are run, their answers go into the         *)
(* conversation, and the model is asked again, within a limit of rounds.   *)
(* Five loops of this shape differ in what ends them:                      *)
(*   editor       EditorAgent.Execute                                      *)
(*   query        QueryAgent.Execute                                       *)
(*   review       ReviewAgent.Execute                                      *)
(*   validator    ReviewerAgent.Review                                     *)
(*   orchestrator OrchestratorProvider.Chat, with the loop detector        *)
(* The conversation is kept as far as a turn looks at it: how many calls   *)
(* the last answer made, which of them have their tool message, and where  *)
(* it asks for an edit.                                                    *)
(***************************************************************************)
EXTENDS Tools, LoopDetector, Sequences

CONSTANTS
    Covers,         \* <<path, planned>>: path is planned, or a part of planned's text
    MaxCalls,       \* bound: tool calls in one answer of the model
    EditorRounds,   \* maxToolChainDepth of the editor
    QueryRounds, ReviewRounds, ValidatorRounds,
    ToolLoop,       \* ToolLoopThreshold of the detector
    ContentLoop     \* ContentLoopThreshold of the detector

ASSUME AgentTurnAssumption ==
    /\ \A f \in Files : <<f, f>> \in Covers
    /\ MaxCalls \in Nat \ {0}
    /\ EditorRounds \in Nat \ {0} /\ QueryRounds \in Nat \ {0}
    /\ ReviewRounds \in Nat \ {0} /\ ValidatorRounds \in Nat \ {0}
    /\ ToolLoop \in Nat \ {0, 1} /\ ContentLoop \in Nat \ {0, 1}

Roles == {"editor", "query", "review", "validator", "orchestrator"}
Texts == {"", "some"}
NoCall == [tool |-> "none", file |-> NoFile]
NoText == "none"

VARIABLES
    pc,             \* "classify", "head", "ask", "tools", "said", "final", "over"
    role,           \* whose loop this is
    opensWithEdit,  \* containsEditKeywords of the first message
    asksEdit,       \* editRequested: of the first or a later user message
    allowed,        \* allowedFiles, empty when anything may be written
    intent,         \* the detector's intent
    round,          \* answers asked for; Iteration of the detector
    text,           \* of the model's last answer with tool calls
    asked, left,    \* calls of that answer, and those not yet run
    answers,        \* tool messages since that answer
    tree,           \* the working tree
    modified,       \* modifiedFiles
    fileOps,        \* FileModifications of the detector > 0
    calls, said,    \* the detector's runs of equal calls and of equal texts
    result,         \* what the turn returned
    touched, ran    \* history: the editor's reported writes; the last call the
                    \* orchestrator has run, and how often

conversation == <<asked, left, answers, text>>
setting == <<role, opensWithEdit, asksEdit, allowed, intent>>
detector == <<fileOps, calls, said>>
vars == <<pc, setting, round, conversation, tree, modified, detector, result, touched, ran>>

Running == [ok |-> FALSE, why |-> "running", files |-> {}]

Reasons == {"running", "provider", "tool result", "answer", "no files", "limit", "empty",
            "success", "issues", "no issues", "no verdict", "stopped", "loop", "chant"}

Return(ok, why) ==
    /\ pc' = "over"
    /\ result' = [ok |-> ok, why |-> why,
                  files |-> IF ok /\ role = "editor" THEN modified' ELSE {}]

\* validateFileWrite: a path passes that is equal to, or a part of, a planned one.
IsCovered(f, planned) == planned = {} \/ \E g \in planned : <<f, g>> \in Covers

Init ==
    /\ \/ pc = "classify" /\ role = "query" /\ intent = "edit" /\ allowed = {}
       \/ pc = "head" /\ role = "editor" /\ intent = "edit" /\ allowed \in SUBSET Files
       \/ pc = "head" /\ role = "validator" /\ intent = "edit" /\ allowed = {}
       \/ pc = "head" /\ role = "orchestrator" /\ intent = "edit" /\ allowed = {}
    /\ opensWithEdit \in IF role \in {"query", "editor"} THEN BOOLEAN ELSE {FALSE}
    /\ asksEdit \in IF role \in {"query", "editor"} THEN {opensWithEdit, TRUE} ELSE {FALSE}
    /\ tree \in SUBSET Files
    /\ round = 0
    /\ asked = 0 /\ left = 0 /\ answers = 0 /\ text = ""
    /\ modified = {}
    /\ fileOps = FALSE
    /\ calls = NoRun(NoCall)
    /\ said = NoRun(NoText)
    /\ result = Running
    /\ touched = {}
    /\ ran = [call |-> NoCall, inARow |-> 0]

\* Coordinator.Execute: the label chooses the agent; an error of the classifier
\* or a label without an agent of its own falls back to the query agent. The
\* research agent is the orchestrator under its default intent.
Route ==
    /\ pc = "classify"
    /\ role' \in {"editor", "query", "review", "orchestrator"}
    /\ pc' = "head"
    /\ UNCHANGED <<opensWithEdit, asksEdit, allowed, intent, round, conversation, tree,
                   modified, detector, result, touched, ran>>

\* Mutant of EndOfRounds: a turn without a change may pass for one.
EndOfRoundsWell == Return(TRUE, "limit")

\* Behind the editor's last round.
EndOfRounds ==
    IF asksEdit /\ modified = {} THEN Return(FALSE, "no files") ELSE Return(TRUE, "limit")

\* The head of an agent's loop: one more round, or what comes behind the last.
Round(limit, Behind) ==
    /\ pc = "head"
    /\ UNCHANGED modified
    /\ \/ round < limit /\ pc' = "ask" /\ round' = round + 1 /\ UNCHANGED result
       \/ round = limit /\ Behind /\ UNCHANGED round
    /\ UNCHANGED <<setting, conversation, tree, detector, touched, ran>>

AskWithoutTools == pc' = "final" /\ UNCHANGED result

EditorRound    == role = "editor"    /\ Round(EditorRounds, EndOfRounds)
QueryRound     == role = "query"     /\ Round(QueryRounds, AskWithoutTools)
ReviewRound    == role = "review"    /\ Round(ReviewRounds, AskWithoutTools)
ValidatorRound == role = "validator" /\ Round(ValidatorRounds, AskWithoutTools)

\* The head of the orchestrator's loop: ShouldContinue counts, then decides.
NextIteration ==
    /\ pc = "head"
    /\ role = "orchestrator"
    /\ round' = round + 1
    /\ UNCHANGED modified
    /\ IF ShouldContinue(intent, 0, round', IF fileOps THEN 1 ELSE 0)
         THEN pc' = "ask" /\ UNCHANGED result
         ELSE Return(TRUE, "stopped")
    /\ UNCHANGED <<setting, conversation, tree, detector, touched, ran>>

-----------------------------------------------------------------------------
(* The model's answer.                                                     *)

\* An error of the provider ends every loop; the editor's files are forgotten.
ProviderFails ==
    /\ pc \in {"ask", "final"}
    /\ UNCHANGED modified
    /\ Return(FALSE, "provider")
    /\ UNCHANGED <<setting, round, conversation, tree, detector, touched, ran>>

\* The answer calls tools; the editor and the orchestrator find calls in a text too.
AnswerWithCalls ==
    /\ pc = "ask"
    /\ pc' = "tools"
    /\ asked' \in 1..MaxCalls
    /\ left' = asked'
    /\ answers' = 0
    /\ text' \in IF role = "orchestrator" THEN Texts ELSE {""}
    /\ UNCHANGED <<setting, round, tree, modified, detector, result, touched, ran>>

\* The editor takes a text for the end of the turn unless an edit is still due.
EditorAnswer ==
    /\ role = "editor"
    /\ IF asksEdit /\ modified = {} THEN pc' = "head" /\ UNCHANGED result
                                    ELSE Return(TRUE, "answer")

\* The query agent asks again after an empty text, the review agent gives up.
QueryAnswer ==
    /\ role = "query"
    /\ \/ Return(TRUE, "answer")
       \/ pc' = "head" /\ UNCHANGED result

ReviewAnswer ==
    /\ role = "review"
    /\ Return(TRUE, "answer") \/ Return(FALSE, "empty")

\* containsSuccess and extractIssues look for words anywhere in the text, so an
\* objection may come without a single issue.
VerdictsByWords == {"success", "issues", "no issues"}

Verdict == role = "validator" /\ \E why \in VerdictsByWords : Return(TRUE, why)

AnswerWithText ==
    /\ pc = "ask"
    /\ UNCHANGED modified
    /\ \/ EditorAnswer \/ QueryAnswer \/ ReviewAnswer \/ Verdict
       \/ role = "orchestrator" /\ Return(TRUE, "answer")
    /\ UNCHANGED <<setting, round, conversation, tree, detector, touched, ran>>

\* The one request without tools behind the last round.
QueryFinal  == role = "query"  /\ (Return(TRUE, "answer") \/ Return(FALSE, "empty"))
ReviewFinal == role = "review" /\ (Return(TRUE, "answer") \/ Return(FALSE, "empty"))

\* explicitReviewVerdict looks at the first word only.
ExplicitVerdicts == {"success", "issues", "no verdict"}

\* The validator's last text must open with a verdict, and an objection that names
\* no issue is given one.
VerdictFinal ==
    /\ role = "validator"
    /\ \E why \in ExplicitVerdicts : Return(why # "no verdict", why)

FinalAnswer ==
    /\ pc = "final"
    /\ UNCHANGED modified
    /\ QueryFinal \/ ReviewFinal \/ VerdictFinal
    /\ UNCHANGED <<setting, round, conversation, tree, detector, touched, ran>>

-----------------------------------------------------------------------------
(* The tools of that answer, one after the other.                          *)

\* Mutant of ToolMessage: a failing call is reported twice.
ToolMessageTwice ==
    /\ answers' \in {answers + 1, answers + 2}
    /\ left' = left - 1
    /\ pc' = IF left' = 0 THEN (IF role = "orchestrator" THEN "said" ELSE "head") ELSE "tools"
    /\ UNCHANGED <<asked, text, result>>

\* Behind a tool message: the next call, or the end of the round.
ToolMessage ==
    /\ answers' = answers + 1
    /\ left' = left - 1
    /\ pc' = IF left' = 0 THEN (IF role = "orchestrator" THEN "said" ELSE "head") ELSE "tools"
    /\ UNCHANGED <<asked, text, result>>

Unplanned(call) ==
    /\ role = "editor"
    /\ call.tool \in {"write_file", "apply_patch"}
    /\ call.file # NoFile
    /\ ~ IsCovered(call.file, allowed)

\* Mutant of Reject: the call gets no tool message.
RejectSilently(call) ==
    /\ pc = "tools" /\ Unplanned(call)
    /\ left' = left - 1
    /\ pc' = IF left' = 0 THEN "head" ELSE "tools"
    /\ UNCHANGED <<setting, round, asked, answers, text, tree, modified, detector, result,
                   touched, ran>>

\* The editor does not run a write outside the plan, and says so to the model.
Reject(call) ==
    /\ pc = "tools"
    /\ Unplanned(call)
    /\ ToolMessage
    /\ UNCHANGED <<setting, round, tree, modified, detector, touched, ran>>

\* What the history keeps of a call that was run.
Ran(call, answer) ==
    /\ touched' = IF role = "editor" THEN touched \cup answer.files ELSE touched
    /\ ran' = IF role # "orchestrator" THEN ran
              ELSE [call |-> call, inARow |-> IF call = ran.call THEN ran.inARow + 1 ELSE 1]

\* The editor's short cut: on a conversation that does not open with an edit, the
\* first text read or printed is the answer.
AnswersQuery(call, answer) ==
    /\ role = "editor"
    /\ ~ opensWithEdit
    /\ modified' = {}
    /\ call.tool \in {"read_file", "run_command"}
    /\ answer.ok /\ answer.text

\* Mutant of EditorRuns: a later call of an answer replaces what an earlier one reported.
EditorRunsLast(call) ==
    /\ pc = "tools" /\ role = "editor" /\ ~ Unplanned(call)
    /\ \E answer \in ExecuteTool(call, tree) :
        /\ tree' = answer.tree
        /\ modified' = IF answer.files # {} THEN answer.files ELSE modified
        /\ Ran(call, answer)
        /\ IF AnswersQuery(call, answer)
             THEN Return(TRUE, "tool result") /\ UNCHANGED conversation
             ELSE ToolMessage
    /\ UNCHANGED <<setting, round, detector>>

\* The editor runs a call and collects the files it reports.
EditorRuns(call) ==
    /\ pc = "tools"
    /\ role = "editor"
    /\ ~ Unplanned(call)
    /\ \E answer \in ExecuteTool(call, tree) :
        /\ tree' = answer.tree
        /\ modified' = modified \cup answer.files
        /\ Ran(call, answer)
        /\ IF AnswersQuery(call, answer)
             THEN Return(TRUE, "tool result") /\ UNCHANGED conversation
             ELSE ToolMessage
    /\ UNCHANGED <<setting, round, detector>>

\* The other agents run it, also one whose name they have not offered, and put
\* what comes of it into the conversation.
Runs(call) ==
    /\ pc = "tools"
    /\ \E answer \in ExecuteTool(call, tree) :
        /\ tree' = answer.tree
        /\ Ran(call, answer)
        /\ ToolMessage
    /\ UNCHANGED <<setting, round, modified, detector>>

QueryRuns(call)     == role = "query"     /\ Runs(call)
ReviewRuns(call)    == role = "review"    /\ Runs(call)
ValidatorRuns(call) == role = "validator" /\ Runs(call)

\* The names that RecordFileModification is called for, whatever comes of the call;
\* apply_patch is not among them.
ProgressNames == {"write_file", "patch_file"}

\* The orchestrator asks the detector before it runs a call.
RunChecked(call) ==
    /\ pc = "tools"
    /\ role = "orchestrator"
    /\ calls' = Record(calls, call)
    /\ UNCHANGED modified
    /\ \/ /\ calls'.times >= ToolLoop
          /\ Return(TRUE, "loop")
          /\ UNCHANGED <<conversation, tree, fileOps, touched, ran>>
       \/ /\ calls'.times < ToolLoop
          /\ \E answer \in ExecuteTool(call, tree) :
                /\ tree' = answer.tree
                /\ Ran(call, answer)
          /\ fileOps' = (fileOps \/ call.tool \in ProgressNames)
          /\ ToolMessage
    /\ UNCHANGED <<setting, round, said>>

\* ... and after the round whether the model has said the same text before.
CheckContent ==
    /\ pc = "said"
    /\ said' = Record(said, text)
    /\ UNCHANGED modified
    /\ IF said'.times >= ContentLoop THEN Return(TRUE, "chant")
                                     ELSE pc' = "head" /\ UNCHANGED result
    /\ UNCHANGED <<setting, round, conversation, tree, fileOps, calls, touched, ran>>

Next ==
    \/ Route
    \/ EditorRound \/ QueryRound \/ ReviewRound \/ ValidatorRound \/ NextIteration
    \/ ProviderFails \/ AnswerWithCalls \/ AnswerWithText \/ FinalAnswer
    \/ \E call \in Calls :
        \/ Reject(call) \/ EditorRuns(call)
        \/ QueryRuns(call) \/ ReviewRuns(call) \/ ValidatorRuns(call)
        \/ RunChecked(call)
    \/ CheckContent

\* The steps a turn takes by itself. In Waits it waits for a request to a model, whose
\* client may have no timeout, or for a tool, whose process may not end.
Local ==
    \/ EditorRound \/ QueryRound \/ ReviewRound \/ ValidatorRound \/ NextIteration
    \/ CheckContent

Waits == {"classify", "ask", "tools", "final"}

\* The loop runs in one goroutine. No call it waits for need ever return.
Spec == Init /\ [][Next]_vars /\ WF_vars(Local)

-----------------------------------------------------------------------------
(* Properties                                                              *)

RunsOfCalls == [last : Calls \cup {NoCall}, times : Nat]

\* The control of the five loops and what they hand on: the editor alone collects
\* files, and only tool messages of the current answer are counted.
TypeOK ==
    /\ pc \in {"classify", "head", "ask", "tools", "said", "final", "over"}
    /\ role \in Roles
    /\ opensWithEdit \in BOOLEAN /\ asksEdit \in BOOLEAN
    /\ opensWithEdit => asksEdit
    /\ allowed \in SUBSET Files
    /\ intent \in Intents
    /\ round \in Nat
    /\ asked \in Nat /\ left \in 0..asked /\ answers \in 0..asked
    /\ text \in Texts
    /\ tree \in SUBSET Files
    /\ modified \in SUBSET Files /\ touched \in SUBSET Files
    /\ role # "editor" => modified = {}
    /\ fileOps \in BOOLEAN
    /\ calls \in RunsOfCalls
    /\ said \in [last : Texts \cup {NoText}, times : Nat]
    /\ result \in [ok : BOOLEAN, why : Reasons, files : SUBSET Files]
    /\ ran \in [call : Calls \cup {NoCall}, inARow : Nat]
    /\ (pc = "over") = (result # Running)

\* Whenever the model is asked again, each tool call of its last answer has had
\* exactly one tool message: rejected, failed and successful calls alike. (A
\* provider refuses a conversation with a call left open.)
RequestsAreAnswered == pc \in {"head", "said", "ask", "final"} => answers = asked

\* A turn of the editor that ends well names exactly the files whose writing its file
\* tools have reported, in whichever of the rounds and on whichever of the two paths
\* the calls came; and each of them is one the plan covers. (What run_command writes,
\* and a write that fails half-way, is reported by no tool.)
ReportsItsWrites ==
    role = "editor" /\ pc = "over" /\ result.ok =>
        /\ result.files = touched
        /\ \A f \in touched : IsCovered(f, allowed)

\* The orchestrator never runs one and the same call ToolLoop times in a row, not
\* across rounds either.
NoCallIsRepeated == ran.inARow < ToolLoop

Contract == INSTANCE TurnContract WITH
    Covered <- IsCovered, running <- pc # "over", ok <- result.ok, files <- result.files,
    owes <- role = "editor" /\ opensWithEdit, at <- pc

\* Every turn keeps the contract the conductor and guided mode rely on: it ends unless
\* a call it waits for never returns, an error names no file, and an editor whose
\* conversation opens with a request for an edit does not end well without one.
IsATurn == Contract!Spec

\* Neither the plan's file list nor the comment on it ("constrains writes to
\* planned files", editor.go:94) lets a file of another name pass.
OnlyPlannedFiles ==
    role = "editor" /\ allowed # {} => touched \subseteq allowed
=============================================================================
