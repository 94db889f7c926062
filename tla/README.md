# Verification of GPTCode

GPTCode is a command line program that lets language models change a repository: it plans a task,
lets an editor model call tools, verifies the result with deterministic commands and has it reviewed.
The models' answers are arbitrary. What makes the program trustworthy is the control around them:
which checks stand between an answer and "task complete", how often something is tried again, which
model is asked, what an editor program is told over the wire, what survives a crash. This directory
specifies that control in TLA+, checks it with TLC and proves the most important properties with
TLAPS.

Everything is translated from the Go source. Findings, where the code does something else than a
document, a comment or a message of the repository says, are listed at the end.

## 1. The system

### Components

| Component | State | Operations | Interacts with |
|---|---|---|---|
| do command (`cmd/gptcode/do.go`) | attempt, current backend and model | attempt loop, questions to the user | analysis, Conductor or guided mode, recommender, user |
| Model selection (`internal/config/model_selector.go`, `internal/intelligence`) | usage and errors of the day, task history | `SelectModel`, `RecordUsage`, `RecommendModelForRetry` | Conductor, do command, `usage.json`, history file |
| Symphony (`internal/autonomous/symphony.go`, `analyzer.go`) | movements and their status | analysis, `Execute` | do command, Conductor |
| Conductor (`internal/maestro/conductor.go`) | attempt and error counters, conversation, `verificationProgress`, API baseline | `ExecuteTask` | planner, editor, reviewer, verification command, model selector, dashboard |
| Loop detector (`internal/llm/loop_detector.go`) | iteration, modification count, recent calls and texts | `ShouldContinue`, `RecordToolCall`, `RecordResponse` | Conductor, compound tool loop |
| Editor agent (`internal/agents/editor.go`) | conversation of one turn, modified files | `Execute` | provider, tools |
| Query, review and reviewing agents, coordinator (`internal/agents`) | conversation of one turn | `Execute`, `Review`, routing | provider, tools |
| Compound tool loop (`internal/llm/orchestrator.go`) | conversation, loop detector | `Chat` | providers, tools |
| Tools (`internal/tools`) | the working tree | `ExecuteToolContext` and what it dispatches to | agents, shell |
| Maestro (`internal/maestro/orchestrator.go`) | step, attempt, recovery history, `CurrentStepIdx` | `ExecutePlan`, `ResumeExecution` | editor, verifiers, checkpoint store, control manager |
| Checkpoint store (`internal/maestro/checkpoint.go`) | directories of blobs and `metadata.json` | `Save`, `Restore` | Maestro, file system |
| Control manager (`internal/live/control_manager.go`) | `isPaused`, mutex, condition variable | `Pause`, `Resume`, `Kill`, `CheckPause` | dashboard, Maestro |
| ACP server (`internal/acp`, `cmd/gptcode/acp.go`) | sessions, cancel functions, subscribers | JSON-RPC handlers over stdio and HTTP, updates, shutdown | an editor program, providers, Conductor |
| Evidence (`internal/evidence`) | bundles of snapshots, patches, reports; a suite's summary | `RunExperiment`, `RunSuite` | agent under test, git, checks |
| Live client (`internal/live/ws_client.go`, `client.go`) | connection, `connected`, `stopChan` | connect, reconnect, heartbeat, step, disconnect | dashboard |
| Process utilities (`internal/processutil`) | a process group | `CombinedOutput` | every command with a timeout |

The remaining packages (terminal dialogues, git and GitHub commands, generated catalogues, graph
and classifiers, the Neovim plugin) compute over texts or call other programs.

Three paths lead to the core. `gptcode do` goes through the attempts of `do.go` to
`Conductor.ExecuteTask`, which plans, edits, verifies and reviews a single task; each of its calls
asks the model selector. `gptcode implement plan.md --auto` goes to `Maestro.ExecutePlan`, which
executes a plan step by step, verifies each and saves checkpoints. `gptcode acp` lets an editor
program prompt, and a prompt ends in a provider or in the conductor. All of them call the editor
agent, whose turns call the tools; only Maestro calls `CheckPause` and the checkpoint store. The
evidence suite runs the whole program as a child.

### What is hard

- *Retries.* Every loop has several ways back to its head. Each must count against a limit, tell the
  model what went wrong, and not carry verdicts of one attempt into the next.
- *Stale verdicts.* A verification speaks about a tree; models with `run_command` can change it
  afterwards. Usage counts and errors of the day decide which model is asked next.
- *Protocols.* Every tool call of an answer needs its tool message, though it may be rejected, blocked
  or fail, on five loops that differ; every JSON-RPC call needs one response, though its turn may be
  cancelled, overtaken or fail.
- *Crashes.* Checkpoints and bundles are files written one by one; a process may die in between and
  the next reader finds what is there.
- *Concurrency.* Dashboard commands arrive on another goroutine than the work; `Resume` does not
  hold the mutex that waiters sleep with. Over HTTP the prompts of a session overlap and share one
  entry in the map of cancel functions. An agent under test leaves processes behind that go on writing.
- *Partial failure.* One copy of several fails; one step of several cannot be verified; one run of a
  suite breaks off.

### What makes each component correct

- do command and model selection: no call leaves the mode of the setup, needs tools its model lacks
  or goes past the approved models, however attempts have failed; attempts are bounded.
- Conductor: an edit is complete only on the gates of its own attempt; it ends; retries are
  explained and bounded; what the model selector learns is what happened.
- Agents: each tool call has its answer; the files the editor names are the files it wrote; the
  detector stops repeated calls; a turn ends.
- Maestro: checkpoints hold verified trees; prompts belong to their step; steps get their attempts
  and no more; a pause holds; a resume continues.
- Checkpoint store: readable means complete; a successful restore has restored everything; a
  checkpoint, once taken, stays.
- Control manager: nobody passes while paused; everybody passes in the end when resumed.
- ACP server: each request has exactly one response with its id; a cancel reaches a turn that runs;
  a stream of updates is faithful up to what did not fit.
- Evidence: a bundle with a manifest is complete; a summary counts the runs that happened; a pass is
  earned.

## 2. The plan

Done: `LoopDetector` and `Conductor`; `Maestro`; `CheckpointStore` with the abstract `Snapshots`;
`ControlManager` with the abstract `PauseGate`; `Tools` and `AgentTurn` with the abstract
`TurnContract`; `ModelSelector` and `DoCommand`; `AcpServer`; `EvidenceSuite`; and a proof module
for each of the eight components.

How they compose:

```
DoCommand --> ModelSelector          AgentTurn --> Tools, LoopDetector
   |  (calls of the conductor)          |  implements TurnContract
Conductor --> LoopDetector  . . . .  relies on a turn (EditorFails, EditorAnswers)
Maestro   --> PauseGate  <-- implemented by ControlManager
CheckpointStore --> Snapshots (implements)
AcpServer, EvidenceSuite: on their own, above a turn and beside the program
```

What is left, in order:

1. `TaskContract`, what a caller may expect of `ExecuteTask`, as an abstract specification that
   `Conductor` implements and that replaces the calls in `DoCommand`.
2. `LiveClient` (the reconnecting `WsClient`, which has no caller yet), `ProcessGroup`.
3. The theorem that goes with the first: `Conductor` keeps the safety part of `TaskContract`.

Modules with theorems reach no RECURSIVE operator. Parameters are CONSTANTS with named
assumptions, and the invariants are conjunctions of named parts, so that proofs can cite them.

## 3. The modules and the code

### Conductor, LoopDetector

`pc` is the stage of the one loop in `ExecuteTask`, `exit` the return that was taken. Each stage is
one action, and where a stage can end in several ways (an error of the editor or an answer, a pass
or a failure) each is an action or a disjunct. `Retry` stands for `buildRetryMessage` and the append
to `history`, of which only the length is kept (`messages`).

The working tree `ws` is what the gates can tell of it: how its verification would come out
(`verdict`: a normalised failure, a silent failure, or `"pass"`), how its exported API compares with
the baseline, and whether a verification command is found. An editor, and a reviewer, leave any
tree. `task` holds what the task's text and the environment fix: whether it contains an edit word,
asks for a stable API, names its verification, is about Go, and `SKIP_VALIDATION`.
`planQuery` is chosen by the planner's text.

`gate`, `touched` and `observed` are history variables: the tree that passed the verification of
this attempt, whether any attempt reported files, and the last failures. No action reads them.

Constants that the code writes as numbers (`MaxErrors` 5, `Plateau` 3) are CONSTANTS and have the
code's values in the configurations; the proofs hold for any.

### Tools, AgentTurn, TurnContract

`Tools` says what one call of a tool may answer and do to the tree: a path resolves or not
(`resolveRepositoryPath`), a read is empty or not, a write succeeds or fails and may leave a cut off
file, a shell command leaves any tree and reports no file. A tree is the set of files there are.

`AgentTurn` is one turn in any of the five loops (`role`): `Execute` of the editor, the query and the
review agent, `Review` of the reviewing agent, and `Chat` of the compound provider under the loop
detector. They have one shape: head of the round (`EditorRound`, ...), the request (`ProviderFails`,
`AnswerWithText`, `AnswerWithCalls`), then one call after the other (`Reject`, `EditorRuns`, ...,
`RunChecked`). What differs is what ends them, and each difference is a disjunct of its own: the
editor's early return for queries, its complaint about an edit without files, the verdict words of
the reviewing agent, the detector's two thresholds. `Route` is the coordinator, whose classifier is
its environment.

The conversation is kept as far as a turn looks at it: how many calls the last answer made, how many
of them have their tool message, and where the conversation asks for an edit. `touched` and `ran` are
history variables.

`TurnContract` is what the conductor relies on: one return, which names no file when it is an error,
only files the plan covers when it is not, and at least one file if the conversation opens with a
request for an edit. A turn that does not return stays at one of the places `Waits`, where it waits
for the model or a tool: it never goes round for ever. `IsATurn` is the refinement.

### ModelSelector, DoCommand

`ModelSelector` has no state. `SelectModel` is the set of models the function may return, with more
than one where scores are equal or a Go map is ranged over: first what the user configured for the
default backend, then the approved models, then the best score of the catalogue. `Score` keeps the
parts that a command moves, the use of the daily limit, the last error and the feedback on the editor
(`Feedback`, which goes by the model's id and is capped at 100); what it does not move is one number
per model and action. Approved ids without a slash (outside `Qualified`) are never served, as in
`trySelectApprovedModel`. `Recommended` is the recommendation after a failure, by success in the last
`Window` lines of the history, budget (`Affordable`, `Thrift`) and constant parts, in integers scaled
by 100.

`DoCommand` is the loop of the command: `SelectDoModels` once, then in each attempt the analysis, the
calls of the conductor with a model selected anew for each (`Plan`, `Edit`, `Review`) or the guided
mode (`Guide`); the analysis calls too, for research on the setup as it is on disk (`DeepAnalyze`) and
for a decomposition with the query model of the attempt's backend (`Analyze`). An edit may also be
done without a review, or end the attempt: at a plateau that is told to the feedback (`Plateau`), or
for want of a command, an API or a context. Then comes `Succeed` or `Fail`, and behind a failure
`Recommend`, `Ask` or `AskAgain`. `error` is what the text of the failure looks like (`do.go:174`). `call`,
`before` (the edit the attempt before ended with), `picked` and `since` are history variables.

Requests of the day are counted only for models with a limit, since nobody reads the others'. No
profile is in use. The learned prediction is loaded once, and a failure records no latency, so both
are part of the constant numbers; the exploration of untried models, off unless
`GPTCODE_MODEL_EXPLORATION` asks for it, is left out.

### AcpServer

One module for both transports, chosen in `Init`. Over stdio `loop` is `Run`: `Check` looks at the
context, `Read` takes the next line and handles it to its end, so a prompt keeps the loop in "handle"
until its turn returns. Over HTTP every message in `unread` may be dispatched, in any order
(`Dispatch`), a prompt's turn runs on while its POST ends (`EndPost`), and updates are fanned out to
the `streams` of subscribers, each with a channel of `Capacity`.

A handler is one action (`Initialize`, `SessionNew`, `SessionPrompt`, `SessionCancel`, `SetMode`,
`OtherMessage`); they hold the server's mutex where they touch the maps. A turn is many: its updates
(`Emit`), the provider or the conductor (`Work`, at the stage `Working`), the error told as text
(`TellError`), the response (`Respond`) and, later, the deferred deletion of the cancel function
(`Return`), which takes whatever function the session has by then. A message's place in `sent` is its
id.

The client opens one session, once; it prompts and cancels in it and in sessions that do not exist,
and sends one message of the kinds that start no turn and end none.

### EvidenceSuite

`RunSuite` around `RunExperiment`, one action per operation that writes a file, runs the agent or runs
a check; a workspace is as in the fixture, edited, or edited with a symbolic link, which no snapshot
can hold. Beside the suite run the agent (`AgentWrites`, `AgentEnds`), its deadline, and the processes
it leaves (`ChildWrites`, `ChildEnds`): only its own process is killed, and while another one holds
its output, `Wait` does not return. `Stop` is an error of the file system or the death of the
program, with the file being written torn or not. Of a bundle's files it has the six a reader goes by; the
patches initial and final, the logs in lines, `baseline.json` and `setup.json` are left out.
`checked` is a history variable. Nobody cancels
a suite: its one caller passes `context.Background()`.

### Maestro

A process of `implement --auto` is launched (`Launch`, with or without `--resume`), runs, and ends by
completing, being refused or dying; then it may be launched again (at most `MaxRuns` times). The two
nested loops are `EnterStep` (head of the loop over steps), `CheckPause` (head of the loop over
attempts, which goes to "wait" while the flag is set and comes out with `Released`), the editor,
`verify`, and `Save` in two steps, because a directory without metadata is what a death in `Save`
leaves, and `ResumeExecution` reads only directory names. `Die` is Ctrl+C, a crash and the dashboard's
Kill (`os.Exit`).

The tree is what the verifiers can tell: what kind of change `git diff --diff-filter=ACMR` lists,
and how build, tests and lint would come out. `Selected` and `Passes` are `selectVerifiers` and the
`Verify` methods. The selection runs git with a cleaned environment (`orchestrator.go:333`), the
verifiers run git once more with their own (`verifier.go:36`, `184`), so each has a listing of its own,
chosen freely from `Listings`, and `Looks` says whether it then looks at the changed code: the build
verifier succeeds unbuilt when its git fails or lists no code (`verifier.go:187`), the test verifier
runs everything then and misses the changed packages only when shown others. `blind` is the set of
verifiers that have passed so. `VerificationFails` may happen for any tree, since a command can also
fail to start. No verifier returns an error beside a result, so the branch for
`verifyErr` has no action.

`history` holds, for each recovery prompt, the step it is about. `calls`, `verified`, `saved`,
`resumeAt`, `late` and `blind` are history variables.

In the shipped program `RegisterWithClient`, which would connect the dashboard's commands to
`Pause` and `Resume`, has no caller. The model lets `Pause` and `Resume` happen at any time, as the
comments of `control_manager.go` intend; with `MaxPauses = 0` it is the program as shipped.

### CheckpointStore implements Snapshots

`Save` hashes a file (`HashFile`, which skips files that cannot be read), creates the blob named by
the hash, copies, and so on for each file, then creates and writes `metadata.json`. `Restore` reads
the metadata, then truncates and writes one file after the other. `Fail` is an error of the file
system or the death of the process at any of these points; neither cleans up, so both leave the same
files, and one action stands for both.

A content is its own hash (SHA-256 is taken as injective). A file just created or truncated has the
content `Empty`, which also stands for partly written ones. Directory names have a granularity of a
second; the model gives each `Save` its own, since an editor call lies between two saves of a step.
The mutant `StartSaveInPlace` shows what would happen otherwise.

`EditsDuringSave` says whether anybody else writes to the tree while `Save` runs. Where it is FALSE
(`Save` runs in Maestro's only working goroutine; the user keeps away) all properties hold; with
TRUE the hash and the copy can differ (section 6).

`Snapshots` is the abstract store: a set of photographs of the tree, each taken in one step, never
lost or changed. The refinement mapping takes the metadata that can be read.

### ControlManager implements PauseGate

Each load, lock, unlock and the parts of `sync.Cond.Wait` (register, unlock, sleep, lock) is a step
of its own, for any set of goroutines; `Resume` is two steps, the store and the broadcast. The
condition variable follows Go's: a waiter registers before it unlocks, and wakes only when it was
taken off the list (`Register`, `Release` and the guard of `Wake` come from the library).

`PauseGate` promises that nobody comes out of `CheckPause` while the program is paused. `Maestro` uses
the same gate: an attempt finds it open (`CheckPause`), or waits and comes out later (`Released`), and
`UsesTheGate` checks that Maestro is an agent of `PauseGate`. So the gate is specified once, implemented
below and used above.

## 4. The runs

Every property of a passing run has a mutant: a plausible bug put into one mapped definition, for
which TLC reports the property violated.

| Run | Question | Bounds and why they are enough |
|---|---|---|
| `conductor_gates` | do edits pass the gates of their attempt; are plateau, feedback and retries exact | two failures and four attempts: three equal failures, a changed one between equal ones, a pass after failures, and a pass followed by a rejected review all occur |
| `conductor_budget` | does every task end within its limits | no limit from the caller, so the detector's own (10 for a query, 7 for an edit) are reached; failures are silent, which never plateau and so last longest |
| `maestro` | prompts, checkpoints, pause, attempts, the gate, the end | two steps of two attempts, lint on, two processes, one pause, any outcome of each git: a death in the first and a resume in the second, a retry, a step left behind and a pause at any moment; more attempts only repeat the second, and more processes begin with new counters |
| `store` | are checkpoints complete, restores complete, is it a snapshot store | two files, two contents, two saves: files sharing a blob, a content changed between saves, a restore of the older one |
| `control_manager` | is the gate kept, is the mutex held where it must be, is everybody released | three goroutines: one asleep, one holding the mutex, one between load and lock |
| `agent_turn` | does a turn of any of the five loops answer its calls, report its writes, end, and keep the conductor's contract | the limits of the code (20, 3, 5 and 3 rounds, equal calls 3, equal texts 2); two calls an answer, so one runs after the other has failed; two files of which one's path is part of the other's, since the plan's check is a substring test |
| `acp_server` | one answer a call, cancel functions, streams | five messages, two prompts, one session, one subscriber with room for two updates: two prompts of a session that overlap, a cancel between them and a full stream; a third prompt meets what the second does |
| `do_command` | where calls go, however attempts fail | eight setups (local, cloud, both, one with a budget; with approved, with configured and without models; two approve an id without a slash), two histories (empty, three failures of one model), a window of four lines so that lines fall out of it, three attempts (the shipped number) of two edits, one choice of the user |
| `evidence_suite` | do bundles, summaries and passes mean what they say | two runs of two checks: a run before and a run under way, a check before and a check at hand; children that write at any moment |

Three more runs show a sentence of the repository to be false (section 6).

Deadlock detection is on for `Conductor`, `Maestro`, `CheckpointStore` and `ControlManager`: a
finished task and a process that has ended have a step left (the stutter of `Returned`, the user's
edits), so a deadlock would be a stage without a way on. It is off for `AgentTurn` (a turn
returns), `AcpServer` (the program exits), `DoCommand` (the command returns) and `EvidenceSuite` (the
suite returns, or stops where it fails), which have nothing to do afterwards. That they stop nowhere
else is what the liveness properties say for the first two.

Symmetry is not used: the runs with liveness properties must not, and the others are small.

### Fairness

No run assumes that a call returns. `chat_completion.go:345` sends its requests with
`http.DefaultClient`, which has no timeout, under a context that nobody cancels (only the Ollama client
has a timeout), and `run_command` waits for its process under the background context. So fairness is
stated for the steps a goroutine takes by itself (`Local`), and each liveness property allows for a
call that never comes back. What it says is that nothing else keeps the component from its end: no
loop goes from call to call for ever, and no step of its own is stuck.

- `Conductor` and `Maestro`: weak fairness of `Local`, the steps that wait for nobody, taken together;
  each process is one goroutine. Not fair are `Awaited`: planner, editor, reviewer, formatter and
  verification, and `Released`, since a Resume can be lost (`ResumeContinues`, section 6) and the waiter
  sleeps on though nothing is paused. `Terminates` says that the component ends, or stays at one and the
  same waiting stage for ever. Deaths, pauses and resumes are not fair.
- `ControlManager`: weak fairness of each goroutine inside `CheckPause` and of the broadcast, strong
  fairness of the two steps that lock, because Go's mutex hands itself to a waiter that has starved
  for a millisecond. `Pause`, `Resume` and arriving at the gate are not fair; the property
  `RepeatedResumeReleases` names the Resumes it needs in its hypothesis.
- `AgentTurn`: weak fairness of `Local`, as for `Conductor`. Nothing is assumed of the model, which
  need not answer; one that never stops calling tools is stopped by the limits.
- `AcpServer`: weak fairness of the loop (the check, a line or the end of the input that is there) and,
  for each message, of its dispatch, the end of its POST and its turn but for `Work`, the provider or
  the conductor that it waits for; each is a goroutine of its own. A client over stdio is taken to read
  what is written to it.
  The client owes nothing: it need not send, cancel or close. `EveryCallIsAnswered` excepts a program
  that is told to end, a prompt that still waits for its provider and, over stdio, what is behind such
  a prompt, since it blocks the only reader (`server.go:114`).
- `DoCommand` and `EvidenceSuite` state none: only safety is checked. A user may be asked for ever,
  and a process that outlives its agent and holds the agent's output stops a suite.

## 5. The proofs

`tlapm` checks every theorem without omissions; constants are unrestricted beyond the named
assumptions of each module.

Every safety invariant and every action property that a passing run checks is stated by a theorem,
and so is each refinement, that of `TurnContract` in its safety part.

- `Conductor_proofs`: `Invariance` proves `TypeOK` with `StageInv`, the facts each stage hands to the
  next: the conversation is as long as the attempts (`MessagesInv`), the counters are below their
  limits (`ErrorsInv`, `ProgressInv`), and past the verification there is a tree that passed it
  (`GateInv`). `GateInv` is what makes `EditsPassTheGates` inductive: the property speaks about the
  return, the invariant about the stages before it. `TrackInv` (what
  the counter of equal failures says of the end of `observed`) and `PlateauInv` carry `PlateauIsExact`; from the
  same invariants follow `AttemptsAreBounded` and `FeedbackIsHonest`.
- `Maestro_proofs`: one invariant for type correctness, prompts, calls and pauses (`PauseInv`: with a
  call come to its end in a pause, the process stands before the gate), and one for checkpoints, that
  a tree on its way to `Save` passed the verifiers selected for it, except those in `blind`. From them follow
  `PromptsAreOfThisStep`, `CheckpointsAreVerified`, `PauseHolds`, `CallsAreBounded`, the action
  property `StepsGetTheirAttempts` and the refinement `UsesTheGate`, for any number of steps,
  attempts, processes and pauses.
- `ControlManager_proofs`: `TypeCorrect`, in which `MutexIsHeld` is the part that is about the code: a
  goroutine holds the mutex exactly where it tests, registers, unlocks or leaves; and
  `KeepsTheGateAlways`, the refinement of `PauseGate` for any set of goroutines. Its steps are those of
  the gate or stutters; only the two loads that find the flag down let anybody out. Together with
  `UsesTheGate` this closes the gap between Maestro's single step through the gate and the goroutines
  behind it. `MutexIsHeldAlways` states the part of the mutex by itself.
- `CheckpointStore_proofs`: under `~ EditsDuringSave`, `SaveInv` (a save under way works in a directory
  that is no checkpoint yet, and all it has put into its map is copied, but for the file at hand) and
  `RestoreInv` (the files a restore has left behind are back) with the type invariant are inductive.
  They give `CommittedAreComplete`, `RestoreIsComplete` and the refinement `IsSnapshotStore`. The second
  half is without that hypothesis: `Kept` speaks of the blobs there are where `SaveInv` speaks of the
  tree, and gives `TypeOK`, `CheckpointsStay`, `BlobsExist` and `RestoreGivesBlobs`. What others write
  while `Save` runs can thus only make a blob's content differ from its name.
- `AgentTurn_proofs`: `ToolAnswers` and its neighbours say what a tool may answer and report, whatever
  the paths. `TurnInv` adds to the types that tool messages and calls still to run make up the answer
  (`AnsweredInv`), that what is reported was written and covered by the plan (`ModifiedInv`), and that
  the detector has counted the last call as often as it has been run (`RepeatInv`). From it
  follow `RequestsAreAnswered`, `ReportsItsWrites`, `NoCallIsRepeated`, and `KeepsTheContract`: every
  turn refines `Contract!Safety`, for any files, limits and plans.
- `AcpServer_proofs`: what is unread was sent (`SentInv`), a turn belongs to a prompt that a handler has
  taken (`TurnsInv`), over stdio there is one exactly while the loop handles a message (`LoopInv`),
  and nothing is answered that was not sent (`AnswersInv`). They make `AnsweredOnce` and
  `CancelsALiveTurn` inductive, for any number of messages, prompts, sessions and subscribers.
  `StreamInv` compares each channel with the counters: what it holds lies between the last update read
  and the last one written, in order, and if it has never been full nothing in between is missing
  (`StreamsAreFaithful`). `CancelInv`, which follows a cancel into its turn, gives `CancelledForAReason`.
- `DoCommand_proofs`: `SelectFacts`, `ApprovedFacts` and `BestFacts` are lemmas about the selection:
  it returns the model configured for the default backend, or one that is approved, if there are
  approved models, and, unless it is to plan, can call tools. With
  `CountInv` and `AttemptInv` they give `ToolUsersHaveTools`, `ApprovedModelsAreAuthoritative` and
  `AttemptsAreBounded` for any catalogue, setups, histories and limits. `StaysWhereTheUserIs` is proved
  where names tell types (`NamesTellTypes`: in cloud mode, no configured backend of the catalogues is
  an Ollama under another name). The code decides by the name in one place and by the type in another
  (`NameAllows`, `ModeAllows`), so elsewhere the catalogue may lead a call of the cloud mode to a local
  model. Every setup of the run satisfies it; in the other modes it says nothing.
- `EvidenceSuite_proofs`: `BundleInv` says which files are whole at each stage of a run, `ManifestInv`
  that a readable manifest was written last, `CountInv` that the summary counts what the bundles say,
  and `VerdictInv` that a verdict still standing is owed to the agent's end and the checks so far.
  They give `EvidenceIsComplete` and `PassesAreEarned` for any number of runs and checks. `AheadInv`, that
  the files a stage and its successors write are not there yet, gives `EvidenceStays`: what is whole is
  not written again, by children of an earlier agent neither.

*Nothing goes round for ever.* Six theorems give a measure, a pair or a triple of naturals under the
lexicographic order, that the steps of a component decrease: `TaskNearsItsEnd` (attempts, stages),
`TurnNearsItsEnd` of `AgentTurn` (rounds, steps of a round), `CommandNearsItsEnd` (attempts, stages),
`ProcessNearsItsEndAlways` of `Maestro` (steps of the plan, attempts, stages), `SuiteNearsItsEnd` (runs,
stages) and `TurnNearsItsEnd` of `AcpServer` (stages of a turn, updates). No infinite sequence decreases,
so a component that takes its steps comes to its end. Each names what does not count: a user who, asked
after the last attempt of `do`, picks another backend starts the attempts again (`StartsAgain`); pauses
and hand edits leave Maestro's measure alone, and a death ends the process; agents, children and the
clock leave the suite's alone; nobody but the turn itself moves a turn of the server. That the steps
are in fact taken is fairness, and what TLC checks.

Only model-checked: liveness (`Terminates` of two modules, `RepeatedResumeReleases`,
`EveryCallIsAnswered`, and the part of `IsATurn` that says where a turn that does not end is). It rests
on fairness and ENABLED, beyond the prover's reach.

Proved and not given to a run: `CheckpointsStay`, `BlobsExist`, `RestoreGivesBlobs`,
`EvidenceStays`, `CancelledForAReason` and the measures. TLC agrees with each on the configuration of
its module.

## 6. Findings

### Runs

Each is a run that expects a violation of one property, which quotes the sentence it formalises.

| Run | What the code does | What is said |
|---|---|---|
| `maestro_CompletedMeansVerified` | a shadowed `err` lets a failed step pass (`orchestrator.go:118`, `194`) | `orchestrator.go:200`: "step %d failed after %d retries" |
| `control_manager_ResumeContinues` | a Resume can fall between a waiter's test and its registration (`control_manager.go:74`, `96`) | `control_manager.go:72`: "Resume continues execution" |
| `acp_CancelledMeansAsked` | over HTTP a prompt runs under the context of its POST, which ends 50 ms later (`http_transport.go:149`, `163`) | `http_transport.go:149`: "session/prompt is long-running"; `server.go:316`: it is `session/cancel` that cancels |

`RepeatedResumeReleases` is what remains of the second: calling Resume again helps. What remains of the
third is `CancelledForAReason`, a theorem.

### Sentences without a run

The modules define these sentences too; given to TLC as INVARIANT or PROPERTY with the module's
configuration they are violated.

| Definition | What the code does | What is said |
|---|---|---|
| `Conductor!ChangedFilesAreVerified` | the query shortcut (`conductor.go:476`) looks at the last attempt's files only | `README.md:142`, tool-backed verification |
| `Conductor!StopsOnlyWithoutModifications` | the conductor never reports modifications to its loop detector | `loop_detector.go:107` |
| `Maestro!VisibleCodeIsBuilt` | the build verifier reports success when its own git fails or lists no code (`verifier.go:184`-`188`) | `docs/examples/simple-plan.md:45`: "Verifies with build + tests after each step" |
| `Maestro!RollsBack` | `lastCheckpoint` is never assigned (`orchestrator.go:162`) | `orchestrator.go:161`, `docs/user-guide/workflows.md:153` |
| `Maestro!ResumeContinues` | `ExecutePlan` begins with the first step whoever calls it (`orchestrator.go:67`, `231`) | `orchestrator.go:212` |
| `AgentTurn!OnlyPlannedFiles` | a path that is part of a planned path is taken for planned (`editor.go:645`) | `editor.go:94`: "constrains writes to planned files" |
| `DoCommand!RetriesWithDifferentModels` | a recommendation may be the model that failed, and explicit models outlive it (`do.go:286`) | `do.go:60`: "retry attempts with different models" |
| `EvidenceSuite!TimedOutIsNoPass` | the deadline is looked at after the agent has ended (`bundle.go:135`) | the test of a timed out run in `suite_test.go:214` |

### Observations

Visible in the modules:

- The reviewer runs after the verification, has `run_command`, and nothing compares the trees: the
  approved tree need not be the verified one (`ReviewApproves` leaves any tree).
- `git diff --diff-filter=ACMR` lists neither untracked nor deleted files, so a step that only adds
  files selects no build and no tests (`Selected`); `orchestrator.go:332` says "including added,
  modified, deleted, renamed, copied". `CheckpointsAreVerified` says what is left.
- Checkpoint names are ordered by step and then by time: after a second run has saved step 0, the
  first run's step 1 is still taken for the latest (`IsLatest`, `orchestrator.go:217`).
- `Save` reads a file once for its hash and once for its copy: written in between, the copy is not
  what the metadata names (`CommittedAreComplete` with `EditsDuringSave = TRUE`). `Restore` puts files
  back and removes none (`checkpoint.go:107`).
- A step's own prompt is sent only while the history is empty, so a retry's conversation holds the
  failure and not the task (`orchestrator.go:252`).
- A provider error makes the editor forget the files it has already written (`editor.go:346`), and a
  write that fails may leave a cut off file that nobody reports. The early return for queries looks at
  the first message only (`editor.go:428`), the complaint about a missing edit at all of them.
- The compound provider counts `patch_file` and `create_file`, which are no tools, as progress and
  `apply_patch` not (`orchestrator.go:196` of `internal/llm`); its check of texts stops after two equal
  ones. Its tools run without the caller's context and in the process's directory.
- The last request of a query leaves the tool messages of calls that the shortened conversation no
  longer asks for; agents execute tools they did not offer; the reviewing agent's success words can
  override an explicit FAIL.
- Over stdio `session/cancel` is read when the prompt is over, so it never cancels anything, and a
  signal takes effect after the next line (`server.go:88`). Over HTTP the body of a POST is always null,
  overlapping prompts of a session lose each other's cancel functions, and a cancel meant for one turn
  can be handled after the next prompt and end that one.
- The attempt counter of `do` is set back by a choice of the user, without bound (`do.go:219`);
  `do.go:225` shadows the error that is reported when there is no recommendation; an attempt's result
  is recorded under the model the attempt began with, though the conductor selects its own.
- Movements need a complexity of 9 and the scores are 3, 5, 7 and 8 (`symphony.go:151`; comments say
  7), yet a decomposition is asked for from 6 on (`analyzer.go:250`) and its failure fails the attempt.
- The catalogue may name a backend that is not configured; a success does not clear a model's last
  error; an explicit model of the default backend ignores the mode; equal scores are decided by the
  order of a map, where `model_selector.go:489` asks for determinism. Two processes lose each other's
  counts, since `usage.json` is rewritten as a whole.
- Only the agent's own process is killed at the deadline of an experiment: its children may write
  while checks and snapshot read, and hold up the suite (`bundle.go:135`). `final.patch` has no
  untracked files; a symbolic link fails the snapshot and ends the suite without a summary, where
  `scripts/evidence-suite/main.go:1` speaks of a "failure-inclusive report".

Outside the modules: `WsClient` (`internal/live/ws_client.go`), which has no caller, can be connected
again after a disconnect that falls into a reconnect, and starts another heartbeat with each one.

## 7. What is not modelled

- The texts: prompts, plans, error classification, findings of a review, reports. Where a text
  decides the control (edit words, query words, verdict words) the decision is chosen freely.
- Time: intervals and deadlines appear only as outcomes that may happen.
- `ACP tools bridge`, `WsClient` and `RestoreSnapshot`: nothing in the program calls them. Of
  `ControlManager`'s handlers the one for prompts only writes a file.
- Symphony's movements, which no task reaches.
- Replay and audit of recorded sessions, process utilities, the graph of a repository, catalogue and
  classifiers: one sequential call each, whose outcome is an environment choice where a modelled part
  reads it.
- Observability, events and telemetry: counters and logs that no decision reads, except the month's
  budget, which Maestro's `Refuse` stands for.
- The older autonomous workflows, REPL, modes and the remaining commands: dialogues, heuristics over
  texts, and calls of git, gh and linters; they are most of the repository's lines.
- The interactive mode of `implement`, a dialogue around single editor calls without verification.
