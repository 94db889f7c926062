----------------------------- MODULE DoCommand -----------------------------
(* gptcode do: the attempts at one task, each with the analysis of the       *)
(* executor and the calls of the conductor (or, supervised, of the guided    *)
(* mode), and what is read from a failure: stop, take the recommended        *)
(* model, or ask the user.                                                   *)
EXTENDS ModelSelector

CONSTANTS Setups,       \* the setups the command may find
          Histories,    \* and the histories, line by line
          Window,       \* how many lines of the history are read (100)
          MaxAttempts,  \* --max-attempts (3)
          MaxEdits,     \* bound: how often one attempt lets the editor try
          MaxPicks      \* bound: how often the user picks another backend

ASSUME SetupsAssumption ==
    \A s \in Setups :
      s = [mode |-> s.mode, default |-> s.default, budget |-> s.budget,
           approved |-> s.approved, backends |-> s.backends]
ASSUME LimitsAssumption == MaxAttempts \in Nat \ {0} /\ MaxEdits \in Nat \ {0} /\ MaxPicks \in Nat /\ Window \in Nat

VARIABLES setup,       \* setup.yaml
          supervised,  \* --supervised
          interactive, \* --interactive, on a terminal
          current,     \* currentBackend and currentEditorModel
          attempt,     \* attempt of the loop
          phase,       \* where the attempt is
          edits,       \* how often the editor ran in this attempt
          error,       \* what the last failure looks like
          usage,       \* usage.json: the requests and the last error of the day
          feedback,    \* the feedback files: what they say of a model as the editor
          history,     \* task_execution_history.jsonl: its last lines
          call,        \* (ghost) the last call of this attempt, with its action
          before,      \* (ghost) the edit the attempt before ended with, if it did
          picked,      \* (ghost) the backends the user named, in order
          since        \* (ghost) attempts begun since the user last said go on

settings == <<setup, supervised, interactive>>
ghosts == <<call, before, picked, since>>
learned == <<usage, feedback, history>>
vars == <<settings, current, attempt, phase, edits, error, learned, ghosts>>

Errors == {"tool", "api", "other"}

\* The attempt sees the setup with its backend for the default one.
Seen == [setup EXCEPT !.default = current.backend]

Pairs == {Pair(c.backend, c.model) : c \in Catalog}
Limited == {Pair(c.backend, c.model) : c \in {d \in Catalog : d.limit # 0}}
Unused == [requests |-> 0, failed |-> FALSE]
Models == {c.model : c \in Catalog}
Today == [usage |-> usage, feedback |-> feedback]
NoCall == [action |-> "none", pair |-> Pair("", NoModel)]

----------------------------------------------------------------------------
(* Before the first attempt.                                                 *)

Init ==
    /\ setup \in Setups
    /\ supervised \in BOOLEAN /\ interactive \in BOOLEAN
    /\ current = Pair("", NoModel)
    /\ attempt = 0 /\ edits = 0 /\ since = 0
    /\ phase = "start"
    /\ error = "none"
    /\ usage = [p \in Pairs |-> Unused]
    /\ feedback = [m \in Models |-> 0]
    /\ history \in Histories
    /\ call = NoCall /\ before = NoCall
    /\ picked = <<setup.default>>

\* The loop's next attempt starts.
Begin(n, count) ==
    /\ attempt' = n
    /\ since' = count
    /\ edits' = 0
    /\ call' = NoCall /\ before' = IF call.action = "edit" THEN call ELSE NoCall
    /\ error' = "none"
    /\ phase' = IF supervised THEN "guide" ELSE "analyze"

\* selectDoModels: the default backend has to be configured, with a model for
\* the editor and one for the queries.
SelectDoModels ==
    /\ phase = "start"
    /\ IF /\ setup.default \in DOMAIN setup.backends
          /\ NoModel \notin {AgentModel(setup, setup.default, a) : a \in {"editor", "query"}}
       THEN /\ current' = Pair(setup.default, AgentModel(setup, setup.default, "editor"))
            /\ Begin(1, 1)
       ELSE phase' = "refused" /\ UNCHANGED <<current, attempt, edits, error, call, before, since>>
    /\ UNCHANGED <<settings, learned, picked>>

----------------------------------------------------------------------------
(* One attempt.                                                              *)

\* RecordUsage keeps the error of a failed request for the day and counts the
\* requests, which are read for the models that have a limit.
RecordUsage(p, ok) ==
    usage' = IF p \in Pairs THEN [usage EXCEPT ![p].requests = IF p \in Limited THEN @ + 1 ELSE @,
                                               ![p].failed = @ \/ ~ok]
             ELSE usage

Called(action, p) ==
    /\ call' = [action |-> action, pair |-> p]
    /\ UNCHANGED <<before, picked, since>>

Failing == phase' = "failed" /\ error' \in Errors
GoOn(p) == phase' = p /\ UNCHANGED error

\* The deep analysis of a task that names a bug reads setup.yaml anew, with the
\* default backend it has there; without a model, or when the call fails,
\* nothing comes of it.  It records no usage.
DeepAnalyze ==
    /\ phase = "analyze"
    /\ GoOn("classify")
    /\ \/ UNCHANGED ghosts
       \/ \E p \in SelectModel(setup, "research", Today) : Called("research", p)
    /\ UNCHANGED <<settings, current, attempt, edits, learned>>

\* The classifier and the scoring of the complexity are models of the program's
\* own.  From a complexity of 6 on the query model of the attempt's backend is
\* asked for a decomposition, without SelectModel; a failure ends the attempt.
\* The scores are 3, 5, 7 and 8, and the movements are for 9 and above: whatever
\* the decomposition is, the task is executed directly.
Analyze ==
    /\ phase = "classify"
    /\ \/ (GoOn("plan") \/ Failing) /\ UNCHANGED ghosts
       \/ /\ Called("decompose", Pair(current.backend, AgentModel(setup, current.backend, "query")))
          /\ GoOn("plan") \/ Failing
    /\ UNCHANGED <<settings, current, attempt, edits, learned>>

\* A call of the conductor: its model is selected anew; without one the attempt fails.
Call(action, Then(_, _)) ==
    LET models == SelectModel(Seen, action, Today) IN
    \/ /\ models = {}
       /\ phase' = "failed" /\ error' = "other"
       /\ UNCHANGED <<usage, feedback, ghosts>>
    \/ \E p \in models, ok \in BOOLEAN :
         /\ RecordUsage(p, ok)
         /\ Called(action, p)
         /\ Then(p, ok)

\* The conductor gives the editor up at a plateau of its verification.  The
\* feedback on it is read from the next attempt on, whatever backend has the
\* model, if the task names a file of the language and it could be written.
Plateau(m) ==
    /\ Failing
    /\ IF m \in Models THEN feedback' \in {feedback, [feedback EXCEPT ![m] = @ - 10]}
       ELSE UNCHANGED feedback

Plan ==
    /\ phase = "plan"
    /\ Call("plan", LAMBDA p, ok : (IF ok THEN GoOn("edit") ELSE Failing) /\ UNCHANGED feedback)
    /\ UNCHANGED <<settings, current, attempt, edits, history>>

\* After an edit the attempt is reviewed, or done at once: a query, or a review
\* that the environment skips.  What fails behind the edit's call, like a failed
\* edit, is tried again while the detector lets the conductor go on, or ends the
\* attempt: five errors in a row, a plateau, no command to verify with, an API
\* or a retry context that cannot be read.
Edit ==
    /\ phase = "edit"
    /\ edits' = edits + 1
    /\ Call("edit", LAMBDA p, ok :
          \/ ok /\ (GoOn("review") \/ GoOn("done")) /\ UNCHANGED feedback
          \/ edits' < MaxEdits /\ GoOn("edit") /\ UNCHANGED feedback
          \/ Failing /\ UNCHANGED feedback
          \/ ok /\ Plateau(p.model))
    /\ UNCHANGED <<settings, current, attempt, history>>

Review ==
    /\ phase = "review"
    /\ Call("review", LAMBDA p, ok :
          /\ \/ ok /\ GoOn("done")
             \/ edits < MaxEdits /\ GoOn("edit")
             \/ Failing
          /\ UNCHANGED feedback)
    /\ UNCHANGED <<settings, current, attempt, edits, history>>

\* Supervised, the guided mode plans with the query model of the backend and
\* edits with the model the loop is at; it records no usage.
Guide ==
    /\ phase = "guide"
    /\ \E ok \in BOOLEAN :
         /\ Called("edit", current)
         /\ IF ok THEN GoOn("done") ELSE Failing
    /\ UNCHANGED <<settings, current, attempt, edits, learned>>

----------------------------------------------------------------------------
(* After the attempt.                                                        *)

\* A line of the history names the pair of the loop, whoever was called; the
\* oldest line is no longer read when there are too many.
RecordExecution(success) ==
    LET lines == Append(history, [pair |-> current, success |-> success])
    IN history' = IF Len(lines) > Window THEN Tail(lines) ELSE lines

Succeed ==
    /\ phase = "done"
    /\ RecordExecution(TRUE)
    /\ phase' = "succeeded"
    /\ UNCHANGED <<settings, current, attempt, edits, error, usage, feedback, ghosts>>

\* MUTANT: there is a recommendation after the last attempt, too.
FailLate ==
    /\ phase = "failed"
    /\ RecordExecution(FALSE)
    /\ phase' = IF error = "other" THEN "gaveUp"
                ELSE IF attempt <= MaxAttempts THEN "recommend"
                ELSE IF error = "api" /\ interactive THEN "askAgain"
                ELSE "gaveUp"
    /\ UNCHANGED <<settings, current, attempt, edits, error, usage, feedback, ghosts>>

\* A failure that looks like neither the tools' nor the provider's is final.
Fail ==
    /\ phase = "failed"
    /\ RecordExecution(FALSE)
    /\ phase' = IF error = "other" THEN "gaveUp"
                ELSE IF attempt < MaxAttempts THEN "recommend"
                ELSE IF error = "api" /\ interactive THEN "askAgain"
                ELSE "gaveUp"
    /\ UNCHANGED <<settings, current, attempt, edits, error, usage, feedback, ghosts>>

\* MUTANT: another model does not count as another attempt.
RecommendFree ==
    LET best == Recommended(setup, current, history) IN
    /\ phase = "recommend"
    /\ IF best # {}
       THEN /\ current' \in best
            /\ Begin(attempt, since + 1)
       ELSE /\ phase' = IF interactive THEN "ask" ELSE "gaveUp"
            /\ UNCHANGED <<current, attempt, edits, error, call, before, since>>
    /\ UNCHANGED <<settings, learned, picked>>

\* The best recommendation is taken; with none, only a user can help.
Recommend ==
    LET best == Recommended(setup, current, history) IN
    /\ phase = "recommend"
    /\ IF best # {}
       THEN /\ current' \in best
            /\ Begin(attempt + 1, since + 1)
       ELSE /\ phase' = IF interactive THEN "ask" ELSE "gaveUp"
            /\ UNCHANGED <<current, attempt, edits, error, call, before, since>>
    /\ UNCHANGED <<settings, learned, picked>>

\* The user picks a backend, or quits.
PickBackend(b, n) ==
    /\ Len(picked) <= MaxPicks
    /\ current' = Pair(b, AgentModel(setup, b, "editor"))
    /\ picked' = Append(picked, b)
    /\ Begin(n, IF n = 1 THEN 1 ELSE since + 1)

Quit == phase' = "gaveUp" /\ UNCHANGED <<current, attempt, edits, error, ghosts>>

\* With no recommendation the picked backend has the next attempt; after the
\* last attempt the counter starts again.
Ask ==
    /\ phase = "ask"
    /\ Quit \/ \E b \in DOMAIN setup.backends : PickBackend(b, attempt + 1)
    /\ UNCHANGED <<settings, learned>>

AskAgain ==
    /\ phase = "askAgain"
    /\ Quit \/ \E b \in DOMAIN setup.backends : PickBackend(b, 1)
    /\ UNCHANGED <<settings, learned>>

----------------------------------------------------------------------------

Over == phase \in {"succeeded", "gaveUp", "refused"}

Next ==
    \/ SelectDoModels \/ DeepAnalyze \/ Analyze \/ Plan \/ Edit \/ Review \/ Guide
    \/ Succeed \/ Fail \/ Recommend \/ Ask \/ AskAgain

Spec == Init /\ [][Next]_vars

----------------------------------------------------------------------------

Running == {"analyze", "classify", "plan", "edit", "review", "guide", "done", "failed"}

\* The types; from the first attempt on the loop is at a configured backend.
TypeOK ==
    /\ setup \in Setups /\ {supervised, interactive} \subseteq BOOLEAN
    /\ attempt \in 0..MaxAttempts /\ edits \in 0..MaxEdits
    /\ phase \in Running \cup {"start", "refused", "recommend", "ask", "askAgain", "succeeded", "gaveUp"}
    /\ phase \in Running => attempt > 0 /\ current.backend \in DOMAIN setup.backends

Decided(c, action) == Explicit(setup, c.pair.backend, action) = c.pair.model

\* However models fail, are recommended and retried, no call goes to a backend
\* that the mode of the setup excludes, unless the user named that backend: as
\* the default one or when asked.
StaysWhereTheUserIs ==
    call # NoCall => ModeAllows(setup, call.pair.backend) \/ call.pair.backend \in Range(picked)

\* The conductor's editor and reviewer run on models that have tools, unless
\* the user configured the model, however scores and limits have moved.
ToolUsersHaveTools ==
    call.action \in {"edit", "review"} /\ ~supervised =>
      Decided(call, call.action) \/ \E d \in Capabilities(call.pair.backend, call.pair.model) : d.tools

\* With approved models for an action, a call that the user's configuration does
\* not decide goes to one of them: neither failures nor what the day has used up
\* open the catalogue.
ApprovedModelsAreAuthoritative ==
    call.action \in Actions /\ ~supervised /\ setup.approved[call.action] # <<>> =>
      Decided(call, call.action) \/ call.pair.model \in Range(setup.approved[call.action])

\* However the attempts fail, between two decisions of the user there are at
\* most MaxAttempts of them.
AttemptsAreBounded == since <= MaxAttempts

\* The comment of the flag: attempts "with different models".  No editor's last
\* call goes to the model the attempt before it failed with.
RetriesWithDifferentModels ==
    ~supervised /\ call.action = "edit" /\ before.action = "edit" /\ picked = <<setup.default>> => before.pair # call.pair
=============================================================================
