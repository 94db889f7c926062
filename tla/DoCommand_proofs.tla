-------------------------- MODULE DoCommand_proofs --------------------------
(* Proofs about DoCommand for any setups, catalogues, histories and limits:  *)
(* the attempts are counted, and whatever has failed before, calls that need *)
(* tools go to models that have them, approved models are kept to, and calls *)
(* stay at the backends the user allows; and the command nears its end.      *)
EXTENDS DoCommand, TLAPS

\* Where the loop is: a next attempt is considered only while one is left.
CountInv ==
    /\ attempt \in 0..MaxAttempts /\ since \in 0..MaxAttempts /\ since <= attempt
    /\ phase \in Running => attempt > 0
    /\ phase = "start" => attempt = 0
    /\ phase \in {"recommend", "ask"} => attempt < MaxAttempts

\* Where the attempt is.
AttemptInv ==
    /\ setup \in Setups /\ {supervised, interactive} \subseteq BOOLEAN
    /\ phase \in Running \cup {"start", "refused", "recommend", "ask", "askAgain", "succeeded", "gaveUp"}
    /\ phase \in Running => current.backend \in DOMAIN setup.backends
    /\ edits \in 0..MaxEdits
    /\ phase \in {"analyze", "classify", "plan", "guide"} => edits = 0
    /\ phase = "edit" => edits < MaxEdits
    /\ phase = "guide" => supervised

IInv == CountInv /\ AttemptInv /\ ToolUsersHaveTools /\ ApprovedModelsAreAuthoritative

-----------------------------------------------------------------------------
(* What SelectModel returns.                                                 *)

\* The attempt's view of the setup differs in the default backend only.
LEMMA SeenFacts ==
    ASSUME setup \in Setups
    PROVE  /\ Seen.backends = setup.backends /\ Seen.approved = setup.approved
           /\ Seen.default = current.backend /\ Seen.mode = setup.mode
<1>1. setup = [mode |-> setup.mode, default |-> setup.default, budget |-> setup.budget,
               approved |-> setup.approved, backends |-> setup.backends]
  BY SetupsAssumption
<1> QED
  BY <1>1 DEF Seen

LEMMA PairFacts == \A b, m : Pair(b, m).backend = b /\ Pair(b, m).model = m
BY DEF Pair

\* What is configured is returned as it is; otherwise an approved model is
\* approved, and it and the catalogue's best have tools when they need them.
LEMMA ApprovedFacts ==
    ASSUME NEW s, NEW action, NEW p \in Approved(s, action)
    PROVE  /\ p.model \in Range(s.approved[action])
           /\ action \in {"edit", "review"} => \E d \in Capabilities(p.backend, p.model) : d.tools
<1>0. PICK k \in DOMAIN s.approved[action] :
        \E b \in Chosen(s, s.approved[action][k], action) : p = Pair(b, s.approved[action][k])
  BY DEF Approved
<1>1. PICK b \in Chosen(s, s.approved[action][k], action) : p = Pair(b, s.approved[action][k])
  BY <1>0
<1>2. p.backend = b /\ p.model = s.approved[action][k]
  BY <1>1, PairFacts
<1>3. Usable(s, b, s.approved[action][k], action)
  BY DEF Chosen
<1> QED
  BY <1>2, <1>3 DEF Range, Usable, HasTools

LEMMA BestFacts ==
    ASSUME NEW s, NEW action, NEW day, NEW p \in Best(s, action, day), action \in {"edit", "review"}
    PROVE  \E d \in Capabilities(p.backend, p.model) : d.tools
<1>1. PICK c \in Scored(s, action, day) : p = Pair(c.backend, c.model)
  BY DEF Best
<1>2. p.backend = c.backend /\ p.model = c.model
  BY <1>1, PairFacts
<1>3. c \in Catalog /\ Score(c, action, day) > 0
  BY DEF Scored
<1>4. c.tools
  <2>1. CASE ~c.tools
    <3>1. Score(c, action, day) = 0
      BY <2>1 DEF Score, HasTools
    <3>2. 0 > 0
      BY <1>3, <3>1
    <3> QED
      BY <3>2
  <2> QED
    BY <2>1
<1> QED
  BY <1>2, <1>3, <1>4 DEF Capabilities

LEMMA SelectFacts ==
    ASSUME NEW s, NEW action, NEW day, NEW p \in SelectModel(s, action, day)
    PROVE  \/ Explicit(s, p.backend, action) = p.model /\ p.backend = s.default
           \/ /\ s.approved[action] # <<>> => p.model \in Range(s.approved[action])
              /\ action \in {"edit", "review"} => \E d \in Capabilities(p.backend, p.model) : d.tools
<1>1. CASE Explicit(s, s.default, action) # NoModel
  <2>1. p = Pair(s.default, Explicit(s, s.default, action))
    BY <1>1 DEF SelectModel
  <2> QED
    BY <2>1, PairFacts
<1>2. CASE Explicit(s, s.default, action) = NoModel /\ s.approved[action] # <<>>
  BY <1>2, ApprovedFacts DEF SelectModel
<1>3. CASE Explicit(s, s.default, action) = NoModel /\ s.approved[action] = <<>>
  BY <1>3, BestFacts DEF SelectModel
<1> QED
  BY <1>1, <1>2, <1>3

\* So a call of a selected model, by the attempt's setup or by setup.yaml, keeps
\* to the tools and to the approved models.
LEMMA SelectedCall ==
    ASSUME NEW s, s.backends = setup.backends, s.approved = setup.approved,
           NEW action, NEW day, NEW p \in SelectModel(s, action, day),
           call' = [action |-> action, pair |-> p], UNCHANGED settings
    PROVE  ToolUsersHaveTools' /\ ApprovedModelsAreAuthoritative'
<1>2. Explicit(s, p.backend, action) = Explicit(setup, p.backend, action)
  BY DEF Explicit
<1>3. call'.action = action /\ call'.pair = p /\ setup' = setup
  BY DEF settings
<1>4. \/ Explicit(setup, p.backend, action) = p.model
      \/ /\ setup.approved[action] # <<>> => p.model \in Range(setup.approved[action])
         /\ action \in {"edit", "review"} => \E d \in Capabilities(p.backend, p.model) : d.tools
  BY <1>2, SelectFacts
<1>5. ToolUsersHaveTools'
  BY <1>3, <1>4 DEF ToolUsersHaveTools, Decided
<1>6. ApprovedModelsAreAuthoritative'
  BY <1>3, <1>4 DEF ApprovedModelsAreAuthoritative, Decided
<1> QED
  BY <1>5, <1>6

\* No call, one of the guided mode, the decomposition, or the calls as they were.
LEMMA OtherCall ==
    ASSUME ToolUsersHaveTools, ApprovedModelsAreAuthoritative, UNCHANGED settings,
           \/ call' = NoCall
           \/ call' = call
           \/ call'.action = "decompose"
           \/ supervised
    PROVE  ToolUsersHaveTools' /\ ApprovedModelsAreAuthoritative'
<1>1. setup' = setup /\ supervised' = supervised
  BY DEF settings
<1>2. CASE call' = NoCall \/ call'.action = "decompose"
  <2>1. NoCall.action = "none"
    BY DEF NoCall
  <2>2. call'.action \notin Actions
    BY <1>2, <2>1 DEF Actions
  <2> QED
    BY <2>2 DEF ToolUsersHaveTools, ApprovedModelsAreAuthoritative, Actions
<1>3. CASE call' = call
  BY <1>1, <1>3 DEF ToolUsersHaveTools, ApprovedModelsAreAuthoritative, Decided, Explicit
<1>4. CASE supervised
  BY <1>1, <1>4 DEF ToolUsersHaveTools, ApprovedModelsAreAuthoritative
<1> QED
  BY <1>2, <1>3, <1>4

-----------------------------------------------------------------------------
(* The steps.                                                                *)

LEMMA Limits == MaxAttempts \in Nat \ {0} /\ MaxEdits \in Nat \ {0}
BY LimitsAssumption

\* A model recommended after a failure is served by a configured backend.
LEMMA RecommendedFacts ==
    ASSUME NEW p \in Recommended(setup, current, history)
    PROVE  p.backend \in DOMAIN setup.backends
<1>1. PICK c \in Candidates(setup, current) : p.backend = c.backend
  BY PairFacts DEF Recommended
<1> QED
  BY <1>1 DEF Candidates

\* An attempt begins at a configured backend, with one more counted.
LEMMA BeginStep ==
    ASSUME IInv, NEW k \in 1..MaxAttempts, NEW count \in 1..MaxAttempts, count <= k, Begin(k, count),
           UNCHANGED settings, current'.backend \in DOMAIN setup.backends
    PROVE  IInv'
<1>1. /\ attempt' = k /\ since' = count /\ edits' = 0 /\ call' = NoCall
      /\ phase' = IF supervised THEN "guide" ELSE "analyze"
  BY DEF Begin
<1>2. setup' = setup /\ supervised' = supervised /\ interactive' = interactive
  BY DEF settings
<1>3. CountInv'
  BY <1>1, Limits DEF CountInv
<1>4. AttemptInv'
  BY <1>1, <1>2, Limits DEF IInv, AttemptInv, Running
<1>5. ToolUsersHaveTools' /\ ApprovedModelsAreAuthoritative'
  BY <1>1, OtherCall DEF IInv
<1> QED
  BY <1>3, <1>4, <1>5 DEF IInv

\* Inside an attempt.
LEMMA WithinStep ==
    ASSUME IInv, phase \in Running, UNCHANGED <<settings, current, attempt, since>>,
           phase' \in {"classify", "plan", "edit", "review", "done", "failed"},
           edits' \in 0..MaxEdits, phase' \in {"classify", "plan"} => edits' = 0, phase' = "edit" => edits' < MaxEdits,
           ToolUsersHaveTools' /\ ApprovedModelsAreAuthoritative'
    PROVE  IInv'
<1>1. setup' = setup /\ supervised' = supervised /\ interactive' = interactive
  BY DEF settings
<1>2. CountInv'
  BY DEF IInv, CountInv, Running
<1>3. AttemptInv'
  BY <1>1 DEF IInv, AttemptInv, Running
<1> QED
  BY <1>2, <1>3 DEF IInv

\* A call: either no model is found and the attempt fails, or one is called.
LEMMA CallStep ==
    ASSUME IInv, phase \in {"plan", "edit", "review"}, Plan \/ Edit \/ Review
    PROVE  /\ ToolUsersHaveTools' /\ ApprovedModelsAreAuthoritative'
           /\ UNCHANGED <<settings, current, attempt, since>>
<1>1. setup \in Setups
  BY DEF IInv, AttemptInv
<1>2. UNCHANGED <<settings, current, attempt, since>>
  BY DEF Plan, Edit, Review, Call, Called, ghosts
<1>3. \/ call' = call
      \/ \E action \in Actions : \E p \in SelectModel(Seen, action, Today) : call' = [action |-> action, pair |-> p]
  BY DEF Plan, Edit, Review, Call, Called, ghosts, Actions
<1>4. CASE call' = call
  BY <1>2, <1>4, OtherCall DEF IInv
<1>5. ASSUME NEW action \in Actions, NEW p \in SelectModel(Seen, action, Today),
             call' = [action |-> action, pair |-> p]
      PROVE  ToolUsersHaveTools' /\ ApprovedModelsAreAuthoritative'
  BY <1>1, <1>2, <1>5, SeenFacts, SelectedCall
<1> QED
  BY <1>2, <1>3, <1>4, <1>5

LEMMA AttemptStep ==
    ASSUME IInv, DeepAnalyze \/ Analyze \/ Plan \/ Edit \/ Review \/ Guide
    PROVE  IInv'
<1>0. /\ edits \in 0..MaxEdits /\ MaxEdits \in Nat \ {0}
      /\ phase \in {"analyze", "classify", "plan", "guide"} => edits = 0
      /\ phase = "edit" => edits < MaxEdits
      /\ phase = "guide" => supervised
  BY Limits DEF IInv, AttemptInv
<1>6. CASE DeepAnalyze
  <2>1. /\ phase = "analyze" /\ phase' = "classify" /\ edits' = edits
        /\ UNCHANGED <<settings, current, attempt, since>>
    BY <1>6 DEF DeepAnalyze, GoOn, Called, ghosts
  <2>2. ASSUME call' = call PROVE ToolUsersHaveTools' /\ ApprovedModelsAreAuthoritative'
    BY <2>1, <2>2, OtherCall DEF IInv
  <2>3. ASSUME NEW p \in SelectModel(setup, "research", Today), call' = [action |-> "research", pair |-> p]
        PROVE  ToolUsersHaveTools' /\ ApprovedModelsAreAuthoritative'
    BY <2>1, <2>3, SelectedCall
  <2>4. ToolUsersHaveTools' /\ ApprovedModelsAreAuthoritative'
    BY <1>6, <2>2, <2>3 DEF DeepAnalyze, Called, ghosts
  <2>5. phase \in Running /\ edits' \in 0..MaxEdits /\ edits' = 0
    BY <1>0, <2>1 DEF Running
  <2> QED
    BY <2>1, <2>4, <2>5, WithinStep
<1>1. CASE Analyze
  <2>1. /\ phase = "classify" /\ phase' \in {"plan", "failed"} /\ edits' = edits
        /\ UNCHANGED <<settings, current, attempt, since>>
        /\ call' = call \/ call'.action = "decompose"
    BY <1>1 DEF Analyze, GoOn, Failing, Called, ghosts
  <2>2. ToolUsersHaveTools' /\ ApprovedModelsAreAuthoritative'
    BY <2>1, OtherCall DEF IInv
  <2>3. phase \in Running /\ edits' \in 0..MaxEdits /\ edits' = 0
    BY <1>0, <2>1 DEF Running
  <2> QED
    BY <2>1, <2>2, <2>3, WithinStep
<1>2. CASE Plan
  <2>1. phase = "plan" /\ phase' \in {"edit", "failed"} /\ edits' = edits
    BY <1>2 DEF Plan, Call, GoOn, Failing
  <2>2. phase' = "edit" => edits' < MaxEdits
    BY <1>0, <2>1
  <2>3. phase \in Running /\ phase' \in {"plan", "edit", "review", "done", "failed"} /\ phase' # "plan"
    BY <2>1 DEF Running
  <2>4. edits' \in 0..MaxEdits /\ phase \in {"plan", "edit", "review"}
    BY <1>0, <2>1
  <2> QED
    BY <1>2, <2>2, <2>3, <2>4, CallStep, WithinStep
<1>3. CASE Edit
  <2>1. /\ phase = "edit" /\ edits' = edits + 1 /\ phase' \in {"edit", "review", "done", "failed"}
        /\ phase' = "edit" => edits' < MaxEdits
    BY <1>3 DEF Edit, Call, GoOn, Failing, Plateau
  <2>2. edits' \in 0..MaxEdits
    BY <1>0, <2>1
  <2>3. phase \in Running /\ phase' \in {"plan", "edit", "review", "done", "failed"} /\ phase' # "plan"
    BY <2>1 DEF Running
  <2> QED
    BY <1>3, <2>1, <2>2, <2>3, CallStep, WithinStep
<1>4. CASE Review
  <2>1. /\ phase = "review" /\ edits' = edits /\ phase' \in {"edit", "done", "failed"}
        /\ phase' = "edit" => edits' < MaxEdits
    BY <1>4 DEF Review, Call, GoOn, Failing
  <2>2. edits' \in 0..MaxEdits
    BY <1>0, <2>1
  <2>3. phase \in Running /\ phase' \in {"plan", "edit", "review", "done", "failed"} /\ phase' # "plan"
    BY <2>1 DEF Running
  <2> QED
    BY <1>4, <2>1, <2>2, <2>3, CallStep, WithinStep
<1>5. CASE Guide
  <2>1. /\ phase = "guide" /\ phase' \in {"done", "failed"} /\ edits' = edits
        /\ UNCHANGED <<settings, current, attempt, since>>
    BY <1>5 DEF Guide, Called, GoOn, Failing
  <2>2. ToolUsersHaveTools' /\ ApprovedModelsAreAuthoritative'
    BY <1>0, <2>1, OtherCall DEF IInv
  <2> QED
    BY <1>0, <2>1, <2>2, WithinStep DEF Running
<1> QED
  BY <1>1, <1>2, <1>3, <1>4, <1>5, <1>6

\* A command that is refused, gives up, succeeds or goes on to ask.
LEMMA LeaveStep ==
    ASSUME IInv, UNCHANGED <<settings, attempt, since, edits, call>>,
           phase' \in {"refused", "recommend", "ask", "askAgain", "succeeded", "gaveUp"},
           phase' \in {"recommend", "ask"} => attempt < MaxAttempts
    PROVE  IInv'
<1>1. setup' = setup /\ supervised' = supervised /\ interactive' = interactive
  BY DEF settings
<1>2. CountInv'
  BY DEF IInv, CountInv, Running
<1>3. AttemptInv'
  BY <1>1 DEF IInv, AttemptInv, Running
<1>4. ToolUsersHaveTools' /\ ApprovedModelsAreAuthoritative'
  BY OtherCall DEF IInv
<1> QED
  BY <1>2, <1>3, <1>4 DEF IInv

LEMMA DecideStep ==
    ASSUME IInv, SelectDoModels \/ Succeed \/ Fail \/ Recommend \/ Ask \/ AskAgain
    PROVE  IInv'
<1>0. /\ attempt \in 0..MaxAttempts /\ since \in 0..MaxAttempts /\ since <= attempt
      /\ MaxAttempts \in Nat \ {0}
      /\ phase \in {"recommend", "ask"} => attempt < MaxAttempts
  BY Limits DEF IInv, CountInv
<1>1. CASE SelectDoModels
  <2>1. CASE phase' = "refused" /\ UNCHANGED <<current, attempt, edits, error, call, before, since>>
    BY <1>1, <2>1, LeaveStep DEF SelectDoModels
  <2>2. CASE /\ setup.default \in DOMAIN setup.backends
             /\ current' = Pair(setup.default, AgentModel(setup, setup.default, "editor"))
             /\ Begin(1, 1)
    <3>1. current'.backend \in DOMAIN setup.backends
      BY <2>2, PairFacts
    <3> QED
      BY <1>0, <1>1, <2>2, <3>1, BeginStep DEF SelectDoModels
  <2> QED
    BY <1>1, <2>1, <2>2 DEF SelectDoModels
<1>2. CASE Succeed
  BY <1>2, LeaveStep DEF Succeed, ghosts
<1>3. CASE Fail
  <2>1. /\ phase' \in {"gaveUp", "recommend", "askAgain"} /\ (phase' = "recommend" => attempt < MaxAttempts)
        /\ UNCHANGED <<settings, attempt, since, edits, call>>
    BY <1>3 DEF Fail, ghosts
  <2> QED
    BY <2>1, LeaveStep
<1>4. CASE Recommend
  <2>1. attempt < MaxAttempts /\ UNCHANGED settings
    BY <1>0, <1>4 DEF Recommend
  <2>2. CASE current' \in Recommended(setup, current, history) /\ Begin(attempt + 1, since + 1)
    <3>1. attempt + 1 \in 1..MaxAttempts /\ since + 1 \in 1..MaxAttempts /\ since + 1 <= attempt + 1
      BY <1>0, <2>1
    <3> QED
      BY <2>1, <2>2, <3>1, BeginStep, RecommendedFacts
  <2>3. CASE phase' \in {"ask", "gaveUp"} /\ UNCHANGED <<current, attempt, edits, error, call, before, since>>
    BY <2>1, <2>3, LeaveStep
  <2> QED
    BY <1>4, <2>2, <2>3 DEF Recommend
<1>5. ASSUME NEW k \in 1..MaxAttempts, NEW b \in DOMAIN setup.backends, PickBackend(b, k), UNCHANGED settings,
             k = 1 \/ k = attempt + 1
      PROVE  IInv'
  <2>1. current'.backend \in DOMAIN setup.backends
    BY <1>5, PairFacts DEF PickBackend
  <2>2. CASE k = 1
    <3>1. Begin(k, 1) /\ 1 \in 1..MaxAttempts /\ 1 <= k
      BY <1>0, <1>5, <2>2 DEF PickBackend
    <3> QED
      BY <1>5, <2>1, <3>1, BeginStep
  <2>3. CASE k # 1
    <3>1. Begin(k, since + 1) /\ since + 1 \in 1..MaxAttempts /\ since + 1 <= k
      BY <1>0, <1>5, <2>3 DEF PickBackend
    <3> QED
      BY <1>5, <2>1, <3>1, BeginStep
  <2> QED
    BY <2>2, <2>3
<1>6. CASE Quit /\ UNCHANGED settings
  BY <1>6, LeaveStep DEF Quit, ghosts
<1>7. CASE Ask
  <2>1. attempt + 1 \in 1..MaxAttempts
    BY <1>0, <1>7 DEF Ask
  <2> QED
    BY <1>5, <1>6, <1>7, <2>1 DEF Ask
<1>8. CASE AskAgain
  <2>1. 1 \in 1..MaxAttempts
    BY <1>0
  <2> QED
    BY <1>5, <1>6, <1>8, <2>1 DEF AskAgain
<1> QED
  BY <1>1, <1>2, <1>3, <1>4, <1>7, <1>8

\* The inductive invariant of the command.
THEOREM Invariance == Spec => []IInv
<1>1. Init => IInv
  <2> SUFFICES ASSUME Init PROVE IInv
    OBVIOUS
  <2>0. /\ attempt = 0 /\ since = 0 /\ edits = 0 /\ phase = "start"
        /\ setup \in Setups /\ {supervised, interactive} \subseteq BOOLEAN
    BY DEF Init
  <2>1. CountInv
    BY <2>0, Limits DEF CountInv, Running
  <2>2. AttemptInv
    BY <2>0, Limits DEF AttemptInv, Running
  <2>3. call.action = "none" /\ call = NoCall
    BY DEF Init, NoCall
  <2> QED
    BY <2>1, <2>2, <2>3 DEF IInv, ToolUsersHaveTools, ApprovedModelsAreAuthoritative, Actions
<1>2. IInv /\ [Next]_vars => IInv'
  <2> SUFFICES ASSUME IInv, [Next]_vars PROVE IInv'
    OBVIOUS
  <2>1. CASE DeepAnalyze \/ Analyze \/ Plan \/ Edit \/ Review \/ Guide
    BY <2>1, AttemptStep
  <2>2. CASE SelectDoModels \/ Succeed \/ Fail \/ Recommend \/ Ask \/ AskAgain
    BY <2>2, DecideStep
  <2>3. CASE UNCHANGED vars
    <3>1. UNCHANGED settings /\ call' = call
      BY <2>3 DEF vars, ghosts
    <3>2. ToolUsersHaveTools' /\ ApprovedModelsAreAuthoritative'
      BY <3>1, OtherCall DEF IInv
    <3>3. CountInv' /\ AttemptInv'
      BY <2>3 DEF vars, settings, ghosts, IInv, CountInv, AttemptInv
    <3> QED
      BY <3>2, <3>3 DEF IInv
  <2> QED
    BY <2>1, <2>2, <2>3 DEF Next
<1> QED
  BY <1>1, <1>2, PTL DEF Spec

\* From the first attempt on the loop of the do command is at a configured
\* backend, whatever was recommended or picked.
THEOREM TypeCorrect == Spec => []TypeOK
<1>1. IInv => TypeOK
  BY DEF IInv, CountInv, AttemptInv, TypeOK
<1> QED
  BY <1>1, Invariance, PTL

\* The do command begins at most MaxAttempts attempts between two decisions of
\* the user, whichever of the ways back to its loop they take.
THEOREM AttemptsAreBoundedAlways == Spec => []AttemptsAreBounded
<1>1. IInv => AttemptsAreBounded
  BY Limits DEF IInv, CountInv, AttemptsAreBounded
<1> QED
  BY <1>1, Invariance, PTL

\* For every catalogue, SelectModel gives the conductor's editor and reviewer a
\* model with tools, or the one the user configured.
THEOREM ToolUsersHaveToolsAlways == Spec => []ToolUsersHaveTools
BY Invariance, PTL DEF IInv

\* For every catalogue and every course of failures, SelectModel keeps to the
\* approved models.
THEOREM ApprovedModelsAreAuthoritativeAlways == Spec => []ApprovedModelsAreAuthoritative
BY Invariance, PTL DEF IInv

-----------------------------------------------------------------------------
(* Where the calls go.                                                       *)

Listed == {c.backend : c \in Catalog \cup Capable}

\* In cloud mode no backend of the catalogues is an Ollama under another name:
\* the catalogue and the recommendations know a local backend by its name.
NamesTellTypes ==
    setup.mode = "cloud" =>
      \A b \in Listed \cap DOMAIN setup.backends : setup.backends[b].ollama => b = "ollama"

Named == {s.default : s \in Setups} \cup UNION {DOMAIN s.backends : s \in Setups}
AllowedByName(b) == b \in Listed /\ NameAllows(setup, b)

\* The loop is at a backend the user named, or that the mode allows by its name.
WhereInv ==
    /\ picked \in Seq(Named) /\ setup.default \in Range(picked)
    /\ phase \in Running => current.backend \in Range(picked) \/ AllowedByName(current.backend)
    /\ call # NoCall => \/ ModeAllows(setup, call.pair.backend)
                        \/ call.pair.backend \in Range(picked)
                        \/ AllowedByName(call.pair.backend)

\* What SelectModel returns is at the default backend, or allowed.
LEMMA SelectWhere ==
    ASSUME NEW s, NEW action, NEW day, NEW p \in SelectModel(s, action, day)
    PROVE  \/ p.backend = s.default
           \/ ModeAllows(s, p.backend)
           \/ p.backend \in Listed /\ NameAllows(s, p.backend)
<1>1. CASE Explicit(s, s.default, action) # NoModel
  <2>1. p = Pair(s.default, Explicit(s, s.default, action))
    BY <1>1 DEF SelectModel
  <2> QED
    BY <2>1, PairFacts
<1>2. CASE p \in Approved(s, action)
  <2>1. PICK k \in DOMAIN s.approved[action] :
          \E b \in Chosen(s, s.approved[action][k], action) : p = Pair(b, s.approved[action][k])
    BY <1>2 DEF Approved
  <2>2. PICK b \in Chosen(s, s.approved[action][k], action) : p = Pair(b, s.approved[action][k])
    BY <2>1
  <2>3. p.backend = b /\ Usable(s, b, s.approved[action][k], action)
    BY <2>2, PairFacts DEF Chosen
  <2> QED
    BY <2>3 DEF Usable
<1>3. CASE p \in Best(s, action, day)
  <2>1. PICK c \in Scored(s, action, day) : p = Pair(c.backend, c.model)
    BY <1>3 DEF Best
  <2>2. c \in Catalog /\ NameAllows(s, c.backend) /\ p.backend = c.backend
    BY <2>1, PairFacts DEF Scored
  <2> QED
    BY <2>2 DEF Listed
<1> QED
  BY <1>1, <1>2, <1>3 DEF SelectModel

LEMMA RecommendedWhere ==
    ASSUME NEW p \in Recommended(setup, current, history)
    PROVE  AllowedByName(p.backend)
<1>1. PICK c \in Candidates(setup, current) : p.backend = c.backend
  BY PairFacts DEF Recommended
<1> QED
  BY <1>1 DEF Candidates, AllowedByName, Listed

LEMMA RangeOfAppend ==
    ASSUME NEW S, NEW s \in Seq(S), NEW x \in S
    PROVE  /\ Append(s, x) \in Seq(S)
           /\ Range(Append(s, x)) = Range(s) \cup {x}
<1>1. /\ Append(s, x) \in Seq(S) /\ DOMAIN Append(s, x) = DOMAIN s \cup {Len(s) + 1}
      /\ Append(s, x)[Len(s) + 1] = x /\ \A m \in DOMAIN s : Append(s, x)[m] = s[m]
  OBVIOUS
<1> QED
  BY <1>1 DEF Range

\* An attempt begins where the user, or a recommendation, leads.
LEMMA BeginWhere ==
    ASSUME WhereInv, NEW k, NEW count, Begin(k, count), UNCHANGED settings,
           picked' \in Seq(Named), Range(picked) \subseteq Range(picked'),
           current'.backend \in Range(picked') \/ AllowedByName(current'.backend)
    PROVE  WhereInv'
<1>1. call' = NoCall /\ setup' = setup
  BY DEF Begin, settings
<1> QED
  BY <1>1 DEF WhereInv, AllowedByName

\* Within an attempt, and after it.
LEMMA StayWhere ==
    ASSUME WhereInv, UNCHANGED <<settings, picked>>, phase' \in Running => phase \in Running /\ current' = current,
           \/ call' = call \/ call' = NoCall
           \/ ModeAllows(setup, call'.pair.backend)
           \/ call'.pair.backend \in Range(picked)
           \/ AllowedByName(call'.pair.backend)
    PROVE  WhereInv'
<1>1. setup' = setup
  BY DEF settings
<1> QED
  BY <1>1 DEF WhereInv, AllowedByName

LEMMA WhereStep == ASSUME IInv, WhereInv, [Next]_vars PROVE WhereInv'
<1>0. setup \in Setups /\ setup.default \in Named /\ DOMAIN setup.backends \subseteq Named
  BY DEF IInv, AttemptInv, Named
<1>1. CASE SelectDoModels
  <2>1. CASE phase' = "refused" /\ UNCHANGED <<settings, call, picked>>
    BY <2>1, StayWhere DEF Running
  <2>2. CASE current' = Pair(setup.default, AgentModel(setup, setup.default, "editor")) /\ Begin(1, 1)
    <3>1. current'.backend = setup.default /\ UNCHANGED <<settings, picked>>
      BY <1>1, <2>2, PairFacts DEF SelectDoModels
    <3> QED
      BY <2>2, <3>1, BeginWhere DEF WhereInv
  <2> QED
    BY <1>1, <2>1, <2>2 DEF SelectDoModels
<1>2. CASE Succeed \/ Fail
  BY <1>2, StayWhere DEF Succeed, Fail, Running, ghosts
<1>8. CASE DeepAnalyze
  <2>1. phase \in Running /\ UNCHANGED <<settings, picked, current>>
    BY <1>8 DEF DeepAnalyze, Running, Called, ghosts
  <2>2. call' = call \/ \E p \in SelectModel(setup, "research", Today) : call'.pair = p
    BY <1>8 DEF DeepAnalyze, Called, ghosts
  <2>3. ASSUME NEW p \in SelectModel(setup, "research", Today)
        PROVE  p.backend \in Range(picked) \/ ModeAllows(setup, p.backend) \/ AllowedByName(p.backend)
    BY SelectWhere DEF WhereInv, AllowedByName
  <2> QED
    BY <2>1, <2>2, <2>3, StayWhere
<1>9. CASE Analyze
  <2>1. /\ phase \in Running /\ UNCHANGED <<settings, picked, current>>
        /\ call' = call \/ call'.pair.backend = current.backend
    BY <1>9, PairFacts DEF Analyze, Running, Called, ghosts
  <2> QED
    BY <2>1, StayWhere DEF WhereInv
<1>3. CASE Plan \/ Edit \/ Review
  <2>1. phase \in Running /\ UNCHANGED <<settings, picked, current>>
    BY <1>3 DEF Plan, Edit, Review, Running, Call, Called, ghosts
  <2>2. \/ call' = call
        \/ \E action \in Actions : \E p \in SelectModel(Seen, action, Today) : call' = [action |-> action, pair |-> p]
    BY <1>3 DEF Plan, Edit, Review, Call, Called, ghosts, Actions
  <2>3. ASSUME NEW action \in Actions, NEW p \in SelectModel(Seen, action, Today),
               call' = [action |-> action, pair |-> p]
        PROVE  \/ ModeAllows(setup, p.backend)
               \/ p.backend \in Range(picked)
               \/ AllowedByName(p.backend)
    <3>1. Seen.default = current.backend /\ Seen.backends = setup.backends /\ Seen.mode = setup.mode
      BY <1>0, SeenFacts
    <3>2. /\ ModeAllows(Seen, p.backend) => ModeAllows(setup, p.backend)
          /\ NameAllows(Seen, p.backend) => NameAllows(setup, p.backend)
      BY <3>1 DEF ModeAllows, NameAllows
    <3>3. p.backend = current.backend \/ ModeAllows(setup, p.backend) \/ AllowedByName(p.backend)
      BY <3>1, <3>2, SelectWhere DEF AllowedByName
    <3> QED
      BY <2>1, <3>3 DEF WhereInv
  <2> QED
    BY <2>1, <2>2, <2>3, StayWhere
<1>4. CASE Guide
  <2>1. /\ phase \in Running /\ UNCHANGED <<settings, picked, current>>
        /\ call'.pair = current
    BY <1>4 DEF Guide, Running, Called
  <2> QED
    BY <2>1, StayWhere DEF WhereInv
<1>5. CASE Recommend
  <2>1. UNCHANGED <<settings, picked>>
    BY <1>5 DEF Recommend
  <2>2. CASE current' \in Recommended(setup, current, history) /\ Begin(attempt + 1, since + 1)
    BY <2>1, <2>2, BeginWhere, RecommendedWhere DEF WhereInv
  <2>3. CASE phase' \in {"ask", "gaveUp"} /\ call' = call
    BY <2>1, <2>3, StayWhere DEF Running
  <2> QED
    BY <1>5, <2>2, <2>3 DEF Recommend
<1>6. CASE Ask \/ AskAgain
  <2>1. UNCHANGED settings
    BY <1>6 DEF Ask, AskAgain
  <2>2. ASSUME NEW b \in DOMAIN setup.backends, NEW k, PickBackend(b, k) PROVE WhereInv'
    <3>1. picked' = Append(picked, b) /\ current'.backend = b
      BY <2>2, PairFacts DEF PickBackend
    <3>2. picked \in Seq(Named) /\ b \in Named
      BY <1>0 DEF WhereInv
    <3>3. picked' \in Seq(Named) /\ Range(picked') = Range(picked) \cup {b}
      BY <3>1, <3>2, RangeOfAppend
    <3> QED
      BY <2>1, <2>2, <3>1, <3>3, BeginWhere DEF PickBackend
  <2>3. CASE Quit
    BY <2>1, <2>3, StayWhere DEF Quit, Running, ghosts
  <2> QED
    BY <1>6, <2>2, <2>3 DEF Ask, AskAgain
<1>7. CASE UNCHANGED vars
  BY <1>7, StayWhere DEF vars, ghosts
<1> QED
  BY <1>1, <1>2, <1>3, <1>4, <1>5, <1>6, <1>7, <1>8, <1>9 DEF Next

\* Wherever failures, recommendations and limits lead, a call goes to a backend
\* that the mode allows or the user named; in cloud mode, provided no backend of
\* the catalogues is an Ollama under another name, which only the approved
\* models would be kept from.
THEOREM StaysWhereTheUserIsByName == Spec => [](NamesTellTypes => StaysWhereTheUserIs)
<1>1. Init => WhereInv
  <2> SUFFICES ASSUME Init PROVE WhereInv
    OBVIOUS
  <2>1. setup \in Setups /\ picked = <<setup.default>> /\ phase = "start" /\ call = NoCall
    BY DEF Init
  <2>2. setup.default \in Named
    BY <2>1 DEF Named
  <2>3. picked \in Seq(Named) /\ setup.default \in Range(picked)
    BY <2>1, <2>2 DEF Range
  <2> QED
    BY <2>1, <2>3 DEF WhereInv, Running
<1>2. IInv /\ WhereInv /\ [Next]_vars => WhereInv'
  BY WhereStep
<1>3. WhereInv => (NamesTellTypes => StaysWhereTheUserIs)
  <2> SUFFICES ASSUME WhereInv, NamesTellTypes, NEW b, AllowedByName(b) PROVE ModeAllows(setup, b)
    BY DEF WhereInv, StaysWhereTheUserIs
  <2> QED
    BY DEF NamesTellTypes, AllowedByName, NameAllows, ModeAllows, Allows
<1> QED
  BY <1>1, <1>2, <1>3, Invariance, PTL DEF Spec

-----------------------------------------------------------------------------
(* The way to the end of the command, or to the next question.               *)

\* What is left of an attempt that is at phase p after e edits.
Left(p, e) ==
    CASE p = "analyze" -> 2 * MaxEdits + 7
      [] p \in {"classify", "guide"} -> 2 * MaxEdits + 6
      [] p = "plan" -> 2 * MaxEdits + 5
      [] p = "edit" -> 2 * (MaxEdits - e) + 4
      [] p = "review" -> 2 * (MaxEdits - e) + 5
      [] p \in {"done", "failed"} -> 4
      [] p \in {"recommend", "askAgain"} -> 3
      [] p \in {"start", "ask"} -> 2
      [] OTHER -> 0

\* The attempts that are left, then what is left of this one: the pairs are
\* ordered lexicographically, and no sequence of them decreases for ever.
ToGo == <<MaxAttempts - attempt, Left(phase, edits)>>
Below(r, q) == r[1] < q[1] \/ (r[1] = q[1] /\ r[2] < q[2])
StartsAgain == phase = "askAgain" /\ picked' # picked
NearsTheEnd == Below(ToGo', ToGo) \/ StartsAgain

LEMMA LeftFacts ==
    ASSUME NEW e \in 0..MaxEdits
    PROVE  /\ Left("analyze", e) = 2 * MaxEdits + 7
           /\ Left("classify", e) = 2 * MaxEdits + 6 /\ Left("guide", e) = 2 * MaxEdits + 6
           /\ Left("plan", e) = 2 * MaxEdits + 5
           /\ Left("edit", e) = 2 * (MaxEdits - e) + 4 /\ Left("review", e) = 2 * (MaxEdits - e) + 5
           /\ Left("done", e) = 4 /\ Left("failed", e) = 4
           /\ Left("recommend", e) = 3 /\ Left("askAgain", e) = 3
           /\ Left("start", e) = 2 /\ Left("ask", e) = 2
           /\ Left("succeeded", e) = 0 /\ Left("gaveUp", e) = 0 /\ Left("refused", e) = 0
BY DEF Left

LEMMA ToGoFacts == ASSUME IInv PROVE ToGo \in Nat \X Nat
<1>1. /\ attempt \in 0..MaxAttempts /\ MaxAttempts \in Nat
      /\ edits \in 0..MaxEdits /\ MaxEdits \in Nat
      /\ phase \in Running \cup {"start", "refused", "recommend", "ask", "askAgain", "succeeded", "gaveUp"}
  BY Limits DEF IInv, CountInv, AttemptInv
<1>2. Left(phase, edits) \in Nat
  BY <1>1, LeftFacts DEF Running
<1> QED
  BY <1>1, <1>2 DEF ToGo

\* With an attempt more there is an attempt less to go.
LEMMA BeginNears ==
    ASSUME IInv, NEW count, Begin(attempt + 1, count), attempt < MaxAttempts
    PROVE  Below(ToGo', ToGo)
<1>1. attempt' = attempt + 1 /\ attempt \in 0..MaxAttempts /\ MaxAttempts \in Nat
  BY Limits DEF Begin, IInv, CountInv
<1> QED
  BY <1>1 DEF ToGo, Below

LEMMA NearsStep == ASSUME IInv, Next PROVE NearsTheEnd
<1>0. /\ attempt \in 0..MaxAttempts /\ MaxAttempts \in Nat \ {0}
      /\ edits \in 0..MaxEdits /\ MaxEdits \in Nat \ {0}
      /\ phase \in {"analyze", "classify", "plan", "guide"} => edits = 0
      /\ phase = "edit" => edits < MaxEdits
      /\ phase \in {"recommend", "ask"} => attempt < MaxAttempts
  BY Limits DEF IInv, CountInv, AttemptInv
<1>1. ASSUME attempt' = attempt, edits' \in 0..MaxEdits, Left(phase', edits') < Left(phase, edits) PROVE NearsTheEnd
  BY <1>1 DEF NearsTheEnd, ToGo, Below
<1>13. CASE DeepAnalyze
  <2>1. phase = "analyze" /\ phase' = "classify" /\ edits' = edits /\ attempt' = attempt
    BY <1>13 DEF DeepAnalyze, GoOn
  <2> QED
    BY <1>0, <1>1, <2>1, LeftFacts
<1>2. CASE Analyze
  <2>1. phase = "classify" /\ phase' \in {"plan", "failed"} /\ edits' = edits /\ attempt' = attempt
    BY <1>2 DEF Analyze, GoOn, Failing
  <2> QED
    BY <1>0, <1>1, <2>1, LeftFacts
<1>3. CASE Plan
  <2>1. phase = "plan" /\ phase' \in {"edit", "failed"} /\ edits' = edits /\ attempt' = attempt
    BY <1>3 DEF Plan, Call, GoOn, Failing
  <2> QED
    BY <1>0, <1>1, <2>1, LeftFacts
<1>4. CASE Edit
  <2>1. /\ phase = "edit" /\ phase' \in {"edit", "review", "done", "failed"}
        /\ edits' = edits + 1 /\ attempt' = attempt
    BY <1>4 DEF Edit, Call, GoOn, Failing, Plateau
  <2>2. edits' \in 0..MaxEdits
    BY <1>0, <2>1
  <2> QED
    BY <1>0, <1>1, <2>1, <2>2, LeftFacts
<1>5. CASE Review
  <2>1. phase = "review" /\ phase' \in {"edit", "done", "failed"} /\ edits' = edits /\ attempt' = attempt
    BY <1>5 DEF Review, Call, GoOn, Failing
  <2> QED
    BY <1>0, <1>1, <2>1, LeftFacts
<1>6. CASE Guide
  <2>1. phase = "guide" /\ phase' \in {"done", "failed"} /\ edits' = edits /\ attempt' = attempt
    BY <1>6 DEF Guide, GoOn, Failing
  <2> QED
    BY <1>0, <1>1, <2>1, LeftFacts
<1>7. CASE Succeed
  <2>1. phase = "done" /\ phase' = "succeeded" /\ edits' = edits /\ attempt' = attempt
    BY <1>7 DEF Succeed
  <2> QED
    BY <1>0, <1>1, <2>1, LeftFacts
<1>8. CASE Fail
  <2>1. phase = "failed" /\ phase' \in {"gaveUp", "recommend", "askAgain"} /\ edits' = edits /\ attempt' = attempt
    BY <1>8 DEF Fail
  <2> QED
    BY <1>0, <1>1, <2>1, LeftFacts
<1>9. CASE SelectDoModels
  <2>1. phase = "start" /\ attempt = 0
    BY <1>9 DEF SelectDoModels, IInv, CountInv
  <2> QED
    <3>1. CASE phase' = "refused" /\ edits' = edits /\ attempt' = attempt
      BY <1>0, <1>1, <2>1, <3>1, LeftFacts
    <3>2. CASE Begin(1, 1)
      <4>1. 1 = attempt + 1 /\ attempt < MaxAttempts
        BY <1>0, <2>1
      <4> QED
        BY <3>2, <4>1, BeginNears DEF NearsTheEnd
    <3> QED
      BY <1>9, <3>1, <3>2 DEF SelectDoModels
<1>10. CASE Recommend
  <2>1. CASE Begin(attempt + 1, since + 1)
    BY <1>0, <1>10, <2>1, BeginNears DEF Recommend, NearsTheEnd
  <2>2. CASE phase' \in {"ask", "gaveUp"} /\ edits' = edits /\ attempt' = attempt
    BY <1>0, <1>1, <1>10, <2>2, LeftFacts DEF Recommend
  <2> QED
    BY <1>10, <2>1, <2>2 DEF Recommend
<1>11. CASE Ask
  <2>1. CASE Quit
    BY <1>0, <1>1, <1>11, <2>1, LeftFacts DEF Ask, Quit
  <2>2. ASSUME NEW b \in DOMAIN setup.backends, PickBackend(b, attempt + 1) PROVE NearsTheEnd
    <3>1. PICK count : Begin(attempt + 1, count)
      BY <2>2 DEF PickBackend
    <3> QED
      BY <1>0, <1>11, <3>1, BeginNears DEF Ask, NearsTheEnd
  <2> QED
    BY <1>11, <2>1, <2>2 DEF Ask
<1>12. CASE AskAgain
  <2>1. CASE Quit
    BY <1>0, <1>1, <1>12, <2>1, LeftFacts DEF AskAgain, Quit
  <2>2. ASSUME NEW b \in DOMAIN setup.backends, PickBackend(b, 1) PROVE NearsTheEnd
    BY <1>12, <2>2 DEF PickBackend, AskAgain, NearsTheEnd, StartsAgain
  <2> QED
    BY <1>12, <2>1, <2>2 DEF AskAgain
<1> QED
  BY <1>2, <1>3, <1>4, <1>5, <1>6, <1>7, <1>8, <1>9, <1>10, <1>11, <1>12, <1>13 DEF Next

\* The do command cannot go on for ever: but for a user who, asked after the
\* last attempt, picks another backend, every step leaves less to go.
THEOREM CommandNearsItsEnd == Spec => [](ToGo \in Nat \X Nat) /\ [][NearsTheEnd]_vars
<1>1. IInv /\ [Next]_vars => [NearsTheEnd]_vars
  BY NearsStep
<1> QED
  BY <1>1, ToGoFacts, Invariance, PTL DEF Spec
=============================================================================
