--------------------------- MODULE ModelSelector ---------------------------
(* Which model an action gets: SelectModel of the model selector             *)
(* (src/internal/config/model_selector.go), RecommendModelForRetry of the    *)
(* intelligence package and selectDoModels of the do command.  Scores are    *)
(* integers: what a command does not change of them (the context window, the *)
(* speed, the cost, the recommendation of the catalogue and, where one has   *)
(* been trained, the prediction of the recommender) is one number for each   *)
(* action a model is scored for.                                             *)
EXTENDS Integers, Sequences, FiniteSets, SequencesExt

CONSTANTS Catalog,   \* models_catalog.json: [backend, model, tools, files, base, limit]
          Capable,   \* the catalogue of the intelligence package: [backend, model, cost, static]
          Qualified, \* the model ids that have a slash
          NoModel    \* model value: the setup names none

Actions == {"research", "plan", "edit", "review"}
Pair(b, m) == [backend |-> b, model |-> m]

(* A setup: mode "local", "cloud" or "any", the default backend, the budget  *)
(* (whether it is on, and the most a million tokens may cost) and, for       *)
(* every configured backend, whether it is an Ollama, what its agents are    *)
(* configured with (agents; no profile is in use), its default model and     *)
(* the names it has for models of the catalogue (alias); and for each action *)
(* the approved models, in order.                                            *)

\* explicitlyConfiguredModelForAction: planner and reviewer share the query model.
Explicit(setup, b, action) ==
    IF b \notin DOMAIN setup.backends THEN NoModel
    ELSE setup.backends[b].agents[CASE action = "edit" -> "editor"
                                    [] action = "research" -> "research"
                                    [] OTHER -> "query"]

\* GetModelForAgentWithProfile falls back to the default model of the backend.
AgentModel(setup, b, agent) ==
    LET own == setup.backends[b].agents[agent]
    IN IF own # NoModel THEN own ELSE setup.backends[b].default

\* modeAllowsBackend knows a local backend by its name or its type; the
\* catalogue and the recommendations go by the name alone.
Allows(mode, local) == CASE mode = "local" -> local [] mode = "cloud" -> ~local [] OTHER -> TRUE
ModeAllows(setup, b) ==
    Allows(setup.mode, b = "ollama" \/ (b \in DOMAIN setup.backends /\ setup.backends[b].ollama))
NameAllows(setup, b) == Allows(setup.mode, b = "ollama")

Capabilities(b, m) == {c \in Catalog : c.backend = b /\ c.model = m}
HasTools(c, action) == action \notin {"edit", "review"} \/ c.tools

----------------------------------------------------------------------------
(* Approved models: the first that some configured backend serves; the       *)
(* default backend is asked first, the others in the order of a Go map.  No  *)
(* backend is asked for an id without a slash: it is skipped.                *)

Servers(setup, m) == {b \in DOMAIN setup.backends : m \in Qualified /\ Capabilities(b, m) # {}}
Answering(setup, m) ==
    LET servers == Servers(setup, m)
    IN IF setup.default \in servers THEN {setup.default} ELSE servers

Usable(setup, b, m, action) ==
    ModeAllows(setup, b) /\ \E c \in Capabilities(b, m) : HasTools(c, action)

Chosen(setup, m, action) == {b \in Answering(setup, m) : Usable(setup, b, m, action)}
MayBeSkipped(setup, m, action) ==
    Answering(setup, m) = {} \/ Chosen(setup, m, action) # Answering(setup, m)

Approved(setup, action) ==
    LET models == setup.approved[action]
        Reached(k) == \A j \in 1..(k - 1) : MayBeSkipped(setup, models[j], action)
    IN UNION {{Pair(b, models[k]) : b \in Chosen(setup, models[k], action)} :
                k \in {n \in DOMAIN models : Reached(n)}}

----------------------------------------------------------------------------
(* The catalogue: the best score wins.  A day is what the commands of the    *)
(* day have left: the requests count against the daily limit, the last error *)
(* against the model, and the feedback on the editor for or against every    *)
(* model of that id, by at most 100.                                         *)

RateLimit(c, used) ==
    IF c.limit = 0 THEN 0
    ELSE (50 * used.requests) \div c.limit + IF 10 * used.requests >= 9 * c.limit THEN 50 ELSE 0
Feedback(c, action, day) ==
    CASE action # "edit" -> 0
      [] day.feedback[c.model] < -100 -> -100
      [] day.feedback[c.model] > 100 -> 100
      [] OTHER -> day.feedback[c.model]

\* MUTANT: models without tool calls are scored like all others.
ScoreAll(c, action, day) ==
    LET used == day.usage[Pair(c.backend, c.model)]
    IN c.base[action] - RateLimit(c, used) - (IF used.failed THEN 30 ELSE 0) + Feedback(c, action, day)

Score(c, action, day) ==
    LET used == day.usage[Pair(c.backend, c.model)] IN
    IF ~HasTools(c, action) \/ (action \in {"edit", "review"} /\ ~c.files) THEN 0
    ELSE c.base[action] - RateLimit(c, used) - (IF used.failed THEN 30 ELSE 0) + Feedback(c, action, day)

Scored(setup, action, day) == {c \in Catalog : NameAllows(setup, c.backend) /\ Score(c, action, day) > 0}
Boosted(setup, c, action, day) == Score(c, action, day) + IF c.backend = setup.default THEN 100 ELSE 0
Best(setup, action, day) ==
    {Pair(c.backend, c.model) : c \in
      {d \in Scored(setup, action, day) :
         \A e \in Scored(setup, action, day) : Boosted(setup, e, action, day) <= Boosted(setup, d, action, day)}}

\* MUTANT: when no approved model can be used, the catalogue is.
SelectAnyway(setup, action, day) ==
    LET configured == Explicit(setup, setup.default, action) IN
    IF configured # NoModel THEN {Pair(setup.default, configured)}
    ELSE IF Approved(setup, action) # {} THEN Approved(setup, action)
    ELSE Best(setup, action, day)

\* The models SelectModel may return (equal scores and unordered maps leave a
\* choice); none when it fails.  What the user configured for the default
\* backend goes first, and the approved models leave the catalogue out.
SelectModel(setup, action, day) ==
    LET configured == Explicit(setup, setup.default, action) IN
    IF configured # NoModel THEN {Pair(setup.default, configured)}
    ELSE IF setup.approved[action] # <<>> THEN Approved(setup, action)
    ELSE Best(setup, action, day)

----------------------------------------------------------------------------
(* The retry: every capable model of a configured backend but the pair that  *)
(* failed, ranked by its successes when the lines of the history that are    *)
(* read have three tasks of it, by its cost and by its speed.  A failure     *)
(* records no latency, so a command does not change what is known of it.     *)

\* With the budget on, what is free or local ranks higher.
Thrift(setup, c) ==
    IF setup.budget.on
    THEN (IF c.cost = 0 THEN 12 ELSE 10) * (IF c.backend = "ollama" THEN 11 ELSE 10)
    ELSE 100

Rank(setup, c, history, failed) ==
    LET lines == {i \in DOMAIN history : history[i].pair = Pair(c.backend, c.model)}
        good == {i \in lines : history[i].success}
        success == IF Cardinality(lines) >= 3 THEN (500 * Cardinality(good)) \div Cardinality(lines) ELSE 250
    IN (success + c.static) * (IF c.backend = failed.backend THEN 95 ELSE 100) * Thrift(setup, c)

Affordable(setup, c) == setup.budget.on /\ setup.budget.most > 0 => c.cost <= setup.budget.most

\* MUTANT: every configured backend is a candidate, whatever the mode.
CandidatesAnywhere(setup, failed) ==
    {c \in Capable : /\ c.backend \in DOMAIN setup.backends
                     /\ Pair(c.backend, c.model) # failed
                     /\ Affordable(setup, c)}

Candidates(setup, failed) ==
    {c \in Capable : /\ c.backend \in DOMAIN setup.backends
                     /\ Pair(c.backend, c.model) # failed
                     /\ NameAllows(setup, c.backend)
                     /\ Affordable(setup, c)}

\* A recommended model goes by the name its backend has for it.
Recommended(setup, failed, history) ==
    {LET names == setup.backends[c.backend].alias
     IN Pair(c.backend, IF c.model \in DOMAIN names THEN names[c.model] ELSE c.model) : c \in
      {d \in Candidates(setup, failed) :
         \A e \in Candidates(setup, failed) :
           Rank(setup, e, history, failed) <= Rank(setup, d, history, failed)}}
=============================================================================
