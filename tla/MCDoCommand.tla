---------------------------- MODULE MCDoCommand ----------------------------
(* Some models of the shipped catalogues; a local and a cloud setup.         *)
EXTENDS DoCommand

\* The base of a score, with the boost for what the catalogue recommends.
Base(n, recommended) == [a \in Actions |-> n + IF a \in recommended THEN 100 ELSE 0]

MCCatalog ==
    {[backend |-> "groq", model |-> "meta/llama-70b", tools |-> TRUE, files |-> TRUE,
      base |-> Base(180, {}), limit |-> 3],
     [backend |-> "groq", model |-> "groq/compound", tools |-> FALSE, files |-> FALSE,
      base |-> Base(260, {"research"}), limit |-> 0],
     [backend |-> "openrouter", model |-> "moonshotai/kimi:free", tools |-> FALSE, files |-> FALSE,
      base |-> Base(200, {"plan", "edit"}), limit |-> 0],
     [backend |-> "openrouter", model |-> "meta/llama-70b", tools |-> TRUE, files |-> TRUE,
      base |-> Base(180, {}), limit |-> 0],
     [backend |-> "ollama", model |-> "qwen3-coder", tools |-> TRUE, files |-> TRUE,
      base |-> Base(120, {"edit"}), limit |-> 0],
     [backend |-> "ollama", model |-> "library/qwen3", tools |-> TRUE, files |-> TRUE,
      base |-> Base(110, {}), limit |-> 0]}

\* 200 * speed + 200 * cost + 100, as calculateScore weighs them; the cost is in cents.
MCCapable ==
    {[backend |-> "groq", model |-> "meta/llama-70b", cost |-> 59, static |-> 401],
     [backend |-> "groq", model |-> "llama-8b", cost |-> 5, static |-> 495],
     [backend |-> "openrouter", model |-> "moonshotai/kimi:free", cost |-> 0, static |-> 360],
     [backend |-> "ollama", model |-> "qwen3-coder", cost |-> 0, static |-> 340]}

MCQualified == {"meta/llama-70b", "groq/compound", "moonshotai/kimi:free", "library/qwen3"}

NoAlias == [m \in {} |-> NoModel]
Backend(editor, query, default, alias) ==
    [ollama |-> FALSE, agents |-> [editor |-> editor, query |-> query, research |-> query],
     default |-> default, alias |-> alias]
Groq == Backend(NoModel, NoModel, "meta/llama-70b", [m \in {"llama-8b"} |-> "8b"])
Ollama(editor) == [Backend(editor, NoModel, "qwen3-coder", NoAlias) EXCEPT !.ollama = TRUE]
OpenRouter == Backend(NoModel, NoModel, "moonshotai/kimi:free", NoAlias)
NoDefault == Backend(NoModel, NoModel, NoModel, NoAlias)
All == [groq |-> Groq, ollama |-> Ollama("qwen3-coder"), openrouter |-> OpenRouter]
InTheCloud == [groq |-> Groq, openrouter |-> OpenRouter]
LocalAndGroq == [groq |-> Groq, ollama |-> Ollama(NoModel)]

Setup(mode, default, approved, backends) ==
    [mode |-> mode, default |-> default, budget |-> [on |-> FALSE, most |-> 0],
     approved |-> [a \in Actions |-> approved], backends |-> backends]
Frugal(found, most) == [found EXCEPT !.budget = [on |-> TRUE, most |-> most]]

\* The fourth and the fifth setup approve an id without a slash, which is always skipped.
MCSetups ==
    {Frugal(Setup("any", "groq", <<>>, All), 50),
     Setup("local", "ollama", <<>>, LocalAndGroq),
     Setup("local", "ollama", <<"meta/llama-70b", "library/qwen3">>, LocalAndGroq),
     Setup("local", "ollama", <<"qwen3-coder">>, LocalAndGroq),
     Setup("cloud", "openrouter", <<"llama-8b", "moonshotai/kimi:free", "meta/llama-70b">>, InTheCloud),
     Setup("cloud", "groq", <<"moonshotai/kimi:free">>, All),
     Setup("cloud", "openai", <<>>, [groq |-> Groq]),
     Setup("any", "openai", <<>>, [openai |-> NoDefault])}

\* No history, and one in which the fastest model has failed three times and the
\* first of these failures is about to be too old to be read.
Failed(p) == [pair |-> p, success |-> FALSE]
MCHistories == {<<>>, [i \in 1..3 |-> Failed(Pair("groq", "llama-8b"))]}
=============================================================================
