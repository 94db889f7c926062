----------------------------- MODULE AcpServer -----------------------------
(* The agent side of the Agent Client Protocol (src/internal/acp) with the   *)
(* handler that runs a prompt (src/cmd/gptcode/acp.go).  Over stdio one loop *)
(* reads a line, handles it to its end and reads the next; over HTTP every   *)
(* POST has its own goroutine, a prompt one more, and the updates of a       *)
(* session are fanned out to the streams of its subscribers.                 *)
EXTENDS Naturals, Sequences, FiniteSets, SequencesExt

CONSTANTS MaxMessages,  \* bound: how many messages the client sends
          MaxPrompts,   \* bound: how many of them are prompts
          MaxSessions,  \* bound: how many sessions the client names (it opens one)
          Subscribers,  \* clients of /acp/events
          Capacity,     \* events a subscriber's channel holds (64 in the code)
          NoStream, Gone \* model values: a subscriber that is not yet, or no longer, connected

ASSUME BoundsAssumption == {MaxMessages, MaxPrompts, MaxSessions, Capacity} \subseteq Nat \ {0} /\ MaxMessages >= 2

VARIABLES transport,    \* "stdio" or "http", from --http
          signalled,    \* the context of the command is cancelled
          eof,          \* the client closed the server's stdin
          loop,         \* Run: "check", "read", "handle", "stopped"; HTTP: "serve", "stopped"
          sent,         \* everything the client sent; a message's place is its id
          unread,       \* the messages no handler has taken yet
          initialized,  \* Server.initialized
          mode,         \* Server.sessions: the mode of every session
          turns,        \* the calls of handleSessionPrompt that have not returned
          cancelFuncs,  \* Server.cancelFuncs: session -> the turn it cancels
          posts,        \* the prompts whose HTTP exchange is open
          answers,      \* the responses written to each message, in order
          events,       \* how many updates of a session were written
          streams       \* HTTPTransport.subs: the stream of each subscriber

input == <<signalled, eof, sent>>
vars == <<transport, input, loop, unread, initialized, mode, turns, cancelFuncs, posts, answers, events, streams>>

Ids == 1..MaxMessages
Sessions == 1..MaxSessions
Modes == {"edit", "query"}

(* The client opens a session, prompts and cancels in it and sets its mode;  *)
(* it may name a session that does not exist, and send what is no message of *)
(* the protocol ("invalid"), a call or a notification nobody knows.  It      *)
(* initializes and opens its session once (Opening: over HTTP these two may  *)
(* overtake each other) and waits for both before it goes on; of the         *)
(* messages that start no turn and end none (Rare) it sends one before the   *)
(* first prompt, and it cancels no more often than it prompts.               *)
Messages ==
    [method: {"unknown", "notice", "invalid"}, session: {1}, mode: {"edit"}]
      \cup [method: {"session/prompt", "session/cancel"}, session: Sessions, mode: {"edit"}]
      \cup [method: {"session/set_mode"}, session: Sessions, mode: {"query"}]

Opening == <<[method |-> "initialize", session |-> 1, mode |-> "edit"],
             [method |-> "session/new", session |-> 1, mode |-> "edit"]>>
Count(method) == Cardinality({i \in DOMAIN sent : sent[i].method = method})
Rare == {"session/set_mode", "unknown", "notice", "invalid"}
MaySend(msg) ==
    /\ Len(sent) < MaxMessages
    /\ unread \cap DOMAIN Opening = {}
    /\ msg.method = "session/prompt" => Count(msg.method) < MaxPrompts
    /\ msg.method \in Rare => \A method \in Rare \cup {"session/prompt"} : Count(method) = 0
    /\ msg.method = "session/cancel" => Count(msg.method) < Count("session/prompt")

\* Notifications carry no id, and nobody answers them.
IsRequest(msg) == msg.method \notin {"session/cancel", "notice"}

NoTurns == [i \in {} |-> {}]
Without(f, x) == [y \in DOMAIN f \ {x} |-> f[y]]
Extended(f, x, v) == [y \in DOMAIN f \cup {x} |-> IF y = x THEN v ELSE f[y]]

Init ==
    /\ transport \in {"stdio", "http"}
    /\ signalled = FALSE /\ eof = FALSE
    /\ loop = IF transport = "stdio" THEN "check" ELSE "serve"
    /\ sent = Opening /\ unread = DOMAIN Opening /\ posts = {}
    /\ initialized = FALSE
    /\ mode = <<>>
    /\ turns = NoTurns /\ cancelFuncs = NoTurns
    /\ answers = [i \in Ids |-> <<>>]
    /\ events = [s \in Sessions |-> 0]
    /\ streams = [u \in Subscribers |-> NoStream]

----------------------------------------------------------------------------
(* The client.                                                               *)

Send ==
    \E msg \in Messages :
      /\ MaySend(msg) /\ ~eof /\ loop # "stopped"
      /\ sent' = Append(sent, msg)
      /\ unread' = unread \cup {Len(sent')}
      /\ posts' = IF transport = "http" /\ msg.method = "session/prompt" THEN posts \cup {Len(sent')} ELSE posts
      /\ UNCHANGED <<transport, signalled, eof, loop, initialized, mode, turns, cancelFuncs, answers, events, streams>>

Signal ==
    /\ transport = "stdio" /\ ~signalled /\ loop # "stopped"
    /\ signalled' = TRUE
    /\ UNCHANGED <<transport, eof, sent, loop, unread, initialized, mode, turns, cancelFuncs, posts, answers, events, streams>>

CloseStdin ==
    /\ transport = "stdio" /\ ~eof /\ loop # "stopped"
    /\ eof' = TRUE
    /\ UNCHANGED <<transport, signalled, sent, loop, unread, initialized, mode, turns, cancelFuncs, posts, answers, events, streams>>

----------------------------------------------------------------------------
(* What is written: a response to its writer, an update to the writer and to *)
(* the streams that listen to its session.                                   *)

Answer(i, result) == answers' = [answers EXCEPT ![i] = Append(@, result)]

Open(stream) == stream \notin {NoStream, Gone}
Listens(stream, s) == Open(stream) /\ s \in stream.topics

\* MUTANT: the wildcard stream is served with the session's list and again on its own.
FanOutTwice(s, n) ==
    streams' = [u \in Subscribers |->
                  IF Listens(streams[u], s) /\ Len(streams[u].buffer) < Capacity
                  THEN [streams[u] EXCEPT !.buffer = IF streams[u].topics = Sessions THEN @ \o <<<<s, n>>, <<s, n>>>>
                                                     ELSE Append(@, <<s, n>>)]
                  ELSE streams[u]]

\* A subscriber names a session or, with "*", all of them; a full channel drops the event.
FanOut(s, n) ==
    streams' = [u \in Subscribers |->
                  IF Listens(streams[u], s) /\ Len(streams[u].buffer) < Capacity
                  THEN [streams[u] EXCEPT !.buffer = Append(@, <<s, n>>), !.full = @ \/ Len(streams[u].buffer) + 1 = Capacity]
                  ELSE streams[u]]

Update(s) ==
    /\ events' = [events EXCEPT ![s] = @ + 1]
    /\ FanOut(s, events[s] + 1)

NoUpdate == UNCHANGED <<events, streams>>

----------------------------------------------------------------------------
(* The handlers of one message.                                              *)

Initialize(i) ==
    /\ sent[i].method = "initialize"
    /\ initialized' = TRUE
    /\ Answer(i, "ok")
    /\ NoUpdate
    /\ UNCHANGED <<mode, turns, cancelFuncs>>

\* The client hears of the session's commands before it hears of the session.
SessionNew(i) ==
    /\ sent[i].method = "session/new"
    /\ IF initialized
       THEN /\ mode' = Append(mode, "edit")
            /\ Update(Len(mode) + 1)
            /\ Answer(i, "ok")
       ELSE Answer(i, "error") /\ NoUpdate /\ UNCHANGED mode
    /\ UNCHANGED <<initialized, turns, cancelFuncs>>

\* What the handler does before it starts: an empty prompt ends the turn at
\* once, without a model selector the turn fails, and everything else is
\* announced (two plans in a row, one update here).
Started == {[updates |-> 1, phase |-> "announcing", failed |-> FALSE],
            [updates |-> 0, phase |-> "reporting", failed |-> FALSE],
            [updates |-> 0, phase |-> "reporting", failed |-> TRUE]}

Turn(s, start) == [session |-> s, phase |-> start.phase, updates |-> start.updates, failed |-> start.failed,
                   direct |-> mode[s] = "query", cancelled |-> FALSE]

\* A turn's cancel function takes the place of the one its session had.
SessionPrompt(i) ==
    LET s == sent[i].session IN
    /\ sent[i].method = "session/prompt"
    /\ IF s \in DOMAIN mode
       THEN /\ \E start \in Started : turns' = Extended(turns, i, Turn(s, start))
            /\ cancelFuncs' = Extended(cancelFuncs, s, i)
            /\ UNCHANGED answers
       ELSE Answer(i, "error") /\ UNCHANGED <<turns, cancelFuncs>>
    /\ NoUpdate
    /\ UNCHANGED <<initialized, mode>>

SessionCancel(i) ==
    LET s == sent[i].session IN
    /\ sent[i].method = "session/cancel"
    /\ turns' = IF s \in DOMAIN cancelFuncs /\ cancelFuncs[s] \in DOMAIN turns
                THEN [turns EXCEPT ![cancelFuncs[s]].cancelled = TRUE] ELSE turns
    /\ NoUpdate
    /\ UNCHANGED <<initialized, mode, cancelFuncs, answers>>

\* The mode of a session that does not exist is set just as well.
SetMode(i) ==
    /\ sent[i].method = "session/set_mode"
    /\ mode' = [s \in DOMAIN mode |-> IF s = sent[i].session THEN sent[i].mode ELSE mode[s]]
    /\ Answer(i, "ok")
    /\ NoUpdate
    /\ UNCHANGED <<initialized, turns, cancelFuncs>>

\* MUTANT: notifications are answered like calls.
OtherMessageAnswered(i) ==
    /\ sent[i].method \in {"unknown", "invalid", "notice"}
    /\ Answer(i, "error")
    /\ NoUpdate
    /\ UNCHANGED <<initialized, mode, turns, cancelFuncs>>

\* A message with another version, and a call nobody knows, is answered when it has an id.
OtherMessage(i) ==
    /\ sent[i].method \in {"unknown", "invalid", "notice"}
    /\ IF IsRequest(sent[i]) THEN Answer(i, "error") ELSE UNCHANGED answers
    /\ NoUpdate
    /\ UNCHANGED <<initialized, mode, turns, cancelFuncs>>

HandleMessage(i) ==
    /\ unread' = unread \ {i}
    /\ \/ Initialize(i) \/ SessionNew(i) \/ SessionPrompt(i)
       \/ SessionCancel(i) \/ SetMode(i) \/ OtherMessage(i)

----------------------------------------------------------------------------
(* The turn: handleSessionPrompt around acpSessionHandler.HandlePrompt.      *)

\* The context of a turn: its own, under that of the loop or of the POST.
Cancelled(i) ==
    \/ turns[i].cancelled
    \/ transport = "stdio" /\ signalled
    \/ transport = "http" /\ i \notin posts

Emit(i) ==
    /\ turns[i].updates > 0
    /\ turns' = [turns EXCEPT ![i].updates = @ - 1]
    /\ Update(turns[i].session)
    /\ UNCHANGED <<loop, cancelFuncs, answers>>

\* The turn waits for the provider or for the conductor.
Working(i) == i \in DOMAIN turns /\ turns[i].phase = "announcing" /\ turns[i].updates = 0

\* ... which returns.  A turn in query mode talks to the
\* provider alone and has no plan to close, so its failure is told by no plan.
Work(i) ==
    /\ Working(i)
    /\ \E failed \in BOOLEAN :
         turns' = [turns EXCEPT ![i] = [@ EXCEPT !.phase = "reporting", !.failed = failed,
                     !.updates = IF turns[i].direct /\ failed THEN 0 ELSE 1]]
    /\ NoUpdate
    /\ UNCHANGED <<loop, cancelFuncs, answers>>

Reported(i) == turns[i].phase = "reporting" /\ turns[i].updates = 0

\* An error that no cancellation explains is told as text, and ends the turn like a success.
TellError(i) ==
    /\ Reported(i) /\ turns[i].failed /\ ~Cancelled(i)
    /\ turns' = [turns EXCEPT ![i].updates = 1, ![i].failed = FALSE]
    /\ NoUpdate
    /\ UNCHANGED <<loop, cancelFuncs, answers>>

Respond(i) ==
    /\ Reported(i)
    /\ \/ ~turns[i].failed /\ Answer(i, "endTurn")
       \/ turns[i].failed /\ Cancelled(i) /\ Answer(i, "cancelled")
    /\ turns' = [turns EXCEPT ![i].phase = "returning"]
    /\ NoUpdate
    /\ UNCHANGED <<loop, cancelFuncs>>

\* MUTANT: the deferred function leaves the map alone when another turn of the session runs.
ReturnUnlessOthers(i) ==
    /\ turns[i].phase = "returning"
    /\ turns' = Without(turns, i)
    /\ cancelFuncs' = IF \E j \in DOMAIN turns \ {i} : turns[j].session = turns[i].session
                      THEN cancelFuncs ELSE Without(cancelFuncs, turns[i].session)
    /\ loop' = IF loop = "handle" THEN "check" ELSE loop
    /\ NoUpdate
    /\ UNCHANGED answers

\* MUTANT: the loop is not told that the turn is over.
ReturnUnheard(i) ==
    /\ turns[i].phase = "returning"
    /\ turns' = Without(turns, i)
    /\ cancelFuncs' = Without(cancelFuncs, turns[i].session)
    /\ NoUpdate
    /\ UNCHANGED <<loop, answers>>

\* The deferred function takes whatever cancel function its session has.
Return(i) ==
    /\ turns[i].phase = "returning"
    /\ turns' = Without(turns, i)
    /\ cancelFuncs' = Without(cancelFuncs, turns[i].session)
    /\ loop' = IF loop = "handle" THEN "check" ELSE loop
    /\ NoUpdate
    /\ UNCHANGED answers

TurnStep(i) ==
    /\ i \in DOMAIN turns /\ loop # "stopped"
    /\ Emit(i) \/ Work(i) \/ TellError(i) \/ Respond(i) \/ Return(i)
    /\ UNCHANGED <<transport, input, unread, initialized, mode, posts>>

----------------------------------------------------------------------------
(* Run: the context is looked at before a line is read, not while.           *)

Check ==
    /\ loop = "check"
    /\ loop' = IF signalled THEN "stopped" ELSE "read"
    /\ UNCHANGED <<transport, input, unread, initialized, mode, turns, cancelFuncs, posts, answers, events, streams>>

\* MUTANT: the loop reads on while the prompt runs.
ReadOn ==
    /\ loop = "read" /\ unread # {}
    /\ HandleMessage(CHOOSE j \in unread : \A k \in unread : j <= k)
    /\ loop' = "check"
    /\ UNCHANGED <<transport, input, posts>>

Read ==
    /\ loop = "read" /\ unread # {}
    /\ LET i == CHOOSE j \in unread : \A k \in unread : j <= k IN
         /\ HandleMessage(i)
         /\ loop' = IF i \in DOMAIN turns' THEN "handle" ELSE "check"
    /\ UNCHANGED <<transport, input, posts>>

ReadEOF ==
    /\ loop = "read" /\ unread = {} /\ eof
    /\ loop' = "stopped"
    /\ UNCHANGED <<transport, input, unread, initialized, mode, turns, cancelFuncs, posts, answers, events, streams>>

----------------------------------------------------------------------------
(* HTTPTransport.                                                            *)

\* dispatchNotification knows the cancel only; a message that is not 2.0 is
\* answered in the body of its exchange, everything else through the server's writer.
Dispatch(i) ==
    /\ loop = "serve" /\ i \in unread
    /\ HandleMessage(i)
    /\ UNCHANGED <<transport, input, loop, posts>>

\* Fifty milliseconds after the dispatch the body is written, with null for the
\* response, and the exchange ends; it also ends when the client goes away.
EndPost(i) ==
    /\ loop = "serve" /\ i \in posts \ unread
    /\ posts' = posts \ {i}
    /\ UNCHANGED <<transport, input, loop, unread, initialized, mode, turns, cancelFuncs, answers, events, streams>>

\* A stream tells only what is written after it opens, so a client opens it
\* before it prompts (a bound: later streams hold less of the same).
Subscribe(u) ==
    /\ loop = "serve" /\ streams[u] = NoStream /\ Count("session/prompt") = 0
    /\ \E topics \in {Sessions} \cup {{s} : s \in Sessions} :
         streams' = [streams EXCEPT ![u] = [topics |-> topics, buffer |-> <<>>, last |-> events, full |-> FALSE]]
    /\ UNCHANGED <<transport, input, loop, unread, initialized, mode, turns, cancelFuncs, posts, answers, events>>

\* The first event of the channel goes out to the client.
Delivered(stream) ==
    LET e == Head(stream.buffer) IN [stream EXCEPT !.buffer = Tail(@), !.last[e[1]] = e[2]]

Deliver(u) ==
    /\ loop = "serve" /\ Open(streams[u]) /\ streams[u].buffer # <<>>
    /\ streams' = [streams EXCEPT ![u] = Delivered(streams[u])]
    /\ UNCHANGED <<transport, input, loop, unread, initialized, mode, turns, cancelFuncs, posts, answers, events>>

Unsubscribe(u) ==
    /\ loop = "serve" /\ Open(streams[u])
    /\ streams' = [streams EXCEPT ![u] = Gone]
    /\ UNCHANGED <<transport, input, loop, unread, initialized, mode, turns, cancelFuncs, posts, answers, events>>

\* On a signal Shutdown waits for open exchanges, five seconds at most, and for no turn.
Shutdown ==
    /\ loop = "serve"
    /\ signalled' = TRUE /\ loop' = "stopped"
    /\ UNCHANGED <<transport, eof, sent, unread, initialized, mode, turns, cancelFuncs, posts, answers, events, streams>>

----------------------------------------------------------------------------

Next ==
    \/ Send \/ Signal \/ CloseStdin
    \/ Check \/ Read \/ ReadEOF
    \/ \E i \in Ids : TurnStep(i) \/ Dispatch(i) \/ EndPost(i)
    \/ \E u \in Subscribers : Subscribe(u) \/ Deliver(u) \/ Unsubscribe(u)
    \/ Shutdown

(* The loop and every goroutine get their turn, and the client reads what is *)
(* written to it; beyond that it owes the server nothing.  What a prompt     *)
(* runs need never return: a request to a model may have no timeout.         *)
Fairness ==
    /\ WF_vars(Check \/ Read \/ ReadEOF)
    /\ \A i \in Ids : /\ WF_vars(TurnStep(i) /\ ~Working(i))
                      /\ WF_vars(Dispatch(i)) /\ WF_vars(EndPost(i))

Spec == Init /\ [][Next]_vars
FairSpec == Spec /\ Fairness

----------------------------------------------------------------------------

\* The types: whose turns run and whose streams are open.
TypeOK ==
    /\ transport \in {"stdio", "http"} /\ {signalled, eof, initialized} \subseteq BOOLEAN
    /\ loop \in IF transport = "stdio" THEN {"check", "read", "handle", "stopped"} ELSE {"serve", "stopped"}
    /\ unread \subseteq 1..Len(sent) /\ posts \subseteq 1..Len(sent)
    /\ Len(mode) <= MaxSessions /\ Range(mode) \subseteq Modes
    /\ DOMAIN turns \subseteq 1..Len(sent) /\ DOMAIN cancelFuncs \subseteq DOMAIN mode
    /\ \A i \in DOMAIN turns : turns[i].session \in DOMAIN mode
    /\ transport = "stdio" => Cardinality(DOMAIN turns) <= 1 /\ (loop = "stopped" => turns = NoTurns)

\* A message is answered once at most; a call that nobody works on any more
\* has its answer, and a notification has none.  (One handler writes the
\* response of a turn, another takes the turn's cancel function, and over HTTP
\* any number of them run.)
Answered(i) == answers[i] # <<>>
AtWork(i) == i \in unread \/ (i \in DOMAIN turns /\ turns[i].phase # "returning")
AnsweredOnce ==
    /\ \A i \in Ids : Len(answers[i]) <= 1
    /\ \A i \in DOMAIN sent : Answered(i) <=> (IsRequest(sent[i]) /\ ~AtWork(i))

\* The function a cancel would call belongs to a turn of that session that has
\* not returned, however many turns of the session overlap and in whatever
\* order they return: a cancel never lands on a turn that is gone.
CancelsALiveTurn ==
    \A s \in DOMAIN cancelFuncs :
      cancelFuncs[s] \in DOMAIN turns /\ turns[cancelFuncs[s]].session = s

\* What a subscriber's channel holds are updates of its sessions it has not
\* read, none of them twice and each session's in their order; and while the
\* channel has never been full, it holds all of them.  (last is the latest
\* update of each session the subscriber has read.)
Unread(stream) ==
    UNION {{s} \X (stream.last[s] + 1 .. events[s]) : s \in {t \in Sessions : Listens(stream, t)}}
StreamsAreFaithful ==
    \A u \in {v \in Subscribers : Open(streams[v])} :
      LET stream == streams[u]
          held == stream.buffer
      IN /\ Range(held) \subseteq Unread(stream)
         /\ \A m, n \in DOMAIN held : m < n /\ held[m][1] = held[n][1] => held[m][2] < held[n][2]
         /\ stream.full \/ Range(held) = Unread(stream)

\* Every call is answered, unless the server stops first or a prompt's work never
\* returns: over HTTP, where turns overlap, its own, over stdio that of the prompt
\* the only reader is in.  (The client sends finitely many, so from some moment on
\* none is left.)
Awaits(i) == Working(i) \/ (transport = "stdio" /\ \E j \in DOMAIN turns : Working(j))
EveryCallIsAnswered ==
    <>[](loop = "stopped" \/ \A i \in DOMAIN sent : IsRequest(sent[i]) => Answered(i) \/ Awaits(i))

\* What ends a turn as "cancelled": over stdio nothing but a signal, since a
\* session/cancel is read only when the turn is over; over HTTP the end of the
\* prompt's own POST, or a cancel of its session (not always a later one: POSTs
\* overtake each other, and the cancel meant for one turn may reach the next).
CancelledForAReason ==
    \A i \in Ids :
      "cancelled" \in Range(answers[i]) =>
        IF transport = "stdio" THEN signalled
        ELSE i \notin posts \/ \E j \in DOMAIN sent : /\ sent[j].method = "session/cancel"
                                                      /\ sent[j].session = sent[i].session

\* A turn ends as "cancelled" only when the client asked for it or the command
\* was told to stop.
CancelledMeansAsked ==
    \A i \in Ids :
      "cancelled" \in Range(answers[i]) =>
        signalled \/ \E j \in DOMAIN sent : /\ j > i /\ sent[j].method = "session/cancel"
                                            /\ sent[j].session = sent[i].session
=============================================================================
