-------------------------- MODULE AcpServer_proofs --------------------------
(* Proofs about AcpServer for any number of messages, prompts, sessions and  *)
(* subscribers, over stdio and over HTTP: every message is answered once at  *)
(* most and as soon as nobody works on it, a cancel function belongs to a    *)
(* turn that has not returned, a subscriber's channel holds unread updates   *)
(* in their order, a turn is cancelled for a reason, and each of its own     *)
(* steps brings it nearer to its end.                                        *)
EXTENDS AcpServer, FiniteSetTheorems, WellFoundedInduction, TLAPS

Methods == {"initialize", "session/new", "session/prompt", "session/cancel", "session/set_mode",
            "unknown", "notice", "invalid"}
Results == {"ok", "error", "endTurn", "cancelled"}
Sent == [method : Methods, session : Sessions, mode : Modes]
TurnType == [session : Sessions, phase : {"announcing", "reporting", "returning"}, updates : Nat,
             failed : BOOLEAN, direct : BOOLEAN, cancelled : BOOLEAN]

\* What the client has sent, and the one session it opens.
SentInv ==
    /\ transport \in {"stdio", "http"} /\ {signalled, eof, initialized} \subseteq BOOLEAN
    /\ sent \in Seq(Sent) /\ Len(sent) >= 2 /\ Len(sent) <= MaxMessages
    /\ \A i \in DOMAIN sent : sent[i].method = "session/new" => i = 2
    /\ unread \subseteq DOMAIN sent /\ posts \subseteq DOMAIN sent
    /\ mode \in Seq(Modes) /\ Len(mode) <= 1
    /\ 2 \in unread => Len(mode) = 0

\* A turn answers a prompt that a handler has taken, in the prompt's session.
TurnsInv ==
    /\ turns \in [DOMAIN turns -> TurnType]
    /\ DOMAIN turns \subseteq DOMAIN sent \ unread
    /\ \A i \in DOMAIN turns : /\ turns[i].session \in DOMAIN mode
                               /\ IsRequest(sent[i])
    /\ DOMAIN cancelFuncs \subseteq DOMAIN mode

\* The loop of Run is inside a handler exactly while a turn runs.
LoopInv ==
    /\ loop \in IF transport = "stdio" THEN {"check", "read", "handle", "stopped"} ELSE {"serve", "stopped"}
    /\ transport = "stdio" => IF loop = "handle" THEN \E i \in DOMAIN sent : DOMAIN turns = {i}
                              ELSE DOMAIN turns = {}

\* Nobody answers what has not been sent.
Unanswered == \A i \in Ids \ DOMAIN sent : answers[i] = <<>>
AnswersInv == answers \in [Ids -> Seq(Results)] /\ AnsweredOnce /\ Unanswered

IInv == SentInv /\ TurnsInv /\ LoopInv /\ AnswersInv /\ CancelsALiveTurn

-----------------------------------------------------------------------------
(* The operators of the model.                                             *)

LEMMA Bounds == /\ MaxMessages \in Nat \ {0} /\ MaxMessages >= 2
                /\ MaxSessions \in Nat \ {0} /\ 1 \in Sessions
BY BoundsAssumption DEF Sessions

LEMMA WithoutFacts ==
    ASSUME NEW f, NEW x
    PROVE  /\ DOMAIN Without(f, x) = DOMAIN f \ {x}
           /\ \A y \in DOMAIN f \ {x} : Without(f, x)[y] = f[y]
BY DEF Without

LEMMA ExtendedFacts ==
    ASSUME NEW f, NEW x, NEW v
    PROVE  /\ DOMAIN Extended(f, x, v) = DOMAIN f \cup {x}
           /\ Extended(f, x, v)[x] = v
           /\ \A y \in DOMAIN f \ {x} : Extended(f, x, v)[y] = f[y]
BY DEF Extended

\* The ids of what was sent are ids.
LEMMA SentIds == ASSUME SentInv PROVE DOMAIN sent = 1..Len(sent) /\ DOMAIN sent \subseteq Ids
<1>1. Len(sent) \in Nat /\ Len(sent) <= MaxMessages /\ DOMAIN sent = 1..Len(sent)
  BY DEF SentInv
<1> QED
  BY <1>1, Bounds DEF Ids

LEMMA AppendFacts ==
    ASSUME NEW S, NEW s \in Seq(S), NEW x \in S
    PROVE  Append(s, x) \in Seq(S) /\ Len(Append(s, x)) = Len(s) + 1 /\ Append(s, x) # <<>>
<1>1. Append(s, x) \in Seq(S) /\ Len(Append(s, x)) = Len(s) + 1 /\ Len(s) \in Nat
  OBVIOUS
<1>2. Len(<<>>) = 0
  OBVIOUS
<1> QED
  BY <1>1, <1>2

\* A response lengthens the answers to its message by one.
LEMMA AnswerFacts ==
    ASSUME answers \in [Ids -> Seq(Results)], NEW i \in Ids, NEW r \in Results, Answer(i, r)
    PROVE  /\ answers' \in [Ids -> Seq(Results)]
           /\ Len(answers'[i]) = Len(answers[i]) + 1 /\ answers'[i] # <<>>
           /\ \A j \in Ids \ {i} : answers'[j] = answers[j]
<1>1. answers' = [answers EXCEPT ![i] = Append(@, r)]
  BY DEF Answer
<1>2. answers[i] \in Seq(Results)
  OBVIOUS
<1>3. /\ Append(answers[i], r) \in Seq(Results)
      /\ Len(Append(answers[i], r)) = Len(answers[i]) + 1
      /\ Append(answers[i], r) # <<>>
  BY <1>2, AppendFacts
<1>4. answers'[i] = Append(answers[i], r) /\ answers' \in [Ids -> Seq(Results)]
  BY <1>1, <1>3
<1>5. \A j \in Ids \ {i} : answers'[j] = answers[j]
  BY <1>1
<1> QED
  BY <1>3, <1>4, <1>5

\* A message nobody has taken is not answered, nor has it a turn.
LEMMA UnreadFacts ==
    ASSUME SentInv, TurnsInv, AnswersInv, NEW i \in unread
    PROVE  i \in DOMAIN sent /\ i \in Ids /\ i \notin DOMAIN turns /\ answers[i] = <<>>
<1>1. i \in DOMAIN sent /\ i \in Ids /\ i \notin DOMAIN turns
  BY SentIds DEF SentInv, TurnsInv
<1>2. ~ Answered(i)
  BY <1>1 DEF AnswersInv, AnsweredOnce, AtWork
<1> QED
  BY <1>1, <1>2 DEF Answered

LEMMA InitIInv == Init => IInv
<1> SUFFICES ASSUME Init PROVE IInv
  OBVIOUS
<1>0. DOMAIN turns = {} /\ DOMAIN cancelFuncs = {} /\ turns \in [{} -> TurnType]
  BY DEF Init, NoTurns
<1>1. /\ Len(Opening) = 2 /\ DOMAIN Opening = {1, 2} /\ Opening \in Seq(Sent)
      /\ Opening[1].method = "initialize" /\ Opening[2].method = "session/new"
  <2>1. 1 \in Sessions /\ "edit" \in Modes
    BY Bounds DEF Modes
  <2>2. Opening \in Seq(Sent)
    <3>1. \A a, b \in Sent : <<a, b>> \in Seq(Sent)
      OBVIOUS
    <3>2. /\ [method |-> "initialize", session |-> 1, mode |-> "edit"] \in Sent
          /\ [method |-> "session/new", session |-> 1, mode |-> "edit"] \in Sent
      BY <2>1 DEF Sent, Methods
    <3> QED
      BY <3>1, <3>2 DEF Opening
  <2>3. Len(Opening) = 2 /\ DOMAIN Opening = {1, 2}
    BY DEF Opening
  <2> QED
    BY <2>2, <2>3 DEF Opening
<1>2. mode \in Seq(Modes) /\ Len(mode) = 0 /\ DOMAIN mode = {}
  BY DEF Init
<1>3. SentInv
  <2>1. sent = Opening /\ unread = DOMAIN Opening /\ posts = {}
    BY DEF Init
  <2>2. transport \in {"stdio", "http"} /\ {signalled, eof, initialized} \subseteq BOOLEAN
    BY DEF Init
  <2>3. \A i \in DOMAIN sent : sent[i].method = "session/new" => i = 2
    BY <1>1, <2>1
  <2>4. sent \in Seq(Sent) /\ Len(sent) >= 2 /\ Len(sent) <= MaxMessages
    <3>1. Len(sent) = 2 /\ sent \in Seq(Sent)
      BY <1>1, <2>1
    <3> QED
      BY <3>1, Bounds
  <2>5. unread \subseteq DOMAIN sent /\ posts \subseteq DOMAIN sent /\ Len(mode) <= 1
    BY <1>1, <1>2, <2>1
  <2> QED
    BY <1>2, <2>2, <2>3, <2>4, <2>5 DEF SentInv
<1>4. TurnsInv /\ LoopInv /\ CancelsALiveTurn
  BY <1>0 DEF Init, TurnsInv, LoopInv, CancelsALiveTurn
<1>5. answers = [i \in Ids |-> <<>>] /\ unread = {1, 2} /\ DOMAIN sent = {1, 2} /\ {1, 2} \subseteq Ids
  BY <1>1, <1>3, SentIds DEF Init
<1>6. AnswersInv
  BY <1>0, <1>5 DEF AnswersInv, AnsweredOnce, Answered, AtWork, Unanswered
<1> QED
  BY <1>3, <1>4, <1>6 DEF IInv

-----------------------------------------------------------------------------
(* The client, the streams, and the steps of the loop between two messages.  *)

LEMMA MessagesFacts == ASSUME NEW msg \in Messages PROVE msg \in Sent /\ msg.method # "session/new"
BY Bounds DEF Messages, Sent, Methods, Modes

LEMMA SendStep == ASSUME IInv, Send PROVE IInv'
<1>1. PICK msg \in Messages :
        /\ MaySend(msg) /\ loop # "stopped"
        /\ sent' = Append(sent, msg)
        /\ unread' = unread \cup {Len(sent')}
        /\ posts' = IF transport = "http" /\ msg.method = "session/prompt" THEN posts \cup {Len(sent')} ELSE posts
        /\ UNCHANGED <<transport, signalled, eof, loop, initialized, mode, turns, cancelFuncs, answers>>
  BY DEF Send
<1>2. msg \in Sent /\ msg.method # "session/new" /\ Len(sent) < MaxMessages
  BY <1>1, MessagesFacts DEF MaySend
<1>3. SentInv /\ TurnsInv /\ LoopInv /\ AnswersInv /\ CancelsALiveTurn
  BY DEF IInv
<1>4. DEFINE k == Len(sent) + 1
<1>5. /\ sent' \in Seq(Sent) /\ Len(sent') = k /\ DOMAIN sent' = DOMAIN sent \cup {k}
      /\ sent'[k] = msg /\ \A i \in DOMAIN sent : sent'[i] = sent[i]
      /\ k \notin DOMAIN sent /\ k >= 3 /\ k <= MaxMessages /\ k \in Nat
  <2>1. sent \in Seq(Sent) /\ Len(sent) \in Nat /\ Len(sent) >= 2 /\ DOMAIN sent = 1..Len(sent)
    BY <1>3 DEF SentInv
  <2>2. sent' \in Seq(Sent) /\ Len(sent') = k /\ DOMAIN sent' = 1..k
    BY <1>1, <1>2, <2>1
  <2>3. sent'[k] = msg /\ \A i \in DOMAIN sent : sent'[i] = sent[i]
    BY <1>1, <2>1
  <2>4. k \notin DOMAIN sent /\ k >= 3 /\ k <= MaxMessages /\ k \in Nat
    BY <1>2, <2>1, Bounds
  <2> QED
    BY <2>1, <2>2, <2>3, <2>4
<1>6. unread' = unread \cup {k} /\ posts' \subseteq posts \cup {k}
  BY <1>1, <1>5
<1> HIDE DEF k
<1>7. SentInv'
  BY <1>1, <1>2, <1>3, <1>5, <1>6 DEF SentInv
<1>8. TurnsInv' /\ LoopInv' /\ CancelsALiveTurn'
  <2>1. TurnsInv'
    BY <1>1, <1>3, <1>5, <1>6 DEF TurnsInv, IsRequest
  <2>2. LoopInv' /\ CancelsALiveTurn'
    BY <1>1, <1>3, <1>5 DEF LoopInv, CancelsALiveTurn
  <2> QED
    BY <2>1, <2>2
<1>9. AnswersInv'
  <2>1. k \in Ids /\ k \notin DOMAIN sent
    BY <1>5, Bounds DEF Ids
  <2>2. answers[k] = <<>>
    BY <1>3, <2>1 DEF AnswersInv, Unanswered
  <2>3. (\A i \in DOMAIN sent : Answered(i) <=> (IsRequest(sent[i]) /\ ~AtWork(i)))'
    <3>1. ASSUME NEW i \in DOMAIN sent PROVE (Answered(i) <=> (IsRequest(sent[i]) /\ ~AtWork(i)))'
      BY <1>1, <1>3, <1>5, <1>6 DEF AnswersInv, AnsweredOnce, Answered, AtWork, IsRequest
    <3>2. answers'[k] = <<>> /\ k \in unread'
      BY <1>1, <1>6, <2>2
    <3> QED
      BY <1>5, <3>1, <3>2 DEF Answered, AtWork
  <2>4. Unanswered'
    BY <1>1, <1>3, <1>5 DEF AnswersInv, Unanswered
  <2> QED
    BY <1>1, <1>3, <2>3, <2>4 DEF AnswersInv, AnsweredOnce
<1> QED
  BY <1>7, <1>8, <1>9 DEF IInv

\* Steps that touch no turn, no answer and nothing the client sent.
LEMMA IdleStep ==
    ASSUME IInv, UNCHANGED <<transport, sent, unread, mode, turns, cancelFuncs, answers>>,
           posts' \subseteq posts, {signalled', eof', initialized'} \subseteq BOOLEAN, LoopInv'
    PROVE  IInv'
<1>1. SentInv' /\ TurnsInv' /\ CancelsALiveTurn'
  BY DEF IInv, SentInv, TurnsInv, CancelsALiveTurn
<1>2. AnswersInv'
  BY DEF IInv, AnswersInv, AnsweredOnce, Answered, AtWork, Unanswered
<1> QED
  BY <1>1, <1>2 DEF IInv

LEMMA LoopStep ==
    ASSUME IInv, Signal \/ CloseStdin \/ Check \/ ReadEOF \/ Shutdown
                 \/ (\E i \in Ids : EndPost(i))
                 \/ (\E u \in Subscribers : Subscribe(u) \/ Deliver(u) \/ Unsubscribe(u))
                 \/ UNCHANGED vars
    PROVE  IInv'
<1>0. LoopInv /\ {signalled, eof, initialized} \subseteq BOOLEAN /\ transport \in {"stdio", "http"}
  BY DEF IInv, SentInv
<1>1. ASSUME UNCHANGED <<transport, loop, turns, sent>> PROVE LoopInv'
  BY <1>0, <1>1 DEF LoopInv
<1>2. CASE Signal \/ CloseStdin
  BY <1>0, <1>1, <1>2, IdleStep DEF Signal, CloseStdin
<1>3. CASE Check \/ ReadEOF
  <2>1. LoopInv'
    BY <1>0, <1>3 DEF Check, ReadEOF, LoopInv, input
  <2> QED
    BY <1>0, <1>3, <2>1, IdleStep DEF Check, ReadEOF, input
<1>4. CASE Shutdown
  <2>1. LoopInv'
    BY <1>0, <1>4 DEF Shutdown, LoopInv
  <2> QED
    BY <1>0, <1>4, <2>1, IdleStep DEF Shutdown
<1>5. ASSUME NEW i \in Ids, EndPost(i) PROVE IInv'
  BY <1>0, <1>1, <1>5, IdleStep DEF EndPost, input
<1>6. ASSUME NEW u \in Subscribers, Subscribe(u) \/ Deliver(u) \/ Unsubscribe(u) PROVE IInv'
  BY <1>0, <1>1, <1>6, IdleStep DEF Subscribe, Deliver, Unsubscribe, input
<1>7. CASE UNCHANGED vars
  BY <1>0, <1>1, <1>7, IdleStep DEF vars, input
<1> QED
  BY <1>2, <1>3, <1>4, <1>5, <1>6, <1>7

-----------------------------------------------------------------------------
(* The handlers of one message.                                              *)

\* What a handler leaves of the message it took: an answer, nothing to answer,
\* or a turn that is going to answer.
LEMMA HandledAnswers ==
    ASSUME IInv, NEW i \in unread, unread' = unread \ {i}, sent' = sent,
           \A j \in DOMAIN turns : j \in DOMAIN turns' /\ turns'[j].phase = turns[j].phase,
           \/ /\ IsRequest(sent[i]) /\ DOMAIN turns' = DOMAIN turns
              /\ \E r \in Results : Answer(i, r)
           \/ ~ IsRequest(sent[i]) /\ DOMAIN turns' = DOMAIN turns /\ answers' = answers
           \/ /\ IsRequest(sent[i]) /\ answers' = answers
              /\ DOMAIN turns' = DOMAIN turns \cup {i} /\ turns'[i].phase # "returning"
    PROVE  AnswersInv'
<1>0. SentInv /\ TurnsInv /\ AnswersInv
  BY DEF IInv
<1>1. i \in DOMAIN sent /\ i \in Ids /\ i \notin DOMAIN turns /\ answers[i] = <<>>
  BY <1>0, UnreadFacts
<1>2. answers \in [Ids -> Seq(Results)]
  BY <1>0 DEF AnswersInv
<1>3. /\ answers' \in [Ids -> Seq(Results)] /\ \A j \in Ids \ {i} : answers'[j] = answers[j]
      /\ Len(answers'[i]) <= 1
      /\ answers'[i] # <<>> <=> \E r \in Results : Answer(i, r)
  <2>1. ASSUME NEW r \in Results, Answer(i, r)
        PROVE  /\ answers' \in [Ids -> Seq(Results)] /\ \A j \in Ids \ {i} : answers'[j] = answers[j]
               /\ Len(answers'[i]) <= 1 /\ answers'[i] # <<>>
    BY <1>1, <1>2, <2>1, AnswerFacts
  <2>2. Len(answers[i]) <= 1
    BY <1>1
  <2> QED
    BY <1>1, <1>2, <2>1, <2>2
<1>4. \A j \in DOMAIN sent \ {i} : AtWork(j)' <=> AtWork(j)
  <2>1. \A j \in DOMAIN sent \ {i} : j \in DOMAIN turns' <=> j \in DOMAIN turns
    OBVIOUS
  <2> QED
    BY <2>1 DEF AtWork
<1>5. Answered(i)' <=> (IsRequest(sent[i]) /\ ~AtWork(i)')
  <2>1. i \notin unread'
    OBVIOUS
  <2>2. ASSUME NEW r \in Results, Answer(i, r) PROVE answers'[i] # answers[i]
    BY <1>1, <1>3, <2>2
  <2> QED
    BY <1>1, <1>3, <2>1, <2>2 DEF Answered, AtWork
<1>6. \A j \in DOMAIN sent \ {i} : Answered(j)' <=> (IsRequest(sent[j]) /\ ~AtWork(j)')
  <2>1. DOMAIN sent \subseteq Ids
    BY <1>0, SentIds
  <2> QED
    BY <1>0, <1>3, <1>4, <2>1 DEF AnswersInv, AnsweredOnce, Answered
<1>7. Unanswered'
  BY <1>0, <1>1, <1>3 DEF AnswersInv, Unanswered
<1>8. AnsweredOnce'
  <2>1. \A j \in Ids : Len(answers'[j]) <= 1
    BY <1>0, <1>3 DEF AnswersInv, AnsweredOnce
  <2> QED
    BY <1>5, <1>6, <2>1 DEF AnsweredOnce
<1> QED
  BY <1>3, <1>7, <1>8 DEF AnswersInv

\* A handler begins no turn but that of its own message.
LEMMA HandledTurns ==
    ASSUME NEW i \in unread, HandleMessage(i), DOMAIN turns = {}
    PROVE  DOMAIN turns' = {} \/ DOMAIN turns' = {i}
BY DEF HandleMessage, Initialize, SessionNew, SessionPrompt, SessionCancel, SetMode, OtherMessage, Extended

\* A handler that starts no turn and cancels none.
LEMMA PlainStep ==
    ASSUME IInv, NEW i \in unread, unread' = unread \ {i}, UNCHANGED <<transport, input, posts, turns, cancelFuncs>>,
           initialized' \in BOOLEAN,
           mode' \in Seq(Modes), DOMAIN mode \subseteq DOMAIN mode', Len(mode') <= 1, 2 \in unread' => Len(mode') = 0,
           \/ IsRequest(sent[i]) /\ \E r \in Results : Answer(i, r)
           \/ ~ IsRequest(sent[i]) /\ answers' = answers
    PROVE  SentInv' /\ TurnsInv' /\ CancelsALiveTurn' /\ AnswersInv'
<1>1. SentInv'
  BY DEF IInv, SentInv, input
<1>2. TurnsInv' /\ CancelsALiveTurn'
  BY DEF IInv, TurnsInv, CancelsALiveTurn, IsRequest, input
<1>3. AnswersInv'
  BY HandledAnswers DEF input
<1> QED
  BY <1>1, <1>2, <1>3

\* A turn that begins is the one a cancel of its session is for.
LEMMA PromptStep ==
    ASSUME IInv, NEW i \in unread, unread' = unread \ {i}, UNCHANGED <<transport, input, posts>>, SessionPrompt(i)
    PROVE  SentInv' /\ TurnsInv' /\ CancelsALiveTurn' /\ AnswersInv'
<1> DEFINE s == sent[i].session
<1>0. SentInv /\ TurnsInv /\ AnswersInv /\ CancelsALiveTurn
  BY DEF IInv
<1>1. /\ i \in DOMAIN sent /\ i \notin DOMAIN turns /\ sent[i] \in Sent
      /\ IsRequest(sent[i]) /\ s \in Sessions
  <2>1. i \in DOMAIN sent /\ i \notin DOMAIN turns
    BY <1>0, UnreadFacts
  <2>2. sent[i] \in Sent
    BY <1>0, <2>1 DEF SentInv
  <2> QED
    BY <2>1, <2>2 DEF SessionPrompt, IsRequest, Sent
<1>2. mode' = mode /\ initialized' = initialized /\ sent' = sent
  BY DEF SessionPrompt, input
<1>3. CASE s \notin DOMAIN mode
  <2>1. Answer(i, "error") /\ UNCHANGED <<turns, cancelFuncs>>
    BY <1>3 DEF SessionPrompt
  <2>2. "error" \in Results
    BY DEF Results
  <2> QED
    BY <1>0, <1>1, <1>2, <2>1, <2>2, PlainStep DEF SentInv
<1>4. CASE s \in DOMAIN mode
  <2>1. PICK start \in Started : turns' = Extended(turns, i, Turn(s, start))
    BY <1>4 DEF SessionPrompt
  <2>2. cancelFuncs' = Extended(cancelFuncs, s, i) /\ answers' = answers
    BY <1>4 DEF SessionPrompt
  <2>3. /\ Turn(s, start) \in TurnType /\ Turn(s, start).session = s
        /\ Turn(s, start).phase # "returning"
    <3>1. start.phase \in {"announcing", "reporting"} /\ start.updates \in Nat /\ start.failed \in BOOLEAN
      <4>1. \/ start = [updates |-> 1, phase |-> "announcing", failed |-> FALSE]
            \/ start = [updates |-> 0, phase |-> "reporting", failed |-> FALSE]
            \/ start = [updates |-> 0, phase |-> "reporting", failed |-> TRUE]
        BY <2>1 DEF Started
      <4>2. start.phase \in {"announcing", "reporting"}
        BY <4>1
      <4>3. start.updates = 0 \/ start.updates = 1
        BY <4>1
      <4>4. start.failed \in BOOLEAN
        <5>1. start.failed = FALSE \/ start.failed = TRUE
          BY <4>1
        <5> QED
          BY <5>1
      <4> QED
        BY <4>2, <4>3, <4>4
    <3>2. (mode[s] = "query") \in BOOLEAN
      OBVIOUS
    <3> QED
      BY <1>1, <3>1, <3>2 DEF Turn, TurnType
  <2>4. /\ DOMAIN turns' = DOMAIN turns \cup {i} /\ turns'[i] = Turn(s, start)
        /\ \A j \in DOMAIN turns : turns'[j] = turns[j]
    BY <1>1, <2>1 DEF Extended
  <2>5. /\ DOMAIN cancelFuncs' = DOMAIN cancelFuncs \cup {s} /\ cancelFuncs'[s] = i
        /\ \A t \in DOMAIN cancelFuncs \ {s} : cancelFuncs'[t] = cancelFuncs[t]
    BY <2>2 DEF Extended
  <2> HIDE DEF s
  <2>6. CancelsALiveTurn'
    BY <1>0, <2>3, <2>4, <2>5 DEF CancelsALiveTurn
  <2>7. TurnsInv'
    <3>1. turns' = [j \in DOMAIN turns' |-> turns'[j]]
      BY <2>1 DEF Extended
    <3>2. turns' \in [DOMAIN turns' -> TurnType]
      BY <1>0, <2>3, <2>4, <3>1 DEF TurnsInv
    <3>3. DOMAIN turns' \subseteq DOMAIN sent' \ unread'
      BY <1>0, <1>1, <1>2, <2>4 DEF TurnsInv
    <3>4. \A j \in DOMAIN turns' : turns'[j].session \in DOMAIN mode' /\ IsRequest(sent'[j])
      BY <1>0, <1>1, <1>2, <1>4, <2>3, <2>4 DEF TurnsInv
    <3> QED
      BY <1>0, <1>2, <1>4, <2>5, <3>2, <3>3, <3>4 DEF TurnsInv
  <2>8. SentInv'
    BY <1>0, <1>2 DEF SentInv, input
  <2>9. AnswersInv'
    BY <1>1, <1>2, <2>2, <2>3, <2>4, HandledAnswers
  <2> QED
    BY <2>6, <2>7, <2>8, <2>9
<1> QED
  BY <1>3, <1>4

\* A cancel marks the turn its session points to and leaves all else alone.
LEMMA CancelStep ==
    ASSUME IInv, NEW i \in unread, unread' = unread \ {i}, UNCHANGED <<transport, input, posts>>, SessionCancel(i)
    PROVE  SentInv' /\ TurnsInv' /\ CancelsALiveTurn' /\ AnswersInv'
<1>0. SentInv /\ TurnsInv /\ AnswersInv /\ CancelsALiveTurn
  BY DEF IInv
<1>1. /\ mode' = mode /\ initialized' = initialized /\ sent' = sent /\ ~ IsRequest(sent[i])
      /\ answers' = answers /\ cancelFuncs' = cancelFuncs
  BY DEF SessionCancel, IsRequest, input
<1>2. \/ turns' = turns
      \/ \E j \in DOMAIN turns : turns' = [turns EXCEPT ![j].cancelled = TRUE]
  BY DEF SessionCancel
<1>3. /\ turns' \in [DOMAIN turns -> TurnType]
      /\ \A j \in DOMAIN turns : turns'[j].session = turns[j].session /\ turns'[j].phase = turns[j].phase
  <2>1. turns \in [DOMAIN turns -> TurnType]
    BY <1>0 DEF TurnsInv
  <2>2. ASSUME NEW j \in DOMAIN turns, turns' = [turns EXCEPT ![j].cancelled = TRUE]
        PROVE  /\ turns' \in [DOMAIN turns -> TurnType]
               /\ \A k \in DOMAIN turns : turns'[k].session = turns[k].session /\ turns'[k].phase = turns[k].phase
    BY <2>1, <2>2 DEF TurnType
  <2> QED
    BY <1>2, <2>1, <2>2
<1>4. DOMAIN turns' = DOMAIN turns
  BY <1>3
<1>5. TurnsInv' /\ CancelsALiveTurn'
  BY <1>0, <1>1, <1>3, <1>4 DEF TurnsInv, CancelsALiveTurn
<1>6. SentInv'
  BY <1>0, <1>1 DEF SentInv, input
<1>7. AnswersInv'
  BY <1>1, <1>3, <1>4, HandledAnswers
<1> QED
  BY <1>5, <1>6, <1>7

LEMMA HandleStep ==
    ASSUME IInv, NEW i \in unread, HandleMessage(i), UNCHANGED <<transport, input, posts>>
    PROVE  SentInv' /\ TurnsInv' /\ CancelsALiveTurn' /\ AnswersInv'
<1>0. SentInv /\ TurnsInv /\ i \in DOMAIN sent /\ {"ok", "error"} \subseteq Results
  BY UnreadFacts DEF IInv, Results
<1>1. unread' = unread \ {i}
  BY DEF HandleMessage
<1>2. CASE Initialize(i)
  <2>1. IsRequest(sent[i]) /\ UNCHANGED <<mode, turns, cancelFuncs>> /\ initialized' \in BOOLEAN /\ Answer(i, "ok")
    BY <1>2 DEF Initialize, IsRequest
  <2> QED
    BY <1>0, <1>1, <2>1, PlainStep DEF SentInv
<1>3. CASE SessionNew(i)
  <2>1. IsRequest(sent[i]) /\ i = 2 /\ UNCHANGED <<initialized, turns, cancelFuncs>>
    BY <1>0, <1>3 DEF SessionNew, IsRequest, SentInv
  <2>2. \E r \in Results : Answer(i, r)
    BY <1>0, <1>3 DEF SessionNew
  <2>3. mode \in Seq(Modes) /\ Len(mode) = 0 /\ DOMAIN mode = {}
    BY <1>0, <2>1 DEF SentInv
  <2>4. mode' = mode \/ mode' = Append(mode, "edit")
    BY <1>3 DEF SessionNew
  <2>5. mode' \in Seq(Modes) /\ Len(mode') <= 1
    <3>1. PICK m \in Modes : mode' = mode \/ mode' = Append(mode, m)
      BY <2>4 DEF Modes
    <3>2. Append(mode, m) \in Seq(Modes) /\ Len(Append(mode, m)) = Len(mode) + 1
      BY <2>3, AppendFacts
    <3> QED
      <4>1. Len(Append(mode, m)) <= 1
        BY <2>3, <3>2
      <4>2. CASE mode' = mode
        BY <2>3, <4>2
      <4>3. CASE mode' = Append(mode, m)
        BY <3>2, <4>1, <4>3
      <4> QED
        BY <3>1, <4>2, <4>3
  <2>6. 2 \notin unread'
    BY <1>1, <2>1
  <2> QED
    BY <1>0, <1>1, <2>1, <2>2, <2>3, <2>5, <2>6, PlainStep DEF SentInv
<1>4. CASE SessionPrompt(i)
  BY <1>1, <1>4, PromptStep
<1>5. CASE SessionCancel(i)
  BY <1>1, <1>5, CancelStep
<1>6. CASE SetMode(i)
  <2>1. IsRequest(sent[i]) /\ Answer(i, "ok") /\ UNCHANGED <<initialized, turns, cancelFuncs>>
    BY <1>6 DEF SetMode, IsRequest
  <2>2. mode' = [s \in DOMAIN mode |-> IF s = sent[i].session THEN sent[i].mode ELSE mode[s]]
    BY <1>6 DEF SetMode
  <2>3. mode \in Seq(Modes) /\ sent[i].mode \in Modes /\ DOMAIN mode = 1..Len(mode) /\ Len(mode) \in Nat
    <3>1. mode \in Seq(Modes) /\ sent[i] \in Sent
      BY <1>0 DEF SentInv
    <3> QED
      BY <3>1 DEF Sent
  <2>4. mode' \in [1..Len(mode) -> Modes]
    BY <2>2, <2>3
  <2>5. mode' \in Seq(Modes) /\ Len(mode') = Len(mode) /\ DOMAIN mode' = DOMAIN mode
    BY <2>3, <2>4
  <2> QED
    BY <1>0, <1>1, <2>1, <2>5, PlainStep DEF SentInv
<1>7. CASE OtherMessage(i)
  BY <1>0, <1>1, <1>7, PlainStep DEF OtherMessage, SentInv
<1> QED
  BY <1>2, <1>3, <1>4, <1>5, <1>6, <1>7 DEF HandleMessage

-----------------------------------------------------------------------------
(* The steps of a turn.                                                      *)

\* What a step leaves of the turns that go on.
LEMMA TurnsGoOn ==
    ASSUME IInv, UNCHANGED <<transport, input, unread, initialized, mode, posts, loop, cancelFuncs>>,
           turns' \in [DOMAIN turns -> TurnType],
           \A j \in DOMAIN turns : turns'[j].session = turns[j].session,
           AnswersInv'
    PROVE  IInv'
<1>0. SentInv /\ TurnsInv /\ LoopInv /\ CancelsALiveTurn
  BY DEF IInv
<1>1. DOMAIN turns' = DOMAIN turns /\ sent' = sent
  BY DEF input
<1>2. TurnsInv'
  BY <1>0, <1>1 DEF TurnsInv, IsRequest
<1>3. CancelsALiveTurn' /\ LoopInv'
  BY <1>0, <1>1 DEF CancelsALiveTurn, LoopInv
<1>4. SentInv'
  BY <1>0 DEF SentInv, input
<1> QED
  BY <1>2, <1>3, <1>4 DEF IInv

\* Without an answer, and with the same turns at their end.
LEMMA QuietStep ==
    ASSUME IInv, UNCHANGED <<transport, input, unread, initialized, mode, posts, loop, cancelFuncs, answers>>,
           turns' \in [DOMAIN turns -> TurnType],
           \A j \in DOMAIN turns : /\ turns'[j].session = turns[j].session
                                   /\ (turns'[j].phase = "returning" <=> turns[j].phase = "returning")
    PROVE  IInv'
<1>1. DOMAIN turns' = DOMAIN turns /\ sent' = sent
  BY DEF input
<1>2. AnswersInv'
  BY <1>1 DEF IInv, AnswersInv, AnsweredOnce, Answered, AtWork, Unanswered
<1> QED
  BY <1>2, TurnsGoOn

LEMMA RespondStep ==
    ASSUME IInv, NEW i \in DOMAIN turns, UNCHANGED <<transport, input, unread, initialized, mode, posts>>, Respond(i)
    PROVE  IInv'
<1>0. SentInv /\ TurnsInv /\ AnswersInv
  BY DEF IInv
<1>1. /\ turns[i].phase = "reporting" /\ turns' = [turns EXCEPT ![i].phase = "returning"]
      /\ sent' = sent /\ loop' = loop /\ cancelFuncs' = cancelFuncs
  BY DEF Respond, Reported, input
<1>2. turns \in [DOMAIN turns -> TurnType] /\ i \in DOMAIN sent /\ i \notin unread /\ IsRequest(sent[i]) /\ i \in Ids
  BY <1>0, SentIds DEF TurnsInv
<1>3. PICK r \in Results : Answer(i, r)
  BY DEF Respond, Results
<1>4. answers[i] = <<>>
  BY <1>0, <1>1, <1>2 DEF AnswersInv, AnsweredOnce, Answered, AtWork
<1>5. answers \in [Ids -> Seq(Results)]
  BY <1>0 DEF AnswersInv
<1>6. /\ answers' \in [Ids -> Seq(Results)] /\ answers'[i] # <<>> /\ Len(answers'[i]) <= 1
      /\ \A j \in Ids \ {i} : answers'[j] = answers[j]
  <2>1. Len(answers[i]) = 0
    BY <1>4
  <2>2. Len(answers'[i]) = Len(answers[i]) + 1
    BY <1>2, <1>3, <1>5, AnswerFacts
  <2>3. Len(answers'[i]) <= 1
    BY <2>1, <2>2
  <2> QED
    BY <1>2, <1>3, <1>5, <2>3, AnswerFacts
<1>7. /\ turns' \in [DOMAIN turns -> TurnType] /\ DOMAIN turns' = DOMAIN turns
      /\ \A j \in DOMAIN turns : turns'[j].session = turns[j].session
      /\ turns'[i].phase = "returning" /\ \A j \in DOMAIN turns \ {i} : turns'[j] = turns[j]
  BY <1>1, <1>2 DEF TurnType
<1>8. AnsweredOnce'
  <2>1. DOMAIN sent \subseteq Ids
    BY <1>0, SentIds
  <2>2. \A j \in DOMAIN sent \ {i} : Answered(j)' <=> (IsRequest(sent[j]) /\ ~AtWork(j)')
    BY <1>0, <1>6, <1>7, <2>1 DEF AnswersInv, AnsweredOnce, Answered, AtWork
  <2>3. Answered(i)' /\ IsRequest(sent[i]) /\ ~AtWork(i)'
    BY <1>2, <1>6, <1>7 DEF Answered, AtWork
  <2>4. \A j \in Ids : Len(answers'[j]) <= 1
    BY <1>0, <1>6 DEF AnswersInv, AnsweredOnce
  <2> QED
    BY <1>1, <2>2, <2>3, <2>4 DEF AnsweredOnce
<1>9. AnswersInv'
  BY <1>0, <1>1, <1>2, <1>6, <1>8 DEF AnswersInv, Unanswered
<1> QED
  BY <1>1, <1>7, <1>9, TurnsGoOn

\* The turn that returns takes the cancel function of its session with it, its
\* own or a later turn's: what is left points to turns of other sessions.
LEMMA ReturnStep ==
    ASSUME IInv, NEW i \in DOMAIN turns, UNCHANGED <<transport, input, unread, initialized, mode, posts>>,
           loop # "stopped", Return(i)
    PROVE  IInv'
<1>0. SentInv /\ TurnsInv /\ AnswersInv /\ LoopInv /\ CancelsALiveTurn
  BY DEF IInv
<1>1. /\ turns[i].phase = "returning" /\ turns' = Without(turns, i) /\ answers' = answers
      /\ cancelFuncs' = Without(cancelFuncs, turns[i].session)
      /\ loop' = IF loop = "handle" THEN "check" ELSE loop
      /\ sent' = sent /\ transport' = transport /\ mode' = mode
  BY DEF Return, input
<1>2. /\ DOMAIN turns' = DOMAIN turns \ {i} /\ \A j \in DOMAIN turns' : turns'[j] = turns[j]
      /\ turns' = [j \in DOMAIN turns' |-> turns'[j]]
  BY <1>1 DEF Without
<1>3. /\ DOMAIN cancelFuncs' = DOMAIN cancelFuncs \ {turns[i].session}
      /\ \A s \in DOMAIN cancelFuncs' : cancelFuncs'[s] = cancelFuncs[s]
  BY <1>1 DEF Without
<1>4. TurnsInv'
  <2>1. turns' \in [DOMAIN turns' -> TurnType]
    BY <1>0, <1>2 DEF TurnsInv
  <2> QED
    BY <1>0, <1>1, <1>2, <1>3, <2>1 DEF TurnsInv
<1>5. CancelsALiveTurn'
  BY <1>0, <1>2, <1>3 DEF CancelsALiveTurn
<1>6. LoopInv'
  BY <1>0, <1>1, <1>2 DEF LoopInv
<1>7. AnswersInv'
  <2>1. \A j \in DOMAIN sent : AtWork(j)' <=> AtWork(j)
    BY <1>0, <1>1, <1>2 DEF AtWork, TurnsInv
  <2> QED
    BY <1>0, <1>1, <2>1 DEF AnswersInv, AnsweredOnce, Answered, Unanswered
<1>8. SentInv'
  BY <1>0 DEF SentInv, input
<1> QED
  BY <1>4, <1>5, <1>6, <1>7, <1>8 DEF IInv

LEMMA TurnStepStep == ASSUME IInv, NEW i \in Ids, TurnStep(i) PROVE IInv'
<1>0. /\ i \in DOMAIN turns /\ loop # "stopped"
      /\ UNCHANGED <<transport, input, unread, initialized, mode, posts>>
      /\ turns \in [DOMAIN turns -> TurnType]
  BY DEF TurnStep, IInv, TurnsInv
<1>1. CASE Emit(i)
  <2>1. /\ turns' = [turns EXCEPT ![i].updates = @ - 1] /\ UNCHANGED <<loop, cancelFuncs, answers>>
        /\ turns[i].updates > 0
    BY <1>1 DEF Emit
  <2>2. turns[i].updates \in Nat
    BY <1>0 DEF TurnType
  <2>3. turns[i].updates - 1 \in Nat
    BY <2>1, <2>2
  <2>4. /\ turns' \in [DOMAIN turns -> TurnType]
        /\ \A j \in DOMAIN turns : turns'[j].session = turns[j].session /\ turns'[j].phase = turns[j].phase
    BY <1>0, <2>1, <2>3 DEF TurnType
  <2> QED
    BY <1>0, <2>1, <2>4, QuietStep
<1>2. CASE Work(i)
  <2>1. PICK failed \in BOOLEAN, k \in {0, 1} :
          turns' = [turns EXCEPT ![i] = [@ EXCEPT !.phase = "reporting", !.failed = failed, !.updates = k]]
    BY <1>2 DEF Work, Working
  <2>2. turns[i].phase = "announcing" /\ UNCHANGED <<loop, cancelFuncs, answers>>
    BY <1>2 DEF Work, Working
  <2>3. k \in Nat
    OBVIOUS
  <2>4. /\ turns' \in [DOMAIN turns -> TurnType]
        /\ \A j \in DOMAIN turns : /\ turns'[j].session = turns[j].session
                                   /\ (turns'[j].phase = "returning" <=> turns[j].phase = "returning")
    <3>1. turns'[i] \in TurnType /\ turns'[i].session = turns[i].session /\ turns'[i].phase = "reporting"
      BY <1>0, <2>1, <2>3 DEF TurnType
    <3>2. DOMAIN turns' = DOMAIN turns /\ \A j \in DOMAIN turns \ {i} : turns'[j] = turns[j]
      BY <1>0, <2>1
    <3>3. turns' \in [DOMAIN turns -> TurnType]
      BY <1>0, <2>1, <3>1
    <3> QED
      BY <2>2, <3>1, <3>2, <3>3
  <2> QED
    BY <1>0, <2>2, <2>4, QuietStep
<1>3. CASE TellError(i)
  <2>1. /\ turns' = [turns EXCEPT ![i].updates = 1, ![i].failed = FALSE]
        /\ UNCHANGED <<loop, cancelFuncs, answers>>
    BY <1>3 DEF TellError
  <2>2. /\ turns' \in [DOMAIN turns -> TurnType]
        /\ \A j \in DOMAIN turns : turns'[j].session = turns[j].session /\ turns'[j].phase = turns[j].phase
    BY <1>0, <2>1 DEF TurnType
  <2> QED
    BY <1>0, <2>1, <2>2, QuietStep
<1>4. CASE Respond(i)
  BY <1>0, <1>4, RespondStep
<1>5. CASE Return(i)
  BY <1>0, <1>5, ReturnStep
<1> QED
  BY <1>1, <1>2, <1>3, <1>4, <1>5 DEF TurnStep

-----------------------------------------------------------------------------
(* The step of a message: read by the loop, or dispatched by a goroutine.    *)

LEMMA SmallestExists ==
    ASSUME NEW S \in SUBSET Nat, S # {}
    PROVE  \E j \in S : \A k \in S : j <= k
<1>1. PICK j \in S : \A k \in S : ~ (<<k, j>> \in OpToRel(<, Nat))
  BY NatLessThanWellFounded, WFMin
<1>2. \A k \in S : ~ (k < j)
  BY <1>1 DEF OpToRel
<1> QED
  BY <1>2

\* The message the loop reads is one the client sent.
LEMMA FirstUnread == ASSUME IInv, unread # {} PROVE (CHOOSE j \in unread : \A k \in unread : j <= k) \in unread
<1>1. unread \subseteq Nat
  BY DEF IInv, SentInv
<1>2. \E j \in unread : \A k \in unread : j <= k
  BY <1>1, SmallestExists
<1> QED
  BY <1>2

LEMMA ReadStep == ASSUME IInv, Read PROVE IInv'
<1>1. PICK i \in unread : /\ HandleMessage(i)
                         /\ loop' = IF i \in DOMAIN turns' THEN "handle" ELSE "check"
  BY FirstUnread DEF Read
<1>2. loop = "read" /\ UNCHANGED <<transport, input, posts>>
  BY DEF Read
<1>3. SentInv' /\ TurnsInv' /\ CancelsALiveTurn' /\ AnswersInv'
  BY <1>1, <1>2, HandleStep
<1>4. LoopInv'
  <2>1. transport = "stdio" /\ DOMAIN turns = {}
    BY <1>2 DEF IInv, LoopInv, SentInv
  <2>2. i \in DOMAIN sent /\ sent' = sent
    BY <1>2 DEF IInv, SentInv, input
  <2>3. DOMAIN turns' = {} \/ DOMAIN turns' = {i}
    BY <1>1, <2>1, HandledTurns
  <2> QED
    BY <1>1, <1>2, <2>1, <2>2, <2>3 DEF LoopInv
<1> QED
  BY <1>3, <1>4 DEF IInv

LEMMA DispatchStep == ASSUME IInv, NEW i \in Ids, Dispatch(i) PROVE IInv'
<1>1. i \in unread /\ HandleMessage(i) /\ loop = "serve" /\ UNCHANGED <<transport, input, posts, loop>>
  BY DEF Dispatch
<1>2. SentInv' /\ TurnsInv' /\ CancelsALiveTurn' /\ AnswersInv'
  BY <1>1, HandleStep
<1>3. LoopInv'
  BY <1>1 DEF IInv, LoopInv
<1> QED
  BY <1>2, <1>3 DEF IInv

\* The inductive invariant of the server.
THEOREM Invariance == Spec => []IInv
<1>1. IInv /\ [Next]_vars => IInv'
  <2> SUFFICES ASSUME IInv, [Next]_vars PROVE IInv'
    OBVIOUS
  <2>1. CASE Send
    BY <2>1, SendStep
  <2>2. CASE Read
    BY <2>2, ReadStep
  <2>3. ASSUME NEW i \in Ids, TurnStep(i) PROVE IInv'
    BY <2>3, TurnStepStep
  <2>4. ASSUME NEW i \in Ids, Dispatch(i) PROVE IInv'
    BY <2>4, DispatchStep
  <2>5. CASE \/ Signal \/ CloseStdin \/ Check \/ ReadEOF \/ Shutdown
             \/ (\E i \in Ids : EndPost(i))
             \/ (\E u \in Subscribers : Subscribe(u) \/ Deliver(u) \/ Unsubscribe(u))
             \/ UNCHANGED vars
    BY <2>5, LoopStep
  <2> QED
    BY <2>1, <2>2, <2>3, <2>4, <2>5 DEF Next
<1> QED
  BY <1>1, InitIInv, PTL DEF Spec

\* Over stdio at most one turn runs, and none when the loop has stopped; no
\* turn and no cancel function is of a session that does not exist.
THEOREM TypeCorrect == Spec => []TypeOK
<1>1. IInv => TypeOK
  <2> SUFFICES ASSUME IInv PROVE TypeOK
    OBVIOUS
  <2>0. SentInv /\ TurnsInv /\ LoopInv /\ DOMAIN sent = 1..Len(sent)
    BY SentIds DEF IInv
  <2>1. Len(mode) <= MaxSessions /\ Range(mode) \subseteq Modes
    <3>1. mode \in Seq(Modes) /\ Len(mode) \in Nat /\ Len(mode) <= 1
      BY <2>0 DEF SentInv
    <3>2. MaxSessions \in Nat /\ MaxSessions >= 1
      BY Bounds
    <3>3. Len(mode) <= MaxSessions
      BY <3>1, <3>2
    <3>4. \A s \in DOMAIN mode : mode[s] \in Modes
      BY <3>1
    <3> QED
      BY <3>3, <3>4 DEF Range
  <2>2. ASSUME transport = "stdio"
        PROVE  Cardinality(DOMAIN turns) <= 1 /\ (loop = "stopped" => turns = NoTurns)
    <3>1. DOMAIN turns = {} \/ \E i : DOMAIN turns = {i}
      BY <2>0, <2>2 DEF LoopInv
    <3>2. Cardinality(DOMAIN turns) = 0 \/ Cardinality(DOMAIN turns) = 1
      BY <3>1, FS_EmptySet, FS_Singleton
    <3>3. loop = "stopped" => DOMAIN turns = {}
      BY <2>0, <2>2 DEF LoopInv
    <3>4. turns = [i \in DOMAIN turns |-> turns[i]]
      BY <2>0 DEF TurnsInv
    <3>5. DOMAIN turns = {} => turns = NoTurns
      BY <3>4 DEF NoTurns
    <3> QED
      BY <3>2, <3>3, <3>5
  <2> QED
    BY <2>0, <2>1, <2>2 DEF SentInv, TurnsInv, LoopInv, TypeOK
<1> QED
  BY <1>1, Invariance, PTL

\* However handlers, turns and goroutines overlap, a message gets one response
\* at most, a call has it when nobody works on it, and a notification none.
THEOREM AnsweredOnceAlways == Spec => []AnsweredOnce
BY Invariance, PTL DEF IInv, AnswersInv

\* handleSessionCancel never calls the function of a turn that has returned,
\* though overlapping turns overwrite and delete each other's.
THEOREM CancelsALiveTurnAlways == Spec => []CancelsALiveTurn
BY Invariance, PTL DEF IInv

-----------------------------------------------------------------------------
(* The streams of the subscribers.                                           *)

Events == [Sessions -> Nat]
StreamType == [topics : SUBSET Sessions, buffer : Seq(Sessions \X Nat), last : Events, full : BOOLEAN]

\* A stream holds updates of its topics that its subscriber has not read, in
\* their order; it misses none before its channel has been full.
StreamOK(stream, ev) ==
    LET held == stream.buffer IN
    /\ Len(held) <= Capacity /\ (Len(held) = Capacity => stream.full)
    /\ \A s \in Sessions : stream.last[s] <= ev[s]
    /\ \A m \in DOMAIN held : /\ held[m][1] \in stream.topics
                              /\ stream.last[held[m][1]] < held[m][2] /\ held[m][2] <= ev[held[m][1]]
    /\ \A m, n \in DOMAIN held : m < n /\ held[m][1] = held[n][1] => held[m][2] < held[n][2]
    /\ ~ stream.full => \A s \in stream.topics : \A k \in Nat :
         stream.last[s] < k /\ k <= ev[s] => \E m \in DOMAIN held : held[m] = <<s, k>>

StreamInv ==
    /\ events \in Events
    /\ streams \in [Subscribers -> StreamType \cup {NoStream, Gone}]
    /\ \A u \in Subscribers : Open(streams[u]) => StreamOK(streams[u], events)

Next1(ev, s) == [ev EXCEPT ![s] = @ + 1]

LEMMA Next1Facts ==
    ASSUME NEW ev \in Events, NEW s \in Sessions
    PROVE  /\ Next1(ev, s) \in Events /\ Next1(ev, s)[s] = ev[s] + 1 /\ ev[s] \in Nat
           /\ \A t \in Sessions \ {s} : Next1(ev, s)[t] = ev[t]
           /\ \A t \in Sessions : ev[t] \in Nat /\ ev[t] <= Next1(ev, s)[t]
BY DEF Events, Next1

\* What a stream holds, entry by entry.
LEMMA StreamFacts ==
    ASSUME NEW stream \in StreamType
    PROVE  /\ stream.buffer \in Seq(Sessions \X Nat) /\ stream.topics \subseteq Sessions
           /\ stream.last \in Events /\ \A s \in Sessions : stream.last[s] \in Nat
           /\ DOMAIN stream.buffer = 1..Len(stream.buffer) /\ Len(stream.buffer) \in Nat
           /\ \A m \in DOMAIN stream.buffer : /\ stream.buffer[m] = <<stream.buffer[m][1], stream.buffer[m][2]>>
                                              /\ stream.buffer[m][1] \in Sessions /\ stream.buffer[m][2] \in Nat
<1>1. stream.buffer \in Seq(Sessions \X Nat) /\ stream.topics \subseteq Sessions /\ stream.last \in Events
  BY DEF StreamType
<1>2. \A m \in DOMAIN stream.buffer : stream.buffer[m] \in Sessions \X Nat
  BY <1>1
<1>3. \A m \in DOMAIN stream.buffer : /\ stream.buffer[m] = <<stream.buffer[m][1], stream.buffer[m][2]>>
                                      /\ stream.buffer[m][1] \in Sessions /\ stream.buffer[m][2] \in Nat
  BY <1>2
<1> QED
  BY <1>1, <1>3 DEF Events

\* An update that a stream drops, not listening to its session or being full.
LEMMA DroppedUpdate ==
    ASSUME NEW stream \in StreamType, NEW ev \in Events, NEW s \in Sessions, StreamOK(stream, ev),
           s \notin stream.topics \/ ~ (Len(stream.buffer) < Capacity)
    PROVE  StreamOK(stream, Next1(ev, s))
<1>0. /\ \A t \in Sessions : /\ ev[t] \in Nat /\ Next1(ev, s)[t] \in Nat /\ ev[t] <= Next1(ev, s)[t]
                             /\ stream.last[t] \in Nat
      /\ \A m \in DOMAIN stream.buffer : stream.buffer[m][1] \in Sessions /\ stream.buffer[m][2] \in Nat
  BY StreamFacts, Next1Facts DEF Events
<1>1. ASSUME NEW m \in DOMAIN stream.buffer
      PROVE  stream.buffer[m][2] <= Next1(ev, s)[stream.buffer[m][1]]
  <2>1. stream.buffer[m][2] <= ev[stream.buffer[m][1]]
    BY DEF StreamOK
  <2> QED
    BY <1>0, <2>1
<1>2. ASSUME s \in stream.topics PROVE stream.full
  <2>1. Len(stream.buffer) = Capacity
    BY <1>2, StreamFacts, BoundsAssumption DEF StreamOK
  <2> QED
    BY <2>1 DEF StreamOK
<1>3. ASSUME s \notin stream.topics PROVE \A t \in stream.topics : Next1(ev, s)[t] = ev[t]
  BY <1>3, StreamFacts, Next1Facts
<1>5. ASSUME NEW t \in Sessions PROVE stream.last[t] <= Next1(ev, s)[t]
  <2>1. stream.last[t] <= ev[t]
    BY DEF StreamOK
  <2> QED
    BY <1>0, <2>1
<1>4. ASSUME ~ stream.full
      PROVE \A t \in stream.topics : \A k \in Nat :
         stream.last[t] < k /\ k <= Next1(ev, s)[t] => \E m \in DOMAIN stream.buffer : stream.buffer[m] = <<t, k>>
  BY <1>2, <1>3, <1>4 DEF StreamOK
<1> QED
  BY <1>1, <1>4, <1>5 DEF StreamOK

\* An update that a stream takes.
Taken(stream, s, n) ==
    [stream EXCEPT !.buffer = Append(@, <<s, n>>), !.full = @ \/ Len(stream.buffer) + 1 = Capacity]

LEMMA TakenUpdate ==
    ASSUME NEW stream \in StreamType, NEW ev \in Events, NEW s \in Sessions, StreamOK(stream, ev),
           s \in stream.topics, Len(stream.buffer) < Capacity
    PROVE  /\ Taken(stream, s, ev[s] + 1) \in StreamType
           /\ StreamOK(Taken(stream, s, ev[s] + 1), Next1(ev, s))
<1> DEFINE n == ev[s] + 1
           held == stream.buffer
           after == Taken(stream, s, n)
<1>1. ev[s] \in Nat /\ n \in Nat /\ <<s, n>> \in Sessions \X Nat
  BY Next1Facts
<1>2. held \in Seq(Sessions \X Nat) /\ Len(held) \in Nat /\ DOMAIN held = 1..Len(held)
  BY StreamFacts
<1>3. /\ Append(held, <<s, n>>) \in Seq(Sessions \X Nat) /\ Len(Append(held, <<s, n>>)) = Len(held) + 1
      /\ DOMAIN Append(held, <<s, n>>) = 1..Len(held) + 1
      /\ \A m \in 1..Len(held) : Append(held, <<s, n>>)[m] = held[m]
      /\ Append(held, <<s, n>>)[Len(held) + 1] = <<s, n>>
  <2> HIDE DEF held, n
  <2> QED
    BY <1>1, <1>2
<1>4. /\ after.topics = stream.topics /\ after.last = stream.last
      /\ after.buffer = Append(held, <<s, n>>)
      /\ after.full = (stream.full \/ Len(held) + 1 = Capacity)
      /\ after \in StreamType
  <2>1. stream.full \in BOOLEAN /\ (stream.full \/ Len(held) + 1 = Capacity) \in BOOLEAN
    BY DEF StreamType
  <2> HIDE DEF n
  <2> QED
    BY <1>3, <2>1 DEF Taken, StreamType
<1> HIDE DEF after, held, n
<1>5. DEFINE buf == after.buffer
<1>6. /\ Len(buf) = Len(held) + 1 /\ DOMAIN buf = 1..Len(held) + 1
      /\ \A m \in DOMAIN held : m \in DOMAIN buf /\ m <= Len(held) /\ buf[m] = held[m]
      /\ buf[Len(held) + 1] = <<s, n>> /\ Len(held) + 1 \in DOMAIN buf
      /\ \A m \in DOMAIN buf : m \in DOMAIN held \/ m = Len(held) + 1
  BY <1>2, <1>3, <1>4
<1> HIDE DEF buf
<1>7. Len(buf) <= Capacity /\ (Len(buf) = Capacity => after.full)
  <2>1. Len(held) < Capacity /\ Capacity \in Nat
    BY BoundsAssumption DEF held
  <2>2. Len(held) + 1 = Capacity => after.full
    BY <1>4
  <2> QED
    BY <1>2, <1>6, <2>1, <2>2
<1>8. ASSUME NEW m \in DOMAIN buf
      PROVE  /\ buf[m][1] \in after.topics
             /\ after.last[buf[m][1]] < buf[m][2] /\ buf[m][2] <= Next1(ev, s)[buf[m][1]]
  <2>1. CASE m \in DOMAIN held
    <3>1. /\ held[m][1] \in stream.topics /\ stream.last[held[m][1]] < held[m][2]
          /\ held[m][2] <= ev[held[m][1]]
      BY <2>1 DEF StreamOK, held
    <3>2. held[m][1] \in Sessions /\ held[m][2] \in Nat
      BY <2>1, StreamFacts DEF held
    <3>3. held[m][2] <= Next1(ev, s)[held[m][1]]
      BY <3>1, <3>2, Next1Facts
    <3> QED
      BY <1>4, <1>6, <2>1, <3>1, <3>3
  <2>2. CASE m = Len(held) + 1
    <3>1. buf[m][1] = s /\ buf[m][2] = n
      BY <1>6, <2>2
    <3>2. stream.last[s] <= ev[s] /\ stream.last[s] \in Nat
      BY StreamFacts DEF StreamOK
    <3> QED
      BY <1>1, <1>4, <3>1, <3>2, Next1Facts DEF n
  <2> QED
    BY <1>6, <2>1, <2>2
<1>9. ASSUME NEW m \in DOMAIN buf, NEW k \in DOMAIN buf, m < k, buf[m][1] = buf[k][1] PROVE buf[m][2] < buf[k][2]
  <2>1. m \in DOMAIN held /\ held[m][2] \in Nat
    BY <1>2, <1>6, <1>9, StreamFacts DEF held
  <2>2. CASE k \in DOMAIN held
    BY <1>6, <1>9, <2>1, <2>2 DEF StreamOK, held
  <2>3. CASE k = Len(held) + 1
    <3>1. buf[k][1] = s /\ buf[k][2] = n
      BY <1>6, <2>3
    <3>2. held[m][1] = s /\ held[m][2] <= ev[s]
      BY <1>6, <1>9, <2>1, <3>1 DEF StreamOK, held
    <3> QED
      BY <1>1, <1>6, <2>1, <3>1, <3>2 DEF n
  <2> QED
    BY <1>6, <2>2, <2>3
<1>10. ASSUME ~ after.full, NEW t \in after.topics, NEW k \in Nat, after.last[t] < k, k <= Next1(ev, s)[t]
       PROVE  \E m \in DOMAIN buf : buf[m] = <<t, k>>
  <2>1. ~ stream.full /\ t \in stream.topics /\ t \in Sessions /\ stream.last[t] < k
    BY <1>4, <1>10, StreamFacts
  <2>2. CASE k <= ev[t]
    <3>1. PICK m \in DOMAIN held : held[m] = <<t, k>>
      BY <1>10, <2>1, <2>2 DEF StreamOK, held
    <3> QED
      BY <1>6, <3>1
  <2>3. CASE ~ (k <= ev[t])
    <3>1. t = s /\ k = n
      BY <1>1, <1>10, <2>1, <2>3, Next1Facts DEF n
    <3> QED
      BY <1>6, <3>1
  <2> QED
    BY <2>2, <2>3
<1>11. ASSUME NEW t \in Sessions PROVE after.last[t] <= Next1(ev, s)[t]
  <2>1. stream.last[t] <= ev[t] /\ stream.last[t] \in Nat
    BY StreamFacts DEF StreamOK
  <2>2. ev[t] \in Nat /\ Next1(ev, s)[t] \in Nat /\ ev[t] <= Next1(ev, s)[t]
    BY Next1Facts DEF Events
  <2> QED
    BY <1>4, <2>1, <2>2
<1>12. StreamOK(after, Next1(ev, s))
  BY <1>7, <1>8, <1>9, <1>10, <1>11 DEF StreamOK, buf
<1> QED
  BY <1>4, <1>12 DEF after, n

\* The subscriber reads the first update its stream holds.
LEMMA DeliveredUpdate ==
    ASSUME NEW stream \in StreamType, NEW ev \in Events, StreamOK(stream, ev), stream.buffer # <<>>
    PROVE  Delivered(stream) \in StreamType /\ StreamOK(Delivered(stream), ev)
<1> DEFINE held == stream.buffer
           s == held[1][1]
           n == held[1][2]
           after == Delivered(stream)
<1>1. held \in Seq(Sessions \X Nat) /\ Len(held) \in Nat /\ DOMAIN held = 1..Len(held) /\ held # <<>>
  BY StreamFacts
<1>2. /\ 1 \in DOMAIN held /\ Head(held) = held[1] /\ Len(held) >= 1
      /\ Tail(held) \in Seq(Sessions \X Nat) /\ Len(Tail(held)) = Len(held) - 1
      /\ DOMAIN Tail(held) = 1..Len(held) - 1
      /\ \A m \in 1..Len(held) - 1 : Tail(held)[m] = held[m + 1]
  <2> HIDE DEF held
  <2> QED
    BY <1>1
<1>3. s \in Sessions /\ n \in Nat /\ held[1] = <<s, n>>
  BY <1>2, StreamFacts
<1>4. s \in stream.topics /\ stream.last[s] < n /\ n <= ev[s]
  BY <1>2 DEF StreamOK
<1>5. /\ after.topics = stream.topics /\ after.full = stream.full /\ after.buffer = Tail(held)
      /\ after.last = [stream.last EXCEPT ![s] = n] /\ after \in StreamType
  <2>1. stream.last \in Events
    BY DEF StreamType
  <2>2. [stream.last EXCEPT ![s] = n] \in Events
    BY <1>3, <2>1 DEF Events
  <2>3. Head(stream.buffer) = held[1]
    BY <1>2
  <2>4. after = [stream EXCEPT !.buffer = Tail(held), !.last = [stream.last EXCEPT ![s] = n]]
    BY <2>3 DEF Delivered, StreamType
  <2> HIDE DEF after, held, s, n
  <2> QED
    BY <1>2, <2>2, <2>4 DEF StreamType
<1>6. /\ after.last[s] = n /\ \A t \in Sessions \ {s} : after.last[t] = stream.last[t]
      /\ \A t \in Sessions : stream.last[t] \in Nat
  BY <1>3, <1>5, StreamFacts DEF Events
<1> DEFINE buf == after.buffer
<1>7. /\ Len(buf) = Len(held) - 1 /\ DOMAIN buf = 1..Len(held) - 1
      /\ \A m \in DOMAIN buf : m + 1 \in DOMAIN held /\ m \in Nat /\ 1 < m + 1 /\ buf[m] = held[m + 1]
      /\ \A m \in DOMAIN held \ {1} : m - 1 \in DOMAIN buf /\ buf[m - 1] = held[m]
  <2>1. buf = Tail(held)
    BY <1>5
  <2> HIDE DEF after, held, buf
  <2>2. Len(buf) = Len(held) - 1 /\ DOMAIN buf = 1..Len(held) - 1
    BY <1>2, <2>1
  <2>3. \A m \in 1..Len(held) - 1 : m + 1 \in 1..Len(held) /\ m \in Nat /\ 1 < m + 1
    BY <1>1
  <2>4. \A m \in 1..Len(held) - 1 : buf[m] = held[m + 1]
    BY <1>2, <2>1
  <2>5. ASSUME NEW m \in DOMAIN held \ {1} PROVE m - 1 \in 1..Len(held) - 1 /\ (m - 1) + 1 = m
    BY <1>1
  <2> QED
    BY <1>1, <2>2, <2>3, <2>4, <2>5
<1> HIDE DEF after, held, s, n, buf
<1>8. Len(buf) <= Capacity /\ Len(buf) # Capacity
  BY <1>1, <1>7, BoundsAssumption DEF StreamOK, held
<1>9. \A m \in DOMAIN held : held[m][1] \in Sessions /\ held[m][2] \in Nat
  BY StreamFacts DEF held
<1>10. ASSUME NEW m \in DOMAIN buf
       PROVE  /\ buf[m][1] \in after.topics
              /\ after.last[buf[m][1]] < buf[m][2] /\ buf[m][2] <= ev[buf[m][1]]
  <2>1. m + 1 \in DOMAIN held /\ m + 1 > 1 /\ buf[m] = held[m + 1] /\ m + 1 \in Nat
    BY <1>7
  <2>2. /\ held[m + 1][1] \in stream.topics
        /\ stream.last[held[m + 1][1]] < held[m + 1][2] /\ held[m + 1][2] <= ev[held[m + 1][1]]
    BY <2>1 DEF StreamOK, held
  <2>3. held[m + 1][1] = s => n < held[m + 1][2]
    BY <1>2, <2>1 DEF StreamOK, held, s, n
  <2> QED
    BY <1>5, <1>6, <1>9, <2>1, <2>2, <2>3
<1>11. ASSUME NEW m \in DOMAIN buf, NEW k \in DOMAIN buf, m < k, buf[m][1] = buf[k][1] PROVE buf[m][2] < buf[k][2]
  <2>1. m + 1 \in DOMAIN held /\ k + 1 \in DOMAIN held /\ m + 1 < k + 1
    BY <1>7, <1>11
  <2> QED
    BY <1>7, <1>11, <2>1 DEF StreamOK, held
<1>12. ASSUME ~ after.full, NEW t \in after.topics, NEW k \in Nat, after.last[t] < k, k <= ev[t]
       PROVE  \E m \in DOMAIN buf : buf[m] = <<t, k>>
  <2>1. ~ stream.full /\ t \in stream.topics /\ t \in Sessions /\ stream.last[t] < k
    BY <1>3, <1>4, <1>5, <1>6, <1>12, StreamFacts
  <2>2. PICK m \in DOMAIN held : held[m] = <<t, k>>
    BY <1>12, <2>1 DEF StreamOK, held
  <2>3. m # 1
    BY <1>3, <1>6, <1>12, <2>2
  <2> QED
    BY <1>7, <2>2, <2>3
<1>13. \A t \in Sessions : after.last[t] <= ev[t]
  BY <1>4, <1>6 DEF StreamOK
<1>14. StreamOK(after, ev)
  BY <1>8, <1>10, <1>11, <1>12, <1>13 DEF StreamOK, buf
<1> QED
  BY <1>5, <1>14 DEF after

\* What a step leaves of every stream: itself, nothing, or what the lemmas allow.
LEMMA UpdateStep ==
    ASSUME StreamInv, NEW s \in Sessions, Update(s)
    PROVE  StreamInv'
<1>1. events' = Next1(events, s) /\ events \in Events /\ events' \in Events
  BY Next1Facts DEF Update, Next1, StreamInv
<1>2. streams \in [Subscribers -> StreamType \cup {NoStream, Gone}]
  BY DEF StreamInv
<1>3. ASSUME NEW u \in Subscribers
      PROVE  /\ streams'[u] \in StreamType \cup {NoStream, Gone}
             /\ Open(streams'[u]) => StreamOK(streams'[u], events')
  <2>1. streams'[u] = IF Listens(streams[u], s) /\ Len(streams[u].buffer) < Capacity
                      THEN Taken(streams[u], s, events[s] + 1) ELSE streams[u]
    BY DEF Update, FanOut, Taken
  <2>2. CASE ~ Open(streams[u])
    BY <1>2, <2>1, <2>2 DEF Listens
  <2>3. CASE Open(streams[u])
    <3>1. streams[u] \in StreamType /\ StreamOK(streams[u], events)
      BY <1>2, <2>3 DEF Open, StreamInv
    <3>2. CASE s \in streams[u].topics /\ Len(streams[u].buffer) < Capacity
      BY <1>1, <2>1, <2>3, <3>1, <3>2, TakenUpdate DEF Listens
    <3>3. CASE s \notin streams[u].topics \/ ~ (Len(streams[u].buffer) < Capacity)
      BY <1>1, <2>1, <2>3, <3>1, <3>3, DroppedUpdate DEF Listens
    <3> QED
      BY <3>2, <3>3
  <2> QED
    BY <2>2, <2>3
<1>4. streams' \in [Subscribers -> StreamType \cup {NoStream, Gone}]
  BY <1>3 DEF Update, FanOut
<1> QED
  BY <1>1, <1>3, <1>4 DEF StreamInv

\* A step that replaces the stream of one subscriber.
LEMMA OneStream ==
    ASSUME StreamInv, NEW u \in Subscribers, NEW stream,
           streams' = [streams EXCEPT ![u] = stream], events' = events,
           stream \in StreamType \cup {NoStream, Gone}, Open(stream) => StreamOK(stream, events)
    PROVE  StreamInv'
BY DEF StreamInv

LEMMA SubscriberStep ==
    ASSUME StreamInv, NEW u \in Subscribers, Subscribe(u) \/ Deliver(u) \/ Unsubscribe(u)
    PROVE  StreamInv'
<1>0. events \in Events /\ streams \in [Subscribers -> StreamType \cup {NoStream, Gone}] /\ events' = events
  BY DEF StreamInv, Subscribe, Deliver, Unsubscribe
<1>1. CASE Subscribe(u)
  <2>1. PICK topics \in SUBSET Sessions :
          streams' = [streams EXCEPT ![u] = [topics |-> topics, buffer |-> <<>>, last |-> events, full |-> FALSE]]
    BY <1>1 DEF Subscribe
  <2> DEFINE stream == [topics |-> topics, buffer |-> <<>>, last |-> events, full |-> FALSE]
  <2>2. stream \in StreamType
    <3>1. <<>> \in Seq(Sessions \X Nat)
      OBVIOUS
    <3> QED
      BY <1>0, <3>1 DEF StreamType
  <2>3. /\ stream.buffer = <<>> /\ Len(stream.buffer) = 0 /\ DOMAIN stream.buffer = {}
        /\ stream.last = events /\ stream.topics = topics
    OBVIOUS
  <2>4. \A s \in Sessions : events[s] \in Nat
    BY <1>0 DEF Events
  <2> HIDE DEF stream
  <2>5. StreamOK(stream, events)
    <3>1. \A t \in topics : \A k \in Nat : ~ (events[t] < k /\ k <= events[t])
      BY <2>4
    <3> QED
      BY <2>3, <2>4, <3>1, BoundsAssumption DEF StreamOK
  <2> QED
    BY <1>0, <2>1, <2>2, <2>5, OneStream DEF stream
<1>2. CASE Deliver(u)
  <2>1. Open(streams[u]) /\ streams[u].buffer # <<>> /\ streams[u] \in StreamType /\ StreamOK(streams[u], events)
    BY <1>0, <1>2 DEF Deliver, Open, StreamInv
  <2>2. streams' = [streams EXCEPT ![u] = Delivered(streams[u])]
    BY <1>2 DEF Deliver
  <2> QED
    BY <1>0, <2>1, <2>2, DeliveredUpdate, OneStream
<1>3. CASE Unsubscribe(u)
  BY <1>0, <1>3, OneStream DEF Unsubscribe, Open
<1> QED
  BY <1>1, <1>2, <1>3

\* A session is told of by its handlers and by its turns.
LEMMA HandlerStream ==
    ASSUME IInv, StreamInv, NEW i \in unread, HandleMessage(i)
    PROVE  StreamInv'
<1>1. CASE SessionNew(i)
  <2>1. i = 2 /\ Len(mode) = 0
    BY <1>1 DEF IInv, SentInv, SessionNew
  <2>2. Update(Len(mode) + 1) \/ NoUpdate
    BY <1>1 DEF SessionNew
  <2>3. Len(mode) + 1 \in Sessions
    BY <2>1, Bounds
  <2> QED
    BY <2>2, <2>3, UpdateStep DEF NoUpdate, StreamInv
<1>2. CASE NoUpdate
  BY <1>2 DEF NoUpdate, StreamInv
<1> QED
  BY <1>1, <1>2 DEF HandleMessage, Initialize, SessionPrompt, SessionCancel, SetMode, OtherMessage

LEMMA TurnStream ==
    ASSUME IInv, StreamInv, NEW i \in Ids, TurnStep(i)
    PROVE  StreamInv'
<1>1. i \in DOMAIN turns /\ turns[i].session \in Sessions
  BY DEF TurnStep, IInv, TurnsInv, TurnType
<1>2. Update(turns[i].session) \/ NoUpdate
  BY DEF TurnStep, Emit, Work, Working, TellError, Respond, Return
<1> QED
  BY <1>1, <1>2, UpdateStep DEF NoUpdate, StreamInv

LEMMA InitStreamInv == Init => StreamInv
<1> SUFFICES ASSUME Init PROVE StreamInv
  OBVIOUS
<1>1. events = [s \in Sessions |-> 0] /\ streams = [u \in Subscribers |-> NoStream]
  BY DEF Init
<1> QED
  BY <1>1 DEF StreamInv, Events, Open

\* Between FanOut, which counts an update and may drop it, and the client that reads,
\* each stream stays in step with the counters of its sessions' updates.
THEOREM StreamsInvariance == Spec => []StreamInv
<1>1. IInv /\ StreamInv /\ [Next]_vars => StreamInv'
  <2> SUFFICES ASSUME IInv, StreamInv, [Next]_vars PROVE StreamInv'
    OBVIOUS
  <2>1. CASE UNCHANGED <<events, streams>>
    BY <2>1 DEF StreamInv
  <2>2. ASSUME NEW i \in unread, HandleMessage(i) PROVE StreamInv'
    BY <2>2, HandlerStream
  <2>3. CASE Read
    BY <2>2, <2>3, FirstUnread DEF Read
  <2>4. ASSUME NEW i \in Ids, Dispatch(i) PROVE StreamInv'
    BY <2>2, <2>4 DEF Dispatch
  <2>5. ASSUME NEW i \in Ids, TurnStep(i) PROVE StreamInv'
    BY <2>5, TurnStream
  <2>6. ASSUME NEW u \in Subscribers, Subscribe(u) \/ Deliver(u) \/ Unsubscribe(u) PROVE StreamInv'
    BY <2>6, SubscriberStep
  <2> QED
    BY <2>1, <2>3, <2>4, <2>5, <2>6
    DEF Next, Send, Signal, CloseStdin, Check, ReadEOF, EndPost, Shutdown, vars
<1> QED
  BY <1>1, InitStreamInv, Invariance, PTL DEF Spec

\* Whatever is written and whoever comes and goes, a subscriber's channel holds
\* unread updates of its sessions in their order, and all of them until it has
\* once been full.
THEOREM StreamsAreFaithfulAlways == Spec => []StreamsAreFaithful
<1>1. StreamInv => StreamsAreFaithful
  <2> SUFFICES ASSUME StreamInv, NEW u \in Subscribers, Open(streams[u])
               PROVE  /\ Range(streams[u].buffer) \subseteq Unread(streams[u])
                      /\ \A m, n \in DOMAIN streams[u].buffer :
                           m < n /\ streams[u].buffer[m][1] = streams[u].buffer[n][1]
                             => streams[u].buffer[m][2] < streams[u].buffer[n][2]
                      /\ streams[u].full \/ Range(streams[u].buffer) = Unread(streams[u])
    BY DEF StreamsAreFaithful
  <2> DEFINE stream == streams[u]
             held == stream.buffer
  <2>1. stream \in StreamType /\ StreamOK(stream, events) /\ events \in Events
    BY DEF StreamInv, Open
  <2>2. Unread(stream) = UNION {{t} \X (stream.last[t] + 1 .. events[t]) : t \in stream.topics}
    BY <2>1, StreamFacts DEF Unread, Listens
  <2>3. Range(held) = {held[m] : m \in DOMAIN held}
    BY DEF Range
  <2> HIDE DEF held
  <2>4. \A t \in Sessions : stream.last[t] \in Nat /\ events[t] \in Nat
    BY <2>1, StreamFacts DEF Events
  <2>5. ASSUME NEW m \in DOMAIN held PROVE held[m] \in Unread(stream)
    <3>1. /\ held[m] = <<held[m][1], held[m][2]>> /\ held[m][1] \in Sessions /\ held[m][2] \in Nat
      BY <2>1, StreamFacts DEF held
    <3>2. /\ held[m][1] \in stream.topics
          /\ stream.last[held[m][1]] < held[m][2] /\ held[m][2] <= events[held[m][1]]
      BY <2>1 DEF StreamOK, held
    <3>3. held[m][2] \in stream.last[held[m][1]] + 1 .. events[held[m][1]]
      BY <2>4, <3>1, <3>2
    <3>4. held[m] \in {held[m][1]} \X (stream.last[held[m][1]] + 1 .. events[held[m][1]])
      BY <3>1, <3>3
    <3> QED
      BY <2>2, <3>2, <3>4
  <2>6. ASSUME ~ stream.full, NEW e \in Unread(stream) PROVE e \in Range(held)
    <3>1. PICK t \in stream.topics : e \in {t} \X (stream.last[t] + 1 .. events[t])
      BY <2>2
    <3>2. PICK k \in stream.last[t] + 1 .. events[t] : e = <<t, k>>
      BY <3>1
    <3>3. t \in Sessions
      BY <2>1, <3>1, StreamFacts
    <3>4. k \in Nat /\ stream.last[t] < k /\ k <= events[t]
      BY <2>4, <3>2, <3>3
    <3>5. PICK m \in DOMAIN held : held[m] = <<t, k>>
      BY <2>1, <2>6, <3>1, <3>4 DEF StreamOK, held
    <3> QED
      BY <2>3, <3>2, <3>5
  <2> QED
    BY <2>1, <2>3, <2>5, <2>6 DEF StreamOK, held
<1> QED
  BY <1>1, StreamsInvariance, PTL

-----------------------------------------------------------------------------
(* What ends a turn as "cancelled".                                          *)

Asked(messages, s) == \E j \in DOMAIN messages : messages[j].method = "session/cancel" /\ messages[j].session = s

CancelInv ==
    /\ \A i \in DOMAIN turns : /\ turns[i].session = sent[i].session
                               /\ turns[i].cancelled => transport = "http" /\ Asked(sent, sent[i].session)
    /\ CancelledForAReason

\* The reasons there were stay, and no answer becomes "cancelled".
LEMMA CancelledStays ==
    ASSUME IInv, CancelInv, transport' = transport, signalled => signalled',
           \A i \in DOMAIN sent : i \in DOMAIN sent' /\ sent'[i] = sent[i] /\ (i \in posts' => i \in posts),
           \A i \in Ids : "cancelled" \in Range(answers'[i]) => "cancelled" \in Range(answers[i])
    PROVE  CancelledForAReason' /\ \A s : Asked(sent, s) => Asked(sent', s)
<1>1. ASSUME NEW i \in Ids, "cancelled" \in Range(answers[i]) PROVE i \in DOMAIN sent
  <2>1. ASSUME i \notin DOMAIN sent PROVE FALSE
    <3>1. answers[i] = <<>>
      BY <2>1 DEF IInv, AnswersInv, Unanswered
    <3>2. Range(<<>>) = {}
      BY DEF Range
    <3> QED
      BY <1>1, <3>1, <3>2
  <2> QED
    BY <2>1
<1>2. \A s : Asked(sent, s) => Asked(sent', s)
  BY DEF Asked
<1>3. CancelledForAReason'
  <2> SUFFICES ASSUME NEW i \in Ids, "cancelled" \in Range(answers'[i])
               PROVE  IF transport' = "stdio" THEN signalled'
                      ELSE i \notin posts' \/ \E j \in DOMAIN sent' : /\ sent'[j].method = "session/cancel"
                                                                      /\ sent'[j].session = sent'[i].session
    BY DEF CancelledForAReason
  <2>1. "cancelled" \in Range(answers[i]) /\ i \in DOMAIN sent
    BY <1>1
  <2>2. IF transport = "stdio" THEN signalled
        ELSE i \notin posts \/ \E j \in DOMAIN sent : /\ sent[j].method = "session/cancel"
                                                      /\ sent[j].session = sent[i].session
    BY <2>1 DEF CancelInv, CancelledForAReason
  <2> QED
    BY <2>1, <2>2
<1> QED
  BY <1>2, <1>3

LEMMA RangeOfAppend ==
    ASSUME NEW S, NEW s \in Seq(S), NEW x \in S
    PROVE  Range(Append(s, x)) = Range(s) \cup {x}
<1>1. /\ DOMAIN Append(s, x) = DOMAIN s \cup {Len(s) + 1} /\ Append(s, x)[Len(s) + 1] = x
      /\ \A m \in DOMAIN s : Append(s, x)[m] = s[m]
  OBVIOUS
<1> QED
  BY <1>1 DEF Range

\* Any other answer is no "cancelled".
LEMMA OtherAnswer ==
    ASSUME IInv, NEW i \in Ids, NEW r \in Results \ {"cancelled"}, Answer(i, r)
    PROVE  \A j \in Ids : "cancelled" \in Range(answers'[j]) => "cancelled" \in Range(answers[j])
<1>1. answers \in [Ids -> Seq(Results)] /\ answers[i] \in Seq(Results)
  BY DEF IInv, AnswersInv
<1>2. Range(Append(answers[i], r)) = Range(answers[i]) \cup {r}
  BY <1>1, RangeOfAppend
<1>3. answers'[i] = Append(answers[i], r) /\ \A j \in Ids \ {i} : answers'[j] = answers[j]
  BY <1>1 DEF Answer
<1> QED
  BY <1>2, <1>3

\* A message that is handled begins or cancels at most one turn.
LEMMA HandledCancel ==
    ASSUME IInv, CancelInv, NEW i \in unread, HandleMessage(i), UNCHANGED <<transport, input, posts>>,
           transport = "stdio" => DOMAIN turns = {}
    PROVE  CancelInv'
<1>1. i \in DOMAIN sent /\ i \in Ids /\ sent' = sent /\ signalled' = signalled
  BY UnreadFacts DEF IInv, input
<1>2. \A j \in Ids : "cancelled" \in Range(answers'[j]) => "cancelled" \in Range(answers[j])
  <2>1. (\E r \in {"ok", "error"} : Answer(i, r)) \/ answers' = answers
    BY DEF HandleMessage, Initialize, SessionNew, SessionPrompt, SessionCancel, SetMode, OtherMessage
  <2>2. {"ok", "error"} \subseteq Results \ {"cancelled"}
    BY DEF Results
  <2> QED
    BY <1>1, <2>1, <2>2, OtherAnswer
<1>3. CancelledForAReason' /\ \A s : Asked(sent, s) => Asked(sent', s)
  BY <1>1, <1>2, CancelledStays
<1>4. ASSUME NEW j \in DOMAIN turns'
      PROVE  /\ turns'[j].session = sent'[j].session
             /\ turns'[j].cancelled => transport' = "http" /\ Asked(sent', sent'[j].session)
  <2>0. /\ \A k \in DOMAIN turns : /\ turns[k].session = sent[k].session
                                   /\ turns[k].cancelled => transport = "http" /\ Asked(sent, sent[k].session)
        /\ turns \in [DOMAIN turns -> TurnType]
        /\ \A s : Asked(sent', s) <=> Asked(sent, s)
    BY <1>1 DEF CancelInv, IInv, TurnsInv, Asked
  <2>1. CASE turns' = turns
    BY <1>1, <2>0, <2>1, <1>4
  <2>2. CASE SessionPrompt(i) /\ turns' # turns
    <3>1. PICK start \in Started : turns' = Extended(turns, i, Turn(sent[i].session, start))
      BY <2>2 DEF SessionPrompt
    <3> DEFINE turn == Turn(sent[i].session, start)
    <3>2. turn.session = sent[i].session /\ turn.cancelled = FALSE
      BY DEF Turn
    <3>3. turns' = Extended(turns, i, turn)
      BY <3>1
    <3> HIDE DEF turn
    <3>4. /\ DOMAIN Extended(turns, i, turn) = DOMAIN turns \cup {i} /\ Extended(turns, i, turn)[i] = turn
          /\ \A k \in DOMAIN turns \ {i} : Extended(turns, i, turn)[k] = turns[k]
      BY DEF Extended
    <3> QED
      <4>1. CASE j = i
        BY <1>1, <3>2, <3>3, <3>4, <4>1
      <4>2. CASE j \in DOMAIN turns \ {i}
        BY <1>1, <2>0, <3>3, <3>4, <4>2
      <4> QED
        BY <1>4, <3>3, <3>4, <4>1, <4>2
  <2>3. CASE SessionCancel(i) /\ turns' # turns
    <3> DEFINE s == sent[i].session
               k == cancelFuncs[s]
    <3>1. /\ sent[i].method = "session/cancel" /\ s \in DOMAIN cancelFuncs /\ k \in DOMAIN turns
          /\ turns' = [turns EXCEPT ![k].cancelled = TRUE]
      BY <2>3 DEF SessionCancel
    <3>2. turns[k].session = s /\ sent[k].session = s
      BY <2>0, <3>1 DEF IInv, CancelsALiveTurn
    <3>3. Asked(sent, sent[k].session) /\ transport = "http"
      BY <1>1, <3>1, <3>2 DEF Asked, IInv, SentInv
    <3>4. /\ j \in DOMAIN turns /\ turns'[j].session = turns[j].session
          /\ j # k => turns'[j] = turns[j]
      BY <1>4, <2>0, <3>1 DEF TurnType
    <3> QED
      BY <1>1, <2>0, <3>3, <3>4
  <2> QED
    BY <2>1, <2>2, <2>3 DEF HandleMessage, Initialize, SessionNew, SetMode, OtherMessage
<1> QED
  BY <1>3, <1>4 DEF CancelInv

LEMMA TurnCancel ==
    ASSUME IInv, CancelInv, NEW i \in Ids, TurnStep(i)
    PROVE  CancelInv'
<1>0. /\ i \in DOMAIN turns /\ i \in DOMAIN sent /\ UNCHANGED <<transport, sent, signalled, posts>>
      /\ turns \in [DOMAIN turns -> TurnType] /\ answers \in [Ids -> Seq(Results)] /\ transport \in {"stdio", "http"}
  BY DEF TurnStep, IInv, TurnsInv, AnswersInv, SentInv, input
<1>1. \A s : Asked(sent', s) <=> Asked(sent, s)
  BY <1>0 DEF Asked
<1>2. \A j \in DOMAIN turns' : /\ j \in DOMAIN turns /\ turns'[j].session = turns[j].session
                               /\ turns'[j].cancelled = turns[j].cancelled
  <2>1. CASE Emit(i)
    BY <1>0, <2>1 DEF Emit, TurnType
  <2>4. CASE TellError(i)
    BY <1>0, <2>4 DEF TellError, TurnType
  <2>5. CASE Respond(i)
    BY <1>0, <2>5 DEF Respond, TurnType
  <2>2. CASE Work(i)
    BY <1>0, <2>2 DEF Work, Working, TurnType
  <2>3. CASE Return(i)
    <3>1. turns' = Without(turns, i)
      BY <2>3 DEF Return
    <3>2. DOMAIN turns' = DOMAIN turns \ {i} /\ \A j \in DOMAIN turns \ {i} : turns'[j] = turns[j]
      BY <3>1, WithoutFacts
    <3> QED
      BY <3>2
  <2> QED
    BY <2>1, <2>2, <2>3, <2>4, <2>5 DEF TurnStep
<1>3. CancelledForAReason'
  <2>1. CASE answers' = answers
    BY <1>0, <2>1, CancelledStays
  <2>2. CASE Respond(i) /\ Answer(i, "endTurn")
    BY <1>0, <2>2, OtherAnswer, CancelledStays DEF Results
  <2>3. CASE Respond(i) /\ Answer(i, "cancelled") /\ Cancelled(i)
    <3>1. \A j \in Ids \ {i} : answers'[j] = answers[j]
      BY <1>0, <2>3 DEF Answer
    <3>2. IF transport = "stdio" THEN signalled ELSE i \notin posts \/ Asked(sent, sent[i].session)
      BY <1>0, <2>3 DEF Cancelled, CancelInv
    <3> QED
      BY <1>0, <3>1, <3>2 DEF CancelInv, CancelledForAReason, Asked
  <2> QED
    BY <2>1, <2>2, <2>3 DEF TurnStep, Emit, Work, Working, TellError, Respond, Return
<1> QED
  BY <1>0, <1>1, <1>2, <1>3 DEF CancelInv

LEMMA SendCancel ==
    ASSUME IInv, CancelInv, Send
    PROVE  CancelInv'
<1>1. PICK msg : /\ sent' = Append(sent, msg) /\ UNCHANGED <<transport, signalled, turns, answers>>
                 /\ posts' = posts \/ posts' = posts \cup {Len(sent')}
                 /\ msg \in Messages
  BY DEF Send
<1>2. sent \in Seq(Sent) /\ Len(sent) \in Nat /\ DOMAIN sent = 1..Len(sent) /\ msg \in Sent
  BY <1>1, MessagesFacts DEF IInv, SentInv
<1>3. /\ \A i \in DOMAIN sent : i \in DOMAIN sent' /\ sent'[i] = sent[i]
      /\ Len(sent') \notin DOMAIN sent
  BY <1>1, <1>2
<1>4. CancelledForAReason' /\ \A s : Asked(sent, s) => Asked(sent', s)
  BY <1>1, <1>3, CancelledStays
<1>5. \A i \in DOMAIN turns : i \in DOMAIN sent /\ sent'[i] = sent[i]
  BY <1>3 DEF IInv, TurnsInv
<1> QED
  BY <1>1, <1>4, <1>5 DEF CancelInv

LEMMA OtherCancel ==
    ASSUME IInv, CancelInv, UNCHANGED <<transport, sent, turns, answers>>, signalled => signalled', posts' \subseteq posts
    PROVE  CancelInv'
<1>1. CancelledForAReason'
  BY CancelledStays
<1> QED
  BY <1>1 DEF CancelInv, Asked

\* A turn ends as "cancelled" for a reason: over stdio a signal, over HTTP the end of
\* its POST or a session/cancel of its session, whatever overtakes what.
THEOREM CancelledForAReasonAlways == Spec => []CancelledForAReason
<1>1. Init => CancelInv
  <2> SUFFICES ASSUME Init PROVE CancelInv
    OBVIOUS
  <2>1. DOMAIN turns = {} /\ \A i \in Ids : answers[i] = <<>>
    BY DEF Init, NoTurns
  <2> QED
    BY <2>1 DEF CancelInv, CancelledForAReason, Range
<1>2. IInv /\ CancelInv /\ [Next]_vars => CancelInv'
  <2> SUFFICES ASSUME IInv, CancelInv, [Next]_vars PROVE CancelInv'
    OBVIOUS
  <2>1. CASE Send
    BY <2>1, SendCancel
  <2>2. CASE Read
    <3>1. transport = "stdio" => DOMAIN turns = {}
      BY <2>2 DEF IInv, LoopInv, Read
    <3> QED
      BY <2>2, <3>1, FirstUnread, HandledCancel DEF Read
  <2>3. ASSUME NEW i \in Ids, Dispatch(i) PROVE CancelInv'
    <3>1. transport # "stdio"
      BY <2>3 DEF Dispatch, IInv, LoopInv
    <3> QED
      BY <2>3, <3>1, HandledCancel DEF Dispatch
  <2>4. ASSUME NEW i \in Ids, TurnStep(i) PROVE CancelInv'
    BY <2>4, TurnCancel
  <2>5. CASE \/ Signal \/ CloseStdin \/ Check \/ ReadEOF \/ Shutdown
             \/ (\E i \in Ids : EndPost(i))
             \/ (\E u \in Subscribers : Subscribe(u) \/ Deliver(u) \/ Unsubscribe(u))
             \/ UNCHANGED vars
    BY <2>5, OtherCancel
    DEF Signal, CloseStdin, Check, ReadEOF, Shutdown, EndPost, Subscribe, Deliver, Unsubscribe, vars, input
  <2> QED
    BY <2>1, <2>2, <2>3, <2>4, <2>5 DEF Next
<1>3. CancelInv => CancelledForAReason
  BY DEF CancelInv
<1> QED
  BY <1>1, <1>2, <1>3, Invariance, PTL DEF Spec

-----------------------------------------------------------------------------
(* A turn comes to an end by its own steps.                                  *)

\* What a turn still has to do, the end of the prompt first: its work, an error
\* to tell, the response; and of each of them the updates it still writes.
StagesToGo(turn) ==
    IF turn.phase = "announcing" THEN 3
    ELSE IF turn.phase = "reporting" THEN (IF turn.failed THEN 2 ELSE 1) ELSE 0
Nearer(before, after) ==
    \/ StagesToGo(after) < StagesToGo(before)
    \/ StagesToGo(after) = StagesToGo(before) /\ after.updates < before.updates
Rests(before, after) == after.phase = before.phase /\ after.updates = before.updates /\ after.failed = before.failed

TurnsNear ==
    \A i \in DOMAIN turns :
      IF TurnStep(i) THEN i \in DOMAIN turns' => Nearer(turns[i], turns'[i])
      ELSE i \in DOMAIN turns' /\ Rests(turns[i], turns'[i])

\* A step of a turn brings it nearer to its end, and moves no other turn.
LEMMA OwnStep ==
    ASSUME IInv, NEW i \in Ids, TurnStep(i)
    PROVE  /\ i \in DOMAIN turns' => Nearer(turns[i], turns'[i])
           /\ \A j \in DOMAIN turns \ {i} : j \in DOMAIN turns' /\ Rests(turns[j], turns'[j])
<1>0. i \in DOMAIN turns /\ turns \in [DOMAIN turns -> TurnType] /\ turns[i].updates \in Nat
  BY DEF TurnStep, IInv, TurnsInv, TurnType
<1>1. CASE Emit(i)
  <2>1. turns' = [turns EXCEPT ![i] = [turns[i] EXCEPT !.updates = @ - 1]] /\ turns[i].updates > 0
    BY <1>0, <1>1 DEF Emit, TurnType
  <2>2. turns'[i] = [turns[i] EXCEPT !.updates = @ - 1] /\ turns[i] \in TurnType
    BY <1>0, <2>1
  <2>3. /\ turns'[i].phase = turns[i].phase /\ turns'[i].failed = turns[i].failed
        /\ turns'[i].updates = turns[i].updates - 1
    BY <2>2 DEF TurnType
  <2>4. StagesToGo(turns'[i]) = StagesToGo(turns[i]) /\ turns'[i].updates < turns[i].updates
    BY <1>0, <2>1, <2>3 DEF StagesToGo
  <2> QED
    BY <1>0, <2>1, <2>4 DEF Nearer, Rests
<1>2. CASE Work(i)
  <2>1. PICK failed \in BOOLEAN, k \in {0, 1} :
          turns' = [turns EXCEPT ![i] = [@ EXCEPT !.phase = "reporting", !.failed = failed, !.updates = k]]
    BY <1>2 DEF Work, Working
  <2>2. turns[i].phase = "announcing" /\ turns[i] \in TurnType
    BY <1>0, <1>2 DEF Work, Working
  <2>3. turns'[i].phase = "reporting"
    BY <1>0, <2>1, <2>2 DEF TurnType
  <2>4. StagesToGo(turns'[i]) \in {1, 2} /\ StagesToGo(turns[i]) = 3
    BY <2>2, <2>3 DEF StagesToGo
  <2> QED
    BY <1>0, <2>1, <2>4 DEF Nearer, Rests
<1>3. CASE TellError(i)
  <2>1. turns' = [turns EXCEPT ![i] = [turns[i] EXCEPT !.updates = 1, !.failed = FALSE]]
    BY <1>0, <1>3 DEF TellError, TurnType
  <2>2. turns[i].phase = "reporting" /\ turns[i].failed /\ turns[i] \in TurnType
    BY <1>0, <1>3 DEF TellError, Reported
  <2>3. turns'[i].phase = "reporting" /\ ~ turns'[i].failed
    BY <1>0, <2>1, <2>2 DEF TurnType
  <2>4. StagesToGo(turns'[i]) = 1 /\ StagesToGo(turns[i]) = 2
    BY <2>2, <2>3 DEF StagesToGo
  <2> QED
    BY <1>0, <2>1, <2>4 DEF Nearer, Rests
<1>4. CASE Respond(i)
  <2>1. turns' = [turns EXCEPT ![i] = [turns[i] EXCEPT !.phase = "returning"]]
    BY <1>0, <1>4 DEF Respond, TurnType
  <2>2. turns[i].phase = "reporting" /\ turns[i] \in TurnType
    BY <1>0, <1>4 DEF Respond, Reported
  <2>3. turns'[i].phase = "returning"
    BY <1>0, <2>1, <2>2 DEF TurnType
  <2>4. StagesToGo(turns'[i]) = 0 /\ StagesToGo(turns[i]) \in {1, 2}
    BY <2>2, <2>3 DEF StagesToGo
  <2> QED
    BY <1>0, <2>1, <2>4 DEF Nearer, Rests
<1>5. CASE Return(i)
  <2>1. turns' = Without(turns, i)
    BY <1>5 DEF Return
  <2>2. DOMAIN turns' = DOMAIN turns \ {i} /\ \A j \in DOMAIN turns \ {i} : turns'[j] = turns[j]
    BY <2>1, WithoutFacts
  <2> QED
    BY <2>2 DEF Rests
<1>6. Emit(i) \/ Work(i) \/ TellError(i) \/ Respond(i) \/ Return(i)
  BY DEF TurnStep
<1> QED
  BY <1>1, <1>2, <1>3, <1>4, <1>5, <1>6

\* A message that is handled starts a turn or cancels one, and moves none.
LEMMA HandlerRests ==
    ASSUME IInv, NEW i \in unread, HandleMessage(i)
    PROVE  \A j \in DOMAIN turns : j \in DOMAIN turns' /\ Rests(turns[j], turns'[j])
<1>0. i \notin DOMAIN turns /\ turns \in [DOMAIN turns -> TurnType]
  BY UnreadFacts DEF IInv, TurnsInv
<1>1. CASE turns' = turns
  BY <1>1 DEF Rests
<1>2. CASE SessionPrompt(i) /\ turns' # turns
  <2>1. PICK start \in Started : turns' = Extended(turns, i, Turn(sent[i].session, start))
    BY <1>2 DEF SessionPrompt
  <2>2. PICK turn : turns' = Extended(turns, i, turn)
    BY <2>1
  <2>3. /\ DOMAIN Extended(turns, i, turn) = DOMAIN turns \cup {i}
        /\ \A j \in DOMAIN turns \ {i} : Extended(turns, i, turn)[j] = turns[j]
    BY DEF Extended
  <2> QED
    BY <1>0, <2>2, <2>3 DEF Rests
<1>3. CASE SessionCancel(i) /\ turns' # turns
  <2>1. PICK k \in DOMAIN turns : turns' = [turns EXCEPT ![k].cancelled = TRUE]
    BY <1>3 DEF SessionCancel
  <2> QED
    BY <1>0, <2>1 DEF Rests, TurnType
<1>4. turns' = turns \/ SessionPrompt(i) \/ SessionCancel(i)
  BY DEF HandleMessage, Initialize, SessionNew, SetMode, OtherMessage
<1> QED
  BY <1>1, <1>2, <1>3, <1>4

\* A prompt is not kept for ever by its own turn: each step of it leaves less to
\* do (its work, an error to tell, the response, the updates of each), and nothing
\* others do, a cancel included, brings anything back or takes the turn away.
THEOREM TurnNearsItsEnd ==
    Spec => /\ [](\A i \in DOMAIN turns : StagesToGo(turns[i]) \in Nat /\ turns[i].updates \in Nat)
            /\ [][TurnsNear]_vars
<1>1. IInv => \A i \in DOMAIN turns : StagesToGo(turns[i]) \in Nat /\ turns[i].updates \in Nat
  BY DEF IInv, TurnsInv, TurnType, StagesToGo
<1>2. IInv /\ [Next]_vars => [TurnsNear]_vars
  <2> SUFFICES ASSUME IInv, Next, NEW i \in DOMAIN turns
               PROVE  IF TurnStep(i) THEN i \in DOMAIN turns' => Nearer(turns[i], turns'[i])
                      ELSE i \in DOMAIN turns' /\ Rests(turns[i], turns'[i])
    BY DEF TurnsNear
  <2>0. i \in Ids
    BY SentIds DEF IInv, TurnsInv
  <2>1. CASE TurnStep(i)
    BY <2>0, <2>1, OwnStep
  <2>2. ASSUME NEW j \in Ids, TurnStep(j), ~ TurnStep(i)
        PROVE  i \in DOMAIN turns' /\ Rests(turns[i], turns'[i])
    <3>1. i # j
      BY <2>2
    <3> QED
      BY <2>2, <3>1, OwnStep
  <2>3. ASSUME NEW j \in unread, HandleMessage(j)
        PROVE  i \in DOMAIN turns' /\ Rests(turns[i], turns'[i])
    BY <2>3, HandlerRests
  <2>4. CASE UNCHANGED turns /\ ~ TurnStep(i)
    BY <2>4 DEF Rests
  <2>5. CASE Read
    BY <2>1, <2>3, <2>5, FirstUnread DEF Read
  <2>6. ASSUME NEW j \in Ids, Dispatch(j) PROVE \E k \in unread : HandleMessage(k)
    BY <2>6 DEF Dispatch
  <2>7. UNCHANGED turns \/ Read \/ (\E j \in Ids : TurnStep(j) \/ Dispatch(j))
    BY DEF Next, Send, Signal, CloseStdin, Check, ReadEOF, EndPost, Subscribe, Deliver, Unsubscribe, Shutdown
  <2> QED
    BY <2>1, <2>2, <2>3, <2>4, <2>5, <2>6, <2>7
<1> QED
  BY <1>1, <1>2, Invariance, PTL DEF Spec
=============================================================================
