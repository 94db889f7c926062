------------------------ MODULE ControlManager_proofs ------------------------
(***************************************************************************)
(* Proofs about ControlManager for every set of agents: that the mutex,    *)
(* the list and the agents' places fit together, and that it implements    *)
(* PauseGate. The refinement needs of the state only that every agent is   *)
(* somewhere: what keeps the gate is that the two loads which let an agent *)
(* out look at the flag themselves, so neither the mutex nor the           *)
(* notification list enters the argument.                                  *)
(***************************************************************************)
EXTENDS ControlManager, TLAPS

-----------------------------------------------------------------------------
\* Only agents asleep or about to be are registered with the condition variable.
LEMMA TypedAlways == Spec => []Typed
<1>1. Init => Typed
  BY DEF Init, Typed, Places
<1>2. Typed /\ [Next]_vars => Typed'
  <2> SUFFICES ASSUME Typed, [Next]_vars PROVE Typed'
    OBVIOUS
  <2> USE DEF Typed, Places
  <2>1. CASE Pause
    BY <2>1 DEF Pause
  <2>2. CASE Resume
    BY <2>2 DEF Resume
  <2>3. CASE Broadcast
    BY <2>3 DEF Broadcast
  <2>4. ASSUME NEW a \in Agents, Call(a) PROVE Typed'
    BY <2>4 DEF Call, Move
  <2>5. ASSUME NEW a \in Agents, Inside(a) PROVE Typed'
    <3>1. CASE FastLoad(a)
      BY <3>1 DEF FastLoad, Move
    <3>2. CASE Lock(a)
      BY <3>2 DEF Lock, Move
    <3>3. CASE Test(a)
      BY <3>3 DEF Test, Move
    <3>4. CASE Register(a)
      BY <3>4 DEF Register, Move
    <3>5. CASE Release(a)
      BY <3>5 DEF Release, Move
    <3>6. CASE Wake(a)
      BY <3>6 DEF Wake, Move
    <3>7. CASE Leave(a)
      BY <3>7 DEF Leave, Move
    <3> QED
      BY <2>5, <3>1, <3>2, <3>3, <3>4, <3>5, <3>6, <3>7 DEF Inside
  <2>6. CASE UNCHANGED vars
    BY <2>6 DEF vars
  <2> QED
    BY <2>1, <2>2, <2>3, <2>4, <2>5, <2>6 DEF Next
<1> QED
  BY <1>1, <1>2, PTL DEF Spec

-----------------------------------------------------------------------------
\* One agent's move keeps the mutex its holder's, if it takes the mutex with the first
\* place it is held at and gives it back with the last.
LEMMA MoveMutex ==
    ASSUME Typed, MutexIsHeld, NEW a \in Agents, NEW from, NEW to, Move(a, from, to),
           \/ mu' = mu /\ (from \in Holding <=> to \in Holding)
           \/ mu = NoAgent /\ mu' = a /\ to \in Holding
           \/ from \in Holding /\ mu' = NoAgent /\ to \notin Holding
    PROVE  MutexIsHeld'
<1>1. at \in [Agents -> Places] /\ at[a] = from /\ at' = [at EXCEPT ![a] = to]
  BY DEF Move, Typed
<1>2. \A b \in Agents : at'[b] = IF b = a THEN to ELSE at[b]
  BY <1>1
<1>3. ASSUME NEW b \in Agents PROVE mu' = b <=> at'[b] \in Holding
  <2>1. mu = b <=> at[b] \in Holding
    BY DEF MutexIsHeld
  <2>2. mu = a <=> from \in Holding
    BY <1>1 DEF MutexIsHeld
  <2> QED
    BY <1>2, <2>1, <2>2, NoAgentAssumption
<1> QED
  BY <1>3 DEF MutexIsHeld

\* CheckPause unlocks only what it has locked, whatever the order of its waits with
\* the broadcasts, and the loop's test and registration are one agent's at a time.
THEOREM MutexIsHeldAlways == Spec => []MutexIsHeld
<1>1. Init => MutexIsHeld
  BY NoAgentAssumption DEF Init, MutexIsHeld, Holding
<1>2. Typed /\ MutexIsHeld /\ [Next]_vars => MutexIsHeld'
  <2> SUFFICES ASSUME Typed, MutexIsHeld, [Next]_vars PROVE MutexIsHeld'
    OBVIOUS
  <2>0. Holding = {"test", "register", "release", "leave"}
    BY DEF Holding
  <2>1. CASE Pause \/ Resume \/ Broadcast \/ UNCHANGED vars
    BY <2>1 DEF Pause, Resume, Broadcast, vars, MutexIsHeld
  <2>2. ASSUME NEW a \in Agents, Call(a) PROVE MutexIsHeld'
    BY <2>0, <2>2, MoveMutex DEF Call
  <2>3. ASSUME NEW a \in Agents, Inside(a) PROVE MutexIsHeld'
    <3>1. CASE FastLoad(a)
      <4>1. CASE isPaused
        BY <2>0, <3>1, <4>1, MoveMutex DEF FastLoad
      <4>2. CASE ~ isPaused
        BY <2>0, <3>1, <4>2, MoveMutex DEF FastLoad
      <4> QED
        BY <4>1, <4>2
    <3>2. CASE Lock(a) \/ Wake(a)
      BY <2>0, <3>2, MoveMutex DEF Lock, Wake
    <3>3. CASE Test(a)
      <4>1. CASE isPaused
        BY <2>0, <3>3, <4>1, MoveMutex DEF Test
      <4>2. CASE ~ isPaused
        BY <2>0, <3>3, <4>2, MoveMutex DEF Test
      <4> QED
        BY <4>1, <4>2
    <3>4. CASE Register(a)
      BY <2>0, <3>4, MoveMutex DEF Register
    <3>5. CASE Release(a) \/ Leave(a)
      BY <2>0, <3>5, MoveMutex DEF Release, Leave
    <3> QED
      BY <2>3, <3>1, <3>2, <3>3, <3>4, <3>5 DEF Inside
  <2> QED
    BY <2>1, <2>2, <2>3 DEF Next
<1> QED
  BY <1>1, <1>2, TypedAlways, PTL DEF Spec

\* At any moment in CheckPause the mutex is held by the goroutine that is where it
\* must be held, and by none when none is there; registered with the condition
\* variable are only goroutines about to sleep or asleep.
THEOREM TypeCorrect == Spec => []TypeOK
BY TypedAlways, MutexIsHeldAlways, PTL DEF TypeOK


-----------------------------------------------------------------------------
\* The agents inside CheckPause, as Gate's mapping counts them.
Held == {a \in Agents : at[a] \notin {"work", "leave"}}

\* One agent's move between two places changes the set of held agents by that
\* agent at most.
LEMMA MoveHeld ==
    ASSUME Typed, NEW a \in Agents, NEW from, NEW to, Move(a, from, to)
    PROVE  /\ from \in {"work", "leave"} /\ to \notin {"work", "leave"}
                => a \notin Held /\ Held' = Held \cup {a}
           /\ from \notin {"work", "leave"} /\ to \in {"work", "leave"}
                => a \in Held /\ Held' = Held \ {a}
           /\ (from \in {"work", "leave"} <=> to \in {"work", "leave"}) => Held' = Held
BY DEF Move, Held, Typed

\* Every step of ControlManager is a step of the gate or leaves it unchanged.
LEMMA GateStep == Typed /\ [Next]_vars => [Gate!Next]_<<isPaused, Held>>
<1> SUFFICES ASSUME Typed, [Next]_vars PROVE [Gate!Next]_<<isPaused, Held>>
  OBVIOUS
<1> USE DEF Gate!Next, Gate!Pause, Gate!Resume, Gate!Arrive, Gate!Clear
<1>1. CASE Pause
  BY <1>1 DEF Pause, Held
<1>2. CASE Resume
  BY <1>2 DEF Resume, Held
<1>3. CASE Broadcast
  BY <1>3 DEF Broadcast, Held
<1>4. ASSUME NEW a \in Agents, Call(a) PROVE [Gate!Next]_<<isPaused, Held>>
  <2>1. a \notin Held /\ Held' = Held \cup {a}
    BY <1>4, MoveHeld DEF Call
  <2> QED
    BY <1>4, <2>1 DEF Call, Held
<1>5. ASSUME NEW a \in Agents, Inside(a) PROVE [Gate!Next]_<<isPaused, Held>>
  <2>1. CASE FastLoad(a)
    <3>1. CASE isPaused
      BY <2>1, <3>1, MoveHeld DEF FastLoad
    <3>2. CASE ~ isPaused
      <4>1. a \in Held /\ Held' = Held \ {a}
        BY <2>1, <3>2, MoveHeld DEF FastLoad
      <4> QED
        BY <2>1, <3>2, <4>1 DEF FastLoad, Held
    <3> QED
      BY <3>1, <3>2
  <2>2. CASE Lock(a)
    BY <2>2, MoveHeld DEF Lock
  <2>3. CASE Test(a)
    <3>1. CASE isPaused
      BY <2>3, <3>1, MoveHeld DEF Test
    <3>2. CASE ~ isPaused
      <4>1. a \in Held /\ Held' = Held \ {a}
        BY <2>3, <3>2, MoveHeld DEF Test
      <4> QED
        BY <2>3, <3>2, <4>1 DEF Test, Held
    <3> QED
      BY <3>1, <3>2
  <2>4. CASE Register(a)
    BY <2>4, MoveHeld DEF Register
  <2>5. CASE Release(a)
    BY <2>5, MoveHeld DEF Release
  <2>6. CASE Wake(a)
    BY <2>6, MoveHeld DEF Wake
  <2>7. CASE Leave(a)
    BY <2>7, MoveHeld DEF Leave
  <2> QED
    BY <1>5, <2>1, <2>2, <2>3, <2>4, <2>5, <2>6, <2>7 DEF Inside
<1>6. CASE UNCHANGED vars
  BY <1>6 DEF vars, Held
<1> QED
  BY <1>1, <1>2, <1>3, <1>4, <1>5, <1>6 DEF Next

\* CheckPause keeps its promise whatever the interleaving of its loads, of the
\* mutex and of the condition variable with Pause and Resume: ControlManager
\* implements PauseGate.
THEOREM KeepsTheGateAlways == Spec => KeepsTheGate
<1>1. Init => Gate!Init
  BY DEF Init, Gate!Init
<1>2. Typed /\ [Next]_vars => [Gate!Next]_(Gate!gateVars)
  BY GateStep DEF Gate!gateVars, Held
<1> QED
  BY <1>1, <1>2, TypedAlways, PTL DEF Spec, KeepsTheGate, Gate!Spec
=============================================================================
