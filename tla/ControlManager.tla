--------------------------- MODULE ControlManager ---------------------------
(***************************************************************************)
(* ControlManager of internal/live/control_manager.go: an atomic flag, a   *)
(* mutex and a condition variable. Pause and Resume are called by the one  *)
(* goroutine that reads the dashboard's commands; CheckPause is called by  *)
(* any goroutine that works. Each action is one atomic load or store, one  *)
(* lock operation, or one half of sync.Cond's Wait.                        *)
(***************************************************************************)
EXTENDS FiniteSets

CONSTANTS Agents,   \* the goroutines that call CheckPause
          NoAgent   \* mu is free

ASSUME NoAgentAssumption == NoAgent \notin Agents

VARIABLES
    isPaused,       \* the atomic flag
    mu,             \* who holds the mutex
    notify,         \* the condition variable's list of registered waiters
    at,             \* where each agent is
    commander       \* where the goroutine that delivers commands is

vars == <<isPaused, mu, notify, at, commander>>

\* Outside CheckPause; before its first load; before Lock; before the loop's
\* load; inside Wait before it registers, before it unlocks and after; before
\* the last Unlock.
Places == {"work", "load", "lock", "test", "register", "release", "asleep", "leave"}

Holding == {"test", "register", "release", "leave"}

Move(a, from, to) == at[a] = from /\ at' = [at EXCEPT ![a] = to]

Init ==
    /\ isPaused = FALSE
    /\ mu = NoAgent
    /\ notify = {}
    /\ at = [a \in Agents |-> "work"]
    /\ commander = "idle"

-----------------------------------------------------------------------------
(* The commands.                                                           *)

Pause ==
    /\ commander = "idle"
    /\ isPaused' = TRUE
    /\ UNCHANGED <<mu, notify, at, commander>>

\* Resume stores the flag and then broadcasts, without the mutex.
Resume ==
    /\ commander = "idle"
    /\ isPaused' = FALSE
    /\ commander' = "broadcast"
    /\ UNCHANGED <<mu, notify, at>>

\* Mutant of Broadcast: another condition variable than the one waited on.
BroadcastElsewhere ==
    /\ commander = "broadcast"
    /\ commander' = "idle"
    /\ UNCHANGED <<isPaused, mu, notify, at>>

Broadcast ==
    /\ commander = "broadcast"
    /\ notify' = {}
    /\ commander' = "idle"
    /\ UNCHANGED <<isPaused, mu, at>>

-----------------------------------------------------------------------------
(* CheckPause.                                                             *)

Call(a) == Move(a, "work", "load") /\ UNCHANGED <<isPaused, mu, notify, commander>>

FastLoad(a) ==
    /\ Move(a, "load", IF isPaused THEN "lock" ELSE "work")
    /\ UNCHANGED <<isPaused, mu, notify, commander>>

\* Mutant of Lock: the loop is entered without the mutex.
LockForgotten(a) == Move(a, "lock", "test") /\ UNCHANGED <<isPaused, mu, notify, commander>>

Lock(a) ==
    /\ mu = NoAgent
    /\ Move(a, "lock", "test")
    /\ mu' = a
    /\ UNCHANGED <<isPaused, notify, commander>>

Test(a) ==
    /\ Move(a, "test", IF isPaused THEN "register" ELSE "leave")
    /\ UNCHANGED <<isPaused, mu, notify, commander>>

\* Wait enters the notification list, unlocks, sleeps until it is taken off
\* the list, and locks again.
Register(a) ==
    /\ Move(a, "register", "release")
    /\ notify' = notify \cup {a}
    /\ UNCHANGED <<isPaused, mu, commander>>

Release(a) ==
    /\ Move(a, "release", "asleep")
    /\ mu' = NoAgent
    /\ UNCHANGED <<isPaused, notify, commander>>

\* Mutant of Wake: "if" in place of "for", the flag is not looked at again.
WakeUnchecked(a) ==
    /\ a \notin notify
    /\ mu = NoAgent
    /\ Move(a, "asleep", "leave")
    /\ mu' = a
    /\ UNCHANGED <<isPaused, notify, commander>>

Wake(a) ==
    /\ a \notin notify
    /\ mu = NoAgent
    /\ Move(a, "asleep", "test")
    /\ mu' = a
    /\ UNCHANGED <<isPaused, notify, commander>>

Leave(a) ==
    /\ Move(a, "leave", "work")
    /\ mu' = NoAgent
    /\ UNCHANGED <<isPaused, notify, commander>>

Inside(a) ==
    \/ FastLoad(a) \/ Lock(a) \/ Test(a) \/ Register(a) \/ Release(a) \/ Wake(a) \/ Leave(a)

Next ==
    \/ Pause \/ Resume \/ Broadcast
    \/ \E a \in Agents : Call(a) \/ Inside(a)

Spec == Init /\ [][Next]_vars

\* Running goroutines run. sync.Mutex hands itself over to a waiter that has
\* starved for a millisecond, hence strong fairness for the steps that lock.
FairSpec ==
    /\ Spec
    /\ WF_vars(Broadcast)
    /\ \A a \in Agents : WF_vars(Inside(a)) /\ SF_vars(Lock(a)) /\ SF_vars(Wake(a))

-----------------------------------------------------------------------------
\* Only agents on their way to sleep or asleep are on the list: nobody who
\* works can be the one a wakeup goes to.
Typed ==
    /\ isPaused \in BOOLEAN
    /\ mu \in Agents \cup {NoAgent}
    /\ at \in [Agents -> Places]
    /\ notify \in SUBSET {a \in Agents : at[a] \in {"release", "asleep"}}
    /\ commander \in {"idle", "broadcast"}

\* The mutex is its holder's: whoever tests the flag in the loop, enters the list
\* or unlocks holds it (Unlock of a mutex that is free ends the program), after a
\* sleep too, and no two agents do so at a time.
MutexIsHeld == \A a \in Agents : mu = a <=> at[a] \in Holding

\* Who holds the mutex, who is registered and where each agent is in CheckPause
\* fit together.
TypeOK == Typed /\ MutexIsHeld

\* An agent is out of CheckPause from the load that lets it go.
Gate == INSTANCE PauseGate WITH
            paused <- isPaused,
            held   <- {a \in Agents : at[a] \notin {"work", "leave"}}

\* "CheckPause blocks the calling goroutine if the agent is paused": whatever
\* the interleaving, an agent is let out only by a load that finds the program
\* not paused.
KeepsTheGate == Gate!Spec

\* Resuming again helps: once nobody pauses any more and Resume keeps being
\* called, every agent keeps coming out, those that missed a wakeup included.
RepeatedResumeReleases ==
    <>[]~isPaused /\ []<><<Resume>>_vars => \A a \in Agents : []<>(at[a] = "work")

\* "Resume continues execution": one Resume that no Pause follows is enough.
ResumeContinues == <>[]~isPaused => \A a \in Agents : []<>(at[a] = "work")
=============================================================================
