--------------------------- MODULE EvidenceSuite ---------------------------
(* The evidence suite (src/internal/evidence): runs of an agent on copies of *)
(* a fixture, one after the other, each with its bundle of files, and the    *)
(* summary of all of them.  Beside the suite run the agent, its deadline and *)
(* what the agent leaves running: only the agent's own process is killed,    *)
(* and as long as another process holds its output, its command goes on.     *)
EXTENDS Naturals, FiniteSets, Sequences

CONSTANTS NumRuns,    \* fixtures times repetitions
          NumChecks   \* verifications of a fixture

ASSUME SizesAssumption == NumRuns \in Nat \ {0} /\ NumChecks \in Nat \ {0}

Runs == 1..NumRuns
Checks == 1..NumChecks

\* What a workspace looks like: as in the fixture, edited, or edited with a
\* file that no snapshot can hold (a symbolic link).
Trees == {"base", "edited", "linked"}
\* The files a reader of the evidence goes by. The patches initial and final, the logs
\* in lines, baseline.json and setup.json are left out.
Files == {"initial.tar", "agent.patch", "verification.json", "final.tar", "manifest.json", "report.md"}
\* A file is absent, torn, or holds what was written.
Absent == "absent"
Torn == "torn"
Written == "written"

VARIABLES accepts,    \* the trees each check passes on
          mustFail,   \* RequireFailingBaseline
          pc,         \* where RunSuite and RunExperiment are
          run,        \* the run they are at
          tree,       \* the workspace of this run
          agent,      \* the agent's process: "none", "running", or how it ended
          left,       \* what it left running: "none", "holding" its output, "quiet"
          expired,    \* the agent's deadline has passed
          n,          \* the next check
          passed,     \* VerificationReport.Passed
          timedOut,   \* ExperimentResult.TimedOut
          bundle,     \* the evidence of each run: what its files hold
          runs,       \* SuiteSummary.Runs
          passedRuns, \* SuiteSummary.PassedRuns
          summary,    \* summary.json
          checked     \* (ghost) the tree each check of this run ran on

fixture == <<accepts, mustFail>>
process == <<agent, left, expired>>
verdict == <<n, passed, timedOut, checked>>
results == <<runs, passedRuns>>
disk == <<bundle, results, summary>>
vars == <<fixture, pc, run, tree, process, verdict, disk>>

Init ==
    /\ accepts \in [Checks -> SUBSET {"base", "edited"}] /\ mustFail \in BOOLEAN
    /\ pc = "start" /\ run = 0 /\ n = 1
    /\ tree = "base"
    /\ agent = "none" /\ left = "none" /\ expired = FALSE
    /\ passed = FALSE /\ timedOut = FALSE
    /\ bundle = [r \in Runs |-> [f \in Files |-> Absent]]
    /\ runs = <<>> /\ passedRuns = 0 /\ summary = Absent
    /\ checked = <<>>

\* A link changes nothing for a check.
Accepts(c, t) == (IF t = "base" THEN "base" ELSE "edited") \in accepts[c]

Goto(next) == pc' = next
Write(file, content) == bundle' = [bundle EXCEPT ![run][file] = content]

----------------------------------------------------------------------------
(* The suite.                                                                *)

\* Its directory must be new; the commands of the setup may fail.
StartSuite ==
    /\ pc = "start"
    /\ Goto("next") \/ Goto("failed")
    /\ UNCHANGED <<fixture, run, tree, process, verdict, disk>>

\* A run gets a copy of the fixture of its own: what an earlier agent left
\* running does not write there.
Prepare ==
    /\ pc = "next" /\ run < NumRuns
    /\ run' = run + 1
    /\ tree' = "base"
    /\ agent' = "none" /\ left' = "none" /\ expired' = FALSE
    /\ n' = 1 /\ passed' = FALSE /\ timedOut' = FALSE /\ checked' = <<>>
    /\ Goto("baseline")
    /\ UNCHANGED <<fixture, disk>>

\* The checks may leave files behind.
Baseline ==
    /\ pc = "baseline"
    /\ IF mustFail /\ \A c \in Checks : Accepts(c, tree) THEN Goto("failed") ELSE Goto("experiment")
    /\ tree' \in {tree, "edited"}
    /\ UNCHANGED <<fixture, run, process, verdict, disk>>

WriteSummary ==
    /\ pc = "next" /\ run = NumRuns
    /\ summary' = Written
    /\ Goto("done")
    /\ UNCHANGED <<fixture, run, tree, process, verdict, bundle, results>>

----------------------------------------------------------------------------
(* One experiment.                                                           *)

\* MUTANT: the repository need not be clean.
OpenBundleDirty ==
    /\ pc = "experiment"
    /\ Write("initial.tar", tree)
    /\ agent' = "running"
    /\ Goto("agent")
    /\ UNCHANGED <<fixture, run, tree, left, expired, verdict, results, summary>>

\* The repository must be clean.
OpenBundle ==
    /\ pc = "experiment"
    /\ IF tree = "base"
       THEN Write("initial.tar", tree) /\ agent' = "running" /\ Goto("agent")
       ELSE UNCHANGED <<bundle, agent>> /\ Goto("failed")
    /\ UNCHANGED <<fixture, run, tree, left, expired, verdict, results, summary>>

AgentWrites ==
    /\ agent = "running"
    /\ tree' \in Trees \ {tree}
    /\ UNCHANGED <<fixture, pc, run, process, verdict, disk>>

Deadline ==
    /\ pc = "agent" /\ ~expired
    /\ expired' = TRUE
    /\ UNCHANGED <<fixture, pc, run, tree, agent, left, verdict, disk>>

\* The agent ends, or is killed at the deadline; its children are not.
AgentEnds ==
    /\ agent = "running"
    /\ agent' \in {"zero", "nonzero"} \cup IF expired THEN {"killed"} ELSE {}
    /\ left' \in {"none", "holding", "quiet"}
    /\ UNCHANGED <<fixture, pc, run, tree, expired, verdict, disk>>

ChildWrites ==
    /\ left # "none"
    /\ tree' \in Trees \ {tree}
    /\ UNCHANGED <<fixture, pc, run, process, verdict, disk>>

ChildEnds ==
    /\ left # "none"
    /\ left' = "none"
    /\ UNCHANGED <<fixture, pc, run, tree, agent, expired, verdict, disk>>

\* runCommand returns when the agent has ended and its output is closed; the
\* deadline is asked after that.
CommandReturns ==
    /\ pc = "agent" /\ agent \notin {"none", "running"} /\ left # "holding"
    /\ passed' = (agent = "zero")
    /\ timedOut' = expired
    /\ Goto("patch")
    /\ UNCHANGED <<fixture, run, tree, process, n, checked, disk>>

WritePatch ==
    /\ pc = "patch"
    /\ Write("agent.patch", Written)
    /\ Goto("check")
    /\ UNCHANGED <<fixture, run, tree, process, verdict, results, summary>>

\* The checks run one after the other, whatever the agent's outcome, and may
\* leave files behind.
Check ==
    /\ pc = "check" /\ n <= NumChecks
    /\ passed' = (passed /\ Accepts(n, tree))
    /\ checked' = Append(checked, tree)
    /\ n' = n + 1
    /\ tree' \in {tree} \cup IF tree = "base" THEN {"edited"} ELSE {}
    /\ UNCHANGED <<fixture, pc, run, process, timedOut, disk>>

WriteVerification ==
    /\ pc = "check" /\ n > NumChecks
    /\ Write("verification.json", IF passed THEN "passed" ELSE "failed")
    /\ Goto("final")
    /\ UNCHANGED <<fixture, run, tree, process, verdict, results, summary>>

\* MUTANT: a snapshot that cannot be taken is left out.
WriteFinalOrNot ==
    /\ pc = "final"
    /\ IF tree # "linked" THEN Write("final.tar", Written) ELSE UNCHANGED bundle
    /\ Goto("manifest")
    /\ UNCHANGED <<fixture, run, tree, process, verdict, results, summary>>

\* A link cannot be part of a snapshot.
WriteFinal ==
    /\ pc = "final"
    /\ IF tree # "linked"
       THEN Write("final.tar", Written) /\ Goto("manifest")
       ELSE UNCHANGED bundle /\ Goto("failed")
    /\ UNCHANGED <<fixture, run, tree, process, verdict, results, summary>>

\* MUTANT: a run is counted with its manifest and with its report.
WriteManifestCounted ==
    /\ pc = "manifest"
    /\ Write("manifest.json", Written)
    /\ runs' = Append(runs, [passed |-> passed, timedOut |-> timedOut])
    /\ Goto("report")
    /\ UNCHANGED <<fixture, run, tree, process, verdict, passedRuns, summary>>

WriteManifest ==
    /\ pc = "manifest"
    /\ Write("manifest.json", Written)
    /\ Goto("report")
    /\ UNCHANGED <<fixture, run, tree, process, verdict, results, summary>>

WriteReport ==
    /\ pc = "report"
    /\ Write("report.md", IF passed THEN "passed" ELSE "failed")
    /\ runs' = Append(runs, [passed |-> passed, timedOut |-> timedOut])
    /\ passedRuns' = IF passed THEN passedRuns + 1 ELSE passedRuns
    /\ Goto("next")
    /\ UNCHANGED <<fixture, run, tree, process, verdict, summary>>

----------------------------------------------------------------------------
(* Failures and deaths.                                                      *)

Writing == [patch |-> "agent.patch", check |-> "verification.json", final |-> "final.tar",
            manifest |-> "manifest.json", report |-> "report.md", experiment |-> "initial.tar"]

\* An operation on the file system fails, or the process dies: the file being
\* written may be torn, and nothing of the suite goes on.
Stop ==
    /\ pc \notin {"start", "done", "failed"}
    /\ Goto("failed")
    /\ \/ UNCHANGED <<bundle, summary>>
       \/ pc \in DOMAIN Writing /\ Write(Writing[pc], Torn) /\ UNCHANGED summary
       \/ pc = "next" /\ run = NumRuns /\ summary' = Torn /\ UNCHANGED bundle
    /\ UNCHANGED <<fixture, run, tree, process, verdict, results>>

Next ==
    \/ StartSuite \/ Prepare \/ Baseline \/ WriteSummary
    \/ OpenBundle \/ AgentWrites \/ Deadline \/ AgentEnds \/ ChildWrites \/ ChildEnds
    \/ CommandReturns \/ WritePatch \/ Check \/ WriteVerification \/ WriteFinal
    \/ WriteManifest \/ WriteReport \/ Stop

Spec == Init /\ [][Next]_vars

----------------------------------------------------------------------------

\* The types; each finished run has been appended once.
TypeOK ==
    /\ accepts \in [Checks -> SUBSET {"base", "edited"}] /\ {mustFail, expired, passed, timedOut} \subseteq BOOLEAN
    /\ pc \in DOMAIN Writing \cup {"start", "next", "baseline", "agent", "done", "failed"}
    /\ run \in 0..NumRuns /\ n \in 1..(NumChecks + 1) /\ tree \in Trees
    /\ agent \in {"none", "running", "zero", "nonzero", "killed"} /\ left \in {"none", "holding", "quiet"}
    /\ pc \in {"next", "done"} => Len(runs) = run
    /\ pc \in DOMAIN Writing \cup {"baseline", "agent"} => Len(runs) = run - 1

Intact(r, file) == bundle[r][file] \notin {Absent, Torn}

\* Wherever the suite stops: a manifest that can be read has the snapshots, the
\* agent's patch and the verdict it stands for, and a summary counts complete runs with
\* the verdicts of their bundles, all of them.
EvidenceIsComplete ==
    /\ \A r \in Runs : Intact(r, "manifest.json") => \A f \in Files \ {"report.md"} : Intact(r, f)
    /\ summary = Written =>
         /\ \A r \in Runs, f \in Files : Intact(r, f)
         /\ DOMAIN runs = Runs
         /\ \A r \in Runs : runs[r].passed = (bundle[r]["verification.json"] = "passed")
         /\ passedRuns = Cardinality({r \in Runs : bundle[r]["verification.json"] = "passed"})

\* A run that counts as passed had an agent that came to its own good end,
\* every check accepted the tree it ran on and, where the baseline had to
\* fail, some check rejects the tree of the initial snapshot.
PassesAreEarned ==
    run \in DOMAIN runs /\ runs[run].passed =>
      /\ agent = "zero"
      /\ Len(checked) = NumChecks
      /\ \A c \in Checks : Accepts(c, checked[c])
      /\ mustFail => \E c \in Checks : ~Accepts(c, bundle[run]["initial.tar"])

\* Whatever the suite goes on to do and wherever it stops, a file of evidence that
\* is whole is never written again, nor is the result of a run that was counted.
EvidenceStays ==
    [][/\ \A r \in Runs, f \in Files : Intact(r, f) => bundle'[r][f] = bundle[r][f]
       /\ \A r \in DOMAIN runs : r \in DOMAIN runs' /\ runs'[r] = runs[r]]_vars

\* What the test of the timeout says: a run that has timed out is no pass.
TimedOutIsNoPass == \A r \in DOMAIN runs : runs[r].timedOut => ~runs[r].passed
=============================================================================
