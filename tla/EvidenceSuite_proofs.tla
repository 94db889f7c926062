------------------------ MODULE EvidenceSuite_proofs ------------------------
(* Proofs about EvidenceSuite for any number of runs and of checks: what a   *)
(* stage has on disk, what a verdict stands for, and from them that the      *)
(* evidence is complete and every pass is earned; that what is written       *)
(* stays; and that a suite cannot go on for ever by itself.                  *)
EXTENDS EvidenceSuite, FiniteSetTheorems, TLAPS

Contents == Trees \cup {Absent, Torn, Written, "passed", "failed"}
AfterOpen == {"agent", "patch", "check", "final", "manifest", "report"}

Types ==
    /\ TypeOK
    /\ bundle \in [Runs -> [Files -> Contents]]
    /\ runs \in Seq([passed : BOOLEAN, timedOut : BOOLEAN])
    /\ checked \in Seq(Trees)

\* Where the suite is among its runs.
RunInv ==
    /\ pc = "start" => run = 0
    /\ pc \in AfterOpen \cup {"baseline", "experiment"} => run \in Runs
    /\ pc = "done" => run = NumRuns
    /\ Len(runs) <= run
    /\ summary = Written => pc = "done"

\* What lies in the bundle of the run at hand ...
BundleInv ==
    /\ \A r \in Runs, f \in Files : r > run => bundle[r][f] = Absent
    /\ pc \in {"baseline", "experiment"} => \A f \in Files : bundle[run][f] = Absent
    /\ pc \in AfterOpen => bundle[run]["initial.tar"] = "base"
    /\ pc \in {"check", "final", "manifest", "report"} => Intact(run, "agent.patch")
    /\ pc \in {"final", "manifest", "report"} =>
         bundle[run]["verification.json"] = IF passed THEN "passed" ELSE "failed"
    /\ pc \in {"manifest", "report"} => Intact(run, "final.tar")
    /\ pc \in AfterOpen \ {"report"} => ~ Intact(run, "manifest.json")
    /\ pc = "report" => Intact(run, "manifest.json")

\* ... and in those of the runs before it.
ManifestInv ==
    \A r \in Runs : Intact(r, "manifest.json") => \A f \in Files \ {"report.md"} : Intact(r, f)

Passing == {r \in DOMAIN runs : bundle[r]["verification.json"] = "passed"}

CountInv ==
    /\ \A r \in DOMAIN runs : /\ \A f \in Files : Intact(r, f)
                              /\ runs[r].passed = (bundle[r]["verification.json"] = "passed")
    /\ passedRuns = Cardinality(Passing)

\* What a verdict stands for: the agent's end and the checks so far.
Earned(k) == agent = "zero" /\ Len(checked) = k /\ \A c \in 1..k : Accepts(c, checked[c])
BaselineFails == mustFail => \E c \in Checks : ~ Accepts(c, "base")

VerdictInv ==
    /\ pc = "baseline" => tree = "base"
    /\ pc \in {"baseline", "experiment"} => agent = "none" /\ left = "none"
    /\ pc \in {"baseline", "experiment", "agent", "patch"} => n = 1 /\ checked = <<>>
    /\ pc \in {"patch", "check"} => (passed => Earned(n - 1))
    /\ pc \in {"final", "manifest", "report"} => (passed => Earned(NumChecks))
    /\ pc \in AfterOpen \cup {"experiment"} => BaselineFails

SuiteInv == Types /\ RunInv /\ BundleInv /\ ManifestInv /\ CountInv /\ VerdictInv /\ PassesAreEarned

-----------------------------------------------------------------------------

\* A write changes one file of one bundle.
LEMMA WriteFacts ==
    ASSUME bundle \in [Runs -> [Files -> Contents]], run \in Runs,
           NEW file \in Files, NEW content \in Contents, Write(file, content)
    PROVE  /\ bundle' \in [Runs -> [Files -> Contents]]
           /\ bundle'[run][file] = content
           /\ \A r \in Runs : r # run => bundle'[r] = bundle[r]
           /\ \A f \in Files : f # file => bundle'[run][f] = bundle[run][f]
BY DEF Write

LEMMA InitSuiteInv == Init => SuiteInv
<1> SUFFICES ASSUME Init PROVE SuiteInv
    OBVIOUS
<1>1. Types
    <2>1. /\ bundle \in [Runs -> [Files -> Contents]]
          /\ runs = <<>> /\ checked = <<>> /\ run = 0 /\ n = 1 /\ pc = "start"
        BY DEF Init, Contents
    <2>2. run \in 0..NumRuns /\ n \in 1..(NumChecks + 1)
        BY <2>1, SizesAssumption
    <2>3. /\ accepts \in [Checks -> SUBSET {"base", "edited"}]
          /\ {mustFail, expired, passed, timedOut} \subseteq BOOLEAN
          /\ tree \in Trees
          /\ agent \in {"none", "running", "zero", "nonzero", "killed"}
          /\ left \in {"none", "holding", "quiet"}
        BY DEF Init, Trees
    <2>4. pc \notin DOMAIN Writing \cup {"baseline", "agent", "next", "done"}
        BY <2>1 DEF Writing
    <2> QED BY <2>1, <2>2, <2>3, <2>4 DEF Types, TypeOK
<1>2. RunInv
    BY DEF Init, RunInv, AfterOpen, Absent, Written
<1>3. BundleInv /\ ManifestInv
    BY DEF Init, BundleInv, ManifestInv, AfterOpen, Intact, Files
<1>4. CountInv
    <2>1. DOMAIN runs = {} /\ passedRuns = 0
        BY DEF Init
    <2>2. Passing = {}
        BY <2>1 DEF Passing
    <2> QED BY <2>1, <2>2, FS_EmptySet DEF CountInv
<1>5. VerdictInv /\ PassesAreEarned
    <2>1. DOMAIN runs = {} /\ pc = "start"
        BY DEF Init
    <2> QED BY <2>1 DEF VerdictInv, AfterOpen, PassesAreEarned
<1> QED BY <1>1, <1>2, <1>3, <1>4, <1>5 DEF SuiteInv

\* The agent, its children and the clock change nothing but themselves and the tree.
ProcessStep == AgentWrites \/ Deadline \/ AgentEnds \/ ChildWrites \/ ChildEnds

LEMMA ProcessFacts ==
    ASSUME Types, ProcessStep
    PROVE  /\ UNCHANGED <<accepts, mustFail, pc, run, n, passed, timedOut, checked, bundle, runs,
                          passedRuns, summary>>
           /\ tree' \in Trees
           /\ agent' \in {"none", "running", "zero", "nonzero", "killed"}
           /\ left' \in {"none", "holding", "quiet"}
           /\ expired' \in BOOLEAN
           /\ agent \in {"none", "zero"} => agent' = agent
           /\ agent = "none" /\ left = "none" => UNCHANGED <<tree, left>> \/ pc = "agent"
<1> USE DEF Types, TypeOK, fixture, process, verdict, results, disk
<1>1. CASE AgentWrites
    BY <1>1 DEF AgentWrites
<1>2. CASE Deadline
    BY <1>2 DEF Deadline
<1>3. CASE AgentEnds
    BY <1>3 DEF AgentEnds
<1>4. CASE ChildWrites \/ ChildEnds
    BY <1>4 DEF ChildWrites, ChildEnds
<1> QED BY <1>1, <1>2, <1>3, <1>4 DEF ProcessStep

LEMMA NextTypes == SuiteInv /\ [Next]_vars => Types'
<1> SUFFICES ASSUME SuiteInv, [Next]_vars PROVE Types'
    OBVIOUS
<1>0. Types /\ RunInv
    BY DEF SuiteInv
<1> USE DEF fixture, process, verdict, results, disk, Goto
<1>w. DOMAIN Writing = {"patch", "check", "final", "manifest", "report", "experiment"}
    BY DEF Writing
<1>t. /\ accepts \in [Checks -> SUBSET {"base", "edited"}]
      /\ {mustFail, expired, passed, timedOut} \subseteq BOOLEAN
      /\ run \in 0..NumRuns /\ n \in 1..(NumChecks + 1) /\ tree \in Trees
      /\ agent \in {"none", "running", "zero", "nonzero", "killed"}
      /\ left \in {"none", "holding", "quiet"}
      /\ pc \in {"next", "done"} => Len(runs) = run
      /\ pc \in DOMAIN Writing \cup {"baseline", "agent"} => Len(runs) = run - 1
      /\ bundle \in [Runs -> [Files -> Contents]]
      /\ runs \in Seq([passed : BOOLEAN, timedOut : BOOLEAN])
      /\ checked \in Seq(Trees)
    BY <1>0 DEF Types, TypeOK
<1>l. Len(runs) \in Nat /\ run \in Nat /\ n \in Nat
    BY <1>t
<1>1. CASE StartSuite
    <2>1. /\ pc' \in {"next", "failed"} /\ Len(runs) = run
          /\ UNCHANGED <<fixture, run, tree, process, verdict, disk>>
        BY <1>0, <1>1, <1>l DEF StartSuite, RunInv
    <2> QED BY <1>t, <1>w, <2>1 DEF Types, TypeOK
<1>2. CASE Prepare
    <2>1. /\ pc' = "baseline" /\ run' = run + 1 /\ run < NumRuns /\ Len(runs) = run
          /\ tree' = "base" /\ agent' = "none" /\ left' = "none" /\ expired' = FALSE
          /\ n' = 1 /\ passed' = FALSE /\ timedOut' = FALSE /\ checked' = <<>>
          /\ UNCHANGED <<fixture, disk>>
        BY <1>t, <1>2 DEF Prepare
    <2>2. run' \in 0..NumRuns /\ n' \in 1..(NumChecks + 1) /\ Len(runs') = run' - 1
        BY <1>t, <1>l, <2>1, SizesAssumption
    <2>3. checked' \in Seq(Trees) /\ tree' \in Trees
        BY <2>1 DEF Trees
    <2>4. TypeOK'
        BY <1>t, <1>w, <2>1, <2>2, <2>3 DEF TypeOK
    <2> QED BY <1>t, <2>1, <2>3, <2>4 DEF Types
<1>3. CASE Baseline
    <2>1. /\ pc = "baseline" /\ pc' \in {"failed", "experiment"} /\ tree' \in Trees
          /\ UNCHANGED <<fixture, run, process, verdict, disk>>
        BY <1>t, <1>3 DEF Baseline, Trees
    <2> QED BY <1>t, <1>w, <2>1 DEF Types, TypeOK
<1>4. CASE WriteSummary
    <2>1. /\ pc = "next" /\ pc' = "done"
          /\ UNCHANGED <<fixture, run, tree, process, verdict, bundle, results>>
        BY <1>4 DEF WriteSummary
    <2> QED BY <1>t, <1>w, <2>1 DEF Types, TypeOK
<1>5. CASE OpenBundle
    <2>1. pc = "experiment" /\ UNCHANGED <<fixture, run, tree, left, expired, verdict, results, summary>>
        BY <1>5 DEF OpenBundle
    <2>2. CASE tree = "base"
        <3>1. Write("initial.tar", tree) /\ agent' = "running" /\ pc' = "agent"
            BY <1>5, <2>2 DEF OpenBundle
        <3>2. bundle' \in [Runs -> [Files -> Contents]]
            BY <1>0, <1>t, <2>1, <2>2, <3>1, WriteFacts DEF RunInv, Contents, Trees, Files
        <3> QED BY <1>t, <1>w, <2>1, <3>1, <3>2 DEF Types, TypeOK
    <2>3. CASE tree # "base"
        <3>1. UNCHANGED <<bundle, agent>> /\ pc' = "failed"
            BY <1>5, <2>3 DEF OpenBundle
        <3> QED BY <1>t, <1>w, <2>1, <3>1 DEF Types, TypeOK
    <2> QED BY <2>2, <2>3
<1>6. CASE ProcessStep
    BY <1>0, <1>t, <1>6, ProcessFacts DEF Types, TypeOK
<1>7. CASE CommandReturns
    <2>1. /\ pc = "agent" /\ pc' = "patch" /\ passed' \in BOOLEAN /\ timedOut' \in BOOLEAN
          /\ UNCHANGED <<fixture, run, tree, process, n, checked, disk>>
        BY <1>t, <1>7 DEF CommandReturns
    <2> QED BY <1>t, <1>w, <2>1 DEF Types, TypeOK
<1>8. ASSUME pc \in AfterOpen, NEW f \in Files, NEW c \in Contents, Write(f, c),
             pc' \in AfterOpen \cup {"failed"},
             UNCHANGED <<fixture, run, tree, process, verdict, results>>
      PROVE  Types'
    <2>1. bundle' \in [Runs -> [Files -> Contents]]
        BY <1>0, <1>t, <1>8, WriteFacts DEF RunInv, AfterOpen
    <2>2. pc \in DOMAIN Writing \cup {"baseline", "agent"} /\ pc' \notin {"next", "done"}
          /\ pc' \in DOMAIN Writing \cup {"baseline", "agent", "failed"}
        BY <1>w, <1>8 DEF AfterOpen
    <2> QED BY <1>t, <1>w, <1>8, <2>1, <2>2 DEF Types, TypeOK
<1>9. CASE WritePatch
    BY <1>8, <1>9 DEF WritePatch, AfterOpen, Files, Contents
<1>10. CASE Check
    <2>1. /\ pc = "check" /\ n <= NumChecks /\ n' = n + 1 /\ checked' = Append(checked, tree)
          /\ passed' = (passed /\ Accepts(n, tree))
          /\ tree' \in Trees
          /\ UNCHANGED <<fixture, pc, run, process, timedOut, disk>>
        BY <1>t, <1>10 DEF Check, Trees
    <2>2. n' \in 1..(NumChecks + 1)
        BY <1>t, <2>1, SizesAssumption
    <2>3. checked' \in Seq(Trees) /\ passed' \in BOOLEAN
        BY <1>t, <2>1 DEF Accepts
    <2>4. {mustFail, expired, passed, timedOut}' \subseteq BOOLEAN
        BY <1>t, <2>1, <2>3
    <2>5. TypeOK'
        <3>1. accepts' = accepts /\ run' = run /\ pc' = pc /\ agent' = agent /\ left' = left
              /\ runs' = runs /\ tree' \in Trees /\ pc = "check"
            BY <2>1
        <3>2. Len(runs') = run' - 1
            BY <1>t, <1>w, <3>1
        <3> HIDE DEF fixture, process, verdict, results, disk, Goto
        <3> QED BY <1>t, <1>w, <2>2, <2>4, <3>1, <3>2 DEF TypeOK
    <2> QED BY <1>t, <2>1, <2>3, <2>5 DEF Types
<1>11. CASE WriteVerification
    BY <1>8, <1>11 DEF WriteVerification, AfterOpen, Files, Contents
<1>12. CASE WriteFinal
    <2>1. CASE tree # "linked"
        BY <1>8, <1>12, <2>1 DEF WriteFinal, AfterOpen, Files, Contents
    <2>2. CASE tree = "linked"
        <3>1. pc = "final" /\ pc' = "failed"
              /\ UNCHANGED <<fixture, run, tree, process, verdict, bundle, results, summary>>
            BY <1>12, <2>2 DEF WriteFinal
        <3> QED BY <1>t, <1>w, <3>1 DEF Types, TypeOK
    <2> QED BY <2>1, <2>2
<1>13. CASE WriteManifest
    BY <1>8, <1>13 DEF WriteManifest, AfterOpen, Files, Contents
<1>14. CASE WriteReport
    <2>1. /\ pc = "report" /\ pc' = "next"
          /\ Write("report.md", IF passed THEN "passed" ELSE "failed")
          /\ runs' = Append(runs, [passed |-> passed, timedOut |-> timedOut])
          /\ UNCHANGED <<fixture, run, tree, process, verdict, summary>>
        BY <1>14 DEF WriteReport
    <2>2. bundle' \in [Runs -> [Files -> Contents]]
        <3>1. run \in Runs /\ "report.md" \in Files
              /\ (IF passed THEN "passed" ELSE "failed") \in Contents
            BY <1>0, <2>1 DEF RunInv, AfterOpen, Files, Contents
        <3> QED BY <1>t, <2>1, <3>1, WriteFacts
    <2>3. [passed |-> passed, timedOut |-> timedOut] \in [passed : BOOLEAN, timedOut : BOOLEAN]
        BY <1>t
    <2>4. runs' \in Seq([passed : BOOLEAN, timedOut : BOOLEAN]) /\ Len(runs') = Len(runs) + 1
        BY <1>t, <2>1, <2>3
    <2>5. Len(runs') = run'
        BY <1>t, <1>w, <1>l, <2>1, <2>4
    <2> QED BY <1>t, <1>w, <2>1, <2>2, <2>4, <2>5 DEF Types, TypeOK
<1>15. CASE Stop
    <2>1. /\ pc \notin {"start", "done", "failed"} /\ pc' = "failed"
          /\ UNCHANGED <<fixture, run, tree, process, verdict, results>>
        BY <1>15 DEF Stop
    <2>2. bundle' \in [Runs -> [Files -> Contents]]
        <3>1. CASE pc \in DOMAIN Writing /\ Write(Writing[pc], Torn)
            <4>1. run \in Runs /\ Writing[pc] \in Files /\ Torn \in Contents
                BY <1>0, <1>w, <3>1 DEF RunInv, AfterOpen, Files, Contents, Writing
            <4> QED BY <1>t, <3>1, <4>1, WriteFacts
        <3>2. CASE UNCHANGED bundle
            BY <1>t, <3>2
        <3> QED BY <1>15, <3>1, <3>2 DEF Stop
    <2> QED BY <1>t, <1>w, <2>1, <2>2 DEF Types, TypeOK
<1>16. CASE UNCHANGED vars
    BY <1>0, <1>16 DEF Types, TypeOK, vars
<1> QED BY <1>1, <1>2, <1>3, <1>4, <1>5, <1>6, <1>7, <1>9, <1>10, <1>11, <1>12, <1>13, <1>14,
           <1>15, <1>16 DEF Next, ProcessStep

LEMMA NextRunInv == SuiteInv /\ [Next]_vars => RunInv'
<1> SUFFICES ASSUME SuiteInv, [Next]_vars PROVE RunInv'
    OBVIOUS
<1>0. Types /\ RunInv
    BY DEF SuiteInv
<1>t. /\ run \in 0..NumRuns /\ NumRuns \in Nat \ {0}
      /\ runs \in Seq([passed : BOOLEAN, timedOut : BOOLEAN]) /\ Len(runs) \in Nat
    BY <1>0, SizesAssumption DEF Types, TypeOK
<1> USE DEF RunInv, AfterOpen, fixture, process, verdict, results, disk, Goto
<1>1. CASE StartSuite
    BY <1>0, <1>1 DEF StartSuite
<1>2. CASE Prepare
    <2>1. /\ pc' = "baseline" /\ run' = run + 1 /\ run < NumRuns /\ pc = "next"
          /\ runs' = runs /\ summary' = summary
        BY <1>2 DEF Prepare
    <2>2. run' \in Runs /\ Len(runs') <= run'
        BY <1>0, <1>t, <2>1 DEF Runs
    <2> QED BY <1>0, <2>1, <2>2
<1>3. CASE Baseline
    BY <1>0, <1>3 DEF Baseline
<1>4. CASE WriteSummary
    BY <1>0, <1>4 DEF WriteSummary
<1>5. CASE OpenBundle
    BY <1>0, <1>5 DEF OpenBundle
<1>6. CASE ProcessStep
    BY <1>0, <1>6, ProcessFacts
<1>7. CASE CommandReturns \/ WritePatch \/ Check \/ WriteVerification
    BY <1>0, <1>7 DEF CommandReturns, WritePatch, Check, WriteVerification
<1>8. CASE WriteFinal \/ WriteManifest
    BY <1>0, <1>8 DEF WriteFinal, WriteManifest
<1>9. CASE WriteReport
    <2>1. /\ pc = "report" /\ pc' = "next" /\ run' = run /\ summary' = summary
          /\ runs' = Append(runs, [passed |-> passed, timedOut |-> timedOut])
        BY <1>9 DEF WriteReport
    <2>2. Len(runs) = run - 1
        BY <1>0, <2>1 DEF Types, TypeOK, Writing
    <2>3. Len(runs') = Len(runs) + 1
        BY <1>t, <2>1
    <2>4. Len(runs') <= run'
        BY <1>t, <2>1, <2>2, <2>3
    <2> QED BY <1>0, <2>1, <2>4
<1>10. CASE Stop
    BY <1>0, <1>10 DEF Stop, Torn, Written
<1>11. CASE UNCHANGED vars
    BY <1>0, <1>11 DEF vars
<1> QED BY <1>1, <1>2, <1>3, <1>4, <1>5, <1>6, <1>7, <1>8, <1>9, <1>10, <1>11
        DEF Next, ProcessStep

\* What a stage needs of the bundle is what the stages before it have written.
LEMMA NextBundleInv == SuiteInv /\ [Next]_vars => BundleInv'
<1> SUFFICES ASSUME SuiteInv, [Next]_vars PROVE BundleInv'
    OBVIOUS
<1>0. Types /\ RunInv /\ BundleInv /\ run \in Nat /\ run \in 0..NumRuns
      /\ bundle \in [Runs -> [Files -> Contents]]
    BY SizesAssumption DEF SuiteInv, Types, TypeOK
<1> USE DEF AfterOpen, Intact, fixture, process, verdict, results, disk, Goto
<1>c. /\ "initial.tar" \in Files /\ "agent.patch" \in Files /\ "verification.json" \in Files
      /\ "final.tar" \in Files /\ "manifest.json" \in Files /\ "report.md" \in Files
      /\ {"base", Written, Torn, "passed", "failed"} \subseteq Contents
    BY DEF Files, Contents, Trees
<1>r. ASSUME NEW r \in Runs, NEW f \in Files, NEW g \in Files, NEW c \in Contents, Write(g, c),
             run \in Runs, r > run
      PROVE  bundle'[r][f] = Absent
    <2>1. r # run
        BY <1>0, <1>r
    <2>2. bundle'[r] = bundle[r]
        BY <1>0, <1>r, <2>1, WriteFacts
    <2> QED BY <1>0, <1>r, <2>2 DEF BundleInv
<1>1. CASE StartSuite
    BY <1>0, <1>1 DEF StartSuite, BundleInv
<1>2. CASE Prepare
    <2>1. pc' = "baseline" /\ run' = run + 1 /\ run < NumRuns /\ bundle' = bundle
        BY <1>2 DEF Prepare
    <2>2. run' \in Runs /\ run' > run /\ \A r \in Runs : r > run' => r > run
        BY <1>0, <2>1, SizesAssumption DEF Runs
    <2> QED BY <1>0, <2>1, <2>2 DEF BundleInv
<1>3. CASE Baseline
    BY <1>0, <1>3 DEF Baseline, BundleInv
<1>4. CASE WriteSummary
    BY <1>0, <1>4 DEF WriteSummary, BundleInv
<1>5. CASE OpenBundle
    <2>1. CASE tree = "base"
        <3>1. /\ pc = "experiment" /\ pc' = "agent" /\ run' = run /\ passed' = passed
              /\ Write("initial.tar", "base")
            BY <1>5, <2>1 DEF OpenBundle
        <3>2. run \in Runs
            BY <1>0, <3>1 DEF RunInv
        <3>3. bundle'[run]["initial.tar"] = "base" /\ bundle'[run]["manifest.json"] = Absent
            BY <1>0, <1>c, <3>1, <3>2, WriteFacts DEF BundleInv
        <3> QED BY <1>0, <1>r, <1>c, <3>1, <3>2, <3>3 DEF BundleInv
    <2>2. CASE tree # "base"
        BY <1>0, <1>5, <2>2 DEF OpenBundle, BundleInv
    <2> QED BY <2>1, <2>2
<1>6. CASE ProcessStep
    BY <1>0, <1>6, ProcessFacts DEF BundleInv
<1>7. CASE CommandReturns
    BY <1>0, <1>7 DEF CommandReturns, BundleInv
<1>8. CASE Check
    BY <1>0, <1>8 DEF Check, BundleInv
<1>w. ASSUME pc \in AfterOpen \ {"report"}, run' = run, passed' = passed,
             NEW f \in Files \ {"initial.tar"}, NEW c \in Contents, Write(f, c), c \notin {Absent, Torn},
             f = "manifest.json" <=> pc = "manifest"
      PROVE  /\ \A r \in Runs, g \in Files : r > run' => bundle'[r][g] = Absent
             /\ bundle'[run]["initial.tar"] = "base"
             /\ bundle'[run][f] = c
             /\ \A g \in Files : g # f => bundle'[run][g] = bundle[run][g]
    <2>1. run \in Runs
        BY <1>0, <1>w DEF RunInv
    <2>2. \A r \in Runs, g \in Files : r > run' => bundle'[r][g] = Absent
        BY <1>r, <1>w, <2>1
    <2>3. bundle'[run][f] = c /\ \A g \in Files : g # f => bundle'[run][g] = bundle[run][g]
        BY <1>0, <1>w, <2>1, WriteFacts
    <2> QED BY <1>0, <1>c, <1>w, <2>2, <2>3 DEF BundleInv
<1>9. CASE WritePatch
    <2>1. pc = "patch" /\ pc' = "check" /\ run' = run /\ passed' = passed /\ Write("agent.patch", Written)
        BY <1>9 DEF WritePatch
    <2> QED BY <1>0, <1>c, <1>w, <2>1 DEF BundleInv, Written, Absent, Torn
<1>10. CASE WriteVerification
    <2>1. /\ pc = "check" /\ pc' = "final" /\ run' = run /\ passed' = passed
          /\ Write("verification.json", IF passed THEN "passed" ELSE "failed")
        BY <1>10 DEF WriteVerification
    <2> QED BY <1>0, <1>c, <1>w, <2>1 DEF BundleInv, Absent, Torn
<1>11. CASE WriteFinal
    <2>1. CASE tree # "linked"
        <3>1. /\ pc = "final" /\ pc' = "manifest" /\ run' = run /\ passed' = passed
              /\ Write("final.tar", Written)
            BY <1>11, <2>1 DEF WriteFinal
        <3> QED BY <1>0, <1>c, <1>w, <3>1 DEF BundleInv, Written, Absent, Torn
    <2>2. CASE tree = "linked"
        BY <1>0, <1>11, <2>2 DEF WriteFinal, BundleInv
    <2> QED BY <2>1, <2>2
<1>12. CASE WriteManifest
    <2>1. /\ pc = "manifest" /\ pc' = "report" /\ run' = run /\ passed' = passed
          /\ Write("manifest.json", Written)
        BY <1>12 DEF WriteManifest
    <2> QED BY <1>0, <1>c, <1>w, <2>1 DEF BundleInv, Written, Absent, Torn
<1>13. CASE WriteReport
    <2>1. /\ pc = "report" /\ pc' = "next" /\ run' = run
          /\ Write("report.md", IF passed THEN "passed" ELSE "failed")
        BY <1>13 DEF WriteReport
    <2>2. run \in Runs
        BY <1>0, <2>1 DEF RunInv
    <2> QED BY <1>0, <1>c, <1>r, <2>1, <2>2 DEF BundleInv
<1>14. CASE Stop
    <2>1. pc' = "failed" /\ run' = run
        BY <1>14 DEF Stop
    <2>2. \A r \in Runs, g \in Files : r > run' => bundle'[r][g] = Absent
        <3>1. CASE pc \in DOMAIN Writing /\ Write(Writing[pc], Torn)
            <4>1. run \in Runs /\ Writing[pc] \in Files
                BY <1>0, <1>c, <3>1 DEF RunInv, Writing
            <4> QED BY <1>c, <1>r, <2>1, <3>1, <4>1
        <3>2. CASE UNCHANGED bundle
            BY <1>0, <2>1, <3>2 DEF BundleInv
        <3> QED BY <1>14, <3>1, <3>2 DEF Stop
    <2> QED BY <2>1, <2>2 DEF BundleInv
<1>15. CASE UNCHANGED vars
    BY <1>0, <1>15 DEF BundleInv, vars
<1> QED BY <1>1, <1>2, <1>3, <1>4, <1>5, <1>6, <1>7, <1>8, <1>9, <1>10, <1>11, <1>12, <1>13,
           <1>14, <1>15 DEF Next, ProcessStep

\* A manifest is written when all the rest is there, and torn with nothing else.
LEMMA NextManifestInv == SuiteInv /\ [Next]_vars => ManifestInv'
<1> SUFFICES ASSUME SuiteInv, [Next]_vars PROVE ManifestInv'
    OBVIOUS
<1>0. Types /\ RunInv /\ BundleInv /\ ManifestInv /\ bundle \in [Runs -> [Files -> Contents]]
    BY DEF SuiteInv, Types
<1> USE DEF AfterOpen, Intact, fixture, process, verdict, results, disk, Goto
<1>c. /\ Files = {"initial.tar", "agent.patch", "verification.json", "final.tar", "manifest.json", "report.md"}
      /\ {"base", Written, Torn, "passed", "failed"} \subseteq Contents
    BY DEF Files, Contents, Trees
<1>b. CASE UNCHANGED bundle
    BY <1>0, <1>b DEF ManifestInv
<1>w. ASSUME NEW f \in Files \ {"manifest.json"}, NEW c \in Contents, Write(f, c), run \in Runs,
             ~ Intact(run, "manifest.json")
      PROVE  ManifestInv'
    <2>1. "manifest.json" \in Files
        BY <1>c
    <2>2. /\ \A r \in Runs : r # run => bundle'[r] = bundle[r]
          /\ bundle'[run]["manifest.json"] = bundle[run]["manifest.json"]
        BY <1>0, <1>w, <2>1, WriteFacts
    <2> QED BY <1>0, <1>w, <2>2 DEF ManifestInv
<1>m. ASSUME NEW f \in {"manifest.json", "report.md"}, NEW c \in Contents, Write(f, c), run \in Runs,
             run' = run,
             \/ \A g \in Files \ {"manifest.json", "report.md"} : Intact(run, g)
             \/ f = "manifest.json" /\ c = Torn,
             f = "report.md" => Intact(run, "manifest.json")
      PROVE  ManifestInv'
    <2>1. f \in Files
        BY <1>c
    <2>2. /\ \A r \in Runs : r # run => bundle'[r] = bundle[r]
          /\ bundle'[run][f] = c
          /\ \A g \in Files : g # f => bundle'[run][g] = bundle[run][g]
        BY <1>0, <1>m, <2>1, WriteFacts
    <2>3. Intact(run, "manifest.json")' => \A g \in Files \ {"report.md"} : Intact(run, g)'
        BY <1>m, <1>c, <2>2
    <2> QED BY <1>0, <1>m, <2>2, <2>3 DEF ManifestInv
<1>1. CASE StartSuite \/ Prepare \/ Baseline \/ WriteSummary
    BY <1>b, <1>1 DEF StartSuite, Prepare, Baseline, WriteSummary
<1>2. CASE OpenBundle
    <2>1. CASE tree = "base"
        <3>1. pc = "experiment" /\ Write("initial.tar", "base")
            BY <1>2, <2>1 DEF OpenBundle
        <3>2. run \in Runs /\ ~ Intact(run, "manifest.json")
            BY <1>0, <1>c, <3>1 DEF RunInv, BundleInv
        <3> QED BY <1>c, <1>w, <3>1, <3>2
    <2>2. CASE tree # "base"
        BY <1>b, <1>2, <2>2 DEF OpenBundle
    <2> QED BY <2>1, <2>2
<1>3. CASE ProcessStep
    BY <1>0, <1>b, <1>3, ProcessFacts
<1>4. CASE CommandReturns \/ Check
    BY <1>b, <1>4 DEF CommandReturns, Check
<1>5. CASE WritePatch \/ WriteVerification
    <2>1. pc \in {"patch", "check"} /\ run \in Runs /\ ~ Intact(run, "manifest.json")
        BY <1>0, <1>5 DEF WritePatch, WriteVerification, RunInv, BundleInv
    <2> QED BY <1>5, <1>c, <1>w, <2>1 DEF WritePatch, WriteVerification
<1>6. CASE WriteFinal
    <2>1. pc = "final" /\ run \in Runs /\ ~ Intact(run, "manifest.json")
        BY <1>0, <1>6 DEF WriteFinal, RunInv, BundleInv
    <2> QED BY <1>6, <1>b, <1>c, <1>w, <2>1 DEF WriteFinal
<1>7. ASSUME pc \in {"manifest", "report"}
      PROVE  run \in Runs /\ \A g \in Files \ {"manifest.json", "report.md"} : Intact(run, g)
    <2>1. run \in Runs /\ Intact(run, "initial.tar") /\ Intact(run, "agent.patch")
          /\ Intact(run, "final.tar")
        BY <1>0, <1>7 DEF RunInv, BundleInv, Absent, Torn
    <2>2. Intact(run, "verification.json")
        BY <1>0, <1>7 DEF BundleInv, Absent, Torn
    <2> QED BY <1>c, <2>1, <2>2
<1>8. CASE WriteManifest
    BY <1>7, <1>8, <1>c, <1>m DEF WriteManifest
<1>9. CASE WriteReport
    <2>1. pc = "report" /\ Intact(run, "manifest.json")
        BY <1>0, <1>9 DEF WriteReport, BundleInv
    <2> QED BY <1>7, <1>9, <1>c, <1>m, <2>1 DEF WriteReport
<1>10. CASE Stop
    <2>1. CASE pc \in DOMAIN Writing /\ Write(Writing[pc], Torn)
        <3>1. CASE pc \in {"manifest", "report"}
            <4>1. Writing[pc] = IF pc = "manifest" THEN "manifest.json" ELSE "report.md"
                BY <3>1 DEF Writing
            <4>2. pc = "report" => Intact(run, "manifest.json")
                BY <1>0 DEF BundleInv
            <4>3. run' = run
                BY <1>10 DEF Stop
            <4> QED BY <1>7, <1>c, <1>m, <2>1, <3>1, <4>1, <4>2, <4>3
        <3>2. CASE pc \in {"patch", "check", "final", "experiment"}
            <4>1. run \in Runs /\ ~ Intact(run, "manifest.json")
                BY <1>0, <1>c, <3>2 DEF RunInv, BundleInv
            <4>2. Writing[pc] \in Files \ {"manifest.json"}
                BY <1>c, <3>2 DEF Writing
            <4> QED BY <1>c, <1>w, <2>1, <4>1, <4>2
        <3> QED BY <2>1, <3>1, <3>2 DEF Writing
    <2> QED BY <1>10, <1>b, <2>1 DEF Stop
<1>11. CASE UNCHANGED vars
    BY <1>b, <1>11 DEF vars
<1> QED BY <1>1, <1>2, <1>3, <1>4, <1>5, <1>6, <1>8, <1>9, <1>10, <1>11 DEF Next, ProcessStep

\* Bundles are only written at the run at hand, which is counted last of all.
LEMMA NextCountInv == SuiteInv /\ [Next]_vars => CountInv'
<1> SUFFICES ASSUME SuiteInv, [Next]_vars PROVE CountInv'
    OBVIOUS
<1>0. /\ Types /\ RunInv /\ BundleInv /\ CountInv /\ run \in Nat
      /\ bundle \in [Runs -> [Files -> Contents]]
      /\ runs \in Seq([passed : BOOLEAN, timedOut : BOOLEAN])
    BY SizesAssumption DEF SuiteInv, Types, TypeOK
<1> USE DEF AfterOpen, Intact, fixture, process, verdict, results, disk, Goto
<1>c. /\ Files = {"initial.tar", "agent.patch", "verification.json", "final.tar", "manifest.json", "report.md"}
      /\ {"base", Written, Torn, "passed", "failed"} \subseteq Contents
    BY DEF Files, Contents, Trees
<1>d. DOMAIN runs = 1..Len(runs) /\ Len(runs) \in Nat /\ DOMAIN runs \subseteq Runs
    <2>1. run \in 0..NumRuns
        BY <1>0 DEF Types, TypeOK
    <2> QED BY <1>0, <2>1, SizesAssumption DEF RunInv, Runs
<1>b. CASE UNCHANGED <<bundle, results>>
    BY <1>0, <1>b DEF CountInv, Passing
<1>w. ASSUME pc \in DOMAIN Writing, NEW f \in Files, NEW c \in Contents, Write(f, c), UNCHANGED results
      PROVE  CountInv'
    <2>1. run \in Runs /\ Len(runs) = run - 1
        BY <1>0, <1>w DEF RunInv, Types, TypeOK, Writing
    <2>2. \A r \in DOMAIN runs : r \in Runs /\ r # run
        BY <1>0, <1>d, <2>1
    <2>3. \A r \in DOMAIN runs : bundle'[r] = bundle[r]
        BY <1>0, <1>w, <2>1, <2>2, WriteFacts
    <2>4. Passing' = Passing
        BY <1>w, <2>3 DEF Passing
    <2> QED BY <1>0, <1>w, <2>3, <2>4 DEF CountInv
<1>1. CASE StartSuite \/ Prepare \/ Baseline \/ WriteSummary
    BY <1>b, <1>1 DEF StartSuite, Prepare, Baseline, WriteSummary
<1>2. CASE OpenBundle
    <2>1. CASE tree = "base"
        BY <1>2, <1>c, <1>w, <2>1 DEF OpenBundle, Writing
    <2>2. CASE tree # "base"
        BY <1>b, <1>2, <2>2 DEF OpenBundle
    <2> QED BY <2>1, <2>2
<1>3. CASE ProcessStep
    BY <1>0, <1>b, <1>3, ProcessFacts
<1>4. CASE CommandReturns \/ Check
    BY <1>b, <1>4 DEF CommandReturns, Check
<1>5. CASE WritePatch \/ WriteVerification
    BY <1>5, <1>c, <1>w DEF WritePatch, WriteVerification, Writing
<1>6. CASE WriteFinal \/ WriteManifest
    BY <1>6, <1>b, <1>c, <1>w DEF WriteFinal, WriteManifest, Writing
<1>7. CASE WriteReport
    <2>1. /\ pc = "report" /\ run' = run
          /\ Write("report.md", IF passed THEN "passed" ELSE "failed")
          /\ runs' = Append(runs, [passed |-> passed, timedOut |-> timedOut])
          /\ passedRuns' = IF passed THEN passedRuns + 1 ELSE passedRuns
        BY <1>7 DEF WriteReport
    <2>2. run \in Runs /\ Len(runs) = run - 1 /\ passed \in BOOLEAN /\ timedOut \in BOOLEAN
        BY <1>0, <2>1 DEF RunInv, Types, TypeOK, Writing
    <2>3. "report.md" \in Files /\ (IF passed THEN "passed" ELSE "failed") \in Contents
        BY <1>c
    <2>4. /\ \A r \in Runs : r # run => bundle'[r] = bundle[r]
          /\ bundle'[run]["report.md"] = IF passed THEN "passed" ELSE "failed"
          /\ \A g \in Files : g # "report.md" => bundle'[run][g] = bundle[run][g]
        BY <1>0, <2>1, <2>2, <2>3, WriteFacts
    <2>5. /\ DOMAIN runs' = DOMAIN runs \cup {run} /\ run \notin DOMAIN runs
          /\ \A r \in DOMAIN runs : runs'[r] = runs[r]
          /\ runs'[run].passed = passed
        <3>1. [passed |-> passed, timedOut |-> timedOut] \in [passed : BOOLEAN, timedOut : BOOLEAN]
            BY <2>2
        <3>2. /\ Len(runs') = run /\ DOMAIN runs' = 1..run
              /\ \A r \in 1..Len(runs) : runs'[r] = runs[r]
              /\ runs'[run] = [passed |-> passed, timedOut |-> timedOut]
            BY <1>0, <1>d, <2>1, <2>2, <3>1
        <3> QED BY <1>0, <1>d, <2>2, <3>2
    <2>6. bundle'[run]["verification.json"] = IF passed THEN "passed" ELSE "failed"
        BY <1>0, <1>c, <2>1, <2>4 DEF BundleInv
    <2>7. \A f \in Files : Intact(run, f)'
        <3>1. Intact(run, "initial.tar") /\ Intact(run, "agent.patch") /\ Intact(run, "final.tar")
              /\ Intact(run, "manifest.json")
            BY <1>0, <2>1 DEF BundleInv, Absent, Torn
        <3>2. Intact(run, "initial.tar")' /\ Intact(run, "agent.patch")' /\ Intact(run, "final.tar")'
              /\ Intact(run, "manifest.json")'
            BY <1>c, <2>1, <2>4, <3>1
        <3>3. Intact(run, "verification.json")' /\ Intact(run, "report.md")'
            BY <2>1, <2>4, <2>6 DEF Absent, Torn
        <3> QED BY <1>c, <3>2, <3>3
    <2>8. \A r \in DOMAIN runs : bundle'[r] = bundle[r]
        BY <1>d, <2>4, <2>5
    <2>9. \A r \in DOMAIN runs' : /\ \A f \in Files : Intact(r, f)'
                                  /\ runs'[r].passed = (bundle'[r]["verification.json"] = "passed")
        <3>1. ASSUME NEW r \in DOMAIN runs
              PROVE  /\ \A f \in Files : Intact(r, f)'
                     /\ runs'[r].passed = (bundle'[r]["verification.json"] = "passed")
            BY <1>0, <2>5, <2>8, <3>1 DEF CountInv
        <3>2. runs'[run].passed = (bundle'[run]["verification.json"] = "passed")
            BY <2>2, <2>5, <2>6
        <3>3. \A f \in Files : bundle'[run][f] \notin {Absent, Torn}
            BY <2>1, <2>7
        <3> QED BY <2>5, <3>1, <3>2, <3>3
    <2>10. Passing' = IF passed THEN Passing \cup {run} ELSE Passing
        BY <2>2, <2>5, <2>6, <2>8 DEF Passing
    <2>11. IsFiniteSet(Passing) /\ run \notin Passing
        <3>1. IsFiniteSet(DOMAIN runs)
            BY <1>d, FS_Interval
        <3> QED BY <2>5, <3>1, FS_Subset DEF Passing
    <2>12. passedRuns' = Cardinality(Passing')
        <3>1. Cardinality(Passing \cup {run}) = Cardinality(Passing) + 1
            BY <2>11, FS_AddElement
        <3> QED BY <1>0, <2>1, <2>10, <3>1 DEF CountInv
    <2> QED BY <2>9, <2>12 DEF CountInv
<1>8. CASE Stop
    <2>1. pc \in DOMAIN Writing => Writing[pc] \in Files
        BY <1>c DEF Writing
    <2> QED BY <1>8, <1>b, <1>c, <1>w, <2>1 DEF Stop
<1>9. CASE UNCHANGED vars
    BY <1>b, <1>9 DEF vars
<1> QED BY <1>1, <1>2, <1>3, <1>4, <1>5, <1>6, <1>7, <1>8, <1>9 DEF Next, ProcessStep

\* A verdict is lost by any objection and gained by none.
LEMMA NextVerdictInv == SuiteInv /\ [Next]_vars => VerdictInv'
<1> SUFFICES ASSUME SuiteInv, [Next]_vars PROVE VerdictInv'
    OBVIOUS
<1>0. Types /\ VerdictInv /\ n \in 1..(NumChecks + 1) /\ NumChecks \in Nat /\ checked \in Seq(Trees)
    BY SizesAssumption DEF SuiteInv, Types, TypeOK
<1> USE DEF AfterOpen, fixture, process, verdict, results, disk, Goto
<1>b. UNCHANGED fixture => BaselineFails' = BaselineFails
    BY DEF BaselineFails, Accepts
<1>e. UNCHANGED <<accepts, agent, checked>> => \A k \in Nat : Earned(k)' = Earned(k)
    BY DEF Earned, Accepts
<1>n. n - 1 \in Nat
    BY <1>0
<1>1. CASE StartSuite
    BY <1>1 DEF StartSuite, VerdictInv
<1>2. CASE Prepare
    BY <1>2 DEF Prepare, VerdictInv
<1>3. CASE Baseline
    <2>1. tree = "base" /\ UNCHANGED <<fixture, process, verdict>> /\ pc = "baseline"
        BY <1>0, <1>3 DEF Baseline, VerdictInv
    <2>2. pc' = "experiment" => BaselineFails
        BY <1>3, <2>1 DEF Baseline, BaselineFails
    <2>3. pc' \in {"failed", "experiment"}
        BY <1>3 DEF Baseline
    <2> QED BY <1>0, <1>b, <2>1, <2>2, <2>3 DEF VerdictInv
<1>4. CASE WriteSummary
    BY <1>4 DEF WriteSummary, VerdictInv
<1>5. CASE OpenBundle
    <2>1. pc' \in {"agent", "failed"} /\ pc = "experiment" /\ UNCHANGED <<fixture, verdict>>
        BY <1>5 DEF OpenBundle
    <2> QED BY <1>0, <1>b, <2>1 DEF VerdictInv
<1>6. CASE ProcessStep
    <2>1. /\ UNCHANGED <<accepts, mustFail, pc, n, passed, checked>>
          /\ agent \in {"none", "zero"} => agent' = agent
          /\ agent = "none" /\ left = "none" => UNCHANGED <<tree, left>> \/ pc = "agent"
        BY <1>0, <1>6, ProcessFacts
    <2>2. \A k \in Nat : Earned(k) => Earned(k)'
        BY <2>1 DEF Earned, Accepts
    <2>3. BaselineFails' = BaselineFails
        BY <2>1 DEF BaselineFails, Accepts
    <2> QED BY <1>0, <1>n, <2>1, <2>2, <2>3 DEF VerdictInv
<1>7. CASE CommandReturns
    <2>1. /\ pc = "agent" /\ pc' = "patch" /\ passed' = (agent = "zero")
          /\ UNCHANGED <<fixture, process, n, checked>>
        BY <1>7 DEF CommandReturns
    <2>2. n = 1 /\ checked = <<>> /\ BaselineFails
        BY <1>0, <2>1 DEF VerdictInv
    <2>3. agent = "zero" => Earned(0)'
        BY <2>1, <2>2 DEF Earned
    <2>4. n' - 1 = 0
        BY <2>1, <2>2
    <2> QED BY <1>b, <2>1, <2>2, <2>3, <2>4 DEF VerdictInv
<1>8. CASE WritePatch
    <2>1. pc = "patch" /\ pc' = "check" /\ UNCHANGED <<fixture, process, verdict>>
        BY <1>8 DEF WritePatch
    <2> QED BY <1>0, <1>b, <1>e, <1>n, <2>1 DEF VerdictInv
<1>9. CASE Check
    <2>1. /\ pc = "check" /\ pc' = pc /\ n <= NumChecks /\ n' = n + 1
          /\ passed' = (passed /\ Accepts(n, tree)) /\ checked' = Append(checked, tree)
          /\ UNCHANGED <<fixture, process>>
        BY <1>9 DEF Check
    <2>2. tree \in Trees /\ passed \in BOOLEAN
        BY <1>0 DEF Types, TypeOK
    <2>3. ASSUME NEW k \in Nat, k = n, passed' PROVE Earned(k)'
        <3>1. passed /\ Accepts(n, tree)
            BY <2>1, <2>3
        <3>2. agent = "zero" /\ Len(checked) = n - 1 /\ \A c \in 1..(n - 1) : Accepts(c, checked[c])
            BY <1>0, <2>1, <3>1 DEF VerdictInv, Earned
        <3>3. /\ Len(checked') = n
              /\ checked'[n] = tree
              /\ \A c \in 1..(n - 1) : checked'[c] = checked[c]
            BY <1>0, <2>1, <2>2, <3>2
        <3>4. \A c \in 1..n : Accepts(c, checked'[c])
            BY <1>0, <3>1, <3>2, <3>3
        <3>5. \A c \in 1..k : Accepts(c, checked[c])'
            BY <2>1, <2>3, <3>4 DEF Accepts
        <3> QED BY <2>1, <2>3, <3>2, <3>3, <3>5 DEF Earned
    <2>4. n' - 1 = n /\ n \in Nat
        BY <1>0, <2>1
    <2>5. passed' => Earned(n - 1)'
        BY <2>3, <2>4 DEF Earned
    <2> QED BY <1>0, <1>b, <2>1, <2>5 DEF VerdictInv
<1>10. CASE WriteVerification
    <2>1. pc = "check" /\ pc' = "final" /\ n > NumChecks /\ UNCHANGED <<fixture, process, verdict>>
        BY <1>10 DEF WriteVerification
    <2>2. n - 1 = NumChecks
        BY <1>0, <2>1
    <2>3. passed => Earned(NumChecks)
        BY <1>0, <2>1, <2>2 DEF VerdictInv
    <2> QED BY <1>0, <1>b, <1>e, <2>1, <2>3 DEF VerdictInv
<1>11. CASE WriteFinal \/ WriteManifest
    <2>1. /\ pc \in {"final", "manifest"} /\ pc' \in {"manifest", "report", "failed"}
          /\ UNCHANGED <<fixture, process, verdict>>
        BY <1>11 DEF WriteFinal, WriteManifest
    <2> QED BY <1>0, <1>b, <1>e, <2>1 DEF VerdictInv
<1>12. CASE WriteReport
    BY <1>12 DEF WriteReport, VerdictInv
<1>13. CASE Stop
    BY <1>13 DEF Stop, VerdictInv
<1>14. CASE UNCHANGED vars
    <2>1. UNCHANGED <<pc, tree, agent, left, n, checked, passed, fixture>>
        BY <1>14 DEF vars
    <2> QED BY <1>0, <1>b, <1>e, <1>n, <2>1 DEF VerdictInv
<1> QED BY <1>1, <1>2, <1>3, <1>4, <1>5, <1>6, <1>7, <1>8, <1>9, <1>10, <1>11, <1>12, <1>13, <1>14
        DEF Next, ProcessStep

\* A run that has been counted is left alone until the next one is prepared.
LEMMA NextPassesAreEarned == SuiteInv /\ [Next]_vars => PassesAreEarned'
<1> SUFFICES ASSUME SuiteInv, [Next]_vars PROVE PassesAreEarned'
    OBVIOUS
<1>0. /\ Types /\ RunInv /\ BundleInv /\ VerdictInv /\ PassesAreEarned
      /\ run \in Nat /\ runs \in Seq([passed : BOOLEAN, timedOut : BOOLEAN])
      /\ bundle \in [Runs -> [Files -> Contents]]
    BY SizesAssumption DEF SuiteInv, Types, TypeOK
<1> USE DEF AfterOpen, fixture, process, verdict, results, disk, Goto
<1>c. /\ "initial.tar" \in Files /\ "report.md" \in Files
      /\ {"passed", "failed"} \subseteq Contents
    BY DEF Files, Contents
<1>d. DOMAIN runs = 1..Len(runs) /\ Len(runs) \in Nat
    BY <1>0
<1>1. CASE WriteReport
    <2>1. /\ pc = "report" /\ run' = run /\ Write("report.md", IF passed THEN "passed" ELSE "failed")
          /\ runs' = Append(runs, [passed |-> passed, timedOut |-> timedOut])
          /\ UNCHANGED <<fixture, process, verdict>>
        BY <1>1 DEF WriteReport
    <2>2. Len(runs) = run - 1 /\ run \in Runs /\ passed \in BOOLEAN /\ timedOut \in BOOLEAN
        BY <1>0, <2>1 DEF RunInv, Types, TypeOK, Writing
    <2>3. runs'[run].passed = passed
        <3>1. [passed |-> passed, timedOut |-> timedOut] \in [passed : BOOLEAN, timedOut : BOOLEAN]
            BY <2>2
        <3>2. runs'[run] = [passed |-> passed, timedOut |-> timedOut]
            BY <1>0, <1>d, <2>1, <2>2, <3>1
        <3> QED BY <3>2
    <2>4. bundle'[run]["initial.tar"] = "base"
        <3>1. bundle'[run]["initial.tar"] = bundle[run]["initial.tar"]
            BY <1>0, <1>c, <2>1, <2>2, WriteFacts
        <3> QED BY <1>0, <2>1, <3>1 DEF BundleInv
    <2>5. passed => Earned(NumChecks) /\ BaselineFails
        BY <1>0, <2>1 DEF VerdictInv
    <2> QED BY <2>1, <2>3, <2>4, <2>5 DEF PassesAreEarned, Earned, BaselineFails, Checks, Accepts
<1>2. CASE Prepare
    <2>1. run' = run + 1 /\ runs' = runs /\ Len(runs) <= run
        BY <1>0, <1>2 DEF Prepare, RunInv
    <2>2. run' \notin DOMAIN runs'
        BY <1>0, <1>d, <2>1
    <2> QED BY <2>2 DEF PassesAreEarned
<1>3. ASSUME pc \in DOMAIN Writing \cup {"baseline", "agent"}, UNCHANGED <<run, results>>
      PROVE  PassesAreEarned'
    <2>1. Len(runs) = run - 1
        BY <1>0, <1>3 DEF Types, TypeOK
    <2>2. run' \notin DOMAIN runs'
        BY <1>0, <1>3, <1>d, <2>1
    <2> QED BY <2>2 DEF PassesAreEarned
<1>4. ASSUME UNCHANGED <<accepts, mustFail, run, runs, checked, bundle>>,
             agent = "zero" => agent' = agent
      PROVE  PassesAreEarned'
    BY <1>0, <1>4 DEF PassesAreEarned, Accepts
<1>5. CASE StartSuite \/ WriteSummary
    BY <1>4, <1>5 DEF StartSuite, WriteSummary
<1>6. CASE ProcessStep
    BY <1>0, <1>4, <1>6, ProcessFacts
<1>w. DOMAIN Writing = {"patch", "check", "final", "manifest", "report", "experiment"}
    BY DEF Writing
<1>7. CASE Baseline \/ OpenBundle \/ CommandReturns \/ WritePatch \/ Check
    BY <1>3, <1>7, <1>w DEF Baseline, OpenBundle, CommandReturns, WritePatch, Check
<1>8. CASE WriteVerification \/ WriteFinal \/ WriteManifest
    BY <1>3, <1>8, <1>w DEF WriteVerification, WriteFinal, WriteManifest
<1>9. CASE Stop
    <2>1. UNCHANGED <<fixture, run, tree, process, verdict, results>>
        BY <1>9 DEF Stop
    <2>2. CASE pc \in DOMAIN Writing \cup {"baseline", "agent"}
        BY <1>3, <2>1, <2>2
    <2>3. CASE pc \notin DOMAIN Writing \cup {"baseline", "agent"}
        BY <1>4, <1>9, <2>1, <2>3 DEF Stop
    <2> QED BY <2>2, <2>3
<1>10. CASE UNCHANGED vars
    BY <1>4, <1>10 DEF vars
<1> QED BY <1>1, <1>2, <1>5, <1>6, <1>7, <1>8, <1>9, <1>10 DEF Next, ProcessStep

-----------------------------------------------------------------------------
(* The theorems.                                                             *)

\* Every stage finds on disk what the stages before it have written, and hands
\* on the verdict they have come to.
THEOREM Invariance == Spec => []SuiteInv
<1>1. SuiteInv /\ [Next]_vars => SuiteInv'
    BY NextTypes, NextRunInv, NextBundleInv, NextManifestInv, NextCountInv, NextVerdictInv,
       NextPassesAreEarned DEF SuiteInv
<1> QED BY InitSuiteInv, <1>1, PTL DEF Spec

\* The variables keep their types and each finished run has been appended once.
THEOREM TypeCorrect == Spec => []TypeOK
<1>1. SuiteInv => TypeOK
    BY DEF SuiteInv, Types
<1> QED BY <1>1, Invariance, PTL

\* For any number of runs and checks, and wherever the suite stops, what reads
\* like complete evidence is, and a summary counts what the bundles say.
THEOREM EvidenceIsCompleteAlways == Spec => []EvidenceIsComplete
<1>1. SuiteInv => EvidenceIsComplete
    <2> SUFFICES ASSUME SuiteInv PROVE EvidenceIsComplete
        OBVIOUS
    <2>1. ManifestInv /\ CountInv /\ RunInv /\ Types
        BY DEF SuiteInv
    <2>2. ASSUME summary = Written PROVE DOMAIN runs = Runs
        <3>1. pc = "done" /\ run = NumRuns
            BY <2>1, <2>2 DEF RunInv
        <3>2. Len(runs) = NumRuns /\ runs \in Seq([passed : BOOLEAN, timedOut : BOOLEAN])
            BY <2>1, <3>1 DEF Types, TypeOK
        <3> QED BY <3>2 DEF Runs
    <2>3. summary = Written => Passing = {r \in Runs : bundle[r]["verification.json"] = "passed"}
        BY <2>2 DEF Passing
    <2> QED BY <2>1, <2>2, <2>3 DEF ManifestInv, CountInv, EvidenceIsComplete
<1> QED BY <1>1, Invariance, PTL

\* Every run that counts as passed had an agent that ended well and checks that
\* all accepted, on a fixture that had failed before where it had to.
THEOREM PassesAreEarnedAlways == Spec => []PassesAreEarned
<1>1. SuiteInv => PassesAreEarned
    BY DEF SuiteInv
<1> QED BY <1>1, Invariance, PTL
----------------------------------------------------------------------------
(* What is written stays.                                                    *)

\* The files of a run that a stage and those behind it are to write.
Ahead(stage) ==
    CASE stage \in {"baseline", "experiment"} -> Files
      [] stage \in {"agent", "patch"} -> Files \ {"initial.tar"}
      [] stage = "check" -> {"verification.json", "final.tar", "manifest.json", "report.md"}
      [] stage = "final" -> {"final.tar", "manifest.json", "report.md"}
      [] stage = "manifest" -> {"manifest.json", "report.md"}
      [] stage = "report" -> {"report.md"}
      [] OTHER -> {}

AheadInv == \A f \in Ahead(pc) : bundle[run][f] = Absent

Stays ==
    /\ \A r \in Runs, f \in Files : Intact(r, f) => bundle'[r][f] = bundle[r][f]
    /\ \A r \in DOMAIN runs : r \in DOMAIN runs' /\ runs'[r] = runs[r]

LEMMA AheadFacts ==
    /\ Ahead("baseline") = Files /\ Ahead("experiment") = Files
    /\ Ahead("agent") = Files \ {"initial.tar"} /\ Ahead("patch") = Files \ {"initial.tar"}
    /\ Ahead("check") = {"verification.json", "final.tar", "manifest.json", "report.md"}
    /\ Ahead("final") = {"final.tar", "manifest.json", "report.md"}
    /\ Ahead("manifest") = {"manifest.json", "report.md"} /\ Ahead("report") = {"report.md"}
    /\ Ahead("start") = {} /\ Ahead("next") = {} /\ Ahead("done") = {} /\ Ahead("failed") = {}
BY DEF Ahead

LEMMA AheadOfFiles == \A stage : Ahead(stage) \subseteq Files
BY DEF Ahead, Files

\* A step that writes a file of the run at hand which was not there ...
LEMMA WriteStays ==
    ASSUME SuiteInv, AheadInv, run \in Runs, run' = run,
           NEW file \in Ahead(pc), NEW content \in Contents, Write(file, content),
           Ahead(pc') \subseteq Ahead(pc) \ {file}, UNCHANGED runs
    PROVE  AheadInv' /\ Stays
<1>0. /\ bundle \in [Runs -> [Files -> Contents]] /\ file \in Files
      /\ bundle[run][file] = Absent
    BY AheadOfFiles DEF SuiteInv, Types, AheadInv
<1>1. /\ \A r \in Runs : r # run => bundle'[r] = bundle[r]
      /\ \A f \in Files : f # file => bundle'[run][f] = bundle[run][f]
    BY <1>0, WriteFacts
<1>2. AheadInv'
    <2>1. ASSUME NEW f \in Ahead(pc') PROVE bundle'[run][f] = Absent
        <3>1. f \in Ahead(pc) /\ f # file /\ f \in Files
            BY <2>1, AheadOfFiles
        <3> QED BY <1>1, <3>1 DEF AheadInv
    <2> QED BY <2>1 DEF AheadInv
<1>3. Stays
    BY <1>0, <1>1 DEF Stays, Intact
<1> QED BY <1>2, <1>3

\* ... and one that writes none.
LEMMA NothingWritten ==
    ASSUME AheadInv, UNCHANGED <<bundle, runs>>,
           Ahead(pc') = {} \/ (run' = run /\ Ahead(pc') \subseteq Ahead(pc))
    PROVE  AheadInv' /\ Stays
BY DEF AheadInv, Stays

LEMMA StaysStep == SuiteInv /\ AheadInv /\ [Next]_vars => AheadInv' /\ Stays
<1> SUFFICES ASSUME SuiteInv, AheadInv, [Next]_vars PROVE AheadInv' /\ Stays
    OBVIOUS
<1>0. /\ Types /\ RunInv /\ BundleInv
      /\ run \in 0..NumRuns /\ runs \in Seq([passed : BOOLEAN, timedOut : BOOLEAN])
      /\ bundle \in [Runs -> [Files -> Contents]]
    BY DEF SuiteInv, Types, TypeOK
<1>c. {"base", Written, Torn, "passed", "failed"} \subseteq Contents
    BY DEF Contents, Trees
<1>r. pc \in AfterOpen \cup {"baseline", "experiment"} => run \in Runs
    BY <1>0 DEF RunInv
<1> USE DEF fixture, process, verdict, results, disk, Goto
<1>1. CASE StartSuite \/ WriteSummary
    <2>1. pc' \in {"next", "failed", "done"} /\ UNCHANGED <<bundle, runs>>
        BY <1>1 DEF StartSuite, WriteSummary
    <2> QED BY <2>1, AheadFacts, NothingWritten
<1>2. CASE Prepare
    <2>1. pc' = "baseline" /\ run' = run + 1 /\ run < NumRuns /\ UNCHANGED <<bundle, runs>>
        BY <1>2 DEF Prepare
    <2>2. run' \in Runs /\ run' > run
        BY <1>0, <2>1, SizesAssumption DEF Runs
    <2>3. \A f \in Files : bundle'[run'][f] = Absent
        BY <1>0, <2>1, <2>2 DEF BundleInv
    <2>4. AheadInv'
        BY <2>1, <2>3, AheadFacts DEF AheadInv
    <2> QED BY <2>1, <2>4 DEF Stays
<1>3. CASE Baseline
    <2>1. pc = "baseline" /\ pc' \in {"failed", "experiment"} /\ UNCHANGED <<run, bundle, runs>>
        BY <1>3 DEF Baseline
    <2>2. Ahead(pc') = {} \/ Ahead(pc') \subseteq Ahead(pc)
        BY <2>1, AheadFacts
    <2> QED BY <2>1, <2>2, NothingWritten
<1>4. CASE OpenBundle
    <2>1. pc = "experiment" /\ UNCHANGED <<run, runs>>
        BY <1>4 DEF OpenBundle
    <2>2. CASE pc' = "agent" /\ Write("initial.tar", "base")
        <3>1. "initial.tar" \in Ahead(pc) /\ Ahead(pc') \subseteq Ahead(pc) \ {"initial.tar"}
            BY <2>1, <2>2, AheadFacts DEF Files
        <3> QED BY <1>c, <1>r, <2>1, <2>2, <3>1, WriteStays
    <2>3. CASE pc' = "failed" /\ UNCHANGED bundle
        BY <2>1, <2>3, AheadFacts, NothingWritten
    <2> QED BY <1>4, <2>2, <2>3 DEF OpenBundle
<1>5. CASE ProcessStep
    <2>1. UNCHANGED <<pc, run, bundle, runs>>
        BY <1>0, <1>5, ProcessFacts
    <2> QED BY <2>1, NothingWritten
<1>6. CASE CommandReturns \/ Check
    <2>1. /\ UNCHANGED <<run, bundle, runs>>
          /\ (pc = "agent" /\ pc' = "patch") \/ UNCHANGED pc
        BY <1>6 DEF CommandReturns, Check
    <2>2. Ahead(pc') \subseteq Ahead(pc)
        BY <2>1, AheadFacts
    <2> QED BY <2>1, <2>2, NothingWritten
<1>7. CASE WritePatch
    <2>1. pc = "patch" /\ pc' = "check" /\ UNCHANGED <<run, runs>> /\ Write("agent.patch", Written)
        BY <1>7 DEF WritePatch
    <2>2. "agent.patch" \in Ahead(pc) /\ Ahead(pc') \subseteq Ahead(pc) \ {"agent.patch"}
        BY <2>1, AheadFacts DEF Files
    <2> QED BY <1>c, <1>r, <2>1, <2>2, WriteStays DEF AfterOpen
<1>8. CASE WriteVerification
    <2>1. PICK c \in {"passed", "failed"} :
            /\ pc = "check" /\ pc' = "final" /\ UNCHANGED <<run, runs>>
            /\ Write("verification.json", c)
        BY <1>8 DEF WriteVerification
    <2>2. "verification.json" \in Ahead(pc) /\ Ahead(pc') \subseteq Ahead(pc) \ {"verification.json"}
        BY <2>1, AheadFacts
    <2> QED BY <1>c, <1>r, <2>1, <2>2, WriteStays DEF AfterOpen
<1>9. CASE WriteFinal
    <2>1. pc = "final" /\ UNCHANGED <<run, runs>>
        BY <1>9 DEF WriteFinal
    <2>2. CASE pc' = "manifest" /\ Write("final.tar", Written)
        <3>1. "final.tar" \in Ahead(pc) /\ Ahead(pc') \subseteq Ahead(pc) \ {"final.tar"}
            BY <2>1, <2>2, AheadFacts
        <3> QED BY <1>c, <1>r, <2>1, <2>2, <3>1, WriteStays DEF AfterOpen
    <2>3. CASE pc' = "failed" /\ UNCHANGED bundle
        BY <2>1, <2>3, AheadFacts, NothingWritten
    <2> QED BY <1>9, <2>2, <2>3 DEF WriteFinal
<1>10. CASE WriteManifest
    <2>1. pc = "manifest" /\ pc' = "report" /\ UNCHANGED <<run, runs>> /\ Write("manifest.json", Written)
        BY <1>10 DEF WriteManifest
    <2>2. "manifest.json" \in Ahead(pc) /\ Ahead(pc') \subseteq Ahead(pc) \ {"manifest.json"}
        BY <2>1, AheadFacts
    <2> QED BY <1>c, <1>r, <2>1, <2>2, WriteStays DEF AfterOpen
<1>11. CASE WriteReport
    <2>1. PICK c \in {"passed", "failed"} :
            /\ pc = "report" /\ pc' = "next" /\ UNCHANGED run
            /\ Write("report.md", c)
        BY <1>11 DEF WriteReport
    <2>2. runs' = Append(runs, [passed |-> passed, timedOut |-> timedOut])
        BY <1>11 DEF WriteReport
    <2>3. \A r \in DOMAIN runs : r \in DOMAIN runs' /\ runs'[r] = runs[r]
        BY <1>0, <2>2
    <2>4. bundle[run]["report.md"] = Absent /\ run \in Runs
        BY <1>r, <2>1, AheadFacts DEF AheadInv, AfterOpen
    <2>5. /\ \A r \in Runs : r # run => bundle'[r] = bundle[r]
          /\ \A f \in Files : f # "report.md" => bundle'[run][f] = bundle[run][f]
        BY <1>0, <1>c, <2>1, <2>4, WriteFacts DEF Files
    <2>6. Stays
        BY <2>3, <2>4, <2>5 DEF Stays, Intact
    <2>7. AheadInv'
        BY <2>1, AheadFacts DEF AheadInv
    <2> QED BY <2>6, <2>7
<1>12. CASE Stop
    <2>1. pc' = "failed" /\ UNCHANGED <<run, runs>>
        BY <1>12 DEF Stop
    <2>2. CASE UNCHANGED bundle
        BY <2>1, <2>2, AheadFacts, NothingWritten
    <2>3. CASE pc \in DOMAIN Writing /\ Write(Writing[pc], Torn)
        <3>1. /\ pc \in AfterOpen \cup {"experiment"} /\ Writing[pc] \in Ahead(pc)
            BY <2>3, AheadFacts DEF Writing, Files, AfterOpen
        <3>2. Ahead(pc') \subseteq Ahead(pc) \ {Writing[pc]}
            BY <2>1, AheadFacts
        <3> QED BY <1>c, <1>r, <2>1, <2>3, <3>1, <3>2, WriteStays
    <2> QED BY <1>12, <2>2, <2>3 DEF Stop
<1>13. CASE UNCHANGED vars
    BY <1>13, NothingWritten DEF vars
<1> QED BY <1>1, <1>2, <1>3, <1>4, <1>5, <1>6, <1>7, <1>8, <1>9, <1>10, <1>11, <1>12, <1>13
        DEF Next, ProcessStep

\* Evidence that is whole is never touched again, by a later run, a failure or a death.
THEOREM EvidenceStaysAlways == Spec => EvidenceStays
<1>1. Init => AheadInv
    BY AheadFacts DEF Init, AheadInv
<1>2. SuiteInv /\ AheadInv /\ [Next]_vars
        => AheadInv' /\ [/\ \A r \in Runs, f \in Files : Intact(r, f) => bundle'[r][f] = bundle[r][f]
                         /\ \A r \in DOMAIN runs : r \in DOMAIN runs' /\ runs'[r] = runs[r]]_vars
    BY StaysStep DEF Stays
<1> QED BY <1>1, <1>2, Invariance, PTL DEF Spec, EvidenceStays

----------------------------------------------------------------------------
(* The way to the end of a suite.                                            *)

RunsToGo(stage, r) ==
    CASE stage = "start" -> NumRuns + 1
      [] stage \in {"done", "failed"} -> 0
      [] OTHER -> NumRuns - r

\* The stages that are left of a run, of whose checks c is the next one.
StagesToGo(stage, c) ==
    CASE stage = "baseline" -> NumChecks + 9 [] stage = "experiment" -> NumChecks + 8
      [] stage = "agent" -> NumChecks + 7 [] stage = "patch" -> NumChecks + 6
      [] stage = "check" -> NumChecks + 6 - c
      [] stage = "final" -> 4 [] stage = "manifest" -> 3 [] stage = "report" -> 2
      [] stage = "next" -> 1
      [] OTHER -> 0

\* The runs that are left, then the stages that are left of this one.
ToGo == <<RunsToGo(pc, run), StagesToGo(pc, n)>>
Below(r, q) == r[1] < q[1] \/ (r[1] = q[1] /\ r[2] < q[2])
NearsTheEnd == Below(ToGo', ToGo)

\* The suite's own steps bring it nearer to its end; what its agents do, and leave
\* running, takes it neither nearer nor away.
SuiteNears == NearsTheEnd \/ (ProcessStep /\ UNCHANGED ToGo)

LEMMA StagesFacts ==
    ASSUME NEW c
    PROVE  /\ StagesToGo("baseline", c) = NumChecks + 9 /\ StagesToGo("experiment", c) = NumChecks + 8
           /\ StagesToGo("agent", c) = NumChecks + 7 /\ StagesToGo("patch", c) = NumChecks + 6
           /\ StagesToGo("check", c) = NumChecks + 6 - c
           /\ StagesToGo("final", c) = 4 /\ StagesToGo("manifest", c) = 3
           /\ StagesToGo("report", c) = 2 /\ StagesToGo("next", c) = 1
           /\ StagesToGo("start", c) = 0 /\ StagesToGo("done", c) = 0 /\ StagesToGo("failed", c) = 0
BY DEF StagesToGo

Stages == AfterOpen \cup {"start", "next", "baseline", "experiment", "done", "failed"}

LEMMA StageTypes ==
    ASSUME SuiteInv
    PROVE  /\ pc \in Stages /\ run \in 0..NumRuns /\ n \in 1..(NumChecks + 1)
           /\ NumRuns \in Nat \ {0} /\ NumChecks \in Nat \ {0}
BY SizesAssumption DEF SuiteInv, Types, TypeOK, Writing, Stages, AfterOpen

LEMMA ToGoFacts == SuiteInv => ToGo \in Nat \X Nat
<1> SUFFICES ASSUME SuiteInv PROVE ToGo \in Nat \X Nat
    OBVIOUS
<1>1. RunsToGo(pc, run) \in Nat
    BY StageTypes DEF RunsToGo
<1>2. StagesToGo(pc, n) \in Nat
    <2>1. \/ StagesToGo(pc, n) \in {0, 1, 2, 3, 4}
          \/ StagesToGo(pc, n) \in {NumChecks + 6, NumChecks + 7, NumChecks + 8, NumChecks + 9}
          \/ StagesToGo(pc, n) = NumChecks + 6 - n
        BY StageTypes, StagesFacts DEF Stages, AfterOpen
    <2> QED BY <2>1, StageTypes
<1> QED BY <1>1, <1>2 DEF ToGo

LEMMA NearsStep == ASSUME SuiteInv, [Next]_vars PROVE [SuiteNears]_vars
<1>0. /\ pc \in Stages /\ run \in 0..NumRuns /\ n \in 1..(NumChecks + 1)
      /\ NumRuns \in Nat \ {0} /\ NumChecks \in Nat \ {0}
    BY StageTypes
<1> USE DEF fixture, process, verdict, results, disk, Goto
\* A later stage of the same run ...
<1>a. ASSUME UNCHANGED run, pc \notin {"start", "done", "failed"}, pc' \notin {"start", "done", "failed"},
             StagesToGo(pc', n') < StagesToGo(pc, n)
      PROVE  NearsTheEnd
    BY <1>a DEF NearsTheEnd, ToGo, Below, RunsToGo
\* ... or the end.
<1>b. ASSUME UNCHANGED run, pc \notin {"done", "failed"}, pc' \in {"done", "failed"}
      PROVE  NearsTheEnd
    <2>1. RunsToGo(pc', run') = 0 /\ StagesToGo(pc', n') = 0
        BY <1>b, StagesFacts DEF RunsToGo, StagesToGo
    <2>2. CASE pc = "start"
        BY <1>0, <2>1, <2>2 DEF RunsToGo, NearsTheEnd, ToGo, Below
    <2>3. CASE pc # "start"
        <3>1. RunsToGo(pc, run) \in Nat
            BY <1>0, <1>b, <2>3 DEF RunsToGo
        <3>2. StagesToGo(pc, n) > 0
            <4>1. \/ StagesToGo(pc, n) \in {1, 2, 3, 4}
                  \/ StagesToGo(pc, n) \in {NumChecks + 6, NumChecks + 7, NumChecks + 8, NumChecks + 9}
                  \/ StagesToGo(pc, n) = NumChecks + 6 - n
                BY <1>0, <1>b, <2>3, StagesFacts DEF Stages, AfterOpen
            <4> QED BY <1>0, <4>1
        <3> QED BY <2>1, <3>1, <3>2 DEF NearsTheEnd, ToGo, Below
    <2> QED BY <2>2, <2>3
<1>1. ASSUME StartSuite PROVE NearsTheEnd
    <2>1. pc = "start" /\ pc' \in {"next", "failed"} /\ run' = run
        BY <1>1 DEF StartSuite
    <2>2. RunsToGo(pc, run) = NumRuns + 1 /\ RunsToGo(pc', run') \in {0, NumRuns - run}
        BY <2>1 DEF RunsToGo
    <2> QED BY <1>0, <2>2 DEF NearsTheEnd, ToGo, Below
<1>2. ASSUME Prepare PROVE NearsTheEnd
    <2>1. pc = "next" /\ pc' = "baseline" /\ run' = run + 1
        BY <1>2 DEF Prepare
    <2>2. RunsToGo(pc, run) = NumRuns - run /\ RunsToGo(pc', run') = NumRuns - (run + 1)
        BY <2>1 DEF RunsToGo
    <2> QED BY <1>0, <2>2 DEF NearsTheEnd, ToGo, Below
<1>3. ASSUME WriteSummary \/ Stop PROVE NearsTheEnd
    BY <1>b, <1>3 DEF WriteSummary, Stop
<1>4. ASSUME Baseline PROVE NearsTheEnd
    <2>1. pc = "baseline" /\ pc' \in {"failed", "experiment"} /\ UNCHANGED <<run, n>>
        BY <1>4 DEF Baseline
    <2> QED BY <1>0, <1>a, <1>b, <2>1, StagesFacts
<1>5. ASSUME OpenBundle PROVE NearsTheEnd
    <2>1. pc = "experiment" /\ pc' \in {"failed", "agent"} /\ UNCHANGED <<run, n>>
        BY <1>5 DEF OpenBundle
    <2> QED BY <1>0, <1>a, <1>b, <2>1, StagesFacts
<1>6. ASSUME CommandReturns \/ WritePatch PROVE NearsTheEnd
    <2>1. /\ \/ pc = "agent" /\ pc' = "patch"
             \/ pc = "patch" /\ pc' = "check"
          /\ UNCHANGED <<run, n>>
        BY <1>6 DEF CommandReturns, WritePatch
    <2> QED BY <1>0, <1>a, <2>1, StagesFacts
<1>7. ASSUME Check PROVE NearsTheEnd
    <2>1. pc = "check" /\ pc' = "check" /\ run' = run /\ n' = n + 1
        BY <1>7 DEF Check
    <2>2. StagesToGo(pc, n) = NumChecks + 6 - n /\ StagesToGo(pc', n') = NumChecks + 6 - (n + 1)
        BY <2>1 DEF StagesToGo
    <2>3. StagesToGo(pc', n') < StagesToGo(pc, n)
        BY <1>0, <2>2
    <2> QED BY <1>a, <2>1, <2>3
<1>8. ASSUME WriteVerification \/ WriteFinal \/ WriteManifest \/ WriteReport PROVE NearsTheEnd
    <2>1. /\ \/ pc = "check" /\ pc' = "final"
             \/ pc = "final" /\ pc' \in {"manifest", "failed"}
             \/ pc = "manifest" /\ pc' = "report"
             \/ pc = "report" /\ pc' = "next"
          /\ UNCHANGED <<run, n>>
        BY <1>8 DEF WriteVerification, WriteFinal, WriteManifest, WriteReport
    <2> QED BY <1>0, <1>a, <1>b, <2>1, StagesFacts
<1>9. ASSUME ProcessStep PROVE UNCHANGED ToGo
    BY <1>9, ProcessFacts DEF SuiteInv, ToGo
<1> QED BY <1>1, <1>2, <1>3, <1>4, <1>5, <1>6, <1>7, <1>8, <1>9 DEF Next, ProcessStep, SuiteNears

\* A suite cannot go on for ever by itself: each of its own steps leaves fewer runs, or
\* fewer stages and checks of this one, however its agents end and whatever they leave.
THEOREM SuiteNearsItsEnd == Spec => [](ToGo \in Nat \X Nat) /\ [][SuiteNears]_vars
<1>1. SuiteInv /\ [Next]_vars => [SuiteNears]_vars
    BY NearsStep
<1> QED BY <1>1, ToGoFacts, Invariance, PTL DEF Spec
=============================================================================
