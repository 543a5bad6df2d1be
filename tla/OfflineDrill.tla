---------------------------- MODULE OfflineDrill ----------------------------
(***************************************************************************)
(* The offline drill (C7): the preparation of the controller root          *)
(* (application/c7_controller_root_preparation.py), the run of the frozen  *)
(* pytest matrix (main_graduation_offline_drill_service.py with            *)
(* main_graduation_offline_pytest_executor.py and _identity.py) and its    *)
(* create-once journal (adapters/artifacts/                                *)
(* main_graduation_offline_drill_journal.py).                              *)
(*                                                                         *)
(* Runners are processes over one worktree and one journal root; nothing   *)
(* serializes them.  An index file is created empty and then written, so a *)
(* crash leaves it torn.  An index path holds the digest of what it names, *)
(* so the journal is the set of the records whose index exists.  The       *)
(* worktree changes under the runners; a change is never undone.           *)
(***************************************************************************)
EXTENDS OfflineDrillContracts

CONSTANTS
  Runners,         \* processes
  NoRun,           \* a runner that runs nothing
  MaxEdits,        \* bound on changes of the worktree
  MaxRuns,         \* bound on pytest runs
  MaxDrillTime     \* bound on the clock

VARIABLES
  drillNow,        \* the clock
  worktree,        \* [commit, dirty, tools]
  root,            \* the controller root file, or NoRecord
  index,           \* records whose index file is complete
  torn,            \* records whose index file exists and is empty
  runner,          \* Runners -> what the process is doing, or NoRun
  cached,          \* Runners -> the report its journal object has seen, or NoRecord
  ran,             \* run -> the worktree and the time pytest ran in
  prepared,        \* roots that were returned to their operators
  replayed         \* results that replay returned

drillVars == <<drillNow, worktree, root, index, torn, runner, cached, ran, prepared, replayed>>

\* ----- records in the journal ----------------------------------------------
Entry(kind, value) == [kind |-> kind, value |-> value]
Durable(kind) == {e.value : e \in {x \in index : x.kind = kind}}
Torn(kind) == {e.value : e \in {x \in torn : x.kind = kind}}

\* The manifest of the run: the controller derives it from the root it loads.
Authority ==
  [root |-> root, nodes |-> Matrix,
   identity |-> Identity(SourceTreeDigest(root.source), ToolIdentity(0))]

LoadControllerRoot == root # NoRecord /\ C7ControllerRoot(root)

InWindow == root.at <= drillNow /\ drillNow < root.until

\* read_execution_report: the digest it has seen, or the only one there is.
ReadExecutionReport(r) ==
  IF cached[r] # NoRecord THEN {cached[r]} ELSE Durable("report")

\* A torn index, a second report or a report that no longer binds raises.
ReportUnreadable(r) ==
  \/ cached[r] = NoRecord /\ Torn("report") # {}
  \/ Cardinality(ReadExecutionReport(r)) > 1
  \/ \E x \in ReadExecutionReport(r) : ~ReportBinds(x, Authority)

\* _load_complete_cases: every case/vector of the plan, and no torn one.
LoadCompleteCases(report) ==
  /\ \A v \in Vectors :
       \E c \in Durable("case") : c.vector = v /\ CaseBinds(c, report)
  /\ \A c \in Torn("case") : c.report # report.junit.run

ResultOf(report) ==
  [report |-> report.junit.run, before |-> report.before, after |-> report.after,
   cases |-> [i \in DOMAIN Matrix |-> CaseResult(Matrix[i], report.junit.run)]]

\* ----- runners --------------------------------------------------------------
At(r, step) == runner[r] # NoRun /\ runner[r].step = step
Goes(r, to) == runner' = [runner EXCEPT ![r] = to]
Step(r, step) == [runner[r] EXCEPT !.step = step]
Stops(r) == Goes(r, NoRun)

Call(step) ==
  [step |-> step, seen |-> NoRecord, before |-> NoRecord, junit |-> NoRecord,
   report |-> NoRecord, writing |-> NoRecord]

\* ----- preparation of the controller root -----------------------------------
\* observe_workspace_source: a first snapshot of a clean worktree.
PrepareStarts(r) ==
  /\ runner[r] = NoRun /\ root = NoRecord
  /\ IF GitIdentity(worktree) = NoRecord
     THEN UNCHANGED runner
     ELSE Goes(r, [Call("archive") EXCEPT !.seen = worktree.commit])
  /\ UNCHANGED <<drillNow, worktree, root, index, torn, cached, ran, prepared, replayed>>

\* The archive is digested and the snapshot taken again.
SourceObserved(r) ==
  /\ SourceTreeDigest(runner[r].seen) # NoRecord
  /\ GitIdentity(worktree) = runner[r].seen

Archive(r) ==
  /\ At(r, "archive")
  /\ IF SourceObserved(r)
     THEN Goes(r, [Step(r, "publish") EXCEPT !.report = BuildRoot(runner[r].seen, drillNow)])
     ELSE Stops(r)
  /\ UNCHANGED <<drillNow, worktree, root, index, torn, cached, ran, prepared, replayed>>

\* _write_create_once links a complete file; an existing root is kept.
PublishedRoot(r) == IF root = NoRecord THEN runner[r].report ELSE root

PublishRoot(r) ==
  /\ At(r, "publish")
  /\ root' = PublishedRoot(r)
  /\ prepared' = IF root' = runner[r].report THEN prepared \cup {runner[r].report} ELSE prepared
  /\ Stops(r)
  /\ UNCHANGED <<drillNow, worktree, index, torn, cached, ran, replayed>>

\* ----- observation of the worktree ------------------------------------------
\* An observation reads the source and then the tools; a failing one raises.
\* "check" compares it with the authority, "before" and "after" keep it.
Observes(r, next, keep) ==
  \/ /\ runner[r].seen = NoRecord
     /\ IF GitIdentity(worktree) = NoRecord \/ SourceTreeDigest(worktree.commit) = NoRecord
        THEN Stops(r)
        ELSE Goes(r, [runner[r] EXCEPT !.seen = SourceTreeDigest(worktree.commit)])
  \/ /\ runner[r].seen # NoRecord
     /\ LET seen == Identity(runner[r].seen, ToolIdentity(worktree.tools))
            on == [runner[r] EXCEPT !.step = next, !.seen = NoRecord]
        IN CASE seen.tools = NoRecord -> Stops(r)
             [] keep = "check" /\ seen.tools # NoRecord ->
                  IF seen = Authority.identity THEN Goes(r, on) ELSE Stops(r)
             [] keep = "before" /\ seen.tools # NoRecord -> Goes(r, [on EXCEPT !.before = seen])
             [] keep = "after" /\ seen.tools # NoRecord ->
                  IF seen = runner[r].before THEN Goes(r, on) ELSE Stops(r)

ObserveOnce(r) ==
  /\ \/ At(r, "validate") /\ Observes(r, "authority", "check")
     \/ At(r, "revalidate") /\ Observes(r, "before", "check")
     \/ At(r, "before") /\ Observes(r, "confirm", "before")
     \/ At(r, "confirm") /\ Observes(r, "pytest", "check")
     \/ At(r, "after") /\ Goes(r, Step(r, "report"))
  /\ UNCHANGED <<drillNow, worktree, root, index, torn, cached, ran, prepared, replayed>>

\* validate_authority before the run and again in execute, then
\* _measure_workspace before and after pytest: observe, then verify.
Observe(r) ==
  /\ \/ At(r, "validate") /\ Observes(r, "authority", "check")
     \/ At(r, "revalidate") /\ Observes(r, "before", "check")
     \/ At(r, "before") /\ Observes(r, "confirm", "before")
     \/ At(r, "confirm") /\ Observes(r, "pytest", "check")
     \/ At(r, "after") /\ Observes(r, "reconfirm", "after")
     \/ At(r, "reconfirm") /\ Observes(r, "report", "check")
  /\ UNCHANGED <<drillNow, worktree, root, index, torn, cached, ran, prepared, replayed>>

\* ----- the run -------------------------------------------------------------
RunStarts(r) ==
  /\ runner[r] = NoRun
  /\ LoadControllerRoot
  /\ PinnedAuthority(Authority, root)
  /\ InWindow
  /\ Goes(r, Call("validate"))
  /\ UNCHANGED <<drillNow, worktree, root, index, torn, cached, ran, prepared, replayed>>

\* _create_once: replay what is there, raise on a torn file, else create it empty.
Creates(r, e, next) ==
  /\ UNCHANGED <<drillNow, worktree, root, index, ran, prepared, replayed>>
  /\ \/ e \in torn /\ Stops(r) /\ UNCHANGED <<torn, cached>>
     \/ e \in index /\ Goes(r, Step(r, next)) /\ UNCHANGED torn
        /\ cached' = IF e.kind = "report" THEN [cached EXCEPT ![r] = e.value] ELSE cached
     \/ /\ e \notin torn \cup index
        /\ torn' = torn \cup {e}
        /\ Goes(r, [runner[r] EXCEPT !.writing = e])
        /\ UNCHANGED cached

\* The index is written and synced; the call goes on as on a replay.
WriteIndex(r) ==
  /\ runner[r] # NoRun /\ runner[r].writing # NoRecord
  /\ index' = index \cup {runner[r].writing}
  /\ torn' = torn \ {runner[r].writing}
  /\ Goes(r, [runner[r] EXCEPT !.writing = NoRecord])
  /\ UNCHANGED <<drillNow, worktree, root, cached, ran, prepared, replayed>>

Ready(r, step) == At(r, step) /\ runner[r].writing = NoRecord

RecordExecutionAuthority(r) ==
  Ready(r, "authority") /\ Creates(r, Entry("authority", root), "plan")

\* prepare: the plan that is there, or a new one.
Prepare(r) ==
  /\ Ready(r, "plan")
  /\ MainGraduationOfflineDrillPlan(Matrix)
  /\ Creates(r, Entry("plan", Matrix), "read")

\* run: the report that is there, or one execution in the window.
ReadReport(r) ==
  /\ At(r, "read")
  /\ IF ReportUnreadable(r) THEN Stops(r) /\ UNCHANGED cached
     ELSE IF ReadExecutionReport(r) # {}
     THEN \E x \in ReadExecutionReport(r) :
            /\ cached' = [cached EXCEPT ![r] = x]
            /\ Goes(r, [Step(r, "cases") EXCEPT !.report = x])
     ELSE /\ IF InWindow THEN Goes(r, Step(r, "revalidate")) ELSE Stops(r)
          /\ UNCHANGED cached
  /\ UNCHANGED <<drillNow, worktree, root, index, torn, ran, prepared, replayed>>

Junits(n) ==
  {[run |-> n, verdicts |-> vs] : vs \in
     {[i \in DOMAIN Matrix |-> "passed"],
      [i \in DOMAIN Matrix |-> IF i = 1 THEN "skipped" ELSE "passed"]}}

\* One subprocess: it exits nonzero or times out, or it leaves a JUnit file.
Pytest(r) ==
  /\ At(r, "pytest")
  /\ UNCHANGED <<drillNow, worktree, root, index, torn, cached, prepared, replayed>>
  /\ \/ Stops(r) /\ UNCHANGED ran
     \/ /\ InWindow /\ Len(ran) < MaxRuns
        /\ ran' = Append(ran, [worktree |-> worktree, at |-> drillNow])
        /\ \E j \in Junits(Len(ran) + 1) :
             Goes(r, [Step(r, "exited") EXCEPT !.junit = j])

Exited(r) ==
  /\ At(r, "exited")
  /\ IF InWindow THEN Goes(r, Step(r, "after")) ELSE Stops(r)
  /\ UNCHANGED <<drillNow, worktree, root, index, torn, cached, ran, prepared, replayed>>

\* The report names the clock after the second measurement.
Report(r) ==
  [before |-> runner[r].before, after |-> runner[r].before,
   observations |-> ParseJunit(runner[r].junit), at |-> drillNow,
   junit |-> runner[r].junit]

BuildReport(r) ==
  /\ At(r, "report")
  /\ IF MainGraduationOfflineExecutionReport(Report(r), Authority) /\ ReportBinds(Report(r), Authority)
     THEN Goes(r, [Step(r, "record") EXCEPT !.report = Report(r)])
     ELSE Stops(r)
  /\ UNCHANGED <<drillNow, worktree, root, index, torn, cached, ran, prepared, replayed>>

\* record_execution_report, with every reference of its observations re-read.
RecordExecutionReport(r) ==
  /\ Ready(r, "record")
  /\ NativeRefs({AuthorityRef}, runner[r].report.junit.run)
  /\ Creates(r, Entry("report", runner[r].report), "cases")

CaseOf(report, i) == CaseResult(report.observations[i], report.junit.run)

\* The first vector without a case record is recorded; then the aggregate.
RecordCases(r) ==
  /\ Ready(r, "cases")
  /\ LET x == runner[r].report
         missing == {i \in DOMAIN Matrix : CaseOf(x, i) \notin Durable("case")}
     IN IF missing = {}
        THEN /\ Goes(r, Step(r, "result"))
             /\ UNCHANGED <<drillNow, worktree, root, index, torn, cached, ran, prepared, replayed>>
        ELSE LET c == CaseOf(x, CHOOSE i \in missing : \A j \in missing : i <= j) IN
             /\ MainGraduationOfflineDrillCaseResult(c)
             /\ CaseBinds(c, x)
             /\ NativeRefs(c.refs, x.junit.run)
             /\ Creates(r, Entry("case", c), "cases")

\* record_result reads the whole matrix back before it records the aggregate.
RecordResult(r) ==
  /\ Ready(r, "result")
  /\ LET x == runner[r].report IN
     IF /\ LoadCompleteCases(x)
        /\ MainGraduationOfflineDrillResult(ResultOf(x))
        /\ ResultBinds(ResultOf(x), x)
     THEN Creates(r, Entry("result", ResultOf(x)), "complete")
     ELSE /\ Stops(r)
          /\ UNCHANGED <<drillNow, worktree, root, index, torn, cached, ran, prepared, replayed>>

Complete(r) ==
  /\ At(r, "complete") /\ Stops(r)
  /\ UNCHANGED <<drillNow, worktree, root, index, torn, cached, ran, prepared, replayed>>

\* ----- replay ---------------------------------------------------------------
\* read_result: the report it finds is the result's, and so is every case.
Verified(r, x) ==
  /\ ~ReportUnreadable(r)
  /\ \E y \in ReadExecutionReport(r) : ResultBinds(x, y) /\ LoadCompleteCases(y)

\* read_completed_result and _discover_result_identities: one unverifiable
\* result, or one torn index on the way, fails the read.
CompletedResults(r) ==
  IF \/ Torn("result") \cup Torn("authority") \cup Torn("report") # {}
     \/ \E x \in Durable("result") : ~Verified(r, x)
  THEN {} ELSE Durable("result")

\* replay consults neither the worktree nor the clock.
Replay(r) ==
  /\ runner[r] = NoRun /\ LoadControllerRoot
  /\ Cardinality(CompletedResults(r)) = 1
  /\ replayed' = replayed \cup CompletedResults(r)
  /\ UNCHANGED <<drillNow, worktree, root, index, torn, runner, cached, ran, prepared>>

\* ----- environment ----------------------------------------------------------
\* The process ends: what it held and what its journal object had seen are gone.
Crash(r) ==
  /\ runner[r] # NoRun \/ cached[r] # NoRecord
  /\ Stops(r)
  /\ cached' = [cached EXCEPT ![r] = NoRecord]
  /\ UNCHANGED <<drillNow, worktree, root, index, torn, ran, prepared, replayed>>

Edits == worktree.commit + worktree.tools + (IF worktree.dirty THEN 1 ELSE 0)

Edit ==
  /\ Edits < MaxEdits
  /\ worktree' \in {[worktree EXCEPT !.dirty = TRUE],
                    [worktree EXCEPT !.dirty = FALSE, !.commit = @ + 1],
                    [worktree EXCEPT !.tools = @ + 1]}
  /\ UNCHANGED <<drillNow, root, index, torn, runner, cached, ran, prepared, replayed>>

DrillTick ==
  /\ drillNow < MaxDrillTime
  /\ drillNow' = drillNow + 1
  /\ UNCHANGED <<worktree, root, index, torn, runner, cached, ran, prepared, replayed>>

DrillInit ==
  /\ drillNow = 0
  /\ worktree = [commit |-> 0, dirty |-> FALSE, tools |-> 0]
  /\ root = NoRecord
  /\ index = {} /\ torn = {}
  /\ runner = [r \in Runners |-> NoRun]
  /\ cached = [r \in Runners |-> NoRecord]
  /\ ran = <<>>
  /\ prepared = {} /\ replayed = {}

DrillNext ==
  \/ \E r \in Runners :
       \/ PrepareStarts(r) \/ Archive(r) \/ PublishRoot(r)
       \/ RunStarts(r) \/ Observe(r) \/ WriteIndex(r)
       \/ RecordExecutionAuthority(r) \/ Prepare(r) \/ ReadReport(r)
       \/ Pytest(r) \/ Exited(r) \/ BuildReport(r) \/ RecordExecutionReport(r)
       \/ RecordCases(r) \/ RecordResult(r) \/ Complete(r)
       \/ Replay(r) \/ Crash(r)
  \/ Edit
  \/ DrillTick

DrillSpec == DrillInit /\ [][DrillNext]_drillVars

\* ----- properties -----------------------------------------------------------
\* Every record behind a complete index satisfies its contract, an index is never
\* both complete and torn, and a torn one is being written or was left by a crash.
DrillTypeOK ==
  /\ drillNow \in 0..MaxDrillTime
  /\ root # NoRecord => C7ControllerRoot(root)
  /\ Durable("authority") \subseteq {root}
  /\ \A x \in Durable("report") : MainGraduationOfflineExecutionReport(x, Authority)
  /\ \A x \in Durable("case") : MainGraduationOfflineDrillCaseResult(x)
  /\ \A x \in Durable("result") : MainGraduationOfflineDrillResult(x)
  /\ index \cap torn = {}

\* A recorded drill result is about the pinned source: pytest ran, inside the
\* window of the authority, in a clean worktree of exactly the commit and the
\* tools the authority names, and every case of the matrix is durable under that
\* one report - whatever changed, expired or crashed in between, and whoever else
\* was running (execute, record_execution_report, record_result).
DrillResultTrue ==
  \A x \in Durable("result") :
    LET run == ran[x.report] IN
    /\ ~run.worktree.dirty
    /\ run.worktree.commit = root.source /\ run.worktree.tools = 0
    /\ root.at <= run.at /\ run.at < root.until
    /\ \A v \in Vectors : \E c \in Durable("case") : c.vector = v /\ c.report = x.report

\* Everyone is told the same: no two replays ever return different results, although
\* two concurrent runs may each record a report and a result, and every operator who
\* was handed a controller root was handed the one in the file (read_completed_result,
\* _write_create_once).
DrillAnswersAgree ==
  /\ Cardinality(replayed) <= 1
  /\ prepared \subseteq {root}
=============================================================================
