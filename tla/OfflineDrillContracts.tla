----------------------- MODULE OfflineDrillContracts -----------------------
(***************************************************************************)
(* The records of the offline drill (C7) and the identities they pin:      *)
(* contracts/main_graduation_offline_drill.py, application/                *)
(* c7_controller_root.py and the pure parts of main_graduation_offline_    *)
(* identity.py and main_graduation_offline_pytest_executor.py.             *)
(*                                                                         *)
(* A worktree is [commit, dirty, tools]; Trees gives the archive entries   *)
(* of a commit and Toolchains what the probe of a toolchain prints; a      *)
(* commit and a toolchain stand for their digests.  The frozen matrix of   *)
(* 15 cases and 47 vectors is the sequence Matrix of vectors.  There is    *)
(* one authority, a function of the controller root, and the records that  *)
(* name its digest leave it out; a JUnit file names its times, so the run  *)
(* it came from stands for the digest of a report.                         *)
(***************************************************************************)
EXTENDS Integers, Sequences, FiniteSetsExt

CONSTANTS
  Matrix,          \* the frozen case/vector matrix, in order
  Trees,           \* commit -> set of [path, kind, bytes]
  Toolchains,      \* tools  -> [env, uv, lock, interpreter, pytest, plugins, entries]
  MaxBytes,        \* bound on an archive and on a distribution set
  Ttl,             \* ttl_seconds, at most MAX_CONTROLLER_ROOT_WINDOW_SECONDS
  NoRecord         \* nothing

Vectors == {Matrix[i] : i \in DOMAIN Matrix}

Total(files) == MapThenSumSet(LAMBDA f : f.bytes, files)

\* ----- source identity ----------------------------------------------------
\* Only bounded regular files and directories under the destination, once each.
ExtractArchive(tree) ==
  /\ \A e \in tree : e.kind \in {"file", "directory"} /\ e.inside
  /\ \A e, f \in tree : e.path = f.path => e = f
  /\ Total({e \in tree : e.kind = "file"}) <= MaxBytes

\* A clean Git root, its HEAD commit and the digest of the archived tree.
GitIdentity(w) == IF w.dirty THEN NoRecord ELSE w.commit

SourceTreeDigest(commit) ==
  IF ExtractArchive(Trees[commit]) THEN commit ELSE NoRecord

\* ----- toolchain identity -------------------------------------------------
\* Every file of the RECORD is a bounded member; the RECORD lists itself.
RuntimeDistributionIdentity(d) == d.recordsItself /\ d.bytes <= MaxBytes

\* The probe of the locked child: each plugin entry point has its distribution.
UvRuntimeIdentity(t) ==
  /\ RuntimeDistributionIdentity(t.pytest)
  /\ \A d \in t.plugins : RuntimeDistributionIdentity(d)
  /\ Total(t.plugins \cup {t.pytest}) <= MaxBytes
  /\ {d.name : d \in t.plugins} = t.entries

\* A PATH is required, and uv resolved on it.
SanitizedChildEnvironment(t) == t.path # "" /\ t.uv # ""

ToolIdentity(tools) ==
  LET t == Toolchains[tools] IN
  IF SanitizedChildEnvironment(t) /\ UvRuntimeIdentity(t) THEN tools ELSE NoRecord

\* C7WorkspaceIdentity: read of the source, then of the tools.
Identity(source, tools) == [source |-> source, tools |-> tools]

\* ----- records ------------------------------------------------------------
C7ControllerRoot(r) == r.at < r.until /\ r.until - r.at <= Ttl

BuildRoot(source, at) == [source |-> source, at |-> at, until |-> at + Ttl]

\* The manifest the controller derives from its root and the measured tools.
MainGraduationOfflineExecutionAuthority(a) ==
  /\ a.root.at < a.root.until
  /\ a.nodes = Matrix
  /\ a.identity.source # NoRecord /\ a.identity.tools # NoRecord

\* verify_execution_authority pins the authority and its controller root.
PinnedAuthority(a, root) == MainGraduationOfflineExecutionAuthority(a) /\ a.root = root

\* _parse_junit: one observation per node, in order, when every node passed.
ParseJunit(junit) ==
  IF \A i \in DOMAIN Matrix : junit.verdicts[i] = "passed" THEN Matrix ELSE <<>>

MainGraduationOfflineExecutionReport(r, a) ==
  /\ r.observations = Matrix
  /\ r.at <= a.root.until
  /\ r.before = r.after

\* _bind_report_to_authority and _validate_junit_against_report.
ReportBinds(r, a) ==
  /\ r.at >= a.root.at
  /\ r.before = a.identity
  /\ r.observations = ParseJunit(r.junit)

\* The frozen cases of the operation.
MainGraduationOfflineDrillPlan(p) == p = Matrix

\* _validate_native_refs / _parse_native: what a reference of kind authority or
\* report holds is the authority or the report the record is about.
NativeRefs(refs, report) ==
  \A ref \in refs : ref.kind = "authority" \/ (ref.kind = "report" /\ ref.of = report)

AuthorityRef == [kind |-> "authority", of |-> NoRecord]
ReportRef(report) == [kind |-> "report", of |-> report]

MainGraduationOfflineDrillCaseResult(c) ==
  /\ c.vector \in Vectors
  /\ AuthorityRef \in c.refs
  /\ {ref \in c.refs : ref.kind = "report"} = {ReportRef(c.report)}

\* _case_result: the observation's evidence and the two execution records.
CaseResult(vector, report) ==
  [vector |-> vector, report |-> report, refs |-> {AuthorityRef, ReportRef(report)}]

\* _bind_case_to_dependencies.
CaseBinds(c, report) ==
  /\ c.report = report.junit.run
  /\ \E i \in DOMAIN report.observations : report.observations[i] = c.vector
  /\ c.refs = {AuthorityRef, ReportRef(c.report)}

MainGraduationOfflineDrillResult(r) ==
  /\ [i \in DOMAIN r.cases |-> r.cases[i].vector] = Matrix
  /\ \A i \in DOMAIN r.cases : r.cases[i].report = r.report
  /\ r.before = r.after

\* _bind_result_to_dependencies.
ResultBinds(r, report) ==
  /\ r.report = report.junit.run
  /\ r.before = report.before /\ r.after = report.after
=============================================================================
