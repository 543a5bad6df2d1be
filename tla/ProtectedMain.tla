---------------------------- MODULE ProtectedMain ----------------------------
(***************************************************************************)
(* The hosted repository a graduation works against, as the read-only      *)
(* provider src/avo_correlate/adapters/hosted_git/protected_main.py sees   *)
(* it: the protected branch, the candidate ref and its pull request, the   *)
(* singleton merge queue, the isolated App's check runs and the validation *)
(* checks of the merge group.                                              *)
(*                                                                         *)
(* The repository itself is an external service: the actions of this       *)
(* module are what the service and its other users do on their own (merge  *)
(* somebody else's change, edit the protection, rebuild the queue entry,   *)
(* finish a check, merge a released group).  The observations below are    *)
(* the provider's methods: a predicate that says when the method returns   *)
(* instead of raising, and an operator for what it returns.  The mutations *)
(* are sent by MainGraduation and by MainGraduationGitHub.                 *)
(***************************************************************************)
EXTENDS Integers

CONSTANTS
    NoRecord,       \* a check run that does not exist
    MaxClock,       \* bound: last instant of the trusted clock
    MaxEpoch,       \* bound: edits of the protection rules
    MaxGeneration   \* bound: queue entries (and entry states) of the PR

VARIABLES
    clock,          \* trusted_clock.now()
    main,           \* tip of refs/heads/main: "base", "candidate", "foreign"
    epoch,          \* protection_epoch of the effective rules
    ref,            \* refs/heads/avo/candidate/<op>: "absent" or "exact"
    pr,             \* the pull request: "absent", "open", "merged"
    entry,          \* generation of its queue entry, 0 when not queued
    generations,    \* generations used so far
    admission,      \* the isolated App's success on the PR head
    hold,           \* the isolated App's check on the merge group
    checks,         \* the validation App's checks on the merge group
    seen            \* provider._seen_webhook_deliveries, one per generation

hosted == <<main, epoch, ref, pr, entry, generations, admission, hold, checks>>
worldVars == <<clock, hosted, seen>>

CheckRuns == [at : 0..MaxClock, gen : 0..MaxGeneration,
              status : {"pending", "success"}]

WorldTypeOK ==
    /\ clock \in 0..MaxClock
    /\ main \in {"base", "candidate", "foreign"}
    /\ epoch \in 0..MaxEpoch
    /\ ref \in {"absent", "exact"}
    /\ pr \in {"absent", "open", "merged"}
    /\ entry \in 0..MaxGeneration
    /\ generations \in 0..MaxGeneration
    /\ admission \in CheckRuns \cup {NoRecord}
    /\ hold \in CheckRuns \cup {NoRecord}
    /\ checks \in CheckRuns \cup {NoRecord}
    /\ seen \subseteq 1..MaxGeneration

WorldInit ==
    /\ clock = 0
    /\ main = "base"
    /\ epoch = 0
    /\ ref = "absent"
    /\ pr = "absent"
    /\ entry = 0
    /\ generations = 0
    /\ admission = NoRecord
    /\ hold = NoRecord
    /\ checks = NoRecord
    /\ seen = {}

-----------------------------------------------------------------------------
(* What the service and its other users do.                                *)

Tick ==
    /\ clock < MaxClock
    /\ clock' = clock + 1
    /\ UNCHANGED <<hosted, seen>>

(* An administrator edits the branch protection: a new protection epoch.   *)
ChangeProtection ==
    /\ epoch < MaxEpoch
    /\ epoch' = epoch + 1
    /\ UNCHANGED <<clock, main, ref, pr, entry, generations, admission, hold,
                   checks, seen>>

(* Another change reaches main.  A queued entry is rebuilt on the new base *)
(* and gets a new generation.                                              *)
AdvanceMain ==
    /\ main # "foreign"
    /\ entry > 0 => generations < MaxGeneration
    /\ main' = "foreign"
    /\ entry' = IF entry > 0 THEN generations + 1 ELSE 0
    /\ generations' = IF entry > 0 THEN generations + 1 ELSE generations
    /\ UNCHANGED <<clock, epoch, ref, pr, admission, hold, checks, seen>>

(* The entry changes state or is rebuilt: both enter the digest the        *)
(* provider calls the queue generation (entry_id and entry_state).         *)
RebuildEntry ==
    /\ entry > 0
    /\ generations < MaxGeneration
    /\ entry' = generations + 1
    /\ generations' = generations + 1
    /\ UNCHANGED <<clock, main, epoch, ref, pr, admission, hold, checks, seen>>

ValidateGroup ==
    /\ entry > 0
    /\ checks' = [at |-> clock, gen |-> entry, status |-> "success"]
    /\ checks # checks'
    /\ UNCHANGED <<clock, main, epoch, ref, pr, entry, generations, admission,
                   hold, seen>>

(* The queue merges the group once every required check of it is green.    *)
MergeGroup ==
    /\ entry > 0 /\ main = "base"
    /\ hold # NoRecord /\ hold.gen = entry /\ hold.status = "success"
    /\ checks # NoRecord /\ checks.gen = entry
    /\ main' = "candidate"
    /\ pr' = "merged"
    /\ entry' = 0
    /\ UNCHANGED <<clock, epoch, ref, generations, admission, hold, checks, seen>>

Service == ChangeProtection \/ AdvanceMain \/ RebuildEntry \/ ValidateGroup
           \/ MergeGroup

-----------------------------------------------------------------------------
(* What the provider observes.                                             *)

(* observe_queue_configuration: only of an empty queue.                    *)
QueueConfigurationReadable == entry = 0

ObserveQueueConfiguration == [base |-> main, epoch |-> epoch]

ObserveProtection == [epoch |-> epoch]

(* observe_queue: exactly one entry, on the current base, under the        *)
(* configuration the caller holds.                                         *)
QueueReadable(config) ==
    /\ entry > 0
    /\ ObserveQueueConfiguration = config

ObserveQueue(config, admitted) ==
    [gen |-> entry, config |-> config, admission |-> admitted]

(* observe_merge_group: the delivery is new to this process and the queue  *)
(* is still the durable one; the PR is still open.                         *)
MergeGroupReadable(queue) ==
    /\ QueueReadable(queue.config)
    /\ entry = queue.gen
    /\ entry \notin seen
    /\ pr = "open"

ObserveMergeGroup == [gen |-> entry, at |-> clock]

(* observe_pr_head_admission_check and observe_group_hold_check: the one   *)
(* run of the isolated App, not older than the cutoff.                     *)
AdmissionCheckReadable(cutoff) ==
    /\ admission # NoRecord
    /\ admission.at >= cutoff

GroupHoldReadable(gen, cutoff) ==
    /\ hold # NoRecord
    /\ hold.gen = gen
    /\ hold.status = "pending"
    /\ hold.at >= cutoff

(* observe_merge_group_checks: the pending hold and every validation check *)
(* of the group, none older than the cutoff.                               *)
MergeGroupChecksReadable(gen, cutoff) ==
    /\ GroupHoldReadable(gen, cutoff)
    /\ checks # NoRecord
    /\ checks.gen = gen
    /\ checks.at >= cutoff

ObserveMergeGroupChecks(gen, cutoff) ==
    [gen |-> gen, cutoff |-> cutoff, at |-> clock]

(* MainGraduationAttester.attest_admission, attest_hold: the evidence      *)
(* agrees with the snapshot it cites and the check behind it is fresh.     *)
AttestAdmission(observation, config, cutoff) ==
    /\ observation.config = config
    /\ AdmissionCheckReadable(cutoff)
    /\ admission.at <= clock

AttestHold(evidence, admitted, group, queue, cutoff) ==
    /\ evidence.admission = admitted
    /\ evidence.gen = queue.gen
    /\ evidence.webhook = group
    /\ GroupHoldReadable(group.gen, cutoff)
    /\ hold.at <= clock
=============================================================================
