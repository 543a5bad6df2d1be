---------------------------- MODULE MCGraduation ----------------------------
(* The graduation to protected main at two levels of detail: the stage executor
   and its target slot file by file (MutationSlots), and one whole graduation
   (MainGraduation).  live says which of the two a behaviour is about; the other
   stays in its initial state. *)
EXTENDS MutationSlots, TLC

CONSTANTS MaxEpoch, MaxGeneration, Ttl, MaxDisturbances

VARIABLES
  live,     \* "slots" or "graduation"
  team,     \* slots: the runners and operations that take part
  gclock, main, epoch, ref, pr, entry, generations, admission, hold, checks, seen,
  J, S, ginflight, asked, gpc, stage, gwork, result, gcrashes

gvars == <<gclock, main, epoch, ref, pr, entry, generations, admission, hold, checks,
           seen, J, S, ginflight, asked, gpc, stage, gwork, result, gcrashes>>

Graduation ==
  INSTANCE MainGraduation WITH
    LeaseEnds <- 3, clock <- gclock, inflight <- ginflight, pc <- gpc, work <- gwork,
    crashes <- gcrashes

\* Two runners race on one operation (one of them may stop for good at any step), or
\* one runner serves two operations in turn and is stopped and restarted, or the clock
\* moves.
Teams ==
  {t \in [runners : SUBSET Runners, operations : SUBSET Operations] :
     Cardinality(t.runners) + Cardinality(t.operations) = 3}

InTeam ==
  /\ clock + crashes < MaxClock
  /\ \A r \in Runners :
       pc[r] # "idle" => r \in team.runners /\ Op(r) \in team.operations
  /\ targetLease \in team.operations \cup {NoLease}
  /\ Cardinality(team.runners) = 2 => clock = 0 /\ crashes = 0

\* What disturbs a graduation: ticks of the clock, a stop, an edit of the protection, a
\* rebuilt queue entry, another merge to main, a stage without an answer.
Disturbances ==
  gclock + gcrashes + epoch + (IF generations > 1 THEN 1 ELSE 0)
    + (IF main = "foreign" THEN 1 ELSE 0)
    + Cardinality({s \in DOMAIN S : S[s].outcome = "ambiguous"})

MCInit ==
  /\ Init /\ Graduation!Init
  /\ \/ live = "slots" /\ team \in Teams
     \/ live = "graduation" /\ team = NoRecord

MCNext ==
  \/ /\ live = "slots" /\ Next
     /\ UNCHANGED <<live, team, gvars>> /\ InTeam'
  \/ /\ live = "graduation" /\ Graduation!Next
     /\ UNCHANGED <<live, team, vars>> /\ Disturbances' <= MaxDisturbances

MCSpec == MCInit /\ [][MCNext]_<<live, team, vars, gvars>>

Symmetry == Permutations(Runners) \cup Permutations(Operations)
-----------------------------------------------------------------------------
(* The properties of MainGraduation, by name.                               *)

(* A merge is the merge of the group the durable hold, authorization and    *)
(* claim name, decided inside both windows, and the stages before it were   *)
(* each sent once, in the order of the plan.                                *)
MergedUnderClaim ==
  /\ Graduation!OneRequestPerStage /\ Graduation!StagesInOrder
  /\ Graduation!MergedUnderClaim

(* An operation is closed only over its own merge, and every journal record *)
(* of a graduation or of a stage is a valid instance of its contract.       *)
CompletionIsTrue == TypeOK /\ Graduation!TypeOK /\ Graduation!CompletionIsTrue

(* The coordinators, the journal and the hosted repository together         *)
(* implement GuardedMerge.                                                  *)
GuardedMergeHolds == Graduation!GuardedMergeHolds
=============================================================================
