------------------------ MODULE MCAdmissionLineage ------------------------
(* What one run records, for TLC: the lineage of its admitted candidates, and the history
   of its row and events.  live says which of the two a behaviour is about; the other
   stays in its initial state. *)
EXTENDS AdmissionLineage, TLC

CONSTANTS NoKey, NoRevision

VARIABLES live, historyRun, events, idem, historyCall

historyVars == <<historyRun, events, idem, historyCall>>

History ==
  INSTANCE RunHistory WITH
    run <- historyRun, call <- historyCall, MaxEvents <- 6

MCInit == live \in {"lineage", "history"} /\ Init /\ History!Init

MCNext ==
  \/ live = "lineage" /\ Next /\ UNCHANGED <<live, historyVars>>
  \/ live = "history" /\ History!Next /\ UNCHANGED <<live, vars>>

MCSpec == MCInit /\ [][MCNext]_<<live, vars, historyVars>>

\* Clients, candidates, admission ids and reviewers are interchangeable; the seed is
\* not a candidate.
Symmetry ==
  Permutations(Clients) \cup Permutations(Candidates) \cup Permutations(AdmissionIds)
    \cup Permutations(Reviewers)
-----------------------------------------------------------------------------
(* The properties of the history, by name.                                    *)

(* No update of the run row is lost: every event starts from the state its predecessor
   left, moves it along the transition table or not at all, and the last one left the
   state the row has (transition and every writer that appends an event). *)
HistoryIsPath == History!HistoryIsPath

(* Repeating a command with its idempotency key has one effect, however the repetitions
   interleave (transition). *)
OneEffectPerKey == History!OneEffectPerKey
=============================================================================
