----------------------------- MODULE GuardedMerge -----------------------------
(***************************************************************************)
(* What a graduation promises, whatever happens underneath: the candidate  *)
(* reaches main at most once, as the merge group one durable claim names,  *)
(* after exactly one release request made under that claim, and the        *)
(* operation is closed only after its merge.  Other changes may reach main *)
(* at any time.  MainGraduation is checked to implement this.              *)
(***************************************************************************)
EXTENDS Naturals

CONSTANT Generations    \* the merge groups the service may build

VARIABLES
    tip,                \* the tip of protected main
    claimed,            \* the group the durable claim names, 0 before
    requested,          \* release requests sent so far
    merged,             \* the group that was merged, 0 before
    closed              \* the completion package is durable

vars == <<tip, claimed, requested, merged, closed>>

Init ==
    /\ tip = "base" /\ claimed = 0 /\ requested = 0 /\ merged = 0
    /\ closed = FALSE

Claim ==
    /\ claimed = 0
    /\ claimed' \in Generations
    /\ UNCHANGED <<tip, requested, merged, closed>>

Request ==
    /\ claimed # 0 /\ requested = 0
    /\ requested' = 1
    /\ UNCHANGED <<tip, claimed, merged, closed>>

Merge ==
    /\ requested = 1 /\ merged = 0
    /\ tip = "base"
    /\ tip' = "candidate"
    /\ merged' = claimed
    /\ UNCHANGED <<claimed, requested, closed>>

Foreign ==
    /\ tip' = "foreign"
    /\ UNCHANGED <<claimed, requested, merged, closed>>

Close ==
    /\ merged # 0 /\ ~closed
    /\ closed' = TRUE
    /\ UNCHANGED <<tip, claimed, requested, merged>>

Next == Claim \/ Request \/ Merge \/ Foreign \/ Close

Spec == Init /\ [][Next]_vars
=============================================================================
