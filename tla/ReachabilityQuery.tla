-------------------------- MODULE ReachabilityQuery ---------------------------
(***************************************************************************)
(* What a run of tck-reach promises: asked whether a state satisfying the  *)
(* accepting labels is reachable in a transition system, it answers        *)
(* exactly once, and the answer is right.  Both reach::algorithm_t and     *)
(* covreach::algorithm_t are shown to implement this specification.        *)
(***************************************************************************)
EXTENDS TransitionSystem

VARIABLES
  ts,       \* the transition system the question is about
  verdict   \* "none", then REACHABLE true or false as reported in the stats

vars == <<ts, verdict>>

Verdicts == {"none", "reachable", "unreachable"}

Init == ts \in TransitionSystems /\ verdict = "none"

Answer ==
  /\ verdict = "none"
  /\ verdict' = IF AcceptingReachable(ts) THEN "reachable" ELSE "unreachable"
  /\ UNCHANGED ts

Next == Answer

Safety == Init /\ [][Next]_vars

Spec == Safety /\ WF_vars(Next)
=============================================================================
