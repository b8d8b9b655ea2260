-------------------------------- MODULE MCReach -------------------------------
(***************************************************************************)
(* Transition systems with three states, two events and at most two        *)
(* transitions per state, one or two initial states, and none or one       *)
(* accepting state.  Reach uses no covering relation.                      *)
(***************************************************************************)
EXTENDS Reach

ThreeStates == 1 .. 3
TwoEvents == {"a", "b"}

(* No transition, one, two to distinct states or two to the same state.    *)
TransitionSets ==
  {{}, {<<"a", 1>>}, {<<"a", 2>>}, {<<"a", 3>>}, {<<"a", 2>>, <<"b", 2>>},
   {<<"a", 2>>, <<"a", 3>>}, {<<"a", 1>>, <<"b", 3>>}, {<<"a", 3>>, <<"b", 2>>}}

Systems ==
  [init : {{1}, {1, 2}},
   next : [ThreeStates -> TransitionSets],
   accept : {{}, {3}},
   le : {{<<s, s>> : s \in ThreeStates}}]
=============================================================================
