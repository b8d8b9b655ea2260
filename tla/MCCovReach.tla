------------------------------ MODULE MCCovReach ------------------------------
(***************************************************************************)
(* Instances of CovReach: every transition system with three states, one   *)
(* event and any simulation preorder as the covering relation, and systems *)
(* with four states where several removals, moved edges and two            *)
(* transitions to the same state occur in one expansion.                   *)
(***************************************************************************)
EXTENDS CovReach

Preorders(S) ==
  {r \in SUBSET (S \X S) :
     /\ \A s \in S : <<s, s>> \in r
     /\ \A s, u, v \in S : <<s, u>> \in r /\ <<u, v>> \in r => <<s, v>> \in r}

FourStates == 1 .. 4
TwoEvents == {"a", "b"}

(* Systems with the first three states and the event "a"; 4 is unreachable. *)
ThreeStates == 1 .. 3

Successors3 ==
  {[s \in FourStates |-> IF s = 4 THEN {} ELSE f[s]] :
     f \in [ThreeStates -> SUBSET ({"a"} \X ThreeStates)]}

Preorders3 == {r \cup {<<4, 4>>} : r \in Preorders(ThreeStates)}

SystemsOfThree(init, accept) ==
  {t \in [init : {init}, next : Successors3, accept : {accept}, le : Preorders3] :
     IsTraceInclusion(t)}

AllSystemsOfThree == SystemsOfThree({1}, {}) \cup SystemsOfThree({1, 2}, {3})

(* 1 <= 2 <= 3 with 4 apart, or 2 and 3 below 4.                           *)
Identity == {<<s, s>> : s \in FourStates}
Chain == Identity \cup {<<1, 2>>, <<1, 3>>, <<2, 3>>}
Fork == Identity \cup {<<2, 4>>, <<3, 4>>}

RichSystems ==
  {t \in [init : {{1}, {1, 4}},
          next : [FourStates -> {{<<"a", 2>>}, {<<"a", 3>>, <<"b", 3>>},
                                 {<<"a", 1>>, <<"b", 2>>, <<"b", 3>>},
                                 {<<"a", 2>>, <<"a", 3>>, <<"b", 4>>}, {}}],
          accept : {{}, {4}},
          le : {Chain, Fork}] : IsTraceInclusion(t)}

Systems == AllSystemsOfThree \cup RichSystems
=============================================================================
