--------------------------- MODULE TransitionSystem ---------------------------
(***************************************************************************)
(* The interface between the exploration algorithms and the models they    *)
(* explore: tchecker::ts::ts_t (ts/ts.hh).  An algorithm only calls        *)
(* initial(mask), next(s, mask) and satisfies(s, labels), so a transition  *)
(* system is the set of its initial states (with status STATE_OK), the     *)
(* set of STATE_OK successors of every state and the states that satisfy   *)
(* the accepting labels, together with the covering relation NODE_LE that  *)
(* the caller plugs into the graph.                                        *)
(***************************************************************************)
CONSTANTS
  State,             \* the symbolic states of the explored systems
  Event,             \* the transition labels (tuples of edges, tchecker::vedge_t)
  TransitionSystems  \* the systems an exploration may be started on

(* What the virtual methods initial, next and satisfies return.  Distinct  *)
(* transitions may lead to the same state.                                 *)
TransitionSystemType ==
  [init : SUBSET State, next : [State -> SUBSET (Event \X State)],
   accept : SUBSET State, le : SUBSET (State \X State)]

Successors(t, s) == {tr[2] : tr \in t.next[s]}

Le(t, s, u) == <<s, u>> \in t.le

(* The zone-inclusion and simulation orders used as NODE_LE are preorders. *)
IsPreorder(t) ==
  /\ \A s \in State : Le(t, s, s)
  /\ \A s, u, v \in State : Le(t, s, u) /\ Le(t, u, v) => Le(t, s, v)

(* The requirement of covreach/algorithm.hh on NODE_LE: "the covering      *)
(* relation over nodes in GRAPH should be a trace inclusion".  Every order *)
(* tck-reach plugs in is a simulation that keeps the accepting labels.     *)
IsTraceInclusion(t) ==
  \A s, u \in State : Le(t, s, u) =>
    /\ s \in t.accept => u \in t.accept
    /\ \A sn \in Successors(t, s) : \E un \in Successors(t, u) : Le(t, sn, un)

ASSUME SystemsAssumption ==
  \A t \in TransitionSystems :
    t \in TransitionSystemType /\ IsPreorder(t) /\ IsTraceInclusion(t)

-----------------------------------------------------------------------------
(* Reachability, defined without recursion as membership in every set that *)
(* holds the initial states and is closed under successors.                *)

IsClosed(t, C) == t.init \subseteq C /\ \A s \in C : Successors(t, s) \subseteq C

Reachable(t) == {s \in State : \A C \in SUBSET State : IsClosed(t, C) => s \in C}

AcceptingReachable(t) == \E s \in Reachable(t) : s \in t.accept
==============================================================================
