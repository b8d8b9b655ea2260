------------------------------- MODULE CovReach -------------------------------
(***************************************************************************)
(* covreach::algorithm_t, the covering reachability algorithm run by       *)
(* tck-reach for the zone graphs (-a covreach, aLU, gsim, gta_gsim).  The  *)
(* cover graph is the set of its nodes, the waiting container the set of   *)
(* its waiting elements and the directed graph the set of its edges; the   *)
(* containers themselves are the subject of CoverGraph, DirectedGraph and  *)
(* FastRemoveWaiting.  The order in which ts.initial and ts.next enumerate *)
(* states, the covering node found first and the waiting node chosen by    *)
(* the policy are left open.                                               *)
(***************************************************************************)
EXTENDS TransitionSystem, Naturals, FiniteSets

CONSTANT NoNode   \* the null node pointer

VARIABLES
  ts,       \* the transition system that is explored
  pc,       \* control: "initial", "loop", "expand", "insert" or "done"
  stored,   \* nodes stored in the cover graph
  waiting,  \* nodes in the waiting container
  fresh,    \* the vector nodes / next_nodes of the nodes just created
  current,  \* the node that is being expanded
  todo,     \* the vector sst: what initial / next returned, still to be handled
  edges,    \* edges of the subsumption graph
  created,  \* number of nodes constructed so far, the source of node names
  stats     \* covreach::stats_t

vars ==
  <<ts, pc, stored, waiting, fresh, current, todo, edges, created, stats>>

(* A node is an object, not a state: two nodes may hold the same state.    *)
(* Names increase with creation, so a vector filled by push_back is the    *)
(* set of its nodes read in the order of their names.                      *)
Node == [id : Nat \ {0}, state : State]

EdgeKind == {"actual", "subsumption"}

(* tr is the transition *t that add_edge copies into the edge: its event   *)
(* and the state it leads to, which is the state of the target node only   *)
(* as long as the edge is an actual one.                                   *)
Edge == [src : Node, tgt : Node, kind : EdgeKind, tr : Event \X State]

LeNode(m, n) == Le(ts, m.state, n.state)

NewNode(s) == [id |-> created + 1, state |-> s]

(* graph.is_covered(n, covering_node): some other stored node is above.    *)
CoveringNodes(s) == {m \in stored : Le(ts, s, m.state)}

(* Mutants: covered_nodes does not skip n itself, or only returns nodes    *)
(* that still wait.                                                        *)
CoveredNodesWithSelf(n) == {m \in stored : LeNode(m, n)}
CoveredNodesWaiting(n) == {m \in waiting : m # n /\ LeNode(m, n)}

(* graph.covered_nodes(n): the other stored nodes below n.                 *)
CoveredNodes(n) == {m \in stored : m # n /\ LeNode(m, n)}

(* Mutant: the vector of next nodes is read from its back. *)
NewestFresh(n) == n \in fresh /\ \A m \in fresh : m.id <= n.id

OldestFresh(n) == n \in fresh /\ \A m \in fresh : n.id <= m.id

-----------------------------------------------------------------------------
Init ==
  /\ ts \in TransitionSystems
  /\ pc = "initial"
  /\ stored = {} /\ waiting = {} /\ fresh = {} /\ edges = {}
  /\ current = NoNode
  /\ todo = ts.init
  /\ created = 0
  /\ stats = [visited |-> 0, covered |-> 0, stored |-> 0, reachable |-> FALSE]

(* expand_initial_nodes, one initial state that is already covered: its    *)
(* node is added, found covered and removed.                               *)
ExpandInitialCovered(s) ==
  /\ pc = "initial" /\ s \in todo
  /\ CoveringNodes(s) # {}
  /\ todo' = todo \ {s}
  /\ created' = created + 1
  /\ stats' = [stats EXCEPT !.covered = @ + 1]
  /\ UNCHANGED <<ts, pc, stored, waiting, fresh, current, edges>>

(* expand_initial_nodes, one initial state that is not covered so far.     *)
ExpandInitialMaximal(s) ==
  /\ pc = "initial" /\ s \in todo
  /\ CoveringNodes(s) = {}
  /\ todo' = todo \ {s}
  /\ created' = created + 1
  /\ stored' = stored \cup {NewNode(s)}
  /\ fresh' = fresh \cup {NewNode(s)}
  /\ UNCHANGED <<ts, pc, waiting, current, edges, stats>>

(* run: the initial nodes enter the waiting container, without any removal *)
(* of the nodes they cover.                                                *)
InsertInitial ==
  /\ pc = "initial" /\ todo = {}
  /\ waiting' = waiting \cup fresh
  /\ fresh' = {}
  /\ pc' = "loop"
  /\ UNCHANGED <<ts, stored, current, todo, edges, created, stats>>

(* run: take the first waiting node and stop on an accepting one; break    *)
(* leads to waiting->clear() and stored_states = nodes_count().            *)
VisitAccepting(n) ==
  /\ pc = "loop" /\ n \in waiting
  /\ n.state \in ts.accept
  /\ stats' = [stats EXCEPT !.visited = @ + 1, !.reachable = TRUE,
                            !.stored = Cardinality(stored)]
  /\ waiting' = {}
  /\ pc' = "done"
  /\ UNCHANGED <<ts, stored, fresh, current, todo, edges, created>>

(* run: take the first waiting node and start expanding it.                *)
Visit(n) ==
  /\ pc = "loop" /\ n \in waiting
  /\ n.state \notin ts.accept
  /\ stats' = [stats EXCEPT !.visited = @ + 1]
  /\ waiting' = waiting \ {n}
  /\ current' = n
  /\ todo' = ts.next[n.state]
  /\ pc' = "expand"
  /\ UNCHANGED <<ts, stored, fresh, edges, created>>

(* expand_next_nodes, a successor that is covered by the stored node m.    *)
ExpandNextCovered(tr, m) ==
  /\ pc = "expand" /\ tr \in todo
  /\ m \in CoveringNodes(tr[2])
  /\ todo' = todo \ {tr}
  /\ created' = created + 1
  /\ edges' = edges \cup
       {[src |-> current, tgt |-> m, kind |-> "subsumption", tr |-> tr]}
  /\ stats' = [stats EXCEPT !.covered = @ + 1]
  /\ UNCHANGED <<ts, pc, stored, waiting, fresh, current>>

(* expand_next_nodes, a successor that no stored node covers.              *)
ExpandNextMaximal(tr) ==
  /\ pc = "expand" /\ tr \in todo
  /\ CoveringNodes(tr[2]) = {}
  /\ todo' = todo \ {tr}
  /\ created' = created + 1
  /\ stored' = stored \cup {NewNode(tr[2])}
  /\ fresh' = fresh \cup {NewNode(tr[2])}
  /\ edges' = edges \cup
       {[src |-> current, tgt |-> NewNode(tr[2]), kind |-> "actual", tr |-> tr]}
  /\ UNCHANGED <<ts, pc, waiting, current, stats>>

EndExpand ==
  /\ pc = "expand" /\ todo = {}
  /\ pc' = "insert"
  /\ UNCHANGED <<ts, stored, waiting, fresh, current, todo, edges, created, stats>>

(* Mutant: remove_edges is called before move_incoming_edges.             *)
EdgesAllRemoved(gone, n) == {e \in edges : e.src \notin gone /\ e.tgt \notin gone}

(* remove_covered_nodes: the edges into a removed node now enter n and     *)
(* become subsumption edges; the edges out of a removed node disappear.    *)
MoveIncoming(e, gone, n) ==
  IF e.tgt \in gone THEN [e EXCEPT !.tgt = n, !.kind = "subsumption"] ELSE e

EdgesAfterRemoval(gone, n) ==
  {MoveIncoming(e, gone, n) : e \in {f \in edges : f.src \notin gone}}

(* Mutant: covered_nodes is incremented once per new node. *)
InsertNextCountsOnce(n) ==
  /\ pc = "insert" /\ OldestFresh(n)
  /\ fresh' = fresh \ {n}
  /\ stored' = stored \ CoveredNodes(n)
  /\ edges' = EdgesAfterRemoval(CoveredNodes(n), n)
  /\ waiting' = (waiting \cup {n}) \ CoveredNodes(n)
  /\ stats' = IF CoveredNodes(n) = {} THEN stats ELSE [stats EXCEPT !.covered = @ + 1]
  /\ UNCHANGED <<ts, pc, current, todo, created>>

(* run, body of the loop over nodes: insert the next node into waiting,    *)
(* then remove from the graph and from waiting every node it covers.       *)
InsertNext(n) ==
  /\ pc = "insert" /\ OldestFresh(n)
  /\ fresh' = fresh \ {n}
  /\ stored' = stored \ CoveredNodes(n)
  /\ edges' = EdgesAfterRemoval(CoveredNodes(n), n)
  /\ waiting' = (waiting \cup {n}) \ CoveredNodes(n)
  /\ stats' = [stats EXCEPT !.covered = @ + Cardinality(CoveredNodes(n))]
  /\ UNCHANGED <<ts, pc, current, todo, created>>

EndInsert ==
  /\ pc = "insert" /\ fresh = {}
  /\ current' = NoNode
  /\ pc' = "loop"
  /\ UNCHANGED <<ts, stored, waiting, fresh, todo, edges, created, stats>>

(* Mutant: the loop is not left when the container is empty. *)
FinishKeepsLooping ==
  /\ pc = "loop" /\ waiting = {}
  /\ stats' = [stats EXCEPT !.stored = Cardinality(stored)]
  /\ UNCHANGED <<ts, pc, stored, waiting, fresh, current, todo, edges, created>>

(* run: the waiting container is empty, the exploration is complete.       *)
Finish ==
  /\ pc = "loop" /\ waiting = {}
  /\ stats' = [stats EXCEPT !.stored = Cardinality(stored)]
  /\ pc' = "done"
  /\ UNCHANGED <<ts, stored, waiting, fresh, current, todo, edges, created>>

Terminated == pc = "done" /\ UNCHANGED vars

Next ==
  \/ \E s \in todo : ExpandInitialCovered(s) \/ ExpandInitialMaximal(s)
  \/ InsertInitial
  \/ \E n \in waiting : VisitAccepting(n) \/ Visit(n)
  \/ \E tr \in todo : \E m \in stored : ExpandNextCovered(tr, m)
  \/ \E tr \in todo : ExpandNextMaximal(tr)
  \/ EndExpand
  \/ \E n \in fresh : InsertNext(n)
  \/ EndInsert
  \/ Finish
  \/ Terminated

Safety == Init /\ [][Next]_vars

Spec == Safety /\ WF_vars(Next)

-----------------------------------------------------------------------------
(* The kinds of the values that run keeps in its local variables.          *)
TypeOK ==
  /\ ts \in TransitionSystems
  /\ pc \in {"initial", "loop", "expand", "insert", "done"}
  /\ stored \subseteq Node /\ IsFiniteSet(stored)
  /\ waiting \subseteq Node /\ fresh \subseteq Node
  /\ current \in Node \cup {NoNode}
  /\ pc = "initial" => todo \subseteq State
  /\ pc # "initial" => todo \subseteq Event \X State
  /\ edges \subseteq Edge
  /\ created \in Nat
  /\ stats \in [visited : Nat, covered : Nat, stored : Nat, reachable : BOOLEAN]

(* Only nodes of the graph wait: a node that is removed from the graph by  *)
(* remove_covered_nodes is never visited or inserted afterwards, although  *)
(* it may sit in the waiting container, or in the vector of next nodes,    *)
(* when it is removed.                                                     *)
WaitingStored ==
  /\ waiting \subseteq stored
  /\ fresh \subseteq stored
  /\ waiting \cap fresh = {}

(* A node that was visited and is still in the graph.                      *)
Expanded(n) ==
  /\ n \in stored /\ n \notin waiting /\ n \notin fresh
  /\ pc = "expand" => n # current
  /\ ~ stats.reachable

(* Every edge is between stored nodes (move_incoming_edges and             *)
(* remove_edges leave no edge of a removed node behind) and is labelled    *)
(* with a transition of its source whose target state is the state of the  *)
(* target node (actual edge) or is covered by it (subsumption edge).  "An  *)
(* edge is created for each transition in ts": an expanded node keeps an   *)
(* edge for each of its transitions, whatever is removed later.            *)
EdgesSound ==
  \A e \in edges :
    /\ e.src \in stored /\ e.tgt \in stored
    /\ e.tr \in ts.next[e.src.state]
    /\ Le(ts, e.tr[2], e.tgt.state)
    /\ e.kind = "actual" => e.tgt.state = e.tr[2]

EdgesRepresentTransitions ==
  /\ EdgesSound
  /\ \A n \in stored : Expanded(n) =>
       \A tr \in ts.next[n.state] : \E e \in edges : e.src = n /\ e.tr = tr

(* When no initial state covers another one, no stored node covers another *)
(* stored node, except for next nodes that were not processed yet.         *)
Antichain ==
  (\A s, u \in ts.init : s # u => ~ Le(ts, s, u))
    => \A m, n \in stored \ fresh : m # n => ~ LeNode(m, n)

(* What is covered by the graph remains covered, although nodes disappear: *)
(* removals never lose states of the explored part.                        *)
CoverageMonotone ==
  [][\A s \in State : CoveringNodes(s) # {} => CoveringNodes(s)' # {}]_vars

(* The counters of covreach::stats_t add up: every node constructed is     *)
(* either still stored or counted as covered.                              *)
NodesAccounted == created = Cardinality(stored) + stats.covered

(* The answer is the right one: an accepting state is reported iff one is  *)
(* reachable.                                                              *)
VerdictCorrect == pc = "done" => (stats.reachable <=> AcceptingReachable(ts))

(* An exploration that was not cut short covers all the reachable states.  *)
GraphCoversReachable ==
  pc = "done" /\ ~ stats.reachable =>
    \A s \in Reachable(ts) : CoveringNodes(s) # {}

(* The exploration ends.                                                   *)
Termination == <>(pc = "done")

Verdict ==
  IF pc # "done" THEN "none"
  ELSE IF stats.reachable THEN "reachable" ELSE "unreachable"

Query == INSTANCE ReachabilityQuery WITH verdict <- Verdict

(* covreach::algorithm_t implements the reachability query.                *)
AnswersQuery == Query!Safety

-----------------------------------------------------------------------------
(* The inductive invariant behind the theorems of CovReachProofs.          *)

(* Names are never reused while the node is stored.                        *)
NamesUnique ==
  /\ \A n \in stored : n.id <= created
  /\ \A m, n \in stored : m.id = n.id => m = n

(* A next node is never covered by a next node created before it: this is  *)
(* what keeps the nodes still to be inserted in the graph.                 *)
FreshOrder == \A m, n \in fresh : m.id < n.id => ~ LeNode(n, m)

ControlOK ==
  /\ pc \in {"loop", "done"} => fresh = {}
  /\ pc = "initial" => stored = fresh /\ todo \subseteq ts.init
  /\ pc = "insert" => todo = {}
  /\ pc = "expand" =>
       /\ current \in stored /\ current \notin waiting /\ current \notin fresh
       /\ todo \subseteq ts.next[current.state]
  /\ stats.reachable => pc = "done"
  /\ pc = "done" => waiting = {}

StoredReachable ==
  /\ \A n \in stored : n.state \in Reachable(ts)
  /\ stats.reachable => \E n \in stored : n.state \in ts.accept

InitCovered ==
  \A s \in ts.init : (pc = "initial" /\ s \in todo) \/ CoveringNodes(s) # {}

(* What was visited is not accepting, and each of its successors is        *)
(* covered or still in the vector of successors to be handled.             *)
VisitedCovered ==
  ~ stats.reachable =>
    \A n \in stored \ (waiting \cup fresh) :
      /\ n.state \notin ts.accept
      /\ \A tr \in ts.next[n.state] :
           \/ pc = "expand" /\ n = current /\ tr \in todo
           \/ CoveringNodes(tr[2]) # {}

(* A visited node has an edge for each of its transitions that is not      *)
(* still in the vector of successors to be handled.                        *)
VisitedHasEdges ==
  ~ stats.reachable =>
    \A n \in stored \ (waiting \cup fresh) : \A tr \in ts.next[n.state] :
      \/ pc = "expand" /\ n = current /\ tr \in todo
      \/ \E e \in edges : e.src = n /\ e.tr = tr

(* No next node is covered by a node that was stored before this           *)
(* expansion: its insertion adds nothing below a stored node.  Initial     *)
(* nodes, which are inserted without removals, hold distinct states.       *)
FreshMaximal ==
  /\ \A n \in fresh, m \in stored \ fresh : ~ LeNode(n, m)
  /\ pc = "initial" =>
       \A n \in fresh : n.state \in ts.init /\ \A m \in fresh : m.state = n.state => m = n

IInv ==
  /\ TypeOK
  /\ WaitingStored
  /\ NamesUnique
  /\ FreshOrder
  /\ ControlOK
  /\ StoredReachable
  /\ InitCovered
  /\ VisitedCovered
  /\ EdgesSound
  /\ VisitedHasEdges
  /\ FreshMaximal
  /\ Antichain
  /\ NodesAccounted
=============================================================================
