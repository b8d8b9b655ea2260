--------------------------------- MODULE Reach --------------------------------
(***************************************************************************)
(* reach::algorithm_t, the reachability algorithm without covering (tck-   *)
(* reach -a reach): it builds a graph with one node per state, found again *)
(* with find::graph_t, and one edge per transition.  A node is hence named *)
(* by its state.  The enumeration order of the transition system and the   *)
(* waiting policy are left open.                                           *)
(***************************************************************************)
EXTENDS TransitionSystem, Naturals, FiniteSets, TLAPS

CONSTANT NoNode   \* the null node pointer

VARIABLES
  ts,       \* the transition system that is explored
  pc,       \* control: "initial", "loop", "expand" or "done"
  nodes,    \* the nodes of the graph
  waiting,  \* the nodes in the waiting container
  current,  \* the node that is being expanded
  todo,     \* what initial / next returned, still to be handled
  edges,    \* the edges of the graph: <<source, event, target>>
  stats     \* reach::stats_t

vars == <<ts, pc, nodes, waiting, current, todo, edges, stats>>

-----------------------------------------------------------------------------
Init ==
  /\ ts \in TransitionSystems
  /\ pc = "initial"
  /\ nodes = {} /\ waiting = {} /\ edges = {}
  /\ current = NoNode
  /\ todo = ts.init
  /\ stats = [visited |-> 0, reachable |-> FALSE]

(* Mutants: a node that is found is inserted again; the waiting container  *)
(* is overwritten.                                                         *)
FindElseAddTwice(s) == nodes' = nodes \cup {s} /\ waiting' = waiting \cup {s}

FindElseAddAlone(s) ==
  nodes' = nodes \cup {s} /\ waiting' = IF s \in nodes THEN waiting ELSE {s}

(* graph.add_node(s) followed by the insertion of a new node: find() gives *)
(* the node that holds an equal state, which is not inserted again.        *)
FindElseAdd(s) ==
  /\ nodes' = nodes \cup {s}
  /\ waiting' = IF s \in nodes THEN waiting ELSE waiting \cup {s}

AddInitial(s) ==
  /\ pc = "initial" /\ s \in todo
  /\ FindElseAdd(s)
  /\ todo' = todo \ {s}
  /\ UNCHANGED <<ts, pc, current, edges, stats>>

StartLoop ==
  /\ pc = "initial" /\ todo = {}
  /\ pc' = "loop"
  /\ UNCHANGED <<ts, nodes, waiting, current, todo, edges, stats>>

(* run_from_waiting: stop on a node that satisfies the labels; the break   *)
(* leads to waiting.clear().                                               *)
VisitAccepting(n) ==
  /\ pc = "loop" /\ n \in waiting
  /\ n \in ts.accept
  /\ stats' = [stats EXCEPT !.visited = @ + 1, !.reachable = TRUE]
  /\ waiting' = {}
  /\ pc' = "done"
  /\ UNCHANGED <<ts, nodes, current, todo, edges>>

Visit(n) ==
  /\ pc = "loop" /\ n \in waiting
  /\ n \notin ts.accept
  /\ stats' = [stats EXCEPT !.visited = @ + 1]
  /\ waiting' = waiting \ {n}
  /\ current' = n
  /\ todo' = ts.next[n]
  /\ pc' = "expand"
  /\ UNCHANGED <<ts, nodes, edges>>

(* Mutant: no edge to a node that already existed. *)
AddSuccessorNewEdges(tr) ==
  /\ pc = "expand" /\ tr \in todo
  /\ FindElseAdd(tr[2])
  /\ edges' = IF tr[2] \in nodes THEN edges ELSE edges \cup {<<current, tr[1], tr[2]>>}
  /\ todo' = todo \ {tr}
  /\ UNCHANGED <<ts, pc, current, stats>>

AddSuccessor(tr) ==
  /\ pc = "expand" /\ tr \in todo
  /\ FindElseAdd(tr[2])
  /\ edges' = edges \cup {<<current, tr[1], tr[2]>>}
  /\ todo' = todo \ {tr}
  /\ UNCHANGED <<ts, pc, current, stats>>

EndExpand ==
  /\ pc = "expand" /\ todo = {}
  /\ pc' = "loop" /\ current' = NoNode
  /\ UNCHANGED <<ts, nodes, waiting, todo, edges, stats>>

(* Mutant: the loop is not left when the container is empty. *)
FinishKeepsLooping == pc = "loop" /\ waiting = {} /\ UNCHANGED vars

Finish ==
  /\ pc = "loop" /\ waiting = {}
  /\ pc' = "done"
  /\ UNCHANGED <<ts, nodes, waiting, current, todo, edges, stats>>

Terminated == pc = "done" /\ UNCHANGED vars

Next ==
  \/ \E s \in todo : AddInitial(s)
  \/ StartLoop
  \/ \E n \in waiting : VisitAccepting(n) \/ Visit(n)
  \/ \E tr \in todo : AddSuccessor(tr)
  \/ EndExpand
  \/ Finish
  \/ Terminated

Safety == Init /\ [][Next]_vars

Spec == Safety /\ WF_vars(Next)

-----------------------------------------------------------------------------
(* The kinds of the values that run keeps, and that the waiting container  *)
(* and the node being expanded are nodes of the graph.                     *)
TypeOK ==
  /\ ts \in TransitionSystems
  /\ pc \in {"initial", "loop", "expand", "done"}
  /\ nodes \subseteq State /\ waiting \subseteq nodes
  /\ current \in State \cup {NoNode}
  /\ pc = "initial" => todo \subseteq ts.init
  /\ pc = "expand" => current \in nodes \ waiting /\ todo \subseteq ts.next[current]
  /\ edges \subseteq State \X Event \X State
  /\ stats \in [visited : Nat, reachable : BOOLEAN]

Transitions(t, S) == UNION {{<<s, tr[1], tr[2]>> : tr \in t.next[s]} : s \in S}

(* Edges are transitions between nodes of the graph, each added once its   *)
(* source is being expanded; a visited node keeps all its transitions.     *)
EdgesExact ==
  ~ stats.reachable =>
    edges = Transitions(ts, nodes \ waiting) \
              (IF pc = "expand" THEN {<<current, tr[1], tr[2]>> : tr \in todo} ELSE {})

(* "A node is created for each reachable state in ts, and an edge is       *)
(* created for each transition in ts", without an accepting node.          *)
GraphComplete ==
  pc = "done" /\ ~ stats.reachable =>
    nodes = Reachable(ts) /\ edges = Transitions(ts, Reachable(ts))

(* An accepting state is reported iff one is reachable.                    *)
VerdictCorrect == pc = "done" => (stats.reachable <=> AcceptingReachable(ts))

(* The exploration ends.                                                   *)
Termination == <>(pc = "done")

Verdict ==
  IF pc # "done" THEN "none"
  ELSE IF stats.reachable THEN "reachable" ELSE "unreachable"

Query == INSTANCE ReachabilityQuery WITH verdict <- Verdict

(* reach::algorithm_t implements the reachability query.                   *)
AnswersQuery == Query!Safety
-----------------------------------------------------------------------------
(* The inductive invariant behind the theorems below.                      *)
ControlOK ==
  /\ pc = "initial" => nodes = waiting
  /\ pc = "done" => waiting = {}
  /\ stats.reachable => pc = "done"

InitFound == \A s \in ts.init : (pc = "initial" /\ s \in todo) \/ s \in nodes

NodesReachable ==
  /\ nodes \subseteq Reachable(ts)
  /\ stats.reachable => \E n \in nodes : n \in ts.accept

VisitedClosed ==
  ~ stats.reachable =>
    \A n \in nodes \ waiting :
      /\ n \notin ts.accept
      /\ \A tr \in ts.next[n] :
           (pc = "expand" /\ n = current /\ tr \in todo) \/ tr[2] \in nodes

IInv ==
  /\ TypeOK
  /\ ControlOK
  /\ InitFound
  /\ NodesReachable
  /\ VisitedClosed

-----------------------------------------------------------------------------
(* Proofs: for every set of transition systems, the graph that is built is *)
(* the reachability graph, and the answer is the right one.                *)

(* The set of reachable states is itself closed.                           *)
LEMMA ReachableClosed ==
  ASSUME NEW t \in TransitionSystems
  PROVE  /\ Reachable(t) \subseteq State
         /\ t.init \subseteq Reachable(t)
         /\ \A s \in Reachable(t) : Successors(t, s) \subseteq Reachable(t)
<1>1. t \in TransitionSystemType
  BY SystemsAssumption
<1>2. t.init \subseteq State /\ \A s \in State : Successors(t, s) \subseteq State
  BY <1>1 DEF TransitionSystemType, Successors
<1>3. t.init \subseteq Reachable(t)
  BY <1>2 DEF Reachable, IsClosed
<1>4. ASSUME NEW s \in Reachable(t), NEW u \in Successors(t, s)
      PROVE  u \in Reachable(t)
  <2>1. s \in State /\ u \in State
    BY <1>2, <1>4 DEF Reachable
  <2>2. ASSUME NEW C \in SUBSET State, IsClosed(t, C)
        PROVE  u \in C
    BY <1>4, <2>2 DEF Reachable, IsClosed
  <2>3. QED
    BY <2>1, <2>2 DEF Reachable
<1>5. QED
  BY <1>3, <1>4 DEF Reachable

(* Induction over reachable states: a closed set contains them all.        *)
LEMMA ReachableLeast ==
  ASSUME NEW t \in TransitionSystems, NEW C \in SUBSET State, IsClosed(t, C)
  PROVE  Reachable(t) \subseteq C
BY DEF Reachable

(* The facts about the explored system that the invariance proof uses.     *)
LEMMA SystemFacts ==
  ASSUME NEW t \in TransitionSystems
  PROVE  /\ t \in TransitionSystemType
         /\ t.init \subseteq State
         /\ \A s \in State : t.next[s] \subseteq Event \X State
         /\ \A s \in State : Le(t, s, s)
         /\ \A s, u, v \in State : Le(t, s, u) /\ Le(t, u, v) => Le(t, s, v)
         /\ \A s, u \in State : Le(t, s, u) /\ s \in t.accept => u \in t.accept
         /\ \A s, u \in State : Le(t, s, u) =>
              \A sn \in Successors(t, s) :
                \E un \in Successors(t, u) : Le(t, sn, un)
BY SystemsAssumption DEF TransitionSystemType, IsPreorder, IsTraceInclusion

(* The graph is empty and every initial state is still to be added.        *)
LEMMA InitIInv == Init => IInv
BY SystemFacts DEF Init, IInv, TypeOK, ControlOK, InitFound, NodesReachable, VisitedClosed

(* add_node on a state of the explored part keeps the graph in it.         *)
LEMMA StepAddInitial ==
  ASSUME IInv, NEW s \in todo, AddInitial(s)
  PROVE  IInv'
<1> USE DEF AddInitial, FindElseAdd
<1>1. s \in ts.init /\ ts.init \subseteq State /\ ts.init \subseteq Reachable(ts)
  BY SystemFacts, ReachableClosed DEF IInv, TypeOK
<1>2. TypeOK'
  BY <1>1 DEF IInv, TypeOK
<1>3. ControlOK' /\ InitFound'
  BY DEF IInv, ControlOK, InitFound
<1>4. NodesReachable'
  BY <1>1 DEF IInv, NodesReachable
<1>5. VisitedClosed'
  BY DEF IInv, VisitedClosed, ControlOK
<1>6. QED
  BY <1>2, <1>3, <1>4, <1>5 DEF IInv

(* Stopping on an accepting node, which is a reachable state.              *)
LEMMA StepVisitAccepting ==
  ASSUME IInv, NEW n \in waiting, VisitAccepting(n)
  PROVE  IInv'
<1>1. /\ stats' \in [visited : Nat, reachable : BOOLEAN]
      /\ stats'.reachable
  <2> DEFINE r == TRUE
             v == stats.visited + 1
  <2>1. r \in BOOLEAN /\ v \in Nat /\ r
    BY DEF IInv, TypeOK
  <2>2. stats' = [stats EXCEPT !.visited = v, !.reachable = r]
    BY Zenon DEF VisitAccepting
  <2> HIDE DEF r, v
  <2>3. QED
    BY <2>1, <2>2 DEF IInv, TypeOK
<1>2. TypeOK'
  BY <1>1 DEF VisitAccepting, IInv, TypeOK
<1>3. ControlOK' /\ InitFound'
  BY <1>1 DEF VisitAccepting, IInv, ControlOK, InitFound
<1>4. NodesReachable'
  <2>1. n \in nodes' /\ n \in ts'.accept /\ nodes' \subseteq Reachable(ts')
    BY DEF VisitAccepting, IInv, TypeOK, NodesReachable
  <2>2. QED
    BY <2>1 DEF NodesReachable
<1>5. VisitedClosed'
  BY <1>1 DEF VisitedClosed
<1>6. QED
  BY <1>2, <1>3, <1>4, <1>5 DEF IInv

(* The visited node is not accepting and its transitions are all to do.    *)
LEMMA StepVisit ==
  ASSUME IInv, NEW n \in waiting, Visit(n)
  PROVE  IInv'
<1>1. stats'.reachable = stats.reachable
  BY DEF Visit, IInv, TypeOK
<1>2. TypeOK'
  BY DEF Visit, IInv, TypeOK
<1>3. ControlOK' /\ InitFound'
  BY <1>1 DEF Visit, IInv, ControlOK, InitFound
<1>4. NodesReachable'
  BY <1>1 DEF Visit, IInv, NodesReachable
<1>5. VisitedClosed'
  BY <1>1 DEF Visit, IInv, VisitedClosed
<1>6. QED
  BY <1>2, <1>3, <1>4, <1>5 DEF IInv

(* The target of a transition is found in the graph or added to it.        *)
LEMMA StepAddSuccessor ==
  ASSUME IInv, NEW tr \in todo, AddSuccessor(tr)
  PROVE  IInv'
<1> USE DEF AddSuccessor, FindElseAdd
<1>1. /\ current \in nodes \ waiting /\ current \in State
      /\ tr \in ts.next[current] /\ tr \in Event \X State
      /\ tr[2] \in Reachable(ts) /\ tr[2] \in State
  <2>1. current \in nodes \ waiting /\ current \in State /\ tr \in ts.next[current]
    BY DEF IInv, TypeOK
  <2>2. tr \in Event \X State /\ ts \in TransitionSystems
    BY <2>1, SystemFacts DEF IInv, TypeOK
  <2>3. tr[2] \in Reachable(ts)
    BY <2>1, <2>2, ReachableClosed DEF IInv, NodesReachable, Successors
  <2>4. QED
    BY <2>1, <2>2, <2>3
<1>2. TypeOK'
  BY <1>1 DEF IInv, TypeOK
<1>3. ControlOK' /\ InitFound'
  BY DEF IInv, ControlOK, InitFound
<1>4. NodesReachable'
  BY <1>1 DEF IInv, NodesReachable
<1>5. VisitedClosed'
  BY DEF IInv, VisitedClosed
<1>6. QED
  BY <1>2, <1>3, <1>4, <1>5 DEF IInv

(* The inductive invariant: visited nodes have their successors in the     *)
(* graph, and the graph only holds reachable states.                       *)
THEOREM InductiveInvariant == Safety => []IInv
<1>1. Init => IInv
  BY InitIInv
<1>2. IInv /\ [Next]_vars => IInv'
  <2> SUFFICES ASSUME IInv, [Next]_vars
               PROVE  IInv'
    OBVIOUS
  <2> DEFINE Control == StartLoop \/ EndExpand \/ Finish \/ Terminated \/ UNCHANGED vars
  <2>1. ASSUME NEW s \in todo, AddInitial(s)
        PROVE  IInv'
    BY <2>1, StepAddInitial
  <2>2. ASSUME NEW n \in waiting, VisitAccepting(n) \/ Visit(n)
        PROVE  IInv'
    BY <2>2, StepVisitAccepting, StepVisit
  <2>3. ASSUME NEW tr \in todo, AddSuccessor(tr)
        PROVE  IInv'
    BY <2>3, StepAddSuccessor
  <2>4. CASE Control
    <3> USE DEF StartLoop, EndExpand, Finish, Terminated, vars
    <3>1. TypeOK'
      BY <2>4 DEF IInv, TypeOK
    <3>2. ControlOK' /\ InitFound' /\ NodesReachable'
      BY <2>4 DEF IInv, ControlOK, InitFound, NodesReachable
    <3>3. VisitedClosed'
      BY <2>4 DEF IInv, VisitedClosed, ControlOK
    <3>4. QED
      BY <3>1, <3>2, <3>3 DEF IInv
  <2>5. QED
    BY <2>1, <2>2, <2>3, <2>4 DEF Next
<1>3. QED
  BY <1>1, <1>2, PTL DEF Safety

(* Once nothing waits, the nodes are closed under successors.              *)
LEMMA InvariantCompletes ==
  ASSUME IInv, pc = "done", ~ stats.reachable
  PROVE  nodes = Reachable(ts)
<1>1. waiting = {} /\ nodes \subseteq Reachable(ts) /\ nodes \subseteq State
  BY DEF IInv, ControlOK, NodesReachable, TypeOK
<1>2. IsClosed(ts, nodes)
  BY <1>1 DEF IInv, InitFound, VisitedClosed, IsClosed, Successors
<1>3. QED
  BY <1>1, <1>2, ReachableLeast DEF IInv, TypeOK

(* The nodes of a complete graph are the reachable states.                 *)
LEMMA InvariantAnswers == IInv => VerdictCorrect
<1> SUFFICES ASSUME IInv, pc = "done"
             PROVE  stats.reachable <=> AcceptingReachable(ts)
  BY DEF VerdictCorrect
<1>1. ASSUME stats.reachable
      PROVE  AcceptingReachable(ts)
  BY <1>1 DEF IInv, NodesReachable, AcceptingReachable
<1>2. ASSUME ~ stats.reachable
      PROVE  ~ AcceptingReachable(ts)
  BY <1>2, InvariantCompletes DEF IInv, VisitedClosed, ControlOK, AcceptingReachable
<1>3. stats.reachable \in BOOLEAN
  BY DEF IInv, TypeOK
<1>4. QED
  BY <1>1, <1>2, <1>3

(* The answer of reach::algorithm_t::run is right whatever the model, the  *)
(* search order and the enumeration order.                                 *)
THEOREM Correctness == Safety => []VerdictCorrect
BY InvariantAnswers, InductiveInvariant, PTL

-----------------------------------------------------------------------------
(* The edges: every transition of the visited nodes, and nothing else.     *)
LEMMA StepEdgesExact ==
  ASSUME IInv, EdgesExact, [Next]_vars
  PROVE  EdgesExact'
<1> DEFINE Left == IF pc = "expand" THEN {<<current, tr[1], tr[2]>> : tr \in todo} ELSE {}
<1> USE DEF EdgesExact, Transitions
<1>1. ASSUME NEW s \in todo, AddInitial(s)
      PROVE  EdgesExact'
  <2>1. nodes' \ waiting' = {} /\ nodes \ waiting = {} /\ ts' = ts
    BY <1>1 DEF AddInitial, FindElseAdd, IInv, ControlOK
  <2>2. edges' = edges /\ stats' = stats /\ pc' = pc /\ pc = "initial"
    BY <1>1 DEF AddInitial
  <2>3. QED
    BY <2>1, <2>2
<1>2. ASSUME NEW n \in waiting, VisitAccepting(n)
      PROVE  EdgesExact'
  <2>1. stats'.reachable
    BY <1>2 DEF VisitAccepting, IInv, TypeOK
  <2>2. QED
    BY <2>1
<1>3. ASSUME NEW n \in waiting, Visit(n)
      PROVE  EdgesExact'
  <2>1. stats'.reachable = stats.reachable
    BY <1>3 DEF Visit, IInv, TypeOK
  <2>2. /\ nodes' \ waiting' = (nodes \ waiting) \cup {n}
        /\ n \notin nodes \ waiting
        /\ ts' = ts /\ edges' = edges /\ pc = "loop" /\ pc' = "expand"
        /\ current' = n /\ todo' = ts.next[n]
    BY <1>3 DEF Visit, IInv, TypeOK
  <2>3. ASSUME NEW e
        PROVE  e \in Transitions(ts, (nodes \ waiting) \cup {n})
                       \ {<<n, tr[1], tr[2]>> : tr \in ts.next[n]}
               <=> e \in Transitions(ts, nodes \ waiting)
    BY <2>2
  <2>4. QED
    BY <2>1, <2>2, <2>3
<1>4. ASSUME NEW tr \in todo, AddSuccessor(tr)
      PROVE  EdgesExact'
  <2>1. /\ nodes' \ waiting' = nodes \ waiting
        /\ ts' = ts /\ stats' = stats /\ pc = "expand" /\ pc' = "expand"
        /\ current' = current /\ todo' = todo \ {tr}
        /\ edges' = edges \cup {<<current, tr[1], tr[2]>>}
    BY <1>4 DEF AddSuccessor, FindElseAdd, IInv, TypeOK
  <2>2. /\ current \in nodes \ waiting /\ tr \in ts.next[current]
        /\ \A x \in todo : x \in Event \X State
    BY <2>1, SystemFacts DEF IInv, TypeOK
  <2>3. \A x \in todo \ {tr} : <<current, x[1], x[2]>> # <<current, tr[1], tr[2]>>
    BY <2>2
  <2>4. QED
    BY <2>1, <2>2, <2>3
<1>5. CASE StartLoop \/ EndExpand \/ Finish \/ Terminated \/ UNCHANGED vars
  BY <1>5 DEF StartLoop, EndExpand, Finish, Terminated, vars
<1>6. QED
  BY <1>1, <1>2, <1>3, <1>4, <1>5 DEF Next

(* Edges are exactly the transitions handled so far.                       *)
THEOREM EdgesCorrect == Safety => []EdgesExact
<1>1. Init => EdgesExact
  BY DEF Init, EdgesExact, Transitions
<1>2. QED
  BY <1>1, StepEdgesExact, InductiveInvariant, PTL DEF Safety

(* The documented postcondition of run: without an accepting node, the     *)
(* graph is the full reachability graph.                                   *)
THEOREM GraphCorrect == Safety => []GraphComplete
<1>1. IInv /\ EdgesExact => GraphComplete
  BY InvariantCompletes DEF GraphComplete, EdgesExact, IInv, ControlOK
<1>2. QED
  BY <1>1, EdgesCorrect, InductiveInvariant, PTL

(* reach::algorithm_t implements the abstract reachability query.          *)
THEOREM Refinement == Safety => AnswersQuery
<1>1. Init => Query!Init
  BY DEF Init, Query!Init, Verdict
<1>2. ASSUME IInv, VerdictCorrect', [Next]_vars
      PROVE  [Query!Next]_Query!vars
  <2>1. ts' = ts
    BY <1>2 DEF Next, vars, AddInitial, StartLoop, VisitAccepting, Visit,
         AddSuccessor, EndExpand, Finish, Terminated
  <2>2. CASE pc # "done" /\ pc' # "done"
    BY <2>1, <2>2 DEF Query!vars, Verdict
  <2>3. CASE pc # "done" /\ pc' = "done"
    <3>1. stats'.reachable <=> AcceptingReachable(ts)
      BY <1>2, <2>1, <2>3 DEF VerdictCorrect
    <3>2. Query!AcceptingReachable(ts) <=> AcceptingReachable(ts)
      BY DEF AcceptingReachable, Reachable, IsClosed, Successors,
         Query!AcceptingReachable, Query!Reachable, Query!IsClosed, Query!Successors
    <3>3. QED
      BY <2>1, <2>3, <3>1, <3>2 DEF Query!Next, Query!Answer, Verdict
  <2>4. CASE pc = "done"
    <3>1. UNCHANGED vars
      BY <1>2, <2>4 DEF IInv, ControlOK, Next, vars, AddInitial, StartLoop,
         VisitAccepting, Visit, AddSuccessor, EndExpand, Finish, Terminated
    <3>2. QED
      BY <3>1 DEF vars, Query!vars, Verdict
  <2>5. QED
    BY <2>2, <2>3, <2>4
<1>3. QED
  BY <1>1, <1>2, InductiveInvariant, Correctness, PTL
     DEF Safety, AnswersQuery, Query!Safety
=============================================================================
