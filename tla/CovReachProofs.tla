---------------------------- MODULE CovReachProofs ----------------------------
(***************************************************************************)
(* Proofs about CovReach: for every set of transition systems whose        *)
(* covering relation is a preorder and a trace inclusion, finite or not,   *)
(* the exploration only visits stored nodes and its answer is right.       *)
(***************************************************************************)
EXTENDS CovReach, FiniteSetTheorems, TLAPS

-----------------------------------------------------------------------------
(* The set of reachable states is itself closed.                           *)
LEMMA ReachableClosed ==
  ASSUME NEW t \in TransitionSystems
  PROVE  /\ Reachable(t) \subseteq State
         /\ t.init \subseteq Reachable(t)
         /\ \A s \in Reachable(t) : Successors(t, s) \subseteq Reachable(t)
<1>1. t \in TransitionSystemType
  BY SystemsAssumption
<1>2. t.init \subseteq State /\ \A s \in State : Successors(t, s) \subseteq State
  BY <1>1 DEF TransitionSystemType, Successors
<1>3. t.init \subseteq Reachable(t)
  BY <1>2 DEF Reachable, IsClosed
<1>4. ASSUME NEW s \in Reachable(t), NEW u \in Successors(t, s)
      PROVE  u \in Reachable(t)
  <2>1. s \in State /\ u \in State
    BY <1>2, <1>4 DEF Reachable
  <2>2. ASSUME NEW C \in SUBSET State, IsClosed(t, C)
        PROVE  u \in C
    BY <1>4, <2>2 DEF Reachable, IsClosed
  <2>3. QED
    BY <2>1, <2>2 DEF Reachable
<1>5. QED
  BY <1>3, <1>4 DEF Reachable

(* Induction over reachable states: a closed set contains them all.        *)
LEMMA ReachableLeast ==
  ASSUME NEW t \in TransitionSystems, NEW C \in SUBSET State, IsClosed(t, C)
  PROVE  Reachable(t) \subseteq C
BY DEF Reachable

(* The facts about the explored system that the invariance proof uses.     *)
LEMMA SystemFacts ==
  ASSUME NEW t \in TransitionSystems
  PROVE  /\ t \in TransitionSystemType
         /\ t.init \subseteq State
         /\ \A s \in State : t.next[s] \subseteq Event \X State
         /\ \A s \in State : Le(t, s, s)
         /\ \A s, u, v \in State : Le(t, s, u) /\ Le(t, u, v) => Le(t, s, v)
         /\ \A s, u \in State : Le(t, s, u) /\ s \in t.accept => u \in t.accept
         /\ \A s, u \in State : Le(t, s, u) =>
              \A sn \in Successors(t, s) :
                \E un \in Successors(t, u) : Le(t, sn, un)
BY SystemsAssumption DEF TransitionSystemType, IsPreorder, IsTraceInclusion

-----------------------------------------------------------------------------
(* Coverage is kept by every step: a removed node is below the node whose  *)
(* insertion removes it.                                                   *)
LEMMA StepKeepsCoverage ==
  ASSUME TypeOK, WaitingStored, [Next]_vars
  PROVE  \A s \in State : CoveringNodes(s) # {} => CoveringNodes(s)' # {}
<1>1. ASSUME NEW n \in fresh, InsertNext(n), NEW s \in State,
             NEW m \in CoveringNodes(s)
      PROVE  CoveringNodes(s)' # {}
  <2>1. ts' = ts /\ stored' = stored \ CoveredNodes(n)
    BY <1>1 DEF InsertNext
  <2>2. n \in stored' /\ n \in Node /\ m \in Node /\ m \in stored
    BY <1>1, <2>1 DEF TypeOK, WaitingStored, CoveredNodes, CoveringNodes
  <2>3. CASE m \in CoveredNodes(n)
    <3>1. Le(ts, s, m.state) /\ Le(ts, m.state, n.state)
      BY <1>1, <2>3 DEF CoveredNodes, CoveringNodes, LeNode
    <3>2. Le(ts, s, n.state)
      BY <3>1, <2>2, SystemFacts DEF TypeOK, Node
    <3>3. QED
      BY <3>2, <2>1, <2>2 DEF CoveringNodes
  <2>4. CASE m \notin CoveredNodes(n)
    BY <1>1, <2>1, <2>2, <2>4 DEF CoveringNodes
  <2>5. QED
    BY <2>3, <2>4
<1>2. CASE ts' = ts /\ stored \subseteq stored'
  BY <1>2 DEF CoveringNodes
<1>3. ts' = ts /\ (stored \subseteq stored' \/ \E n \in fresh : InsertNext(n))
  BY DEF Next, vars, ExpandInitialCovered, ExpandInitialMaximal, InsertInitial,
         VisitAccepting, Visit, ExpandNextCovered, ExpandNextMaximal, EndExpand,
         InsertNext, EndInsert, Finish, Terminated
<1>4. QED
  BY <1>1, <1>2, <1>3

-----------------------------------------------------------------------------
(* Nothing is stored yet and every initial state is still to be handled.   *)
LEMMA InitIInv == Init => IInv
<1> SUFFICES ASSUME Init
             PROVE  IInv
  OBVIOUS
<1>1. TypeOK
  <2>1. ts.init \subseteq State
    BY SystemFacts DEF Init
  <2>2. QED
    BY <2>1, FS_EmptySet DEF Init, TypeOK
<1>2. QED
  BY <1>1, FS_EmptySet DEF Init, IInv, WaitingStored, NamesUnique, FreshOrder,
     ControlOK, StoredReachable, InitCovered, VisitedCovered, EdgesSound,
     VisitedHasEdges, FreshMaximal, Antichain, NodesAccounted

(* Types are preserved.                                                    *)
LEMMA StepTypeOK ==
  ASSUME IInv, [Next]_vars
  PROVE  TypeOK'
<1> USE DEF TypeOK, IInv
<1>0. /\ ts.init \subseteq State
      /\ \A s \in State : ts.next[s] \subseteq Event \X State
  BY SystemFacts
<1>n. ASSUME NEW s \in State
      PROVE  NewNode(s) \in Node /\ IsFiniteSet(stored \cup {NewNode(s)})
  <2>1. NewNode(s) \in Node
    BY DEF NewNode, Node
  <2>2. QED
    BY <2>1, FS_AddElement
<1>c. Cardinality(stored) \in Nat
  BY FS_CardinalityType
<1>1. ASSUME NEW s \in todo, ExpandInitialCovered(s)
      PROVE  TypeOK'
  BY <1>1 DEF ExpandInitialCovered
<1>2. ASSUME NEW s \in todo, ExpandInitialMaximal(s)
      PROVE  TypeOK'
  BY <1>2, <1>n DEF ExpandInitialMaximal
<1>3. CASE InsertInitial
  BY <1>3 DEF InsertInitial
<1>4. ASSUME NEW n \in waiting, VisitAccepting(n)
      PROVE  TypeOK'
  <2>1. stats' \in [visited : Nat, covered : Nat, stored : Nat, reachable : BOOLEAN]
    <3> DEFINE c == Cardinality(stored)
               r == TRUE
               v == stats.visited + 1
    <3>1. c \in Nat /\ r \in BOOLEAN /\ v \in Nat
      BY <1>c
    <3>2. stats' = [stats EXCEPT !.visited = v, !.reachable = r, !.stored = c]
      BY <1>4, Zenon DEF VisitAccepting
    <3> HIDE DEF c, r, v
    <3>3. QED
      BY <3>1, <3>2
  <2>2. QED
    BY <1>4, <2>1 DEF VisitAccepting
<1>5. ASSUME NEW n \in waiting, Visit(n)
      PROVE  TypeOK'
  BY <1>5, <1>0 DEF Visit, Node
<1>6. ASSUME NEW tr \in todo, NEW m \in stored, ExpandNextCovered(tr, m)
      PROVE  TypeOK'
  BY <1>6 DEF ExpandNextCovered, Edge, EdgeKind, ControlOK, WaitingStored
<1>7. ASSUME NEW tr \in todo, ExpandNextMaximal(tr)
      PROVE  TypeOK'
  BY <1>7, <1>n DEF ExpandNextMaximal, Edge, EdgeKind, ControlOK
<1>8. CASE EndExpand
  BY <1>8 DEF EndExpand
<1>9. ASSUME NEW n \in fresh, InsertNext(n)
      PROVE  TypeOK'
  <2>1. CoveredNodes(n) \subseteq stored
    BY DEF CoveredNodes
  <2>2. Cardinality(CoveredNodes(n)) \in Nat /\ IsFiniteSet(stored \ CoveredNodes(n))
    BY <2>1, FS_Subset, FS_CardinalityType
  <2>3. EdgesAfterRemoval(CoveredNodes(n), n) \subseteq Edge
    BY DEF EdgesAfterRemoval, MoveIncoming, Edge, EdgeKind
  <2>4. stats' \in [visited : Nat, covered : Nat, stored : Nat, reachable : BOOLEAN]
    BY <1>9, <2>2 DEF InsertNext
  <2>5. QED
    BY <1>9, <2>2, <2>3, <2>4, SMTT(20) DEF InsertNext
<1>10. CASE EndInsert
  BY <1>10 DEF EndInsert
<1>11. CASE Finish
  BY <1>11, <1>c DEF Finish
<1>12. CASE Terminated
  BY <1>12 DEF Terminated, vars
<1>13. CASE UNCHANGED vars
  BY <1>13 DEF vars
<1>14. QED
  BY <1>1, <1>2, <1>3, <1>4, <1>5, <1>6, <1>7, <1>8, <1>9, <1>10, <1>11,
     <1>12, <1>13 DEF Next

(* Who is stored, waiting and fresh, and in which control state: the       *)
(* vector of next nodes never holds a node that was removed, because a     *)
(* node is never covered by a next node older than itself.                 *)
LEMMA StepControl ==
  ASSUME IInv, [Next]_vars
  PROVE  WaitingStored' /\ NamesUnique' /\ FreshOrder' /\ ControlOK'
<1> DEFINE G == WaitingStored /\ NamesUnique /\ FreshOrder /\ ControlOK
<1> SUFFICES G'
  OBVIOUS
<1> USE DEF IInv, WaitingStored, NamesUnique, FreshOrder, ControlOK
<1>n. /\ created + 1 \in Nat /\ \A n \in stored : n.id # created + 1 /\ n.id <= created + 1
      /\ \A s : NewNode(s).id = created + 1 /\ NewNode(s).state = s
      /\ \A s : NewNode(s) \notin stored
  BY DEF TypeOK, Node, NewNode
<1>t. \A n \in stored : n.id \in Nat /\ n.state \in State
  BY DEF TypeOK, Node
<1>1. ASSUME NEW s \in todo, ExpandInitialCovered(s)
      PROVE  G'
  BY <1>1, <1>n, <1>t DEF ExpandInitialCovered, LeNode, TypeOK
<1>2. ASSUME NEW s \in todo, ExpandInitialMaximal(s)
      PROVE  G'
  <2>1. \A n \in stored : ~ Le(ts, s, n.state)
    BY <1>2 DEF ExpandInitialMaximal, CoveringNodes
  <2>2. QED
    BY <1>2, <1>n, <1>t, <2>1 DEF ExpandInitialMaximal, LeNode, TypeOK
<1>3. CASE InsertInitial
  BY <1>3 DEF InsertInitial, LeNode
<1>4. ASSUME NEW n \in waiting, VisitAccepting(n)
      PROVE  G'
  BY <1>4 DEF VisitAccepting, LeNode
<1>5. ASSUME NEW n \in waiting, Visit(n)
      PROVE  G'
  BY <1>5 DEF Visit, LeNode
<1>6. ASSUME NEW tr \in todo, NEW m \in stored, ExpandNextCovered(tr, m)
      PROVE  G'
  BY <1>6, <1>n, <1>t DEF ExpandNextCovered, LeNode, TypeOK
<1>7. ASSUME NEW tr \in todo, ExpandNextMaximal(tr)
      PROVE  G'
  <2>1. \A n \in stored : ~ Le(ts, tr[2], n.state)
    BY <1>7 DEF ExpandNextMaximal, CoveringNodes
  <2>2. QED
    BY <1>7, <1>n, <1>t, <2>1 DEF ExpandNextMaximal, LeNode, TypeOK
<1>8. CASE EndExpand
  BY <1>8 DEF EndExpand, LeNode
<1>9. ASSUME NEW n \in fresh, InsertNext(n)
      PROVE  G'
  <2>1. \A m \in fresh \ {n} : n.id < m.id
    BY <1>9, <1>t DEF InsertNext, OldestFresh
  <2>2. \A m \in fresh \ {n} : m \notin CoveredNodes(n)
    BY <2>1 DEF CoveredNodes
  <2>3. n \notin CoveredNodes(n) /\ CoveredNodes(n) \subseteq stored
    BY DEF CoveredNodes
  <2>4. QED
    BY <1>9, <2>2, <2>3 DEF InsertNext, LeNode
<1>10. CASE EndInsert
  BY <1>10 DEF EndInsert, LeNode
<1>11. CASE Finish
  BY <1>11 DEF Finish, LeNode
<1>12. CASE Terminated
  BY <1>12 DEF Terminated, vars, LeNode
<1>13. CASE UNCHANGED vars
  BY <1>13 DEF vars, LeNode
<1>14. QED
  BY <1>1, <1>2, <1>3, <1>4, <1>5, <1>6, <1>7, <1>8, <1>9, <1>10, <1>11,
     <1>12, <1>13 DEF Next

(* Only reachable states are stored, and a positive answer has a witness.  *)
LEMMA StepStoredReachable ==
  ASSUME IInv, [Next]_vars
  PROVE  StoredReachable'
<1> USE DEF IInv, StoredReachable
<1>n. \A s : NewNode(s).state = s
  BY DEF NewNode
<1>r. /\ ts.init \subseteq Reachable(ts)
      /\ \A s \in Reachable(ts) : Successors(ts, s) \subseteq Reachable(ts)
  BY ReachableClosed DEF TypeOK
<1>1. ASSUME NEW s \in todo, ExpandInitialCovered(s)
      PROVE  StoredReachable'
  <2>1. stats'.reachable = stats.reachable
    BY <1>1 DEF ExpandInitialCovered, TypeOK
  <2>2. QED
    BY <1>1, <2>1 DEF ExpandInitialCovered
<1>2. ASSUME NEW s \in todo, ExpandInitialMaximal(s)
      PROVE  StoredReachable'
  <2>1. s \in Reachable(ts)
    BY <1>2, <1>r DEF ExpandInitialMaximal, ControlOK
  <2>2. QED
    BY <1>2, <1>n, <2>1 DEF ExpandInitialMaximal, ControlOK
<1>3. CASE InsertInitial
  BY <1>3 DEF InsertInitial
<1>4. ASSUME NEW n \in waiting, VisitAccepting(n)
      PROVE  StoredReachable'
  <2>1. n \in stored' /\ n.state \in ts'.accept
    BY <1>4 DEF VisitAccepting, WaitingStored
  <2>2. \A m \in stored' : m.state \in Reachable(ts')
    BY <1>4 DEF VisitAccepting
  <2>3. QED
    BY <2>1, <2>2
<1>5. ASSUME NEW n \in waiting, Visit(n)
      PROVE  StoredReachable'
  <2>1. stats'.reachable = stats.reachable
    BY <1>5 DEF Visit, TypeOK
  <2>2. QED
    BY <1>5, <2>1 DEF Visit
<1>6. ASSUME NEW tr \in todo, NEW m \in stored, ExpandNextCovered(tr, m)
      PROVE  StoredReachable'
  <2>1. stats'.reachable = stats.reachable
    BY <1>6 DEF ExpandNextCovered, TypeOK
  <2>2. QED
    BY <1>6, <2>1 DEF ExpandNextCovered
<1>7. ASSUME NEW tr \in todo, ExpandNextMaximal(tr)
      PROVE  StoredReachable'
  <2>1. tr[2] \in Reachable(ts)
    BY <1>7, <1>r DEF ExpandNextMaximal, ControlOK, Successors
  <2>2. QED
    BY <1>7, <1>n, <2>1 DEF ExpandNextMaximal, ControlOK
<1>8. CASE EndExpand
  BY <1>8 DEF EndExpand
<1>9. ASSUME NEW n \in fresh, InsertNext(n)
      PROVE  StoredReachable'
  <2>1. stats'.reachable = stats.reachable
    BY <1>9 DEF InsertNext, TypeOK
  <2>2. ~ stats.reachable
    BY <1>9 DEF InsertNext, ControlOK
  <2>3. QED
    BY <1>9, <2>1, <2>2 DEF InsertNext
<1>10. CASE EndInsert
  BY <1>10 DEF EndInsert
<1>11. CASE Finish
  <2>1. stats'.reachable = stats.reachable
    BY <1>11 DEF Finish, TypeOK
  <2>2. QED
    BY <1>11, <2>1 DEF Finish
<1>12. CASE Terminated
  BY <1>12 DEF Terminated, vars
<1>13. CASE UNCHANGED vars
  BY <1>13 DEF vars
<1>14. QED
  BY <1>1, <1>2, <1>3, <1>4, <1>5, <1>6, <1>7, <1>8, <1>9, <1>10, <1>11,
     <1>12, <1>13 DEF Next

(* Every initial state stays covered.                                      *)
LEMMA StepInitCovered ==
  ASSUME IInv, [Next]_vars
  PROVE  InitCovered'
<1> USE DEF IInv, InitCovered
<1>k. \A s \in ts.init : CoveringNodes(s) # {} => CoveringNodes(s)' # {}
  BY StepKeepsCoverage, SystemFacts DEF TypeOK
<1>1. ASSUME NEW s \in todo, ExpandInitialCovered(s)
      PROVE  InitCovered'
  BY <1>1, <1>k DEF ExpandInitialCovered
<1>2. ASSUME NEW s \in todo, ExpandInitialMaximal(s)
      PROVE  InitCovered'
  <2>1. NewNode(s).state = s /\ NewNode(s) \in stored' /\ ts' = ts
    BY <1>2 DEF ExpandInitialMaximal, NewNode
  <2>2. Le(ts, s, s)
    BY <1>2, SystemFacts DEF ExpandInitialMaximal, TypeOK, ControlOK
  <2>3. CoveringNodes(s)' # {}
    BY <2>1, <2>2 DEF CoveringNodes
  <2>4. QED
    BY <1>2, <2>3, <1>k DEF ExpandInitialMaximal
<1>3. CASE InsertInitial
  BY <1>3, <1>k DEF InsertInitial
<1>4. ASSUME NEW n \in waiting, VisitAccepting(n)
      PROVE  InitCovered'
  BY <1>4, <1>k DEF VisitAccepting
<1>5. ASSUME NEW n \in waiting, Visit(n)
      PROVE  InitCovered'
  BY <1>5, <1>k DEF Visit
<1>6. ASSUME NEW tr \in todo, NEW m \in stored, ExpandNextCovered(tr, m)
      PROVE  InitCovered'
  BY <1>6, <1>k DEF ExpandNextCovered
<1>7. ASSUME NEW tr \in todo, ExpandNextMaximal(tr)
      PROVE  InitCovered'
  BY <1>7, <1>k DEF ExpandNextMaximal
<1>8. CASE EndExpand
  BY <1>8, <1>k DEF EndExpand
<1>9. ASSUME NEW n \in fresh, InsertNext(n)
      PROVE  InitCovered'
  BY <1>9, <1>k DEF InsertNext
<1>10. CASE EndInsert
  BY <1>10, <1>k DEF EndInsert
<1>11. CASE Finish
  BY <1>11, <1>k DEF Finish
<1>12. CASE Terminated
  BY <1>12 DEF Terminated, vars, CoveringNodes
<1>13. CASE UNCHANGED vars
  BY <1>13 DEF vars, CoveringNodes
<1>14. QED
  BY <1>1, <1>2, <1>3, <1>4, <1>5, <1>6, <1>7, <1>8, <1>9, <1>10, <1>11,
     <1>12, <1>13 DEF Next

(* What was visited is not accepting and its successors stay covered.      *)
LEMMA StepVisitedCovered ==
  ASSUME IInv, [Next]_vars
  PROVE  VisitedCovered'
<1> USE DEF IInv, VisitedCovered
<1>k. \A s \in State : CoveringNodes(s) # {} => CoveringNodes(s)' # {}
  BY StepKeepsCoverage
<1>s. \A n \in stored : \A tr \in ts.next[n.state] : tr[2] \in State
  BY SystemFacts DEF TypeOK, Node
<1>f. \A s : NewNode(s) \notin stored
  BY DEF TypeOK, NamesUnique, Node, NewNode
<1>1. ASSUME NEW s \in todo, ExpandInitialCovered(s)
      PROVE  VisitedCovered'
  <2>1. stats'.reachable = stats.reachable
    BY <1>1 DEF ExpandInitialCovered, TypeOK
  <2>2. QED
    BY <1>1, <1>k, <1>s, <2>1 DEF ExpandInitialCovered
<1>2. ASSUME NEW s \in todo, ExpandInitialMaximal(s)
      PROVE  VisitedCovered'
  BY <1>2, <1>k, <1>s, <1>f DEF ExpandInitialMaximal
<1>3. CASE InsertInitial
  BY <1>3, <1>k, <1>s DEF InsertInitial
<1>4. ASSUME NEW n \in waiting, VisitAccepting(n)
      PROVE  VisitedCovered'
  <2>1. stats'.reachable
    BY <1>4 DEF VisitAccepting, TypeOK
  <2>2. QED
    BY <2>1
<1>5. ASSUME NEW n \in waiting, Visit(n)
      PROVE  VisitedCovered'
  <2>1. stats'.reachable = stats.reachable
    BY <1>5 DEF Visit, TypeOK
  <2>2. QED
    BY <1>5, <1>k, <1>s, <2>1 DEF Visit
<1>6. ASSUME NEW tr \in todo, NEW m \in stored, ExpandNextCovered(tr, m)
      PROVE  VisitedCovered'
  <2>1. stats'.reachable = stats.reachable
    BY <1>6 DEF ExpandNextCovered, TypeOK
  <2>2. CoveringNodes(tr[2])' # {}
    BY <1>6 DEF ExpandNextCovered, CoveringNodes
  <2>3. QED
    BY <1>6, <1>k, <1>s, <2>1, <2>2 DEF ExpandNextCovered
<1>7. ASSUME NEW tr \in todo, ExpandNextMaximal(tr)
      PROVE  VisitedCovered'
  <2>1. tr[2] \in State
    BY <1>7, <1>s DEF ExpandNextMaximal, ControlOK
  <2>2. /\ NewNode(tr[2]).state = tr[2] /\ NewNode(tr[2]) \in stored'
        /\ ts' = ts /\ Le(ts, tr[2], tr[2])
    BY <1>7, <2>1, SystemFacts DEF ExpandNextMaximal, NewNode, TypeOK
  <2>3. CoveringNodes(tr[2])' # {}
    BY <2>2 DEF CoveringNodes
  <2>4. QED
    BY <1>7, <1>k, <1>s, <1>f, <2>3 DEF ExpandNextMaximal
<1>8. CASE EndExpand
  BY <1>8, <1>k, <1>s DEF EndExpand
<1>9. ASSUME NEW n \in fresh, InsertNext(n)
      PROVE  VisitedCovered'
  <2>1. stats'.reachable = stats.reachable
    BY <1>9 DEF InsertNext, TypeOK
  <2>2. \A m \in stored' \ (waiting' \cup fresh') : m \in stored \ (waiting \cup fresh)
    BY <1>9 DEF InsertNext
  <2>3. QED
    BY <1>9, <1>k, <1>s, <2>1, <2>2 DEF InsertNext
<1>10. CASE EndInsert
  BY <1>10, <1>k, <1>s DEF EndInsert
<1>11. CASE Finish
  <2>1. stats'.reachable = stats.reachable
    BY <1>11 DEF Finish, TypeOK
  <2>2. QED
    BY <1>11, <1>k, <1>s, <2>1 DEF Finish
<1>12. CASE Terminated
  BY <1>12 DEF Terminated, vars, CoveringNodes
<1>13. CASE UNCHANGED vars
  BY <1>13 DEF vars, CoveringNodes
<1>14. QED
  BY <1>1, <1>2, <1>3, <1>4, <1>5, <1>6, <1>7, <1>8, <1>9, <1>10, <1>11,
     <1>12, <1>13 DEF Next
(* Every edge stays between stored nodes and keeps standing for one of     *)
(* the transitions of its source, when its target is removed as well: the  *)
(* node it moves to covers its former target.                              *)
LEMMA StepEdgesSound ==
  ASSUME IInv, [Next]_vars
  PROVE  EdgesSound'
<1> USE DEF IInv, EdgesSound
<1>1. ASSUME NEW s \in todo, ExpandInitialCovered(s)
      PROVE  EdgesSound'
  BY <1>1 DEF ExpandInitialCovered
<1>2. ASSUME NEW s \in todo, ExpandInitialMaximal(s)
      PROVE  EdgesSound'
  BY <1>2 DEF ExpandInitialMaximal
<1>3. CASE InsertInitial
  BY <1>3 DEF InsertInitial
<1>4. ASSUME NEW n \in waiting, VisitAccepting(n)
      PROVE  EdgesSound'
  BY <1>4 DEF VisitAccepting
<1>5. ASSUME NEW n \in waiting, Visit(n)
      PROVE  EdgesSound'
  BY <1>5 DEF Visit
<1>6. ASSUME NEW tr \in todo, NEW m \in stored, ExpandNextCovered(tr, m)
      PROVE  EdgesSound'
  <2>1. Le(ts, tr[2], m.state) /\ tr \in ts.next[current.state] /\ current \in stored
    BY <1>6 DEF ExpandNextCovered, CoveringNodes, ControlOK
  <2>2. QED
    BY <1>6, <2>1 DEF ExpandNextCovered
<1>7. ASSUME NEW tr \in todo, ExpandNextMaximal(tr)
      PROVE  EdgesSound'
  <2>1. tr \in ts.next[current.state] /\ current \in stored
    BY <1>7 DEF ExpandNextMaximal, ControlOK
  <2>2. Le(ts, tr[2], tr[2])
    BY <1>7, SystemFacts DEF ExpandNextMaximal, TypeOK
  <2>3. NewNode(tr[2]).state = tr[2]
    BY DEF NewNode
  <2>4. QED
    BY <1>7, <2>1, <2>2, <2>3 DEF ExpandNextMaximal
<1>8. CASE EndExpand
  BY <1>8 DEF EndExpand
<1>9. ASSUME NEW n \in fresh, InsertNext(n)
      PROVE  EdgesSound'
  <2>1. n \in stored \ CoveredNodes(n)
    BY DEF CoveredNodes, WaitingStored
  <2>2. SUFFICES ASSUME NEW f \in edges, f.src \notin CoveredNodes(n)
                 PROVE  LET e == MoveIncoming(f, CoveredNodes(n), n)
                        IN  /\ e.src \in stored \ CoveredNodes(n)
                            /\ e.tgt \in stored \ CoveredNodes(n)
                            /\ e.tr \in ts.next[e.src.state]
                            /\ Le(ts, e.tr[2], e.tgt.state)
                            /\ e.kind = "actual" => e.tgt.state = e.tr[2]
    BY <1>9 DEF InsertNext, EdgesAfterRemoval
  <2>3. f \in Edge
    BY DEF TypeOK
  <2>4. CASE f.tgt \in CoveredNodes(n)
    <3>1. Le(ts, f.tr[2], f.tgt.state) /\ Le(ts, f.tgt.state, n.state)
      BY <2>4 DEF CoveredNodes, LeNode
    <3>2. Le(ts, f.tr[2], n.state)
      BY <3>1, <2>3, SystemFacts DEF TypeOK, Edge, Node
    <3>3. MoveIncoming(f, CoveredNodes(n), n) =
            [src |-> f.src, tgt |-> n, kind |-> "subsumption", tr |-> f.tr]
      BY <2>3, <2>4 DEF MoveIncoming, Edge
    <3>4. f.src \in stored \ CoveredNodes(n) /\ f.tr \in ts.next[f.src.state]
      BY <2>2
    <3>5. QED
      BY <2>1, <3>2, <3>3, <3>4
  <2>5. CASE f.tgt \notin CoveredNodes(n)
    BY <2>2, <2>5 DEF MoveIncoming
  <2>6. QED
    BY <2>4, <2>5
<1>10. CASE EndInsert
  BY <1>10 DEF EndInsert
<1>11. CASE Finish
  BY <1>11 DEF Finish
<1>12. CASE Terminated
  BY <1>12 DEF Terminated, vars
<1>13. CASE UNCHANGED vars
  BY <1>13 DEF vars
<1>14. QED
  BY <1>1, <1>2, <1>3, <1>4, <1>5, <1>6, <1>7, <1>8, <1>9, <1>10, <1>11,
     <1>12, <1>13 DEF Next

(* A visited node keeps an edge for each transition handled: the removal   *)
(* of other nodes moves its edges but never drops one.                     *)
LEMMA StepVisitedHasEdges ==
  ASSUME IInv, [Next]_vars
  PROVE  VisitedHasEdges'
<1> USE DEF IInv, VisitedHasEdges
<1>f. \A s : NewNode(s) \notin stored
  BY DEF TypeOK, NamesUnique, Node, NewNode
<1>1. ASSUME NEW s \in todo, ExpandInitialCovered(s)
      PROVE  VisitedHasEdges'
  <2>1. stats'.reachable = stats.reachable
    BY <1>1 DEF ExpandInitialCovered, TypeOK
  <2>2. QED
    BY <1>1, <2>1 DEF ExpandInitialCovered
<1>2. ASSUME NEW s \in todo, ExpandInitialMaximal(s)
      PROVE  VisitedHasEdges'
  BY <1>2, <1>f DEF ExpandInitialMaximal
<1>3. CASE InsertInitial
  BY <1>3 DEF InsertInitial
<1>4. ASSUME NEW n \in waiting, VisitAccepting(n)
      PROVE  VisitedHasEdges'
  <2>1. stats'.reachable
    BY <1>4 DEF VisitAccepting, TypeOK
  <2>2. QED
    BY <2>1
<1>5. ASSUME NEW n \in waiting, Visit(n)
      PROVE  VisitedHasEdges'
  <2>1. stats'.reachable = stats.reachable
    BY <1>5 DEF Visit, TypeOK
  <2>2. QED
    BY <1>5, <2>1 DEF Visit
<1>6. ASSUME NEW tr \in todo, NEW m \in stored, ExpandNextCovered(tr, m)
      PROVE  VisitedHasEdges'
  <2>1. stats'.reachable = stats.reachable
    BY <1>6 DEF ExpandNextCovered, TypeOK
  <2>2. [src |-> current, tgt |-> m, kind |-> "subsumption", tr |-> tr] \in edges'
    BY <1>6 DEF ExpandNextCovered
  <2>3. \E e \in edges' : e.src = current /\ e.tr = tr
    BY <2>2
  <2>4. QED
    BY <1>6, <2>1, <2>3 DEF ExpandNextCovered
<1>7. ASSUME NEW tr \in todo, ExpandNextMaximal(tr)
      PROVE  VisitedHasEdges'
  <2>1. [src |-> current, tgt |-> NewNode(tr[2]), kind |-> "actual", tr |-> tr] \in edges'
    BY <1>7 DEF ExpandNextMaximal
  <2>2. \E e \in edges' : e.src = current /\ e.tr = tr
    BY <2>1
  <2>3. QED
    BY <1>7, <1>f, <2>2 DEF ExpandNextMaximal
<1>8. CASE EndExpand
  BY <1>8 DEF EndExpand
<1>9. ASSUME NEW n \in fresh, InsertNext(n)
      PROVE  VisitedHasEdges'
  <2>1. stats'.reachable = stats.reachable
    BY <1>9 DEF InsertNext, TypeOK
  <2>2. ASSUME NEW m \in stored' \ (waiting' \cup fresh')
        PROVE  m \in stored \ (waiting \cup fresh) /\ m \notin CoveredNodes(n)
    BY <1>9, <2>2 DEF InsertNext
  <2>3. ASSUME NEW e \in edges, e.src \notin CoveredNodes(n)
        PROVE  \E f \in edges' : f.src = e.src /\ f.tr = e.tr
    <3>1. MoveIncoming(e, CoveredNodes(n), n) \in edges'
      BY <1>9, <2>3 DEF InsertNext, EdgesAfterRemoval
    <3>2. /\ MoveIncoming(e, CoveredNodes(n), n).src = e.src
          /\ MoveIncoming(e, CoveredNodes(n), n).tr = e.tr
      BY DEF MoveIncoming, TypeOK, Edge
    <3>3. QED
      BY <3>1, <3>2
  <2>4. QED
    BY <1>9, <2>1, <2>2, <2>3 DEF InsertNext
<1>10. CASE EndInsert
  BY <1>10 DEF EndInsert
<1>11. CASE Finish
  <2>1. stats'.reachable = stats.reachable
    BY <1>11 DEF Finish, TypeOK
  <2>2. QED
    BY <1>11, <2>1 DEF Finish
<1>12. CASE Terminated
  BY <1>12 DEF Terminated, vars
<1>13. CASE UNCHANGED vars
  BY <1>13 DEF vars
<1>14. QED
  BY <1>1, <1>2, <1>3, <1>4, <1>5, <1>6, <1>7, <1>8, <1>9, <1>10, <1>11,
     <1>12, <1>13 DEF Next

(* The counters add up, whether a node is dropped as it is created or      *)
(* removed later, alone or with others.                                    *)
LEMMA StepNodesAccounted ==
  ASSUME IInv, [Next]_vars
  PROVE  NodesAccounted'
<1> USE DEF IInv, NodesAccounted
<1>c. /\ IsFiniteSet(stored) /\ Cardinality(stored) \in Nat
      /\ created \in Nat /\ stats.covered \in Nat
  BY FS_CardinalityType DEF TypeOK
<1>n. \A s : Cardinality(stored \cup {NewNode(s)}) = Cardinality(stored) + 1
  <2>1. \A s : NewNode(s) \notin stored
    BY DEF TypeOK, NamesUnique, Node, NewNode
  <2>2. QED
    BY <1>c, <2>1, FS_AddElement
<1>1. ASSUME NEW s \in todo, ExpandInitialCovered(s)
      PROVE  NodesAccounted'
  <2>1. stats'.covered = stats.covered + 1
    BY <1>1 DEF ExpandInitialCovered, TypeOK
  <2>2. QED
    BY <1>1, <1>c, <2>1 DEF ExpandInitialCovered
<1>2. ASSUME NEW s \in todo, ExpandInitialMaximal(s)
      PROVE  NodesAccounted'
  <2>1. stored' = stored \cup {NewNode(s)} /\ created' = created + 1 /\ stats' = stats
    BY <1>2 DEF ExpandInitialMaximal
  <2>2. QED
    BY <1>c, <1>n, <2>1
<1>3. CASE InsertInitial
  BY <1>3 DEF InsertInitial
<1>4. ASSUME NEW n \in waiting, VisitAccepting(n)
      PROVE  NodesAccounted'
  <2>1. stats'.covered = stats.covered
    BY <1>4 DEF VisitAccepting, TypeOK
  <2>2. QED
    BY <1>4, <2>1 DEF VisitAccepting
<1>5. ASSUME NEW n \in waiting, Visit(n)
      PROVE  NodesAccounted'
  <2>1. stats'.covered = stats.covered
    BY <1>5 DEF Visit, TypeOK
  <2>2. QED
    BY <1>5, <2>1 DEF Visit
<1>6. ASSUME NEW tr \in todo, NEW m \in stored, ExpandNextCovered(tr, m)
      PROVE  NodesAccounted'
  <2>1. stats'.covered = stats.covered + 1
    BY <1>6 DEF ExpandNextCovered, TypeOK
  <2>2. QED
    BY <1>6, <1>c, <2>1 DEF ExpandNextCovered
<1>7. ASSUME NEW tr \in todo, ExpandNextMaximal(tr)
      PROVE  NodesAccounted'
  BY <1>7, <1>c, <1>n DEF ExpandNextMaximal
<1>8. CASE EndExpand
  BY <1>8 DEF EndExpand
<1>9. ASSUME NEW n \in fresh, InsertNext(n)
      PROVE  NodesAccounted'
  <2> DEFINE gone == CoveredNodes(n)
  <2>1. gone \subseteq stored
    BY DEF CoveredNodes
  <2>2. IsFiniteSet(gone) /\ Cardinality(gone) \in Nat
    BY <1>c, <2>1, FS_Subset, FS_CardinalityType
  <2>3. Cardinality(stored \ gone) = Cardinality(stored) - Cardinality(gone)
    <3>1. stored \cap gone = gone
      BY <2>1
    <3>2. QED
      BY <1>c, <3>1, FS_Difference
  <2>4. stats'.covered = stats.covered + Cardinality(gone)
    BY <1>9 DEF InsertNext, TypeOK
  <2>5. stored' = stored \ gone /\ created' = created
    BY <1>9 DEF InsertNext
  <2> HIDE DEF gone
  <2>6. QED
    BY <1>c, <2>2, <2>3, <2>4, <2>5
<1>10. CASE EndInsert
  BY <1>10 DEF EndInsert
<1>11. CASE Finish
  <2>1. stats'.covered = stats.covered
    BY <1>11 DEF Finish, TypeOK
  <2>2. QED
    BY <1>11, <2>1 DEF Finish
<1>12. CASE Terminated
  BY <1>12 DEF Terminated, vars
<1>13. CASE UNCHANGED vars
  BY <1>13 DEF vars
<1>14. QED
  BY <1>1, <1>2, <1>3, <1>4, <1>5, <1>6, <1>7, <1>8, <1>9, <1>10, <1>11,
     <1>12, <1>13 DEF Next

(* A node is created only if no stored node covers it, the nodes below it  *)
(* are removed as it is inserted, and of two next nodes the older one is   *)
(* inserted first: the nodes inserted so far stay incomparable.  Initial   *)
(* nodes remove nothing; they are distinct states, and incomparable if the *)
(* initial states are.                                                     *)
LEMMA StepAntichain ==
  ASSUME IInv, [Next]_vars
  PROVE  FreshMaximal' /\ Antichain'
<1> DEFINE G == FreshMaximal /\ Antichain
<1> SUFFICES G'
  OBVIOUS
<1> USE DEF IInv, FreshMaximal, Antichain
<1>t. \A n \in stored : n.id \in Nat /\ n.state \in State
  BY DEF TypeOK, Node
<1>n. \A s : NewNode(s).state = s /\ NewNode(s) \notin stored
  BY DEF TypeOK, NamesUnique, Node, NewNode
<1>1. ASSUME NEW s \in todo, ExpandInitialCovered(s)
      PROVE  G'
  BY <1>1 DEF ExpandInitialCovered, LeNode
<1>2. ASSUME NEW s \in todo, ExpandInitialMaximal(s)
      PROVE  G'
  <2>1. s \in ts.init /\ s \in State /\ Le(ts, s, s)
    BY <1>2, SystemFacts DEF ExpandInitialMaximal, ControlOK, TypeOK
  <2>2. \A n \in stored : n.state # s
    BY <1>2, <2>1 DEF ExpandInitialMaximal, CoveringNodes
  <2>3. stored' = fresh'
    BY <1>2 DEF ExpandInitialMaximal, ControlOK
  <2>4. FreshMaximal'
    BY <1>2, <1>n, <2>1, <2>2, <2>3 DEF ExpandInitialMaximal, ControlOK
  <2>5. QED
    BY <2>3, <2>4
<1>3. CASE InsertInitial
  <2>1. stored = fresh /\ fresh' = {} /\ stored' = stored /\ ts' = ts /\ pc' # "initial"
    BY <1>3 DEF InsertInitial, ControlOK
  <2>2. \A m, n \in stored : m # n => m.state # n.state /\ m.state \in ts.init /\ n.state \in ts.init
    BY <1>3, <2>1 DEF InsertInitial
  <2>3. QED
    BY <2>1, <2>2 DEF LeNode
<1>4. ASSUME NEW n \in waiting, VisitAccepting(n)
      PROVE  G'
  BY <1>4 DEF VisitAccepting, LeNode
<1>5. ASSUME NEW n \in waiting, Visit(n)
      PROVE  G'
  BY <1>5 DEF Visit, LeNode
<1>6. ASSUME NEW tr \in todo, NEW m \in stored, ExpandNextCovered(tr, m)
      PROVE  G'
  BY <1>6 DEF ExpandNextCovered, LeNode
<1>7. ASSUME NEW tr \in todo, ExpandNextMaximal(tr)
      PROVE  G'
  <2>1. \A n \in stored : ~ Le(ts, tr[2], n.state)
    BY <1>7 DEF ExpandNextMaximal, CoveringNodes
  <2>2. stored' \ fresh' = stored \ fresh
    BY <1>7, <1>n DEF ExpandNextMaximal
  <2>3. QED
    BY <1>7, <1>n, <2>1, <2>2 DEF ExpandNextMaximal, LeNode
<1>8. CASE EndExpand
  BY <1>8 DEF EndExpand, LeNode
<1>9. ASSUME NEW n \in fresh, InsertNext(n)
      PROVE  G'
  <2>1. \A m \in fresh \ {n} : n.id < m.id
    BY <1>9, <1>t DEF InsertNext, OldestFresh, WaitingStored, NamesUnique
  <2>2. \A m \in fresh \ {n} : ~ LeNode(m, n)
    BY <2>1 DEF FreshOrder
  <2>3. stored' \ fresh' = ((stored \ fresh) \cup {n}) \ CoveredNodes(n)
    <3>1. \A m \in fresh \ {n} : m \notin CoveredNodes(n)
      BY <2>2 DEF CoveredNodes
    <3>2. n \notin CoveredNodes(n) /\ n \in stored
      BY DEF CoveredNodes, WaitingStored
    <3>3. QED
      BY <1>9, <3>1, <3>2 DEF InsertNext
  <2>4. ts' = ts /\ pc' # "initial" /\ fresh' = fresh \ {n}
    BY <1>9 DEF InsertNext
  <2>5. \A m \in stored : m # n /\ m \notin CoveredNodes(n) => ~ LeNode(m, n)
    BY DEF CoveredNodes
  <2>6. \A m, k \in fresh' \cup stored' : LeNode(m, k)' <=> LeNode(m, k)
    BY <2>4 DEF LeNode
  <2>7. FreshMaximal'
    BY <2>2, <2>3, <2>4, <2>6
  <2>8. Antichain'
    BY <2>3, <2>4, <2>5, <2>6
  <2>9. QED
    BY <2>7, <2>8
<1>10. CASE EndInsert
  BY <1>10 DEF EndInsert, LeNode
<1>11. CASE Finish
  BY <1>11 DEF Finish, LeNode
<1>12. CASE Terminated
  BY <1>12 DEF Terminated, vars, LeNode
<1>13. CASE UNCHANGED vars
  BY <1>13 DEF vars, LeNode
<1>14. QED
  BY <1>1, <1>2, <1>3, <1>4, <1>5, <1>6, <1>7, <1>8, <1>9, <1>10, <1>11,
     <1>12, <1>13 DEF Next

-----------------------------------------------------------------------------
(* The inductive invariant holds in every reachable state of the           *)
(* algorithm, under every enumeration order and every waiting policy.      *)
THEOREM InductiveInvariant == Safety => []IInv
<1>1. Init => IInv
  BY InitIInv
<1>2. IInv /\ [Next]_vars => IInv'
  BY StepTypeOK, StepControl, StepStoredReachable, StepInitCovered,
     StepVisitedCovered, StepEdgesSound, StepVisitedHasEdges, StepAntichain,
     StepNodesAccounted DEF IInv
<1>3. QED
  BY <1>1, <1>2, PTL DEF Safety

(* The variables keep the types of the C++ members they stand for.         *)
THEOREM TypeCorrect == Safety => []TypeOK
<1>1. IInv => TypeOK
  BY DEF IInv
<1>2. QED
  BY <1>1, InductiveInvariant, PTL

(* algorithm_t::run only visits and only inserts nodes of the graph: no    *)
(* waiting node and no node of next_nodes was removed before its turn.     *)
THEOREM OnlyStoredNodesWait == Safety => []WaitingStored
<1>1. IInv => WaitingStored
  BY DEF IInv
<1>2. QED
  BY <1>1, InductiveInvariant, PTL

(* remove_covered_nodes never uncovers a state that the graph covered.     *)
THEOREM CoverageNeverLost == Safety => CoverageMonotone
<1>1. IInv /\ [Next]_vars =>
        [\A s \in State : CoveringNodes(s) # {} => CoveringNodes(s)' # {}]_vars
  BY StepKeepsCoverage DEF IInv
<1>2. QED
  BY <1>1, InductiveInvariant, PTL DEF Safety, CoverageMonotone

(* The graph is a certificate: edges join stored nodes, stand for          *)
(* transitions of their sources, and a node that was expanded has one for  *)
(* each of its transitions, whatever remove_covered_nodes removed since.   *)
THEOREM EdgesCorrect == Safety => []EdgesRepresentTransitions
<1>1. IInv => EdgesRepresentTransitions
  BY DEF IInv, EdgesRepresentTransitions, Expanded, VisitedHasEdges
<1>2. QED
  BY <1>1, InductiveInvariant, PTL

(* The nodes kept by remove_covered_nodes are incomparable: the graph is   *)
(* no larger than the covering allows, once the next nodes are inserted.   *)
THEOREM StoredNodesIncomparable == Safety => []Antichain
<1>1. IInv => Antichain
  BY DEF IInv
<1>2. QED
  BY <1>1, InductiveInvariant, PTL

(* covreach::stats_t: every node ever constructed is stored or counted as  *)
(* covered.                                                                *)
THEOREM StatisticsExact == Safety => []NodesAccounted
<1>1. IInv => NodesAccounted
  BY DEF IInv
<1>2. QED
  BY <1>1, InductiveInvariant, PTL

(* When nothing waits any more, the covered states are closed under        *)
(* successors, so they include every reachable state.                      *)
LEMMA InvariantCovers == IInv => GraphCoversReachable
<1> SUFFICES ASSUME IInv, pc = "done", ~ stats.reachable
             PROVE  \A s \in Reachable(ts) : CoveringNodes(s) # {}
  BY DEF GraphCoversReachable
<1> DEFINE C == {s \in State : CoveringNodes(s) # {}}
<1>1. waiting = {} /\ fresh = {}
  BY DEF IInv, ControlOK
<1>2. ts.init \subseteq C
  BY SystemFacts DEF IInv, InitCovered, TypeOK
<1>3. ASSUME NEW s \in C, NEW sn \in Successors(ts, s)
      PROVE  sn \in C
  <2>1. PICK n \in stored : Le(ts, s, n.state)
    BY <1>3 DEF CoveringNodes
  <2>2. n.state \in State /\ s \in State /\ ts \in TransitionSystems
    BY <1>3 DEF IInv, TypeOK, Node
  <2>3. sn \in State /\ Successors(ts, n.state) \subseteq State
    BY <1>3, <2>2, SystemFacts DEF Successors
  <2>4. PICK un \in Successors(ts, n.state) : Le(ts, sn, un)
    BY <1>3, <2>1, <2>2, SystemFacts
  <2>5. CoveringNodes(un) # {}
    BY <1>1, <2>4 DEF IInv, VisitedCovered, Successors
  <2>6. PICK m \in stored : Le(ts, un, m.state)
    BY <2>5 DEF CoveringNodes
  <2>7. Le(ts, sn, m.state)
    BY <2>2, <2>3, <2>4, <2>6, SystemFacts DEF IInv, TypeOK, Node
  <2>8. QED
    BY <2>3, <2>6, <2>7 DEF CoveringNodes
<1>4. IsClosed(ts, C)
  BY <1>2, <1>3 DEF IsClosed
<1>5. Reachable(ts) \subseteq C
  BY <1>4, ReachableLeast DEF IInv, TypeOK
<1>6. QED
  BY <1>5

(* The stats at the end of run agree with the reachability of an accepting *)
(* state: the stored node that stopped the search is a reachable one, and  *)
(* without it no visited node, hence no state that one covers, accepts.    *)
(* A complete exploration without an accepting node covers what is         *)
(* reachable, and covering keeps the accepting labels.                     *)
LEMMA InvariantAnswers == IInv => VerdictCorrect
<1> SUFFICES ASSUME IInv, pc = "done"
             PROVE  stats.reachable <=> AcceptingReachable(ts)
  BY DEF VerdictCorrect
<1>1. ASSUME stats.reachable
      PROVE  AcceptingReachable(ts)
  BY <1>1 DEF IInv, StoredReachable, AcceptingReachable
<1>2. ASSUME ~ stats.reachable, NEW s \in Reachable(ts), s \in ts.accept
      PROVE  FALSE
  <2>1. PICK n \in stored : Le(ts, s, n.state)
    BY <1>2, InvariantCovers DEF GraphCoversReachable, CoveringNodes
  <2>2. n.state \in State /\ s \in State
    BY DEF IInv, TypeOK, Node, Reachable
  <2>3. n.state \in ts.accept
    BY <1>2, <2>1, <2>2, SystemFacts DEF IInv, TypeOK
  <2>4. n.state \notin ts.accept
    BY <1>2 DEF IInv, VisitedCovered, ControlOK
  <2>5. QED
    BY <2>3, <2>4
<1>3. stats.reachable \in BOOLEAN
  BY DEF IInv, TypeOK
<1>4. QED
  BY <1>1, <1>2, <1>3 DEF AcceptingReachable

(* A search that ends without an accepting node has covered every          *)
(* reachable state.                                                        *)
THEOREM Completeness == Safety => []GraphCoversReachable
BY InvariantCovers, InductiveInvariant, PTL

(* The answer of covreach::algorithm_t::run is right whatever the model,   *)
(* the simulation it plugs in, the search order and the enumeration order. *)
THEOREM Correctness == Safety => []VerdictCorrect
BY InvariantAnswers, InductiveInvariant, PTL

(* covreach::algorithm_t implements the abstract reachability query: it    *)
(* answers at most once, rightly, and never withdraws its answer.          *)
THEOREM Refinement == Safety => AnswersQuery
<1>1. Init => Query!Init
  BY DEF Init, Query!Init, Verdict
<1>2. ASSUME IInv, VerdictCorrect', [Next]_vars
      PROVE  [Query!Next]_Query!vars
  <2>1. ts' = ts
    BY <1>2 DEF Next, vars, ExpandInitialCovered, ExpandInitialMaximal, InsertInitial,
         VisitAccepting, Visit, ExpandNextCovered, ExpandNextMaximal, EndExpand,
         InsertNext, EndInsert, Finish, Terminated
  <2>2. CASE pc # "done" /\ pc' # "done"
    BY <2>1, <2>2 DEF Query!vars, Verdict
  <2>3. CASE pc # "done" /\ pc' = "done"
    <3>1. stats'.reachable <=> AcceptingReachable(ts)
      BY <1>2, <2>1, <2>3 DEF VerdictCorrect
    <3>2. Query!AcceptingReachable(ts) <=> AcceptingReachable(ts)
      BY DEF AcceptingReachable, Reachable, IsClosed, Successors,
         Query!AcceptingReachable, Query!Reachable, Query!IsClosed, Query!Successors
    <3>3. QED
      BY <2>1, <2>3, <3>1, <3>2 DEF Query!Next, Query!Answer, Verdict
  <2>4. CASE pc = "done"
    <3>1. UNCHANGED vars
      <4>1. waiting = {} /\ fresh = {}
        BY <1>2, <2>4 DEF IInv, ControlOK
      <4>2. QED
        BY <1>2, <2>4, <4>1 DEF Next, vars, ExpandInitialCovered,
           ExpandInitialMaximal, InsertInitial, VisitAccepting, Visit,
           ExpandNextCovered, ExpandNextMaximal, EndExpand, InsertNext,
           EndInsert, Finish, Terminated
    <3>2. QED
      BY <3>1 DEF vars, Query!vars, Verdict
  <2>5. QED
    BY <2>2, <2>3, <2>4
<1>3. QED
  BY <1>1, <1>2, InductiveInvariant, Correctness, PTL
     DEF Safety, AnswersQuery, Query!Safety
=============================================================================
