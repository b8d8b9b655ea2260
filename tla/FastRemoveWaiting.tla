--------------------------- MODULE FastRemoveWaiting --------------------------
(***************************************************************************)
(* waiting::fast_remove_waiting_t over a queue_t or a stack_t, the waiting *)
(* containers of both exploration algorithms: removing an element only     *)
(* marks it, and marked elements are dropped when they come first.         *)
(***************************************************************************)
EXTENDS Naturals, Sequences

CONSTANT Element   \* the nodes: pointers to objects that carry a status

VARIABLES
  policy,   \* which container factory() has put below: "queue" or "stack"
  dq,       \* _dq, the std::deque of that container
  status,   \* _status of the elements
  answer    \* what the last call of empty() or first() returned

vars == <<policy, dq, status, answer>>

IsWaiting(st, t) == st[t] = "WAITING"

Holds(t) == \E i \in DOMAIN dq : dq[i] = t

(* first of the container below: queue_t takes from the front of the deque *)
(* and stack_t from its back; both insert at the back.                     *)
FirstOf(q) == IF policy = "queue" THEN Head(q) ELSE q[Len(q)]

WithoutFirst(q) == IF policy = "queue" THEN Tail(q) ELSE SubSeq(q, 1, Len(q) - 1)

(* Mutant: nothing is dropped. *)
NeverPurged(q, st) == q

(* remove_non_waiting_first: drop first elements until a waiting one is    *)
(* met; the positions of the waiting elements tell what remains.           *)
Purged(q, st) ==
  LET kept == {i \in DOMAIN q : IsWaiting(st, q[i])} IN
    IF kept = {} THEN <<>>
    ELSE IF policy = "queue"
         THEN SubSeq(q, CHOOSE i \in kept : \A j \in kept : i <= j, Len(q))
         ELSE SubSeq(q, 1, CHOOSE i \in kept : \A j \in kept : i >= j)

Init ==
  /\ policy \in {"queue", "stack"}
  /\ dq = <<>>
  /\ status = [t \in Element |-> "NOT_WAITING"]
  /\ answer = "none"

(* insert.  The algorithms insert a node once in its life, which is more   *)
(* than enough: the element must only have left the deque.                 *)
Insert(t) ==
  /\ ~ Holds(t)
  /\ dq' = Append(dq, t)
  /\ status' = [status EXCEPT ![t] = "WAITING"]
  /\ answer' = "none"
  /\ UNCHANGED policy

Empty ==
  /\ dq' = Purged(dq, status)
  /\ answer' = IF dq' = <<>> THEN "empty" ELSE "not_empty"
  /\ UNCHANGED <<policy, status>>

(* first, called on a container that is not empty.                         *)
First ==
  /\ Purged(dq, status) # <<>>
  /\ dq' = Purged(dq, status)
  /\ answer' = FirstOf(dq')
  /\ UNCHANGED <<policy, status>>

RemoveFirst ==
  LET q == Purged(dq, status) IN
    /\ q # <<>>
    /\ status' = [status EXCEPT ![FirstOf(q)] = "NOT_WAITING"]
    /\ dq' = WithoutFirst(q)
    /\ answer' = "none"
    /\ UNCHANGED policy

(* remove, of any element: remove_covered_nodes also calls it on nodes     *)
(* that left the container long ago.                                       *)
Remove(t) ==
  /\ status' = [status EXCEPT ![t] = "NOT_WAITING"]
  /\ dq' = Purged(dq, status')
  /\ answer' = "none"
  /\ UNCHANGED policy

(* clear: the status of the elements that were waiting is left as it is.   *)
Clear ==
  /\ dq' = <<>>
  /\ answer' = "none"
  /\ UNCHANGED <<policy, status>>

Next ==
  \/ Empty \/ First \/ RemoveFirst \/ Clear
  \/ \E t \in Element : Insert(t) \/ Remove(t)

Spec == Init /\ [][Next]_vars

-----------------------------------------------------------------------------
(* The elements of a deque that wait, and which of them comes earlier.      *)
MembersOf(q, st) == {t \in Element : IsWaiting(st, t) /\ \E i \in DOMAIN q : q[i] = t}

AheadOf(q, st) ==
  {p \in MembersOf(q, st) \X MembersOf(q, st) :
     \E i, j \in DOMAIN q : i < j /\ q[i] = p[1] /\ q[j] = p[2]}

Waiting == INSTANCE WaitingList
             WITH members <- MembersOf(dq, status), ahead <- AheadOf(dq, status)

(* Marking elements and dropping them later is not observable: empty and   *)
(* first answer as if removed elements had left the container at once, and *)
(* the others are handed out in the order of the policy.                   *)
ImplementsWaitingList == Waiting!Spec
=============================================================================
