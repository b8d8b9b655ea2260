------------------------------ MODULE WaitingList -----------------------------
(***************************************************************************)
(* What a waiting container promises (waiting::waiting_t): the waiting     *)
(* elements and which of them is ahead of which, where remove takes an     *)
(* element away from between others without disturbing them.               *)
(***************************************************************************)
CONSTANT Element

VARIABLES
  policy,    \* "queue" or "stack", fixed when the container is made
  members,   \* the waiting elements
  ahead,     \* <<t, u>> when t was inserted before u
  answer     \* what the last call of empty() or first() returned

vars == <<policy, members, ahead, answer>>

(* The element that waits for the longest time, or for the shortest.       *)
Leader ==
  CHOOSE t \in members : \A u \in members \ {t} :
    IF policy = "queue" THEN <<t, u>> \in ahead ELSE <<u, t>> \in ahead

Init == policy \in {"queue", "stack"} /\ members = {} /\ ahead = {} /\ answer = "none"

Becomes(m, a) ==
  members' = m /\ ahead' = a /\ answer' = "none" /\ UNCHANGED policy

Answers(a) == answer' = a /\ UNCHANGED <<policy, members, ahead>>

Insert(t) ==
  t \notin members /\ Becomes(members \cup {t}, ahead \cup (members \X {t}))

Remove(t) == Becomes(members \ {t}, {p \in ahead : p[1] # t /\ p[2] # t})

RemoveFirst == members # {} /\ Remove(Leader)

Clear == Becomes({}, {})

Empty == Answers(IF members = {} THEN "empty" ELSE "not_empty")

First == members # {} /\ Answers(Leader)

Next ==
  \/ RemoveFirst \/ Clear \/ Empty \/ First
  \/ \E t \in Element : Insert(t) \/ Remove(t)

Spec == Init /\ [][Next]_vars
=============================================================================
