-------------------------------- MODULE MCZone -------------------------------
(***************************************************************************)
(* Two clocks, with constants between -1 and 1.  Zones with such bounds    *)
(* are told apart by clock values below 3, and witnesses exist below 4.    *)
(***************************************************************************)
EXTENDS ZoneOperations

ThirdsBelowThree == {2 * n : n \in 0 .. 8}
SixthsBelowFour == 0 .. 24
SmallConstants == -1 .. 1

Map(a, b) == [x \in Clock |-> IF x = 1 THEN a ELSE b]
SomeLUBounds ==
  {[l |-> Map(0, 1), u |-> Map(1, 0)], [l |-> Map(1, NoBound), u |-> Map(0, 1)],
   [l |-> Map(0, NoBound), u |-> Map(0, NoBound)]}

(* Zones with an upper bound or none, and a difference between the clocks. *)
SomeZones ==
  {z \in {Constrained(Constrained(y, 1, 0, b), 2, 1, c) :
     y \in {OpenUp(Zero), UniversalPositive}, b \in {Db(LT, 1), LT_INFINITY},
     c \in {LT_ZERO, Db(LE, 1), LT_INFINITY}} : ~IsEmpty0(z)}
=============================================================================
