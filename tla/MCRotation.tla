----------------------------- MODULE MCRotation -----------------------------
EXTENDS Rotation, TLC

CONSTANTS r1, r2, r3, w1, w2, zA, zB

(* Three customers in one zone; one more brings in a second zone. *)
ThreeCustomers == {1, 2, 3}
FourCustomers == {1, 2, 3, 4}
OneZone == [c \in Customers |-> zA]
TwoZones == [c \in Customers |-> IF c <= 3 THEN zA ELSE zB]

(* Two customers of each zone a run: three customers last two runs, and the *)
(* third begins anew.                                                       *)
TwoEach == [r \in Runs |-> [z \in Zones |-> 2]]
NobodyBarred == [r \in Runs |-> {}]

(* Of the larger zone one each, so that a cycle lasts several runs; and a   *)
(* campaign that bars the first of each zone.                               *)
OneOrTwo == [r \in Runs |-> [z \in Zones |-> IF z = zA THEN 1 ELSE 2]]
SecondBars == [r \in Runs |-> IF r = r2 THEN {1, 4} ELSE {}]

Symmetry == Permutations({w1, w2})
=============================================================================
