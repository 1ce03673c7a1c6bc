------------------------- MODULE MCBackgroundTasks -------------------------
(* BackgroundTasks with one charge point of two connectors and another of one. *)
EXTENDS BackgroundTasks

CONSTANTS p1, p2, c1, c2, c3

OwnerDef == [c \in Connectors |-> IF c = c3 THEN p2 ELSE p1]

=============================================================================
