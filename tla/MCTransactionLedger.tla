------------------------ MODULE MCTransactionLedger ------------------------
(* TransactionLedger with one or two charge points of one connector each, and *)
(* one or two read loops of the first.                                        *)
EXTENDS TransactionLedger, TLC

CONSTANTS p1, p2, k1, k2, l1, l2, l3, c1, a1, s1, none

OwnerDef   == [k \in Connectors |-> IF k = k1 THEN p1 ELSE p2]
PointOfDef == [l \in Loops |-> IF l = l3 THEN p2 ELSE p1]

\* The two read loops of p1 are alike.
LoopSymmetry == Permutations({l1, l2})

\* Without closing goroutines and administrators nobody reads the readings.
WithoutReadings == <<second, rows, pendings, told, job>>

=============================================================================
