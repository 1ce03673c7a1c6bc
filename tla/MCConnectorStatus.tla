------------------------- MODULE MCConnectorStatus -------------------------
(* ConnectorStatus with two read loops, an administrator and the monitor; a   *)
(* connector that may get up to three rows.                                   *)
EXTENDS ConnectorStatus, TLC

CONSTANTS k1, r1, r2, admin, monitor

\* The read loops are interchangeable: no definition picks one of them.
Symmetry == Permutations(Readers)

=============================================================================
