-------------------------- MODULE MCCommandManager --------------------------
(* CommandManager with a charge point that reconnects, and its refinement of *)
(* RemoteCall.                                                               *)
EXTENDS CommandManager

CONSTANTS m1, m2, c1, c2, p1

PointOfDef == [c \in Connections |-> p1]

TargetDef == [m \in Calls |-> p1]

\* m2 is made by a handler of the read loop of c1, m1 by another goroutine.
CallerDef == [m \in Calls |-> IF m = m2 THEN c1 ELSE Nobody]

=============================================================================
