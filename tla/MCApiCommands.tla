--------------------------- MODULE MCApiCommands ---------------------------
(* ApiCommands with requests of every kind. *)
EXTENDS ApiCommands

CONSTANTS r1, r2

=============================================================================
