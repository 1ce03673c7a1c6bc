----------------------- MODULE MCConnectionRegistry -----------------------
(* ConnectionRegistry with two connections that the server may both know
   at a time. *)
EXTENDS ConnectionRegistry

CONSTANTS c1, c2, nobody

=============================================================================
