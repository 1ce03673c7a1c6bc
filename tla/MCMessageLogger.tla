-------------------------- MODULE MCMessageLogger --------------------------
(* MessageLogger with up to four messages, one of them urgent, and a queue
   that is full at two.  Besides the ticker there is a goroutine for every
   flush that a full queue can start, so the bound on them is never felt. *)
EXTENDS MessageLogger

CONSTANTS m1, m2, m3, m4, ticker, f1, f2, f3

=============================================================================
