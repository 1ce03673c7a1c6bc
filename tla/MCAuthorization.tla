-------------------------- MODULE MCAuthorization --------------------------
(* Authorization with two requests of either kind for one tag, and a second
   tag that administrators may give to its row.  The table is empty or holds
   any row at the start, and the clock passes every expiry. *)
EXTENDS Authorization, TLC

CONSTANTS a1, a2, t1, t2

TagOfDef == [r \in Requests |-> t1]

\* Two requests for the same tag may trade places.
Alike == Permutations({a1, a2})

=============================================================================
