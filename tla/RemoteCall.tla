----------------------------- MODULE RemoteCall -----------------------------
(***************************************************************************)
(* What SendCommand promises to its callers, with no maps, channels,       *)
(* timers or connections: a call is asked, the charge point may reply to   *)
(* it, and the caller gets exactly one outcome, a success only after a     *)
(* reply.  CommandManager implements it.                                   *)
(***************************************************************************)
CONSTANT Calls

VARIABLES
  status,   \* status[m]: "idle", "refused", "asked", "succeeded" or "gaveUp"
  replied   \* the calls the charge point replied to

vars == <<status, replied>>

Init ==
  /\ status = [m \in Calls |-> "idle"]
  /\ replied = {}

Ask(m) ==
  /\ status[m] = "idle"
  /\ status' = [status EXCEPT ![m] = "asked"]
  /\ UNCHANGED replied

\* The charge point is no longer connected; it never hears of the call.
Reject(m) ==
  /\ status[m] = "idle"
  /\ status' = [status EXCEPT ![m] = "refused"]
  /\ UNCHANGED replied

\* A reply may also come after the caller gave up.
Reply(m) ==
  /\ status[m] \notin {"idle", "refused"}
  /\ replied' = replied \cup {m}
  /\ UNCHANGED status

Succeed(m) ==
  /\ status[m] = "asked"
  /\ m \in replied
  /\ status' = [status EXCEPT ![m] = "succeeded"]
  /\ UNCHANGED replied

GiveUp(m) ==
  /\ status[m] = "asked"
  /\ status' = [status EXCEPT ![m] = "gaveUp"]
  /\ UNCHANGED replied

Next == \E m \in Calls : Ask(m) \/ Reject(m) \/ Reply(m) \/ Succeed(m) \/ GiveUp(m)

Spec == Init /\ [][Next]_vars

=============================================================================
