------------------------- MODULE ConnectionRegistry -------------------------
(***************************************************************************)
(* The connections of one charge point: the clients map, the row of the    *)
(* charge point in the database, and the goroutines that keep them.  For   *)
(* every connection there is the HTTP handler that registers it and then   *)
(* the read loop (ocpp/handlers_db.go); for all of them the monitor that   *)
(* marks charge points as disconnected (ocpp/central_system.go).           *)
(*                                                                         *)
(* Charge points only share the mutex of the clients map, so one is        *)
(* enough.  It has one connection at a time, but it may open a new one     *)
(* before the server has noticed that the old one broke; a connection that *)
(* the server is done with is used again under its name.                   *)
(*                                                                         *)
(* A goroutine changes the row by reading it and saving all of it later.   *)
(* LastHeartbeat and LastBootNotification are kept as ages, in the row and *)
(* in every copy of it; an age of Old is beyond the threshold of the       *)
(* monitor and grows no more.  Left out: the columns model, vendor and so  *)
(* on, the heartbeat interval and the status; errors of the database; and  *)
(* a message that was sent before the connection broke and is read after.  *)
(*                                                                         *)
(* ConnectUnfound, DeleteNothing, CheckClientsOnly and MarkAndForget are   *)
(* the definitions that follow them with a bug put in.                     *)
(***************************************************************************)
EXTENDS Naturals

CONSTANTS
  Conns,  \* connections that the server may know at a time (a bound)
  Nobody, \* no connection
  Old     \* the age that is too old for the monitor

ASSUME NobodyAssumption == Nobody \notin Conns
ASSUME OldAssumption    == Old \in Nat \ {0}

VARIABLES
  conn,     \* conn[c]: the connection itself
  handler,  \* handler[c]: the goroutine of connection c
  copy,     \* copy[c]: the row that it is about to save
  clients,  \* the entry of the clients map
  row,      \* the row of the charge point, or NoRow
  monitor,  \* the goroutine of StartConnectionMonitoring
  snapshot  \* its copy of the row

vars == <<conn, handler, copy, clients, row, monitor, snapshot>>

NoRow == [connected |-> "absent"]
Ages  == 0 .. Old
Row   == [connected : {"yes", "no"}, beat : Ages, boot : Ages]

\* What the handlers and the monitor change in a row.
Marked(r, yesOrNo) == [r EXCEPT !.connected = yesOrNo]
Booted(r)          == [connected |-> "yes", beat |-> r.beat, boot |-> 0]
Beaten(r)          == [connected |-> "yes", beat |-> 0, boot |-> r.boot]

Init ==
  /\ conn = [c \in Conns |-> "none"]
  /\ handler = [c \in Conns |-> "none"]
  /\ copy = [c \in Conns |-> NoRow]
  /\ clients = Nobody
  /\ row = NoRow
  /\ monitor = "idle"
  /\ snapshot = NoRow

-----------------------------------------------------------------------------
Goto(c, here, there) ==
  /\ handler[c] = here
  /\ handler' = [handler EXCEPT ![c] = there]

\* The first half of an update of the row: a changed copy of it.
Prepare(c, here, there, r) ==
  /\ Goto(c, here, there)
  /\ copy' = [copy EXCEPT ![c] = r]
  /\ UNCHANGED <<conn, clients, row, monitor, snapshot>>

\* The second half: gorm's Save writes every column of the copy.
Save(c, here, there) ==
  /\ Goto(c, here, there)
  /\ row' = copy[c]
  /\ copy' = [copy EXCEPT ![c] = NoRow]
  /\ UNCHANGED <<conn, clients, monitor, snapshot>>

\* The mutex of the command manager: the read loops and the monitor take it
\* around their access to the clients map, HandleWebSocket does not.
MutexIsFree == monitor # "checking" /\ \A c \in Conns : handler[c] # "deleting"

-----------------------------------------------------------------------------
(* HandleWebSocket. *)

\* The charge point opens a connection when it has none that works.
Connect(c) ==
  /\ conn[c] = "none"
  /\ \A d \in Conns : conn[d] # "open"
  /\ conn' = [conn EXCEPT ![c] = "open"]
  /\ Goto(c, "none", "connecting")
  /\ UNCHANGED <<copy, clients, row, monitor, snapshot>>

ConnectUnfound(c) == Prepare(c, "connecting", "registering", Marked(row, "yes"))

\* updateChargePointConnection(true): a new row has seen no heartbeat.
ConnectRead(c) ==
  Prepare(c, "connecting", "registering",
          IF row = NoRow
          THEN [connected |-> "yes", beat |-> Old, boot |-> Old]
          ELSE Marked(row, "yes"))

ConnectSave(c) == Save(c, "registering", "storing")

\* The connection is stored in the clients map and the read loop is started.
Store(c) ==
  /\ Goto(c, "storing", "reading")
  /\ clients' = c
  /\ UNCHANGED <<conn, copy, row, monitor, snapshot>>

-----------------------------------------------------------------------------
(* The read loop.  Its handlers also say what to do when there is no row,    *)
(* which there is since the connection was registered.                       *)

\* BootNotification.
Boot(c) ==
  /\ conn[c] = "open"
  /\ row # NoRow
  /\ Prepare(c, "reading", "answering", Booted(row))

\* Heartbeat.
Heartbeat(c) ==
  /\ conn[c] = "open"
  /\ row # NoRow
  /\ Prepare(c, "reading", "answering", Beaten(row))

Answer(c) == Save(c, "answering", "reading")

\* ReadMessage fails; the deferred function closes the connection ...
ReadFails(c) ==
  /\ conn[c] = "broken"
  /\ Goto(c, "reading", "closing")
  /\ UNCHANGED <<conn, copy, clients, row, monitor, snapshot>>

LockToDelete(c) ==
  /\ MutexIsFree
  /\ Goto(c, "closing", "deleting")
  /\ UNCHANGED <<conn, copy, clients, row, monitor, snapshot>>

DeleteNothing(c) ==
  /\ Goto(c, "deleting", "leaving")
  /\ UNCHANGED <<conn, copy, clients, row, monitor, snapshot>>

\* ... deletes whatever the clients map has for the charge point ...
Delete(c) ==
  /\ Goto(c, "deleting", "leaving")
  /\ clients' = Nobody
  /\ UNCHANGED <<conn, copy, row, monitor, snapshot>>

\* ... and marks the charge point as disconnected.
LeaveRead(c) ==
  /\ row # NoRow
  /\ Prepare(c, "leaving", "unregistering", Marked(row, "no"))

LeaveSave(c) ==
  /\ Goto(c, "unregistering", "none")
  /\ conn' = [conn EXCEPT ![c] = "none"]
  /\ row' = copy[c]
  /\ copy' = [copy EXCEPT ![c] = NoRow]
  /\ UNCHANGED <<clients, monitor, snapshot>>

-----------------------------------------------------------------------------
(* StartConnectionMonitoring. *)

\* A tick: the charge point is in the list of those that are connected.
MonitorList ==
  /\ monitor = "idle"
  /\ row.connected = "yes"
  /\ monitor' = "listed"
  /\ snapshot' = row
  /\ UNCHANGED <<conn, handler, copy, clients, row>>

MonitorLock ==
  /\ monitor = "listed"
  /\ MutexIsFree
  /\ monitor' = "checking"
  /\ UNCHANGED <<conn, handler, copy, clients, row, snapshot>>

\* Neither the last boot nor the last heartbeat is recent.
TooOld(r) == r.boot = Old /\ r.beat = Old

\* Does it look connected, by the map and by the copy of the row?
CheckClientsOnly(r) == clients # Nobody /\ r # NoRow

LooksConnected(r) == clients # Nobody /\ ~TooOld(r)

MonitorCheck ==
  /\ monitor = "checking"
  /\ IF LooksConnected(snapshot)
     THEN monitor' = "idle" /\ snapshot' = NoRow
     ELSE monitor' = "marking" /\ UNCHANGED snapshot
  /\ UNCHANGED <<conn, handler, copy, clients, row>>

MarkAndForget ==
  /\ monitor = "marking"
  /\ monitor' = "idle"
  /\ row' = Marked(snapshot, "no")
  /\ snapshot' = NoRow
  /\ clients' = Nobody
  /\ UNCHANGED <<conn, handler, copy>>

MonitorMark ==
  /\ monitor = "marking"
  /\ monitor' = "idle"
  /\ row' = Marked(snapshot, "no")
  /\ snapshot' = NoRow
  /\ UNCHANGED <<conn, handler, copy, clients>>

-----------------------------------------------------------------------------
(* The environment. *)

\* The network or the charge point ends the connection; the read loop may
\* notice at once, much later, or never.
Break(c) ==
  /\ conn[c] = "open"
  /\ conn' = [conn EXCEPT ![c] = "broken"]
  /\ UNCHANGED <<handler, copy, clients, row, monitor, snapshot>>

Aged(r) ==
  IF r = NoRow THEN NoRow
  ELSE [r EXCEPT !.beat = IF @ = Old THEN Old ELSE @ + 1,
                 !.boot = IF @ = Old THEN Old ELSE @ + 1]

\* Time passes.
Tick ==
  /\ row' = Aged(row)
  /\ copy' = [c \in Conns |-> Aged(copy[c])]
  /\ snapshot' = Aged(snapshot)
  /\ UNCHANGED <<conn, handler, clients, monitor>>

Registering(c) == ConnectRead(c) \/ ConnectSave(c) \/ Store(c)
Leaving(c)     == LockToDelete(c) \/ Delete(c) \/ LeaveRead(c) \/ LeaveSave(c)
Monitoring     == MonitorList \/ MonitorLock \/ MonitorCheck \/ MonitorMark

Next ==
  \/ \E c \in Conns :
       \/ Connect(c)
       \/ Registering(c)
       \/ Boot(c)
       \/ Heartbeat(c)
       \/ Answer(c)
       \/ ReadFails(c)
       \/ Leaving(c)
       \/ Break(c)
  \/ Monitoring
  \/ Tick

Spec == Init /\ [][Next]_vars

\* Goroutines run, time passes and the monitor ticks.  A broken connection
\* need not ever be noticed by its read loop: nothing sets a read deadline.
Fairness ==
  /\ WF_vars(Tick)
  /\ WF_vars(MonitorList)
  /\ SF_vars(MonitorLock)
  /\ WF_vars(MonitorCheck)
  /\ WF_vars(MonitorMark)
  /\ \A c \in Conns : WF_vars(Registering(c)) /\ WF_vars(Answer(c)) /\ SF_vars(Leaving(c))

FairSpec == Spec /\ Fairness

-----------------------------------------------------------------------------
(* Safety. *)

TypeOK ==
  /\ conn \in [Conns -> {"none", "open", "broken"}]
  /\ handler \in [Conns -> {"none", "connecting", "registering", "storing", "reading", "answering",
                            "closing", "deleting", "leaving", "unregistering"}]
  /\ copy \in [Conns -> Row \cup {NoRow}]
  /\ clients \in Conns \cup {Nobody}
  /\ row \in Row \cup {NoRow}
  /\ monitor \in {"idle", "listed", "checking", "marking"}
  /\ snapshot \in Row \cup {NoRow}

\* The clients map never holds a connection whose read loop has ended or has
\* not been started: a command sent to it could be answered by nobody.
ClientHasReader ==
  clients # Nobody => handler[clients] \in {"reading", "answering", "closing", "deleting"}

(* Action property. *)

\* The connection in the clients map keeps its entry as long as it is up,
\* whatever the monitor does: only a goroutine of another connection of the
\* charge point, one that is being registered or cleaned up, takes it away.
OnlyOthersEvict ==
  [][\A c \in Conns :
       clients = c /\ conn[c] = "open" /\ clients' # c
         => \E d \in Conns \ {c} : handler[d] \in {"storing", "deleting"}]_vars

(* Liveness. *)

\* A charge point that is gone for good is shown as disconnected in the end,
\* even when no read loop ever notices.
GoneIsNoticed ==
  <>[](\A c \in Conns : conn[c] # "open") => <>[](row.connected # "yes")

(* What the code does not keep. *)

\* A charge point whose connection is up and read is connected for
\* SendCommand, which looks only into the map: the clean-up of an old
\* connection leaves a new one there ("Check if charge point is connected", commands.go:42).
OpenConnectionIsClient ==
  \A c \in Conns :
    conn[c] = "open" /\ handler[c] \in {"reading", "answering"} => clients = c

\* The clients map is only read or written by one goroutine while it is
\* written: "Use a mutex to safely check the clients map"
\* (central_system.go:278).
MapIsSafe ==
  \A c \in Conns : handler[c] = "storing" => MutexIsFree

\* The monitor marks a charge point that is "Not in the clients map" or
\* "Hasn't sent a heartbeat in too long" (central_system.go:301), as it is when
\* marked.
MonitorSparesLive ==
  [][monitor = "marking" /\ monitor' = "idle" => ~LooksConnected(row)]_vars

=============================================================================
