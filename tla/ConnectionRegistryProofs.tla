----------------------- MODULE ConnectionRegistryProofs ----------------------
(***************************************************************************)
(* The clients map and the row of a charge point, for any number of        *)
(* connections and any threshold.                                          *)
(*                                                                         *)
(* TypeOK lets a copy be "no row" and so does not say what is saved:       *)
(* CopiesAreRows says that whoever is about to save holds a row.           *)
(***************************************************************************)
EXTENDS ConnectionRegistry, TLAPS

\* Every copy that is about to be saved is a row.
CopiesAreRows ==
  /\ \A c \in Conns :
       handler[c] \in {"registering", "answering", "unregistering"} => copy[c] \in Row
  /\ monitor # "idle" => snapshot \in Row

IInv == TypeOK /\ ClientHasReader /\ CopiesAreRows

USE DEF Ages

LEMMA RowIsNotNoRow == NoRow \notin Row
  <1>1. ASSUME NoRow \in Row PROVE FALSE
    <2>1. NoRow.connected \in {"yes", "no"}
      BY <1>1 DEF Row
    <2>. QED
      BY <2>1 DEF NoRow
  <1>. QED
    BY <1>1

\* A changed row is a row.
LEMMA ChangedIsRow ==
  ASSUME NEW r \in Row
  PROVE  /\ \A s \in {"yes", "no"} : Marked(r, s) \in Row
         /\ Booted(r) \in Row
         /\ Beaten(r) \in Row
  BY OldAssumption DEF Row, Marked, Booted, Beaten

\* Time does not make a row of no row, nor no row of a row.
LEMMA AgedIsRow ==
  /\ Aged(NoRow) = NoRow
  /\ \A r \in Row : Aged(r) \in Row
  <1>1. Aged(NoRow) = NoRow
    BY DEF Aged
  <1>2. ASSUME NEW r \in Row PROVE Aged(r) \in Row
    <2>1. r # NoRow
      BY RowIsNotNoRow
    <2>2. r.beat \in 0 .. Old /\ r.boot \in 0 .. Old
      BY DEF Row
    <2>3. /\ (IF r.beat = Old THEN Old ELSE r.beat + 1) \in 0 .. Old
          /\ (IF r.boot = Old THEN Old ELSE r.boot + 1) \in 0 .. Old
      BY <2>2, OldAssumption
    <2>. QED
      BY <2>1, <2>3 DEF Aged, Row
  <1>. QED
    BY <1>1, <1>2

LEMMA Initially == Init => IInv
  BY NobodyAssumption DEF Init, IInv, TypeOK, ClientHasReader, CopiesAreRows

-----------------------------------------------------------------------------
(* One step. *)

\* A handler that prepares a save.
LEMMA Preparing ==
  ASSUME IInv, NEW c \in Conns, NEW here, NEW there, NEW r \in Row,
         here \notin {"deleting"},
         <<here, there>> \in {<<"connecting", "registering">>, <<"reading", "answering">>,
                              <<"leaving", "unregistering">>},
         Prepare(c, here, there, r)
  PROVE  IInv'
  <1>. USE DEF IInv, Prepare, Goto
  <1>1. TypeOK'
    BY DEF TypeOK
  <1>2. ClientHasReader'
    BY DEF TypeOK, ClientHasReader
  <1>3. CopiesAreRows'
    BY DEF TypeOK, CopiesAreRows
  <1>. QED
    BY <1>1, <1>2, <1>3

\* The steps of the connection's own goroutine and of the network.
LEMMA ConnectionStep ==
  ASSUME IInv, NEW c \in Conns,
         \/ Connect(c) \/ Registering(c) \/ Boot(c) \/ Heartbeat(c)
         \/ Answer(c) \/ ReadFails(c) \/ Leaving(c) \/ Break(c)
  PROVE  IInv'
  <1>. USE DEF IInv
  <1>t. /\ conn \in [Conns -> {"none", "open", "broken"}]
        /\ DOMAIN handler = Conns /\ DOMAIN copy = Conns
        /\ row \in Row \cup {NoRow}
    BY DEF TypeOK
  <1>1. CASE Connect(c)
    BY <1>1 DEF Connect, Goto, TypeOK, ClientHasReader, CopiesAreRows
  <1>2. CASE ConnectRead(c)
    <2>1. IF row = NoRow THEN [connected |-> "yes", beat |-> Old, boot |-> Old] \in Row
                         ELSE Marked(row, "yes") \in Row
      BY <1>t, ChangedIsRow, OldAssumption DEF Row
    <2>. QED
      BY <1>2, <2>1, Preparing DEF ConnectRead
  <1>3. CASE ConnectSave(c)
    BY <1>3 DEF ConnectSave, Save, Goto, TypeOK, ClientHasReader, CopiesAreRows
  <1>4. CASE Store(c)
    BY <1>4 DEF Store, Goto, TypeOK, ClientHasReader, CopiesAreRows
  <1>5. CASE Boot(c)
    <2>1. row \in Row
      BY <1>5, <1>t DEF Boot
    <2>2. Booted(row) \in Row
      BY <2>1, ChangedIsRow
    <2>. QED
      BY <1>5, <2>2, Preparing DEF Boot
  <1>6. CASE Heartbeat(c)
    <2>1. row \in Row
      BY <1>6, <1>t DEF Heartbeat
    <2>2. Beaten(row) \in Row
      BY <2>1, ChangedIsRow
    <2>. QED
      BY <1>6, <2>2, Preparing DEF Heartbeat
  <1>7. CASE Answer(c)
    BY <1>7 DEF Answer, Save, Goto, TypeOK, ClientHasReader, CopiesAreRows
  <1>8. CASE ReadFails(c)
    BY <1>8 DEF ReadFails, Goto, TypeOK, ClientHasReader, CopiesAreRows
  <1>9. CASE LockToDelete(c)
    BY <1>9 DEF LockToDelete, Goto, TypeOK, ClientHasReader, CopiesAreRows
  <1>10. CASE Delete(c)
    BY <1>10 DEF Delete, Goto, TypeOK, ClientHasReader, CopiesAreRows
  <1>11. CASE LeaveRead(c)
    <2>1. row \in Row
      BY <1>11, <1>t DEF LeaveRead
    <2>2. Marked(row, "no") \in Row
      BY <2>1, ChangedIsRow
    <2>. QED
      BY <1>11, <2>2, Preparing DEF LeaveRead
  <1>12. CASE LeaveSave(c)
    BY <1>12 DEF LeaveSave, Goto, TypeOK, ClientHasReader, CopiesAreRows
  <1>13. CASE Break(c)
    BY <1>13 DEF Break, TypeOK, ClientHasReader, CopiesAreRows
  <1>. QED
    BY <1>1, <1>2, <1>3, <1>4, <1>5, <1>6, <1>7, <1>8, <1>9, <1>10, <1>11, <1>12, <1>13
       DEF Registering, Leaving

LEMMA MonitorStep == IInv /\ Monitoring => IInv'
  <1>. SUFFICES ASSUME IInv, Monitoring PROVE IInv'
    OBVIOUS
  <1>. USE DEF IInv
  <1>1. CASE MonitorList
    <2>1. row # NoRow
      BY <1>1 DEF MonitorList, NoRow
    <2>. QED
      BY <1>1, <2>1 DEF MonitorList, TypeOK, ClientHasReader, CopiesAreRows
  <1>2. CASE MonitorLock
    BY <1>2 DEF MonitorLock, TypeOK, ClientHasReader, CopiesAreRows
  <1>3. CASE MonitorCheck
    BY <1>3 DEF MonitorCheck, TypeOK, ClientHasReader, CopiesAreRows
  <1>4. CASE MonitorMark
    <2>1. Marked(snapshot, "no") \in Row
      BY <1>4, ChangedIsRow DEF MonitorMark, CopiesAreRows
    <2>. QED
      BY <1>4, <2>1 DEF MonitorMark, TypeOK, ClientHasReader, CopiesAreRows
  <1>. QED
    BY <1>1, <1>2, <1>3, <1>4 DEF Monitoring

LEMMA TickStep == IInv /\ Tick => IInv'
  BY AgedIsRow DEF IInv, Tick, TypeOK, ClientHasReader, CopiesAreRows

LEMMA Inductive == IInv /\ [Next]_vars => IInv'
  <1>. SUFFICES ASSUME IInv, [Next]_vars PROVE IInv'
    OBVIOUS
  <1>1. CASE UNCHANGED vars
    BY <1>1 DEF vars, IInv, TypeOK, ClientHasReader, CopiesAreRows
  <1>2. CASE Next
    BY <1>2, ConnectionStep, MonitorStep, TickStep DEF Next
  <1>. QED
    BY <1>1, <1>2

LEMMA Invariance == Spec => []IInv
  BY Initially, Inductive, PTL DEF Spec

-----------------------------------------------------------------------------
\* Every variable has its type; in particular nothing but whole rows is saved.
THEOREM TypeCorrect == Spec => []TypeOK
  BY Invariance, PTL DEF IInv

\* A connection in the clients map has a read loop that has not ended: the
\* map is set after registration and emptied before the loop's goroutine ends.
THEOREM ClientsAreRead == Spec => []ClientHasReader
  BY Invariance, PTL DEF IInv

-----------------------------------------------------------------------------
(* Who takes an entry of the clients map away. *)

\* A read loop only ends when its connection has.
EndedIsBroken ==
  \A c \in Conns :
    handler[c] \in {"closing", "deleting", "leaving", "unregistering"} => conn[c] = "broken"

\* What an action of connection c does to the two: moves its own goroutine.
LEMMA Moved ==
  ASSUME TypeOK, EndedIsBroken, NEW c \in Conns, NEW here, NEW there, Goto(c, here, there),
         conn' = conn,
         there \in {"closing", "deleting", "leaving", "unregistering"} => conn[c] = "broken"
  PROVE  EndedIsBroken'
  BY DEF TypeOK, EndedIsBroken, Goto

LEMMA BrokenStep == TypeOK /\ EndedIsBroken /\ [Next]_vars => EndedIsBroken'
  <1>. SUFFICES ASSUME TypeOK, EndedIsBroken, [Next]_vars PROVE EndedIsBroken'
    OBVIOUS
  <1>1. ASSUME NEW c \in Conns, Connect(c) PROVE EndedIsBroken'
    BY <1>1 DEF Connect, Goto, TypeOK, EndedIsBroken
  <1>2. ASSUME NEW c \in Conns, Registering(c) PROVE EndedIsBroken'
    BY <1>2, Moved DEF Registering, ConnectRead, ConnectSave, Store, Prepare, Save
  <1>3. ASSUME NEW c \in Conns, Boot(c) \/ Heartbeat(c) \/ Answer(c) PROVE EndedIsBroken'
    BY <1>3, Moved DEF Boot, Heartbeat, Answer, Prepare, Save
  <1>4. ASSUME NEW c \in Conns, ReadFails(c) PROVE EndedIsBroken'
    BY <1>4, Moved DEF ReadFails
  <1>5. ASSUME NEW c \in Conns, Leaving(c) PROVE EndedIsBroken'
    <2>1. CASE LeaveSave(c)
      BY <2>1 DEF LeaveSave, Goto, TypeOK, EndedIsBroken
    <2>2. CASE LockToDelete(c) \/ Delete(c) \/ LeaveRead(c)
      BY <2>2 DEF LockToDelete, Delete, LeaveRead, Prepare, Goto, TypeOK, EndedIsBroken
    <2>. QED
      BY <1>5, <2>1, <2>2 DEF Leaving
  <1>6. ASSUME NEW c \in Conns, Break(c) PROVE EndedIsBroken'
    BY <1>6 DEF Break, TypeOK, EndedIsBroken
  <1>7. CASE Monitoring \/ Tick \/ UNCHANGED vars
    BY <1>7 DEF Monitoring, MonitorList, MonitorLock, MonitorCheck, MonitorMark, Tick, vars,
                EndedIsBroken
  <1>. QED
    BY <1>1, <1>2, <1>3, <1>4, <1>5, <1>6, <1>7 DEF Next

\* Only Store and Delete change the clients map.
LEMMA Evicting ==
  ASSUME [Next]_vars, clients' # clients
  PROVE  \E d \in Conns : Store(d) \/ Delete(d)
  <1>1. ASSUME NEW c \in Conns,
               \/ Connect(c) \/ ConnectRead(c) \/ ConnectSave(c) \/ Boot(c) \/ Heartbeat(c)
               \/ Answer(c) \/ ReadFails(c) \/ LockToDelete(c) \/ LeaveRead(c) \/ LeaveSave(c)
               \/ Break(c)
        PROVE  clients' = clients
    BY <1>1 DEF Connect, ConnectRead, ConnectSave, Boot, Heartbeat, Answer, ReadFails,
                LockToDelete, LeaveRead, LeaveSave, Break, Prepare, Save
  <1>2. ASSUME Monitoring \/ Tick \/ UNCHANGED vars PROVE clients' = clients
    BY <1>2 DEF Monitoring, MonitorList, MonitorLock, MonitorCheck, MonitorMark, Tick, vars
  <1>. QED
    BY <1>1, <1>2 DEF Next, Registering, Leaving

\* The entry of a working connection is only taken away by another connection
\* of the charge point: its own goroutine deletes it after the end of the
\* connection, and the monitor never does.
THEOREM EntriesAreKept == Spec => OnlyOthersEvict
  <1>1. Init => EndedIsBroken
    BY DEF Init, EndedIsBroken
  <1>2. ASSUME TypeOK, ClientHasReader, EndedIsBroken, [Next]_vars,
               NEW c \in Conns, clients = c, conn[c] = "open", clients' # c
        PROVE  \E d \in Conns \ {c} : handler[d] \in {"storing", "deleting"}
    <2>1. PICK d \in Conns : Store(d) \/ Delete(d)
      BY <1>2, Evicting
    <2>2. handler[d] \in {"storing", "deleting"}
      BY <2>1 DEF Store, Delete, Goto
    <2>3. d # c
      BY <1>2, <2>1, NobodyAssumption DEF Store, EndedIsBroken, Delete, Goto
    <2>. QED
      BY <2>2, <2>3
  <1>3. TypeOK /\ ClientHasReader /\ EndedIsBroken /\ [Next]_vars
          => [\A c \in Conns :
                clients = c /\ conn[c] = "open" /\ clients' # c
                  => \E d \in Conns \ {c} : handler[d] \in {"storing", "deleting"}]_vars
    BY <1>2
  <1>. QED
    BY <1>1, <1>3, BrokenStep, TypeCorrect, ClientsAreRead, PTL DEF Spec, OnlyOthersEvict

=============================================================================
