-------------------------- MODULE ConnectorStatus --------------------------
(***************************************************************************)
(* The status of the connectors of one charge point and the status of the  *)
(* charge point itself, which is computed from them (ocpp/handlers_db.go,  *)
(* handleStatusNotificationRequestWithDB).                                 *)
(*                                                                         *)
(* The rows are shared by the read loops of the charge point's connections *)
(* (two while an old connection has not been given up), by the             *)
(* administrator's requests and by the monitor of the connections.  Each   *)
(* of them reads a row and saves all of it later.                          *)
(*                                                                         *)
(* A row of a connector is created without looking whether another         *)
(* goroutine has created one meanwhile, so rows is a sequence: the place   *)
(* of a row is its primary key.  Any call of the database may fail; that   *)
(* ends what the handler was about to do with the row, but a lookup that   *)
(* fails for a StatusNotification is taken for one that found nothing.     *)
(* Left out: error codes, the other columns and the transactions           *)
(* (TransactionLedger).                                                    *)
(*                                                                         *)
(* WeighWithoutGuard, SaveAsNew and ListAlways are the definitions that    *)
(* follow them with a bug put in.                                          *)
(***************************************************************************)
EXTENDS Naturals, Sequences, FiniteSets, SequencesExt

CONSTANTS
  Connectors, \* the connectors of the charge point, 0 not among them
  Statuses,   \* what a charge point may report (some OCPP statuses, a bound)
  Readers,    \* read loops that may be running at a time (a bound)
  Admins,     \* requests of the administrator at a time (a bound)
  Monitors,   \* the monitor of the connections
  MaxMisses   \* failing lookups for a connector (a bound)

ASSUME StatusesAssumption == {"Available", "Charging"} \subseteq Statuses

\* A goroutine is one of the three.
ASSUME ProcessesAssumption ==
  Readers \cap Admins = {} /\ Readers \cap Monitors = {} /\ Admins \cap Monitors = {}

ASSUME MissesAssumption == MaxMisses \in Nat

Processes == Readers \cup Admins \cup Monitors

VARIABLES
  rows,    \* the rows of the connectors
  overall, \* the status of the charge point
  at,      \* at[p]: where process p is
  held,    \* held[p]: the copy of a row that p has read and changed
  missed,  \* history: missed[k] counts the lookups for connector k that failed
  current, \* history: the readers that hold an overall status computed from
           \* rows that have not changed since
  fresh    \* history: overall was last written by such a reader, or as it was,
           \* and the rows have not changed since

vars == <<rows, overall, at, held, missed, current, fresh>>

Row  == [connector : Connectors, status : Statuses]
None == [place |-> 0]

\* First(&connector, ...): the place of the connector's oldest row, or 0.
RowOf(k) ==
  LET places == {i \in DOMAIN rows : rows[i].connector = k}
  IN  IF places = {} THEN 0 ELSE CHOOSE i \in places : \A j \in places : i <= j

Init ==
  /\ rows = << >>
  /\ overall = "Unknown"
  /\ at = [p \in Processes |-> "idle"]
  /\ held = [p \in Processes |-> None]
  /\ missed = [k \in Connectors |-> 0]
  /\ current = {}
  /\ fresh = FALSE

-----------------------------------------------------------------------------
(* The status of a charge point. *)

WeighWithoutGuard(sofar, status) ==
  CASE status \in {"Charging", "Preparing", "Finishing"} -> status
    [] status \in {"Reserved", "Faulted"} /\ sofar = "Available" -> status
    [] status = "Unavailable" /\ sofar \in {"Available", "Reserved"} -> status
    [] OTHER -> sofar

\* One round of the loop over the connectors.
Weigh(sofar, status) ==
  CASE status = "Charging" -> status
    [] status = "Preparing" /\ sofar # "Charging" -> status
    [] status = "Finishing" /\ sofar \notin {"Charging", "Preparing"} -> status
    [] status \in {"Reserved", "Faulted"} /\ sofar = "Available" -> status
    [] status = "Unavailable" /\ sofar \in {"Available", "Reserved"} -> status
    [] OTHER -> sofar

\* The loop; leaving it at "Charging" changes nothing, Weigh keeps it.  The
\* query has no ORDER BY: the rows come in any order.
Weighed(order) ==
  LET sofar[i \in 0 .. Len(order)] ==
        IF i = 0 THEN "Available" ELSE Weigh(sofar[i - 1], rows[order[i]].status)
  IN  sofar[Len(order)]

Orders == SetToSeqs(DOMAIN rows)

-----------------------------------------------------------------------------
(* Reading and saving a row. *)

Hold(p, here, copy) ==
  /\ at[p] = "idle"
  /\ at' = [at EXCEPT ![p] = here]
  /\ held' = [held EXCEPT ![p] = copy]
  /\ UNCHANGED <<rows, overall, current, fresh>>

\* p is done with its copy.
Release(p, here) ==
  /\ at' = [at EXCEPT ![p] = here]
  /\ held' = [held EXCEPT ![p] = None]

\* An existing row of connector k is read and its status is set to s.
HoldConnector(p, k, here, s) ==
  /\ RowOf(k) # 0
  /\ Hold(p, here, [place |-> RowOf(k), connector |-> k, status |-> s])
  /\ UNCHANGED missed

ListAlways(p) == "listing"

\* What p does when it has saved the connector.
AfterSave(p) == IF at[p] = "notifying" THEN "listing" ELSE "idle"

SaveAsNew(p) ==
  LET row == [connector |-> held[p].connector, status |-> held[p].status]
  IN  rows' = IF at[p] = "notifying" THEN Append(rows, row) ELSE [rows EXCEPT ![held[p].place] = row]

\* Save creates the row when the copy has no primary key yet.
SaveRow(p) ==
  LET row == [connector |-> held[p].connector, status |-> held[p].status]
  IN  rows' = IF held[p].place = 0 THEN Append(rows, row) ELSE [rows EXCEPT ![held[p].place] = row]

SaveConnector(p) ==
  /\ at[p] \in {"notifying", "starting", "stopping", "metering"}
  /\ SaveRow(p)
  /\ Release(p, AfterSave(p))
  /\ current' = {r \in current : rows' = rows}
  /\ fresh' = (fresh /\ rows' = rows)
  /\ UNCHANGED <<overall, missed>>

\* The row of the charge point is saved, by whoever holds a copy of it.
SavePoint(p) ==
  /\ at[p] \in {"updating", "reporting", "keeping"}
  /\ overall' = held[p].status
  /\ fresh' = CASE at[p] = "updating"  -> p \in current
                [] at[p] = "reporting" -> FALSE
                [] at[p] = "keeping"   -> fresh /\ overall' = overall
  /\ current' = current \ {p}
  /\ Release(p, "idle")
  /\ UNCHANGED <<rows, missed>>

\* The call that p is about to make fails: nothing more is done with the row.
CallFails(p) ==
  /\ at[p] # "idle"
  /\ Release(p, "idle")
  /\ current' = current \ {p}
  /\ UNCHANGED <<rows, overall, missed, fresh>>

-----------------------------------------------------------------------------
(* StatusNotification. *)

\* For a connector: update its row or, when GetConnector returns an error of
\* whatever kind, create one ...
Notify(r, k, s) ==
  \/ /\ Hold(r, "notifying", [place |-> RowOf(k), connector |-> k, status |-> s])
     /\ UNCHANGED missed
  \/ /\ missed[k] < MaxMisses
     /\ Hold(r, "notifying", [place |-> 0, connector |-> k, status |-> s])
     /\ missed' = [missed EXCEPT ![k] = @ + 1]

\* ... compute the overall status from all of them ...
List(r) ==
  /\ at[r] = "listing"
  /\ \E order \in Orders :
       held' = [held EXCEPT ![r] = [place |-> 0, status |-> Weighed(order)]]
  /\ at' = [at EXCEPT ![r] = "comparing"]
  /\ current' = current \cup {r}
  /\ UNCHANGED <<rows, overall, missed, fresh>>

\* ... and, unless the charge point has it already, save it.
Compare(r) ==
  /\ at[r] = "comparing"
  /\ IF overall = held[r].status
     THEN /\ Release(r, "idle")
          /\ fresh' = (fresh \/ r \in current)
          /\ current' = current \ {r}
     ELSE /\ at' = [at EXCEPT ![r] = "updating"]
          /\ UNCHANGED <<held, current, fresh>>
  /\ UNCHANGED <<rows, overall, missed>>

\* For connector 0 the charge point reports its own status.
NotifyPoint(r, s) == Hold(r, "reporting", [place |-> 0, status |-> s]) /\ UNCHANGED missed

-----------------------------------------------------------------------------
(* The other handlers. *)

\* StartTransaction and StopTransaction.
Start(r, k) == HoldConnector(r, k, "starting", "Charging")
Stop(r, k)  == HoldConnector(r, k, "stopping", "Available")

\* MeterValues sets the current power of the row.
Meter(r, k) == RowOf(k) # 0 /\ HoldConnector(r, k, "metering", rows[RowOf(k)].status)

\* The administrator closes a transaction of connector k.
AdminClose(a, k) == HoldConnector(a, k, "stopping", "Available")

\* Boot, Heartbeat, the end of a read loop and the monitor of the connections
\* change other columns of the charge point.
Keep(p) == Hold(p, "keeping", [place |-> 0, status |-> overall]) /\ UNCHANGED missed

Next ==
  \/ \E r \in Readers :
       \/ \E k \in Connectors :
            \/ \E s \in Statuses : Notify(r, k, s)
            \/ Start(r, k)
            \/ Stop(r, k)
            \/ Meter(r, k)
       \/ \E s \in Statuses : NotifyPoint(r, s)
       \/ List(r)
       \/ Compare(r)
  \/ \E a \in Admins, k \in Connectors : AdminClose(a, k)
  \/ \E p \in Readers \cup Monitors : Keep(p)
  \/ \E p \in Processes : SaveConnector(p) \/ SavePoint(p) \/ CallFails(p)

Spec == Init /\ [][Next]_vars

-----------------------------------------------------------------------------
(* Properties. *)

\* A copy of a connector that is about to be saved.
Copy == [place : 0 .. Len(rows), connector : Connectors, status : Statuses]

\* A copy of the charge point that is about to be saved.
PointCopy == [place : {0}, status : Statuses \cup {"Unknown"}]

TypeOK ==
  /\ rows \in Seq(Row)
  /\ overall \in Statuses \cup {"Unknown"}
  /\ held \in [Processes -> Copy \cup PointCopy \cup {None}]
  /\ missed \in [Connectors -> 0 .. MaxMisses]
  /\ current \subseteq Readers
  /\ fresh \in BOOLEAN
  /\ \A r \in Readers  : at[r] \in {"idle", "notifying", "listing", "comparing", "updating",
                                    "reporting", "starting", "stopping", "metering", "keeping"}
  /\ \A a \in Admins   : at[a] \in {"idle", "stopping"}
  /\ \A m \in Monitors : at[m] \in {"idle", "keeping"}

\* "Update or create connector" (handlers_db.go:926): a connector gets one more
\* row only by a lookup that failed, or by read loops that looked it up at the
\* same time before it had any: after that, no notification creates another.
RowsAreFew ==
  \A k \in Connectors :
    Cardinality({i \in DOMAIN rows : rows[i].connector = k}) <= Cardinality(Readers) + missed[k]

Reported == {rows[i].status : i \in DOMAIN rows}
Idle     == {"Reserved", "Unavailable", "Faulted"}

\* What a charge point whose connectors have these statuses may be said to be:
\* the busiest decides; when none is busy, one of those that cannot be used, if
\* any.
ExpectedOf(reported) ==
  CASE "Charging" \in reported -> {"Charging"}
    [] "Charging" \notin reported /\ "Preparing" \in reported -> {"Preparing"}
    [] {"Charging", "Preparing"} \cap reported = {} /\ "Finishing" \in reported -> {"Finishing"}
    [] OTHER -> IF Idle \cap reported = {} THEN {"Available"} ELSE Idle \cap reported

Expected == ExpectedOf(Reported)

\* "Now update the overall charge point status based on connector statuses"
\* (handlers_db.go:948): when a reader has done that from rows that did not
\* change meanwhile, the status is one that they call for, in whatever order
\* they came, and stays so until a connector changes, the charge point reports
\* a status of its own or someone saves an older copy (the monitor, another
\* reader).
OverallIsFresh == fresh => overall \in Expected

(* What the code does not keep. *)

Priority == <<"Charging", "Preparing", "Finishing", "Reserved", "Unavailable", "Faulted">>

\* "Priority: Charging > Preparing > Finishing > Reserved > Unavailable >
\* Faulted > Available" (handlers_db.go:958).
PriorityIsFollowed ==
  fresh =>
    \A i \in DOMAIN Priority :
      overall = Priority[i] => \A j \in 1 .. (i - 1) : Priority[j] \notin Reported

\* "Update or create connector" (handlers_db.go:926): a connector has one row.
\* With a second one GetConnector finds the older, and the newer keeps its
\* status for ever.
OneRowPerConnector ==
  \A i, j \in DOMAIN rows : rows[i].connector = rows[j].connector => i = j

\* "Update connector with current power" (handlers_db.go:334): MeterValues
\* never changes the status of a connector.  It puts back the one it has read
\* when the administrator closed the transaction in between.
MeterKeepsStatus ==
  [][\A r \in Readers : at[r] = "metering" /\ at'[r] = "idle" => rows' = rows]_vars

=============================================================================
