-------------------------- MODULE TransactionLedger --------------------------
(***************************************************************************)
(* The transactions and pending remote starts in the database, and every   *)
(* goroutine that writes them: the message handlers of each charge point   *)
(* (ocpp/handlers_db.go), the goroutine that closes a transaction after an *)
(* Available status, and the API requests RemoteStart, RemoteStop and      *)
(* AdminClose (server/api_commands.go, server/api_server.go).              *)
(*                                                                         *)
(* Each database call is one step.  Nothing is done in a database          *)
(* transaction: a goroutine that changes a row reads it, and later saves   *)
(* the whole row, with whatever the others wrote in between gone.  Reads   *)
(* that commute with every step of the others are merged with the next.    *)
(* A charge point that has connected again has two read loops for a while, *)
(* each with a handler of its own.                                         *)
(*                                                                         *)
(* A row's place in rows is its primary key.  Any database call may fail;  *)
(* the handlers log that and most of them go on.  Left out: the connector  *)
(* and charge point rows, the authorization of tags, timestamps, logging.  *)
(* A meter value is a whole number of Wh; an energy, in kWh with any       *)
(* fraction, is counted in Parts of a Wh; a reason is one of a few.        *)
(*                                                                         *)
(* UnwrappedId, GetAnyTransaction, OpenForAny, WithReadingOnly,            *)
(* ReadToCloseIfMetered and SaveStopReason are the definitions that follow *)
(* them with a bug put in, to see that the properties notice.              *)
(***************************************************************************)
EXTENDS Integers, Sequences

CONSTANTS
  ChargePoints, \* charge points
  Loops,        \* read loops that may run at a time (a bound), one per connection
  PointOf,      \* PointOf[l]: the charge point at the other end of loop l
  Connectors,   \* all their connectors
  Owner,        \* Owner[k]: the charge point of connector k
  NoConnector,  \* connector 0, for a remote start that names none
  Closers,      \* closing goroutines that may run at a time (a bound)
  Admins,       \* AdminClose requests that may run at a time (a bound)
  Stoppers,     \* RemoteStop requests that may run at a time (a bound)
  Meters,       \* the meter values that occur, in Wh
  Parts,        \* parts of a Wh that an energy is counted in
  Energies,     \* the final energies that administrators give, in parts of a Wh
  Faults,       \* kinds of database calls that may fail, of read, create, save
  Wrap,         \* transaction ids are seconds modulo Wrap (100000)
  MaxRows,      \* bound on the transactions created
  MaxPendings,  \* bound on the remote starts requested
  MaxSecond     \* bound on the clock

Workers == Loops \cup Closers \cup Admins \cup Stoppers

ASSUME OwnerAssumption  == Owner \in [Connectors -> ChargePoints]
ASSUME LoopsAssumption  == PointOf \in [Loops -> ChargePoints]
ASSUME MetersAssumption ==
  Meters \subseteq Nat /\ Parts \in Nat \ {0} /\ Energies \subseteq Nat
ASSUME BoundsAssumption ==
  Wrap \in Nat \ {0} /\ MaxRows \in Nat /\ MaxPendings \in Nat /\ MaxSecond \in Nat

VARIABLES
  second,    \* the clock, time.Now().Unix()
  rows,      \* the table of transactions
  pendings,  \* the table of pending remote starts
  readings,  \* readings[t]: the first energy reading saved for id t, or NoReading
  told,      \* told[k]: the ids that StartTransaction returned for connector k
  job        \* job[w]: what goroutine w is doing, and what it has read

vars == <<second, rows, pendings, readings, told, job>>

Ids       == 0 .. Wrap - 1
NoReading == -1
Reasons   == {"None", "Remote", "Local", "PowerLoss", "AdminClosed", "Combined"}

Row == [tx : Ids, conn : Connectors, start : Nat, stop : Nat, energy : Int,
        reason : Reasons, status : {"active", "complete"}]

Pending == [conn : Connectors \cup {NoConnector}, status : {"open", "done", "expired"}, tx : Ids]

\* What a goroutine keeps between two database calls: the connector, id or key
\* it works on, and row, the copy that it will save.
Idle == [at |-> "idle"]
Jobs ==
  {Idle}
    \cup [at : {"linking"}, conn : Connectors, tx : Ids, reply : SUBSET Ids]
    \cup [at : {"marking"}, conn : Connectors, tx : Ids, reply : SUBSET Ids, key : Nat]
    \cup [at : {"adopting", "asking"}, conn : Connectors]
    \cup [at : {"triggering", "sleeping"}, tx : Ids]
    \cup [at : {"closing"}, key : Nat, row : Row]
    \cup [at : {"commanding"}, tx : Ids, conn : Connectors \cup {NoConnector}]
    \cup [at : {"stopping", "reasoning"}, tx : Ids, key : Nat, row : Row]

Init ==
  /\ second = 1
  /\ rows = <<>>
  /\ pendings = <<>>
  /\ readings = [t \in Ids |-> NoReading]
  /\ told = [k \in Connectors |-> {}]
  /\ job = [w \in Workers |-> Idle]

-----------------------------------------------------------------------------
(* Database calls. *)

UnwrappedId == second

NewTransactionId == second % Wrap

First(keys) == CHOOSE i \in keys : \A j \in keys : i <= j
Last(keys)  == CHOOSE i \in keys : \A j \in keys : i >= j

\* GetTransaction and GetActiveTransactionForConnector: among the rows that
\* match, gorm's First returns the one with the lowest primary key.
WithId(t)        == {i \in DOMAIN rows : rows[i].tx = t}
ActiveOn(k)      == {i \in DOMAIN rows : rows[i].conn = k /\ rows[i].status = "active"}
GetActive(k)      == First(ActiveOn(k))

GetAnyTransaction(t) == First({i \in DOMAIN rows : t \in Ids})

GetTransaction(t) == First(WithId(t))

\* GetPendingRemoteStart: the latest that is neither completed nor expired.
OpenForAny(k) == {i \in DOMAIN pendings : k \in Connectors /\ pendings[i].status = "open"}

OpenFor(k)    == {i \in DOMAIN pendings : pendings[i].conn = k /\ pendings[i].status = "open"}
GetPending(k) == Last(OpenFor(k))

CreateTransaction(k, meterStart) ==
  /\ Len(rows) < MaxRows
  /\ rows' = Append(rows, [tx |-> NewTransactionId, conn |-> k, start |-> meterStart, stop |-> 0,
                           energy |-> 0, reason |-> "None", status |-> "active"])

\* UpdateTransaction: gorm's Save writes every column of the copy.
SaveTransaction(i, copy) == rows' = [rows EXCEPT ![i] = copy]

Goto(w, j) == job' = [job EXCEPT ![w] = j]

-----------------------------------------------------------------------------
(* StartTransaction. *)

\* The charge point gets its id whether or not the row could be created.
StartTransaction(l, k, meterStart) ==
  /\ job[l] = Idle
  /\ Owner[k] = PointOf[l]
  /\ CreateTransaction(k, meterStart) \/ ("create" \in Faults /\ UNCHANGED rows)
  /\ Goto(l, [at |-> "linking", conn |-> k, tx |-> NewTransactionId, reply |-> {NewTransactionId}])
  /\ UNCHANGED <<second, pendings, readings, told>>

\* MarkPendingRemoteStartAsCompleted reads the remote start to complete ...
FindPending(l) ==
  LET j == job[l] IN
  /\ j.at = "linking"
  /\ IF OpenFor(j.conn) = {}
     THEN Goto(l, Idle) /\ told' = [told EXCEPT ![j.conn] = @ \cup j.reply]
     ELSE /\ Goto(l, [at |-> "marking", conn |-> j.conn, tx |-> j.tx, reply |-> j.reply,
                      key |-> GetPending(j.conn)])
          /\ UNCHANGED told
  /\ UNCHANGED <<second, rows, pendings, readings>>

\* ... and saves it whole: if it expired meanwhile, it no longer is.
MarkPending(l) ==
  LET j == job[l] IN
  /\ j.at = "marking"
  /\ pendings' = [pendings EXCEPT ![j.key] = [@ EXCEPT !.status = "done", !.tx = j.tx]]
  /\ told' = [told EXCEPT ![j.conn] = @ \cup j.reply]
  /\ Goto(l, Idle)
  /\ UNCHANGED <<second, rows, readings>>

-----------------------------------------------------------------------------
(* StatusNotification. *)

\* Charging, with no active transaction: a pending remote start explains it,
\* or the charge point is asked for meter values first.  A read that fails is
\* taken for one that found nothing.
StatusCharging(l, k) ==
  /\ job[l] = Idle
  /\ Owner[k] = PointOf[l]
  /\ ActiveOn(k) = {} \/ "read" \in Faults
  /\ \/ OpenFor(k) # {} /\ Goto(l, [at |-> "adopting", conn |-> k])
     \/ (OpenFor(k) = {} \/ "read" \in Faults) /\ Goto(l, [at |-> "asking", conn |-> k])
  /\ UNCHANGED <<second, rows, pendings, readings, told>>

\* The transaction made for a remote start; the charge point is not told.
AdoptRemoteStart(l) ==
  LET k == job[l].conn IN
  /\ job[l].at = "adopting"
  /\ CreateTransaction(k, 0)
  /\ Goto(l, [at |-> "linking", conn |-> k, tx |-> NewTransactionId, reply |-> {}])
  /\ UNCHANGED <<second, pendings, readings, told>>

\* TriggerMessage has returned, with or without an answer.
CreatePlaceholder(l) ==
  /\ job[l].at = "asking"
  /\ CreateTransaction(job[l].conn, 0)
  /\ Goto(l, Idle)
  /\ UNCHANGED <<second, pendings, readings, told>>

\* Available or Faulted, with a transaction that is not complete.
StatusAvailable(l, k) ==
  /\ job[l] = Idle
  /\ Owner[k] = PointOf[l]
  /\ ActiveOn(k) # {}
  /\ Goto(l, [at |-> "triggering", tx |-> rows[GetActive(k)].tx])
  /\ UNCHANGED <<second, rows, pendings, readings, told>>

\* TriggerMessage has returned: the closing goroutine is started.
SpawnCloser(l, c) ==
  /\ job[l].at = "triggering"
  /\ job[c] = Idle
  /\ job' = [job EXCEPT ![l] = Idle, ![c] = [at |-> "sleeping", tx |-> job[l].tx]]
  /\ UNCHANGED <<second, rows, pendings, readings, told>>

WithReadingOnly(r) ==
  LET v == readings[r.tx] IN IF v > 0 THEN [r EXCEPT !.stop = v] ELSE r

\* The loop over the readings keeps the last energy value of a list ordered
\* from the latest to the first (of the latest 20); without one above zero, the
\* row keeps its values.
WithReading(r) ==
  LET v == readings[r.tx] IN
  IF v > 0 THEN [r EXCEPT !.stop = v, !.energy = Parts * (v - r.start)] ELSE r

\* The row with the readings, or without them when they cannot be read.
Metered(r) == {WithReading(r)} \cup {q \in {r} : "read" \in Faults}

ReadToCloseIfMetered(c) ==
  LET i == GetTransaction(job[c].tx)
      r == rows[i] IN
  /\ job[c].at = "sleeping"
  /\ \E q \in Metered(r) :
       Goto(c, [at |-> "closing", key |-> i,
                row |-> IF q = r THEN r
                        ELSE [q EXCEPT !.status = "complete", !.reason = "PowerLoss"]])
  /\ UNCHANGED <<second, rows, pendings, readings, told>>

\* After 5 s the closing goroutine reads the transaction ...
ReadToClose(c) ==
  LET i == GetTransaction(job[c].tx) IN
  /\ job[c].at = "sleeping"
  /\ \E q \in Metered(rows[i]) :
       Goto(c, [at |-> "closing", key |-> i,
                row |-> [q EXCEPT !.status = "complete", !.reason = "PowerLoss"]])
  /\ UNCHANGED <<second, rows, pendings, readings, told>>

\* ... and saves it.  It never looks whether it is complete by now.
SaveClosed(c) ==
  /\ job[c].at = "closing"
  /\ SaveTransaction(job[c].key, job[c].row)
  /\ Goto(c, Idle)
  /\ UNCHANGED <<second, pendings, readings, told>>

-----------------------------------------------------------------------------
(* StopTransaction and MeterValues. *)

\* "Preserve existing StopReason if already set via Remote Stop"; other reasons
\* are put one after the other, however many ("Combined").
StopReason(old, new) ==
  CASE old \in {"None", "PowerLoss"} -> new
    [] old \notin {"None", "PowerLoss"} /\ new # "None" /\ old # "Remote" -> "Combined"
    [] OTHER -> old

Stopped(r, meterStop, reason) ==
  [r EXCEPT !.stop = meterStop, !.energy = Parts * (meterStop - r.start),
            !.reason = StopReason(r.reason, reason), !.status = "complete"]

\* Any id: the charge point need not have been told it, and a message without
\* one is taken for one about transaction 0, whosever that is.  An id without a
\* row changes nothing.
StopTransaction(l, t, meterStop, reason) ==
  LET i == GetTransaction(t) IN
  /\ job[l] = Idle
  /\ WithId(t) # {}
  /\ Goto(l, [at |-> "stopping", tx |-> t, key |-> i, row |-> Stopped(rows[i], meterStop, reason)])
  /\ UNCHANGED <<second, rows, pendings, readings, told>>

SaveStopped(l) ==
  /\ job[l].at = "stopping"
  /\ SaveTransaction(job[l].key, job[l].row)
  /\ Goto(l, Idle)
  /\ UNCHANGED <<second, pendings, readings, told>>

\* An energy reading for an id that exists, the sender's or not.
MeterValues(l, t, v) ==
  /\ job[l] = Idle
  /\ WithId(t) # {}
  /\ readings' = [readings EXCEPT ![t] = IF @ = NoReading THEN v ELSE @]
  /\ UNCHANGED <<second, rows, pendings, told, job>>

-----------------------------------------------------------------------------
(* API requests and background tasks. *)

\* handleRemoteStart stores the request before it sends the command; what
\* becomes of the command changes nothing here.
RemoteStart(k) ==
  /\ Len(pendings) < MaxPendings
  /\ pendings' = Append(pendings, [conn |-> k, status |-> "open", tx |-> 0])
  /\ UNCHANGED <<second, rows, readings, told, job>>

\* ExpireOldPendingRemoteStarts: all that are old enough.
ExpirePendings(n) ==
  /\ \E i \in 1..n : pendings[i].status = "open"
  /\ pendings' = [i \in DOMAIN pendings |->
                    IF i <= n /\ pendings[i].status = "open"
                    THEN [pendings[i] EXCEPT !.status = "expired"]
                    ELSE pendings[i]]
  /\ UNCHANGED <<second, rows, readings, told, job>>

\* handleRemoteStop by transaction id, or by connector.
RemoteStop(s, t) ==
  /\ job[s] = Idle
  /\ t > 0
  /\ Goto(s, [at |-> "commanding", tx |-> t, conn |-> NoConnector])
  /\ UNCHANGED <<second, rows, pendings, readings, told>>

RemoteStopConnector(s, k) ==
  /\ job[s] = Idle
  /\ ActiveOn(k) # {}
  /\ Goto(s, [at |-> "commanding", tx |-> rows[GetActive(k)].tx, conn |-> k])
  /\ UNCHANGED <<second, rows, pendings, readings, told>>

\* The charge point accepted: MarkTransactionStopReason finds the row ...
RemoteStopAccepted(s) ==
  LET t == job[s].tx IN
  /\ job[s].at = "commanding"
  /\ Goto(s, IF WithId(t) = {} THEN Idle
             ELSE [at |-> "reasoning", tx |-> t, key |-> GetTransaction(t),
                   row |-> [rows[GetTransaction(t)] EXCEPT !.reason = "Remote"]])
  /\ UNCHANGED <<second, rows, pendings, readings, told>>

SaveStopReason(s) ==
  /\ job[s].at = "reasoning"
  /\ SaveTransaction(job[s].key, job[s].row)
  /\ Goto(s, Idle)
  /\ UNCHANGED <<second, pendings, readings, told>>

\* ... and updates one column, of every row with that id.
UpdateStopReason(s) ==
  /\ job[s].at = "reasoning"
  /\ rows' = [i \in DOMAIN rows |->
                IF rows[i].tx = job[s].tx THEN [rows[i] EXCEPT !.reason = "Remote"] ELSE rows[i]]
  /\ Goto(s, Idle)
  /\ UNCHANGED <<second, pendings, readings, told>>

\* Refused, timed out or not connected.
RemoteStopFails(s) ==
  /\ job[s].at = "commanding"
  /\ Goto(s, Idle)
  /\ UNCHANGED <<second, rows, pendings, readings, told>>

\* int(FinalEnergy*1000): the whole Wh of an energy in kWh; of one that is whole
\* or nearly so, the product may be rounded to fall just below.
Truncated(e) == {n \in 0..e : Parts * n <= e /\ e <= Parts * (n + 1)}

\* The row with the final energy of the request or, when it is 0, with the
\* readings.
Ended(r, finalEnergy) ==
  IF finalEnergy > 0
  THEN {[r EXCEPT !.stop = r.start + n, !.energy = finalEnergy] : n \in Truncated(finalEnergy)}
  ELSE Metered(r)

\* handleAdminCloseTransaction: reads a transaction that is not complete ...
AdminClose(a, t, finalEnergy) ==
  LET i == GetTransaction(t) IN
  /\ job[a] = Idle
  /\ t > 0
  /\ WithId(t) # {}
  /\ rows[i].status = "active"
  /\ \E q \in Ended(rows[i], finalEnergy) :
       Goto(a, [at |-> "closing", key |-> i,
                row |-> [q EXCEPT !.status = "complete", !.reason = "AdminClosed"]])
  /\ UNCHANGED <<second, rows, pendings, readings, told>>

\* ... and saves it.
SaveAdminClosed(a) ==
  /\ job[a].at = "closing"
  /\ SaveTransaction(job[a].key, job[a].row)
  /\ Goto(a, Idle)
  /\ UNCHANGED <<second, pendings, readings, told>>

-----------------------------------------------------------------------------
(* Failures, the clock and the next-state relation. *)

\* The call that goroutine w is about to make fails.  That is logged, and what
\* is left of the work is dropped, but a StartTransaction is still answered.
CallFails(w) ==
  LET j == job[w] IN
  /\ \/ j.at \in {"linking", "sleeping"} /\ "read" \in Faults
     \/ j.at \in {"adopting", "asking"} /\ "create" \in Faults
     \/ j.at \in {"marking", "stopping", "closing", "reasoning"} /\ "save" \in Faults
  /\ told' = IF j.at \in {"linking", "marking"}
             THEN [told EXCEPT ![j.conn] = @ \cup j.reply]
             ELSE told
  /\ Goto(w, Idle)
  /\ UNCHANGED <<second, rows, pendings, readings>>

Tick ==
  /\ second < MaxSecond
  /\ second' = second + 1
  /\ UNCHANGED <<rows, pendings, readings, told, job>>

\* The process ends and is started again: whatever ran is gone.
Restart ==
  /\ \E w \in Workers : job[w] # Idle
  /\ job' = [w \in Workers |-> Idle]
  /\ UNCHANGED <<second, rows, pendings, readings, told>>

AllIdle == (\A w \in Workers : job[w] = Idle) /\ UNCHANGED vars

Request(l) ==
  \/ \E k \in Connectors :
       \/ \E v \in Meters : StartTransaction(l, k, v)
       \/ StatusCharging(l, k)
       \/ StatusAvailable(l, k)
  \/ \E t \in Ids, v \in Meters :
       \/ MeterValues(l, t, v)
       \/ \E reason \in {"None", "Local"} : StopTransaction(l, t, v, reason)

Handle(l) ==
  \/ FindPending(l)
  \/ MarkPending(l)
  \/ AdoptRemoteStart(l)
  \/ CreatePlaceholder(l)
  \/ SaveStopped(l)
  \/ \E c \in Closers : SpawnCloser(l, c)

Api ==
  \/ \E s \in Stoppers :
       \/ \E t \in Ids : RemoteStop(s, t)
       \/ \E k \in Connectors : RemoteStopConnector(s, k)
       \/ RemoteStopAccepted(s)
       \/ UpdateStopReason(s)
       \/ RemoteStopFails(s)
  \/ \E a \in Admins :
       \/ \E t \in Ids, e \in Energies : AdminClose(a, t, e)
       \/ SaveAdminClosed(a)
  \/ \E k \in Connectors \cup {NoConnector} : RemoteStart(k)
  \/ \E n \in DOMAIN pendings : ExpirePendings(n)

Next ==
  \/ \E l \in Loops : Request(l) \/ Handle(l)
  \/ \E c \in Closers : ReadToClose(c) \/ SaveClosed(c)
  \/ Api
  \/ \E w \in Workers : CallFails(w)
  \/ Tick
  \/ Restart
  \/ AllIdle

Spec == Init /\ [][Next]_vars

\* Handlers and closing goroutines go on; nothing is assumed of requests.
Fairness ==
  /\ \A l \in Loops : WF_vars(\E c \in Closers : SpawnCloser(l, c))
  /\ \A c \in Closers : WF_vars(ReadToClose(c)) /\ WF_vars(SaveClosed(c))

FairSpec == Spec /\ Fairness

-----------------------------------------------------------------------------
(* Invariants. *)

TypeOK ==
  /\ second \in Nat
  /\ rows \in Seq(Row)
  /\ pendings \in Seq(Pending)
  /\ readings \in [Ids -> Nat \cup {NoReading}]
  /\ told \in [Connectors -> SUBSET Ids]
  /\ job \in [Workers -> Jobs]

\* The energy is that of the two meter values, with at most one Wh more.
Balanced(r) ==
  \/ r.energy = 0 /\ r.stop = 0
  \/ r.energy - Parts * (r.stop - r.start) \in 0..Parts

\* Whatever mix of handlers, closing goroutines and API requests wrote a row,
\* the energy and the two meter values in it are of one and the same end: an
\* administrator's final energy is cut to whole Wh for the meter value, and is
\* at most one Wh above it, everyone else's is exact; or the row was never
\* given an end (handlers_db.go:186 and :1080, api_server.go:495 and :515).
EnergyNearMeters ==
  \A i \in DOMAIN rows : Balanced(rows[i])

\* A remote start is completed with a transaction on its own connector.  (One
\* whose row could not be created is linked all the same: without "create" in
\* Faults.)
LinksMatch ==
  \A i \in DOMAIN pendings : pendings[i].status = "done" =>
    \E j \in DOMAIN rows : rows[j].tx = pendings[i].tx /\ rows[j].conn = pendings[i].conn

\* A StopTransaction writes to a transaction of the charge point that sent it.
StopsOwnRow ==
  \A l \in Loops : job[l].at = "stopping" => Owner[job[l].row.conn] = PointOf[l]

\* It does if the charge point was told the id it gives, as long as no two
\* transactions were given one id and each has a row: then the id is enough to
\* find it (handlers_db.go:167), in whichever of its read loops.
ToldIdStopsOwnRow ==
  (\A i, j \in DOMAIN rows : rows[i].tx = rows[j].tx => i = j) =>
    \A l \in Loops :
      /\ job[l].at = "stopping"
      /\ \E k \in Connectors : Owner[k] = PointOf[l] /\ job[l].tx \in told[k]
      => Owner[job[l].row.conn] = PointOf[l]

(* Action properties. *)

RowsAdvance ==
  \A i \in DOMAIN rows :
    /\ i \in DOMAIN rows'
    /\ rows'[i].tx = rows[i].tx
    /\ rows'[i].conn = rows[i].conn
    /\ rows'[i].start = rows[i].start
    /\ rows[i].status = "complete" => rows'[i].status = "complete"

\* A complete transaction is never opened again, and no write changes which
\* transaction a row is: not by a copy that was read before the completion
\* (database.go:365 updates one column for that reason), nor by a crash.
RowsOnlyAdvance == [][RowsAdvance]_vars

(* Liveness. *)

\* The server notices that transaction i is open on an available connector.
Noticed(i) ==
  /\ i \in DOMAIN rows
  /\ GetTransaction(rows[i].tx) = i
  /\ \E l \in Loops : job[l].at = "triggering" /\ job[l].tx = rows[i].tx

\* A restart forgets the goroutine that would close the transaction, a failed
\* database call ends it, and each Available status starts another: while the
\* charge point keeps reporting, an abandoned transaction gets complete once the
\* restarts and the failures of closing goroutines end.
AbandonedIsClosed ==
  <>[][~Restart /\ ~\E c \in Closers : CallFails(c)]_vars =>
    \A i \in 1..MaxRows :
      []<>Noticed(i) => <>(i \in DOMAIN rows /\ rows[i].status = "complete")

(* What the code does not keep. *)

\* "Preserve existing StopReason if already set via Remote Stop"
\* (handlers_db.go:175): saving a StopTransaction keeps a remote reason.
RemoteReasonKept ==
  [][\A l \in Loops :
       LET i == job[l].key IN
       job[l].at = "stopping" /\ rows[i].reason = "Remote" => rows'[i].reason = "Remote"]_vars

\* A charge point is told the id of a transaction that the server knows: not
\* when the row could not be created (handlers_db.go:99).
ToldIsKnown == \A k \in Connectors : \A t \in told[k] : WithId(t) # {}

\* There is one transaction to be "the active transaction for a specific charge
\* point and connector" (database.go:288).
OneActivePerConnector ==
  \A k \in Connectors : \A i, j \in ActiveOn(k) : i = j

\* "Transaction is already complete" (api_server.go:484): an administrator
\* cannot close a transaction that is complete.
AdminSparesComplete ==
  [][\A a \in Admins :
       job[a].at = "closing" /\ job'[a] = Idle /\ rows' # rows
         => rows[job[a].key].status = "active"]_vars

\* The server closes a transaction because it is incomplete on an available
\* connector (handlers_db.go:1028), not one that was stopped meanwhile.
CloserSparesComplete ==
  [][\A c \in Closers :
       job[c].at = "closing" /\ job'[c] = Idle /\ rows' # rows
         => rows[job[c].key].status = "active"]_vars

\* A remote stop by connector "retrieves latest transaction"
\* (api_commands.go:109).
LatestIsStopped ==
  [][\A s \in Stoppers :
       job[s] = Idle /\ job'[s] # Idle /\ job'[s].conn # NoConnector
         => job'[s].tx = rows[Last(ActiveOn(job'[s].conn))].tx]_vars

=============================================================================
