---------------------------- MODULE MeterReadings ----------------------------
(***************************************************************************)
(* The meter readings of one transaction: what MeterValues saves, what the *)
(* backup task adds (ocpp/central_system.go), and which of them becomes    *)
(* the meter value of a transaction that the server (ocpp/handlers_db.go)  *)
(* or an administrator (server/api_server.go) closes.                      *)
(*                                                                         *)
(* Whoever looks for "the latest" gets the readings in a window, from the  *)
(* latest to the oldest, and goes through it in that order.  Readings of   *)
(* the same time come in any order.  The values are whole numbers and the  *)
(* charge point chooses their time, unit and measurand.                    *)
(*                                                                         *)
(* The copies of the transaction's row are in TransactionLedger: here the  *)
(* row is read and saved in one step.  The charge point that stops the     *)
(* transaction with a meter value of its own is left out, and so are       *)
(* failing database calls.                                                 *)
(*                                                                         *)
(* StampZero, EveryReading, BackupInWh and UnconvertedStop are the         *)
(* definitions that follow them with a bug put in.                         *)
(***************************************************************************)
EXTENDS Naturals, Sequences, FiniteSets, SequencesExt

CONSTANTS
  Values,      \* the values that are reported
  MaxTime,     \* bound on the clock
  MaxReadings, \* bound on the readings saved
  Limit        \* how many readings a window has (20)

ASSUME ValuesAssumption == Values \subseteq Nat
ASSUME BoundsAssumption == MaxTime \in Nat \ {0} /\ MaxReadings \in Nat /\ Limit \in Nat \ {0}

VARIABLES
  now,      \* the clock
  readings, \* the readings in the database, by primary key
  backup,   \* the reading that the backup task is about to save
  complete, \* the transaction is complete
  stop,     \* its MeterStop, in Wh
  used      \* history: the reading that stop was taken from, or 0

vars == <<now, readings, backup, complete, stop, used>>

Times   == 1 .. MaxTime
Reading == [time : Times, value : Values, unit : {"Wh", "kWh"},
            measurand : {"Register", "Interval", "Power"}, source : {"point", "backup"}]
Nothing == [value |-> 0]

Init ==
  /\ now = 1
  /\ readings = << >>
  /\ backup = Nothing
  /\ complete = FALSE
  /\ stop = 0
  /\ used = 0

Insert(r) ==
  /\ Len(readings) < MaxReadings
  /\ readings' = Append(readings, r)

InWh(r) == IF r.unit = "kWh" THEN 1000 * r.value ELSE r.value

-----------------------------------------------------------------------------
(* MeterValues. *)

StampZero(time) == time

\* A timestamp that cannot be parsed, 0, is replaced by the current time.
Stamp(time) == IF time = 0 THEN now ELSE time

Report(time, value, unit, measurand) ==
  /\ Insert([time |-> Stamp(time), value |-> value, unit |-> unit,
             measurand |-> measurand, source |-> "point"])
  /\ UNCHANGED <<now, backup, complete, stop, used>>

-----------------------------------------------------------------------------
(* GetLatestMeterValueForTransaction. *)

\* The orders in which the database may return the readings.
Orders ==
  {order \in SetToSeqs(DOMAIN readings) :
     \A i, j \in DOMAIN readings :
       i < j => readings[order[i]].time >= readings[order[j]].time}

EveryReading(order) == IF Limit > 0 THEN order ELSE << >>

Window(order) == SubSeq(order, 1, IF Len(order) < Limit THEN Len(order) ELSE Limit)

Places(w, measurands) == {i \in DOMAIN w : readings[w[i]].measurand \in measurands}

-----------------------------------------------------------------------------
(* StartMeterValueBackup. *)

BackupInWh(w, i) ==
  [time |-> now, value |-> InWh(readings[w[i]]), unit |-> readings[w[1]].unit,
   measurand |-> "Register", source |-> "backup"]

\* A copy of the i-th reading of the window, with the unit of the first.
BackupOf(w, i) ==
  [time |-> now, value |-> readings[w[i]].value, unit |-> readings[w[1]].unit,
   measurand |-> "Register", source |-> "backup"]

\* The latest energy reading: of those with one time, the first.
BackupRead ==
  /\ ~complete
  /\ backup = Nothing
  /\ \E order \in Orders :
       LET w      == Window(order)
           energy == Places(w, {"Register", "Interval"})
       IN  \E i \in energy :
             /\ \A j \in energy : i <= j
             /\ readings[w[i]].value > 0
             /\ backup' = BackupOf(w, i)
  /\ UNCHANGED <<now, readings, complete, stop, used>>

BackupSave ==
  /\ backup # Nothing
  /\ Insert(backup)
  /\ backup' = Nothing
  /\ UNCHANGED <<now, complete, stop, used>>

-----------------------------------------------------------------------------
(* Closing the transaction. *)

UnconvertedStop(w, i) == readings[w[i]].value

\* The closing goroutine takes the unit from the first reading ...
ServerStop(w, i) ==
  IF readings[w[1]].unit = "kWh" THEN 1000 * readings[w[i]].value ELSE readings[w[i]].value

\* ... and AdminClose that of the reading itself.
AdminStop(w, i) == InWh(readings[w[i]])

\* Both loops go through the whole window and keep the last energy reading;
\* without one above zero, MeterStop keeps its value.
Close(byServer) ==
  /\ complete' = TRUE
  /\ \E order \in Orders :
       LET w        == Window(order)
           register == Places(w, {"Register"})
           usable   == {i \in register : (\A j \in register : i >= j) /\ readings[w[i]].value > 0}
       IN  \/ usable = {} /\ UNCHANGED <<stop, used>>
           \/ \E i \in usable :
                /\ stop' = IF byServer THEN ServerStop(w, i) ELSE AdminStop(w, i)
                /\ used' = w[i]
  /\ UNCHANGED <<now, readings, backup>>

\* The closing goroutine does not look whether the transaction is complete.
ServerClose == Close(TRUE)

\* An administrator who gives no final energy.
AdminClose == ~complete /\ Close(FALSE)

-----------------------------------------------------------------------------
Tick ==
  /\ now < MaxTime
  /\ now' = now + 1
  /\ UNCHANGED <<readings, backup, complete, stop, used>>

Next ==
  \/ \E time \in Times \cup {0}, value \in Values, unit \in {"Wh", "kWh"},
        measurand \in {"Register", "Interval", "Power"} : Report(time, value, unit, measurand)
  \/ BackupRead
  \/ BackupSave
  \/ ServerClose
  \/ AdminClose
  \/ Tick

Spec == Init /\ [][Next]_vars

-----------------------------------------------------------------------------
(* Properties. *)

TypeOK ==
  /\ now \in Times
  /\ readings \in Seq(Reading)
  /\ backup \in Reading \cup {Nothing}
  /\ complete \in BOOLEAN
  /\ stop \in Nat
  /\ used \in 0 .. Len(readings)

\* A charge point that uses kWh for everything or for nothing ("Wh" stands for
\* every other unit) and reports no energy intervals.  One that mixes, such as
\* kWh for energy and W for power, gets its energy converted by the wrong unit:
\* the unit of the first reading decides.
Reported == {i \in DOMAIN readings : readings[i].source = "point"}
Uniform  ==
  /\ \A i, j \in Reported : readings[i].unit = readings[j].unit
  /\ \A i \in Reported : readings[i].measurand # "Interval"

Registers == {i \in Reported : readings[i].measurand = "Register"}

\* The meter value of a transaction that was closed is one that the charge
\* point has reported, in Wh, however reports, backups and windows interleave:
\* its energy is not made up (handlers_db.go:1079, api_server.go:514).
StopIsReported ==
  Uniform /\ used # 0 => \E i \in Registers : stop = InWh(readings[i])

\* A backup repeats a reading, it does not change it: "Store a backup reading
\* with special source" (central_system.go:224).
BackupsRepeat ==
  Uniform =>
    \A i \in DOMAIN readings \ Reported :
      \E j \in Registers : InWh(readings[i]) = InWh(readings[j])

\* The reading that is used may not be the latest, but it is never more than
\* a window behind: as long as the charge point reports, a transaction that
\* goes on for long is not closed with its first readings.
LagIsBounded ==
  [][used' # used =>
       Cardinality({i \in DOMAIN readings : readings[i].time > readings[used'].time}) < Limit]_vars

(* What the code does not keep. *)

\* "Find latest Energy.Active.Import.Register value" (handlers_db.go:1065).
LatestIsUsed ==
  [][used' # used =>
       \A i \in DOMAIN readings :
         readings[i].measurand = "Register" => readings[i].time <= readings[used'].time]_vars

=============================================================================
