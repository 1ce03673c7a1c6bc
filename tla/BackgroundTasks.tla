-------------------------- MODULE BackgroundTasks --------------------------
(***************************************************************************)
(* The goroutines of the central system that ask charge points for news    *)
(* with TriggerMessage (ocpp/central_system.go), and the one that a boot   *)
(* starts (handlePendingTransactionsOnReconnect of ocpp/handlers_db.go):   *)
(*                                                                         *)
(*   monitor    StartStatusMonitoring: the status of every connector, and  *)
(*              the meter values of those that charge                      *)
(*   poller     StartMeterValuePolling: the meter values of every active   *)
(*              transaction                                                *)
(*   orphans    StartOrphanedSessionDetection: connectors that charge      *)
(*              without a transaction                                      *)
(*   reconnect  status and meter values of the transactions still active   *)
(*              at a boot                                                  *)
(*                                                                         *)
(* Each works in rounds through lists read from the database, which is     *)
(* old by the time the commands are sent.  Some commands are sent on the   *)
(* goroutine of the round, some in goroutines of their own that share      *)
(* variables of the loop that starts them (go.mod:3 asks for Go 1.21: one  *)
(* variable per loop, not per round).  The tasks have no state in common,  *)
(* so a behaviour follows one of them.  A command is a call that returns,  *)
(* which it does as long as no write to a connection blocks for ever       *)
(* (EveryCallReturns of CommandManager); whether it succeeds is only       *)
(* logged.                                                                 *)
(*                                                                         *)
(* A connector is named by its row, so a command that names a connector to *)
(* another charge point can be told.  EveryConnector, WakeAtOnce,          *)
(* TransactionTakenForGranted and StatusReturnsToEnd are the definitions   *)
(* that follow them with a bug.                                            *)
(***************************************************************************)
EXTENDS FiniteSets

CONSTANTS
  Connectors,   \* rows of the connectors
  ChargePoints,
  Owner,        \* Owner[c]: the charge point of connector c
  Nobody        \* no charge point, and no connector

ASSUME OwnerAssumption  == Owner \in [Connectors -> ChargePoints]
ASSUME NobodyAssumption == Nobody \notin ChargePoints \cup Connectors

EveryConnector(p) == IF p = Nobody THEN {} ELSE Connectors

ConnectorsOf(p) == {c \in Connectors : Owner[c] = p}

Tasks == {"monitor", "poller", "orphans", "reconnect"}

VARIABLES
  task,       \* the task that this behaviour follows
  connected,  \* IsConnected of the rows; for the poller, the clients map
  charging,   \* connectors whose status is Charging
  active,     \* connectors with an active transaction
  phase,      \* where the goroutine of the task is
  points,     \* charge points that the round has not come to
  here,       \* the loop variable with the charge point of the round
  left,       \* connectors of it that the round has not come to
  listed,     \* connectors that were charging in the list; for the poller,
              \* active ones that the round has not come to
  loopVar,    \* loopVar[p]: the loop variable with the connector, the
              \* latest of the inner loop over the connectors of p
  worker,     \* worker[c]: where the goroutine started for c is
  asked       \* asked[c]: whom the poller's goroutine for c asks

world == <<connected, charging, active>>
round == <<phase, points, here, left, listed, loopVar>>
vars  == <<task, world, round, worker, asked>>

TypeOK ==
  /\ task \in Tasks
  /\ connected \subseteq ChargePoints
  /\ charging \subseteq Connectors
  /\ active \subseteq Connectors
  /\ phase \in {"idle", "points", "asking", "connectors", "asleep", "status", "meters"}
  /\ points \subseteq ChargePoints
  /\ here \in ChargePoints \cup {Nobody}
  /\ left \subseteq Connectors
  /\ \A c \in left : phase # "points" => Owner[c] = here
  /\ listed \subseteq Connectors
  /\ \A p \in ChargePoints : loopVar[p] \in ConnectorsOf(p) \cup {Nobody}
  /\ phase \in {"status", "meters", "asleep"} => here # Nobody /\ loopVar[here] # Nobody
  /\ worker \in [Connectors -> {"none", "started", "status", "meters"}]
  /\ asked \in [Connectors -> ChargePoints \cup {Nobody}]

Init ==
  /\ task \in Tasks
  /\ connected = ChargePoints
  /\ charging = {}
  /\ active = {}
  /\ phase = "idle"
  /\ points = {}
  /\ here = Nobody
  /\ left = {}
  /\ listed = {}
  /\ loopVar = [p \in ChargePoints |-> Nobody]
  /\ worker = [c \in Connectors |-> "none"]
  /\ asked = [c \in Connectors |-> Nobody]

-----------------------------------------------------------------------------
(* The rounds. *)

\* ListChargePoints; those that are offline are skipped, by the row as listed.
ListPoints ==
  /\ task \in {"monitor", "orphans"}
  /\ phase = "idle"
  /\ points' = connected
  /\ phase' = "points"
  /\ UNCHANGED <<task, world, here, left, listed, loopVar, worker, asked>>

\* GetAllIncompleteTransactions, grouped by charge point.
ListTransactions ==
  /\ task = "poller"
  /\ phase = "idle"
  /\ points' = {Owner[c] : c \in active}
  /\ listed' = active
  /\ phase' = "points"
  /\ UNCHANGED <<task, world, here, left, loopVar, worker, asked>>

\* A boot, and GetIncompleteTransactions of its charge point.
Reconnect(p) ==
  /\ task = "reconnect"
  /\ phase = "idle"
  /\ here' = p
  /\ left' = active \cap ConnectorsOf(p)
  /\ phase' = "connectors"
  /\ UNCHANGED <<task, world, points, listed, loopVar, worker, asked>>

\* The goroutines started for a charge point are done when the round after
\* next comes to it: minutes against two calls of 30 s.
Settled(p) == \A c \in ConnectorsOf(p) : worker[c] = "none"

EnterPoint(p) ==
  /\ phase = "points"
  /\ p \in points
  /\ Settled(p)
  /\ points' = points \ {p}
  /\ here' = p
  /\ loopVar' = [loopVar EXCEPT ![p] = Nobody]
  /\ UNCHANGED <<task, world, worker, asked>>

\* ListConnectors; the monitor first asks for connector 0.
MonitorPoint(p) ==
  /\ task = "monitor"
  /\ EnterPoint(p)
  /\ left' = ConnectorsOf(p)
  /\ listed' = (listed \ ConnectorsOf(p)) \cup (charging \cap ConnectorsOf(p))
  /\ phase' = "asking"

\* ListConnectors, of which the detection keeps those that charge.
InspectPoint(p) ==
  /\ task = "orphans"
  /\ EnterPoint(p)
  /\ left' = charging \cap ConnectorsOf(p)
  /\ phase' = "connectors"
  /\ UNCHANGED listed

\* The next group of transactions.
PollPoint(p) ==
  /\ task = "poller"
  /\ EnterPoint(p)
  /\ left' = listed \cap ConnectorsOf(p)
  /\ listed' = listed \ ConnectorsOf(p)
  /\ phase' = "connectors"

\* ListConnectors fails: continue with the next charge point.
ListFails(p) ==
  /\ task # "poller"
  /\ phase = "points"
  /\ p \in points
  /\ points' = points \ {p}
  /\ UNCHANGED <<task, world, phase, here, left, listed, loopVar, worker, asked>>

\* The trigger for connector 0 returns, with or without an error.
ZeroReturns ==
  /\ phase = "asking"
  /\ phase' = "connectors"
  /\ UNCHANGED <<task, world, points, here, left, listed, loopVar, worker, asked>>

\* Only the poller's goroutines could still read the loop variable.
LeavePoint ==
  /\ phase = "connectors"
  /\ left = {}
  /\ phase' = IF task = "reconnect" THEN "idle" ELSE "points"
  /\ here' = IF task = "poller" THEN here ELSE Nobody
  /\ UNCHANGED <<task, world, points, left, listed, loopVar, worker, asked>>

\* The round is over; the monitor has remote starts expire.
EndRound ==
  /\ phase = "points"
  /\ points = {}
  /\ phase' = "idle"
  /\ UNCHANGED <<task, world, points, here, left, listed, loopVar, worker, asked>>

-----------------------------------------------------------------------------
(* The connectors of a charge point. *)

\* The next connector of the inner loop.
TakeConnector(c) ==
  /\ phase = "connectors"
  /\ c \in left
  /\ left' = left \ {c}
  /\ loopVar' = [loopVar EXCEPT ![here] = c]

\* go func, then a pause.
StartWorker(c) ==
  /\ worker[c] = "none"
  /\ worker' = [worker EXCEPT ![c] = "started"]
  /\ phase' = "asleep"

\* The monitor and, if the charge point is a client, the poller.
Spawn(c) ==
  /\ task \in {"monitor", "poller"}
  /\ TakeConnector(c)
  /\ \/ /\ task = "poller" => here \in connected
        /\ StartWorker(c)
     \/ /\ task = "poller" /\ here \notin connected
        /\ UNCHANGED <<worker, phase>>
  /\ UNCHANGED <<task, world, points, here, listed, asked>>

WakeAtOnce == phase = "asleep"

\* A pause of half a second or a second is longer than a goroutine needs to
\* start running.
PauseIsOver == phase = "asleep" /\ worker[loopVar[here]] # "started"

Wake ==
  /\ PauseIsOver
  /\ phase' = "connectors"
  /\ UNCHANGED <<task, world, points, here, left, listed, loopVar, worker, asked>>

TransactionTakenForGranted(c) ==
  /\ task = "orphans"
  /\ TakeConnector(c)
  /\ UNCHANGED <<task, world, phase, points, here, listed, worker, asked>>

\* GetActiveTransactionForConnector finds a transaction.
TransactionFound(c) ==
  /\ task = "orphans"
  /\ c \in active
  /\ TakeConnector(c)
  /\ UNCHANGED <<task, world, phase, points, here, listed, worker, asked>>

\* It finds none, or fails: a warning, and a trigger that is waited for.
WarnOrphan(c) ==
  /\ task = "orphans"
  /\ TakeConnector(c)
  /\ phase' = "status"
  /\ UNCHANGED <<task, world, points, here, listed, worker, asked>>

\* The first trigger for an active transaction.
AskStatus(c) ==
  /\ task = "reconnect"
  /\ TakeConnector(c)
  /\ phase' = "status"
  /\ UNCHANGED <<task, world, points, here, listed, worker, asked>>

StatusReturnsToEnd ==
  /\ phase = "status"
  /\ phase' = "connectors"
  /\ left' = {}
  /\ UNCHANGED <<task, world, points, here, listed, loopVar, worker, asked>>

\* The trigger returns; on a reconnect the one for meter values follows,
\* whatever came of the first.
StatusReturns ==
  /\ phase = "status"
  /\ phase' = IF task = "reconnect" THEN "meters" ELSE "connectors"
  /\ UNCHANGED <<task, world, points, here, left, listed, loopVar, worker, asked>>

MetersReturn ==
  /\ phase = "meters"
  /\ phase' = "connectors"
  /\ UNCHANGED <<task, world, points, here, left, listed, loopVar, worker, asked>>

-----------------------------------------------------------------------------
(* The goroutines that the rounds start. *)

WorkerMoves(c, before, after) ==
  /\ worker[c] = before
  /\ worker' = [worker EXCEPT ![c] = after]

\* The monitor's goroutine got its charge point and connector as arguments.
WorkerAsksStatus(c) ==
  /\ task = "monitor"
  /\ WorkerMoves(c, "started", "status")
  /\ UNCHANGED <<task, world, round, asked>>

\* The poller's goroutine has a copy of the connector but reads the loop
\* variable chargePointID.
WorkerAsksMeters(c) ==
  /\ task = "poller"
  /\ WorkerMoves(c, "started", "meters")
  /\ asked' = [asked EXCEPT ![c] = here]
  /\ UNCHANGED <<task, world, round>>

\* When the first trigger has returned, the status that decides on the second
\* is read from the loop variable connector.
WorkerGoesOn(c) ==
  /\ WorkerMoves(c, "status", IF loopVar[Owner[c]] \in listed THEN "meters" ELSE "none")
  /\ UNCHANGED <<task, world, round, asked>>

WorkerEnds(c) ==
  /\ WorkerMoves(c, "meters", "none")
  /\ asked' = [asked EXCEPT ![c] = Nobody]
  /\ UNCHANGED <<task, world, round>>

-----------------------------------------------------------------------------
Toggle(set, x) == IF x \in set THEN set \ {x} ELSE set \cup {x}

\* The handlers and the connections change the rows at any time.  A change
\* shows when the task reads the row next, so a row changes where it is read,
\* and a row that the task never reads does not.
WorldChanges ==
  /\ \/ /\ phase = IF task = "poller" THEN "connectors" ELSE "idle"
        /\ task # "reconnect"
        /\ \E p \in ChargePoints : connected' = Toggle(connected, p)
        /\ UNCHANGED <<charging, active>>
     \/ /\ phase = "points"
        /\ task \in {"monitor", "orphans"}
        /\ \E c \in Connectors : charging' = Toggle(charging, c)
        /\ UNCHANGED <<connected, active>>
     \/ /\ phase = IF task = "orphans" THEN "connectors" ELSE "idle"
        /\ task # "monitor"
        /\ \E c \in Connectors : active' = Toggle(active, c)
        /\ UNCHANGED <<connected, charging>>
  /\ UNCHANGED <<task, round, worker, asked>>

StartRound == ListPoints \/ ListTransactions \/ \E p \in ChargePoints : Reconnect(p)

NextPoint ==
  \/ \E p \in ChargePoints :
       MonitorPoint(p) \/ InspectPoint(p) \/ PollPoint(p) \/ ListFails(p)
  \/ EndRound

NextConnector ==
  \/ \E c \in Connectors :
       Spawn(c) \/ TransactionFound(c) \/ WarnOrphan(c) \/ AskStatus(c)
  \/ LeavePoint

Returns == ZeroReturns \/ Wake \/ StatusReturns \/ MetersReturn

Work(c) ==
  WorkerAsksStatus(c) \/ WorkerAsksMeters(c) \/ WorkerGoesOn(c) \/ WorkerEnds(c)

Next ==
  \/ StartRound \/ NextPoint \/ NextConnector \/ Returns
  \/ \E c \in Connectors : Work(c)
  \/ WorldChanges

Spec == Init /\ [][Next]_vars

\* The goroutine of a task runs: its ticker ticks, queries return with or
\* without an error, commands return (EveryCallReturns of CommandManager: as
\* long as no write blocks for ever).  So does one of the goroutines it has
\* started, as long as there is one.
Fairness ==
  /\ WF_vars(ListPoints \/ ListTransactions \/ NextPoint \/ NextConnector \/ Returns)
  /\ WF_vars(\E c \in Connectors : Work(c))

FairSpec == Spec /\ Fairness

-----------------------------------------------------------------------------
(* Safety. *)

\* The poller asks for meter values only the charge point that had the active
\* transaction, although its goroutines read a variable that the loop goes on
\* changing: the pause "to prevent flooding" (central_system.go:118) is what
\* keeps them apart.
PollerAsksOwner ==
  \A c \in Connectors : asked[c] \in {Owner[c], Nobody}

(* Liveness. *)

Asked(c) ==
  \/ worker[c] \in {"status", "meters"}
  \/ phase = "status" /\ loopVar[here] = c

\* A round asks for every connector it has listed, however many of its commands
\* and of its queries about other charge points fail, as long as none of its commands
\* blocks for ever in a write; the poller passes over a charge point that is no
\* client.
EveryoneIsAsked ==
  \A c \in Connectors :
    c \in left /\ task # "orphans"
      ~> Asked(c) \/ (task = "poller" /\ Owner[c] \notin connected)

Reports(c) == phase = "status" /\ loopVar[here] = c

\* A connector that keeps charging without a transaction, on a charge point that
\* stays connected, is reported in every round that can list its connectors, as
\* long as none of the commands before it blocks for ever in a write.
OrphanIsReported ==
  \A c \in Connectors :
    task = "orphans" /\ <>[](c \in charging \ active /\ Owner[c] \in connected)
      => []<>Reports(c) \/ []<><<ListFails(Owner[c])>>_vars

(* What the code does not keep. *)

\* "If connector is in Charging state, also request meter values"
\* (central_system.go:403).
ChargingIsMetered ==
  [][\A c \in Connectors :
       worker[c] = "status" /\ worker'[c] # "status"
         => (worker'[c] = "meters" <=> c \in listed)]_vars

=============================================================================
