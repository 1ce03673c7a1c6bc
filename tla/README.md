# A TLA+ model of go-ocpp-server

The server is a central system for electric vehicle charge points that speak
OCPP 1.6 over WebSockets. It is a single Go process: goroutines per connection,
background tasks and an HTTP API share one map of connections, one command
manager and one SQL database. Nothing is done in a database transaction, most
handlers read a row and save the whole of it later, and there are no tests. The
interleavings of those goroutines are what this directory is about.

File names are relative to `src/ocpp/` (`handlers_db.go`, `commands.go`,
`central_system.go`, `db_message_logger.go`), `src/server/` (`api_server.go`,
`api_commands.go`) and `src/server/database/` (`database.go`, `models.go`).

To check a configuration or the proofs of a module:

    tlc -workers 2 -config CommandManager_core.cfg MCCommandManager.tla
    tlapm CommandManagerProofs.tla

## 1. The system

| Component | State | Operations | Hard behaviour | What makes it correct |
|---|---|---|---|---|
| Command manager (`commands.go`) | `pendingRequests`, `requestTimeouts`, one channel and one timer per call, one mutex | `SendCommand`, the timer callback, `HandleCommandResponse`; 15 typed wrappers | answer, timeout and failed write race for one id; a send under the mutex; the caller blocks without a timeout of its own | no panic on a channel, one outcome per call, every call returns once its frame is written, a success only after a CallResult, nothing left in the maps |
| Read loop (`handlers_db.go:471`) | the connection, one goroutine | read, dispatch to eleven handlers, route results to the command manager, clean up | handlers that send commands on the loop's own goroutine; repeated and late answers; CallErrors that nobody routes | a reader always gets back to reading |
| Connection registry and monitor (`handlers_db.go:428`, `central_system.go:252`) | the `clients` map, the row of the charge point | connect, boot, heartbeat, end of a connection; the monitor lists, checks, marks | a new connection before the old one is given up; map access without the mutex; stale rows saved | what is in the map has a reader, a working connection is in the map, a charge point that is gone is shown so |
| Transactions and remote starts (`handlers_db.go`, `api_commands.go`, `api_server.go`) | tables of transactions, readings, pending remote starts | Start/StopTransaction, StatusNotification (placeholder, adoption, closing goroutine), RemoteStart/Stop, AdminClose, expiry | whole rows saved over each other; ids that repeat; restarts between two steps | a row stays what it is and stays complete, energy and meter values are of one end, links name the right transaction, a stop finds its own row |
| Meter readings (`handlers_db.go:231`, `central_system.go:182`, `database.go:303`) | table of readings | MeterValues, the backup task, the choice of a reading by two ways of closing | readings out of order and in several units; a limited window; backups saved under a newer time | the stop value is one that was reported, and the latest |
| Connector and overall status (`handlers_db.go:896`) | rows of connectors, status of the charge point | StatusNotification and every other writer of those rows | rows created without a constraint; a status folded over rows in no order; stale copies saved | rows are not created over and over, the overall status is explained by the connectors |
| Message logger (`db_message_logger.go`) | a queue in memory, goroutines that flush it | log, direct save, flush by size and by ticker | flushes overlap, saves fail, the process exits | no message lost or doubled, a full queue is flushed, every message settles |
| Authorization (`handlers_db.go:853`, `api_server.go:366`) | table of tags | Authorize, the checks of Start/StopTransaction, list, save and delete by the API | the row and the clock are read at two times; unknown tags are inserted as Accepted by several loops; an error is taken for an unknown tag | an accepted tag was valid or unknown at one moment and is in the table afterwards, an administrator's decision stands |
| Background triggers (`central_system.go:60`, `:362`, `:470`) | none of their own | meter polling, status monitoring, orphan detection, triggers after a boot; the offline check only logs | loop variables shared with goroutines (Go 1.21); lists that are old when they are used; one failure in a round | the right charge point is asked, nobody is left out, a session without a transaction is reported |
| HTTP API, reports (`api_server.go`, `api_commands.go`) | none | queries, commands, forced stop | requests of several commands over minutes, late answers, shutdown | success is told for what the charge point accepted, a reset is the last resort, every request is answered; each request that writes rows is modelled with the rows it writes |
| Legacy handler (`handlers.go`), configuration, wiring (`main.go`, `server.go`, `config.go`, `env.go`) | not used, or read once | | | |

How they interact: the read loop of a connection calls the handlers, which read
and save rows and sometimes call the command manager; the command manager looks
the connection up in the `clients` map, writes to it and waits for the read loop
to hand it the answer; API requests and background tasks do the same from other
goroutines; everything logs through the message logger.

## 2. The modules

| Module | Models | Checked by | Proved in |
|---|---|---|---|
| `CommandManager` | `SendCommand`, timer, `HandleCommandResponse`, the parts of the read loop that drive them | `CommandManager_core` | `CommandManagerProofs` |
| `RemoteCall` | the abstract promise of `SendCommand`: refused, or asked, replied, one outcome | refined by `CommandManager`, used by `ApiCommands` | `CommandManagerProofs!Refinement`, `ApiCommandsProofs!CallsAreRemote` |
| `Authorization` | the table of tags, the handlers and requests that read and write it | `Authorization_core` | `AuthorizationProofs` |
| `BackgroundTasks` | the four tasks that send triggers | `BackgroundTasks_core`, `_meters` | `ApiCommandsProofs`, as the instance `Background` |
| `ApiCommands` | the requests that send commands, over the calls of `RemoteCall` | `ApiCommands_core` | `ApiCommandsProofs` |
| `MessageLogger` | the queue, the flushes, the ticker, exit | `MessageLogger_core` | `MessageLoggerProofs` |
| `TransactionLedger` | every writer of transactions and pending remote starts | `TransactionLedger_rows`, `_links`, `_remote_reason` | `TransactionLedgerProofs` |
| `MeterReadings` | readings, the backup task, the choice of a reading | `MeterReadings_core` | `MeterReadingsProofs` |
| `ConnectionRegistry` | clients map, charge point row, monitor | `ConnectionRegistry_core` | `ConnectionRegistryProofs` |
| `ConnectorStatus` | connector rows, overall status | `ConnectorStatus_core` | `ConnectorStatusProofs` |

`MC...` modules only name model values for TLC. `ApiCommands` is composed with the
command manager through `RemoteCall`: `CommandManager` is shown to implement it, and
`ApiCommands` takes its steps as the calls of a request. The other specifications
stay independent of each other and share conventions instead: one action per database
call, channel operation or critical section; a goroutine that has read a row keeps
the copy it is going to save in a variable (`job`, `copy`, `held`, `snapshot`,
`backup`); a row's place in a sequence is its primary key. Reads that commute with
every step of the others are merged with the next step.

Some definitions are followed by a second version of them with a plausible bug
(`AlwaysRegistered`, `WithReadingOnly`, `GoOnIfTriggered`, ...). They are used by
no action: substituting one for the definition below it must make TLC find its
property violated, which shows that the property can fail.

### CommandManager

A call is one run of `SendCommand`, named by its message id. `pc` follows the
caller (`register`, `write`, `wait`, `unregister`, then an outcome); `pending`
and `timeouts` are the keys of the two maps; `buffered` and `closed` are the
states of the response channels (capacity one); `timer` the `time.AfterFunc`;
`mutex` and `reader` the read loop inside `HandleCommandResponse`. The frame is
written in two steps, `Transmit` and `WriteSucceeds`, so an answer can be read
before the write has returned, and the write can fail after the frame went out.
The environment may answer any number of times up to `MaxAnswers`, with results
or errors in any order, and a connection may break at any time. A charge point may
open another connection while the old one is still read: `clients` holds the newer
one, `via[m]` is the connection that call `m` has looked up, each connection has a
read loop of its own (`reader`, `inHand`), and answers may come in on any of them.
The clean-up of the old connection removes whatever is in `clients` by then.
`Caller[m]` is the connection whose read loop makes call `m` on its own goroutine
(`handlers_db.go:398`, `:1033`), or `Nobody`.

### TransactionLedger

`job[w]` is what goroutine `w` does and has read: a read loop (a charge point may
have several, `Loops` and `PointOf`), a closing goroutine, an AdminClose request or
a RemoteStop request. `Restart` ends them all. `told` are the ids a charge point was
given. A StopTransaction or MeterValues message may carry any id, one of another
charge point's transaction too; a missing one is 0. The first energy reading of an
id stands for what the loops over the readings pick; `MeterReadings` looks into that
choice. Meter values are whole Wh, as in the code; the energy that an administrator
gives in kWh is not, so an energy is counted in `Parts` of a Wh, and `Truncated` is
what `int(FinalEnergy*1000)` makes of it, with the rounding of the product.

`Faults` says which calls to the database may fail: `"read"` (a lookup of a row or
of readings, which the handlers mostly treat as not found), `"create"` (the insert
of a transaction; the charge point is told an id all the same) and `"save"`. A
handler goes on, gives up or answers as its `if err != nil` says.

### MeterReadings

The readings of one transaction with the time the charge point gave them. The
database returns them latest first, ties in any order (`Orders`), at most `Limit`
of them (`Window`). The backup task reads and saves in two steps. `used` records
which reading the row's `MeterStop` was taken from.

### Authorization

`pc[r]` follows the handler of a message with a tag: it reads the row, checks the
expiry it has read against the clock, or inserts the tag it did not find. Rows are
saved by primary key and looked up by tag, which is unique; an insert uses up an id
even when it is refused. An administrator saves new rows or a copy that may be old
(`copy`). `seen[r]` is history: what the table said of the tag of `r` while `r` was
handled.

### BackgroundTasks

The four tasks share no state, so a behaviour follows one of them (`task`). `phase`,
`points`, `left` and `loopVar` are a round; `worker[c]` is the goroutine that the
round starts for connector `c`. The loop variables that the closures capture are
variables of the model (`here` for the poller, `loopVar` for the monitor), which
the round changes while workers read them. Rows change wherever a task reads them
(`WorldChanges`).

### ApiCommands

`sending[r]` is the command that the handler of `r` is busy with; `status` and
`replied` are those of `RemoteCall`, and `says` is what is in the replies. A forced
stop goes through trigger, blind stop, unlock and, if it has to, reset. `server`
closes and goes down with requests in progress.

### ConnectionRegistry

One charge point with connections that may overlap: `handler[c]` is the goroutine
of connection `c` from the HTTP upgrade to the end of its clean-up. A broken
connection need never be noticed, because no read deadline is set. Times are kept
as ages up to `Old`, the threshold of the monitor.

### ConnectorStatus

Rows of connectors are a sequence because nothing in the database keeps them
unique. `held[p]` is the copy that process `p` is about to save; the row of the
charge point is written by notifications for connector 0, by the computation over
all rows (`Weighed`: rounds of `Weigh` over the rows in any order), and by every goroutine
that saves other columns of it (`Keep`): read loops and the monitor. A lookup that
fails is taken for one that found no row and makes a second one (`Notify`); any
other call that fails ends what the handler was doing (`CallFails`). `missed`,
`current` and `fresh` are history: how many lookups failed, who holds a status that
was computed from the rows as they are, and whether the one in the database is such.

### MessageLogger

`queue`, and for each flush a `batch` that it writes row by row; a save may fail.
Messages are sets, since rows carry the time of the call.

## 3. The runs

| Run | Instance | Shows |
|---|---|---|
| `CommandManager_core` | 1 charge point with 2 connections that may overlap, one of which may break, 2 calls, one of them made by the read loop of one connection, 2 answers; 620,000 states | channels and maps stay consistent, a call made by a read loop is answered only over another connection, a timeout means there was no answer, the refinement of `RemoteCall`, every call returns that is not blocked in its write |
| `MessageLogger_core` | 4 messages, 1 urgent, queue limit 2, ticker and 3 flushes; 38,000 states | conservation, full queues are flushed, messages settle |
| `TransactionLedger_rows` | 1 connector, 1 transaction, 1 read loop, 1 closing goroutine, 1 administrator, 1 remote stop, 2 meter values, energies of 0, 1 and 1.5 Wh, ids modulo 2, failing reads, creations and saves, restarts; 725,000 states | rows only advance, energy and meters are of one end, abandoned transactions are closed |
| `TransactionLedger_links` | 2 charge points with 1 connector each, one with 2 read loops, 2 transactions, 1 remote start, failing reads and saves; 1,254,000 states | links match, an id that was told stops a row of its own charge point |
| `TransactionLedger_remote_reason` (violation) | 1 transaction | `RemoteReasonKept` |
| `MeterReadings_core` | up to 3 readings with 3 values, 2 units, 3 measurands, 2 times, windows of 2; 858,000 states | the stop value was reported, backups repeat, the lag is bounded |
| `ConnectionRegistry_core` | 2 connections, age threshold 1; 50,000 states | map entries have readers and are only taken by others, absence is noticed |
| `ConnectorStatus_core` | 1 connector with up to 3 rows, 4 statuses, 2 read loops, 1 administrator, the monitor, 1 lookup that fails, failing calls; 3,215,000 states | rows come only of lookups that failed or raced, the overall status is explained by the rows |
| `Authorization_core` | 2 requests for one tag, 2 tags, a row or none at the start, 1 row saved by an administrator, clock 1 to 2; 918,000 states | accepted tags were valid, are known afterwards, and administrators decide |
| `BackgroundTasks_core` | 2 charge points with 2 and 1 connectors; 66,000 states | the poller asks the right charge point, everyone is asked, orphans are reported |
| `BackgroundTasks_meters` (violation) | same | `ChargingIsMetered` |
| `ApiCommands_core` | 1 request of any kind, up to 4 commands, 3 contents of a reply; 28,000 states | success is earned, a reset is the last resort, every request is answered |

Why the bounds are enough. Command manager: all interference on an id comes from
its caller, its timer and the read loops; a second call is there to hold the mutex
and to block a read loop, a second connection to be the newer one, a second answer
to meet an id that is gone. Ledger: a row is written by at most one goroutine of
each kind at a time in `rows`, which are all pairs of writers; with two `Parts` to a
Wh an energy is a whole number of Wh or is not, and is truncated either way.
`links` needs two charge points for ids to collide across them, and two read loops
of one for a remote start to be completed while another loop works on it; a second
remote start could only be the later one, which the other is hidden by until it has
expired or is completed. `VIEW` and `SYMMETRY` are sound there: without closing
goroutines and administrators nobody reads `readings`, and the two read loops are
alike. `Wrap` is 2 in `rows`, so ids wrap around to 0. Readings: three readings
overflow a window of two. Registry: a charge point has one connection at a time, so
a third would have to overlap two that both linger. Connector rows: the two read
loops and the failed lookup make three rows of one connector, and the fold sees
rows and not connectors; it has seen all pairs after two rows, the third shows that
it stays so. The statuses are the two that the handlers set and one of each kind
that the fold tells apart otherwise (busy, not usable). Authorization: two
requests race for one tag, an administrator may save one row and delete any number
of times in between, and with `MaxTime` 1 an expiry is in the future or has passed.
Background tasks: the second connector of a charge point is what changes the loop
variable under a goroutine, the second charge point what changes the one of the
outer loop. API: requests share nothing but the server, and calls of different
requests never meet in `RemoteCall` (their ids differ), so one request shows all
that a request can do.

The `ASSUME`s in the modules are what the proofs assume of the constants; the
bounds on clocks, rows and concurrent requests are named as such where they are
declared.

### Fairness

Weak fairness for each step of a goroutine that is ready to run, which the Go
scheduler gives; strong fairness where a mutex is taken, because `sync.Mutex` hands
over to a starving waiter; a timer that is armed fires; tickers tick; a database
call returns, with or without an error. Nothing is assumed of charge points, the
network, HTTP clients, or of a read loop noticing that its connection is broken.
In particular a write to a connection need not return: `conn.WriteJSON`
(`commands.go:90`) has no deadline and blocks for as long as the charge point does
not read, so `Transmit` has no fairness, and `EveryCallReturns` says that a call
returns or is in its write. Only on a connection that is not up does the write end.
`BackgroundTasks` and `ApiCommands` take a command for a call that returns: their
liveness properties hold as long as no write blocks for ever, and otherwise end at
the command that does.
`AbandonedIsClosed` (`TransactionLedger`) assumes further, in the property itself,
that restarts end and that the charge point keeps reporting Available.
It also assumes that in the end no database call of the closing goroutines fails.
`GoneIsNoticed` assumes that the charge point no longer connects. `OrphanIsReported`
assumes that the connector goes on charging, and counts the rounds whose query
failed. `EveryRequestIsAnswered` ends with the process.

`BackgroundTasks` assumes two things of time, each as a guard of its own: a pause
of half a second or a second is longer than a goroutine takes to start running
(`PauseIsOver`), and goroutines started for a charge point are done when a later
round comes to it, since rounds are minutes apart and the goroutines make at most
two calls of 30 s (`Settled`).

## 4. What does not hold

Each of these is what a comment or message in the code says, and TLC's
counterexample is a schedule of the code.

* `RemoteReasonKept` (`TransactionLedger_remote_reason`): a StopTransaction that
  read the row before a remote stop set its reason saves the old reason over it.
* `ChargingIsMetered` (`BackgroundTasks_meters`): whether a connector is asked for
  meter values is decided, after the first trigger has returned, by the status of
  whichever connector the loop has come to.

The modules state more properties that TLC refutes, under "What the code does not
keep"; they are not among the runs. Each can be checked by adding it to the
configuration named.

| Property | Configuration | What happens |
|---|---|---|
| `SentAnswerWins` | `CommandManager_core` | a handler that sends a command from the read loop (`handlers_db.go:398`, `:1033`) waits for a CallResult that this loop does not read meanwhile. If the charge point has no other connection the loop is blocked for 30 s and the call fails; if it has connected again, the answer may come in over the other connection. `InlineNeedsOtherLoop` shows that it can come in no other way, and `TimeoutMeansNoAnswer` that a read loop that was kept busy is the only way to miss an answer while the link is up |
| `EveryWriteReturns` | `CommandManager_core` | the write has no deadline (`commands.go:90`): a charge point that does not read blocks the caller for ever; the timer, started before the write, closes a channel that the caller is not yet waiting on |
| `OneWriterAtATime` | `CommandManager_core` | two calls, and the read loop with its responses, write to one connection at once; `gorilla/websocket` supports one writer |
| `StopsOwnRow` | `TransactionLedger_links` | ids are seconds modulo 100000; two starts in one second share one, and stopping either writes to the first. Nor is the charge point compared: an id that another charge point was given, or a missing one, taken for 0, stops a transaction of that other charge point. `ToldIdStopsOwnRow` shows that there is no further cause: an id that its charge point was told, and that no two rows share, stops a row of its own |
| `ToldIsKnown` | `TransactionLedger_rows` | when the insert fails the charge point is told an id that no row has |
| `OneActivePerConnector`, `LatestIsStopped` | `TransactionLedger_rows` with two rows | a second start, or a start after a placeholder, leaves two active transactions |
| `AdminSparesComplete`, `CloserSparesComplete` | `TransactionLedger_rows` | a complete row is overwritten from a copy read before |
| `LatestIsUsed` | `MeterReadings_core` | "latest" readings (`handlers_db.go:1065`) are looked for by keeping the last match of a list ordered from the latest to the oldest. `LagIsBounded` shows how far off the result can be |
| `OpenConnectionIsClient` | `ConnectionRegistry_core` | the late clean-up of an old connection (`handlers_db.go:480`) removes the new one from the map. `OnlyOthersEvict` shows that nothing else does |
| `MapIsSafe`, `MonitorSparesLive` | `ConnectionRegistry_core` | the map is written without the mutex; the monitor undoes what was saved since it read the row |
| `OneRowPerConnector` | `ConnectorStatus_core` | a second row comes of a lookup that fails for whatever reason (`handlers_db.go:928`), even with a single read loop, and of two read loops that look for the first row at once. `RowsAreFew` shows that nothing else makes one |
| `MeterKeepsStatus`; `PriorityIsFollowed` | `ConnectorStatus_core`; the same with `"Unavailable"` for `"Preparing"` | a status is overwritten with the power; the fold over statuses depends on the order of the rows |
| `ShutdownKeepsTheLog` | `MessageLogger_core` | the process exits with messages queued |
| `ExpiredWasExpired` | `Authorization_core` | a tag is refused as expired by a row that was moved to a later expiry in the meantime |
| `ResetOnlyAfterFailure`, `FailureMeansNotDone` | `ApiCommands_core` | a command that timed out was accepted all the same |

Three observations from reading the API, which no module states: a POST that "creates or
updates" a tag (`api_server.go:402`) is refused for a tag that exists, unless the
client sends the id of its row; the total count for the pagination of the log
(`api_server.go:729`) is the length of the page; and a report that is asked for in
adjoining windows counts a transaction at the boundary twice.

`OverallIsFresh` is about a status computed from rows that have not changed since
and that nobody has written over: a read loop that saves the status it computed
before another changed a row, or a monitor that saves an older copy of the charge
point, puts a status there that the rows no longer explain, until the next
notification.

## 5. The proofs

All theorems are for every value of the constants that satisfies the `ASSUME`s of
the module, and the further assumptions that the theorem itself states
(`"create" \notin Faults`, finitely many read loops). Every component has a module of proofs but
`BackgroundTasks`, whose theorems are the last part of `ApiCommandsProofs`: both
are about who sends commands. The modules are all built alike: an inductive invariant `IInv` of named
parts (checked by TLC on the run of the module first), lemmas for the initial
states and the steps, and short temporal theorems at the end.

* `CommandManagerProofs`: type correctness, the safety invariants of the run, the
  refinement of `RemoteCall`, the action property `TimeoutMeansNoAnswer`, and four
  more that follow from the same invariant and are not run: whoever waits has a waker, answers are genuine, the send under the
  mutex never blocks, outcomes are final. None of the invariants is
  inductive alone. `IInv` adds: what is registered has an open, empty channel, a
  caller in `SendCommand` and a timer that was not stopped (`RegistryInv`); where a
  caller is tells whether its id is registered or its channel closed (`CallInv`);
  the mutex is held exactly by a reader about to send to a registered id
  (`ReaderInv`); every result on its way comes from the right charge point
  (`ProvenanceInv`); a call that a read loop makes keeps that loop busy, so that its
  answer can only be in the hands of another (`InlineInv`); a connection that has not
  been opened has no frames and no read loop (`BirthInv`). The
  refinement maps `pc` to five abstract states and shows that each action is a
  step of `RemoteCall` or a stutter. `TimeoutMeansNoAnswer` needs `AnswerInv`
  besides: a timer that runs belongs to a registered call, and a CallResult that was
  sent for it is, for each connection that it was sent on and that is up, on the wire
  or in the hands of the read loop.
* `MessageLoggerProofs`: type correctness, `Conservation` and
  `FullQueueIsFlushed`. `IInv` splits "in exactly one place" into nowhere before
  the call returns, somewhere after, and never in two places.
* `TransactionLedgerProofs`: type correctness, `EnergyNearMeters`,
  `RowsOnlyAdvance`, `LinksMatch` and `ToldIdStopsOwnRow`. A row may be
  overwritten by any copy in flight, so `IInv` has to say what the copies are
  (`JobsFit`): of the row they will overwrite, with its id, connector and start,
  balanced, and complete unless only a reason is written. `RowsOnlyAdvance` follows
  from the same invariant. Any set of `Faults`, ids that repeat and any number of
  read loops of one charge point are allowed for these. `LinksMatch` and
  `ToldIdStopsOwnRow` assume besides that no create fails (`"create" \notin Faults`),
  as the run does, since an id without a row cannot belong to a connector. They add
  `LInv`: whoever is about to link or complete a pending remote start holds the id
  of a row on its connector, and the ids that a charge point was told belong to rows
  on its own connectors. `RowsOnlyAdvance` is why no later save takes such a row
  away.
* `ConnectionRegistryProofs`: type correctness, `ClientHasReader` and
  `OnlyOthersEvict`. `CopiesAreRows` says that whoever is about to save holds
  a row and not its absence; `EndedIsBroken` that a read loop only ends after its
  connection.
* `ConnectorStatusProofs`, for any readers, administrators and monitors: type
  correctness; `OverallIsFresh`; and, for finitely many readers, `RowsAreFew`: a
  connector has at most as many rows as there are read loops at once, and one more
  for each lookup that failed. `FewInv` counts the rows together with the readers
  that are about to create one more; a reader sets out to create one only while
  there is no row at all, or because its lookup failed (`FewMissing`). `FreshFits`
  says where a status that was computed from the rows as they are can be: with a
  reader that is about to save it, or in the row of the charge point, and that it is
  expected there; whoever changes a connector takes it from both. It rests on
  `WeighedIsExpected`: the loop over the rows, of any number and in any order, ends
  with a status that the rows call for. `Weighed` is a recursive function, and the
  lemma is proved without an induction theorem: the first round whose result were
  not expected, and before that the first number of rounds for which no such
  function existed, cannot exist (`LeastPlace`, `RoundsExist`, `WeighExpected`).
* `MeterReadingsProofs`: type correctness, `StopIsReported`, `BackupsRepeat` and
  `LagIsBounded`. A backup may be read from a backup, so `CopiesRepeat` says that
  each stored copy and the one about to be stored is worth what some report was, in
  its unit. For `LagIsBounded` an order is shown to go through all readings (an
  injection of a finite set into itself is onto), and what comes before the
  reading that is used is within the window, which leaves fewer than `Limit`.
* `AuthorizationProofs`: type correctness, `AcceptedWasValid`, `AcceptedIsKnown` and
  `AdminDecides`. `SeenFits` relates what a request has seen, a history, to
  the copy it is about to check: the tag was in the table when it was read, and if
  the copy says Accepted so did the table.
* `ApiCommandsProofs`: type correctness, `SuccessIsEarned` and `ResetIsLast`.
  `CallsFit` says that a call which succeeded was replied to with something,
  `StopFits` what is over at each stage of a forced stop and that the reset has not
  been sent before its stage, and `NotYet` that nothing was sent for a request that
  has not come. `CallsAreRemote` shows that the handlers' calls are a behaviour of
  `RemoteCall`, all of it and not only step by step; `Refinement` shows the same of
  the command manager, from its own side. The two meet in `RemoteCall`; one theorem
  about both together would be about the connection between them and is not stated.

  The last part is `BackgroundTasks` under its own `ASSUME`s (`Ownership`): its type
  invariant and `PollerAsksOwner`. `RoundsFit` is the reason: a goroutine of the
  poller that has not run yet has a round that sleeps, with the loop variable where
  it was, and the sleep ends only when the goroutine has run (`PauseIsOver`).
  Without that guard neither the invariant nor the property holds.

Only model-checked: the liveness properties (`EveryCallReturns`,
`EveryMessageSettles`, `AbandonedIsClosed`, `GoneIsNoticed`, `EveryoneIsAsked`,
`OrphanIsReported`, `EveryRequestIsAnswered`), since fairness is stated with `ENABLED`, which is beyond the
prover. Every invariant and every action property of a run is proved. The
properties that TLC refutes (section 4) have no theorem, of course.

## 6. What is left out, and the plan

Left out throughout: the wording of messages and logs, columns that no decision
depends on, JSON parsing, database errors except where a module names them. The
registry and the readings assume that database calls succeed; `LinksMatch` and
`ToldIdStopsOwnRow` are checked without failing inserts, since an id without a row
cannot be matched with any.

Not modelled, and why: the offline check (`central_system.go:128`) writes log
entries only; the requests that only read (status, lists, log, energy report) run
one query and format its result, and have no state between them; the legacy
handler (`handlers.go`) and the copy of the transaction matching in
`database.go:494` are not called; configuration, environment and wiring are read
once at the start. Of `gorilla/websocket` only what the code relies on is modelled:
a write either reaches the wire whole or fails, whoever else is writing.

Next, in this order:

1. How long an overall status can stay behind the rows, once an older copy has been
   saved over it, and what is still true of the links when an insert fails.
2. The composition of a connection: read loop, commands and responses as
   concurrent writers of one WebSocket. `CommandManager` has the clients map that
   `SendCommand` looks into; the registry's row and monitor are not part of it.
