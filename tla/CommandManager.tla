--------------------------- MODULE CommandManager ---------------------------
(***************************************************************************)
(* The command manager of the central system: ocpp/commands.go, with the   *)
(* parts of the read loop of ocpp/handlers_db.go that drive it.            *)
(*                                                                         *)
(* A goroutine that calls SendCommand registers a fresh message id in two  *)
(* maps, arms a 30 s timer, writes the Call to the charge point and blocks *)
(* on a channel.  Three other goroutines race for that id: the read loop   *)
(* that sees the CallResult, the timer callback, and the caller itself     *)
(* when the write fails.  The maps are only touched under one mutex.       *)
(*                                                                         *)
(* One call is one run of SendCommand, named by its message id (a fresh    *)
(* UUID).  Each connection is read by a goroutine of its own; a connection *)
(* that breaks stays broken.  A charge point may open another while the    *)
(* old one has not been given up: both are read, calls go out on the one   *)
(* in the clients map, and answers are routed by their id alone, whichever *)
(* read loop gets them.  Payloads, logging, the responses of the read loop *)
(* and the typed wrappers (Reset, UnlockConnector, ...) that only build a  *)
(* payload and read "status" out of the answer are left out.               *)
(*                                                                         *)
(* An operator named ...Unchecked, ...Only, ...Nothing and so on, placed    *)
(* right before a definition, is that definition with a bug put in it; it  *)
(* is only used to see that the properties notice.                         *)
(***************************************************************************)
EXTENDS Naturals, FiniteSets

CONSTANTS
  Calls,        \* message ids, one per run of SendCommand
  ChargePoints,
  Connections,  \* WebSocket connections, each with its read loop (a bound)
  PointOf,      \* PointOf[c]: the charge point that opens connection c
  Target,       \* Target[m]: the charge point that call m is sent to
  Caller,       \* Caller[m]: the connection whose read loop makes call m, from
                \* a handler, or Nobody: it is made by another goroutine
  MaxAnswers,   \* bound: how many frames answer calls, repeats included
  MaxBreaks,    \* bound: how many connections break
  Nobody        \* no connection, no call

ASSUME PointAssumption  == PointOf \in [Connections -> ChargePoints]
ASSUME TargetAssumption == Target \in [Calls -> ChargePoints]
ASSUME CallerAssumption ==
  /\ Caller \in [Calls -> Connections \cup {Nobody}]
  /\ \A m \in Calls : Caller[m] # Nobody => PointOf[Caller[m]] = Target[m]
ASSUME BoundAssumption  == MaxAnswers \in Nat /\ MaxBreaks \in Nat
ASSUME NobodyAssumption == Nobody \notin Connections /\ Nobody \notin Calls

VARIABLES
  pc,         \* pc[m]: where call m is in SendCommand
  via,        \* via[m]: the connection that call m has looked up
  pending,    \* the keys of pendingRequests
  timeouts,   \* the keys of requestTimeouts
  timer,      \* timer[m]: the time.Timer of call m
  buffered,   \* calls whose channel holds a response not yet received
  closed,     \* calls whose channel has been closed
  mutex,      \* the read loop inside HandleCommandResponse, or Nobody
  reader,     \* reader[c]: where the read loop of connection c is
  inHand,     \* inHand[c]: the call the read loop of c is busy with
  clients,    \* clients[p]: the connection in the clients map, or Nobody
  link,       \* link[c]: connection c itself
  delivered,  \* calls whose Call frame reached the charge point
  wire,       \* wire[c]: frames sent on c that its reader has not read yet
  answers,    \* how many frames answered calls so far
  replied,    \* <<m, c>>: a CallResult for m was sent on c
  panics      \* calls whose channel was closed twice, or sent to after its close

callVars == <<pc, via, pending, timeouts, timer, buffered, closed>>
loopVars == <<mutex, reader, inHand>>
netVars  == <<clients, link, delivered, wire, answers, replied>>
vars     == <<callVars, loopVars, netVars, panics>>

Waiting == {"register", "write", "wait", "unregister"}
Final   == {"notConnected", "failed", "answered", "timedOut"}
Frames  == {"result", "error"} \X Calls

TypeOK ==
  /\ pc \in [Calls -> {"idle"} \cup Waiting \cup Final]
  /\ via \in [Calls -> Connections \cup {Nobody}]
  /\ \A m \in Calls : via[m] \in Connections <=> pc[m] \notin {"idle", "notConnected"}
  /\ pending \subseteq Calls
  /\ timeouts \subseteq Calls
  /\ timer \in [Calls -> {"unset", "armed", "expired", "stopped", "done"}]
  /\ buffered \subseteq Calls
  /\ closed \subseteq Calls
  /\ mutex \in Connections \cup {Nobody}
  /\ reader \in [Connections -> {"unborn", "reading", "calling", "locking", "sending",
                                 "closing", "ended"}]
  /\ inHand \in [Connections -> Calls \cup {Nobody}]
  /\ \A c \in Connections :
       inHand[c] \in Calls <=> reader[c] \in {"calling", "locking", "sending"}
  /\ clients \in [ChargePoints -> Connections \cup {Nobody}]
  /\ link \in [Connections -> {"unborn", "up", "broken", "closed"}]
  /\ delivered \subseteq Calls
  /\ wire \in [Connections -> SUBSET Frames]
  /\ answers \in 0..MaxAnswers
  /\ replied \subseteq Calls \X Connections
  /\ panics \subseteq Calls

Init ==
  /\ pc = [m \in Calls |-> "idle"]
  /\ via = [m \in Calls |-> Nobody]
  /\ pending = {}
  /\ timeouts = {}
  /\ timer = [m \in Calls |-> "unset"]
  /\ buffered = {}
  /\ closed = {}
  /\ mutex = Nobody
  /\ reader = [c \in Connections |-> "unborn"]
  /\ inHand = [c \in Connections |-> Nobody]
  /\ clients = [p \in ChargePoints |-> Nobody]
  /\ link = [c \in Connections |-> "unborn"]
  /\ delivered = {}
  /\ wire = [c \in Connections |-> {}]
  /\ answers = 0
  /\ replied = {}
  /\ panics = {}

-----------------------------------------------------------------------------
(* SendCommand. *)

Goto(m, here, there) ==
  /\ pc[m] = here
  /\ pc' = [pc EXCEPT ![m] = there]

\* The connection is looked up in the clients map, without the mutex.
IsClient(p) == clients[p] # Nobody

AfterLookupUnchecked(m) == IF IsClient(Target[m]) THEN "register" ELSE "nil connection"

AfterLookup(m) == IF IsClient(Target[m]) THEN "register" ELSE "notConnected"

LookUp(m) ==
  /\ Goto(m, "idle", AfterLookup(m))
  /\ via' = [via EXCEPT ![m] = clients[Target[m]]]

\* A goroutine other than a read loop calls SendCommand.
Lookup(m) ==
  /\ Caller[m] = Nobody
  /\ LookUp(m)
  /\ UNCHANGED <<pending, timeouts, timer, buffered, closed>>
  /\ UNCHANGED <<loopVars, netVars, panics>>

\* The response channel has capacity one: the sender never has to wait for
\* the receiver.
CanSendUnbuffered(m) == pc[m] = "wait"

CanSend(m) == m \notin buffered

\* Is the id in pendingRequests?
AlwaysRegistered(m) == m \in Calls

Registered(m) == m \in pending

\* time.AfterFunc.
ArmTimer(m) == timer' = [timer EXCEPT ![m] = "armed"]

\* The two deletes that end the life of an id.
ForgetRequestOnly(m) == pending' = pending \ {m} /\ timeouts' = timeouts

Forget(m) ==
  /\ pending' = pending \ {m}
  /\ timeouts' = timeouts \ {m}

\* The critical section that fills both maps and arms the timer.
Register(m) ==
  /\ mutex = Nobody
  /\ Goto(m, "register", "write")
  /\ pending' = pending \cup {m}
  /\ timeouts' = timeouts \cup {m}
  /\ ArmTimer(m)
  /\ UNCHANGED <<via, buffered, closed, loopVars, netVars, panics>>

\* WriteJSON: the frame reaches the charge point before the write returns.  No
\* write deadline is set: for as long as the charge point does not read, this
\* need not happen.
Transmit(m) ==
  /\ pc[m] = "write"
  /\ link[via[m]] = "up"
  /\ m \notin delivered
  /\ delivered' = delivered \cup {m}
  /\ UNCHANGED <<callVars, loopVars, clients, link, wire, answers, replied, panics>>

\* The write returns no error once the frame is out; on a broken link the
\* kernel may still take the frame and lose it.
WriteSucceeds(m) ==
  /\ Goto(m, "write", "wait")
  /\ \/ m \in delivered
     \/ link[via[m]] = "broken"
  /\ UNCHANGED <<via, pending, timeouts, timer, buffered, closed>>
  /\ UNCHANGED <<loopVars, netVars, panics>>

\* The write fails, even after the frame went out.
WriteFails(m) ==
  /\ Goto(m, "write", "unregister")
  /\ link[via[m]] # "up"
  /\ UNCHANGED <<via, pending, timeouts, timer, buffered, closed>>
  /\ UNCHANGED <<loopVars, netVars, panics>>

\* timer.Stop() with its lookup in requestTimeouts: a callback that has already
\* started is not recalled.
StopNothing(m) == m \in Calls /\ timer' = timer

StopTimer(m) ==
  timer' = IF m \in timeouts /\ timer[m] = "armed"
           THEN [timer EXCEPT ![m] = "stopped"]
           ELSE timer

\* A read loop whose inline call returns goes back to reading.
InlineReturns(m) ==
  IF Caller[m] # Nobody
  THEN /\ reader' = [reader EXCEPT ![Caller[m]] = "reading"]
       /\ inHand' = [inHand EXCEPT ![Caller[m]] = Nobody]
  ELSE UNCHANGED <<reader, inHand>>

\* The clean-up after a failed write.
Unregister(m) ==
  /\ mutex = Nobody
  /\ Goto(m, "unregister", "failed")
  /\ Forget(m)
  /\ StopTimer(m)
  /\ InlineReturns(m)
  /\ UNCHANGED <<via, buffered, closed, mutex, netVars, panics>>

\* response, ok := <-responseChan with a value in the channel.
ReceiveAnswer(m) ==
  /\ m \in buffered
  /\ Goto(m, "wait", "answered")
  /\ buffered' = buffered \ {m}
  /\ InlineReturns(m)
  /\ UNCHANGED <<via, pending, timeouts, timer, closed, mutex, netVars, panics>>

ReceiveTimeoutUnchecked(m) ==
  /\ m \notin buffered
  /\ m \in closed
  /\ Goto(m, "wait", "answered")
  /\ InlineReturns(m)
  /\ UNCHANGED <<via, pending, timeouts, timer, buffered, closed>>
  /\ UNCHANGED <<mutex, netVars, panics>>

\* The same receive on an empty, closed channel: ok is false.
ReceiveTimeout(m) ==
  /\ m \notin buffered
  /\ m \in closed
  /\ Goto(m, "wait", "timedOut")
  /\ InlineReturns(m)
  /\ UNCHANGED <<via, pending, timeouts, timer, buffered, closed>>
  /\ UNCHANGED <<mutex, netVars, panics>>

-----------------------------------------------------------------------------
(* The timer callback: the runtime starts it in a goroutine of its own. *)

TimerExpires(m) ==
  /\ timer[m] = "armed"
  /\ timer' = [timer EXCEPT ![m] = "expired"]
  /\ UNCHANGED <<pc, via, pending, timeouts, buffered, closed>>
  /\ UNCHANGED <<loopVars, netVars, panics>>

TimerCallback(m) ==
  /\ timer[m] = "expired"
  /\ mutex = Nobody
  /\ timer' = [timer EXCEPT ![m] = "done"]
  /\ IF Registered(m)
     THEN /\ panics' = panics \cup ({m} \cap closed)
          /\ closed' = closed \cup {m}
          /\ Forget(m)
     ELSE UNCHANGED <<panics, closed, pending, timeouts>>
  /\ UNCHANGED <<pc, via, buffered, loopVars, netVars>>

-----------------------------------------------------------------------------
(* The read loop of a connection. *)

\* HandleWebSocket: the connection is stored, in the place of an older one, and
\* its read loop starts.
Connect(c) ==
  /\ link[c] = "unborn"
  /\ link' = [link EXCEPT ![c] = "up"]
  /\ clients' = [clients EXCEPT ![PointOf[c]] = c]
  /\ reader' = [reader EXCEPT ![c] = "reading"]
  /\ inHand' = [inHand EXCEPT ![c] = Nobody]
  /\ UNCHANGED <<callVars, mutex, delivered, wire, answers, replied, panics>>

\* A frame of type 3: HandleCommandResponse is called with its id.
ReadResult(c, m) ==
  /\ reader[c] = "reading"
  /\ link[c] \in {"up", "broken"}
  /\ <<"result", m>> \in wire[c]
  /\ wire' = [wire EXCEPT ![c] = @ \ {<<"result", m>>}]
  /\ reader' = [reader EXCEPT ![c] = "locking"]
  /\ inHand' = [inHand EXCEPT ![c] = m]
  /\ UNCHANGED <<callVars, mutex, clients, link, delivered, answers, replied, panics>>

\* A frame of type 4 is logged; the command manager never hears of it.
ReadError(c, m) ==
  /\ reader[c] = "reading"
  /\ link[c] \in {"up", "broken"}
  /\ <<"error", m>> \in wire[c]
  /\ wire' = [wire EXCEPT ![c] = @ \ {<<"error", m>>}]
  /\ UNCHANGED <<callVars, loopVars, clients, link, delivered, answers, replied, panics>>

ReadStatusInGoroutine(c, m) ==
  /\ reader[c] = "reading"
  /\ Caller[m] = c
  /\ LookUp(m)
  /\ UNCHANGED <<pending, timeouts, timer, buffered, closed>>
  /\ UNCHANGED <<loopVars, netVars, panics>>

\* A StatusNotification whose handler sends TriggerMessage and waits for it,
\* on the goroutine of the read loop.  The entry of its own connection may be
\* gone: another connection has replaced it, and was cleaned up.
ReadStatus(c, m) ==
  /\ reader[c] = "reading"
  /\ link[c] \in {"up", "broken"}
  /\ Caller[m] = c
  /\ LookUp(m)
  /\ IF IsClient(Target[m])
     THEN /\ reader' = [reader EXCEPT ![c] = "calling"]
          /\ inHand' = [inHand EXCEPT ![c] = m]
     ELSE UNCHANGED <<reader, inHand>>
  /\ UNCHANGED <<pending, timeouts, timer, buffered, closed>>
  /\ UNCHANGED <<mutex, netVars, panics>>

\* HandleCommandResponse takes the mutex and finds the id pending.
LockKnown(c) ==
  /\ reader[c] = "locking"
  /\ mutex = Nobody
  /\ Registered(inHand[c])
  /\ mutex' = c
  /\ reader' = [reader EXCEPT ![c] = "sending"]
  /\ UNCHANGED <<callVars, inHand, netVars, panics>>

\* ... or does not: "Received response for unknown message ID".
LockUnknown(c) ==
  /\ reader[c] = "locking"
  /\ mutex = Nobody
  /\ ~Registered(inHand[c])
  /\ reader' = [reader EXCEPT ![c] = "reading"]
  /\ inHand' = [inHand EXCEPT ![c] = Nobody]
  /\ UNCHANGED <<callVars, mutex, netVars, panics>>

\* The send, which may block with the mutex held, then close, both deletes,
\* the stop of the timer and the unlock.
SendResponse(c) ==
  LET m == inHand[c] IN
  /\ reader[c] = "sending"
  /\ CanSend(m)
  /\ panics' = panics \cup ({m} \cap closed)
  /\ buffered' = buffered \cup {m}
  /\ closed' = closed \cup {m}
  /\ Forget(m)
  /\ StopTimer(m)
  /\ mutex' = Nobody
  /\ reader' = [reader EXCEPT ![c] = "reading"]
  /\ inHand' = [inHand EXCEPT ![c] = Nobody]
  /\ UNCHANGED <<pc, via, netVars>>

\* ReadMessage fails; the deferred function first closes the connection.
ReadFails(c) ==
  /\ reader[c] = "reading"
  /\ link[c] = "broken"
  /\ reader' = [reader EXCEPT ![c] = "closing"]
  /\ link' = [link EXCEPT ![c] = "closed"]
  /\ wire' = [wire EXCEPT ![c] = {}]
  /\ UNCHANGED <<callVars, mutex, inHand, clients, delivered, answers, replied, panics>>

\* ... then deletes the entry of its charge point, under the mutex, whichever
\* connection is there by now.
RemoveClient(c) ==
  /\ reader[c] = "closing"
  /\ mutex = Nobody
  /\ reader' = [reader EXCEPT ![c] = "ended"]
  /\ clients' = [clients EXCEPT ![PointOf[c]] = Nobody]
  /\ UNCHANGED <<callVars, mutex, inHand, link, delivered, wire, answers, replied, panics>>

-----------------------------------------------------------------------------
(* The environment: charge points and the network. *)

\* A charge point answers a Call it received, in any order, with a CallResult
\* or a CallError, and may repeat itself.  It answers on any connection that it
\* has: on the one the Call came on, or on a newer one.
Answer(m, c, kind) ==
  /\ m \in delivered
  /\ link[c] = "up" /\ PointOf[c] = Target[m]
  /\ answers < MaxAnswers
  /\ <<kind, m>> \notin wire[c]
  /\ answers' = answers + 1
  /\ wire' = [wire EXCEPT ![c] = @ \cup {<<kind, m>>}]
  /\ replied' = IF kind = "result" THEN replied \cup {<<m, c>>} ELSE replied
  /\ UNCHANGED <<callVars, loopVars, clients, link, delivered, panics>>

Break(c) ==
  /\ link[c] = "up"
  /\ Cardinality({d \in Connections : link[d] \in {"broken", "closed"}}) < MaxBreaks
  /\ link' = [link EXCEPT ![c] = "broken"]
  /\ UNCHANGED <<callVars, loopVars, clients, delivered, wire, answers, replied, panics>>

\* No goroutine is inside SendCommand, a timer callback or a critical section.
Quiescent ==
  /\ \A m \in Calls : pc[m] \in {"idle"} \cup Final /\ timer[m] # "expired"
  /\ mutex = Nobody
  /\ \A c \in Connections : reader[c] \in {"unborn", "reading", "ended"}
  /\ UNCHANGED vars

\* The steps of the goroutine that calls SendCommand, but for the frame that it
\* writes.
CallerStep(m) ==
  \/ Register(m)
  \/ WriteSucceeds(m)
  \/ WriteFails(m)
  \/ Unregister(m)
  \/ ReceiveAnswer(m)
  \/ ReceiveTimeout(m)

CallStep(m) == CallerStep(m) \/ Transmit(m) \/ TimerCallback(m)

\* HandleCommandResponse.
ResponseStep(c) == LockKnown(c) \/ LockUnknown(c) \/ SendResponse(c)

ReaderStep(c) ==
  \/ \E m \in Calls : ReadResult(c, m) \/ ReadError(c, m)
  \/ ResponseStep(c)
  \/ ReadFails(c)
  \/ RemoveClient(c)

Next ==
  \/ \E m \in Calls : Lookup(m) \/ CallStep(m) \/ TimerExpires(m)
  \/ \E c \in Connections : Connect(c) \/ ReaderStep(c) \/ Break(c)
  \/ \E c \in Connections, m \in Calls : ReadStatus(c, m)
  \/ \E m \in Calls, c \in Connections, kind \in {"result", "error"} : Answer(m, c, kind)
  \/ Quiescent

Spec == Init /\ [][Next]_vars

\* What the Go runtime gives every goroutine: one that stays ready goes on, and
\* an armed timer fires.  A write returns when the frame is out, or in the end
\* when the connection is not up.  Nothing is assumed of the charge point, the
\* network or new calls: on a connection that is up a write may block for ever
\* (Transmit).
Fairness ==
  /\ \A m \in Calls : WF_vars(CallerStep(m)) /\ WF_vars(TimerExpires(m) \/ TimerCallback(m))
  /\ \A c \in Connections : WF_vars(ResponseStep(c))

FairSpec == Spec /\ Fairness

-----------------------------------------------------------------------------
(* Safety. *)

\* No goroutine ever panics on a response channel: neither the timer callback
\* nor the read loop closes a channel that the other has closed, and nothing
\* is sent on a closed one (the exists checks of commands.go:69 and :132).
NoChannelPanic == panics = {}

\* A caller blocked on its channel can always be woken: the channel is already
\* closed, or the id is still registered and its timer is running.  Losing a
\* timer or deleting an id without closing its channel would block the caller
\* for ever (commands.go:106).
WaiterHasWaker ==
  \A m \in Calls : pc[m] = "wait" =>
    \/ m \in closed
    \/ m \in pending /\ timer[m] \in {"armed", "expired"}

\* A call that has returned leaves nothing behind in either map, so the maps
\* are bounded by the calls in progress, and the two maps always agree.
NoLeak ==
  /\ pending = timeouts
  /\ \A m \in pending : pc[m] \in {"write", "wait", "unregister"}

\* A call succeeds only with a CallResult that the charge point sent for this
\* very id, whatever the order of answers, repeats and timeouts.
AnswerIsGenuine ==
  \A m \in Calls : pc[m] = "answered" => \E c \in Connections : <<m, c>> \in replied

\* While a handler waits for a command of its own, on the goroutine of the read
\* loop, nothing reads its connection (handlers_db.go:398 and :1033): such a
\* call is answered only if the charge point has opened another connection and
\* answered there.  While it has no other, no such call is answered.
InlineNeedsOtherLoop ==
  \A m \in Calls : Caller[m] # Nobody /\ pc[m] = "answered" =>
    \E c \in Connections \ {Caller[m]} : <<m, c>> \in replied

\* The mutex is held across a channel send only while the channel has room, so
\* HandleCommandResponse never blocks the command manager.
SendNeverBlocks ==
  \A c \in Connections : mutex = c => CanSend(inHand[c])

(* Action property. *)

OutcomeKept ==
  \A m \in Calls : pc[m] \in Final =>
    pc'[m] = pc[m] /\ (m \in pending' <=> m \in pending)

\* A call that has returned keeps its outcome: a late answer or a late timer
\* callback changes neither the outcome nor the maps' view of that call.
OutcomeIsFinal == [][OutcomeKept]_vars

\* The read loop of c has taken in the CallResult of m and is done with it, or
\* none has come there.
CaughtUp(c, m) == reader[c] = "reading" /\ <<"result", m>> \notin wire[c]

\* A timeout is 30 s and a read takes milliseconds: the timers that matter fire
\* when the read loops have caught up.  Such a call never times out once the
\* charge point has sent its CallResult on a connection that is up
\* (commands.go:133): between the reading of the frame and the stop of the
\* timer nothing is lost, and a repeated answer re-arms nothing.
TimeoutMeansNoAnswer ==
  [][\A m \in Calls, c \in Connections :
        timer[m] = "armed" /\ timer'[m] = "expired" /\ link[c] = "up" /\ CaughtUp(c, m)
          => <<m, c>> \notin replied]_vars

(* Liveness. *)

\* Every command that found a client returns to its caller, whatever the charge
\* point answers and whenever connections come and break, or is still in its
\* write.  The write alone may last: the 30 s run from before it (commands.go:64)
\* but end only the wait after it, and it has no deadline (commands.go:90).
EveryCallReturns ==
  \A m \in Calls :
    pc[m] \in {"register", "wait", "unregister"} ~> pc[m] \in Final \cup {"write"}

(* Refinement of RemoteCall. *)

AbstractStatus ==
  [m \in Calls |-> CASE pc[m] = "idle" -> "idle"
                     [] pc[m] = "notConnected" -> "refused"
                     [] pc[m] \in Waiting -> "asked"
                     [] pc[m] = "answered" -> "succeeded"
                     [] OTHER -> "gaveUp"]

AbstractReplied == {m \in Calls : \E c \in Connections : <<m, c>> \in replied}

Abstract == INSTANCE RemoteCall WITH status <- AbstractStatus, replied <- AbstractReplied

\* The maps, channels, timers and connections of SendCommand implement a plain
\* remote call: one outcome per call, a success only after a reply.
ImplementsRemoteCall == Abstract!Spec

(* What the code does not keep. *)

\* Has a goroutine of the server anything left to do?
ServerCanStep ==
  \/ \E m \in Calls : ENABLED CallStep(m)
  \/ \E c \in Connections : ENABLED ReaderStep(c)

\* The timeout is 30 s and every other step takes milliseconds: a timer that
\* matters fires when no goroutine of the server has anything left to do.
FiresIdle(m) == timer[m] = "armed" /\ timer'[m] = "expired" /\ ~ServerCanStep

\* Without asking that the read loop be free (a call of its own may hold it up,
\* handlers_db.go:1033): whoever waits for a CallResult that has been
\* sent gets it ("Send the response", commands.go:133).
SentAnswerWins ==
  [][\A m \in Calls, c \in Connections :
        FiresIdle(m) /\ link[c] = "up" => <<m, c>> \notin replied]_vars

\* Every command that found a client returns, within 30 s of being logged even
\* ("command timed out", commands.go:108): not when its write blocks.
EveryWriteReturns ==
  \A m \in Calls : pc[m] = "register" ~> pc[m] \in Final

\* A connection of gorilla/websocket supports one writer at a time, but nothing
\* keeps two calls to a charge point from being in conn.WriteJSON (commands.go:90)
\* at once; the read loop writes its responses there, too (handlers_db.go:644).
OneWriterAtATime ==
  \A m, n \in delivered :
    pc[m] = "write" /\ pc[n] = "write" /\ via[m] = via[n] => m = n

=============================================================================
