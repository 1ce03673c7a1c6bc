--------------------------- MODULE MessageLogger ---------------------------
(***************************************************************************)
(* The raw message log of ocpp/db_message_logger.go.                       *)
(*                                                                         *)
(* Any goroutine calls LogRawMessage.  The messages of highest priority    *)
(* are written to the database at once; the others, and those whose write  *)
(* failed, go to a queue in memory.  A ticker flushes the queue every 2 s  *)
(* and a queue that reaches its limit starts a goroutine that flushes it.  *)
(* A flush takes the queue under the mutex and writes it without it.       *)
(*                                                                         *)
(* One message is one call of LogRawMessage.  The queue and the batches    *)
(* are sets: rows carry the time of the call and are read back by it, so   *)
(* the order of the writes shows nowhere.  The two critical sections are   *)
(* atomic.  A write that reports an error has written nothing.             *)
(*                                                                         *)
(* FullTooLate, ResetAfterSaving, StartFlushOfNothing and                  *)
(* SaveOneFailsAndStops are the definitions that follow them with a bug.   *)
(***************************************************************************)
EXTENDS Naturals, FiniteSets

CONSTANTS
  Messages,  \* calls of LogRawMessage
  Urgent,    \* received BootNotification, Heartbeat and StatusNotification
  Flushers,  \* goroutines that may run flushQueue at a time (a bound), with ...
  Ticker,    \* ... the one of periodicFlush
  MaxQueue   \* maxQueueSize

ASSUME UrgentAssumption == Urgent \subseteq Messages
ASSUME TickerAssumption == Ticker \in Flushers
ASSUME QueueAssumption  == MaxQueue \in Nat \ {0}

VARIABLES
  call,     \* call[m]: where the call of LogRawMessage for m is
  queue,    \* messageQueue
  flusher,  \* flusher[f]: where goroutine f is in flushQueue
  batch,    \* batch[f]: what f still has to write (messagesToSave)
  rows,     \* rows[m]: the rows of the database that hold m
  dropped,  \* messages whose write by a flush failed
  up        \* the process is running

vars == <<call, queue, flusher, batch, rows, dropped, up>>

TypeOK ==
  /\ call \in [Messages -> {"new", "saving", "queueing", "returned"}]
  /\ queue \subseteq Messages
  /\ flusher \in [Flushers -> {"idle", "called", "saving"}]
  /\ batch \in [Flushers -> SUBSET Messages]
  /\ \A f \in Flushers : flusher[f] = "saving" <=> batch[f] # {}
  /\ rows \in [Messages -> Nat]
  /\ dropped \subseteq Messages
  /\ up \in {"yes", "no"}

Init ==
  /\ call = [m \in Messages |-> "new"]
  /\ queue = {}
  /\ flusher = [f \in Flushers |-> "idle"]
  /\ batch = [f \in Flushers |-> {}]
  /\ rows = [m \in Messages |-> 0]
  /\ dropped = {}
  /\ up = "yes"

-----------------------------------------------------------------------------
(* LogRawMessage. *)

LogRawMessage(m) ==
  /\ up = "yes"
  /\ call[m] = "new"
  /\ call' = [call EXCEPT ![m] = IF m \in Urgent THEN "saving" ELSE "queueing"]
  /\ UNCHANGED <<queue, flusher, batch, rows, dropped, up>>

DirectSave(m) ==
  /\ up = "yes"
  /\ call[m] = "saving"
  /\ call' = [call EXCEPT ![m] = "returned"]
  /\ rows' = [rows EXCEPT ![m] = @ + 1]
  /\ UNCHANGED <<queue, flusher, batch, dropped, up>>

\* Fall back to the queue on error.
DirectSaveFails(m) ==
  /\ up = "yes"
  /\ call[m] = "saving"
  /\ call' = [call EXCEPT ![m] = "queueing"]
  /\ UNCHANGED <<queue, flusher, batch, rows, dropped, up>>

FullTooLate(q) == Cardinality(q) > MaxQueue

Full(q) == Cardinality(q) >= MaxQueue

\* A call of flushQueue that starts, in a new goroutine or on a tick.
CallFlush(f) ==
  /\ flusher[f] = "idle"
  /\ flusher' = [flusher EXCEPT ![f] = "called"]

\* queueMessage: append, and start a flush when the queue is full.
QueueMessage(m) ==
  /\ up = "yes"
  /\ call[m] = "queueing"
  /\ call' = [call EXCEPT ![m] = "returned"]
  /\ queue' = queue \cup {m}
  /\ \/ /\ Full(queue')
        /\ \E f \in Flushers \ {Ticker} : CallFlush(f)
     \/ /\ ~Full(queue')
        /\ UNCHANGED flusher
  /\ UNCHANGED <<batch, rows, dropped, up>>

-----------------------------------------------------------------------------
(* periodicFlush and flushQueue. *)

\* A tick that comes while the ticker's goroutine is flushing is dropped.
Tick ==
  /\ up = "yes"
  /\ CallFlush(Ticker)
  /\ UNCHANGED <<call, queue, batch, rows, dropped, up>>

\* The queue is not locked between the copy and the reset.
ResetAfterSaving(f) == batch' = [batch EXCEPT ![f] = queue] /\ UNCHANGED queue

TakeQueue(f) ==
  /\ batch' = [batch EXCEPT ![f] = queue]
  /\ queue' = {}

StartFlushOfNothing(f) ==
  /\ up = "yes"
  /\ flusher[f] = "called"
  /\ TakeQueue(f)
  /\ flusher' = [flusher EXCEPT ![f] = "saving"]
  /\ UNCHANGED <<call, rows, dropped, up>>

\* The critical section of flushQueue; it returns at once on an empty queue.
StartFlush(f) ==
  /\ up = "yes"
  /\ flusher[f] = "called"
  /\ TakeQueue(f)
  /\ flusher' = [flusher EXCEPT ![f] = IF queue = {} THEN "idle" ELSE "saving"]
  /\ UNCHANGED <<call, rows, dropped, up>>

\* What is left of a batch after one of its messages; the last ends the flush.
Written(f, m) ==
  /\ flusher[f] = "saving"
  /\ m \in batch[f]
  /\ batch' = [batch EXCEPT ![f] = @ \ {m}]
  /\ flusher' = [flusher EXCEPT ![f] = IF batch[f] = {m} THEN "idle" ELSE "saving"]

SaveOne(f, m) ==
  /\ up = "yes"
  /\ Written(f, m)
  /\ rows' = [rows EXCEPT ![m] = @ + 1]
  /\ UNCHANGED <<call, queue, dropped, up>>

SaveOneFailsAndStops(f, m) ==
  /\ up = "yes"
  /\ flusher[f] = "saving"
  /\ m \in batch[f]
  /\ batch' = [batch EXCEPT ![f] = {}]
  /\ flusher' = [flusher EXCEPT ![f] = "idle"]
  /\ dropped' = dropped \cup {m}
  /\ UNCHANGED <<call, queue, rows, up>>

\* An error is logged and the message is gone; the others are still written.
SaveOneFails(f, m) ==
  /\ up = "yes"
  /\ Written(f, m)
  /\ dropped' = dropped \cup {m}
  /\ UNCHANGED <<call, queue, rows, up>>

-----------------------------------------------------------------------------
\* setupGracefulShutdown: Shutdown of the API server and os.Exit.  Nothing
\* calls Close, the one function that would flush the queue.
Exit ==
  /\ up = "yes"
  /\ up' = "no"
  /\ UNCHANGED <<call, queue, flusher, batch, rows, dropped>>

Exited == up = "no" /\ UNCHANGED vars

Next ==
  \/ \E m \in Messages :
       LogRawMessage(m) \/ DirectSave(m) \/ DirectSaveFails(m) \/ QueueMessage(m)
  \/ Tick
  \/ \E f \in Flushers : StartFlush(f)
  \/ \E f \in Flushers, m \in Messages : SaveOne(f, m) \/ SaveOneFails(f, m)
  \/ Exit
  \/ Exited

Spec == Init /\ [][Next]_vars

\* Goroutines run, writes return with or without an error, the ticker ticks.
Fairness ==
  /\ \A m \in Messages : WF_vars(QueueMessage(m))
  /\ \A m \in Messages : WF_vars(DirectSave(m) \/ DirectSaveFails(m))
  /\ WF_vars(Tick)
  /\ \A f \in Flushers : WF_vars(StartFlush(f))
  /\ \A f \in Flushers, m \in Messages : WF_vars(SaveOne(f, m) \/ SaveOneFails(f, m))

FairSpec == Spec /\ Fairness

-----------------------------------------------------------------------------
(* Safety. *)

\* The places a message that was logged may be in.
Holders(m) ==
  {f \in Flushers : m \in batch[f]}
    \cup (IF m \in queue THEN {"queue"} ELSE {})
    \cup (IF m \in dropped THEN {"dropped"} ELSE {})
    \cup (IF rows[m] > 0 THEN {"database"} ELSE {})

\* However calls, flushes and failed writes interleave, a message whose
\* LogRawMessage has returned is in exactly one place (the queue, the batch of
\* one flush, one row of the database, or the log line of a failed write) and
\* no message is in any place before that: none vanishes between the reset of
\* the queue and the writes, none is written twice.
Conservation ==
  \A m \in Messages :
    /\ rows[m] <= 1
    /\ IF call[m] = "returned"
       THEN \E h \in Flushers \cup {"queue", "dropped", "database"} : Holders(m) = {h}
       ELSE Holders(m) = {}

\* A queue at its limit never waits for the ticker: a flush has been called
\* that has not taken the queue yet (db_message_logger.go:154).
FullQueueIsFlushed ==
  Cardinality(queue) >= MaxQueue => \E f \in Flushers : flusher[f] = "called"

(* Liveness. *)

\* Every logged message gets to the database unless its write fails or the
\* process ends first.
EveryMessageSettles ==
  \A m \in Messages :
    call[m] = "returned" ~> (rows[m] = 1 \/ m \in dropped \/ up = "no")

(* What the code does not keep. *)

\* A graceful shutdown (main.go:128) loses no message that was logged: "Close
\* flushes any pending messages" (db_message_logger.go:159), but nobody calls it.
ShutdownKeepsTheLog ==
  up = "no" => \A m \in Messages : call[m] = "returned" => rows[m] = 1 \/ m \in dropped

=============================================================================
