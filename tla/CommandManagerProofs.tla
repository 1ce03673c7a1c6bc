------------------------ MODULE CommandManagerProofs ------------------------
(***************************************************************************)
(* Proofs about CommandManager, for any calls, charge points, connections, *)
(* targets and bounds.  IInv is the inductive invariant behind all of      *)
(* them.                                                                   *)
(***************************************************************************)
EXTENDS CommandManager, TLAPS

\* A registered id has a live channel, a caller on its way to it or in it, and
\* a timer that has not been stopped.
RegistryInv ==
  /\ pending = timeouts
  /\ \A m \in pending :
       /\ m \notin closed
       /\ m \notin buffered
       /\ pc[m] \in {"write", "wait", "unregister"}
       /\ timer[m] \in {"armed", "expired"}
  /\ \A m \in Calls : timer[m] = "armed" => m \in pending

\* Where a call is tells what became of its channel.
CallInv ==
  \A m \in Calls :
    /\ pc[m] \in {"idle", "register"} => m \notin closed /\ m \notin buffered
    /\ pc[m] \in {"write", "wait"} => m \in pending \/ m \in closed
    /\ m \in buffered \/ pc[m] = "answered" => m \in AbstractReplied
    /\ m \in delivered => pc[m] \notin {"idle", "register", "notConnected"}

\* The mutex is held exactly by a reader that is about to send, and what a
\* reader has in hand came over its connection.
ReaderInv ==
  \A c \in Connections :
    /\ mutex = c <=> reader[c] = "sending"
    /\ reader[c] = "sending" => inHand[c] \in pending
    /\ reader[c] \in {"locking", "sending"} => <<inHand[c], c>> \in replied

\* A connection that was never opened has no read loop, and nothing came over it.
BirthInv ==
  \A c \in Connections : link[c] = "unborn" =>
    reader[c] = "unborn" /\ \A m \in Calls : <<m, c>> \notin replied

\* Every response on its way was sent on the connection it is on, for a Call
\* that was received.
ProvenanceInv ==
  /\ \A c \in Connections, m \in Calls :
       <<"result", m>> \in wire[c] => <<m, c>> \in replied
  /\ \A c \in Connections, m \in Calls : <<m, c>> \in replied => m \in delivered

\* A CallResult for m was sent, on another connection than the one whose read
\* loop makes the call.
RepliedElsewhere(m) == \E c \in Connections \ {Caller[m]} : <<m, c>> \in replied

\* A call made by a read loop keeps that loop busy, so that only another loop
\* can read its answer.
InlineInv ==
  \A m \in Calls : Caller[m] # Nobody =>
    /\ pc[m] \in Waiting => reader[Caller[m]] = "calling" /\ inHand[Caller[m]] = m
    /\ m \in buffered \/ pc[m] = "answered" => RepliedElsewhere(m)

IInv ==
  /\ TypeOK /\ RegistryInv /\ CallInv /\ ReaderInv /\ BirthInv /\ ProvenanceInv /\ InlineInv
  /\ NoChannelPanic

-----------------------------------------------------------------------------
USE PointAssumption, TargetAssumption, CallerAssumption, BoundAssumption, NobodyAssumption

\* No step leaves the types.
LEMMA TypeStep == TypeOK /\ [Next]_vars => TypeOK'
<1> SUFFICES ASSUME TypeOK, [Next]_vars PROVE TypeOK'
  OBVIOUS
<1> USE DEF TypeOK, Waiting, Final, Frames, callVars, loopVars, netVars
<1>1. ASSUME NEW m \in Calls, Lookup(m) PROVE TypeOK'
  BY <1>1 DEF Lookup, LookUp, Goto, AfterLookup, IsClient
<1>2. ASSUME NEW m \in Calls, Register(m) \/ Unregister(m) PROVE TypeOK'
  <2>1. CASE Register(m)
    BY <2>1 DEF Register, Goto, ArmTimer
  <2>2. CASE Unregister(m)
    BY <2>2 DEF Unregister, Goto, Forget, StopTimer, InlineReturns
  <2> QED
    BY <1>2, <2>1, <2>2
<1>3. ASSUME NEW m \in Calls, Transmit(m) \/ WriteSucceeds(m) \/ WriteFails(m)
      PROVE TypeOK'
  BY <1>3 DEF Transmit, WriteSucceeds, WriteFails, Goto
<1>4. ASSUME NEW m \in Calls, ReceiveAnswer(m) \/ ReceiveTimeout(m) PROVE TypeOK'
  <2>1. CASE ReceiveAnswer(m)
    BY <2>1 DEF ReceiveAnswer, Goto, InlineReturns
  <2>2. CASE ReceiveTimeout(m)
    BY <2>2 DEF ReceiveTimeout, Goto, InlineReturns
  <2> QED
    BY <1>4, <2>1, <2>2
<1>5. ASSUME NEW m \in Calls, TimerExpires(m) \/ TimerCallback(m) PROVE TypeOK'
  BY <1>5 DEF TimerExpires, TimerCallback, Forget
<1>6. ASSUME NEW c \in Connections, NEW m \in Calls,
             ReadResult(c, m) \/ ReadError(c, m) \/ ReadStatus(c, m)
      PROVE TypeOK'
  <2>1. CASE ReadResult(c, m)
    BY <2>1 DEF ReadResult
  <2>2. CASE ReadError(c, m)
    BY <2>2 DEF ReadError
  <2>3. CASE ReadStatus(c, m)
    BY <2>3 DEF ReadStatus, LookUp, Goto, AfterLookup, IsClient
  <2> QED
    BY <1>6, <2>1, <2>2, <2>3
<1>7. ASSUME NEW c \in Connections, LockKnown(c) \/ LockUnknown(c) PROVE TypeOK'
  BY <1>7 DEF LockKnown, LockUnknown
<1>8. ASSUME NEW c \in Connections, SendResponse(c) PROVE TypeOK'
  BY <1>8 DEF SendResponse, Forget, StopTimer
<1>9. ASSUME NEW c \in Connections, ReadFails(c) \/ RemoveClient(c) \/ Break(c) \/ Connect(c)
      PROVE TypeOK'
  <2>1. CASE ReadFails(c)
    BY <2>1 DEF ReadFails
  <2>2. CASE RemoveClient(c)
    BY <2>2 DEF RemoveClient
  <2>3. CASE Break(c)
    BY <2>3 DEF Break
  <2>4. CASE Connect(c)
    BY <2>4 DEF Connect
  <2> QED
    BY <1>9, <2>1, <2>2, <2>3, <2>4
<1>10. ASSUME NEW m \in Calls, NEW c \in Connections, NEW kind \in {"result", "error"},
             Answer(m, c, kind)
       PROVE TypeOK'
  BY <1>10 DEF Answer
<1>11. CASE Quiescent \/ UNCHANGED vars
  BY <1>11 DEF Quiescent, vars
<1> QED
  BY <1>1, <1>2, <1>3, <1>4, <1>5, <1>6, <1>7, <1>8, <1>9, <1>10, <1>11
  DEF Next, CallStep, CallerStep, ReaderStep, ResponseStep

\* Every reachable state is well typed.
THEOREM TypeCorrect == Spec => []TypeOK
<1>1. Init => TypeOK
  BY SMTT(30) DEF Init, TypeOK, Waiting, Final, Frames
<1>2. TypeOK /\ [Next]_vars => TypeOK'
  BY TypeStep
<1> QED
  BY <1>1, <1>2, PTL DEF Spec

\* What a charge point has sent stays sent.
LEMMA RepliesGrow ==
  [Next]_vars =>
    /\ replied \subseteq replied'
    /\ \A m \in AbstractReplied : m \in AbstractReplied'
    /\ \A m \in Calls : RepliedElsewhere(m) => RepliedElsewhere(m)'
<1> SUFFICES ASSUME [Next]_vars PROVE replied \subseteq replied'
  BY DEF AbstractReplied, RepliedElsewhere
<1> USE DEF callVars, loopVars, netVars
<1>1. ASSUME NEW m \in Calls, Lookup(m) \/ CallStep(m) \/ TimerExpires(m)
      PROVE UNCHANGED replied
  BY <1>1 DEF Lookup, CallStep, CallerStep, Register, Transmit, WriteSucceeds, WriteFails,
     Unregister, ReceiveAnswer, ReceiveTimeout, TimerCallback, TimerExpires
<1>2. ASSUME NEW c \in Connections, Connect(c) \/ ReaderStep(c) \/ Break(c)
      PROVE UNCHANGED replied
  BY <1>2 DEF Connect, ReaderStep, ResponseStep, ReadResult, ReadError, LockKnown,
     LockUnknown, SendResponse, ReadFails, RemoveClient, Break
<1>3. ASSUME NEW c \in Connections, NEW m \in Calls, ReadStatus(c, m)
      PROVE UNCHANGED replied
  BY <1>3 DEF ReadStatus
<1>4. ASSUME NEW m \in Calls, NEW c \in Connections, NEW kind \in {"result", "error"},
             Answer(m, c, kind)
      PROVE replied \subseteq replied'
  BY <1>4 DEF Answer
<1>5. CASE Quiescent \/ UNCHANGED vars
  BY <1>5 DEF Quiescent, vars
<1> QED
  BY <1>1, <1>2, <1>3, <1>4, <1>5 DEF Next

\* While the mutex is free, no reader is about to send.
LEMMA FreeMutex ==
  ReaderInv /\ mutex = Nobody => \A c \in Connections : reader[c] # "sending"
BY NobodyAssumption DEF ReaderInv

\* The goroutine of a call that has not returned is not reading its connection.
LEMMA InlineBusy ==
  ASSUME IInv, NEW m \in Calls, pc[m] \in Waiting, Caller[m] # Nobody
  PROVE  /\ Caller[m] \in Connections
         /\ reader[Caller[m]] = "calling"
         /\ link[Caller[m]] # "unborn"
BY DEF IInv, InlineInv, BirthInv

\* Nothing happens on a connection before it is opened.
LEMMA BirthStep == IInv /\ [Next]_vars => BirthInv'
<1> SUFFICES ASSUME IInv, [Next]_vars, NEW d \in Connections, link'[d] = "unborn"
             PROVE reader'[d] = "unborn" /\ \A n \in Calls : <<n, d>> \notin replied'
  BY DEF BirthInv
<1> DEFINE Goal == reader'[d] = "unborn" /\ \A n \in Calls : <<n, d>> \notin replied'
<1>a. TypeOK
  BY DEF IInv
<1>b. link[d] = "unborn" => reader[d] = "unborn" /\ \A n \in Calls : <<n, d>> \notin replied
  BY DEF IInv, BirthInv
<1> USE <1>a, <1>b DEF TypeOK, Waiting, callVars, loopVars, netVars
<1>1. ASSUME NEW m \in Calls, Lookup(m) \/ CallStep(m) \/ TimerExpires(m) PROVE Goal
  <2>1. CASE Unregister(m) \/ ReceiveAnswer(m) \/ ReceiveTimeout(m)
    <3>1. pc[m] \in Waiting /\ InlineReturns(m) /\ UNCHANGED <<link, replied>>
      BY <2>1 DEF Unregister, ReceiveAnswer, ReceiveTimeout, Goto
    <3> QED
      BY <3>1, InlineBusy DEF InlineReturns
  <2>2. CASE ~(Unregister(m) \/ ReceiveAnswer(m) \/ ReceiveTimeout(m))
    BY <1>1, <2>2 DEF Lookup, CallStep, CallerStep, Register, Transmit, WriteSucceeds,
       WriteFails, TimerCallback, TimerExpires
  <2> QED
    BY <2>1, <2>2
<1>2. ASSUME NEW c \in Connections, Connect(c) \/ ReaderStep(c) \/ Break(c) PROVE Goal
  <2>1. CASE Connect(c) \/ Break(c)
    BY <2>1 DEF Connect, Break
  <2>2. CASE ResponseStep(c)
    BY <2>2 DEF ResponseStep, LockKnown, LockUnknown, SendResponse
  <2>3. CASE ReadFails(c) \/ RemoveClient(c)
    BY <2>3 DEF ReadFails, RemoveClient
  <2>4. ASSUME NEW m \in Calls, ReadResult(c, m) \/ ReadError(c, m) PROVE Goal
    BY <2>4 DEF ReadResult, ReadError
  <2> QED
    BY <1>2, <2>1, <2>2, <2>3, <2>4 DEF ReaderStep
<1>3. ASSUME NEW c \in Connections, NEW m \in Calls, ReadStatus(c, m) PROVE Goal
  BY <1>3 DEF ReadStatus
<1>4. ASSUME NEW m \in Calls, NEW c \in Connections, NEW kind \in {"result", "error"},
             Answer(m, c, kind)
      PROVE Goal
  BY <1>4 DEF Answer
<1>5. ASSUME Quiescent \/ UNCHANGED vars PROVE Goal
  BY <1>5 DEF Quiescent, vars
<1> HIDE <1>a, <1>b DEF Goal, TypeOK, Waiting, callVars, loopVars, netVars
<1>6. Goal
  BY <1>1, <1>2, <1>3, <1>4, <1>5 DEF Next
<1> QED
  BY <1>6 DEF Goal

\* IInv is inductive.
LEMMA InvariantStep == IInv /\ [Next]_vars => IInv'
<1> DEFINE Rest ==
      RegistryInv /\ CallInv /\ ReaderInv /\ ProvenanceInv /\ InlineInv /\ NoChannelPanic
<1> SUFFICES ASSUME IInv, [Next]_vars PROVE Rest'
  BY TypeStep, BirthStep DEF IInv
<1>a. TypeOK /\ TypeOK'
  BY TypeStep DEF IInv
<1>b. /\ \A m \in AbstractReplied : m \in AbstractReplied'
      /\ \A m \in Calls : RepliedElsewhere(m) => RepliedElsewhere(m)'
  BY RepliesGrow
<1> USE <1>a, <1>b DEF IInv, RegistryInv, CallInv, ReaderInv, ProvenanceInv, InlineInv,
        NoChannelPanic, TypeOK, Waiting, Final, callVars, loopVars, netVars
<1>1. ASSUME NEW m \in Calls, Lookup(m) PROVE Rest'
  BY <1>1 DEF Lookup, LookUp, Goto, AfterLookup, IsClient
<1>2. ASSUME NEW m \in Calls, Register(m) PROVE Rest'
  BY <1>2 DEF Register, Goto, ArmTimer
<1>3. ASSUME NEW m \in Calls, Transmit(m) PROVE Rest'
  BY <1>3 DEF Transmit
<1>4. ASSUME NEW m \in Calls, WriteSucceeds(m) PROVE Rest'
  BY <1>4 DEF WriteSucceeds, Goto
<1>5. ASSUME NEW m \in Calls, WriteFails(m) PROVE Rest'
  BY <1>5 DEF WriteFails, Goto
<1>6. ASSUME NEW m \in Calls, Unregister(m) PROVE Rest'
  <2> USE <1>6 DEF Unregister, Goto, Forget, StopTimer, InlineReturns
  <2>1. RegistryInv' /\ NoChannelPanic'
    OBVIOUS
  <2>2. CallInv'
    OBVIOUS
  <2>3. ReaderInv'
    OBVIOUS
  <2>4. ProvenanceInv'
    OBVIOUS
  <2>5. InlineInv'
    OBVIOUS
  <2> QED
    BY <2>1, <2>2, <2>3, <2>4, <2>5
<1>7. ASSUME NEW m \in Calls, ReceiveAnswer(m) PROVE Rest'
  <2>0. Caller[m] # Nobody =>
          /\ reader[Caller[m]] = "calling" /\ mutex # Caller[m]
          /\ reader' = [reader EXCEPT ![Caller[m]] = "reading"]
          /\ inHand' = [inHand EXCEPT ![Caller[m]] = Nobody]
    <3>1. pc[m] \in Waiting
      BY <1>7 DEF ReceiveAnswer, Goto
    <3>2. Caller[m] # Nobody => reader[Caller[m]] = "calling" /\ Caller[m] \in Connections
      BY <3>1, InlineBusy
    <3>3. Caller[m] # Nobody => mutex # Caller[m]
      BY <3>2
    <3> QED
      BY <1>7, <3>2, <3>3 DEF ReceiveAnswer, InlineReturns
  <2> USE <1>7 DEF ReceiveAnswer, Goto, InlineReturns
  <2>1. RegistryInv' /\ NoChannelPanic'
    OBVIOUS
  <2>2. CallInv'
    OBVIOUS
  <2>3. ReaderInv'
    BY <2>0
  <2>4. ProvenanceInv'
    OBVIOUS
  <2>5. InlineInv'
    OBVIOUS
  <2> QED
    BY <2>1, <2>2, <2>3, <2>4, <2>5
<1>8. ASSUME NEW m \in Calls, ReceiveTimeout(m) PROVE Rest'
  <2>0. Caller[m] # Nobody =>
          /\ reader[Caller[m]] = "calling" /\ mutex # Caller[m]
          /\ reader' = [reader EXCEPT ![Caller[m]] = "reading"]
          /\ inHand' = [inHand EXCEPT ![Caller[m]] = Nobody]
    <3>1. pc[m] \in Waiting
      BY <1>8 DEF ReceiveTimeout, Goto
    <3>2. Caller[m] # Nobody => reader[Caller[m]] = "calling" /\ Caller[m] \in Connections
      BY <3>1, InlineBusy
    <3>3. Caller[m] # Nobody => mutex # Caller[m]
      BY <3>2
    <3> QED
      BY <1>8, <3>2, <3>3 DEF ReceiveTimeout, InlineReturns
  <2> USE <1>8 DEF ReceiveTimeout, Goto, InlineReturns
  <2>1. RegistryInv' /\ NoChannelPanic'
    OBVIOUS
  <2>2. CallInv'
    OBVIOUS
  <2>3. ReaderInv'
    BY <2>0
  <2>4. ProvenanceInv'
    OBVIOUS
  <2>5. InlineInv'
    OBVIOUS
  <2> QED
    BY <2>1, <2>2, <2>3, <2>4, <2>5
<1>9. ASSUME NEW m \in Calls, TimerExpires(m) PROVE Rest'
  BY <1>9 DEF TimerExpires
<1>10. ASSUME NEW m \in Calls, TimerCallback(m) PROVE Rest'
  \* The mutex is free, so no reader is about to send.
  <2> USE <1>10 DEF TimerCallback, Registered, Forget
  <2>1. RegistryInv'
    <3>1. CASE m \in pending
      <4> HIDE DEF CallInv, ReaderInv, ProvenanceInv, InlineInv, TypeOK, NoChannelPanic
      <4>0. pending' = pending \ {m} /\ timeouts' = timeouts \ {m}
        BY <3>1
      <4>1. pending' = timeouts' /\ m \notin pending' /\ pending' \subseteq pending
        BY <4>0
      <4>2. closed' = closed \cup {m} /\ buffered' = buffered /\ pc' = pc
        BY <3>1
      <4>3. \A x \in pending' : timer'[x] = timer[x]
        BY <4>1
      <4> QED
        BY <4>1, <4>2, <4>3 DEF RegistryInv
    <3>2. CASE m \notin pending
      BY <3>2
    <3> QED
      BY <3>1, <3>2
  <2>6. NoChannelPanic'
    OBVIOUS
  <2>2. CallInv'
    OBVIOUS
  <2>3. \A c \in Connections : reader[c] # "sending"
    BY FreeMutex
  <2>4. ReaderInv'
    BY <2>3
  <2>5. ProvenanceInv' /\ InlineInv'
    OBVIOUS
  <2> QED
    BY <2>1, <2>2, <2>4, <2>5, <2>6
<1>11. ASSUME NEW c \in Connections, NEW m \in Calls, ReadResult(c, m) PROVE Rest'
  BY <1>11 DEF ReadResult
<1>12. ASSUME NEW c \in Connections, NEW m \in Calls, ReadError(c, m) PROVE Rest'
  BY <1>12 DEF ReadError
<1>13. ASSUME NEW c \in Connections, NEW m \in Calls, ReadStatus(c, m) PROVE Rest'
  <2> USE <1>13 DEF ReadStatus, LookUp, Goto, AfterLookup, IsClient
  <2>1. RegistryInv' /\ NoChannelPanic'
    OBVIOUS
  <2>2. CallInv'
    OBVIOUS
  <2>3. ReaderInv'
    <3>1. reader[c] = "reading" /\ mutex # c
      OBVIOUS
    <3>2. UNCHANGED <<mutex, pending, replied>>
      OBVIOUS
    <3>3. \/ reader' = reader /\ inHand' = inHand
          \/ reader' = [reader EXCEPT ![c] = "calling"] /\ inHand' = [inHand EXCEPT ![c] = m]
      BY DEF IsClient
    <3> HIDE <1>13
    <3> QED
      BY <3>1, <3>2, <3>3
  <2>4. ProvenanceInv'
    OBVIOUS
  <2>5. InlineInv'
    OBVIOUS
  <2> QED
    BY <2>1, <2>2, <2>3, <2>4, <2>5
<1>14. ASSUME NEW c \in Connections, LockKnown(c) PROVE Rest'
  BY <1>14, FreeMutex DEF LockKnown, Registered
<1>15. ASSUME NEW c \in Connections, LockUnknown(c) PROVE Rest'
  BY <1>15 DEF LockUnknown
<1>16. ASSUME NEW c \in Connections, SendResponse(c) PROVE Rest'
  <2> DEFINE m == inHand[c]
  <2>0. /\ m \in Calls /\ m \in pending /\ m \notin closed
        /\ <<m, c>> \in replied /\ m \in AbstractReplied
        /\ pc[m] \in {"write", "wait", "unregister"}
    BY <1>16 DEF SendResponse, AbstractReplied
  <2>1. /\ panics' = panics \cup ({m} \cap closed)
        /\ buffered' = buffered \cup {m} /\ closed' = closed \cup {m}
        /\ pending' = pending \ {m} /\ timeouts' = timeouts \ {m}
        /\ timer' = IF m \in timeouts /\ timer[m] = "armed"
                    THEN [timer EXCEPT ![m] = "stopped"] ELSE timer
        /\ mutex = c /\ mutex' = Nobody
        /\ reader[c] = "sending"
        /\ reader' = [reader EXCEPT ![c] = "reading"]
        /\ inHand' = [inHand EXCEPT ![c] = Nobody]
        /\ UNCHANGED <<pc, via, netVars>>
    BY <1>16 DEF SendResponse, Forget, StopTimer
  <2>2. Caller[m] # Nobody => RepliedElsewhere(m)
    BY <2>0, <2>1 DEF RepliedElsewhere
  <2> HIDE DEF m
  <2>3. RegistryInv' /\ NoChannelPanic'
    BY <2>0, <2>1
  <2>4. CallInv'
    BY <2>0, <2>1
  <2>5. ReaderInv'
    BY <2>0, <2>1, NobodyAssumption
  <2>6. ProvenanceInv'
    BY <2>0, <2>1
  <2>7. InlineInv'
    BY <2>0, <2>1, <2>2
  <2> QED
    BY <2>3, <2>4, <2>5, <2>6, <2>7
<1>17. ASSUME NEW c \in Connections, ReadFails(c) PROVE Rest'
  BY <1>17 DEF ReadFails
<1>18. ASSUME NEW c \in Connections, RemoveClient(c) PROVE Rest'
  BY <1>18 DEF RemoveClient
<1>19. ASSUME NEW c \in Connections, Break(c) PROVE Rest'
  BY <1>19 DEF Break
<1>20. ASSUME NEW m \in Calls, NEW c \in Connections, NEW kind \in {"result", "error"},
             Answer(m, c, kind)
       PROVE Rest'
  BY <1>20 DEF Answer
<1>24. ASSUME NEW c \in Connections, Connect(c) PROVE Rest'
  BY <1>24 DEF Connect, BirthInv
<1>21. CASE Quiescent \/ UNCHANGED vars
  BY <1>21 DEF Quiescent, vars
<1>22. ASSUME NEW m \in Calls, CallStep(m) PROVE Rest'
  BY <1>2, <1>3, <1>4, <1>5, <1>6, <1>7, <1>8, <1>9, <1>10, <1>22 DEF CallStep, CallerStep
<1>23. ASSUME NEW c \in Connections, ReaderStep(c) PROVE Rest'
  BY <1>11, <1>12, <1>14, <1>15, <1>16, <1>17, <1>18, <1>23 DEF ReaderStep, ResponseStep
<1> HIDE DEF Rest
<1> QED
  BY <1>1, <1>9, <1>13, <1>19, <1>20, <1>21, <1>22, <1>23, <1>24 DEF Next

\* IInv holds in every reachable state.
THEOREM Invariance == Spec => []IInv
<1>1. Init => IInv
  BY SMTT(30) DEF Init, IInv, RegistryInv, CallInv, ReaderInv, BirthInv, ProvenanceInv, InlineInv,
     NoChannelPanic, TypeOK, Waiting, Final, Frames
<1> QED
  BY <1>1, InvariantStep, PTL DEF Spec

\* No goroutine ever panics on a response channel.
THEOREM ChannelsAreSafe == Spec => []NoChannelPanic
<1>1. IInv => NoChannelPanic
  BY DEF IInv
<1> QED
  BY <1>1, Invariance, PTL

\* A blocked caller always has an open way to be woken.
THEOREM WaitersHaveWakers == Spec => []WaiterHasWaker
<1>1. IInv => WaiterHasWaker
  BY DEF IInv, RegistryInv, CallInv, WaiterHasWaker
<1> QED
  BY <1>1, Invariance, PTL

\* Both maps hold the same ids, of calls that have not returned.
THEOREM NothingLeaks == Spec => []NoLeak
<1>1. IInv => NoLeak
  BY DEF IInv, RegistryInv, NoLeak
<1> QED
  BY <1>1, Invariance, PTL

\* A success is backed by a CallResult with the id of the call.
THEOREM AnswersAreGenuine == Spec => []AnswerIsGenuine
<1>1. IInv => AnswerIsGenuine
  BY DEF IInv, CallInv, AbstractReplied, AnswerIsGenuine
<1> QED
  BY <1>1, Invariance, PTL

\* A command sent by a read loop itself is answered only over another connection.
THEOREM InlineCallsNeedOtherLoop == Spec => []InlineNeedsOtherLoop
<1>1. IInv => InlineNeedsOtherLoop
  BY DEF IInv, InlineInv, RepliedElsewhere, InlineNeedsOtherLoop
<1> QED
  BY <1>1, Invariance, PTL

\* A reader never blocks on a channel while it holds the mutex.
THEOREM SendsNeverBlock == Spec => []SendNeverBlocks
<1>1. IInv => SendNeverBlocks
  BY DEF IInv, TypeOK, RegistryInv, ReaderInv, SendNeverBlocks, CanSend
<1> QED
  BY <1>1, Invariance, PTL

\* A call that has returned is never touched again.
THEOREM OutcomesAreFinal == Spec => OutcomeIsFinal
<1>1. IInv /\ [Next]_vars => [OutcomeKept]_vars
  <2> SUFFICES ASSUME IInv, Next PROVE OutcomeKept
    BY DEF OutcomeKept, vars
  <2> USE DEF IInv, TypeOK, RegistryInv, OutcomeKept, Waiting, Final, Goto, callVars
  <2>1. ASSUME NEW m \in Calls, Lookup(m) \/ CallStep(m) \/ TimerExpires(m)
        PROVE OutcomeKept
    <3>1. CASE Lookup(m) \/ Register(m) \/ WriteSucceeds(m) \/ WriteFails(m)
      BY <3>1 DEF Lookup, LookUp, Register, WriteSucceeds, WriteFails
    <3>2. CASE Unregister(m)
      BY <3>2 DEF Unregister, Forget
    <3>3. CASE ReceiveAnswer(m) \/ ReceiveTimeout(m)
      BY <3>3 DEF ReceiveAnswer, ReceiveTimeout
    <3>4. CASE TimerCallback(m)
      BY <3>4 DEF TimerCallback, Forget
    <3>5. CASE Transmit(m) \/ TimerExpires(m)
      BY <3>5 DEF Transmit, TimerExpires
    <3> QED
      BY <2>1, <3>1, <3>2, <3>3, <3>4, <3>5 DEF CallStep, CallerStep
  <2>2. ASSUME NEW c \in Connections, ReaderStep(c) \/ Break(c) \/ Connect(c) PROVE OutcomeKept
    <3>1. CASE SendResponse(c)
      BY <3>1 DEF SendResponse, Forget, ReaderInv
    <3>2. CASE ~SendResponse(c)
      BY <2>2, <3>2 DEF ReaderStep, ResponseStep, ReadResult, ReadError, LockKnown, LockUnknown,
         ReadFails, RemoveClient, Break, Connect
    <3> QED
      BY <3>1, <3>2
  <2>3. ASSUME NEW c \in Connections, NEW m \in Calls, ReadStatus(c, m) PROVE OutcomeKept
    BY <2>3 DEF ReadStatus, LookUp
  <2>4. ASSUME NEW m \in Calls, NEW c \in Connections, NEW kind \in {"result", "error"},
             Answer(m, c, kind)
        PROVE OutcomeKept
    BY <2>4 DEF Answer
  <2>5. CASE Quiescent
    BY <2>5 DEF Quiescent, vars
  <2> QED
    BY <2>1, <2>2, <2>3, <2>4, <2>5 DEF Next
<1> QED
  BY <1>1, Invariance, PTL DEF Spec, OutcomeIsFinal

\* A CallResult that was sent, on a connection that is up, for a call whose timer
\* still runs is on the wire or in the hands of the read loop there.
AnswerInv ==
  \A m \in Calls, c \in Connections :
    timer[m] = "armed" /\ <<m, c>> \in replied /\ link[c] = "up" =>
      \/ <<"result", m>> \in wire[c]
      \/ reader[c] \in {"locking", "sending"} /\ inHand[c] = m

\* No step loses the answer of a call whose timer runs.
LEMMA AnswerStep == IInv /\ AnswerInv /\ [Next]_vars => AnswerInv'
<1> SUFFICES ASSUME IInv, AnswerInv, [Next]_vars,
                    NEW n \in Calls, NEW d \in Connections,
                    timer'[n] = "armed", <<n, d>> \in replied', link'[d] = "up"
             PROVE \/ <<"result", n>> \in wire'[d]
                   \/ reader'[d] \in {"locking", "sending"} /\ inHand'[d] = n
  BY DEF AnswerInv
<1> DEFINE Goal == \/ <<"result", n>> \in wire'[d]
                   \/ reader'[d] \in {"locking", "sending"} /\ inHand'[d] = n
<1>a. TypeOK
  BY DEF IInv
<1>b. timer[n] = "armed" /\ <<n, d>> \in replied /\ link[d] = "up" =>
        \/ <<"result", n>> \in wire[d]
        \/ reader[d] \in {"locking", "sending"} /\ inHand[d] = n
  BY DEF AnswerInv
<1> USE <1>a, <1>b DEF TypeOK, Waiting, Final, callVars, loopVars, netVars
<1>1. ASSUME NEW m \in Calls, Lookup(m) PROVE Goal
  BY <1>1 DEF Lookup
<1>2. ASSUME NEW m \in Calls, CallStep(m) PROVE Goal
  <2>1. CASE Register(m)
    \* The id is new: nothing was delivered, so nothing was answered.
    <3>1. \A c \in Connections : <<m, c>> \notin replied
      BY <2>1 DEF Register, Goto, IInv, ProvenanceInv, CallInv
    <3> QED
      BY <2>1, <3>1 DEF Register, ArmTimer
  <2>2. CASE Transmit(m) \/ WriteSucceeds(m) \/ WriteFails(m)
    BY <2>2 DEF Transmit, WriteSucceeds, WriteFails
  <2>3. CASE Unregister(m) \/ ReceiveAnswer(m) \/ ReceiveTimeout(m)
    \* The read loop of an inline call was not on its way to the mutex.
    <3>1. timer[n] = "armed" /\ UNCHANGED <<replied, link, wire>>
      BY <2>3 DEF Unregister, StopTimer, ReceiveAnswer, ReceiveTimeout
    <3>2. pc[m] \in Waiting
      BY <2>3 DEF Unregister, ReceiveAnswer, ReceiveTimeout, Goto
    <3>3. Caller[m] # Nobody => reader[Caller[m]] = "calling"
      BY <3>2, InlineBusy
    <3>4. reader[d] \in {"locking", "sending"} =>
            reader'[d] = reader[d] /\ inHand'[d] = inHand[d]
      BY <2>3, <3>3 DEF Unregister, ReceiveAnswer, ReceiveTimeout, InlineReturns
    <3> QED
      BY <3>1, <3>4
  <2>4. CASE TimerCallback(m)
    BY <2>4 DEF TimerCallback
  <2> QED
    BY <1>2, <2>1, <2>2, <2>3, <2>4 DEF CallStep, CallerStep
<1>3. ASSUME NEW m \in Calls, TimerExpires(m) PROVE Goal
  BY <1>3 DEF TimerExpires
<1>4. ASSUME NEW c \in Connections, ReaderStep(c) PROVE Goal
  <2>1. ASSUME NEW m \in Calls, ReadResult(c, m) PROVE Goal
    BY <2>1 DEF ReadResult
  <2>2. ASSUME NEW m \in Calls, ReadError(c, m) PROVE Goal
    BY <2>2 DEF ReadError
  <2>3. CASE LockKnown(c)
    BY <2>3 DEF LockKnown
  <2>4. CASE LockUnknown(c)
    \* An unknown id has no running timer.
    BY <2>4 DEF LockUnknown, Registered, IInv, RegistryInv
  <2>5. CASE SendResponse(c)
    <3>1. inHand[c] # n
      BY <2>5 DEF SendResponse, StopTimer, IInv, RegistryInv, ReaderInv
    <3> QED
      BY <2>5, <3>1 DEF SendResponse, StopTimer
  <2>6. CASE ReadFails(c)
    BY <2>6 DEF ReadFails
  <2>7. CASE RemoveClient(c)
    BY <2>7 DEF RemoveClient
  <2> QED
    BY <1>4, <2>1, <2>2, <2>3, <2>4, <2>5, <2>6, <2>7 DEF ReaderStep, ResponseStep
<1>5. ASSUME NEW c \in Connections, Break(c) \/ Connect(c) PROVE Goal
  <2>1. CASE Break(c)
    BY <2>1 DEF Break
  <2>2. CASE Connect(c)
    \* Nothing has been sent on a connection that did not exist.
    <3>1. <<n, c>> \notin replied
      BY <2>2 DEF Connect, IInv, BirthInv
    <3> QED
      BY <2>2, <3>1 DEF Connect
  <2> QED
    BY <1>5, <2>1, <2>2
<1>6. ASSUME NEW c \in Connections, NEW m \in Calls, ReadStatus(c, m) PROVE Goal
  BY <1>6 DEF ReadStatus
<1>7. ASSUME NEW m \in Calls, NEW c \in Connections, NEW kind \in {"result", "error"},
             Answer(m, c, kind)
      PROVE Goal
  BY <1>7 DEF Answer
<1>8. ASSUME Quiescent \/ UNCHANGED vars PROVE Goal
  BY <1>8 DEF Quiescent, vars
<1> HIDE <1>a, <1>b DEF Goal, TypeOK, Waiting, callVars, loopVars, netVars
<1>9. Goal
  BY <1>1, <1>2, <1>3, <1>4, <1>5, <1>6, <1>7, <1>8 DEF Next
<1> QED
  BY <1>9 DEF Goal

\* A call times out only for want of an answer, once the read loop has caught up.
THEOREM TimeoutsMeanNoAnswer == Spec => TimeoutMeansNoAnswer
<1> DEFINE Fires(m, c) ==
      timer[m] = "armed" /\ timer'[m] = "expired" /\ link[c] = "up" /\ CaughtUp(c, m)
<1>1. Init => AnswerInv
  BY DEF Init, AnswerInv
<1>2. Spec => [](IInv /\ AnswerInv)
  BY <1>1, AnswerStep, Invariance, PTL DEF Spec
<1>3. IInv /\ AnswerInv => (\A m \in Calls, c \in Connections : Fires(m, c) => <<m, c>> \notin replied)
  BY DEF IInv, TypeOK, AnswerInv, CaughtUp
<1>4. IInv /\ AnswerInv /\ [Next]_vars =>
        [\A m \in Calls, c \in Connections : Fires(m, c) => <<m, c>> \notin replied]_vars
  BY <1>3
<1> QED
  BY <1>2, <1>4, PTL DEF Spec, TimeoutMeansNoAnswer

\* SendCommand, with all its machinery, implements RemoteCall.
THEOREM Refinement == Spec => ImplementsRemoteCall
<1> USE DEF AbstractStatus, AbstractReplied, Waiting
<1>1. Init => Abstract!Init
  BY DEF Init, Abstract!Init
<1>2. IInv /\ [Next]_vars => [Abstract!Next]_(Abstract!vars)
  <2> SUFFICES ASSUME IInv, [Next]_vars PROVE [Abstract!Next]_(Abstract!vars)
    OBVIOUS
  <2> USE DEF IInv, TypeOK, Final, callVars, loopVars, netVars, Goto, Abstract!vars
  <2>1. ASSUME NEW m \in Calls, Lookup(m) PROVE Abstract!Ask(m) \/ Abstract!Reject(m)
    BY <2>1 DEF Lookup, LookUp, AfterLookup, Abstract!Ask, Abstract!Reject
  <2>2. ASSUME NEW m \in Calls,
               Register(m) \/ Transmit(m) \/ WriteSucceeds(m) \/ WriteFails(m)
                 \/ TimerExpires(m) \/ TimerCallback(m)
        PROVE UNCHANGED Abstract!vars
    <3>1. UNCHANGED replied
      BY <2>2 DEF Register, Transmit, WriteSucceeds, WriteFails, TimerExpires, TimerCallback
    <3>2. ASSUME Transmit(m) \/ TimerExpires(m) \/ TimerCallback(m) PROVE UNCHANGED pc
      BY <3>2 DEF Transmit, TimerExpires, TimerCallback
    <3>3. ASSUME Register(m) \/ WriteSucceeds(m) \/ WriteFails(m)
          PROVE UNCHANGED AbstractStatus
      BY <3>3 DEF Register, WriteSucceeds, WriteFails
    <3>4. UNCHANGED AbstractStatus
      BY <2>2, <3>2, <3>3
    <3> QED
      BY <3>1, <3>4
  <2>3. ASSUME NEW m \in Calls, Unregister(m) \/ ReceiveTimeout(m) PROVE Abstract!GiveUp(m)
    <3>1. CASE Unregister(m)
      BY <3>1 DEF Unregister, Abstract!GiveUp
    <3>2. CASE ReceiveTimeout(m)
      BY <3>2 DEF ReceiveTimeout, Abstract!GiveUp
    <3> QED
      BY <2>3, <3>1, <3>2
  <2>4. ASSUME NEW m \in Calls, ReceiveAnswer(m) PROVE Abstract!Succeed(m)
    <3>1. m \in AbstractReplied
      BY <2>4 DEF ReceiveAnswer, CallInv, AbstractReplied
    <3>2. /\ pc[m] = "wait" /\ pc' = [pc EXCEPT ![m] = "answered"]
          /\ replied' = replied
      BY <2>4 DEF ReceiveAnswer
    <3> QED
      BY <3>1, <3>2 DEF Abstract!Succeed, AbstractReplied
  <2>5. ASSUME NEW c \in Connections, ReaderStep(c) \/ Break(c) \/ Connect(c)
        PROVE UNCHANGED Abstract!vars
    <3>1. UNCHANGED <<pc, replied>>
      BY <2>5 DEF ReaderStep, ResponseStep, ReadResult, ReadError, LockKnown, LockUnknown,
         SendResponse, ReadFails, RemoveClient, Break, Connect
    <3> QED
      BY <3>1
  <2>6. ASSUME NEW c \in Connections, NEW m \in Calls, ReadStatus(c, m)
        PROVE Abstract!Ask(m) \/ Abstract!Reject(m)
    <3>1. pc[m] = "idle" /\ replied' = replied
      BY <2>6 DEF ReadStatus, LookUp
    <3>2. CASE IsClient(Target[m])
      <4>1. pc' = [pc EXCEPT ![m] = "register"]
        BY <2>6, <3>2 DEF ReadStatus, LookUp, AfterLookup
      <4> QED
        BY <3>1, <4>1 DEF Abstract!Ask
    <3>3. CASE ~IsClient(Target[m])
      <4>1. pc' = [pc EXCEPT ![m] = "notConnected"]
        BY <2>6, <3>3 DEF ReadStatus, LookUp, AfterLookup
      <4> QED
        BY <3>1, <4>1 DEF Abstract!Reject
    <3> QED
      BY <3>2, <3>3
  <2>7. ASSUME NEW m \in Calls, NEW c \in Connections, NEW kind \in {"result", "error"},
             Answer(m, c, kind)
        PROVE Abstract!Reply(m) \/ UNCHANGED Abstract!vars
    <3>1. CASE kind = "result"
      <4>1. AbstractReplied' = AbstractReplied \cup {m}
        BY <2>7, <3>1 DEF Answer
      <4>2. AbstractStatus[m] \notin {"idle", "refused"}
        BY <2>7 DEF Answer, CallInv
      <4>3. UNCHANGED AbstractStatus
        BY <2>7 DEF Answer
      <4> QED
        BY <4>1, <4>2, <4>3 DEF Abstract!Reply
    <3>2. CASE kind = "error"
      BY <2>7, <3>2 DEF Answer
    <3> QED
      BY <3>1, <3>2
  <2>8. CASE Quiescent \/ UNCHANGED vars
    <3>1. UNCHANGED <<pc, replied>>
      BY <2>8 DEF Quiescent, vars
    <3> QED
      BY <3>1
  <2> HIDE DEF IInv, TypeOK, Final, callVars, loopVars, netVars, Goto, Abstract!vars,
               AbstractStatus, AbstractReplied, Waiting
  <2> QED
    BY <2>1, <2>2, <2>3, <2>4, <2>5, <2>6, <2>7, <2>8
    DEF Next, CallStep, CallerStep, Abstract!Next
<1> QED
  BY <1>1, <1>2, Invariance, PTL DEF Spec, ImplementsRemoteCall, Abstract!Spec

=============================================================================
