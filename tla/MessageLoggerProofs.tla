------------------------ MODULE MessageLoggerProofs ------------------------
(***************************************************************************)
(* Proofs about MessageLogger, for any messages, flushing goroutines and   *)
(* queue limit.                                                            *)
(***************************************************************************)
EXTENDS MessageLogger, FiniteSetTheorems, TLAPS

\* A message that was not handed over yet is nowhere.
NowhereBefore ==
  \A m \in Messages : call[m] # "returned" =>
    /\ m \notin queue
    /\ m \notin dropped
    /\ rows[m] = 0
    /\ \A f \in Flushers : m \notin batch[f]

\* After that it is somewhere ...
SomewhereAfter ==
  \A m \in Messages : call[m] = "returned" =>
    \/ m \in queue
    \/ m \in dropped
    \/ rows[m] = 1
    \/ \E f \in Flushers : m \in batch[f]

\* ... and not in two places.
OnePlace ==
  \A m \in Messages :
    /\ m \in queue => m \notin dropped /\ rows[m] = 0
    /\ m \in dropped => rows[m] = 0
    /\ rows[m] <= 1
    /\ \A f \in Flushers : m \in batch[f] =>
         /\ m \notin queue
         /\ m \notin dropped
         /\ rows[m] = 0
         /\ \A g \in Flushers : m \in batch[g] => g = f

IInv == TypeOK /\ NowhereBefore /\ SomewhereAfter /\ OnePlace

-----------------------------------------------------------------------------
USE UrgentAssumption, TickerAssumption, QueueAssumption

\* No step leaves the types, nor makes a flush that has nothing to write.
LEMMA TypeStep == TypeOK /\ [Next]_vars => TypeOK'
<1> SUFFICES ASSUME TypeOK, [Next]_vars PROVE TypeOK'
  OBVIOUS
<1> USE DEF TypeOK
<1>1. ASSUME NEW m \in Messages, LogRawMessage(m) \/ DirectSave(m) \/ DirectSaveFails(m)
      PROVE TypeOK'
  BY <1>1 DEF LogRawMessage, DirectSave, DirectSaveFails
<1>2. ASSUME NEW m \in Messages, QueueMessage(m) PROVE TypeOK'
  BY <1>2 DEF QueueMessage, CallFlush
<1>3. CASE Tick
  BY <1>3 DEF Tick, CallFlush
<1>4. ASSUME NEW f \in Flushers, StartFlush(f) PROVE TypeOK'
  BY <1>4 DEF StartFlush, TakeQueue
<1>5. ASSUME NEW f \in Flushers, NEW m \in Messages, SaveOne(f, m) PROVE TypeOK'
  BY <1>5 DEF SaveOne, Written
<1>6. ASSUME NEW f \in Flushers, NEW m \in Messages, SaveOneFails(f, m) PROVE TypeOK'
  BY <1>6 DEF SaveOneFails, Written
<1>7. CASE Exit \/ Exited \/ UNCHANGED vars
  BY <1>7 DEF Exit, Exited, vars
<1> QED
  BY <1>1, <1>2, <1>3, <1>4, <1>5, <1>6, <1>7 DEF Next

\* Every reachable state is well typed, and a flush saves as long as it has
\* messages to write.
THEOREM TypeCorrect == Spec => []TypeOK
<1>1. Init => TypeOK
  BY DEF Init, TypeOK
<1> QED
  BY <1>1, TypeStep, PTL DEF Spec

\* IInv is inductive.
LEMMA InvariantStep == IInv /\ [Next]_vars => IInv'
<1> DEFINE Rest == NowhereBefore /\ SomewhereAfter /\ OnePlace
<1> SUFFICES ASSUME IInv, [Next]_vars PROVE Rest'
  BY TypeStep DEF IInv
<1>a. TypeOK /\ TypeOK'
  BY TypeStep DEF IInv
<1> USE <1>a DEF IInv, NowhereBefore, SomewhereAfter, OnePlace, TypeOK
<1>1. ASSUME NEW m \in Messages, LogRawMessage(m) \/ DirectSave(m) \/ DirectSaveFails(m)
      PROVE Rest'
  BY <1>1 DEF LogRawMessage, DirectSave, DirectSaveFails
<1>2. ASSUME NEW m \in Messages, QueueMessage(m) PROVE Rest'
  BY <1>2 DEF QueueMessage
<1>3. CASE Tick
  BY <1>3 DEF Tick
<1>4. ASSUME NEW f \in Flushers, StartFlush(f) PROVE Rest'
  BY <1>4 DEF StartFlush, TakeQueue
<1>5. ASSUME NEW f \in Flushers, NEW m \in Messages, SaveOne(f, m) PROVE Rest'
  BY <1>5 DEF SaveOne, Written
<1>6. ASSUME NEW f \in Flushers, NEW m \in Messages, SaveOneFails(f, m) PROVE Rest'
  BY <1>6 DEF SaveOneFails, Written
<1>7. CASE Exit \/ Exited \/ UNCHANGED vars
  BY <1>7 DEF Exit, Exited, vars
<1> QED
  BY <1>1, <1>2, <1>3, <1>4, <1>5, <1>6, <1>7 DEF Next

\* IInv holds in every reachable state.
THEOREM Invariance == Spec => []IInv
<1>1. Init => IInv
  BY DEF Init, IInv, TypeOK, NowhereBefore, SomewhereAfter, OnePlace
<1> QED
  BY <1>1, InvariantStep, PTL DEF Spec

\* No message is lost or written twice by the queue and its flushes.
THEOREM MessagesAreConserved == Spec => []Conservation
<1>1. IInv => Conservation
  <2> SUFFICES ASSUME IInv, NEW m \in Messages
               PROVE /\ rows[m] <= 1
                     /\ IF call[m] = "returned"
                        THEN \E h \in Flushers \cup {"queue", "dropped", "database"} :
                               Holders(m) = {h}
                        ELSE Holders(m) = {}
    BY DEF Conservation
  <2> USE DEF IInv, TypeOK, NowhereBefore, SomewhereAfter, OnePlace, Holders
  <2>1. rows[m] <= 1 /\ rows[m] \in Nat
    OBVIOUS
  <2>2. CASE call[m] # "returned"
    BY <2>1, <2>2
  <2>3. CASE call[m] = "returned"
    <3>1. CASE m \in queue
      <4>1. Holders(m) = {"queue"}
        BY <2>1, <3>1
      <4> QED
        BY <2>1, <2>3, <4>1
    <3>2. CASE m \in dropped
      <4>1. Holders(m) = {"dropped"}
        BY <2>1, <3>2
      <4> QED
        BY <2>1, <2>3, <4>1
    <3>3. CASE rows[m] = 1
      <4>1. Holders(m) = {"database"}
        BY <2>1, <3>3
      <4> QED
        BY <2>1, <2>3, <4>1
    <3>4. ASSUME NEW f \in Flushers, m \in batch[f] PROVE Holders(m) = {f}
      BY <2>1, <3>4
    <3> QED
      BY <2>1, <2>3, <3>1, <3>2, <3>3, <3>4
  <2> QED
    BY <2>1, <2>2, <2>3
<1> QED
  BY <1>1, Invariance, PTL

\* A queue at its limit always has a flush coming that has not taken it yet.
THEOREM FullQueuesAreFlushed == Spec => []FullQueueIsFlushed
<1>1. Cardinality({}) = 0
  BY FS_EmptySet
<1>2. Init => FullQueueIsFlushed
  BY <1>1 DEF Init, FullQueueIsFlushed
<1>3. TypeOK /\ FullQueueIsFlushed /\ [Next]_vars => FullQueueIsFlushed'
  <2> SUFFICES ASSUME TypeOK, FullQueueIsFlushed, [Next]_vars PROVE FullQueueIsFlushed'
    OBVIOUS
  <2> USE DEF TypeOK, FullQueueIsFlushed
  <2>1. ASSUME NEW m \in Messages, LogRawMessage(m) \/ DirectSave(m) \/ DirectSaveFails(m)
        PROVE FullQueueIsFlushed'
    BY <2>1 DEF LogRawMessage, DirectSave, DirectSaveFails
  <2>2. ASSUME NEW m \in Messages, QueueMessage(m) PROVE FullQueueIsFlushed'
    BY <2>2 DEF QueueMessage, CallFlush, Full
  <2>3. CASE Tick
    BY <2>3 DEF Tick, CallFlush
  <2>4. ASSUME NEW f \in Flushers, StartFlush(f) PROVE FullQueueIsFlushed'
    BY <1>1, <2>4 DEF StartFlush, TakeQueue
  <2>5. ASSUME NEW f \in Flushers, NEW m \in Messages, SaveOne(f, m) \/ SaveOneFails(f, m)
        PROVE FullQueueIsFlushed'
    BY <2>5 DEF SaveOne, SaveOneFails, Written
  <2>6. CASE Exit \/ Exited \/ UNCHANGED vars
    BY <2>6 DEF Exit, Exited, vars
  <2> QED
    BY <2>1, <2>2, <2>3, <2>4, <2>5, <2>6 DEF Next
<1> QED
  BY <1>2, <1>3, TypeCorrect, PTL DEF Spec

=============================================================================
