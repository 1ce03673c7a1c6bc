-------------------------- MODULE ApiCommandsProofs --------------------------
(***************************************************************************)
(* Proofs about ApiCommands, for any number of requests.                   *)
(*                                                                         *)
(* They rest on RemoteCall alone: a call that is over stays as it ended,   *)
(* and what a reply has said stays said.  So what a handler has decided by *)
(* the calls before is still true when it tells its client.                *)
(*                                                                         *)
(* The last part is about the other senders of commands, the rounds of     *)
(* BackgroundTasks, for any number of charge points and connectors.        *)
(***************************************************************************)
EXTENDS ApiCommands, TLAPS

\* A call that succeeded was replied to, and a reply says something.
CallsFit ==
  \A m \in Calls :
    /\ m \in replied => says[m] # Nothing
    /\ status[m] = "succeeded" => m \in replied

\* The stop and the unlock are over, and neither was accepted in time.
Tried(r) ==
  \A c \in {"Generic", "UnlockConnector"} : status[<<r, c>>] \in Over /\ ~Accepted(<<r, c>>)

\* The progress of a forced stop.
StopFits(r) ==
  kind[r] = "ForceStop" /\ answer[r] = Nothing =>
    \/ sending[r] \in {"TriggerMessage", "Generic"} /\ status[<<r, "Reset">>] = "idle"
    \/ /\ sending[r] = "UnlockConnector" /\ status[<<r, "Reset">>] = "idle"
       /\ status[<<r, "Generic">>] \in Over
    \/ sending[r] = "Reset" /\ Tried(r)

\* Nothing was sent and nobody was told before a request has come.
NotYet(r) ==
  kind[r] = Nothing => answer[r] = Nothing /\ \A c \in Commands : status[<<r, c>>] = "idle"

IInv ==
  /\ TypeOK
  /\ CallsFit
  /\ \A r \in Requests : StopFits(r) /\ NotYet(r)
  /\ SuccessIsEarned
  /\ ResetIsLast

-----------------------------------------------------------------------------
(* Calls. *)

\* What a step can do to the calls.
CallSteps ==
  \/ \E r \in Requests : Send(r) \/ Return(r)
  \/ \E m \in Calls, what \in Sayings : Reply(m, what)

\* A handler, a request or the server itself leaves the calls alone.
LEMMA OthersLeaveCalls ==
  ASSUME [Next]_vars
  PROVE  CallSteps \/ UNCHANGED callVars
BY DEF Next, CallSteps, Receive, Begin, Refuse, Handle, HandleRemoteStart, HandleRemoteStop,
   HandleReset, HandleUnlockConnector, HandleChangeConfiguration, HandleClearCache,
   HandleTriggerMessage, HandleGetConfiguration, HandleGenericCommand, TellStatus, Tell,
   StopBlindly, Unlock, ResetAtLast, EndForceStop, GoOn, Shutdown, Exit, Exited, vars

LEMMA CurrentIsCall ==
  ASSUME TypeOK, NEW r \in Requests, sending[r] # Nothing
  PROVE  Current(r) \in Calls
BY DEF TypeOK, Current, Calls

\* A call that is over stays over, a reply stays what it was, and a call is
\* made only for the present command of a request.
LEMMA CallsStep ==
  ASSUME TypeOK, CallsFit, [Next]_vars
  PROVE  /\ status' \in [Calls -> {"idle", "asked"} \cup Over]
         /\ replied' \subseteq Calls /\ replied \subseteq replied'
         /\ says' \in [Calls -> Sayings \cup {Nothing}]
         /\ CallsFit'
         /\ \A m \in Calls :
              /\ status[m] \in Over => status'[m] = status[m]
              /\ says[m] # Nothing => says'[m] = says[m]
              /\ status[m] = "idle" /\ status'[m] # "idle"
                   => m = Current(m[1]) /\ UNCHANGED <<kind, sending, answer>>
<1>1. CASE UNCHANGED callVars
  BY <1>1 DEF callVars, TypeOK, CallsFit
<1>2. ASSUME NEW r \in Requests, Send(r) \/ Return(r)
      PROVE  /\ UNCHANGED <<kind, sending, answer, says>>
             /\ Current(r) \in Calls /\ Current(r)[1] = r
             /\ Call!Ask(Current(r)) \/ Call!Reject(Current(r))
                  \/ Call!Succeed(Current(r)) \/ Call!GiveUp(Current(r))
  BY <1>2, CurrentIsCall DEF Send, Return, Current
<1>3. ASSUME NEW m \in Calls, NEW what \in Sayings, Reply(m, what)
      PROVE  /\ status' = status /\ replied' = replied \cup {m}
             /\ says[m] \in {Nothing, what} /\ says' = [says EXCEPT ![m] = what]
  BY <1>3 DEF Reply, Call!Reply
<1>4. CASE \E r \in Requests : Send(r) \/ Return(r)
  <2>1. PICK r \in Requests : Send(r) \/ Return(r)
    BY <1>4
  <2>2. /\ UNCHANGED <<kind, sending, answer, says>>
        /\ Current(r) \in Calls /\ Current(r)[1] = r
    BY <1>2, <2>1
  <2> DEFINE n == Current(r)
  <2> HIDE DEF n
  <2>3. Call!Ask(n) \/ Call!Reject(n) \/ Call!Succeed(n) \/ Call!GiveUp(n)
    BY <1>2, <2>1 DEF n
  <2>4. n \in Calls /\ n = Current(n[1])
    BY <2>2 DEF n
  <2> QED
    BY <2>2, <2>3, <2>4 DEF Call!Ask, Call!Reject, Call!Succeed, Call!GiveUp, TypeOK, CallsFit, Over
<1>5. CASE \E m \in Calls, what \in Sayings : Reply(m, what)
  <2>1. PICK m \in Calls, what \in Sayings : Reply(m, what)
    BY <1>5
  <2>2. /\ status' = status /\ replied' = replied \cup {m}
        /\ says[m] \in {Nothing, what} /\ says' = [says EXCEPT ![m] = what]
    BY <1>3, <2>1
  <2>3. what # Nothing
    BY DEF Sayings, Nothing
  <2> QED
    BY <2>2, <2>3 DEF TypeOK, CallsFit
<1> QED
  BY <1>1, <1>4, <1>5, OthersLeaveCalls DEF CallSteps

-----------------------------------------------------------------------------
(* Requests. *)

\* What a step can do to one request.
Stays(r)  == kind'[r] = kind[r] /\ sending'[r] = sending[r] /\ answer'[r] = answer[r]
Begins(r) ==
  /\ server = "up" /\ kind[r] = Nothing /\ kind'[r] \in Kinds
  /\ sending'[r] \in Commands /\ answer'[r] = answer[r]
  /\ kind'[r] = "ForceStop" => sending'[r] = "TriggerMessage"
Refuses(r) ==
  /\ kind[r] = Nothing /\ kind'[r] \in Kinds
  /\ sending'[r] = sending[r] /\ answer'[r] = "refused"
GoesOn(r) ==
  /\ HasReturned(r) /\ kind[r] = "ForceStop"
  /\ kind'[r] = kind[r] /\ answer'[r] = answer[r]
  /\ \/ sending[r] = "TriggerMessage" /\ sending'[r] = "Generic"
     \/ sending[r] = "Generic" /\ sending'[r] = "UnlockConnector"
     \/ sending[r] = "UnlockConnector" /\ sending'[r] = "Reset" /\ ResetIsNeeded(r)
Tells(r) ==
  /\ HasReturned(r)
  /\ kind'[r] = kind[r] /\ sending'[r] = Nothing
  /\ answer'[r] \in {"failed", "no success", "success"}
  /\ answer'[r] = "success" =>
       \/ kind[r] \in {"GetConfiguration", "Generic"} /\ Answered(Current(r))
       \/ kind[r] # "ForceStop" /\ Accepted(Current(r))
       \/ /\ kind[r] = "ForceStop"
          /\ \E c \in {"Generic", "UnlockConnector", "Reset"} : Accepted(<<r, c>>)

\* The types of the variables of the requests.
RequestsType ==
  /\ server \in {"up", "closing", "down"}
  /\ kind \in [Requests -> Kinds \cup {Nothing}]
  /\ sending \in [Requests -> Commands \cup {Nothing}]
  /\ answer \in [Requests -> {Nothing, "refused", "failed", "no success", "success"}]

LEMMA KindsOfCommands ==
  /\ Commands \subseteq Kinds /\ Nothing \notin Kinds
  /\ {"TriggerMessage", "Generic", "UnlockConnector", "Reset"} \subseteq Commands
  /\ "ForceStop" \in Kinds \ Commands
BY DEF Commands, Kinds, StatusCommands, Nothing

\* A handler moves only its own request, by one of the ways above.
LEMMA HandleMoves ==
  ASSUME RequestsType, NEW r \in Requests, Handle(r)
  PROVE  /\ RequestsType' /\ callVars' = callVars
         /\ \A q \in Requests : IF q = r THEN GoesOn(q) \/ Tells(q) ELSE Stays(q)
<1>1. ASSUME NEW what \in {"failed", "no success", "success"}, Tell(r, what), HasReturned(r),
             what = "success" =>
               \/ kind[r] \in {"GetConfiguration", "Generic"} /\ Answered(Current(r))
               \/ kind[r] # "ForceStop" /\ Accepted(Current(r))
               \/ /\ kind[r] = "ForceStop"
                  /\ \E c \in {"Generic", "UnlockConnector", "Reset"} : Accepted(<<r, c>>)
      PROVE  /\ RequestsType' /\ callVars' = callVars
             /\ Tells(r) /\ \A q \in Requests \ {r} : Stays(q)
  BY <1>1 DEF Tell, Tells, Stays, RequestsType
<1>2. CASE StopBlindly(r) \/ Unlock(r) \/ ResetAtLast(r)
  BY <1>2, KindsOfCommands DEF StopBlindly, Unlock, ResetAtLast, GoOn, GoesOn, Stays, RequestsType
<1>3. CASE EndForceStop(r)
  BY <1>1, <1>3 DEF EndForceStop
<1>4. CASE HandleGetConfiguration(r) \/ HandleGenericCommand(r)
  BY <1>1, <1>4 DEF HandleGetConfiguration, HandleGenericCommand
<1>5. ASSUME kind[r] # "ForceStop", TellStatus(r)
      PROVE  /\ RequestsType' /\ callVars' = callVars
             /\ Tells(r) /\ \A q \in Requests \ {r} : Stays(q)
  BY <1>1, <1>5 DEF TellStatus
<1> QED
  BY <1>1, <1>2, <1>3, <1>4, <1>5 DEF Handle, HandleRemoteStart, HandleRemoteStop, HandleReset,
     HandleUnlockConnector, HandleChangeConfiguration, HandleClearCache, HandleTriggerMessage

\* So does a request that comes.
LEMMA ReceiveMoves ==
  ASSUME RequestsType, NEW r \in Requests, Receive(r)
  PROVE  /\ RequestsType' /\ callVars' = callVars
         /\ \A q \in Requests : IF q = r THEN Begins(q) \/ Refuses(q) ELSE Stays(q)
<1>1. ASSUME NEW k \in Kinds, NEW command \in Commands, Begin(r, k, command),
             k = "ForceStop" => command = "TriggerMessage"
      PROVE  /\ RequestsType' /\ callVars' = callVars
             /\ Begins(r) /\ \A q \in Requests \ {r} : Stays(q)
  BY <1>1 DEF Begin, Begins, Stays, RequestsType
<1>2. ASSUME NEW k \in Kinds, Refuse(r, k)
      PROVE  /\ RequestsType' /\ callVars' = callVars
             /\ Refuses(r) /\ \A q \in Requests \ {r} : Stays(q)
  BY <1>2 DEF Refuse, Refuses, Stays, RequestsType
<1> QED
  BY <1>1, <1>2, KindsOfCommands DEF Receive

LEMMA RequestStep ==
  ASSUME RequestsType, [Next]_vars
  PROVE  /\ RequestsType'
         /\ server = "down" => server' = "down"
         /\ \A r \in Requests :
              \/ Stays(r)
              \/ callVars' = callVars /\ server' = server /\ (Begins(r) \/ Refuses(r) \/ GoesOn(r) \/ Tells(r))
<1>1. CASE \E r \in Requests : Receive(r)
  <2>1. server' = server
    BY <1>1 DEF Receive, Begin, Refuse
  <2> QED
    BY <1>1, <2>1, ReceiveMoves
<1>2. CASE \E r \in Requests : Handle(r)
  <2>1. server' = server
    BY <1>2 DEF Handle, HandleRemoteStart, HandleRemoteStop,
       HandleReset, HandleUnlockConnector, HandleChangeConfiguration, HandleClearCache,
       HandleTriggerMessage, HandleGetConfiguration, HandleGenericCommand, TellStatus, Tell,
       StopBlindly, Unlock, ResetAtLast, EndForceStop, GoOn
  <2> QED
    BY <1>2, <2>1, HandleMoves
<1>3. CASE Shutdown \/ Exit \/ CallSteps \/ UNCHANGED vars
  BY <1>3 DEF Shutdown, Exit, CallSteps, Send, Return, Reply, Stays, RequestsType, vars
<1> QED
  BY <1>1, <1>2, <1>3 DEF Next, CallSteps, Exited

-----------------------------------------------------------------------------
(* The invariant. *)

LEMMA Initially == Init => IInv
<1> SUFFICES ASSUME Init PROVE IInv
  OBVIOUS
<1>1. status = [m \in Calls |-> "idle"] /\ replied = {}
  BY DEF Init, Call!Init
<1>2. TypeOK
  BY <1>1 DEF Init, TypeOK
<1>3. \A r \in Requests, c \in Commands : status[<<r, c>>] = "idle"
  BY <1>1 DEF Calls
<1>4. CallsFit /\ ResetIsLast /\ SuccessIsEarned /\ \A r \in Requests : StopFits(r) /\ NotYet(r)
  BY <1>1, <1>3, KindsOfCommands
     DEF Init, CallsFit, ResetIsLast, SuccessIsEarned, StopFits, NotYet, Nothing
<1> QED
  BY <1>2, <1>4 DEF IInv

LEMMA TypeStep ==
  ASSUME IInv, [Next]_vars
  PROVE  TypeOK'
<1>1. RequestsType /\ TypeOK /\ CallsFit
  BY DEF IInv, TypeOK, RequestsType
<1>2. /\ RequestsType'
      /\ server = "down" => server' = "down"
      /\ \A r \in Requests :
           \/ Stays(r)
           \/ callVars' = callVars /\ server' = server
              /\ (Begins(r) \/ Refuses(r) \/ GoesOn(r) \/ Tells(r))
  BY <1>1, RequestStep
<1>3. ASSUME NEW r \in Requests
      PROVE  sending'[r] # Nothing <=> kind'[r] # Nothing /\ answer'[r] = Nothing
  <2>1. /\ sending[r] # Nothing <=> kind[r] # Nothing /\ answer[r] = Nothing
        /\ kind[r] = Nothing => answer[r] = Nothing
    BY <1>1 DEF IInv, TypeOK, NotYet
  <2>2. CASE Stays(r)
    BY <2>1, <2>2 DEF Stays
  <2>3. CASE Begins(r) \/ Refuses(r)
    BY <2>1, <2>3, KindsOfCommands DEF Begins, Refuses, Nothing
  <2>4. CASE GoesOn(r) \/ Tells(r)
    BY <2>1, <2>4 DEF GoesOn, Tells, HasReturned, Nothing
  <2> QED
    BY <1>2, <2>2, <2>3, <2>4
<1>4. ASSUME NEW m \in Calls, status'[m] = "asked"
      PROVE  sending'[m[1]] = m[2] \/ server' = "down"
  <2>1. m[1] \in Requests /\ m[2] \in Commands /\ m = <<m[1], m[2]>>
    BY DEF Calls
  <2>2. PICK r \in Requests : r = m[1]
    BY <2>1
  <2>3. CASE status[m] # "asked"
    <3>1. status[m] = "idle"
      BY <1>1, <1>4, <2>3, CallsStep DEF TypeOK
    <3>2. m = Current(m[1]) /\ sending' = sending
      BY <1>1, <1>4, <3>1, CallsStep
    <3> QED
      BY <2>1, <3>2 DEF Current
  <2>4. CASE status[m] = "asked" /\ server = "down"
    BY <1>2, <2>4
  <2>5. CASE status[m] = "asked" /\ sending[r] = m[2]
    <3>1. ~HasReturned(r)
      BY <2>1, <2>2, <2>5 DEF HasReturned, Current, Over
    <3>2. kind[r] # Nothing
      BY <1>1, <2>1, <2>5, KindsOfCommands DEF TypeOK
    <3>3. Stays(r)
      BY <1>2, <3>1, <3>2 DEF Begins, Refuses, GoesOn, Tells
    <3> QED
      BY <2>2, <2>5, <3>3 DEF Stays
  <2> QED
    BY <1>1, <2>2, <2>3, <2>4, <2>5 DEF TypeOK
<1>5. /\ status' \in [Calls -> {"idle", "asked"} \cup Over]
      /\ replied' \subseteq Calls
      /\ says' \in [Calls -> Sayings \cup {Nothing}]
  BY <1>1, CallsStep
<1> QED
  BY <1>2, <1>3, <1>4, <1>5 DEF TypeOK, RequestsType

\* What was decided by a call that is over is decided for good.
LEMMA DecidedStays ==
  ASSUME TypeOK, CallsFit, [Next]_vars, NEW m \in Calls
  PROVE  /\ status[m] \in Over => status'[m] \in Over /\ Accepted(m)' = Accepted(m)
         /\ Accepted(m) => m \in replied /\ m \in replied'
         /\ Answered(m) => m \in replied /\ m \in replied'
         /\ says[m] = "Accepted" => says'[m] = "Accepted"
<1>1. /\ m \in replied => says[m] # Nothing
      /\ status[m] = "succeeded" => m \in replied
  BY DEF CallsFit
<1>2. /\ replied \subseteq replied'
      /\ status[m] \in Over => status'[m] = status[m]
      /\ says[m] # Nothing => says'[m] = says[m]
  BY CallsStep
<1> QED
  BY <1>1, <1>2 DEF Accepted, Answered, Over, Nothing

LEMMA NotYetStep ==
  ASSUME IInv, [Next]_vars, NEW r \in Requests
  PROVE  NotYet(r)'
<1>1. TypeOK /\ CallsFit /\ RequestsType /\ NotYet(r)
  BY DEF IInv, TypeOK, RequestsType
<1> SUFFICES ASSUME kind'[r] = Nothing
             PROVE  answer'[r] = Nothing /\ \A c \in Commands : status'[<<r, c>>] = "idle"
  BY DEF NotYet
<1>2. kind[r] = Nothing /\ answer'[r] = answer[r]
  <2>1. CASE Stays(r)
    BY <2>1 DEF Stays
  <2>2. CASE Begins(r) \/ Refuses(r) \/ GoesOn(r) \/ Tells(r)
    BY <1>1, <2>2, KindsOfCommands DEF Begins, Refuses, GoesOn, Tells, HasReturned, TypeOK
  <2> QED
    BY <1>1, <2>1, <2>2, RequestStep
<1>3. ASSUME NEW c \in Commands, status'[<<r, c>>] # "idle"
      PROVE  FALSE
  <2>1. <<r, c>> \in Calls /\ status[<<r, c>>] = "idle"
    BY <1>1, <1>2 DEF Calls, NotYet
  <2>2. c = sending[r]
    BY <1>1, <1>3, <2>1, CallsStep DEF Current
  <2> QED
    BY <1>1, <1>2, <2>2, KindsOfCommands DEF TypeOK
<1> QED
  BY <1>1, <1>2, <1>3 DEF NotYet

\* A call that is not the present one of its request is not made.
LEMMA OnlyTheCurrentIsMade ==
  ASSUME TypeOK, CallsFit, [Next]_vars, NEW r \in Requests, NEW c \in Commands,
         status[<<r, c>>] = "idle", status'[<<r, c>>] # "idle"
  PROVE  sending[r] = c /\ UNCHANGED <<kind, sending, answer>>
<1>1. <<r, c>> \in Calls
  BY DEF Calls
<1> QED
  BY <1>1, CallsStep DEF Current

LEMMA StopFitsStep ==
  ASSUME IInv, [Next]_vars, NEW r \in Requests
  PROVE  StopFits(r)'
<1>1. TypeOK /\ CallsFit /\ RequestsType /\ NotYet(r) /\ StopFits(r)
  BY DEF IInv, TypeOK, RequestsType
<1>2. {<<r, "Generic">>, <<r, "UnlockConnector">>, <<r, "Reset">>} \subseteq Calls
  BY KindsOfCommands DEF Calls
<1>3. \A c \in {"Generic", "UnlockConnector"} :
        status[<<r, c>>] \in Over =>
          status'[<<r, c>>] \in Over /\ Accepted(<<r, c>>)' = Accepted(<<r, c>>)
  BY <1>1, <1>2, DecidedStays
<1>4. status[<<r, "Reset">>] = "idle" /\ sending[r] # "Reset" => status'[<<r, "Reset">>] = "idle"
  BY <1>1, KindsOfCommands, OnlyTheCurrentIsMade
<1> SUFFICES ASSUME kind'[r] = "ForceStop", answer'[r] = Nothing
             PROVE  StopFits(r)'
  BY DEF StopFits
<1>5. CASE Stays(r)
  BY <1>1, <1>3, <1>4, <1>5 DEF Stays, StopFits, Tried
<1>6. CASE Begins(r)
  <2>1. sending[r] = Nothing /\ status[<<r, "Reset">>] = "idle" /\ sending'[r] = "TriggerMessage"
    BY <1>1, <1>6, KindsOfCommands DEF Begins, NotYet, TypeOK
  <2> QED
    BY <1>4, <2>1 DEF StopFits, Nothing
<1>7. ASSUME GoesOn(r), callVars' = callVars
      PROVE  StopFits(r)'
  <2>1. status' = status /\ says' = says /\ answer[r] = Nothing /\ kind[r] = "ForceStop"
    BY <1>7 DEF GoesOn, callVars
  <2>2. CASE sending[r] = "UnlockConnector"
    <3>1. status[<<r, "Generic">>] \in Over /\ status[<<r, "UnlockConnector">>] \in Over
      BY <1>1, <1>7, <2>1, <2>2 DEF GoesOn, StopFits, HasReturned, Current
    <3>2. Tried(r)
      BY <1>7, <2>2, <3>1 DEF Tried, GoesOn, ResetIsNeeded
    <3>3. Tried(r)'
      BY <1>3, <3>2 DEF Tried
    <3> QED
      BY <1>7, <2>2, <3>3 DEF StopFits, GoesOn
  <2>3. CASE sending[r] # "UnlockConnector"
    BY <1>1, <1>7, <2>1, <2>3 DEF GoesOn, StopFits, HasReturned, Current
  <2> QED
    BY <2>2, <2>3
<1>8. CASE Refuses(r) \/ Tells(r)
  BY <1>8 DEF Refuses, Tells, Nothing
<1> QED
  BY <1>1, <1>5, <1>6, <1>7, <1>8, RequestStep

\* Why a request may be told success.
Earned(r) ==
  \E m \in replied \cap ({r} \X (Commands \ (IF kind[r] = "ForceStop" THEN {"TriggerMessage"} ELSE {}))) :
    kind[r] \in {"GetConfiguration", "Generic"} \/ says[m] = "Accepted"

LEMMA EarnedStep ==
  ASSUME IInv, [Next]_vars, NEW r \in Requests, answer'[r] = "success"
  PROVE  Earned(r)'
<1>1. TypeOK /\ CallsFit /\ RequestsType /\ NotYet(r) /\ SuccessIsEarned
  BY DEF IInv, TypeOK, RequestsType
<1>2. ASSUME Earned(r), kind'[r] = kind[r]
      PROVE  Earned(r)'
  <2> DEFINE Some == Commands \ (IF kind[r] = "ForceStop" THEN {"TriggerMessage"} ELSE {})
  <2>1. PICK m \in replied \cap ({r} \X Some) :
               kind[r] \in {"GetConfiguration", "Generic"} \/ says[m] = "Accepted"
    BY <1>2 DEF Earned
  <2>2. m \in Calls
    BY <1>1, <2>1 DEF TypeOK
  <2>3. m \in replied' /\ (says[m] = "Accepted" => says'[m] = "Accepted")
    BY <1>1, <2>1, <2>2, DecidedStays, CallsStep
  <2> QED
    BY <1>2, <2>1, <2>3 DEF Earned
<1>3. CASE Stays(r)
  BY <1>1, <1>2, <1>3 DEF Stays, SuccessIsEarned, Earned
<1>4. CASE Begins(r) \/ Refuses(r)
  BY <1>1, <1>4 DEF Begins, Refuses, NotYet, Nothing
<1>5. CASE GoesOn(r)
  BY <1>1, <1>2, <1>5 DEF GoesOn, SuccessIsEarned, Earned
<1>6. CASE Tells(r)
  <2>1. kind'[r] = kind[r] /\ sending[r] \in Commands /\ Current(r) = <<r, sending[r]>>
    BY <1>1, <1>6 DEF Tells, HasReturned, TypeOK, Current
  <2>2. CASE kind[r] \in {"GetConfiguration", "Generic"} /\ Answered(Current(r))
    <3>1. Current(r) \in replied
      BY <1>1, <2>1, <2>2, DecidedStays DEF Calls
    <3> QED
      BY <1>2, <2>1, <2>2, <3>1 DEF Earned
  <2>3. CASE kind[r] # "ForceStop" /\ Accepted(Current(r))
    <3>1. Current(r) \in replied /\ says[Current(r)] = "Accepted"
      BY <1>1, <2>1, <2>3, DecidedStays DEF Calls, Accepted
    <3> QED
      BY <1>2, <2>1, <2>3, <3>1 DEF Earned
  <2>4. ASSUME kind[r] = "ForceStop", NEW c \in {"Generic", "UnlockConnector", "Reset"},
               Accepted(<<r, c>>)
        PROVE  Earned(r)'
    <3>1. <<r, c>> \in Calls /\ c \in Commands \ {"TriggerMessage"}
      BY KindsOfCommands DEF Calls
    <3>2. <<r, c>> \in replied /\ says[<<r, c>>] = "Accepted"
      BY <1>1, <2>4, <3>1, DecidedStays DEF Accepted
    <3> QED
      BY <1>2, <2>1, <2>4, <3>1, <3>2 DEF Earned
  <2> QED
    BY <1>6, <2>2, <2>3, <2>4 DEF Tells
<1> QED
  BY <1>1, <1>3, <1>4, <1>5, <1>6, RequestStep

LEMMA ResetStep ==
  ASSUME IInv, [Next]_vars
  PROVE  ResetIsLast'
<1> SUFFICES ASSUME NEW r \in Requests, kind'[r] = "ForceStop", status'[<<r, "Reset">>] # "idle"
             PROVE  Tried(r)'
  BY DEF ResetIsLast, Tried
<1>1. TypeOK /\ CallsFit /\ NotYet(r) /\ StopFits(r) /\ ResetIsLast
  BY DEF IInv
<1>2. {<<r, "Generic">>, <<r, "UnlockConnector">>, <<r, "Reset">>} \subseteq Calls
  BY KindsOfCommands DEF Calls
<1>3. Tried(r) => Tried(r)'
  BY <1>1, <1>2, DecidedStays DEF Tried
<1>4. CASE status[<<r, "Reset">>] = "idle"
  <2>1. sending[r] = "Reset" /\ UNCHANGED <<kind, sending, answer>>
    BY <1>1, <1>4, KindsOfCommands, OnlyTheCurrentIsMade
  <2>2. answer[r] = Nothing
    BY <1>1, <2>1 DEF TypeOK, Nothing
  <2> QED
    BY <1>1, <1>3, <2>1, <2>2 DEF StopFits
<1>5. CASE status[<<r, "Reset">>] # "idle"
  <2>1. kind[r] # Nothing
    BY <1>1, <1>5, KindsOfCommands DEF NotYet
  <2>2. kind'[r] = kind[r]
    BY <1>1, <2>1, RequestStep DEF TypeOK, RequestsType, Stays, Begins, Refuses, GoesOn, Tells
  <2> QED
    BY <1>1, <1>3, <1>5, <2>2 DEF ResetIsLast, Tried
<1> QED
  BY <1>4, <1>5

\* Every behaviour keeps the inductive invariant.
LEMMA Invariance == Spec => []IInv
<1>1. ASSUME IInv, [Next]_vars PROVE IInv'
  <2>1. TypeOK' /\ CallsFit' /\ ResetIsLast' /\ \A r \in Requests : StopFits(r)' /\ NotYet(r)'
    BY <1>1, TypeStep, CallsStep, ResetStep, StopFitsStep, NotYetStep DEF IInv
  <2>2. SuccessIsEarned'
    BY <1>1, EarnedStep DEF SuccessIsEarned, Earned
  <2> QED
    BY <2>1, <2>2 DEF IInv
<1> QED
  BY Initially, <1>1, PTL DEF Spec

-----------------------------------------------------------------------------
(* The theorems. *)

\* Requests, calls and replies keep their types, and a call in progress is the
\* one its handler waits for, as long as the process runs.
THEOREM TypeCorrect == Spec => []TypeOK
<1>1. IInv => TypeOK
  BY DEF IInv
<1> QED
  BY Invariance, <1>1, PTL

\* A client is told success only if the charge point accepted a command of this
\* request, for any number of requests and late replies.
THEOREM SuccessAlwaysEarned == Spec => []SuccessIsEarned
<1>1. IInv => SuccessIsEarned
  BY DEF IInv
<1> QED
  BY Invariance, <1>1, PTL

\* A forced stop resets the charge point only when the stop and the unlock are
\* over and neither was accepted in time; a late reply does not change that.
THEOREM ResetAlwaysLast == Spec => []ResetIsLast
<1>1. IInv => ResetIsLast
  BY DEF IInv
<1> QED
  BY Invariance, <1>1, PTL

\* Whatever the handlers do, the calls they make are plain remote calls: asked
\* once, with one outcome, a success only after a reply.  That is what the
\* command manager promises of them (ImplementsRemoteCall of CommandManager), so
\* no step of a handler takes back or repeats a call.
THEOREM CallsAreRemote == Spec => Call!Spec
<1>1. Init => Call!Init
  BY DEF Init
<1>2. IInv /\ [Next]_vars => [Call!Next]_(Call!vars)
  <2> SUFFICES ASSUME IInv, [Next]_vars PROVE [Call!Next]_(Call!vars)
    OBVIOUS
  <2>1. CASE UNCHANGED callVars
    BY <2>1 DEF callVars, Call!vars
  <2>2. ASSUME NEW r \in Requests, Send(r) \/ Return(r) PROVE Call!Next
    <3>1. Current(r) \in Calls
      BY <2>2, CurrentIsCall DEF IInv, Send, Return
    <3>2. Call!Ask(Current(r)) \/ Call!Reject(Current(r))
            \/ Call!Succeed(Current(r)) \/ Call!GiveUp(Current(r))
      BY <2>2 DEF Send, Return
    <3> QED
      BY <3>1, <3>2 DEF Call!Next
  <2>3. ASSUME NEW m \in Calls, NEW what \in Sayings, Reply(m, what) PROVE Call!Next
    BY <2>3 DEF Reply, Call!Next
  <2> QED
    BY <2>1, <2>2, <2>3, OthersLeaveCalls DEF CallSteps
<1> QED
  BY <1>1, <1>2, Invariance, PTL DEF Spec, Call!Spec

-----------------------------------------------------------------------------
(* The other senders of commands: the goroutines of BackgroundTasks, for any *)
(* connectors and charge points.  They have no state in common with the      *)
(* requests, so theirs is an instance with variables of its own.             *)

CONSTANTS Connectors, ChargePoints, Owner, Nobody

VARIABLES
  task, connected, charging, active, phase, points, here, left, listed, loopVar,
  worker, asked

Background == INSTANCE BackgroundTasks

\* What BackgroundTasks assumes of its constants.
Ownership ==
  /\ Owner \in [Connectors -> ChargePoints]
  /\ Nobody \notin ChargePoints \cup Connectors

\* A list of connectors is left behind empty, and the poller starts a goroutine
\* only to sleep until it runs: until then the loop stays where it is.
RoundsFit ==
  /\ loopVar \in [ChargePoints -> Connectors \cup {Nobody}]
  /\ phase \in {"idle", "points"} => left = {}
  /\ task = "poller" =>
       \A c \in Connectors : worker[c] = "started" =>
         phase = "asleep" /\ Owner[c] = here /\ loopVar[here] = c

BackgroundInv == Background!TypeOK /\ RoundsFit /\ Background!PollerAsksOwner

\* The rounds keep the invariant.
LEMMA BackgroundStep ==
  ASSUME Ownership, BackgroundInv, [Background!Next]_(Background!vars)
  PROVE  BackgroundInv'
<1> USE DEF Ownership, BackgroundInv, Background!TypeOK, RoundsFit, Background!PollerAsksOwner,
            Background!world, Background!round, Background!Tasks, Background!ConnectorsOf
<1>1. CASE Background!StartRound
  BY <1>1 DEF Background!StartRound, Background!ListPoints, Background!ListTransactions,
     Background!Reconnect
<1>2. ASSUME NEW p \in ChargePoints,
             Background!MonitorPoint(p) \/ Background!InspectPoint(p) \/ Background!PollPoint(p)
      PROVE  BackgroundInv'
  BY <1>2 DEF Background!MonitorPoint, Background!InspectPoint, Background!PollPoint,
     Background!EnterPoint
<1>3. ASSUME NEW p \in ChargePoints, Background!ListFails(p) PROVE BackgroundInv'
  BY <1>3 DEF Background!ListFails
<1>4. CASE Background!EndRound \/ Background!LeavePoint
  BY <1>4 DEF Background!EndRound, Background!LeavePoint
<1>5. ASSUME NEW c \in Connectors, Background!Spawn(c) PROVE BackgroundInv'
  BY <1>5 DEF Background!Spawn, Background!TakeConnector, Background!StartWorker
<1>6. ASSUME NEW c \in Connectors,
             Background!TransactionFound(c) \/ Background!WarnOrphan(c) \/ Background!AskStatus(c)
      PROVE  BackgroundInv'
  BY <1>6 DEF Background!TransactionFound, Background!WarnOrphan, Background!AskStatus,
     Background!TakeConnector
<1>7. CASE Background!Returns
  BY <1>7 DEF Background!Returns, Background!ZeroReturns, Background!Wake, Background!PauseIsOver,
     Background!StatusReturns, Background!MetersReturn
<1>8. ASSUME NEW c \in Connectors, Background!Work(c) PROVE BackgroundInv'
  BY <1>8 DEF Background!Work, Background!WorkerAsksStatus, Background!WorkerAsksMeters,
     Background!WorkerGoesOn, Background!WorkerEnds, Background!WorkerMoves
<1>9. CASE Background!WorldChanges
  BY <1>9 DEF Background!WorldChanges, Background!Toggle
<1>10. CASE UNCHANGED Background!vars
  BY <1>10 DEF Background!vars
<1> QED
  BY <1>1, <1>2, <1>3, <1>4, <1>5, <1>6, <1>7, <1>8, <1>9, <1>10
  DEF Background!Next, Background!NextPoint, Background!NextConnector

LEMMA BackgroundInvariance ==
  ASSUME Ownership
  PROVE  Background!Spec => []BackgroundInv
<1>1. Background!Init => BackgroundInv
  BY DEF Ownership, Background!Init, BackgroundInv, Background!TypeOK, RoundsFit,
     Background!PollerAsksOwner, Background!Tasks
<1>2. BackgroundInv /\ [Background!Next]_(Background!vars) => BackgroundInv'
  BY BackgroundStep
<1> QED
  BY <1>1, <1>2, PTL DEF Background!Spec

\* A round works on the connectors of the charge point it is at, and the loop
\* variable that a goroutine reads names one of them: rows of two charge points
\* never mix, whatever is listed, however the rows change meanwhile.
THEOREM RoundsAreTyped ==
  ASSUME Ownership
  PROVE  Background!Spec => []Background!TypeOK
<1>1. BackgroundInv => Background!TypeOK
  BY DEF BackgroundInv
<1> QED
  BY <1>1, BackgroundInvariance, PTL

\* The poller's goroutines ask the owner of the transaction for meter values,
\* although they read a variable of the loop that started them.
THEOREM PollersAskOwners ==
  ASSUME Ownership
  PROVE  Background!Spec => []Background!PollerAsksOwner
<1>1. BackgroundInv => Background!PollerAsksOwner
  BY DEF BackgroundInv
<1> QED
  BY <1>1, BackgroundInvariance, PTL

=============================================================================
