---------------------------- MODULE ApiCommands ----------------------------
(***************************************************************************)
(* The HTTP requests that send commands to a charge point                  *)
(* (server/api_commands.go), on top of the calls of the command manager.   *)
(*                                                                         *)
(* Most requests are one command whose answer is Accepted or not.  A       *)
(* forced stop is up to four commands in a row, each decided by what came  *)
(* of those before it, over minutes in which the charge point may be lost  *)
(* and answer late.  The calls are those of RemoteCall, which the command  *)
(* manager implements; says is what the replies to them contain.           *)
(*                                                                         *)
(* What the requests write to the ledger (pending remote starts, the       *)
(* reason of a remote stop) is in TransactionLedger.  AnsweredAtAll,       *)
(* TellAndGoOn (a missing return), GoOnIfTriggered and ResetUnlessBoth are *)
(* the definitions that follow them with a bug.                            *)
(***************************************************************************)
EXTENDS Naturals

CONSTANT Requests  \* requests to the HTTP server

\* The requests of one command with a status in its answer ...
StatusCommands ==
  {"RemoteStart", "RemoteStop", "Reset", "UnlockConnector", "ChangeConfiguration",
   "ClearCache", "TriggerMessage"}

\* ... those that pass on any answer, and the one of several commands.
Kinds == StatusCommands \cup {"GetConfiguration", "Generic", "ForceStop"}

\* A command has the name of the request that is made of it; the blind stop of
\* a forced stop is sent as a generic command.
Commands == Kinds \ {"ForceStop"}

Calls == Requests \X Commands

\* What a CallResult says in "status"; "odd" stands for no such string.
Sayings == {"Accepted", "Other", "odd"}

VARIABLES
  server,   \* the HTTP server: "up", "closing" or "down"
  kind,     \* kind[r]: the endpoint that request r came to
  sending,  \* sending[r]: the command that the handler of r is busy with
  answer,   \* answer[r]: what the client was told
  status,   \* status[m]: the call m, as in RemoteCall
  replied,  \* the calls the charge point replied to, as in RemoteCall
  says      \* says[m]: what its reply said

callVars == <<status, replied, says>>
vars     == <<server, kind, sending, answer, callVars>>

Call == INSTANCE RemoteCall

Nothing == "nothing"

\* How a call may end.
Over == {"succeeded", "gaveUp", "refused"}

TypeOK ==
  /\ server \in {"up", "closing", "down"}
  /\ kind \in [Requests -> Kinds \cup {Nothing}]
  /\ sending \in [Requests -> Commands \cup {Nothing}]
  /\ \A r \in Requests :
       sending[r] # Nothing <=> kind[r] # Nothing /\ answer[r] = Nothing
  /\ answer \in [Requests -> {Nothing, "refused", "failed", "no success", "success"}]
  /\ status \in [Calls -> {"idle", "asked"} \cup Over]
  /\ \A m \in Calls : status[m] = "asked" => sending[m[1]] = m[2] \/ server = "down"
  /\ replied \subseteq Calls
  /\ says \in [Calls -> Sayings \cup {Nothing}]

Init ==
  /\ server = "up"
  /\ kind = [r \in Requests |-> Nothing]
  /\ sending = [r \in Requests |-> Nothing]
  /\ answer = [r \in Requests |-> Nothing]
  /\ Call!Init
  /\ says = [m \in Calls |-> Nothing]

-----------------------------------------------------------------------------
(* Calls. *)

\* The call that the handler of r makes or has made for its present command.
Current(r) == <<r, sending[r]>>

\* SendCommand starts, or finds no connection.
Send(r) ==
  /\ server # "down"
  /\ sending[r] # Nothing
  /\ Call!Ask(Current(r)) \/ Call!Reject(Current(r))
  /\ UNCHANGED <<server, kind, sending, answer, says>>

\* A charge point has one thing to say about a call, however often and late.
Reply(m, what) ==
  /\ Call!Reply(m)
  /\ says[m] \in {Nothing, what}
  /\ says' = [says EXCEPT ![m] = what]
  /\ UNCHANGED <<server, kind, sending, answer>>

\* SendCommand returns an answer or an error.
Return(r) ==
  /\ server # "down"
  /\ sending[r] # Nothing
  /\ Call!Succeed(Current(r)) \/ Call!GiveUp(Current(r))
  /\ UNCHANGED <<server, kind, sending, answer, says>>

HasReturned(r) == sending[r] # Nothing /\ status[Current(r)] \in Over

Answered(m) == status[m] = "succeeded"

AnsweredAtAll(m) == Answered(m) /\ says[m] # "odd"

\* The wrappers of commands.go, and successFromRemoteStopResult: success is an
\* answer in time that says Accepted.
Accepted(m) == Answered(m) /\ says[m] = "Accepted"

\* An answer without a status is an error of the wrapper.
WrapperFails(m) == ~Answered(m) \/ says[m] = "odd"

-----------------------------------------------------------------------------
(* The handlers. *)

\* A request begins with the first command of its kind.
Begin(r, k, command) ==
  /\ server = "up"
  /\ kind[r] = Nothing
  /\ kind' = [kind EXCEPT ![r] = k]
  /\ sending' = [sending EXCEPT ![r] = command]
  /\ UNCHANGED <<server, answer, callVars>>

\* A method, body or parameter is wrong, or a remote stop by connector finds
\* no transaction: nothing is sent.
Refuse(r, k) ==
  /\ server = "up"
  /\ kind[r] = Nothing
  /\ kind' = [kind EXCEPT ![r] = k]
  /\ answer' = [answer EXCEPT ![r] = "refused"]
  /\ UNCHANGED <<server, sending, callVars>>

TellAndGoOn(r, what) ==
  /\ server # "down"
  /\ answer' = [answer EXCEPT ![r] = what]
  /\ UNCHANGED <<server, kind, sending, callVars>>

Tell(r, what) ==
  /\ server # "down"
  /\ answer' = [answer EXCEPT ![r] = what]
  /\ sending' = [sending EXCEPT ![r] = Nothing]
  /\ UNCHANGED <<server, kind, callVars>>

\* An error is told as a failure, anything but Accepted as no success.
TellStatus(r) ==
  /\ HasReturned(r)
  /\ Tell(r, IF WrapperFails(Current(r)) THEN "failed"
             ELSE IF Accepted(Current(r)) THEN "success" ELSE "no success")

HandleRemoteStart(r)         == kind[r] = "RemoteStart" /\ TellStatus(r)
HandleRemoteStop(r)          == kind[r] = "RemoteStop" /\ TellStatus(r)
HandleReset(r)               == kind[r] = "Reset" /\ TellStatus(r)
HandleUnlockConnector(r)     == kind[r] = "UnlockConnector" /\ TellStatus(r)
HandleChangeConfiguration(r) == kind[r] = "ChangeConfiguration" /\ TellStatus(r)
HandleClearCache(r)          == kind[r] = "ClearCache" /\ TellStatus(r)
HandleTriggerMessage(r)      == kind[r] = "TriggerMessage" /\ TellStatus(r)

\* The configuration that came back, whatever is in it.
HandleGetConfiguration(r) ==
  /\ kind[r] = "GetConfiguration"
  /\ HasReturned(r)
  /\ Tell(r, IF Answered(Current(r)) THEN "success" ELSE "failed")

\* Any answer is a success; its content is passed on for the client to read.
HandleGenericCommand(r) ==
  /\ kind[r] = "Generic"
  /\ HasReturned(r)
  /\ Tell(r, IF Answered(Current(r)) THEN "success" ELSE "failed")

-----------------------------------------------------------------------------
(* handleForceStop. *)

GoOn(r, this, next) ==
  /\ server # "down"
  /\ kind[r] = "ForceStop"
  /\ sending[r] = this
  /\ HasReturned(r)
  /\ sending' = [sending EXCEPT ![r] = next]
  /\ UNCHANGED <<server, kind, answer, callVars>>

GoOnIfTriggered(r) ==
  /\ Accepted(<<r, "TriggerMessage">>)
  /\ GoOn(r, "TriggerMessage", "Generic")

\* Steps 1 and 2: whatever came of the trigger, a stop with a made-up id.
StopBlindly(r) == GoOn(r, "TriggerMessage", "Generic")

\* Step 3.
Unlock(r) == GoOn(r, "Generic", "UnlockConnector")

ResetUnlessBoth(r) ==
  ~(Accepted(<<r, "Generic">>) /\ Accepted(<<r, "UnlockConnector">>))

\* Step 4, only when neither the stop nor the unlock was accepted.
ResetIsNeeded(r) ==
  ~Accepted(<<r, "Generic">>) /\ ~Accepted(<<r, "UnlockConnector">>)

ResetAtLast(r) ==
  /\ ResetIsNeeded(r)
  /\ GoOn(r, "UnlockConnector", "Reset")

\* Success if the stop, the unlock or the reset was accepted; a forced stop
\* that failed is told as no success.
EndForceStop(r) ==
  /\ kind[r] = "ForceStop"
  /\ HasReturned(r)
  /\ \/ sending[r] = "UnlockConnector" /\ ~ResetIsNeeded(r)
     \/ sending[r] = "Reset"
  /\ Tell(r, IF \E c \in {"Generic", "UnlockConnector", "Reset"} : Accepted(<<r, c>>)
             THEN "success" ELSE "no success")

-----------------------------------------------------------------------------
\* Shutdown: no more requests, and five seconds for those in progress, which
\* may take minutes.
Shutdown ==
  /\ server = "up"
  /\ server' = "closing"
  /\ UNCHANGED <<kind, sending, answer, callVars>>

Exit ==
  /\ server = "closing"
  /\ server' = "down"
  /\ UNCHANGED <<kind, sending, answer, callVars>>

Exited == server = "down" /\ UNCHANGED vars

Receive(r) ==
  \/ \E k \in Commands : Begin(r, k, k)
  \/ Begin(r, "ForceStop", "TriggerMessage")
  \/ \E k \in Kinds : Refuse(r, k)

Handle(r) ==
  \/ HandleRemoteStart(r) \/ HandleRemoteStop(r) \/ HandleReset(r)
  \/ HandleUnlockConnector(r) \/ HandleChangeConfiguration(r) \/ HandleClearCache(r)
  \/ HandleTriggerMessage(r) \/ HandleGetConfiguration(r) \/ HandleGenericCommand(r)
  \/ StopBlindly(r) \/ Unlock(r) \/ ResetAtLast(r) \/ EndForceStop(r)

Next ==
  \/ \E r \in Requests : Receive(r) \/ Send(r) \/ Return(r) \/ Handle(r)
  \/ \E m \in Calls, what \in Sayings : Reply(m, what)
  \/ Shutdown \/ Exit \/ Exited

Spec == Init /\ [][Next]_vars

\* Handlers run, and every call returns (EveryCallReturns of CommandManager: as
\* long as no write to the connection blocks for ever).
Fairness == \A r \in Requests : WF_vars(Send(r) \/ Return(r) \/ Handle(r))

FairSpec == Spec /\ Fairness

-----------------------------------------------------------------------------
(* Safety. *)

\* A client that is told success was not told so for nothing: the charge point
\* itself accepted a command of this very request (for a generic command and
\* the configuration: answered it), never the trigger of a forced stop alone,
\* and never an answer to another request.
SuccessIsEarned ==
  \A r \in Requests : answer[r] = "success" =>
    \E m \in replied \cap ({r} \X (Commands \ (IF kind[r] = "ForceStop" THEN {"TriggerMessage"} ELSE {}))) :
      kind[r] \in {"GetConfiguration", "Generic"} \/ says[m] = "Accepted"

\* A forced stop resets the charge point only "as a last resort"
\* (api_commands.go:284): after the stop and the unlock are over, and neither
\* was accepted in time.
ResetIsLast ==
  \A r \in Requests : kind[r] = "ForceStop" /\ status[<<r, "Reset">>] # "idle" =>
    \A c \in {"Generic", "UnlockConnector"} :
      status[<<r, c>>] \in Over /\ ~Accepted(<<r, c>>)

(* Liveness. *)

\* Every request is answered, after at most four calls, whether the charge point
\* answers them or not, unless the process ends first.  Every call returns, so
\* no write to the connection blocks for ever: see EveryCallReturns of
\* CommandManager for what becomes of a call otherwise.
EveryRequestIsAnswered ==
  \A r \in Requests : kind[r] # Nothing ~> answer[r] # Nothing \/ server = "down"

(* What the code does not keep. *)

\* "Only do a reset if the previous methods failed" (api_commands.go:288): a
\* charge point that accepted the stop or the unlock after the call had timed
\* out is reset all the same.
ResetOnlyAfterFailure ==
  \A r \in Requests : kind[r] = "ForceStop" /\ status[<<r, "Reset">>] = "asked" =>
    says[<<r, "Generic">>] # "Accepted" /\ says[<<r, "UnlockConnector">>] # "Accepted"

\* A client that is told of a failure can repeat the request: nothing was done.
FailureMeansNotDone ==
  \A r \in Requests : answer[r] = "failed" =>
    \A c \in Commands : says[<<r, c>>] # "Accepted"

=============================================================================
