---------------------------- MODULE CommandSession ----------------------------
(***************************************************************************)
(* Command sessions end to end: a gateway, the nodes that fetch commands   *)
(* from it, and the radio between them (protocol/PROTOCOL.md, "Sleeping-   *)
(* node command session").                                                 *)
(*                                                                         *)
(* A frame a node sends is either put into the gateway's queue or lost.  A *)
(* frame the gateway sends is heard by any node that listens under its     *)
(* target address while it is at the head of the radio queue, or by none.  *)
(* An acknowledgement of a result can be lost on its own, which makes the  *)
(* node repeat a result the gateway already has.                           *)
(***************************************************************************)
EXTENDS CommandGateway, CounterNode

CONSTANT
  PromptGateway  \* TRUE: no window closes, and no session opens, while the
                 \* gateway still has an answer for the node under way

ASSUME PromptGatewayAssumption == PromptGateway \in BOOLEAN

vars == <<gatewayVars, nodeVars>>

TypeOK == GatewayTypeOK /\ NodeTypeOK

Init == GatewayInit /\ NodeInit

-----------------------------------------------------------------------------
\* createNonce() hashes the microsecond clock: no frame of an earlier session
\* and no delivery still carries the nonce of a new one.
NoncesInUse ==
  {sessionFrames[i].nonce : i \in 1 .. Len(sessionFrames)}
    \cup {radioSends[i].nonce : i \in 1 .. Len(radioSends)}
    \cup {deliveries[n].nonce : n \in NodeId}
    \cup {session[d].nonce : d \in Device}
    \cup {handler.nonce}

\* The gateway still works on a frame from, or an answer to, this node ID.
AnswerUnderWay(n) ==
  \/ \E i \in 1 .. Len(sessionFrames) : sessionFrames[i].sender = n
  \/ \E i \in 1 .. Len(radioSends) : radioSends[i].target = n
  \/ handler.node = n

InTime(d) == PromptGateway => ~AnswerUnderWay(config[d].nodeId)

OpenSession(d, nonce) ==
  /\ InTime(d)
  /\ nonce \notin NoncesInUse
  /\ StartSession(d, nonce)
  /\ UNCHANGED gatewayVars

Ready(d) == [kind |-> "CommandReady", sender |-> config[d].nodeId, nonce |-> session[d].nonce]

ReadyHeard(d) ==
  /\ SendReady(d)
  /\ QueueFrame(Ready(d))

ReadyLost(d) ==
  /\ SendReady(d)
  /\ UNCHANGED gatewayVars

WindowCloses(d) ==
  /\ InTime(d)
  /\ AttemptOver(d)
  /\ UNCHANGED gatewayVars

\* The frame on the air is addressed to d, which is listening.
OnAir(d) ==
  /\ radioSends # << >>
  /\ At(d, "listen")
  /\ Head(radioSends).target = config[d].nodeId

OnAirForSession(d, kind) ==
  /\ OnAir(d)
  /\ Head(radioSends).kind = kind
  /\ Head(radioSends).nonce = session[d].nonce

ReceiveNoCommand(d) ==
  /\ OnAirForSession(d, "NoCommand")
  /\ HearNoCommand(d)
  /\ UNCHANGED gatewayVars

ReceiveRedelivery(d) ==
  /\ OnAirForSession(d, "Command")
  /\ HearRedelivery(d, Head(radioSends).commandId)
  /\ UNCHANGED gatewayVars

ReceiveCommand(d) ==
  /\ OnAirForSession(d, "Command")
  /\ HearCommand(d, Head(radioSends).commandId, Head(radioSends).count)
  /\ UNCHANGED gatewayVars

\* A frame of another session ends the window, and nothing else.
ReceiveStale(d) ==
  /\ OnAir(d)
  /\ Head(radioSends).nonce # session[d].nonce
  /\ AttemptOver(d)
  /\ UNCHANGED gatewayVars

ResultOf(d) ==
  [kind |-> "CommandResult", sender |-> config[d].nodeId, nonce |-> session[d].nonce,
   commandId |-> journal[d].commandId, result |-> StoredResult(d)]

\* The result is queued, and its acknowledgement is heard or lost.
ResultHeard(d) ==
  /\ \E acknowledged \in BOOLEAN : SendResult(d, acknowledged)
  /\ QueueFrame(ResultOf(d))

ResultLost(d) ==
  /\ SendResult(d, FALSE)
  /\ UNCHANGED gatewayVars

\* Commissioning, seen from the configurations it ends with.  The reservation
\* of the ID, Join accept and Join confirm are one step: the node's provisional
\* configuration and the gateway's registration appear together.
Join(n, d) ==
  /\ ConfirmNode(n, d)
  /\ Provision(d, n)

\* Join complete, sent to an active registration as often as it is confirmed.
JoinCompletes(d) ==
  /\ config[d].state = "Provisional"
  /\ registry[config[d].nodeId] = d
  /\ Activate(d)
  /\ UNCHANGED gatewayVars

NodeStep(d) ==
  \/ Pulse(d)
  \/ SaveCount(d)
  \/ SaveApplied(d)
  \/ ResetNode(d)
  \/ ResetNetwork(d)
  \/ ForgetCommandIds(d)

Next ==
  \/ GatewayStep /\ UNCHANGED nodeVars
  \/ EndTransmission /\ UNCHANGED nodeVars
  \/ \E d \in Device :
       \/ NodeStep(d) /\ UNCHANGED gatewayVars
       \/ \E nonce \in Nonce : OpenSession(d, nonce)
       \/ ReadyHeard(d)
       \/ ReadyLost(d)
       \/ WindowCloses(d)
       \/ ReceiveNoCommand(d)
       \/ ReceiveRedelivery(d)
       \/ ReceiveCommand(d)
       \/ ReceiveStale(d)
       \/ ResultHeard(d)
       \/ ResultLost(d)
       \/ \E n \in NodeId : Join(n, d)
       \/ JoinCompletes(d)

Spec == Init /\ [][Next]_vars

-----------------------------------------------------------------------------
(* Properties *)

\* A node never applies a command twice, however often it is delivered, its
\* result is lost or either side restarts, until it is commissioned again
\* (SetCountJournal::apply, CommandService handleCommandReady).
AtMostOncePerCommissioning ==
  [][\A d \in Device : ReceiveCommand(d) => Head(radioSends).commandId \notin spent[d]]_vars

\* A result the gateway has recorded as applied is one a device did produce for
\* that command: its counter went from the old count to the one requested, also
\* when results are lost, repeated or late, or either side restarted in between
\* (handleCommandResult, CommandBook::complete).
ResultIsTruth ==
  \A i \in Positions(book) :
    LET record == book.records[i]
    IN record.result.status = "applied" =>
         /\ record.result.data.new = record.count
         /\ \E d \in Device :
              [device |-> d, commandId |-> record.commandId,
               old |-> record.result.data.old, new |-> record.result.data.new] \in effects

\* The counter as set_count promises it: a saved Pending result counts as done.
Settled == [d \in Device |-> IF journal[d].status = "Pending" THEN journal[d].new ELSE count[d]]

Requests ==
  {[commandId |-> issued[i].commandId, count |-> issued[i].count] : i \in 1 .. Len(issued)}

Outcomes ==
  {[commandId |-> record.commandId, old |-> record.result.data.old,
    new |-> record.result.data.new] :
      record \in {r \in Range(book.records) : r.result.status = "applied"}}

OneShot ==
  INSTANCE OneShotCommand
    WITH total <- Settled, requests <- Requests, applied <- spent, results <- Outcomes

\* Sessions, queues, two-step saves and crashes add up to OneShotCommand: each
\* command sets the counter in one step, at most once, to the value requested.
ImplementsOneShot == OneShot!Spec

-----------------------------------------------------------------------------
(* Progress *)

\* The gateway's tasks and the node's loop keep running; a radio that is tried
\* again and again gets through again and again, in each of the three places
\* where the protocol repeats itself.  Nothing is assumed of users, resets or
\* failing stores.
Fairness ==
  /\ WF_vars((CommandsTask \/ DeleteRecord) /\ UNCHANGED nodeVars)
  /\ WF_vars(EndTransmission /\ UNCHANGED nodeVars)
  /\ \A d \in Device :
       /\ WF_vars((SaveCount(d) \/ SaveApplied(d) \/ ForgetCommandIds(d))
                  /\ UNCHANGED gatewayVars)
       /\ WF_vars(\E nonce \in Nonce : OpenSession(d, nonce))
       /\ WF_vars(ReadyHeard(d) \/ ReadyLost(d))
       /\ WF_vars(WindowCloses(d))
       /\ WF_vars(ResultHeard(d) \/ ResultLost(d))
       /\ SF_vars(ReadyHeard(d))
       /\ SF_vars(ReceiveCommand(d) \/ ReceiveRedelivery(d))
       /\ SF_vars(ResultHeard(d))

FairSpec == Spec /\ Fairness

\* Command id waits for a device that is registered and runs under its node ID.
Waiting(id) ==
  \E i \in Positions(book) :
    LET record == book.records[i] IN
    /\ record.state = "Pending"
    /\ record.commandId = id
    /\ registry[record.nodeId] = record.uid
    /\ config[record.uid] = [state |-> "Active", nodeId |-> record.nodeId]

\* Lost frames, lost acknowledgements, duplicates, resets and failed saves delay
\* a command but do not strand it: it completes unless it is cancelled, or its
\* node is deleted or reset (NodeRuntime::runCommandSession, handleCommandReady,
\* handleCommandResult).
CommandSettles == \A id \in CommandId : Waiting(id) ~> ~Waiting(id)

\* A node never stays awake: every session ends, answered or not.
SessionEnds == \A d \in Device : InSession(d) ~> ~InSession(d)

-----------------------------------------------------------------------------
(* A statement of the repository that the code does not keep *)

\* PROTOCOL.md: "Commissioning clears the recorded IDs".
CommissioningClearsIds ==
  \A d \in Device :
    IsActive(d) /\ pc[d] # "activated" =>
      journal[d].commandId \in spent[d] \cup {NoCommandId}

=============================================================================
