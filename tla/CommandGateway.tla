---------------------------- MODULE CommandGateway ----------------------------
(***************************************************************************)
(* The gateway's side of command sessions (gateway/src/CommandService.cpp) *)
(* with the parts of its neighbours that session handling depends on:      *)
(*                                                                         *)
(*  - the web task queues and cancels commands and deletes nodes;          *)
(*  - the radio task puts session frames of active nodes into a bounded    *)
(*    queue and transmits the frames of another one;                       *)
(*  - the commands task takes session frames and answers them.             *)
(*                                                                         *)
(* The command book is kept in RAM and in a dual-slot NVS store.  A commit *)
(* writes the store first and changes RAM only if the write was verified;  *)
(* a write reported as failed may still be what the next boot loads.       *)
(***************************************************************************)
EXTENDS CommandBook, FiniteSets

CONSTANTS
  SessionQueueDepth,  \* kSessionQueueDepth
  RadioQueueDepth,    \* kCommandQueueDepth of the radio task
  FirstCommandIds,    \* bound: the random IDs an installation may start with
  MaxFaults,          \* bound: gateway restarts and failed commits
  MaxConfirms         \* bound: commissionings confirmed

ASSUME FirstCommandIdsAssumption == FirstCommandIds \subseteq CommandId
ASSUME SessionQueueDepthAssumption == SessionQueueDepth \in Nat \ {0}
ASSUME RadioQueueDepthAssumption == RadioQueueDepth \in Nat \ {0}

VARIABLES
  registry,       \* durable: the device registered as active under each ID
  nvs,            \* the book the next boot loads
  book,           \* the book in RAM
  deliveries,     \* RAM: the session each node's command was last sent in
  handler,        \* commands task: the Command ready it is answering
  deleting,       \* web task: the node it is deleting, or NoNode
  sessionFrames,  \* queue from the radio task to the commands task
  radioSends,     \* queue from the commands task to the radio task
  issued,         \* history: every command that has been in the RAM book
  faults,         \* history: restarts and failed commits so far
  confirmed       \* history: the IDs that were registered, in order

gatewayVars ==
  <<registry, nvs, book, deliveries, handler, deleting, sessionFrames,
    radioSends, issued, faults, confirmed>>

Delivery == [nonce : Nonce \cup {NoNonce}, commandId : CommandId \cup {NoCommandId}]
NoDelivery == [nonce |-> NoNonce, commandId |-> NoCommandId]

\* The commands task between reading a node's identity and locking the book.
Idle == [node |-> NoNode, nonce |-> NoNonce, uid |-> NoDevice]
Answering == [node : NodeId, nonce : Nonce, uid : Device \cup {NoDevice}]

\* A command, and how many registrations preceded it.
Issue == [commandId : CommandId, uid : Device, node : NodeId, count : Count,
          registrations : Nat]

IssueOf(record) ==
  [commandId |-> record.commandId, uid |-> record.uid, node |-> record.nodeId,
   count |-> record.count, registrations |-> Len(confirmed)]

Active(n) == registry[n] # NoDevice

IdsOf(issues) == {issues[i].commandId : i \in 1 .. Len(issues)}

IssuedIds == IdsOf(issued)

GatewayTypeOK ==
  /\ registry \in [NodeId -> Device \cup {NoDevice}]
  /\ nvs \in Book
  /\ book \in Book
  /\ deliveries \in [NodeId -> Delivery]
  /\ handler \in Answering \cup {Idle}
  /\ deleting \in NodeId \cup {NoNode}
  /\ sessionFrames \in Seq(SessionFrame)
  /\ radioSends \in Seq(DownlinkFrame)
  /\ issued \in Seq(Issue)
  /\ faults \in Nat
  /\ confirmed \in Seq(NodeId)

\* A gateway whose stores were saved before and hold no command.  The first
\* command ID of an installation is drawn at random.
GatewayInit ==
  /\ registry = [n \in NodeId |-> NoDevice]
  /\ \E id \in FirstCommandIds : nvs = [records |-> << >>, nextCommandId |-> id]
  /\ book = nvs
  /\ deliveries = [n \in NodeId |-> NoDelivery]
  /\ handler = Idle
  /\ deleting = NoNode
  /\ sessionFrames = << >>
  /\ radioSends = << >>
  /\ issued = << >>
  /\ faults = 0
  /\ confirmed = << >>

-----------------------------------------------------------------------------
\* commitCandidate() with a verified write: RAM follows the store.
CommitSaved(candidate) ==
  /\ nvs' = candidate
  /\ book' = candidate
  /\ UNCHANGED faults

\* Mutant: RAM follows the candidate before the write is known to be good.
CommitFailedPublished(candidate) ==
  /\ faults < MaxFaults
  /\ faults' = faults + 1
  /\ nvs' \in {nvs, candidate, book}
  /\ book' = candidate

\* commitCandidate() whose write was reported as failed: RAM is unchanged, and
\* the inactive slot holds what it held, the candidate, or nothing that loads.
CommitFailed(candidate) ==
  /\ faults < MaxFaults
  /\ faults' = faults + 1
  /\ nvs' \in {nvs, candidate, book}
  /\ UNCHANGED book

\* radio::send(): a frame for a full queue is dropped.
Send(frame) ==
  radioSends' = IF Len(radioSends) < RadioQueueDepth
                THEN Append(radioSends, frame)
                ELSE radioSends

NoCommandTo(n, nonce) == [kind |-> "NoCommand", target |-> n, nonce |-> nonce]

CommandTo(n, nonce, record) ==
  [kind |-> "Command", target |-> n, nonce |-> nonce,
   commandId |-> record.commandId, count |-> record.count]

-----------------------------------------------------------------------------
(* Web task.  Its handlers run one at a time. *)

\* The model stops issuing commands before the sequence of IDs has gone once
\* around: 65535 commands of one installation.
IdsLeft == book.nextCommandId \notin IssuedIds

\* POST /ui/commands
QueueCommand(n, value) ==
  /\ deleting = NoNode
  /\ Active(n)
  /\ IdsLeft
  /\ QueueStatus(book, registry[n], n) = "Queued"
  /\ LET candidate == Queued(book, registry[n], n, value) IN
     \/ /\ CommitSaved(candidate)
        /\ deliveries' = [deliveries EXCEPT ![n] = NoDelivery]
        /\ issued' = Append(issued, IssueOf(NewRecord(book, registry[n], n, value)))
     \/ /\ CommitFailed(candidate)
        /\ UNCHANGED <<deliveries, issued>>
  /\ UNCHANGED <<registry, handler, deleting, sessionFrames, radioSends, confirmed>>

\* DELETE /ui/commands.  The delivery is left as it is.
CancelCommand(n) ==
  /\ deleting = NoNode
  /\ CanCancel(book, n)
  /\ CommitSaved(Without(book, n)) \/ CommitFailed(Without(book, n))
  /\ UNCHANGED <<registry, deliveries, handler, deleting, sessionFrames,
                 radioSends, issued, confirmed>>

\* DELETE /ui/nodes, first commit: the registry record.
DeleteNode(n) ==
  /\ deleting = NoNode
  /\ Active(n)
  /\ registry' = [registry EXCEPT ![n] = NoDevice]
  /\ deleting' = n
  /\ UNCHANGED <<nvs, book, deliveries, handler, sessionFrames, radioSends,
                 issued, faults, confirmed>>

\* DELETE /ui/nodes, second commit: the command record, best effort.
DeleteRecord ==
  /\ deleting # NoNode
  /\ IF HasRecord(book, deleting)
     THEN \/ CommitSaved(Without(book, deleting))
          \/ CommitFailed(Without(book, deleting))
     ELSE UNCHANGED <<nvs, book, faults>>
  /\ deliveries' = [deliveries EXCEPT ![deleting] = NoDelivery]
  /\ deleting' = NoNode
  /\ UNCHANGED <<registry, handler, sessionFrames, radioSends, issued, confirmed>>

-----------------------------------------------------------------------------
(* Commissioning task: a Join confirm makes the reserved ID active.  An ID *)
(* is the lowest free one.                                                 *)
ConfirmNode(n, d) ==
  /\ Len(confirmed) < MaxConfirms
  /\ deleting = NoNode
  /\ ~Active(n)
  /\ \A m \in NodeId : m < n => Active(m)
  /\ \A m \in NodeId : registry[m] # d
  /\ registry' = [registry EXCEPT ![n] = d]
  /\ confirmed' = Append(confirmed, n)
  /\ UNCHANGED <<nvs, book, deliveries, handler, deleting, sessionFrames,
                 radioSends, issued, faults>>

-----------------------------------------------------------------------------
(* Radio task *)

\* A session frame is queued if its sender is an active node and there is room.
CanQueueFrame(frame) ==
  Active(frame.sender) /\ Len(sessionFrames) < SessionQueueDepth

QueueFrame(frame) ==
  /\ CanQueueFrame(frame)
  /\ sessionFrames' = Append(sessionFrames, frame)
  /\ UNCHANGED <<registry, nvs, book, deliveries, handler, deleting, radioSends,
                 issued, faults, confirmed>>

\* The frame at the head of the queue has left the antenna.
EndTransmission ==
  /\ radioSends # << >>
  /\ radioSends' = Tail(radioSends)
  /\ UNCHANGED <<registry, nvs, book, deliveries, handler, deleting,
                 sessionFrames, issued, faults, confirmed>>

-----------------------------------------------------------------------------
(* Commands task *)

NextFrameIs(kind) ==
  /\ handler = Idle
  /\ sessionFrames # << >>
  /\ Head(sessionFrames).kind = kind

\* handleCommandReady() without a pending command: answered without a lock.
AnswerEmptySession ==
  /\ NextFrameIs("CommandReady")
  /\ LET frame == Head(sessionFrames) IN
     /\ ~HasPending(book, frame.sender)
     /\ Send(NoCommandTo(frame.sender, frame.nonce))
  /\ sessionFrames' = Tail(sessionFrames)
  /\ UNCHANGED <<registry, nvs, book, deliveries, handler, deleting, issued,
                 faults, confirmed>>

\* handleCommandReady() up to its lock: the node's identity has been read.
ReadIdentity ==
  /\ NextFrameIs("CommandReady")
  /\ LET frame == Head(sessionFrames) IN
     /\ HasPending(book, frame.sender)
     /\ handler' = [node |-> frame.sender, nonce |-> frame.nonce,
                    uid |-> registry[frame.sender]]
  /\ sessionFrames' = Tail(sessionFrames)
  /\ UNCHANGED <<registry, nvs, book, deliveries, deleting, radioSends, issued,
                 faults, confirmed>>

\* Mutant: a command is sent once, as if no frame were ever lost.
CanDeliverOnce(n, uid) ==
  /\ uid # NoDevice
  /\ IsBusy(book, uid, n)
  /\ deliveries[n].commandId # RecordOf(book, n).commandId

\* The record the lock section of handleCommandReady() may deliver.
CanDeliver(n, uid) ==
  /\ uid # NoDevice
  /\ IsBusy(book, uid, n)

\* handleCommandReady() from its lock on: the command is sent, and remembered
\* as delivered in this session even if the radio queue drops it.
DeliverCommand ==
  /\ handler # Idle
  /\ LET n == handler.node
         record == RecordOf(book, n)
     IN /\ CanDeliver(n, handler.uid)
        /\ deliveries' = [deliveries EXCEPT ![n] =
             [nonce |-> handler.nonce, commandId |-> record.commandId]]
        /\ Send(CommandTo(n, handler.nonce, record))
  /\ handler' = Idle
  /\ UNCHANGED <<registry, nvs, book, deleting, sessionFrames, issued, faults,
                 confirmed>>

\* The command was cancelled, deleted or completed before the lock was taken,
\* or is another device's.
WithholdCommand ==
  /\ handler # Idle
  /\ ~CanDeliver(handler.node, handler.uid)
  /\ Send(NoCommandTo(handler.node, handler.nonce))
  /\ handler' = Idle
  /\ UNCHANGED <<registry, nvs, book, deliveries, deleting, sessionFrames,
                 issued, faults, confirmed>>

\* The result belongs to the latest delivery to an active node, and completes
\* the node's pending command.
Completes(frame) ==
  LET n == frame.sender IN
  /\ Active(n)
  /\ deliveries[n] = [nonce |-> frame.nonce, commandId |-> frame.commandId]
  /\ CompleteStatus(book, registry[n], n, frame.commandId, frame.result) = "Completed"

\* handleCommandResult() of a result that is recorded.  The handler holds the
\* recovery guard throughout, so no web handler is half done.
RecordResult ==
  /\ NextFrameIs("CommandResult")
  /\ deleting = NoNode
  /\ LET frame == Head(sessionFrames)
         candidate == Completed(book, frame.sender, frame.result)
     IN /\ Completes(frame)
        /\ CommitSaved(candidate) \/ CommitFailed(candidate)
  /\ sessionFrames' = Tail(sessionFrames)
  /\ UNCHANGED <<registry, deliveries, handler, deleting, radioSends, issued,
                 confirmed>>

\* handleCommandResult() of a duplicate, stale, malformed or retryable result.
DiscardResult ==
  /\ NextFrameIs("CommandResult")
  /\ deleting = NoNode
  /\ ~Completes(Head(sessionFrames))
  /\ sessionFrames' = Tail(sessionFrames)
  /\ UNCHANGED <<registry, nvs, book, deliveries, handler, deleting, radioSends,
                 issued, faults, confirmed>>

-----------------------------------------------------------------------------
\* The commands a boot finds in the store and that RAM has not held before: one
\* whose queueing was reported as failed although it reached the store.
LoadedCommands ==
  {i \in Positions(nvs) : nvs.records[i].commandId \notin IssuedIds}

\* Power loss or restart: RAM is lost and the store is loaded again.
RestartGateway ==
  /\ faults < MaxFaults
  /\ faults' = faults + 1
  /\ book' = nvs
  /\ deliveries' = [n \in NodeId |-> NoDelivery]
  /\ handler' = Idle
  /\ deleting' = NoNode
  /\ sessionFrames' = << >>
  /\ radioSends' = << >>
  /\ issued' = IF LoadedCommands = {} THEN issued
               ELSE Append(issued, IssueOf(nvs.records[CHOOSE i \in LoadedCommands : TRUE]))
  /\ UNCHANGED <<registry, nvs, confirmed>>

CommandsTask ==
  \/ AnswerEmptySession
  \/ ReadIdentity
  \/ DeliverCommand
  \/ WithholdCommand
  \/ RecordResult
  \/ DiscardResult

\* The steps that need nobody outside the gateway.
GatewayStep ==
  \/ \E n \in NodeId :
       \/ \E value \in Count : QueueCommand(n, value)
       \/ CancelCommand(n)
       \/ DeleteNode(n)
  \/ DeleteRecord
  \/ CommandsTask
  \/ RestartGateway

-----------------------------------------------------------------------------
(* Properties of the gateway, whatever the nodes do. *)

\* Every command on its way to a node is one the user queued for that node ID,
\* with the argument the user gave, also when the book changed while the frame
\* was being prepared (CommandService handleCommandReady).
CommandsWereQueued ==
  \A i \in 1 .. Len(radioSends) :
    LET frame == radioSends[i] IN
    frame.kind = "Command" =>
      \E j \in 1 .. Len(issued) :
        /\ issued[j].node = frame.target
        /\ issued[j].commandId = frame.commandId
        /\ issued[j].count = frame.count

\* The book as the store would hold it after one more operation.
OneStepAhead(store, b) ==
  \E n \in NodeId :
    \/ store = Without(b, n)
    \/ \E d \in Device, value \in Count :
         QueueStatus(b, d, n) = "Queued" /\ store = Queued(b, d, n, value)
    \/ \E result \in Result : HasRecord(b, n) /\ store = Completed(b, n, result)

\* What the next boot loads is the book the users see, or that book with the one
\* operation whose write was reported as failed: an operation that was reported
\* as done is never undone by a restart, however many writes failed before or
\* after it (DualSlotStore::save, commitCandidate).
StoreIsCurrent == nvs = book \/ OneStepAhead(nvs, book)

=============================================================================
