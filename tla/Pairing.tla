------------------------------- MODULE Pairing -------------------------------
(***************************************************************************)
(* Commissioning: the gateway's pairing window (GatewayStatus.cpp,         *)
(* CommissioningService.cpp, the pairing handlers), its radio profile      *)
(* (RadioService.cpp), its registry (NodeRegistry.cpp,                     *)
(* NodeRegistryStore.cpp) and the nodes that join (the node's              *)
(* CommissioningService.cpp).                                              *)
(*                                                                         *)
(* Three gateway tasks ask the radio task to switch its profile and wait   *)
(* for the answer: the web server, the main loop and the commissioning     *)
(* task.  Whatever they do after the answer is a step of its own.  A frame *)
(* is heard by a radio on the same profile, or lost.                       *)
(***************************************************************************)
EXTENDS Integers, Sequences, FiniteSets, SequencesExt

CONSTANTS
  Device,       \* devices; each has a UID and a factory key of its own
  NoDevice,     \* no device
  Nonce,        \* join nonces; a node draws one that is nowhere in use
  NoRecord,     \* the device has no registry record
  MaxNodes,     \* registry capacity and node IDs
  QueueDepth,   \* commands the radio task's queue holds
  InboxDepth,   \* frames the commissioning task's queue holds
  MaxOpens,     \* bound: pairing windows opened
  MaxFaults     \* bound: restarts, failed saves and calls given up, together

ASSUME DeviceAssumption == NoDevice \notin Device /\ NoRecord \notin Device
ASSUME BoundsAssumption ==
  /\ MaxNodes \in Nat \ {0} /\ QueueDepth \in Nat \ {0} /\ InboxDepth \in Nat \ {0}
  /\ MaxOpens \in Nat /\ MaxFaults \in Nat

VARIABLES
  registry, stored,  \* records in RAM, and what a boot would load
  radio,     \* the profile, and the pairing key (a device's, or none)
  queue,     \* commands of the radio task
  call,      \* for each caller, its synchronous call of the radio task
  window,    \* pairingEndsAt: "closed", "open", or "due" when it has passed
  expected,  \* expectedDeviceUid
  awaiting,  \* awaitingConfirm
  inbox,     \* frames of the commissioning task
  doing,     \* for each caller, what it was doing when it called
  node,      \* the devices
  parted,    \* devices deleted or reset since their last reservation
  used       \* windows opened and faults so far

gateway == <<registry, stored, window, expected, awaiting, inbox, doing>>
vars == <<gateway, radio, queue, call, node, parted, used>>

Caller == {"web", "loop", "task"}
NodeId == 1 .. MaxNodes
Record == [id : NodeId, nonce : Nonce, state : {"Pending", "Active"}]
Command ==
  [kind : {"Begin", "Commissioning", "Operational", "Accept", "Complete"},
   device : Device \cup {NoDevice}, record : Record \cup {NoRecord},
   by : Caller \cup {"nobody"}]
Frame == [kind : {"JoinRequest", "JoinConfirm"}, device : Device, id : NodeId \cup {0},
          nonce : Nonce]
Silent == "none"
Node == [state : {"Unconfigured", "Provisional", "Active"}, id : NodeId \cup {0},
         nonce : Nonce \cup {Silent}]
Registry == [Device -> Record \cup {NoRecord}]

ASSUME MarksAssumption == Silent \notin Nonce /\ NoRecord \notin Record

NewNode == [state |-> "Unconfigured", id |-> 0, nonce |-> Silent]
Operational == [profile |-> "Operational", key |-> NoDevice]
NoCall == [state |-> "none", command |-> NoRecord]

TypeOK ==
  /\ registry \in Registry /\ stored \in Registry
  /\ radio \in [profile : {"Operational", "Commissioning"}, key : Device \cup {NoDevice}]
  /\ queue \in Seq(Command) /\ Len(queue) <= QueueDepth
  /\ \A caller \in Caller :
       call[caller].state \in {"none", "entering", "waiting", "ok", "failed"}
  /\ window \in {"closed", "open", "due"}
  /\ expected \in Device \cup {NoDevice}
  /\ awaiting \in BOOLEAN
  /\ inbox \in Seq(Frame) /\ Len(inbox) <= InboxDepth
  /\ node \in [Device -> Node]
  /\ parted \subseteq Device
  /\ \A d, e \in Device :
       d # e /\ registry[d] # NoRecord /\ registry[e] # NoRecord
         => registry[d].id # registry[e].id

Init ==
  /\ registry = [d \in Device |-> NoRecord]
  /\ stored = registry
  /\ radio = Operational
  /\ queue = << >>
  /\ call = [caller \in Caller |-> NoCall]
  /\ window = "closed"
  /\ expected = NoDevice
  /\ awaiting = FALSE
  /\ inbox = << >>
  /\ doing = [caller \in Caller |-> "idle"]
  /\ node = [d \in Device |-> NewNode]
  /\ parted = {}
  /\ used = [opens |-> 0, faults |-> 0]

-----------------------------------------------------------------------------
(* Calls of the radio task *)

NewCommand(kind, device, record) ==
  [kind |-> kind, device |-> device, record |-> record, by |-> "nobody"]

\* A restart, a failed save, or a call given up.
Fault == used.faults < MaxFaults /\ used' = [used EXCEPT !.faults = @ + 1]

\* synchronousCommandMutex is held from queueing to the answer.
MutexHeld == \E caller \in Caller : call[caller].state = "waiting"

Enqueue(caller, command) ==
  IF Len(queue) < QueueDepth
  THEN /\ queue' = Append(queue, [command EXCEPT !.by = caller])
       /\ call' = [call EXCEPT ![caller] = [NoCall EXCEPT !.state = "waiting"]]
  ELSE /\ call' = [call EXCEPT ![caller] = [NoCall EXCEPT !.state = "failed"]]
       /\ UNCHANGED queue

\* queueAndWaitForCompletion() of a caller that was doing something.
Call(caller, command, what) ==
  /\ doing' = [doing EXCEPT ![caller] = what]
  /\ IF MutexHeld
     THEN /\ call' = [call EXCEPT ![caller] = [state |-> "entering", command |-> command]]
          /\ UNCHANGED queue
     ELSE Enqueue(caller, command)

Enter(caller) ==
  /\ call[caller].state = "entering"
  /\ ~MutexHeld
  /\ Enqueue(caller, call[caller].command)
  /\ UNCHANGED <<gateway, radio, node, parted, used>>

\* kCommandCompletionTimeout: the command stays queued, and its completion will
\* answer nobody.
GiveUp(caller) ==
  /\ Fault
  /\ call[caller].state \in {"entering", "waiting"}
  /\ call' = [call EXCEPT ![caller] = [NoCall EXCEPT !.state = "failed"]]
  /\ queue' = [i \in DOMAIN queue |->
                 IF queue[i].by = caller THEN [queue[i] EXCEPT !.by = "nobody"]
                 ELSE queue[i]]
  /\ UNCHANGED <<gateway, radio, node, parted>>

Answered(caller, what, answer) == doing[caller] = what /\ call[caller].state = answer

\* The caller goes on after the answer.
Return(caller) ==
  /\ call' = [call EXCEPT ![caller] = NoCall]
  /\ doing' = [doing EXCEPT ![caller] = "idle"]

\* Mutant: the key is kept when the operational profile comes back.
ProfileKeepingKey(command) ==
  CASE command.kind = "Begin" -> [profile |-> "Commissioning", key |-> command.device]
    [] command.kind \in {"Operational", "Accept"} -> [radio EXCEPT !.profile = "Operational"]
    [] command.kind = "Commissioning" /\ radio.key # NoDevice ->
         [radio EXCEPT !.profile = "Commissioning"]
    [] OTHER -> radio

\* processCommand(): the profile afterwards.  commissioningEnabled is TRUE while
\* there is a pairing key.
ProfileAfter(command) ==
  CASE command.kind = "Begin" -> [profile |-> "Commissioning", key |-> command.device]
    [] command.kind \in {"Operational", "Accept"} -> Operational
    [] command.kind = "Commissioning" /\ radio.key # NoDevice ->
         [radio EXCEPT !.profile = "Commissioning"]
    [] OTHER -> radio

\* The frame of this command reaches its device, which waits for it: an
\* unconfigured node with a nonce for its accept, a provisional one for its
\* complete, in the window of this or of a later attempt.
Reaches(command) ==
  LET d == command.device IN
  \/ /\ command.kind = "Accept"
     /\ radio = [profile |-> "Commissioning", key |-> d]
     /\ node[d].state = "Unconfigured" /\ node[d].nonce = command.record.nonce
  \/ /\ command.kind = "Complete"
     /\ radio.profile = "Operational"
     /\ node[d].state = "Provisional"
     /\ node[d].id = command.record.id /\ node[d].nonce = command.record.nonce

\* The node takes the frame: it is provisional, or active.
Joins(command) ==
  LET d == command.device IN
  IF command.kind = "Accept"
  THEN node' = [node EXCEPT ![d] = [state |-> "Provisional", id |-> command.record.id,
                                    nonce |-> command.record.nonce]]
  ELSE node' = [node EXCEPT ![d].state = "Active"]

RadioStep(delivered) ==
  /\ queue # << >>
  /\ LET command == Head(queue) IN
     /\ queue' = Tail(queue)
     /\ radio' = ProfileAfter(command)
     /\ call' = IF command.by = "nobody" THEN call
                ELSE [call EXCEPT ![command.by] = [NoCall EXCEPT !.state = "ok"]]
     /\ IF delivered THEN Reaches(command) /\ Joins(command) ELSE UNCHANGED node
  /\ UNCHANGED <<gateway, parted, used>>

-----------------------------------------------------------------------------
(* The registry *)

Records == {d \in Device : registry[d] # NoRecord}
FreeIds == NodeId \ {registry[d].id : d \in Records}

\* Mutant: the lowest, free or not.
FirstId == 1

\* allocateNodeId(): the lowest free one.
FreeId == CHOOSE id \in FreeIds : \A other \in FreeIds : id <= other

\* commitCandidateLocked(), saved.
Saves(candidate) == registry' = candidate /\ stored' = candidate /\ UNCHANGED used

\* Reported as failed: a boot may load it all the same.
FailsToSave(candidate) ==
  /\ Fault
  /\ stored' \in {stored, registry, candidate}
  /\ UNCHANGED registry

\* reserve() changes the registry for this device.
CanReserve(d) ==
  IF d \in Records THEN registry[d].state = "Pending" ELSE FreeIds # {}

Reserved(d, nonce) ==
  [id |-> IF d \in Records THEN registry[d].id ELSE FreeId, nonce |-> nonce,
   state |-> "Pending"]

-----------------------------------------------------------------------------
(* The web server and the main loop *)

\* recovery::Guard: held by a pairing handler, and by the button's short press.
GuardFree == doing["web"] = "idle" /\ doing["loop"] # "toggling"

OpenPairing(d) ==
  /\ GuardFree
  /\ registry[d] = NoRecord
  /\ used.opens < MaxOpens
  /\ used' = [used EXCEPT !.opens = @ + 1]
  /\ expected' = d
  /\ Call("web", NewCommand("Begin", d, NoRecord), "opening")
  /\ UNCHANGED <<registry, stored, radio, window, awaiting, inbox, node, parted>>

Opened ==
  /\ Answered("web", "opening", "ok")
  /\ window' = "open"
  /\ Return("web")
  /\ UNCHANGED <<registry, stored, radio, queue, expected, awaiting, inbox, node, parted, used>>

OpenFails ==
  /\ Answered("web", "opening", "failed")
  /\ expected' = NoDevice
  /\ Return("web")
  /\ UNCHANGED <<registry, stored, radio, queue, window, awaiting, inbox, node, parted, used>>

ClosePairing ==
  /\ GuardFree
  /\ used.opens > 0
  /\ window' = "closed"
  /\ Call("web", NewCommand("Operational", NoDevice, NoRecord), "closing")
  /\ UNCHANGED <<registry, stored, radio, expected, awaiting, inbox, node, parted, used>>

Closed ==
  /\ \E answer \in {"ok", "failed"} : Answered("web", "closing", answer)
  /\ expected' = NoDevice
  /\ Return("web")
  /\ UNCHANGED <<registry, stored, radio, queue, window, awaiting, inbox, node, parted, used>>

DeleteNode(d) ==
  /\ GuardFree
  /\ d \in Records
  /\ LET candidate == [registry EXCEPT ![d] = NoRecord] IN
     Saves(candidate) \/ FailsToSave(candidate)
  /\ parted' = parted \cup {d}
  /\ UNCHANGED <<radio, queue, call, window, expected, awaiting, inbox, doing, node>>

\* Time passes.
WindowRunsOut ==
  /\ window = "open"
  /\ window' = "due"
  /\ UNCHANGED <<registry, stored, radio, queue, call, expected, awaiting, inbox, doing, node,
                 parted, used>>

Expire ==
  /\ doing["loop"] = "idle"
  /\ window = "due"
  /\ Call("loop", NewCommand("Operational", NoDevice, NoRecord), "expiring")
  /\ UNCHANGED <<registry, stored, radio, window, expected, awaiting, inbox, node, parted, used>>

\* Whatever the answer, and whatever the window is by now.
Expired ==
  /\ \E answer \in {"ok", "failed"} : Answered("loop", "expiring", answer)
  /\ window' = "closed"
  /\ Return("loop")
  /\ UNCHANGED <<registry, stored, radio, queue, expected, awaiting, inbox, node, parted, used>>

\* togglePairing() of an open window.
PressButton ==
  /\ doing["loop"] = "idle"
  /\ GuardFree
  /\ window = "open"
  /\ Call("loop", NewCommand("Operational", NoDevice, NoRecord), "toggling")
  /\ UNCHANGED <<registry, stored, radio, window, expected, awaiting, inbox, node, parted, used>>

Toggled ==
  /\ \E answer \in {"ok", "failed"} :
       /\ Answered("loop", "toggling", answer)
       /\ window' = IF answer = "ok" THEN "closed" ELSE window
  /\ Return("loop")
  /\ UNCHANGED <<registry, stored, radio, queue, expected, awaiting, inbox, node, parted, used>>

-----------------------------------------------------------------------------
(* The commissioning task *)

TaskIdle == doing["task"] = "idle"

\* A request that handleJoinRequest() goes on with.
Acceptable(frame) == window = "open" /\ ~awaiting /\ frame.device = expected

\* Mutant: the accept is sent before the reservation is saved.
ReservesLater(candidate) == registry' = candidate /\ UNCHANGED <<stored, used>>

ReservesAndSaves(candidate) == Saves(candidate)

HandleJoinRequest ==
  /\ TaskIdle
  /\ inbox # << >> /\ Head(inbox).kind = "JoinRequest"
  /\ inbox' = Tail(inbox)
  /\ LET frame == Head(inbox)
         d == frame.device
         record == Reserved(d, frame.nonce)
         candidate == [registry EXCEPT ![d] = record]
     IN
     IF Acceptable(frame) /\ CanReserve(d)
     THEN /\ GuardFree
          /\ \/ /\ ReservesAndSaves(candidate)
                /\ parted' = parted \ {d}
                /\ Call("task", NewCommand("Accept", d, record), "accepting")
             \/ FailsToSave(candidate) /\ UNCHANGED <<call, queue, doing, parted>>
     ELSE UNCHANGED <<registry, stored, used, call, queue, doing, parted>>
  /\ UNCHANGED <<radio, window, expected, awaiting, node>>

Accepted ==
  /\ \E answer \in {"ok", "failed"} :
       /\ Answered("task", "accepting", answer)
       /\ awaiting' = (answer = "ok")
  /\ Return("task")
  /\ UNCHANGED <<registry, stored, radio, queue, window, expected, inbox, node, parted, used>>

\* The device whose record has this ID.
Holder(id) == CHOOSE d \in Records : registry[d].id = id

\* Mutant: the record is taken for the sender's, whatever its UID and nonce.
ConfirmsById(frame) == \E d \in Records : registry[d].id = frame.id

\* confirm(): the record with the sender's ID has the UID and the nonce of the
\* confirm.
Confirms(frame) ==
  \E d \in Records :
    d = frame.device /\ registry[d].id = frame.id /\ registry[d].nonce = frame.nonce

\* Join complete is queued; if it cannot be, the rest is left out.
SendComplete(d, what) ==
  LET command == NewCommand("Complete", d, registry[d]) IN
  IF Len(queue) < QueueDepth
  THEN /\ queue' = Append(queue, command)
       /\ awaiting' = FALSE
       /\ doing' = [doing EXCEPT !["task"] = what]
  ELSE UNCHANGED <<queue, awaiting, doing>>

\* Mutant: a confirm is answered once.
AnswersOnce(d) == UNCHANGED <<queue, awaiting, doing>>

\* AlreadyActive: the complete was lost, and is sent again.
AnswersAgain(d) == SendComplete(d, "idle")

HandleJoinConfirm ==
  /\ TaskIdle
  /\ inbox # << >> /\ Head(inbox).kind = "JoinConfirm"
  /\ inbox' = Tail(inbox)
  /\ LET frame == Head(inbox)
         d == Holder(frame.id)
         candidate == [registry EXCEPT ![d].state = "Active"]
     IN
     /\ GuardFree
     /\ IF ~Confirms(frame)
        THEN UNCHANGED <<registry, stored, used, queue, awaiting, doing>>
        ELSE IF registry[d].state = "Active"
        THEN AnswersAgain(d) /\ UNCHANGED <<registry, stored, used>>
        ELSE \/ Saves(candidate) /\ SendComplete(d, "completing")
             \/ FailsToSave(candidate) /\ UNCHANGED <<queue, awaiting, doing>>
  /\ UNCHANGED <<radio, call, window, expected, node, parted>>

\* A newly confirmed node closes the window.
CloseAfterJoin ==
  /\ doing["task"] = "completing"
  /\ window' = "closed"
  /\ Call("task", NewCommand("Operational", NoDevice, NoRecord), "closing")
  /\ UNCHANGED <<registry, stored, radio, expected, awaiting, inbox, node, parted, used>>

ClosedAfterJoin ==
  /\ \E answer \in {"ok", "failed"} :
       /\ Answered("task", "closing", answer)
       /\ expected' = IF answer = "ok" THEN NoDevice ELSE expected
  /\ Return("task")
  /\ UNCHANGED <<registry, stored, radio, queue, window, awaiting, inbox, node, parted, used>>

\* No confirm in time: returnToPairingIfOpen().  requestProfile() refuses the
\* commissioning profile when there is no pairing key.
ConfirmTimesOut ==
  /\ TaskIdle
  /\ awaiting
  /\ awaiting' = FALSE
  /\ IF window = "open" /\ radio.key # NoDevice
     THEN Call("task", NewCommand("Commissioning", NoDevice, NoRecord), "recovering")
     ELSE UNCHANGED <<queue, call, doing>>
  /\ UNCHANGED <<registry, stored, radio, window, expected, inbox, node, parted, used>>

Recovered ==
  /\ \E answer \in {"ok", "failed"} : Answered("task", "recovering", answer)
  /\ Return("task")
  /\ UNCHANGED <<registry, stored, radio, queue, window, expected, awaiting, inbox, node, parted,
                 used>>

-----------------------------------------------------------------------------
(* The nodes *)

Receives(frame) == Len(inbox) < InboxDepth /\ inbox' = Append(inbox, frame)

InUse ==
  {node[d].nonce : d \in Device} \cup {registry[d].nonce : d \in Records}
    \cup {inbox[i].nonce : i \in DOMAIN inbox}
    \cup {stored[d].nonce : d \in {e \in Device : stored[e] # NoRecord}}
    \cup {queue[i].record.nonce : i \in {j \in DOMAIN queue : queue[j].record # NoRecord}}
    \cup {call[c].command.record.nonce : c \in {e \in Caller :
             call[e].state = "entering" /\ call[e].command.record # NoRecord}}

\* requestJoin(), heard by a radio in the commissioning profile with its key.  A
\* request that is not heard leaves no trace.
RequestJoin(d, nonce) ==
  /\ node[d].state = "Unconfigured" /\ node[d].nonce = Silent
  /\ nonce \in Nonce \ InUse
  /\ node' = [node EXCEPT ![d].nonce = nonce]
  /\ radio = [profile |-> "Commissioning", key |-> d]
  /\ Receives([kind |-> "JoinRequest", device |-> d, id |-> 0, nonce |-> nonce])
  /\ UNCHANGED <<registry, stored, radio, queue, call, window, expected, awaiting, doing,
                 parted, used>>

\* One attempt of confirmJoin(), heard in the operational profile.
ConfirmJoin(d) ==
  /\ node[d].state = "Provisional"
  /\ radio.profile = "Operational"
  /\ Receives([kind |-> "JoinConfirm", device |-> d, id |-> node[d].id,
               nonce |-> node[d].nonce])
  /\ UNCHANGED <<registry, stored, radio, queue, call, window, expected, awaiting, doing, node,
                 parted, used>>

\* No accept in time.
StopWaiting(d) ==
  /\ node[d].state = "Unconfigured" /\ node[d].nonce # Silent
  /\ node' = [node EXCEPT ![d].nonce = Silent]
  /\ UNCHANGED <<gateway, radio, queue, call, parted, used>>

\* The button, held.
ResetNode(d) ==
  /\ node[d].state # "Unconfigured"
  /\ node' = [node EXCEPT ![d] = NewNode]
  /\ parted' = parted \cup {d}
  /\ UNCHANGED <<gateway, radio, queue, call, used>>

-----------------------------------------------------------------------------
Restart ==
  /\ Fault
  /\ registry' = stored
  /\ radio' = Operational
  /\ queue' = << >>
  /\ call' = [caller \in Caller |-> NoCall]
  /\ window' = "closed"
  /\ expected' = NoDevice
  /\ awaiting' = FALSE
  /\ inbox' = << >>
  /\ doing' = [caller \in Caller |-> "idle"]
  /\ UNCHANGED <<stored, node, parted>>

GatewayNext ==
  \/ \E caller \in Caller : Enter(caller) \/ GiveUp(caller)
  \/ \E delivered \in BOOLEAN : RadioStep(delivered)
  \/ \E d \in Device : OpenPairing(d) \/ DeleteNode(d)
  \/ Opened \/ OpenFails \/ ClosePairing \/ Closed
  \/ WindowRunsOut \/ Expire \/ Expired \/ PressButton \/ Toggled
  \/ HandleJoinRequest \/ Accepted \/ HandleJoinConfirm
  \/ CloseAfterJoin \/ ClosedAfterJoin \/ ConfirmTimesOut \/ Recovered
  \/ Restart

NodeNext(d) ==
  \/ \E nonce \in Nonce : RequestJoin(d, nonce)
  \/ ConfirmJoin(d)
  \/ StopWaiting(d)
  \/ ResetNode(d)

Next == GatewayNext \/ \E d \in Device : NodeNext(d)

Spec == Init /\ [][Next]_vars

\* The gateway's tasks run, and the mutex goes to a task that waits for it.  A
\* confirm or a complete is not lost for ever, and a provisional node goes on
\* trying (JoinRetrySchedule: hourly, without end).
Fairness ==
  /\ \A caller \in Caller : SF_vars(Enter(caller))
  /\ WF_vars(\E delivered \in BOOLEAN : RadioStep(delivered))
  /\ SF_vars(RadioStep(TRUE))
  /\ WF_vars(Opened \/ OpenFails \/ Closed)
  /\ WF_vars(WindowRunsOut)
  /\ WF_vars(Expire \/ Expired \/ Toggled)
  /\ WF_vars(HandleJoinRequest)
  /\ SF_vars(HandleJoinConfirm)
  /\ WF_vars(Accepted \/ CloseAfterJoin \/ ClosedAfterJoin \/ ConfirmTimesOut \/ Recovered)
  /\ \A d \in Device :
       /\ WF_vars(StopWaiting(d))
       /\ SF_vars(ConfirmJoin(d))

FairSpec == Spec /\ Fairness

-----------------------------------------------------------------------------
(* Properties *)

Matches(record, d) ==
  record # NoRecord /\ record.id = node[d].id /\ record.nonce = node[d].nonce

\* A node with a configuration from the gateway, neither deleted nor reset
\* since, is in the registry under its ID and nonce, also after a restart and
\* whatever saves failed: its confirm is accepted at any time.  An active one
\* is recorded as active (handleJoinRequest, handleJoinConfirm, confirm).
JoinedIsRegistered ==
  \A d \in Device \ parted :
    /\ node[d].state # "Unconfigured" => Matches(registry[d], d) /\ Matches(stored[d], d)
    /\ node[d].state = "Active" =>
         registry[d].state = "Active" /\ stored[d].state = "Active"

\* The gateway takes no node for active that never accepted: its record became
\* active by a confirm of the configuration the node still has (confirm).
ActiveHasJoined ==
  \A d \in Device \ parted :
    registry[d] # NoRecord /\ registry[d].state = "Active"
      => node[d].state # "Unconfigured" /\ Matches(registry[d], d)

\* Nobody is in the middle of anything.
AtRest ==
  /\ queue = << >>
  /\ \A caller \in Caller : doing[caller] = "idle"

\* API.md: "The key is wiped when pairing succeeds, is closed, or expires."
KeyWipedAfterPairing == AtRest /\ window = "closed" => radio = Operational

\* A provisional node becomes active although frames are lost, saves fail and
\* the gateway restarts, unless it is deleted or reset (README.md of the node).
ProvisionalJoins ==
  \A d \in Device :
    node[d].state = "Provisional" ~> node[d].state = "Active" \/ d \in parted

=============================================================================
