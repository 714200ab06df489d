------------------------ MODULE PairingProofs ------------------------
(***************************************************************************)
(* What a deletion, a reset, a restart, a failed save or a call given up   *)
(* between any two steps of a join leaves behind: a node with a            *)
(* configuration is registered with it, and none is taken for active that  *)
(* never confirmed.                                                        *)
(***************************************************************************)
EXTENDS Pairing, WellFoundedInduction, TLAPS

\* What the radio task was asked to send and has not sent: device and record.
UnderWay ==
  {queue[i] : i \in DOMAIN queue}
    \cup {call[c].command : c \in {e \in Caller : call[e].state = "entering"}}
Sends(kind) ==
  {<<command.device, command.record>> : command \in {c \in UnderWay : c.kind = kind}}
Accepts == Sends("Accept")
Completes == Sends("Complete")

\* What the commissioning task has heard and not handled: device, ID and nonce.
Heard(kind) ==
  {<<frame.device, frame.id, frame.nonce>> :
     frame \in {inbox[i] : i \in {j \in DOMAIN inbox : inbox[j].kind = kind}}}
Confirmed == Heard("JoinConfirm")

\* A record, in RAM or on flash, has the ID and the nonce of another one.
Agrees(record, other) ==
  record # NoRecord /\ record.id = other.id /\ record.nonce = other.nonce

\* The device waits for an accept with this nonce.
Expects(d, nonce) == node[d].state = "Unconfigured" /\ node[d].nonce = nonce

\* Commands are commands, also before they are queued, two devices have different
\* IDs also in what a boot would load, and a configured node has a nonce.
TypeInv ==
  /\ TypeOK
  /\ call \in [Caller -> [state : {"none", "entering", "waiting", "ok", "failed"},
                          command : Command \cup {NoRecord}]]
  /\ \A c \in Caller : call[c].state = "entering" => call[c].command \in Command
  /\ \A command \in UnderWay :
       command.kind \in {"Accept", "Complete"} =>
         command.device \in Device /\ command.record \in Record
  /\ \A d, e \in Device :
       d # e /\ stored[d] # NoRecord /\ stored[e] # NoRecord => stored[d].id # stored[e].id
  /\ \A d \in Device : node[d].state # "Unconfigured" => node[d].nonce # Silent

\* A node's request is the last that it sent, and was handled before it is
\* accepted: nothing reserves again for a node that has, or is being sent, its
\* configuration.
RequestInv ==
  /\ \A i, j \in DOMAIN inbox :
       /\ inbox[i].kind = "JoinRequest" /\ inbox[j].kind = "JoinRequest" /\ i < j
       /\ inbox[i].device = inbox[j].device
       => ~Expects(inbox[i].device, inbox[i].nonce)
  /\ \A i \in DOMAIN inbox : inbox[i].kind = "JoinRequest" =>
       /\ node[inbox[i].device].state = "Unconfigured"
       /\ \A accept \in Accepts :
            accept[1] = inbox[i].device => ~Expects(accept[1], accept[2].nonce)

\* An accept that its device waits for carries what is registered, and a
\* complete that its device waits for was sent when it was active.
SendInv ==
  /\ \A accept \in Accepts :
       accept[1] \notin parted /\ Expects(accept[1], accept[2].nonce) =>
         Agrees(registry[accept[1]], accept[2]) /\ Agrees(stored[accept[1]], accept[2])
  /\ \A complete \in Completes :
       /\ ~Expects(complete[1], complete[2].nonce)
       /\ complete[1] \notin parted /\ node[complete[1]].state = "Provisional"
            /\ Matches(complete[2], complete[1]) =>
              /\ registry[complete[1]].state = "Active"
              /\ stored[complete[1]].state = "Active"

\* A confirm that would be taken is of the configuration the node has.
ConfirmOK(confirm) ==
  /\ ~Expects(confirm[1], confirm[3])
  /\ \A i \in DOMAIN inbox :
       inbox[i].kind = "JoinRequest" /\ inbox[i].device = confirm[1]
         => inbox[i].nonce # confirm[3]
  /\ /\ confirm[1] \notin parted
     /\ registry[confirm[1]] # NoRecord /\ registry[confirm[1]].nonce = confirm[3]
     => node[confirm[1]].state # "Unconfigured" /\ Matches(registry[confirm[1]], confirm[1])
ConfirmInv == \A confirm \in Confirmed : ConfirmOK(confirm)

\* A record that is active in RAM is on flash, and one on flash has joined.
ActiveInv ==
  \A d \in Device \ parted :
    /\ registry[d] # NoRecord /\ registry[d].state = "Active" => stored[d] = registry[d]
    /\ stored[d] # NoRecord /\ stored[d].state = "Active" =>
         node[d].state # "Unconfigured" /\ Matches(stored[d], d)

PairingInv ==
  /\ TypeInv /\ RequestInv /\ SendInv /\ ConfirmInv /\ ActiveInv
  /\ JoinedIsRegistered /\ ActiveHasJoined
-----------------------------------------------------------------------------
(* What the parts of the steps change *)

CallState == {"none", "entering", "waiting", "ok", "failed"}

\* The types of the radio task's queue and of the calls.
CallsOK ==
  /\ queue \in Seq(Command) /\ Len(queue) <= QueueDepth
  /\ call \in [Caller -> [state : CallState, command : Command \cup {NoRecord}]]
  /\ \A c \in Caller : call[c].state = "entering" => call[c].command \in Command
  /\ \A command \in UnderWay :
       command.kind \in {"Accept", "Complete"} =>
         command.device \in Device /\ command.record \in Record

\* The types of the rest of the gateway's RAM.
RamOK ==
  /\ radio \in [profile : {"Operational", "Commissioning"}, key : Device \cup {NoDevice}]
  /\ window \in {"closed", "open", "due"}
  /\ expected \in Device \cup {NoDevice}
  /\ awaiting \in BOOLEAN

InboxOK == inbox \in Seq(Frame) /\ Len(inbox) <= InboxDepth

\* Records whose IDs differ.
Distinct(records) ==
  \A d, e \in Device :
    d # e /\ records[d] # NoRecord /\ records[e] # NoRecord => records[d].id # records[e].id

RegistryOK ==
  /\ registry \in Registry /\ stored \in Registry
  /\ Distinct(registry) /\ Distinct(stored)

NodesOK ==
  /\ node \in [Device -> Node] /\ parted \subseteq Device
  /\ \A d \in Device : node[d].state # "Unconfigured" => node[d].nonce # Silent

\* The type invariant, part by part.
LEMMA TypeParts == TypeInv <=> CallsOK /\ RamOK /\ InboxOK /\ RegistryOK /\ NodesOK
BY DEF TypeInv, TypeOK, CallsOK, RamOK, InboxOK, RegistryOK, NodesOK, Distinct, CallState

\* The only command that an operation adds to those under way.
Adds(command) ==
  /\ \A sent \in Accepts' :
       \/ sent \in Accepts
       \/ command.kind = "Accept" /\ sent = <<command.device, command.record>>
  /\ \A sent \in Completes' :
       \/ sent \in Completes
       \/ command.kind = "Complete" /\ sent = <<command.device, command.record>>

\* Nothing is added.
AddsNothing == Accepts' \subseteq Accepts /\ Completes' \subseteq Completes

\* A command that names its device and its record if it is a frame to send.
Proper(command) ==
  /\ command \in Command
  /\ command.kind \in {"Accept", "Complete"} =>
       command.device \in Device /\ command.record \in Record

\* The commands under way afterwards, but for who waits for them.
LEMMA AddsFrom ==
  ASSUME NEW command,
         \A c \in UnderWay' : \E b \in UnderWay \cup {command} :
           c.kind = b.kind /\ c.device = b.device /\ c.record = b.record
  PROVE  Adds(command)
<1>1. ASSUME NEW sent \in Accepts'
      PROVE  \/ sent \in Accepts
             \/ command.kind = "Accept" /\ sent = <<command.device, command.record>>
  <2>1. PICK c \in UnderWay' : c.kind = "Accept" /\ sent = <<c.device, c.record>>
    BY <1>1 DEF Accepts, Sends
  <2>2. PICK b \in UnderWay \cup {command} :
          c.kind = b.kind /\ c.device = b.device /\ c.record = b.record
    OBVIOUS
  <2> QED
    BY <2>1, <2>2 DEF Accepts, Sends
<1>2. ASSUME NEW sent \in Completes'
      PROVE  \/ sent \in Completes
             \/ command.kind = "Complete" /\ sent = <<command.device, command.record>>
  <2>1. PICK c \in UnderWay' : c.kind = "Complete" /\ sent = <<c.device, c.record>>
    BY <1>2 DEF Completes, Sends
  <2>2. PICK b \in UnderWay \cup {command} :
          c.kind = b.kind /\ c.device = b.device /\ c.record = b.record
    OBVIOUS
  <2> QED
    BY <2>1, <2>2 DEF Completes, Sends
<1> QED
  BY <1>1, <1>2 DEF Adds

LEMMA AddsNothingFrom ==
  ASSUME \A c \in UnderWay' : \E b \in UnderWay :
           c.kind = b.kind /\ c.device = b.device /\ c.record = b.record
  PROVE  AddsNothing
BY DEF AddsNothing, Accepts, Completes, Sends

\* The command of a caller is queued, or refused.
LEMMA EnqueueEffect ==
  ASSUME CallsOK, NEW caller \in Caller, NEW command, Proper(command),
         Enqueue(caller, command)
  PROVE  CallsOK' /\ Adds(command)
<1> DEFINE c2 == [command EXCEPT !.by = caller]
<1>1. c2 \in Command /\ c2.kind = command.kind /\ c2.device = command.device
      /\ c2.record = command.record
  BY DEF Command, Proper
<1>2. /\ call' \in [Caller -> [state : CallState, command : Command \cup {NoRecord}]]
      /\ call'[caller].state # "entering"
      /\ \A c \in Caller : c # caller => call'[c] = call[c]
  BY DEF CallsOK, Enqueue, NoCall, CallState
<1>3. /\ queue' \in Seq(Command) /\ Len(queue') <= QueueDepth
      /\ \A i \in DOMAIN queue' :
           (i \in DOMAIN queue /\ queue'[i] = queue[i]) \/ queue'[i] = c2
  <2>1. CASE Len(queue) < QueueDepth
    <3>1. queue' = Append(queue, c2)
      BY <2>1 DEF Enqueue
    <3> HIDE DEF c2
    <3> QED
      BY <2>1, <3>1, <1>1, BoundsAssumption DEF CallsOK
  <2>2. CASE ~(Len(queue) < QueueDepth)
    BY <2>2 DEF Enqueue, CallsOK
  <2> QED
    BY <2>1, <2>2
<1> HIDE DEF c2
<1>4. \A c \in UnderWay' : c \in UnderWay \/ c = c2
  BY <1>2, <1>3 DEF UnderWay
<1>5. Adds(command)
  BY <1>1, <1>4, AddsFrom
<1> QED
  BY <1>1, <1>2, <1>3, <1>4, <1>5 DEF CallsOK, Proper

\* A caller calls the radio task.
LEMMA CallEffect ==
  ASSUME CallsOK, NEW caller \in Caller, NEW command, Proper(command), NEW what,
         Call(caller, command, what)
  PROVE  CallsOK' /\ Adds(command)
<1>1. CASE MutexHeld
  <2>1. /\ call' = [call EXCEPT ![caller] = [state |-> "entering", command |-> command]]
        /\ queue' = queue
    BY <1>1 DEF Call
  <2>2. /\ call' \in [Caller -> [state : CallState, command : Command \cup {NoRecord}]]
        /\ call'[caller].command = command
        /\ \A c \in Caller : c # caller => call'[c] = call[c]
    BY <2>1 DEF CallsOK, CallState, Proper
  <2>3. \A c \in UnderWay' : c \in UnderWay \/ c = command
    BY <2>1, <2>2 DEF UnderWay
  <2>4. Adds(command)
    BY <2>3, AddsFrom
  <2> QED
    BY <2>1, <2>2, <2>3, <2>4 DEF CallsOK, Proper
<1>2. CASE ~MutexHeld
  BY <1>2, EnqueueEffect DEF Call
<1> QED
  BY <1>1, <1>2

\* A caller takes its answer.
LEMMA ReturnEffect ==
  ASSUME CallsOK, NEW caller \in Caller, Return(caller), queue' = queue
  PROVE  CallsOK' /\ AddsNothing
<1>1. /\ call' \in [Caller -> [state : CallState, command : Command \cup {NoRecord}]]
      /\ call'[caller].state # "entering"
      /\ \A c \in Caller : c # caller => call'[c] = call[c]
  BY DEF CallsOK, Return, NoCall, CallState
<1>2. \A c \in UnderWay' : c \in UnderWay
  BY <1>1 DEF UnderWay
<1> QED
  BY <1>1, <1>2, AddsNothingFrom DEF CallsOK

\* Nothing is asked of the radio task.
LEMMA NoCallEffect ==
  ASSUME CallsOK, UNCHANGED <<queue, call>>
  PROVE  CallsOK' /\ AddsNothing
<1>1. UnderWay' = UnderWay
  BY DEF UnderWay
<1> QED
  BY <1>1, AddsNothingFrom DEF CallsOK

\* A command that is added and is no frame.
LEMMA AddsNoFrame ==
  ASSUME NEW command, Adds(command), command.kind \notin {"Accept", "Complete"}
  PROVE  AddsNothing
BY DEF Adds, AddsNothing

\* The oldest frame is handled, or none is.
InboxRest ==
  /\ InboxOK'
  /\ \E k \in Nat : \A i \in DOMAIN inbox' : i + k \in DOMAIN inbox /\ inbox'[i] = inbox[i + k]

LEMMA InboxUnchanged ==
  ASSUME InboxOK, inbox' = inbox
  PROVE  InboxRest
<1>1. \A i \in DOMAIN inbox' : i + 0 \in DOMAIN inbox /\ inbox'[i] = inbox[i + 0]
  BY DEF InboxOK
<1> QED
  BY <1>1 DEF InboxRest, InboxOK

LEMMA InboxTail ==
  ASSUME InboxOK, inbox # << >>, inbox' = Tail(inbox)
  PROVE  /\ InboxRest
         /\ 1 \in DOMAIN inbox /\ Head(inbox) = inbox[1] /\ Head(inbox) \in Frame
         /\ \A i \in DOMAIN inbox' : i + 1 \in DOMAIN inbox /\ inbox'[i] = inbox[i + 1]
<1>1. /\ inbox' \in Seq(Frame) /\ Len(inbox') <= InboxDepth
      /\ 1 \in DOMAIN inbox /\ Head(inbox) = inbox[1] /\ Head(inbox) \in Frame
      /\ \A i \in DOMAIN inbox' : i + 1 \in DOMAIN inbox /\ inbox'[i] = inbox[i + 1]
  BY BoundsAssumption DEF InboxOK
<1> QED
  BY <1>1 DEF InboxRest, InboxOK

\* What is heard afterwards was heard before.
LEMMA HeardRest ==
  ASSUME InboxRest
  PROVE  Confirmed' \subseteq Confirmed
BY DEF InboxRest, Confirmed, Heard

\* A step that changes neither records nor nodes and adds nothing to either queue.
LEMMA QuietStep ==
  ASSUME PairingInv, UNCHANGED <<registry, stored, node, parted>>,
         CallsOK', RamOK', AddsNothing, InboxRest
  PROVE  PairingInv'
<1>1. TypeInv'
  <2>1. RegistryOK' /\ NodesOK'
    BY TypeParts DEF PairingInv, RegistryOK, NodesOK, Distinct
  <2>2. TypeInv' <=> CallsOK' /\ RamOK' /\ InboxOK' /\ RegistryOK' /\ NodesOK'
    BY TypeParts, PTL
  <2> QED
    BY <2>1, <2>2 DEF InboxRest
<1>2. RequestInv'
  <2>1. PICK k \in Nat :
          \A i \in DOMAIN inbox' : i + k \in DOMAIN inbox /\ inbox'[i] = inbox[i + k]
    BY DEF InboxRest
  <2>2. \A i, j \in DOMAIN inbox' : i < j => i + k < j + k
    BY <1>1, <2>1 DEF TypeInv, TypeOK
  <2> QED
    BY <2>1, <2>2 DEF PairingInv, RequestInv, AddsNothing, Expects
<1>3. SendInv'
  BY DEF PairingInv, SendInv, AddsNothing, Expects, Agrees, Matches
<1>4. ConfirmInv'
  <2>1. PICK k \in Nat :
          \A i \in DOMAIN inbox' : i + k \in DOMAIN inbox /\ inbox'[i] = inbox[i + k]
    BY DEF InboxRest
  <2> QED
    BY <2>1, HeardRest DEF PairingInv, ConfirmInv, ConfirmOK, Expects, Matches
<1>5. ActiveInv' /\ JoinedIsRegistered' /\ ActiveHasJoined'
  BY DEF PairingInv, ActiveInv, JoinedIsRegistered, ActiveHasJoined, Matches
<1> QED
  BY <1>1, <1>2, <1>3, <1>4, <1>5 DEF PairingInv

-----------------------------------------------------------------------------
(* The steps that leave records and nodes alone *)

\* Calls that add no frame: pairing opens, closes or is tried again.
LEMMA CallStep ==
  ASSUME PairingInv, NEW caller \in Caller, NEW kind \in {"Begin", "Commissioning", "Operational"},
         NEW d \in Device \cup {NoDevice}, NEW what,
         Call(caller, NewCommand(kind, d, NoRecord), what),
         UNCHANGED <<registry, stored, node, parted, inbox>>, RamOK'
  PROVE  PairingInv'
<1> DEFINE command == NewCommand(kind, d, NoRecord)
<1>1. Proper(command) /\ command.kind \notin {"Accept", "Complete"}
  BY DEF NewCommand, Proper, Command
<1> HIDE DEF command
<1>2. CallsOK' /\ Adds(command)
  BY <1>1, TypeParts, CallEffect DEF PairingInv, command
<1> QED
  BY <1>1, <1>2, TypeParts, AddsNoFrame, InboxUnchanged, QuietStep DEF PairingInv

\* Answers that are taken.
LEMMA ReturnStep ==
  ASSUME PairingInv, NEW caller \in Caller, Return(caller), queue' = queue,
         UNCHANGED <<registry, stored, node, parted, inbox>>, RamOK'
  PROVE  PairingInv'
BY TypeParts, ReturnEffect, InboxUnchanged, QuietStep DEF PairingInv

\* A task gets the mutex.
LEMMA EnterStep ==
  ASSUME PairingInv, NEW caller \in Caller, Enter(caller)
  PROVE  PairingInv'
<1> DEFINE command == call[caller].command
<1>1. CallsOK /\ RamOK /\ InboxOK
  BY TypeParts DEF PairingInv
<1>2. command \in UnderWay /\ Proper(command)
  BY <1>1 DEF Enter, UnderWay, CallsOK, Proper
<1> HIDE DEF command
<1>3. CallsOK' /\ Adds(command)
  BY <1>1, <1>2, EnqueueEffect DEF Enter, command
<1>4. AddsNothing
  BY <1>2, <1>3 DEF Adds, AddsNothing, Accepts, Completes, Sends
<1> QED
  BY <1>1, <1>3, <1>4, InboxUnchanged, QuietStep DEF Enter, gateway, RamOK

\* The completion of a command that was given up answers nobody.
LEMMA GiveUpStep ==
  ASSUME PairingInv, NEW caller \in Caller, GiveUp(caller)
  PROVE  PairingInv'
<1>1. CallsOK /\ RamOK /\ InboxOK
  BY TypeParts DEF PairingInv
<1>2. /\ call' \in [Caller -> [state : CallState, command : Command \cup {NoRecord}]]
      /\ call'[caller].state # "entering"
      /\ \A c \in Caller : c # caller => call'[c] = call[c]
  BY <1>1 DEF GiveUp, CallsOK, NoCall, CallState
<1>3. /\ DOMAIN queue' = DOMAIN queue
      /\ \A i \in DOMAIN queue :
           /\ queue'[i] \in Command
           /\ queue'[i].kind = queue[i].kind /\ queue'[i].device = queue[i].device
           /\ queue'[i].record = queue[i].record
  <2>1. \A i \in DOMAIN queue : queue[i] \in Command
    BY <1>1 DEF CallsOK
  <2> QED
    BY <2>1 DEF GiveUp, Command
<1>4. queue' \in Seq(Command) /\ Len(queue') = Len(queue)
  <2>1. queue' \in [1 .. Len(queue) -> Command]
    BY <1>1, <1>3 DEF GiveUp, CallsOK
  <2> QED
    BY <1>1, <2>1 DEF CallsOK
<1>5. \A c \in UnderWay' : \E b \in UnderWay :
        c.kind = b.kind /\ c.device = b.device /\ c.record = b.record
  BY <1>2, <1>3 DEF UnderWay
<1>6. CallsOK'
  BY <1>1, <1>2, <1>4, <1>5 DEF CallsOK
<1> QED
  BY <1>1, <1>5, <1>6, AddsNothingFrom, InboxUnchanged, QuietStep DEF GiveUp, gateway, RamOK

\* Open, close, expire and the button, with their answers.
LEMMA WindowSteps ==
  ASSUME PairingInv,
         \/ \E d \in Device : OpenPairing(d)
         \/ Opened \/ OpenFails \/ ClosePairing \/ Closed
         \/ WindowRunsOut \/ Expire \/ Expired \/ PressButton \/ Toggled
  PROVE  PairingInv'
<1>1. RamOK /\ {"web", "loop", "task"} \subseteq Caller
  BY TypeParts DEF PairingInv, Caller
<1>2. ASSUME NEW d \in Device, OpenPairing(d)
      PROVE  PairingInv'
  BY <1>1, <1>2, CallStep DEF OpenPairing, RamOK
<1>3. CASE Opened
  BY <1>1, <1>3, ReturnStep DEF Opened, RamOK
<1>4. CASE OpenFails
  BY <1>1, <1>4, ReturnStep DEF OpenFails, RamOK
<1>5. CASE ClosePairing
  BY <1>1, <1>5, CallStep DEF ClosePairing, RamOK
<1>6. CASE Closed
  BY <1>1, <1>6, ReturnStep DEF Closed, RamOK
<1>7. CASE WindowRunsOut
  <2>1. RamOK' /\ UNCHANGED <<registry, stored, node, parted, inbox, queue, call>>
    BY <1>1, <1>7 DEF WindowRunsOut, RamOK
  <2> QED
    BY <2>1, TypeParts, NoCallEffect, InboxUnchanged, QuietStep DEF PairingInv
<1>8. CASE Expire
  BY <1>1, <1>8, CallStep DEF Expire, RamOK
<1>9. CASE Expired
  BY <1>1, <1>9, ReturnStep DEF Expired, RamOK
<1>10. CASE PressButton
  BY <1>1, <1>10, CallStep DEF PressButton, RamOK
<1>11. CASE Toggled
  BY <1>1, <1>11, ReturnStep DEF Toggled, RamOK
<1> QED
  BY <1>2, <1>3, <1>4, <1>5, <1>6, <1>7, <1>8, <1>9, <1>10, <1>11

\* What the commissioning task does besides handling frames.
LEMMA TaskSteps ==
  ASSUME PairingInv, Accepted \/ CloseAfterJoin \/ ClosedAfterJoin \/ ConfirmTimesOut \/ Recovered
  PROVE  PairingInv'
<1>1. RamOK /\ "task" \in Caller
  BY TypeParts DEF PairingInv, Caller
<1>2. CASE Accepted
  BY <1>1, <1>2, ReturnStep DEF Accepted, RamOK
<1>3. CASE CloseAfterJoin
  BY <1>1, <1>3, CallStep DEF CloseAfterJoin, RamOK
<1>4. CASE ClosedAfterJoin
  BY <1>1, <1>4, ReturnStep DEF ClosedAfterJoin, RamOK
<1>5. CASE ConfirmTimesOut
  <2>1. RamOK' /\ UNCHANGED <<registry, stored, node, parted, inbox>>
    BY <1>1, <1>5 DEF ConfirmTimesOut, RamOK
  <2>2. CASE Call("task", NewCommand("Commissioning", NoDevice, NoRecord), "recovering")
    BY <1>1, <2>1, <2>2, CallStep
  <2>3. CASE UNCHANGED <<queue, call>>
    BY <2>1, <2>3, TypeParts, NoCallEffect, InboxUnchanged, QuietStep DEF PairingInv
  <2> QED
    BY <1>5, <2>2, <2>3 DEF ConfirmTimesOut
<1>6. CASE Recovered
  BY <1>1, <1>6, ReturnStep DEF Recovered, RamOK
<1> QED
  BY <1>2, <1>3, <1>4, <1>5, <1>6

-----------------------------------------------------------------------------
(* The radio task *)

\* A command leaves the queue and is answered.
LEMMA RadioEffect ==
  ASSUME PairingInv, NEW delivered \in BOOLEAN, RadioStep(delivered)
  PROVE  /\ CallsOK' /\ RamOK' /\ AddsNothing /\ InboxRest
         /\ Head(queue) \in UnderWay /\ Proper(Head(queue))
<1>1. CallsOK /\ RamOK /\ InboxOK
  BY TypeParts DEF PairingInv
<1>2. /\ Head(queue) \in Command /\ 1 \in DOMAIN queue /\ Head(queue) = queue[1]
      /\ queue' \in Seq(Command) /\ Len(queue') <= QueueDepth
      /\ \A i \in DOMAIN queue' : i + 1 \in DOMAIN queue /\ queue'[i] = queue[i + 1]
  BY <1>1, BoundsAssumption DEF RadioStep, CallsOK
<1>3. Head(queue) \in UnderWay /\ Proper(Head(queue))
  BY <1>1, <1>2 DEF UnderWay, CallsOK, Proper
<1>4. /\ call' \in [Caller -> [state : CallState, command : Command \cup {NoRecord}]]
      /\ \A c \in Caller : call'[c] = call[c] \/ call'[c].state # "entering"
  <2> DEFINE command == Head(queue)
  <2>1. CASE command.by = "nobody"
    BY <1>1, <2>1 DEF RadioStep, CallsOK
  <2>2. CASE command.by # "nobody"
    <3>1. command.by \in Caller
      BY <1>2, <2>2 DEF Command
    <3>2. call' = [call EXCEPT ![command.by] = [NoCall EXCEPT !.state = "ok"]]
      BY <2>2 DEF RadioStep
    <3> HIDE DEF command
    <3> QED
      BY <1>1, <3>1, <3>2 DEF CallsOK, NoCall, CallState
  <2> QED
    BY <2>1, <2>2
<1>5. \A c \in UnderWay' : c \in UnderWay
  BY <1>2, <1>4 DEF UnderWay
<1>6. CallsOK' /\ AddsNothing
  BY <1>1, <1>2, <1>4, <1>5, AddsNothingFrom DEF CallsOK
<1>7. radio' \in [profile : {"Operational", "Commissioning"}, key : Device \cup {NoDevice}]
  BY <1>1, <1>2 DEF RadioStep, ProfileAfter, Operational, RamOK, Command
<1> QED
  BY <1>1, <1>3, <1>6, <1>7, InboxUnchanged DEF RadioStep, gateway, RamOK

\* The type invariant after a step, from its parts.
LEMMA TypePartsNext ==
  ASSUME CallsOK', RamOK', InboxOK', RegistryOK', NodesOK'
  PROVE  TypeInv'
<1>1. TypeInv' <=> CallsOK' /\ RamOK' /\ InboxOK' /\ RegistryOK' /\ NodesOK'
  BY TypeParts, PTL
<1> QED
  BY <1>1

\* Frames are from devices.
LEMMA FramesHeard ==
  ASSUME InboxOK
  PROVE  /\ \A i \in DOMAIN inbox : inbox[i].device \in Device /\ inbox[i].nonce \in Nonce
         /\ \A confirm \in Confirmed : confirm[1] \in Device /\ confirm[3] \in Nonce
<1>1. \A i \in DOMAIN inbox : inbox[i] \in Frame
  BY DEF InboxOK
<1>2. \A i \in DOMAIN inbox : inbox[i].device \in Device /\ inbox[i].nonce \in Nonce
  BY <1>1 DEF Frame
<1> QED
  BY <1>2 DEF Confirmed, Heard

\* The radio task sends an accept that its device takes.
LEMMA AcceptTakenStep ==
  ASSUME PairingInv, RadioStep(TRUE), Head(queue).kind = "Accept"
  PROVE  PairingInv'
<1> DEFINE d == Head(queue).device
           record == Head(queue).record
<1>1. /\ CallsOK' /\ RamOK' /\ AddsNothing /\ InboxRest
      /\ Head(queue) \in UnderWay /\ Proper(Head(queue))
  BY RadioEffect
<1>2. d \in Device /\ record \in Record /\ <<d, record>> \in Accepts
  BY <1>1 DEF Proper, Accepts, Sends
<1>3. /\ Expects(d, record.nonce)
      /\ node' = [node EXCEPT ![d] = [state |-> "Provisional", id |-> record.id,
                                      nonce |-> record.nonce]]
      /\ UNCHANGED <<registry, stored, inbox, parted>>
  BY DEF RadioStep, Reaches, Joins, Expects, gateway
<1>4. RegistryOK /\ NodesOK /\ InboxOK
  BY TypeParts DEF PairingInv
<1> HIDE DEF d, record
<1>5. /\ node'[d].state = "Provisional" /\ node'[d].id = record.id /\ node'[d].nonce = record.nonce
      /\ \A e \in Device : e # d => node'[e] = node[e]
      /\ node' \in [Device -> Node] /\ record.nonce # Silent
  BY <1>2, <1>3, <1>4, MarksAssumption DEF NodesOK, Node, Record
<1>6. TypeInv'
  <2>1. RegistryOK' /\ NodesOK' /\ InboxOK'
    BY <1>3, <1>4, <1>5 DEF RegistryOK, NodesOK, InboxOK, Distinct
  <2> QED
    BY <1>1, <2>1, TypePartsNext
<1>7. \A i \in DOMAIN inbox : inbox[i].device \in Device
  BY <1>4, FramesHeard
<1>8. \A i \in DOMAIN inbox : inbox[i].kind = "JoinRequest" => inbox[i].device # d
  BY <1>2, <1>3 DEF PairingInv, RequestInv
<1>9. RequestInv'
  BY <1>1, <1>3, <1>5, <1>7, <1>8 DEF PairingInv, RequestInv, Expects, AddsNothing
<1>10. SendInv'
  <2>1. ASSUME NEW accept \in Accepts', accept[1] \notin parted', Expects(accept[1], accept[2].nonce)'
        PROVE  (Agrees(registry[accept[1]], accept[2]) /\ Agrees(stored[accept[1]], accept[2]))'
    <3>1. accept \in Accepts /\ accept[1] \in Device
      BY <1>1 DEF AddsNothing, Accepts, Sends, CallsOK
    <3> QED
      BY <1>3, <1>5, <2>1, <3>1 DEF PairingInv, SendInv, Expects, Agrees
  <2>2. ASSUME NEW complete \in Completes'
        PROVE  /\ ~Expects(complete[1], complete[2].nonce)'
               /\ complete[1] \notin parted' /\ node'[complete[1]].state = "Provisional"
                    /\ Matches(complete[2], complete[1])' =>
                      /\ registry'[complete[1]].state = "Active"
                      /\ stored'[complete[1]].state = "Active"
    <3>1. complete \in Completes /\ complete[1] \in Device
      BY <1>1, <2>2 DEF AddsNothing, Completes, Sends, CallsOK
    <3> QED
      BY <1>3, <1>5, <3>1 DEF PairingInv, SendInv, Expects, Matches
  <2> QED
    BY <2>1, <2>2 DEF SendInv
<1>11. ConfirmInv'
  <2>1. \A confirm \in Confirmed : confirm[1] \in Device
    BY <1>7 DEF Confirmed, Heard
  <2>2. Confirmed' = Confirmed
    BY <1>3 DEF Confirmed, Heard
  <2> QED
    BY <1>3, <1>5, <2>1, <2>2 DEF PairingInv, ConfirmInv, ConfirmOK, Expects, Matches
<1>12. ActiveInv' /\ ActiveHasJoined'
  BY <1>3, <1>5 DEF PairingInv, ActiveInv, ActiveHasJoined, Expects, Matches
<1>13. JoinedIsRegistered'
  <2>1. d \notin parted => Agrees(registry[d], record) /\ Agrees(stored[d], record)
    BY <1>2, <1>3 DEF PairingInv, SendInv
  <2> QED
    BY <1>3, <1>5, <2>1 DEF PairingInv, JoinedIsRegistered, Agrees, Matches
<1> QED
  BY <1>6, <1>9, <1>10, <1>11, <1>12, <1>13 DEF PairingInv

\* The radio task sends a complete that its device takes.
LEMMA CompleteTakenStep ==
  ASSUME PairingInv, RadioStep(TRUE), Head(queue).kind = "Complete"
  PROVE  PairingInv'
<1> DEFINE d == Head(queue).device
           record == Head(queue).record
<1>1. /\ CallsOK' /\ RamOK' /\ AddsNothing /\ InboxRest
      /\ Head(queue) \in UnderWay /\ Proper(Head(queue))
  BY RadioEffect
<1>2. d \in Device /\ record \in Record /\ <<d, record>> \in Completes
  BY <1>1 DEF Proper, Completes, Sends
<1>3. /\ node[d].state = "Provisional" /\ node[d].id = record.id /\ node[d].nonce = record.nonce
      /\ node' = [node EXCEPT ![d].state = "Active"]
      /\ UNCHANGED <<registry, stored, inbox, parted>>
  BY DEF RadioStep, Reaches, Joins, gateway
<1>4. RegistryOK /\ NodesOK /\ InboxOK
  BY TypeParts DEF PairingInv
<1> HIDE DEF d, record
<1>5. /\ node'[d].state = "Active" /\ node'[d].id = record.id /\ node'[d].nonce = record.nonce
      /\ \A e \in Device : e # d => node'[e] = node[e]
      /\ node' \in [Device -> Node] /\ record.nonce # Silent
  BY <1>2, <1>3, <1>4, MarksAssumption DEF NodesOK, Node, Record
<1>6. TypeInv'
  <2>1. RegistryOK' /\ NodesOK' /\ InboxOK'
    BY <1>3, <1>4, <1>5 DEF RegistryOK, NodesOK, InboxOK, Distinct
  <2> QED
    BY <1>1, <2>1, TypePartsNext
<1>7. \A i \in DOMAIN inbox : inbox[i].device \in Device
  BY <1>4, FramesHeard
<1>8. \A i \in DOMAIN inbox : inbox[i].kind = "JoinRequest" => inbox[i].device # d
  BY <1>2, <1>3 DEF PairingInv, RequestInv
<1>9. RequestInv'
  BY <1>1, <1>3, <1>5, <1>7, <1>8 DEF PairingInv, RequestInv, Expects, AddsNothing
<1>10. SendInv'
  <2>1. ASSUME NEW accept \in Accepts', accept[1] \notin parted', Expects(accept[1], accept[2].nonce)'
        PROVE  (Agrees(registry[accept[1]], accept[2]) /\ Agrees(stored[accept[1]], accept[2]))'
    <3>1. accept \in Accepts /\ accept[1] \in Device
      BY <1>1 DEF AddsNothing, Accepts, Sends, CallsOK
    <3> QED
      BY <1>3, <1>5, <2>1, <3>1 DEF PairingInv, SendInv, Expects, Agrees
  <2>2. ASSUME NEW complete \in Completes'
        PROVE  /\ ~Expects(complete[1], complete[2].nonce)'
               /\ complete[1] \notin parted' /\ node'[complete[1]].state = "Provisional"
                    /\ Matches(complete[2], complete[1])' =>
                      /\ registry'[complete[1]].state = "Active"
                      /\ stored'[complete[1]].state = "Active"
    <3>1. complete \in Completes /\ complete[1] \in Device
      BY <1>1, <2>2 DEF AddsNothing, Completes, Sends, CallsOK
    <3> QED
      BY <1>3, <1>5, <3>1 DEF PairingInv, SendInv, Expects, Matches
  <2> QED
    BY <2>1, <2>2 DEF SendInv
<1>11. ConfirmInv'
  <2>1. \A confirm \in Confirmed : confirm[1] \in Device
    BY <1>7 DEF Confirmed, Heard
  <2>2. Confirmed' = Confirmed
    BY <1>3 DEF Confirmed, Heard
  <2> QED
    BY <1>3, <1>5, <2>1, <2>2 DEF PairingInv, ConfirmInv, ConfirmOK, Expects, Matches
<1>12. ActiveInv' /\ ActiveHasJoined'
  BY <1>3, <1>5 DEF PairingInv, ActiveInv, ActiveHasJoined, Matches
<1>13. JoinedIsRegistered'
  <2>1. d \notin parted => registry[d].state = "Active" /\ stored[d].state = "Active"
    BY <1>2, <1>3, MarksAssumption DEF PairingInv, SendInv, Matches
  <2> QED
    BY <1>3, <1>5, <2>1 DEF PairingInv, JoinedIsRegistered, Matches
<1> QED
  BY <1>6, <1>9, <1>10, <1>11, <1>12, <1>13 DEF PairingInv

\* The radio task takes a command.
LEMMA RadioTaskStep ==
  ASSUME PairingInv, NEW delivered \in BOOLEAN, RadioStep(delivered)
  PROVE  PairingInv'
<1>1. CASE delivered = FALSE
  BY <1>1, RadioEffect, QuietStep DEF RadioStep, gateway
<1>2. CASE delivered = TRUE
  <2>1. Head(queue).kind \in {"Accept", "Complete"}
    BY <1>2 DEF RadioStep, Reaches
  <2> QED
    BY <1>2, <2>1, AcceptTakenStep, CompleteTakenStep
<1> QED
  BY <1>1, <1>2

-----------------------------------------------------------------------------
(* The nodes *)

\* Nothing holds a fresh nonce.
LEMMA FreshNonce ==
  ASSUME PairingInv, NEW nonce \in Nonce \ InUse
  PROVE  /\ \A accept \in Accepts : accept[2].nonce # nonce
         /\ \A complete \in Completes : complete[2].nonce # nonce
         /\ \A i \in DOMAIN inbox : inbox[i].nonce # nonce
         /\ \A confirm \in Confirmed : confirm[3] # nonce
<1>1. \A i \in DOMAIN inbox : inbox[i].nonce # nonce
  BY DEF InUse
<1>2. \A confirm \in Confirmed : confirm[3] # nonce
  BY <1>1 DEF Confirmed, Heard
<1>3. ASSUME NEW command \in UnderWay, command.kind \in {"Accept", "Complete"}
      PROVE  command.record.nonce # nonce
  <2>1. command.record # NoRecord
    BY <1>3, TypeParts, MarksAssumption DEF PairingInv, CallsOK
  <2>2. CASE \E i \in DOMAIN queue : command = queue[i]
    BY <2>1, <2>2 DEF InUse
  <2>3. CASE \E c \in Caller : call[c].state = "entering" /\ command = call[c].command
    BY <2>1, <2>3 DEF InUse
  <2> QED
    BY <1>3, <2>2, <2>3 DEF UnderWay
<1> QED
  BY <1>1, <1>2, <1>3 DEF Accepts, Completes, Sends

\* Nothing is asked of the radio task, and its RAM is as it was.
LEMMA GatewayRests ==
  ASSUME PairingInv,
         UNCHANGED <<registry, stored, radio, queue, call, window, expected, awaiting>>
  PROVE  CallsOK' /\ RamOK' /\ RegistryOK' /\ Accepts' = Accepts /\ Completes' = Completes
<1>1. UnderWay' = UnderWay
  BY DEF UnderWay
<1> QED
  BY <1>1, TypeParts DEF PairingInv, CallsOK, RamOK, RegistryOK, Distinct, Accepts, Completes, Sends

\* A frame is heard.
LEMMA ReceivesEffect ==
  ASSUME InboxOK, NEW frame \in Frame, Receives(frame)
  PROVE  /\ InboxOK' /\ DOMAIN inbox' = DOMAIN inbox \cup {Len(inbox) + 1}
         /\ \A i \in DOMAIN inbox : inbox'[i] = inbox[i] /\ i < Len(inbox) + 1
         /\ inbox'[Len(inbox) + 1] = frame
         /\ \A confirm \in Confirmed' :
              \/ confirm \in Confirmed
              \/ frame.kind = "JoinConfirm" /\ confirm = <<frame.device, frame.id, frame.nonce>>
<1>1. /\ InboxOK' /\ DOMAIN inbox' = DOMAIN inbox \cup {Len(inbox) + 1}
      /\ \A i \in DOMAIN inbox : inbox'[i] = inbox[i] /\ i < Len(inbox) + 1
      /\ inbox'[Len(inbox) + 1] = frame
  BY BoundsAssumption DEF InboxOK, Receives
<1> QED
  BY <1>1 DEF Confirmed, Heard

\* A device asks to join, with a fresh nonce.
LEMMA RequestJoinStep ==
  ASSUME PairingInv, NEW d \in Device, NEW nonce \in Nonce, RequestJoin(d, nonce)
  PROVE  PairingInv'
<1> DEFINE frame == [kind |-> "JoinRequest", device |-> d, id |-> 0, nonce |-> nonce]
<1>1. /\ nonce \in Nonce \ InUse /\ node[d].state = "Unconfigured"
      /\ node' = [node EXCEPT ![d].nonce = nonce]
      /\ UNCHANGED <<registry, stored, radio, queue, call, window, expected, awaiting, parted>>
  BY DEF RequestJoin
<1>2. CallsOK' /\ RamOK' /\ RegistryOK' /\ Accepts' = Accepts /\ Completes' = Completes
  BY <1>1, GatewayRests
<1>3. InboxOK /\ NodesOK
  BY TypeParts DEF PairingInv
<1>4. frame \in Frame /\ Receives(frame)
  BY DEF RequestJoin, Frame
<1>5. frame.kind = "JoinRequest" /\ frame.device = d /\ frame.nonce = nonce
  OBVIOUS
<1> HIDE DEF frame
<1>6. /\ InboxOK' /\ DOMAIN inbox' = DOMAIN inbox \cup {Len(inbox) + 1}
      /\ \A i \in DOMAIN inbox : inbox'[i] = inbox[i] /\ i < Len(inbox) + 1
      /\ inbox'[Len(inbox) + 1] = frame
      /\ Confirmed' \subseteq Confirmed
  BY <1>3, <1>4, <1>5, ReceivesEffect
<1>7. /\ node'[d].state = "Unconfigured" /\ node'[d].nonce = nonce
      /\ \A e \in Device : e # d => node'[e] = node[e]
      /\ NodesOK'
  BY <1>1, <1>3 DEF NodesOK, Node
<1>8. TypeInv'
  BY <1>2, <1>6, <1>7, TypePartsNext
<1>9. /\ \A i \in DOMAIN inbox : inbox[i].device \in Device /\ inbox[i].nonce # nonce
      /\ \A confirm \in Confirmed : confirm[1] \in Device /\ confirm[3] # nonce
      /\ \A accept \in Accepts : accept[1] \in Device /\ accept[2].nonce # nonce
      /\ \A complete \in Completes : complete[1] \in Device /\ complete[2].nonce # nonce
  BY <1>1, <1>3, FramesHeard, FreshNonce, TypeParts
  DEF PairingInv, Accepts, Completes, Sends, CallsOK
<1>10. RequestInv'
  <2>1. ASSUME NEW i \in DOMAIN inbox', NEW j \in DOMAIN inbox',
               inbox'[i].kind = "JoinRequest", inbox'[j].kind = "JoinRequest", i < j,
               inbox'[i].device = inbox'[j].device
        PROVE  ~Expects(inbox[i].device, inbox[i].nonce)'
    <3>1. i \in DOMAIN inbox
      BY <1>3, <1>6, <2>1 DEF InboxOK
    <3>2. CASE j \in DOMAIN inbox
      BY <1>6, <1>7, <1>9, <2>1, <3>1, <3>2 DEF PairingInv, RequestInv, Expects
    <3>3. CASE j = Len(inbox) + 1
      BY <1>5, <1>6, <1>7, <1>9, <2>1, <3>1, <3>3 DEF Expects
    <3> QED
      BY <1>6, <2>1, <3>2, <3>3
  <2>2. ASSUME NEW i \in DOMAIN inbox', inbox'[i].kind = "JoinRequest"
        PROVE  /\ node'[inbox'[i].device].state = "Unconfigured"
               /\ \A accept \in Accepts :
                    accept[1] = inbox'[i].device => ~Expects(accept[1], accept[2].nonce)'
    BY <1>5, <1>6, <1>7, <1>9, <2>2 DEF PairingInv, RequestInv, Expects
  <2> QED
    BY <1>2, <2>1, <2>2 DEF RequestInv
<1>11. SendInv'
  BY <1>1, <1>2, <1>7, <1>9 DEF PairingInv, SendInv, Expects, Agrees, Matches
<1>12. ConfirmInv'
  BY <1>1, <1>5, <1>6, <1>7, <1>9 DEF PairingInv, ConfirmInv, ConfirmOK, Expects, Matches
<1>13. ActiveInv' /\ JoinedIsRegistered' /\ ActiveHasJoined'
  BY <1>1, <1>7 DEF PairingInv, ActiveInv, JoinedIsRegistered, ActiveHasJoined, Matches
<1> QED
  BY <1>8, <1>10, <1>11, <1>12, <1>13 DEF PairingInv

\* A device confirms the configuration it has.
LEMMA ConfirmJoinStep ==
  ASSUME PairingInv, NEW d \in Device, ConfirmJoin(d)
  PROVE  PairingInv'
<1> DEFINE frame == [kind |-> "JoinConfirm", device |-> d, id |-> node[d].id,
                     nonce |-> node[d].nonce]
<1>1. /\ node[d].state = "Provisional"
      /\ UNCHANGED <<registry, stored, radio, queue, call, window, expected, awaiting, node, parted>>
  BY DEF ConfirmJoin
<1>2. CallsOK' /\ RamOK' /\ RegistryOK' /\ Accepts' = Accepts /\ Completes' = Completes
  BY <1>1, GatewayRests
<1>3. InboxOK /\ NodesOK /\ NodesOK'
  BY <1>1, TypeParts DEF PairingInv, NodesOK
<1>4. frame \in Frame /\ Receives(frame)
  <2>1. node[d].nonce # Silent
    BY <1>1, <1>3 DEF NodesOK
  <2> QED
    BY <1>3, <2>1 DEF ConfirmJoin, Frame, NodesOK, Node
<1>5. /\ frame.kind = "JoinConfirm" /\ frame.device = d
      /\ <<frame.device, frame.id, frame.nonce>> = <<d, node[d].id, node[d].nonce>>
  OBVIOUS
<1> HIDE DEF frame
<1>6. /\ InboxOK' /\ DOMAIN inbox' = DOMAIN inbox \cup {Len(inbox) + 1}
      /\ \A i \in DOMAIN inbox : inbox'[i] = inbox[i] /\ i < Len(inbox) + 1
      /\ inbox'[Len(inbox) + 1] = frame
      /\ \A confirm \in Confirmed' :
           confirm \in Confirmed \/ confirm = <<d, node[d].id, node[d].nonce>>
  BY <1>3, <1>4, <1>5, ReceivesEffect
<1>7. TypeInv'
  BY <1>2, <1>3, <1>6, TypePartsNext
<1>8. RequestInv'
  BY <1>1, <1>2, <1>5, <1>6 DEF PairingInv, RequestInv, Expects
<1>9. SendInv'
  BY <1>1, <1>2 DEF PairingInv, SendInv, Expects, Agrees, Matches
<1>10. ConfirmInv'
  <2>1. ASSUME NEW confirm \in Confirmed', confirm \in Confirmed
        PROVE  ConfirmOK(confirm)'
    BY <1>1, <1>5, <1>6, <2>1 DEF PairingInv, ConfirmInv, ConfirmOK, Expects, Matches
  <2>2. ASSUME NEW confirm \in Confirmed', confirm = <<d, node[d].id, node[d].nonce>>
        PROVE  ConfirmOK(confirm)'
    <3>1. ~Expects(d, node[d].nonce)'
      BY <1>1 DEF Expects
    <3>2. \A i \in DOMAIN inbox' : inbox'[i].kind = "JoinRequest" => inbox'[i].device # d
      BY <1>1, <1>5, <1>6 DEF PairingInv, RequestInv
    <3>3. d \notin parted => Matches(registry[d], d)
      BY <1>1 DEF PairingInv, JoinedIsRegistered
    <3> QED
      BY <1>1, <2>2, <3>1, <3>2, <3>3 DEF ConfirmOK, Matches
  <2> QED
    BY <1>6, <2>1, <2>2 DEF ConfirmInv
<1>11. ActiveInv' /\ JoinedIsRegistered' /\ ActiveHasJoined'
  BY <1>1 DEF PairingInv, ActiveInv, JoinedIsRegistered, ActiveHasJoined, Matches
<1> QED
  BY <1>7, <1>8, <1>9, <1>10, <1>11 DEF PairingInv

\* A device that listens to nothing: it gave up, or was reset.
LEMMA SilentStep ==
  ASSUME PairingInv, NEW d \in Device,
         \/ StopWaiting(d)
         \/ ResetNode(d)
  PROVE  PairingInv'
<1>1. /\ UNCHANGED <<gateway, radio, queue, call>>
      /\ \/ node[d].state = "Unconfigured" /\ parted' = parted
         \/ parted' = parted \cup {d}
      /\ \/ node' = [node EXCEPT ![d].nonce = Silent] /\ node[d].state = "Unconfigured"
         \/ node' = [node EXCEPT ![d] = NewNode]
  BY DEF StopWaiting, ResetNode
<1>2. InboxOK /\ NodesOK
  BY TypeParts DEF PairingInv
<1>3. CallsOK' /\ RamOK' /\ RegistryOK' /\ Accepts' = Accepts /\ Completes' = Completes
  BY <1>1, GatewayRests DEF gateway
<1>4. /\ node'[d].state = "Unconfigured" /\ node'[d].nonce = Silent
      /\ \A e \in Device : e # d => node'[e] = node[e]
      /\ NodesOK'
  BY <1>1, <1>2 DEF NodesOK, Node, NewNode
<1>5. TypeInv' /\ inbox' = inbox /\ Confirmed' = Confirmed
      /\ registry' = registry /\ stored' = stored
  BY <1>1, <1>2, <1>3, <1>4, TypePartsNext DEF gateway, InboxOK, Confirmed, Heard
<1>6. /\ \A i \in DOMAIN inbox : inbox[i].device \in Device /\ inbox[i].nonce # Silent
      /\ \A confirm \in Confirmed : confirm[1] \in Device /\ confirm[3] # Silent
      /\ \A accept \in Accepts : accept[1] \in Device /\ accept[2].nonce # Silent
      /\ \A complete \in Completes : complete[1] \in Device /\ complete[2].nonce # Silent
  BY <1>2, FramesHeard, TypeParts, MarksAssumption
  DEF PairingInv, Accepts, Completes, Sends, CallsOK, Record
<1>7. RequestInv'
  BY <1>3, <1>4, <1>5, <1>6 DEF PairingInv, RequestInv, Expects
<1>8. SendInv'
  BY <1>1, <1>3, <1>4, <1>5, <1>6 DEF PairingInv, SendInv, Expects, Agrees, Matches
<1>9. ConfirmInv'
  BY <1>1, <1>4, <1>5, <1>6 DEF PairingInv, ConfirmInv, ConfirmOK, Expects, Matches
<1>10. ActiveInv' /\ JoinedIsRegistered' /\ ActiveHasJoined'
  BY <1>1, <1>4, <1>5 DEF PairingInv, ActiveInv, JoinedIsRegistered, ActiveHasJoined, Matches
<1> QED
  BY <1>5, <1>7, <1>8, <1>9, <1>10 DEF PairingInv

-----------------------------------------------------------------------------
(* The registry *)

\* A registry that was to be saved.
LEMMA SavesEffect ==
  ASSUME RegistryOK, NEW candidate \in Registry, Distinct(candidate),
         Saves(candidate) \/ FailsToSave(candidate)
  PROVE  RegistryOK'
<1>1. /\ registry' = registry \/ registry' = candidate
      /\ stored' = stored \/ stored' = registry \/ stored' = candidate
  BY DEF Saves, FailsToSave
<1> QED
  BY <1>1 DEF RegistryOK, Distinct

\* A set of naturals has a least member.
LEMMA LeastNatural ==
  ASSUME NEW T, T \subseteq Nat, T # {}
  PROVE  \E m \in T : \A k \in T : m <= k
<1>1. \E m \in T : \A k \in T : <<k, m>> \notin OpToRel(<, Nat)
  BY NatLessThanWellFounded, WFMin
<1>2. ASSUME NEW k \in Nat, NEW m \in Nat, k < m
      PROVE  <<k, m>> \in OpToRel(<, Nat)
  BY <1>2, Zenon DEF OpToRel
<1>3. \A k, m \in Nat : ~(k < m) => m <= k
  OBVIOUS
<1> QED
  BY <1>1, <1>2, <1>3

\* The lowest of the free IDs.
LEMMA FreeIdIsFree ==
  ASSUME FreeIds # {}
  PROVE  FreeId \in NodeId /\ \A d \in Records : registry[d].id # FreeId
<1>1. FreeIds \subseteq Nat
  BY BoundsAssumption DEF FreeIds, NodeId
<1>2. \E id \in FreeIds : \A other \in FreeIds : id <= other
  BY <1>1, LeastNatural
<1>3. FreeId \in FreeIds
  BY <1>2 DEF FreeId
<1> QED
  BY <1>3 DEF FreeIds

\* The record that handleJoinRequest() reserves.
LEMMA ReservedIsRecord ==
  ASSUME RegistryOK, NEW d \in Device, CanReserve(d), NEW nonce \in Nonce
  PROVE  /\ Reserved(d, nonce) \in Record
         /\ Reserved(d, nonce).state = "Pending" /\ Reserved(d, nonce).nonce = nonce
         /\ [registry EXCEPT ![d] = Reserved(d, nonce)] \in Registry
         /\ Distinct([registry EXCEPT ![d] = Reserved(d, nonce)])
<1> DEFINE record == Reserved(d, nonce)
<1>1. /\ record.id \in NodeId
      /\ \A e \in Device : e # d /\ registry[e] # NoRecord => registry[e].id # record.id
  <2>1. CASE d \in Records
    <3>1. record.id = registry[d].id /\ registry[d] \in Record
      BY <2>1 DEF Reserved, RegistryOK, Registry, Records
    <3> HIDE DEF record
    <3> QED
      BY <2>1, <3>1 DEF RegistryOK, Distinct, Records, Record
  <2>2. CASE d \notin Records
    <3>1. record.id = FreeId
      BY <2>2 DEF Reserved
    <3>2. FreeIds # {}
      BY <2>2 DEF CanReserve
    <3> HIDE DEF record
    <3> QED
      BY <3>1, <3>2, FreeIdIsFree DEF Records
  <2> QED
    BY <2>1, <2>2
<1>2. record \in Record /\ record.state = "Pending" /\ record.nonce = nonce
  BY <1>1 DEF Reserved, Record
<1> HIDE DEF record
<1>3. [registry EXCEPT ![d] = record] \in Registry
  BY <1>2 DEF RegistryOK, Registry
<1>4. Distinct([registry EXCEPT ![d] = record])
  BY <1>1 DEF RegistryOK, Registry, Distinct
<1> QED
  BY <1>2, <1>3, <1>4 DEF record

\* A save that concerns a device that is parted now leaves the others alone.
LEMMA SparesOthers ==
  ASSUME PairingInv, node' = node,
         \A d \in Device \ parted' :
           /\ d \notin parted /\ registry'[d] = registry[d]
           /\ stored'[d] = stored[d] \/ stored'[d] = registry[d],
         CallsOK', RamOK', RegistryOK', NodesOK', AddsNothing, inbox' = inbox
  PROVE  PairingInv'
<1>1. InboxOK /\ InboxOK'
  BY TypeParts DEF PairingInv, InboxOK
<1>2. TypeInv'
  BY <1>1, TypePartsNext
<1>3. RequestInv'
  BY DEF PairingInv, RequestInv, AddsNothing, Expects
<1>4. /\ \A confirm \in Confirmed : confirm[1] \in Device
      /\ \A accept \in Accepts : accept[1] \in Device
      /\ \A complete \in Completes : complete[1] \in Device
  BY <1>1, FramesHeard, TypeParts DEF PairingInv, Accepts, Completes, Sends, CallsOK
<1>5. SendInv'
  BY <1>4 DEF PairingInv, SendInv, AddsNothing, Expects, Agrees, Matches
<1>6. ConfirmInv'
  <2>1. Confirmed' = Confirmed
    BY DEF Confirmed, Heard
  <2> QED
    BY <1>4, <2>1 DEF PairingInv, ConfirmInv, ConfirmOK, Expects, Matches
<1>7. ActiveInv'
  BY DEF PairingInv, ActiveInv, ActiveHasJoined, Matches
<1>8. JoinedIsRegistered' /\ ActiveHasJoined'
  BY DEF PairingInv, JoinedIsRegistered, ActiveHasJoined, Matches
<1> QED
  BY <1>2, <1>3, <1>5, <1>6, <1>7, <1>8 DEF PairingInv

\* A node is deleted.
LEMMA DeleteNodeStep ==
  ASSUME PairingInv, NEW d \in Device, DeleteNode(d)
  PROVE  PairingInv'
<1> DEFINE candidate == [registry EXCEPT ![d] = NoRecord]
<1>1. CallsOK /\ RamOK /\ RegistryOK /\ NodesOK
  BY TypeParts DEF PairingInv
<1>2. /\ Saves(candidate) \/ FailsToSave(candidate)
      /\ parted' = parted \cup {d}
      /\ UNCHANGED <<radio, queue, call, window, expected, awaiting, inbox, node>>
  BY DEF DeleteNode
<1>3. candidate \in Registry /\ Distinct(candidate)
  BY <1>1 DEF RegistryOK, Registry, Distinct
<1>4. \A e \in Device : e # d => candidate[e] = registry[e]
  BY <1>1 DEF RegistryOK, Registry
<1> HIDE DEF candidate
<1>5. RegistryOK'
  BY <1>1, <1>2, <1>3, SavesEffect
<1>6. \A e \in Device \ parted' :
        /\ e \notin parted /\ registry'[e] = registry[e]
        /\ stored'[e] = stored[e] \/ stored'[e] = registry[e]
  BY <1>2, <1>4 DEF Saves, FailsToSave
<1>7. CallsOK' /\ AddsNothing
  BY <1>1, <1>2, NoCallEffect
<1>8. RamOK' /\ NodesOK'
  BY <1>1, <1>2 DEF RamOK, NodesOK
<1> QED
  BY <1>2, <1>5, <1>6, <1>7, <1>8, SparesOthers

\* A join request is handled: a reservation that is saved is sent to the device,
\* one that could not be saved may be found by the next boot.
LEMMA ReserveStep ==
  ASSUME PairingInv, NEW d \in Device, NEW record \in Record, record.state = "Pending",
         registry[d] = NoRecord \/ registry[d].state = "Pending",
         inbox # << >>, inbox' = Tail(inbox),
         Head(inbox).kind = "JoinRequest", Head(inbox).device = d, Head(inbox).nonce = record.nonce,
         node' = node, CallsOK', RamOK', RegistryOK', NodesOK',
         \A e \in Device : e # d =>
           /\ registry'[e] = registry[e] /\ (e \in parted <=> e \in parted')
           /\ stored'[e] = stored[e] \/ stored'[e] = registry[e],
         \/ /\ registry'[d] = record /\ stored'[d] = record /\ d \notin parted'
            /\ \A accept \in Accepts' : accept \in Accepts \/ accept = <<d, record>>
            /\ Completes' \subseteq Completes
         \/ /\ registry'[d] = registry[d] /\ (d \in parted <=> d \in parted')
            /\ stored'[d] \in {stored[d], registry[d], record}
            /\ AddsNothing
  PROVE  PairingInv'
<1>1. /\ InboxOK
      /\ \A i \in DOMAIN inbox : inbox[i].device \in Device
      /\ \A confirm \in Confirmed : confirm[1] \in Device
      /\ \A accept \in Accepts : accept[1] \in Device
      /\ \A complete \in Completes : complete[1] \in Device
  BY FramesHeard, TypeParts DEF PairingInv, Accepts, Completes, Sends, CallsOK
<1>2. /\ InboxRest /\ 1 \in DOMAIN inbox /\ Head(inbox) = inbox[1]
      /\ \A i \in DOMAIN inbox' :
           i + 1 \in DOMAIN inbox /\ inbox'[i] = inbox[i + 1] /\ 1 < i + 1
      /\ \A i, j \in DOMAIN inbox' : i < j => i + 1 < j + 1
  BY <1>1, InboxTail DEF InboxRest, InboxOK
<1>3. Confirmed' \subseteq Confirmed
  BY <1>2, HeardRest
<1>4. TypeInv'
  BY <1>2, TypePartsNext DEF InboxRest
<1>5. node[d].state = "Unconfigured"
      /\ \A accept \in Accepts : accept[1] = d => ~Expects(d, accept[2].nonce)
  BY <1>2 DEF PairingInv, RequestInv
<1>6. \A i \in DOMAIN inbox' :
        inbox'[i].kind = "JoinRequest" /\ inbox'[i].device = d => ~Expects(d, record.nonce)
  BY <1>2 DEF PairingInv, RequestInv
<1>7. \A accept \in Accepts' : accept \in Accepts \/ accept = <<d, record>>
  BY DEF AddsNothing
<1>8. Completes' \subseteq Completes
  BY DEF AddsNothing
<1>9. RequestInv'
  <2>1. \A i, j \in DOMAIN inbox' :
          /\ inbox'[i].kind = "JoinRequest" /\ inbox'[j].kind = "JoinRequest" /\ i < j
          /\ inbox'[i].device = inbox'[j].device
          => ~Expects(inbox'[i].device, inbox'[i].nonce)
    BY <1>2 DEF PairingInv, RequestInv
  <2>2. \A i \in DOMAIN inbox' : inbox'[i].kind = "JoinRequest" =>
          /\ node[inbox'[i].device].state = "Unconfigured"
          /\ \A accept \in Accepts' :
               accept[1] = inbox'[i].device => ~Expects(accept[1], accept[2].nonce)
    BY <1>2, <1>6, <1>7 DEF PairingInv, RequestInv
  <2> QED
    BY <2>1, <2>2 DEF RequestInv, Expects
<1>10. SendInv'
  <2>1. ASSUME NEW accept \in Accepts', accept[1] \notin parted', Expects(accept[1], accept[2].nonce)
        PROVE  (Agrees(registry[accept[1]], accept[2]) /\ Agrees(stored[accept[1]], accept[2]))'
    <3>1. CASE accept[1] = d
      <4>1. accept = <<d, record>> /\ accept \notin Accepts
        BY <1>5, <1>7, <2>1, <3>1
      <4>2. registry'[d] = record /\ stored'[d] = record
        BY <2>1, <4>1 DEF AddsNothing
      <4> QED
        BY <4>1, <4>2, MarksAssumption DEF Agrees
    <3>2. CASE accept[1] # d
      BY <1>1, <1>7, <2>1, <3>2 DEF PairingInv, SendInv, Agrees
    <3> QED
      BY <3>1, <3>2
  <2>2. ASSUME NEW complete \in Completes'
        PROVE  /\ ~Expects(complete[1], complete[2].nonce)'
               /\ complete[1] \notin parted' /\ node'[complete[1]].state = "Provisional"
                    /\ Matches(complete[2], complete[1])' =>
                      /\ registry'[complete[1]].state = "Active"
                      /\ stored'[complete[1]].state = "Active"
    <3>1. complete \in Completes /\ complete[1] \in Device
      BY <1>1, <1>8, <2>2
    <3> QED
      BY <1>5, <3>1 DEF PairingInv, SendInv, Expects, Matches
  <2> QED
    BY <2>1, <2>2 DEF SendInv, Expects
<1>11. ConfirmInv'
  <2>1. ASSUME NEW confirm \in Confirmed'
        PROVE  ConfirmOK(confirm)'
    <3>1. confirm \in Confirmed /\ confirm[1] \in Device /\ ConfirmOK(confirm)
      BY <1>1, <1>3, <2>1 DEF PairingInv, ConfirmInv
    <3>2. ~Expects(confirm[1], confirm[3])'
      BY <3>1 DEF ConfirmOK, Expects
    <3>3. \A i \in DOMAIN inbox' :
            inbox'[i].kind = "JoinRequest" /\ inbox'[i].device = confirm[1]
              => inbox'[i].nonce # confirm[3]
      BY <1>2, <3>1 DEF ConfirmOK
    <3>4. CASE confirm[1] = d
      <4>1. record.nonce # confirm[3]
        BY <1>2, <3>1, <3>4 DEF ConfirmOK
      <4>2. registry'[d] = record \/ (registry'[d] = registry[d] /\ (d \in parted <=> d \in parted'))
        OBVIOUS
      <4> QED
        BY <1>5, <3>1, <3>2, <3>3, <3>4, <4>1, <4>2 DEF ConfirmOK
    <3>5. CASE confirm[1] # d
      BY <3>1, <3>2, <3>3, <3>5 DEF ConfirmOK, Matches
    <3> QED
      BY <3>4, <3>5
  <2> QED
    BY <2>1 DEF ConfirmInv
<1>12. ActiveInv'
  BY <1>5 DEF PairingInv, ActiveInv, ActiveHasJoined, Matches
<1>13. JoinedIsRegistered' /\ ActiveHasJoined'
  BY <1>5 DEF PairingInv, JoinedIsRegistered, ActiveHasJoined, Matches
<1> QED
  BY <1>4, <1>9, <1>10, <1>11, <1>12, <1>13 DEF PairingInv

\* handleJoinRequest().
LEMMA HandleJoinRequestStep ==
  ASSUME PairingInv, HandleJoinRequest
  PROVE  PairingInv'
<1> DEFINE frame == Head(inbox)
           d == frame.device
           record == Reserved(d, frame.nonce)
           candidate == [registry EXCEPT ![d] = record]
           command == NewCommand("Accept", d, record)
<1>1. CallsOK /\ RamOK /\ RegistryOK /\ NodesOK /\ InboxOK
  BY TypeParts DEF PairingInv
<1>2. /\ inbox # << >> /\ frame.kind = "JoinRequest" /\ inbox' = Tail(inbox)
      /\ UNCHANGED <<radio, window, expected, awaiting, node>>
  BY DEF HandleJoinRequest
<1>3. RamOK' /\ InboxRest /\ frame \in Frame
  BY <1>1, <1>2, InboxTail DEF RamOK
<1>4. d \in Device /\ frame.nonce \in Nonce
  BY <1>3 DEF Frame
<1>5. CASE UNCHANGED <<registry, stored, call, queue, parted>>
  BY <1>1, <1>2, <1>3, <1>5, NoCallEffect, QuietStep
<1>6. CASE /\ CanReserve(d)
           /\ \/ /\ Saves(candidate) /\ parted' = parted \ {d}
                 /\ Call("task", command, "accepting")
              \/ FailsToSave(candidate) /\ UNCHANGED <<call, queue, parted>>
  <2>1. /\ record \in Record /\ record.state = "Pending" /\ record.nonce = frame.nonce
        /\ candidate \in Registry /\ Distinct(candidate)
    BY <1>1, <1>4, <1>6, ReservedIsRecord
  <2>2. registry[d] = NoRecord \/ registry[d].state = "Pending"
    BY <1>4, <1>6 DEF CanReserve, Records
  <2>3. candidate[d] = record /\ \A e \in Device : e # d => candidate[e] = registry[e]
    BY <1>1, <1>4 DEF RegistryOK, Registry
  <2>4. Proper(command) /\ command.kind = "Accept" /\ command.device = d /\ command.record = record
    BY <1>4, <2>1 DEF NewCommand, Proper, Command
  <2> HIDE DEF candidate, command
  <2>5. RegistryOK' /\ NodesOK'
    <3>1. RegistryOK'
      BY <1>1, <1>6, <2>1, SavesEffect
    <3> QED
      BY <1>1, <1>2, <1>6, <3>1 DEF NodesOK
  <2>6. CASE Saves(candidate) /\ parted' = parted \ {d} /\ Call("task", command, "accepting")
    <3>1. CallsOK' /\ Adds(command)
      BY <1>1, <2>4, <2>6, CallEffect DEF Caller
    <3>2. registry' = candidate /\ stored' = candidate
      BY <2>6 DEF Saves
    <3>3. /\ \A accept \in Accepts' : accept \in Accepts \/ accept = <<d, record>>
          /\ Completes' \subseteq Completes
      BY <2>4, <3>1 DEF Adds
    <3> HIDE DEF record, d, frame
    <3> QED
      BY <1>2, <1>3, <1>4, <2>1, <2>2, <2>3, <2>5, <2>6, <3>1, <3>2, <3>3, ReserveStep DEF d, frame
  <2>7. CASE FailsToSave(candidate) /\ UNCHANGED <<call, queue, parted>>
    <3>1. CallsOK' /\ AddsNothing
      BY <1>1, <2>7, NoCallEffect
    <3>2. registry' = registry /\ (stored' = stored \/ stored' = registry \/ stored' = candidate)
      BY <2>7 DEF FailsToSave
    <3> HIDE DEF record, d, frame
    <3> QED
      BY <1>2, <1>3, <1>4, <2>1, <2>2, <2>3, <2>5, <2>7, <3>1, <3>2, ReserveStep DEF d, frame
  <2> QED
    BY <1>6, <2>6, <2>7
<1> QED
  BY <1>5, <1>6 DEF HandleJoinRequest, ReservesAndSaves

\* A join confirm of the record of device d is handled: the record is active now,
\* its save failed, or it was active before.
LEMMA ConfirmStep ==
  ASSUME PairingInv, NEW d \in Device, registry[d] \in Record,
         NEW active \in Record, active.state = "Active",
         active.id = registry[d].id, active.nonce = registry[d].nonce,
         <<d, registry[d].id, registry[d].nonce>> \in Confirmed,
         node' = node, parted' = parted, InboxRest,
         CallsOK', RamOK', RegistryOK', NodesOK',
         \A e \in Device : e # d =>
           /\ registry'[e] = registry[e]
           /\ stored'[e] = stored[e] \/ stored'[e] = registry[e],
         Accepts' \subseteq Accepts,
         \/ /\ registry'[d] = active /\ stored'[d] = active
            /\ \A complete \in Completes' : complete \in Completes \/ complete = <<d, registry[d]>>
         \/ /\ registry[d].state = "Pending" /\ registry'[d] = registry[d]
            /\ stored'[d] \in {stored[d], registry[d], active}
            /\ Completes' \subseteq Completes
         \/ /\ registry[d].state = "Active"
            /\ registry'[d] = registry[d] /\ stored'[d] = stored[d]
            /\ \A complete \in Completes' : complete \in Completes \/ complete = <<d, registry[d]>>
  PROVE  PairingInv'
<1>1. /\ \A i \in DOMAIN inbox : inbox[i].device \in Device
      /\ \A confirm \in Confirmed : confirm[1] \in Device
      /\ \A accept \in Accepts : accept[1] \in Device
      /\ \A complete \in Completes : complete[1] \in Device
  BY FramesHeard, TypeParts DEF PairingInv, Accepts, Completes, Sends, CallsOK
<1>2. PICK k \in Nat :
        \A i \in DOMAIN inbox' : i + k \in DOMAIN inbox /\ inbox'[i] = inbox[i + k]
  BY DEF InboxRest
<1>3. Confirmed' \subseteq Confirmed
  BY HeardRest
<1>4. TypeInv'
  BY TypePartsNext DEF InboxRest
<1>5. /\ ~Expects(d, registry[d].nonce)
      /\ d \notin parted => node[d].state # "Unconfigured" /\ Matches(registry[d], d)
  BY MarksAssumption DEF PairingInv, ConfirmInv, ConfirmOK
<1>6. active # NoRecord /\ registry[d] # NoRecord
  BY MarksAssumption
<1>7. RequestInv'
  <2>1. \A i, j \in DOMAIN inbox' : i < j => i + k < j + k
    BY <1>2 DEF InboxRest, InboxOK
  <2> QED
    BY <1>2, <2>1 DEF PairingInv, RequestInv, Expects
<1>8. SendInv'
  <2>1. ASSUME NEW accept \in Accepts', accept[1] \notin parted, Expects(accept[1], accept[2].nonce)
        PROVE  (Agrees(registry[accept[1]], accept[2]) /\ Agrees(stored[accept[1]], accept[2]))'
    <3>1. /\ accept[1] \in Device
          /\ Agrees(registry[accept[1]], accept[2]) /\ Agrees(stored[accept[1]], accept[2])
      BY <1>1, <2>1 DEF PairingInv, SendInv
    <3> QED
      BY <1>6, <3>1 DEF Agrees
  <2>2. ASSUME NEW complete \in Completes'
        PROVE  /\ ~Expects(complete[1], complete[2].nonce)
               /\ complete[1] \notin parted /\ node[complete[1]].state = "Provisional"
                    /\ Matches(complete[2], complete[1]) =>
                      /\ registry'[complete[1]].state = "Active"
                      /\ stored'[complete[1]].state = "Active"
    <3>1. CASE complete \in Completes
      <4>1. complete[1] \in Device
        BY <1>1, <3>1
      <4> QED
        BY <3>1, <4>1 DEF PairingInv, SendInv
    <3>2. CASE complete \notin Completes
      <4>1. complete = <<d, registry[d]>>
        BY <2>2, <3>2
      <4>2. d \notin parted => registry'[d].state = "Active" /\ stored'[d].state = "Active"
        BY <1>6, <2>2, <3>2 DEF PairingInv, ActiveInv
      <4> QED
        BY <1>5, <4>1, <4>2
    <3> QED
      BY <3>1, <3>2
  <2> QED
    BY <2>1, <2>2 DEF SendInv, Expects, Matches
<1>9. ConfirmInv'
  BY <1>1, <1>2, <1>3, <1>6 DEF PairingInv, ConfirmInv, ConfirmOK, Expects, Matches
<1>10. ActiveInv'
  BY <1>5, <1>6 DEF PairingInv, ActiveInv, ActiveHasJoined, Matches
<1>11. JoinedIsRegistered' /\ ActiveHasJoined'
  <2>1. JoinedIsRegistered'
    BY <1>5, <1>6 DEF PairingInv, JoinedIsRegistered, Matches
  <2>2. ActiveHasJoined'
    BY <1>5, <1>6 DEF PairingInv, ActiveHasJoined, Matches
  <2> QED
    BY <2>1, <2>2
<1> QED
  BY <1>4, <1>7, <1>8, <1>9, <1>10, <1>11 DEF PairingInv

\* A complete is queued, or is left out.
LEMMA SendCompleteEffect ==
  ASSUME CallsOK, NEW d \in Device, registry[d] \in Record, NEW what,
         SendComplete(d, what), call' = call, awaiting \in BOOLEAN
  PROVE  /\ CallsOK' /\ awaiting' \in BOOLEAN /\ Accepts' \subseteq Accepts
         /\ \A complete \in Completes' : complete \in Completes \/ complete = <<d, registry[d]>>
<1> DEFINE command == NewCommand("Complete", d, registry[d])
<1>1. /\ command \in Command /\ command.kind = "Complete" /\ command.device = d
      /\ command.record = registry[d]
  BY DEF NewCommand, Command
<1>2. /\ awaiting' \in BOOLEAN
      /\ queue' = queue \/ (Len(queue) < QueueDepth /\ queue' = Append(queue, command))
  BY DEF SendComplete
<1> HIDE DEF command
<1>3. /\ queue' \in Seq(Command) /\ Len(queue') <= QueueDepth
      /\ \A i \in DOMAIN queue' :
           (i \in DOMAIN queue /\ queue'[i] = queue[i]) \/ queue'[i] = command
  BY <1>1, <1>2, BoundsAssumption DEF CallsOK
<1>4. \A c \in UnderWay' : c \in UnderWay \/ c = command
  BY <1>3 DEF UnderWay
<1>5. Adds(command)
  BY <1>4, AddsFrom
<1>6. CallsOK'
  BY <1>1, <1>3, <1>4 DEF CallsOK
<1> QED
  BY <1>1, <1>2, <1>5, <1>6 DEF Adds

\* handleJoinConfirm().
LEMMA HandleJoinConfirmStep ==
  ASSUME PairingInv, HandleJoinConfirm
  PROVE  PairingInv'
<1> DEFINE frame == Head(inbox)
           d == Holder(frame.id)
           active == [registry[d] EXCEPT !.state = "Active"]
           candidate == [registry EXCEPT ![d].state = "Active"]
<1>1. CallsOK /\ RamOK /\ RegistryOK /\ NodesOK /\ InboxOK
  BY TypeParts DEF PairingInv
<1>2. /\ inbox # << >> /\ frame.kind = "JoinConfirm" /\ inbox' = Tail(inbox)
      /\ UNCHANGED <<radio, call, window, expected, node, parted>>
  BY DEF HandleJoinConfirm
<1>3. InboxRest /\ frame \in Frame /\ 1 \in DOMAIN inbox /\ frame = inbox[1]
  BY <1>1, <1>2, InboxTail
<1>4. CASE UNCHANGED <<registry, stored, queue, awaiting>>
  BY <1>1, <1>2, <1>3, <1>4, NoCallEffect, QuietStep DEF RamOK
<1>5. CASE Confirms(frame)
  <2>1. /\ d = frame.device /\ d \in Device /\ registry[d] \in Record
        /\ registry[d].id = frame.id /\ registry[d].nonce = frame.nonce
    <3>1. PICK e \in Records :
            e = frame.device /\ registry[e].id = frame.id /\ registry[e].nonce = frame.nonce
      BY <1>5 DEF Confirms
    <3>2. d \in Records /\ registry[d].id = frame.id
      BY <3>1 DEF Holder
    <3>3. d = e
      BY <1>1, <3>1, <3>2 DEF RegistryOK, Distinct, Records
    <3>4. d \in Device /\ registry[d] \in Record
      BY <1>1, <3>2 DEF RegistryOK, Registry, Records
    <3> QED
      BY <3>1, <3>3, <3>4
  <2>2. <<d, registry[d].id, registry[d].nonce>> \in Confirmed
    BY <1>2, <1>3, <2>1 DEF Confirmed, Heard
  <2>3. /\ active \in Record /\ active.state = "Active"
        /\ active.id = registry[d].id /\ active.nonce = registry[d].nonce
        /\ candidate \in Registry /\ candidate[d] = active
        /\ \A e \in Device : e # d => candidate[e] = registry[e]
    BY <1>1, <2>1 DEF RegistryOK, Registry, Record
  <2> HIDE DEF active, candidate
  <2>4. Distinct(candidate)
    BY <1>1, <2>1, <2>3, MarksAssumption DEF RegistryOK, Distinct
  <2>5. awaiting \in BOOLEAN /\ registry[d].state \in {"Pending", "Active"}
    BY <1>1, <2>1 DEF RamOK, Record
  <2>6. NodesOK' /\ (awaiting' \in BOOLEAN => RamOK')
    BY <1>1, <1>2 DEF NodesOK, RamOK
  <2>7. CASE registry[d].state = "Active" /\ SendComplete(d, "idle") /\ UNCHANGED <<registry, stored>>
    <3>1. /\ CallsOK' /\ awaiting' \in BOOLEAN /\ Accepts' \subseteq Accepts
          /\ \A complete \in Completes' : complete \in Completes \/ complete = <<d, registry[d]>>
      BY <1>1, <1>2, <2>1, <2>5, <2>7, SendCompleteEffect
    <3>2. RegistryOK'
      BY <1>1, <2>7 DEF RegistryOK, Distinct
    <3> HIDE DEF d, frame
    <3> QED
      BY <1>2, <1>3, <2>1, <2>2, <2>3, <2>6, <2>7, <3>1, <3>2, ConfirmStep
  <2>8. CASE Saves(candidate) /\ SendComplete(d, "completing")
    <3>1. /\ CallsOK' /\ awaiting' \in BOOLEAN /\ Accepts' \subseteq Accepts
          /\ \A complete \in Completes' : complete \in Completes \/ complete = <<d, registry[d]>>
      BY <1>1, <1>2, <2>1, <2>5, <2>8, SendCompleteEffect
    <3>2. RegistryOK' /\ registry' = candidate /\ stored' = candidate
      BY <1>1, <2>3, <2>4, <2>8, SavesEffect DEF Saves
    <3> HIDE DEF d, frame
    <3> QED
      BY <1>2, <1>3, <2>1, <2>2, <2>3, <2>6, <3>1, <3>2, ConfirmStep
  <2>9. CASE registry[d].state = "Pending" /\ FailsToSave(candidate) /\ UNCHANGED <<queue, awaiting>>
    <3>1. CallsOK' /\ AddsNothing
      BY <1>1, <1>2, <2>9, NoCallEffect
    <3>2. /\ RegistryOK' /\ registry' = registry
          /\ stored' = stored \/ stored' = registry \/ stored' = candidate
      BY <1>1, <2>3, <2>4, <2>9, SavesEffect DEF FailsToSave
    <3> HIDE DEF d, frame
    <3> QED
      BY <1>2, <1>3, <2>1, <2>2, <2>3, <2>5, <2>6, <2>9, <3>1, <3>2, ConfirmStep DEF AddsNothing
  <2> QED
    BY <1>5, <2>5, <2>7, <2>8, <2>9 DEF HandleJoinConfirm, AnswersAgain, candidate
<1> QED
  BY <1>4, <1>5 DEF HandleJoinConfirm

\* The gateway restarts with what is on flash.
LEMMA RestartStep ==
  ASSUME PairingInv, Restart
  PROVE  PairingInv'
<1>1. RegistryOK /\ NodesOK
  BY TypeParts DEF PairingInv
<1>2. /\ registry' = stored /\ queue' = << >> /\ inbox' = << >>
      /\ \A c \in Caller : call'[c].state # "entering"
      /\ call' \in [Caller -> [state : CallState, command : Command \cup {NoRecord}]]
      /\ UNCHANGED <<stored, node, parted>>
  BY DEF Restart, NoCall, CallState
<1>3. UnderWay' = {} /\ DOMAIN inbox' = {}
  BY <1>2 DEF UnderWay
<1>4. Accepts' = {} /\ Completes' = {} /\ Confirmed' = {}
  BY <1>3 DEF Accepts, Completes, Sends, Confirmed, Heard
<1>5. TypeInv'
  <2>1. CallsOK' /\ InboxOK'
    BY <1>2, <1>3, BoundsAssumption DEF CallsOK, InboxOK
  <2>2. RamOK'
    BY DEF Restart, RamOK, Operational
  <2>3. RegistryOK' /\ NodesOK'
    BY <1>1, <1>2 DEF RegistryOK, NodesOK, Distinct
  <2> QED
    BY <2>1, <2>2, <2>3, TypePartsNext
<1>6. RequestInv' /\ SendInv' /\ ConfirmInv'
  BY <1>3, <1>4 DEF RequestInv, SendInv, ConfirmInv
<1>7. ActiveInv' /\ JoinedIsRegistered' /\ ActiveHasJoined'
  BY <1>2 DEF PairingInv, ActiveInv, JoinedIsRegistered, ActiveHasJoined, Matches
<1> QED
  BY <1>5, <1>6, <1>7 DEF PairingInv

-----------------------------------------------------------------------------
(* The invariant *)

\* The invariant holds before any window is opened.
LEMMA InitInv == Init => PairingInv
<1> SUFFICES ASSUME Init PROVE PairingInv
  OBVIOUS
<1>1. /\ queue = << >> /\ inbox = << >>
      /\ \A c \in Caller : call[c].state # "entering"
      /\ call \in [Caller -> [state : CallState, command : Command \cup {NoRecord}]]
      /\ \A d \in Device : registry[d] = NoRecord /\ stored[d] = NoRecord /\ node[d] = NewNode
      /\ stored = registry
  BY DEF Init, NoCall, CallState
<1>2. UnderWay = {} /\ DOMAIN inbox = {}
  BY <1>1 DEF UnderWay
<1>3. Accepts = {} /\ Completes = {} /\ Confirmed = {}
  BY <1>2 DEF Accepts, Completes, Sends, Confirmed, Heard
<1>4. TypeInv
  <2>1. CallsOK /\ InboxOK
    BY <1>1, <1>2, BoundsAssumption DEF CallsOK, InboxOK
  <2>2. RamOK
    BY DEF Init, RamOK, Operational
  <2>3. RegistryOK
    BY <1>1 DEF Init, RegistryOK, Registry, Distinct
  <2>4. NodesOK
    BY <1>1 DEF Init, NodesOK, NewNode, Node
  <2> QED
    BY <2>1, <2>2, <2>3, <2>4, TypeParts
<1>5. RequestInv /\ SendInv /\ ConfirmInv
  BY <1>2, <1>3 DEF RequestInv, SendInv, ConfirmInv
<1>6. ActiveInv /\ JoinedIsRegistered /\ ActiveHasJoined
  BY <1>1 DEF ActiveInv, JoinedIsRegistered, ActiveHasJoined, NewNode
<1> QED
  BY <1>4, <1>5, <1>6 DEF PairingInv

\* Stuttering keeps the invariant.
LEMMA UnchangedStep ==
  ASSUME PairingInv, UNCHANGED vars
  PROVE  PairingInv'
<1>1. CallsOK /\ RamOK /\ InboxOK
  BY TypeParts DEF PairingInv
<1> QED
  BY <1>1, NoCallEffect, InboxUnchanged, QuietStep DEF vars, gateway, RamOK

\* Every step keeps the invariant.
LEMMA NextStep ==
  ASSUME PairingInv, Next
  PROVE  PairingInv'
<1>1. ASSUME NEW d \in Device, NodeNext(d)
      PROVE  PairingInv'
  BY <1>1, RequestJoinStep, ConfirmJoinStep, SilentStep DEF NodeNext
<1>2. CASE GatewayNext
  <2>1. CASE \E caller \in Caller : Enter(caller) \/ GiveUp(caller)
    BY <2>1, EnterStep, GiveUpStep
  <2>2. CASE \E delivered \in BOOLEAN : RadioStep(delivered)
    BY <2>2, RadioTaskStep
  <2>3. CASE \E d \in Device : DeleteNode(d)
    BY <2>3, DeleteNodeStep
  <2>4. CASE HandleJoinRequest \/ HandleJoinConfirm \/ Restart
    BY <2>4, HandleJoinRequestStep, HandleJoinConfirmStep, RestartStep
  <2> QED
    BY <1>2, <2>1, <2>2, <2>3, <2>4, WindowSteps, TaskSteps DEF GatewayNext
<1> QED
  BY <1>1, <1>2 DEF Next

\* The invariant of joins.
THEOREM PairingInvariance == Spec => []PairingInv
<1>1. PairingInv /\ [Next]_vars => PairingInv'
  BY NextStep, UnchangedStep
<1> QED
  BY <1>1, InitInv, PTL DEF Spec

-----------------------------------------------------------------------------
(* What follows *)

\* Every variable keeps its type, and no two records have the same ID.
THEOREM PairingTypeOK == Spec => []TypeOK
<1>1. PairingInv => TypeOK
  BY DEF PairingInv, TypeInv
<1> QED
  BY <1>1, PairingInvariance, PTL

\* A node with a configuration, neither deleted nor reset since, is registered with
\* it, in RAM and on flash, and as active if it is.
THEOREM JoinedStaysRegistered == Spec => []JoinedIsRegistered
<1>1. PairingInv => JoinedIsRegistered
  BY DEF PairingInv
<1> QED
  BY <1>1, PairingInvariance, PTL

\* A record is active only if the node it is for has confirmed it.
THEOREM ActiveOnlyByJoining == Spec => []ActiveHasJoined
<1>1. PairingInv => ActiveHasJoined
  BY DEF PairingInv
<1> QED
  BY <1>1, PairingInvariance, PTL
=============================================================================
