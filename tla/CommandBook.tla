----------------------------- MODULE CommandBook -----------------------------
(***************************************************************************)
(* The gateway's command book (shared/RadioProtocol, CommandBook.cpp): a   *)
(* bounded list of records, oldest first, with at most one record per      *)
(* radio node ID, and the sequence the command IDs come from.  Each        *)
(* operation is a pure function of a book; CommandGateway persists and     *)
(* publishes the result.  Time stamps are left out.                        *)
(***************************************************************************)
EXTENDS SessionFrames, SequencesExt

CONSTANTS
  NoDevice,           \* no active node is registered under an ID
  MaxCommandRecords   \* capacity of the book (16)

ASSUME NoDeviceAssumption == NoDevice \notin Device
ASSUME MaxCommandRecordsAssumption == MaxCommandRecords \in Nat \ {0}

\* The result of a record that is still pending.
NoResult == [status |-> "none", data |-> NoData]

Record == [uid : Device, nodeId : NodeId, commandId : CommandId, count : Count,
           state : {"Pending", "Completed"}, result : Result \cup {NoResult}]

Book == [records : Seq(Record), nextCommandId : CommandId]

-----------------------------------------------------------------------------
Positions(b) == 1 .. Len(b.records)

HasRecord(b, n) == \E i \in Positions(b) : b.records[i].nodeId = n

\* The book holds at most one record per node ID, so this is the first one.
IndexOf(b, n) ==
  CHOOSE i \in Positions(b) :
    /\ b.records[i].nodeId = n
    /\ \A j \in 1 .. i - 1 : b.records[j].nodeId # n

RecordOf(b, n) == b.records[IndexOf(b, n)]

\* What indexOf() relies on, and queue() and complete() preserve.
OneRecordPerNode(b) ==
  \A i, j \in Positions(b) : b.records[i].nodeId = b.records[j].nodeId => i = j

\* Two records of one command, pending or completed.
SameCommand(r, s) ==
  /\ r.nodeId = s.nodeId
  /\ r.commandId = s.commandId
  /\ r.uid = s.uid
  /\ r.count = s.count

HasPending(b, n) ==
  \E i \in Positions(b) :
    b.records[i].nodeId = n /\ b.records[i].state = "Pending"

\* The record at position i is removed; the younger ones move down.
Erase(b, i) == [b EXCEPT !.records = RemoveAt(@, i)]

\* The book without the record of node ID n, if it has one.
Without(b, n) ==
  IF HasRecord(b, n) THEN Erase(b, IndexOf(b, n)) ELSE b

-----------------------------------------------------------------------------
\* Mutant: the sequence does not wrap.
NextCommandIdUnwrapped(id) == id + 1

NextCommandId(id) == IF id = MaxCommandId THEN 1 ELSE id + 1

\* A pending command of the same device is never replaced; a result is, and
\* so is anything another device left under this node ID.
IsBusy(b, uid, n) ==
  /\ HasRecord(b, n)
  /\ RecordOf(b, n).state = "Pending"
  /\ RecordOf(b, n).uid = uid

\* Mutant: off by one.
IsFullTooLate(b) == Len(b.records) > MaxCommandRecords

IsFull(b) == Len(b.records) = MaxCommandRecords

HasCompleted(b) ==
  \E i \in Positions(b) : b.records[i].state = "Completed"

\* Mutant: the oldest record makes room, completed or not.
OldestRecord(b) == 1

OldestCompleted(b) ==
  CHOOSE i \in Positions(b) :
    /\ b.records[i].state = "Completed"
    /\ \A j \in 1 .. i - 1 : b.records[j].state # "Completed"

QueueStatus(b, uid, n) ==
  IF IsBusy(b, uid, n) THEN "Busy"
  ELSE IF IsFull(Without(b, n)) /\ ~HasCompleted(Without(b, n))
       THEN "CapacityReached"
       ELSE "Queued"

\* When the book is full the oldest result makes room for the new command.
MakeRoom(b) ==
  IF IsFull(b) THEN Erase(b, OldestCompleted(b)) ELSE b

NewRecord(b, uid, n, value) ==
  [uid |-> uid, nodeId |-> n, commandId |-> b.nextCommandId, count |-> value,
   state |-> "Pending", result |-> NoResult]

\* The book after a command was queued, where QueueStatus is "Queued".
Queued(b, uid, n, value) ==
  [records |-> Append(MakeRoom(Without(b, n)).records,
                      NewRecord(b, uid, n, value)),
   nextCommandId |-> NextCommandId(b.nextCommandId)]

-----------------------------------------------------------------------------
\* The pending command of device uid at node ID n is the one with this ID.
IsPending(b, uid, n, id) ==
  /\ HasRecord(b, n)
  /\ LET record == RecordOf(b, n)
     IN record.state = "Pending" /\ record.commandId = id /\ record.uid = uid

CompleteStatus(b, uid, n, id, result) ==
  IF ~IsPending(b, uid, n, id) THEN "NotPending"
  ELSE IF result.status = "storage_failure" THEN "Retry"
  ELSE IF ~HasExpectedData(result) THEN "InvalidResult"
  ELSE "Completed"

\* The book after a result was recorded, where CompleteStatus is "Completed".
Completed(b, n, result) ==
  [b EXCEPT !.records[IndexOf(b, n)].state = "Completed",
               !.records[IndexOf(b, n)].result = result]

\* cancel() removes the record only while it is pending.
CanCancel(b, n) == HasRecord(b, n) /\ RecordOf(b, n).state = "Pending"

=============================================================================
