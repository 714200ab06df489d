--------------------------- MODULE SessionInvariant ---------------------------
(***************************************************************************)
(* The inductive invariant of CommandSession.  Commands reach a node in    *)
(* the order they were issued (CommandOrder), so whatever can still reach  *)
(* it is no older than anything it has applied, and of those only the last *)
(* can come again: the one its journal remembers.                          *)
(***************************************************************************)
EXTENDS CommandSession, CommandOrder

\* What the node's loop knows at each of its places.
PlaceOK ==
  \A d \in Device :
    /\ config[d].state # "Unconfigured" => config[d].nodeId \in NodeId
    /\ InSession(d) => IsActive(d) /\ pc[d] \notin {"idle", "activated"}
    /\ pc[d] \in {"ready", "listen", "answer"} => InSession(d)
    /\ pc[d] \in {"ready", "answer"} => session[d].left > 0
    /\ pc[d] \in {"saveCount", "saveApplied"} => journal[d].status = "Pending"
    /\ journal[d].status = "Pending" \/ pc[d] = "answer" => journal[d].commandId \in CommandId
    /\ pc[d] = "activated" => spent[d] = {}

\* Command id, which a device at node ID n has applied, is the last one it
\* applied, or one issued later for n has taken its place.
IsOver(id, n, last, issues) ==
  \E i \in 1 .. Len(issues) :
    /\ issues[i].node = n
    /\ issues[i].commandId = id
    /\ id # last => \E j \in 1 .. Len(issues) : i < j /\ issues[j].node = n

\* Nothing on its way to n is older than command id, and only the last command
\* the device applied can come again.
IsPast(id, n, last, sends, issues) ==
  \A p \in 1 .. Len(sends) : IsCommandTo(n, p, sends) =>
    /\ NotLater(id, sends[p].commandId, issues)
    /\ sends[p].commandId = id => id = last

SpentAt(ids, n, last, sends, issues) ==
  \A id \in ids : IsOver(id, n, last, issues) /\ IsPast(id, n, last, sends, issues)

SpentInOrder ==
  \A d \in Device : IsActive(d) =>
    SpentAt(spent[d], config[d].nodeId, journal[d].commandId, radioSends, issued)

IInv == TypeOK /\ PlaceOK /\ BookInOrder /\ SendsInOrder /\ SpentInOrder

-----------------------------------------------------------------------------
(* Where a result comes from: an applied result is one of the set_counts   *)
(* that were done, wherever it is kept or on its way.                      *)

IsDone(id, result, done) ==
  \E d \in Device :
    [device |-> d, commandId |-> id, old |-> result.data.old, new |-> result.data.new] \in done

\* The results of a book, its store, or a queue of session frames are true.
BookIsTrue(b, done) ==
  \A i \in Positions(b) :
    b.records[i].result.status = "applied" =>
      IsDone(b.records[i].commandId, b.records[i].result, done)

FramesAreTrue(frames, done) ==
  \A p \in 1 .. Len(frames) :
    frames[p].kind = "CommandResult" => IsDone(frames[p].commandId, frames[p].result, done)

\* What a journal remembers under an ID was done by its device.
JournalsAreTrue ==
  \A d \in Device : journal[d].commandId \in CommandId =>
    [device |-> d, commandId |-> journal[d].commandId,
     old |-> journal[d].old, new |-> journal[d].new] \in effects

\* A counter is only ever set to a value that was asked for.
AsIssued(done, issues) ==
  \A e \in done : \E i \in 1 .. Len(issues) :
    issues[i].commandId = e.commandId /\ issues[i].count = e.new

TruthInv ==
  /\ IInv
  /\ BookIsTrue(nvs, effects)
  /\ BookIsTrue(book, effects)
  /\ FramesAreTrue(sessionFrames, effects)
  /\ JournalsAreTrue
  /\ AsIssued(effects, issued)

-----------------------------------------------------------------------------
(* What a saved Pending result stands for: a set_count that is as good as   *)
(* done, because nothing else can change the counter before the save that   *)
(* completes it.                                                            *)

SavesInv ==
  \A d \in Device :
    /\ journal[d].status = "Pending" => pc[d] \in {"saveCount", "saveApplied"}
    /\ pc[d] = "saveApplied" => count[d] = journal[d].new

RefinementInv == TruthInv /\ SavesInv

=============================================================================
