----------------------------- MODULE CommandOrder -----------------------------
(***************************************************************************)
(* The order in which commands leave the gateway, as the inductive part of *)
(* its invariants: the book only ever holds the latest command of a node   *)
(* ID, a store that disagrees with RAM holds at most one command that RAM  *)
(* never had, and the commands for one node ID are sent in the order they  *)
(* were issued.  A node relies on it: it remembers one command, the last.  *)
(* The predicates are about values of book, nvs, issued and radioSends.    *)
(***************************************************************************)
EXTENDS CommandGateway

\* Command r was issued as number i.
IssuedAs(r, i, issues) ==
  /\ issues[i].node = r.nodeId
  /\ issues[i].commandId = r.commandId
  /\ issues[i].uid = r.uid
  /\ issues[i].count = r.count

\* Command r is the latest one issued for its node ID.
IsLatest(r, issues) ==
  \E i \in 1 .. Len(issues) :
    /\ IssuedAs(r, i, issues)
    /\ \A j \in 1 .. Len(issues) : issues[j].node = r.nodeId => j <= i

IdsDiffer(issues) ==
  \A i, j \in 1 .. Len(issues) : issues[i].commandId = issues[j].commandId => i = j

InBook(r, b) == \E p \in Positions(b) : SameCommand(b.records[p], r)

\* A command that reached the store although its queueing was reported as failed.
IsFresh(r, issues) == r.commandId \notin IdsOf(issues)

\* What the next boot loads is in the book, but for one fresh command at most.
Follows(store, b, issues) ==
  /\ \A p \in Positions(store) :
       InBook(store.records[p], b) \/ IsFresh(store.records[p], issues)
  /\ \A p, q \in Positions(store) :
       IsFresh(store.records[p], issues) /\ IsFresh(store.records[q], issues) => p = q

InOrder(store, b, issues) ==
  /\ OneRecordPerNode(b)
  /\ OneRecordPerNode(store)
  /\ IdsDiffer(issues)
  /\ \A p \in Positions(b) : IsLatest(b.records[p], issues)
  /\ Follows(store, b, issues)

BookInOrder == InOrder(nvs, book, issued)

-----------------------------------------------------------------------------
IsCommandTo(n, p, sends) ==
  /\ p \in 1 .. Len(sends)
  /\ sends[p].kind = "Command"
  /\ sends[p].target = n

NotLater(id, other, issues) ==
  \A i, j \in 1 .. Len(issues) :
    issues[i].commandId = id /\ issues[j].commandId = other => i <= j

\* The command in a frame was issued for the node ID the frame is sent to.
FrameIsIssued(frame, issues) ==
  \E i \in 1 .. Len(issues) :
    /\ issues[i].node = frame.target
    /\ issues[i].commandId = frame.commandId
    /\ issues[i].count = frame.count

\* Commands for one node ID are in the air in the order they were issued.
SentInOrder(sends, issues) ==
  \A n \in NodeId, p \in 1 .. Len(sends) : IsCommandTo(n, p, sends) =>
    /\ FrameIsIssued(sends[p], issues)
    /\ \A q \in 1 .. Len(sends) : IsCommandTo(n, q, sends) /\ p <= q =>
         NotLater(sends[p].commandId, sends[q].commandId, issues)

SendsInOrder == SentInOrder(radioSends, issued)

=============================================================================
