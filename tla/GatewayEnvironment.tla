-------------------------- MODULE GatewayEnvironment --------------------------
(***************************************************************************)
(* The gateway of CommandGateway with nodes that open sessions and answer  *)
(* any command ever queued for them with any result, whether they were     *)
(* sent it or not.  What holds here does not depend on what nodes do.      *)
(***************************************************************************)
EXTENDS CommandGateway

EnvironmentInit == GatewayInit

EnvironmentNext ==
  \/ GatewayStep
  \/ EndTransmission
  \/ \E n \in NodeId, d \in Device : ConfirmNode(n, d)
  \/ \E frame \in ReadyFrame : QueueFrame(frame)
  \/ \E command \in Range(issued), nonce \in Nonce, result \in Result :
       QueueFrame([kind |-> "CommandResult", sender |-> command.node, nonce |-> nonce,
                   commandId |-> command.commandId, result |-> result])

EnvironmentSpec == EnvironmentInit /\ [][EnvironmentNext]_gatewayVars

-----------------------------------------------------------------------------
(* Properties *)

\* A book stays within its capacity and holds at most one record for every
\* node ID and for every command ID, in RAM as well as in what the next boot
\* loads (command_book::queue, complete and removeNode).
WellFormed(b) ==
  /\ Len(b.records) <= MaxCommandRecords
  /\ OneRecordPerNode(b)
  /\ \A i, j \in Positions(b) : b.records[i].commandId = b.records[j].commandId => i = j

BooksWellFormed == WellFormed(book) /\ WellFormed(nvs)

\* What leaves the book of the nodes other than n is one result at most, the
\* oldest: before it there are only commands to be fetched and n's own record.
SparesOthers(n) ==
  \A i \in Positions(book) :
    book.records[i].nodeId # n /\ book.records[i] \notin Range(book'.records) =>
      /\ book.records[i].state = "Completed"
      /\ \A j \in Positions(book) :
           j < i => book.records[j].state = "Pending" \/ book.records[j].nodeId = n

\* Queueing for one node never costs another node a command it still has to
\* fetch, and takes at most one result, the oldest (command_book::queue).
QueueingSparesOthers ==
  [][\A n \in NodeId, value \in Count : QueueCommand(n, value) => SparesOthers(n)]_gatewayVars

=============================================================================
