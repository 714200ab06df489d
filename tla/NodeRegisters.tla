---------------------------- MODULE NodeRegisters ----------------------------
(***************************************************************************)
(* What the EEPROM of a pulse-counting node promises: three registers,     *)
(* each written at once (node/EEPROM.md).  The order of the writes is the  *)
(* one set_count recovery relies on.                                       *)
(***************************************************************************)
EXTENDS Integers

CONSTANTS Join, CommandId, CountLimit

VARIABLES config, result, count

Unconfigured == [state |-> "Unconfigured", join |-> 0]
NoResult == [status |-> "None", commandId |-> 0, old |-> 0, new |-> 0]

Init ==
  /\ config = Unconfigured
  /\ result = NoResult
  /\ count = 0

\* A network is joined, then confirmed; a reset forgets it.
Provision ==
  /\ config = Unconfigured
  /\ \E join \in Join : config' = [state |-> "Provisional", join |-> join]

Activate ==
  /\ config.state = "Provisional"
  /\ config' = [config EXCEPT !.state = "Active"]

Forget ==
  /\ config # Unconfigured
  /\ config' = Unconfigured

Configure == (Provision \/ Activate \/ Forget) /\ UNCHANGED <<result, count>>

\* Pulses are counted one by one, and never under a command.
Pulse ==
  /\ result.status # "Pending"
  /\ count' = (count + 1) % CountLimit
  /\ UNCHANGED <<config, result>>

\* A command is recorded with the count it finds, sets the count, is applied.
Accept ==
  /\ result.status # "Pending"
  /\ config.state = "Active"
  /\ \E id \in CommandId \ {result.commandId}, value \in 0 .. CountLimit - 1 :
       result' = [status |-> "Pending", commandId |-> id, old |-> count, new |-> value]
  /\ UNCHANGED <<config, count>>

SetCount ==
  /\ result.status = "Pending"
  /\ count' = result.new
  /\ UNCHANGED <<config, result>>

Finish ==
  /\ result.status = "Pending"
  /\ count = result.new
  /\ result' = [result EXCEPT !.status = "Applied"]
  /\ UNCHANGED <<config, count>>

\* Commissioning clears the recorded ID.
ClearId ==
  /\ result.status = "Applied"
  /\ config.state = "Active"
  /\ result' = [status |-> "Applied", commandId |-> 0, old |-> count, new |-> count]
  /\ UNCHANGED <<config, count>>

Next == Configure \/ Pulse \/ Accept \/ SetCount \/ Finish \/ ClearId

Spec == Init /\ [][Next]_<<config, result, count>>

=============================================================================
