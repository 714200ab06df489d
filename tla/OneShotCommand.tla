---------------------------- MODULE OneShotCommand ----------------------------
(***************************************************************************)
(* What set_count promises, without sessions, stores or crashes: a counter *)
(* per device that pulses and commands change, commands that a device      *)
(* applies at most once between two commissionings, and results that only  *)
(* ever report what a device did (protocol/PROTOCOL.md, "Set count").      *)
(***************************************************************************)
EXTENDS Naturals

CONSTANTS Device, CommandId, CountLimit

VARIABLES
  total,     \* the counter of each device
  requests,  \* every command the user has queued
  applied,   \* IDs each device applied since it was commissioned
  effects,   \* every application of a command
  results    \* the results the gateway shows

vars == <<total, requests, applied, effects, results>>

CounterValue == 0 .. CountLimit - 1
Request == [commandId : CommandId, count : CounterValue]

\* What the gateway shows of an application: a command is queued for a radio
\* node ID, and a result says which command it answers, not which device did it.
Reported(effect) ==
  [commandId |-> effect.commandId, old |-> effect.old, new |-> effect.new]

Init ==
  /\ total = [d \in Device |-> 0]
  /\ requests = {}
  /\ applied = [d \in Device |-> {}]
  /\ effects = {}
  /\ results = {}

\* The user queues commands, each under an ID of its own; the gateway shows results
\* of commands that were applied, and may drop or show them again.
Ask ==
  /\ requests' \subseteq Request
  /\ requests \subseteq requests'
  /\ \A new \in requests' \ requests, other \in requests' :
       new.commandId = other.commandId => new = other
  /\ results' \subseteq {Reported(effect) : effect \in effects}
  /\ UNCHANGED <<total, applied, effects>>

Pulse(d) ==
  /\ total' = [total EXCEPT ![d] = (@ + 1) % CountLimit]
  /\ UNCHANGED <<requests, applied, effects, results>>

Apply(d, request) ==
  /\ request.commandId \notin applied[d]
  /\ total' = [total EXCEPT ![d] = request.count]
  /\ applied' = [applied EXCEPT ![d] = @ \cup {request.commandId}]
  /\ effects' = effects \cup {[device |-> d, commandId |-> request.commandId,
                               old |-> total[d], new |-> request.count]}
  /\ UNCHANGED <<requests, results>>

Commission(d) ==
  /\ applied' = [applied EXCEPT ![d] = {}]
  /\ UNCHANGED <<total, requests, effects, results>>

Next ==
  \/ Ask
  \/ \E d \in Device :
       \/ Pulse(d)
       \/ \E request \in requests : Apply(d, request)
       \/ Commission(d)

Spec == Init /\ [][Next]_vars

=============================================================================
