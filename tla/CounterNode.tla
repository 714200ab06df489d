----------------------------- MODULE CounterNode -----------------------------
(***************************************************************************)
(* Pulse-counting nodes: the part of NodeRuntime.h, CounterReedProfile.h   *)
(* and CounterStorage.h that counts, opens command sessions and applies    *)
(* set_count.  A node is one sequential loop; a reset can hit it between   *)
(* any two EEPROM saves.  Each save (counter ring, set_count result,       *)
(* network configuration) is one step here: every store commits a record   *)
(* with the last byte it writes.                                           *)
(*                                                                         *)
(* EEPROM: config, count, journal.   RAM: pc, session.  The RAM copies of  *)
(* count and journal equal the EEPROM whenever another step can see them.  *)
(***************************************************************************)
EXTENDS SessionFrames

CONSTANTS
  CountLimit,       \* the counter is a uint32_t: 2^32
  SessionAttempts,  \* kSessionAttempts
  ResultSends,      \* transmissions of sendWithRetry(..., 2, ...): 3
  MaxResets         \* bound: node resets and network resets

ASSUME CountLimitAssumption == CountLimit \in Nat \ {0} /\ Count = 0 .. CountLimit - 1
ASSUME SessionAttemptsAssumption == SessionAttempts \in Nat \ {0}
ASSUME ResultSendsAssumption == ResultSends \in Nat \ {0}

VARIABLES
  config,   \* NetworkConfig: provisioning state and radio node ID
  count,    \* newest value in the counter ring
  journal,  \* last set_count result: RecordJournal, or EmptyJournal
  pc,       \* where the node's loop is
  session,  \* nonce of the running session, and transmissions left in it
  effects,  \* history: every set_count whose Pending result was saved
  spent,    \* history: IDs applied since the node's last commissioning
  resets    \* history: resets so far

nodeVars == <<config, count, journal, pc, session, effects, spent, resets>>

\* A set_count result; ID zero is never issued and marks a cleared result.
RecordJournal == [status : {"Pending", "Applied"},
                  commandId : CommandId \cup {NoCommandId}, old : Count, new : Count]
EmptyJournal == [status |-> "None", commandId |-> NoCommandId, old |-> 0, new |-> 0]

NetworkConfig == [state : {"Unconfigured", "Provisional", "Active"},
                  nodeId : NodeId \cup {NoNode}]
Unconfigured == [state |-> "Unconfigured", nodeId |-> NoNode]

Effect == [device : Device, commandId : CommandId, old : Count, new : Count]

NoSession == [nonce |-> NoNonce, left |-> 0]

\* "idle"         polling, sleeping, reporting
\* "ready"        about to send Command ready
\* "listen"       inside the 250 ms window after it
\* "saveCount"    the Pending result is saved, the ring is next
\* "saveApplied"  the count is saved, the Applied result is next
\* "answer"       sending the Command result
\* "activated"    the active configuration is saved, commissioned() is next
Places == {"idle", "ready", "listen", "saveCount", "saveApplied", "answer", "activated"}

NodeTypeOK ==
  /\ config \in [Device -> NetworkConfig]
  /\ count \in [Device -> Count]
  /\ journal \in [Device -> RecordJournal \cup {EmptyJournal}]
  /\ pc \in [Device -> Places]
  /\ session \in [Device -> [nonce : Nonce \cup {NoNonce},
                             left : 0 .. SessionAttempts + ResultSends]]
  /\ effects \in SUBSET Effect
  /\ spent \in [Device -> SUBSET CommandId]
  /\ resets \in Nat

NodeInit ==
  /\ config = [d \in Device |-> Unconfigured]
  /\ count = [d \in Device |-> 0]
  /\ journal = [d \in Device |-> EmptyJournal]
  /\ pc = [d \in Device |-> "idle"]
  /\ session = [d \in Device |-> NoSession]
  /\ effects = {}
  /\ spent = [d \in Device |-> {}]
  /\ resets = 0

\* active()
IsActive(d) == config[d].state = "Active"

At(d, place) == pc[d] = place

Goto(d, place) == pc' = [pc EXCEPT ![d] = place]

InSession(d) == session[d].nonce # NoNonce

-----------------------------------------------------------------------------
\* A confirmed pulse is counted and saved before anything else happens.
Pulse(d) ==
  /\ At(d, "idle")
  /\ count' = [count EXCEPT ![d] = (@ + 1) % CountLimit]
  /\ UNCHANGED <<config, journal, pc, session, effects, spent, resets>>

\* runCommandSession(), on a button press or an acknowledgement's hint.
StartSession(d, nonce) ==
  /\ At(d, "idle")
  /\ IsActive(d)
  /\ session' = [session EXCEPT ![d] = [nonce |-> nonce, left |-> SessionAttempts]]
  /\ Goto(d, "ready")
  /\ UNCHANGED <<config, count, journal, effects, spent, resets>>

\* Mutant: the attempts are not counted.
SendReadyForever(d) ==
  /\ At(d, "ready")
  /\ Goto(d, "listen")
  /\ UNCHANGED <<config, count, journal, session, effects, spent, resets>>

SendReady(d) ==
  /\ At(d, "ready")
  /\ session' = [session EXCEPT ![d].left = @ - 1]
  /\ Goto(d, "listen")
  /\ UNCHANGED <<config, count, journal, effects, spent, resets>>

\* The session is over; the node listens no more.
EndSession(d) ==
  /\ session' = [session EXCEPT ![d] = NoSession]
  /\ Goto(d, "idle")

\* The window closed, or a frame of another session ended it early.
AttemptOver(d) ==
  /\ At(d, "listen")
  /\ IF session[d].left = 0
     THEN EndSession(d)
     ELSE Goto(d, "ready") /\ UNCHANGED session
  /\ UNCHANGED <<config, count, journal, effects, spent, resets>>

\* No command, echoing the session's nonce.
HearNoCommand(d) ==
  /\ At(d, "listen")
  /\ EndSession(d)
  /\ UNCHANGED <<config, count, journal, effects, spent, resets>>

\* Mutant: only an unfinished command is recognised.
IsRedeliveryOfPending(d, id) ==
  journal[d].status = "Pending" /\ journal[d].commandId = id

\* A command whose ID the journal holds is a redelivery: answered from it.
\* Recovery runs before any session, so the stored result is Applied by then.
IsRedelivery(d, id) ==
  journal[d] # EmptyJournal /\ journal[d].commandId = id

HearRedelivery(d, id) ==
  /\ At(d, "listen")
  /\ IsRedelivery(d, id)
  /\ session' = [session EXCEPT ![d].left = ResultSends]
  /\ Goto(d, "answer")
  /\ UNCHANGED <<config, count, journal, effects, spent, resets>>

\* A new command: its Pending result is the point of no return.
HearCommand(d, id, value) ==
  /\ At(d, "listen")
  /\ ~IsRedelivery(d, id)
  /\ journal' = [journal EXCEPT ![d] =
       [status |-> "Pending", commandId |-> id, old |-> count[d], new |-> value]]
  /\ effects' = effects \cup
       {[device |-> d, commandId |-> id, old |-> count[d], new |-> value]}
  /\ spent' = [spent EXCEPT ![d] = @ \cup {id}]
  /\ Goto(d, "saveCount")
  /\ UNCHANGED <<config, count, session, resets>>

\* completePending(), first save: the requested count goes into the ring.
SaveCount(d) ==
  /\ At(d, "saveCount")
  /\ count' = [count EXCEPT ![d] = journal[d].new]
  /\ Goto(d, "saveApplied")
  /\ UNCHANGED <<config, journal, session, effects, spent, resets>>

\* completePending(), second save: then the session goes on, or the boot does.
SaveApplied(d) ==
  /\ At(d, "saveApplied")
  /\ journal' = [journal EXCEPT ![d].status = "Applied"]
  /\ IF InSession(d)
     THEN /\ session' = [session EXCEPT ![d].left = ResultSends]
          /\ Goto(d, "answer")
     ELSE EndSession(d)
  /\ UNCHANGED <<config, count, effects, spent, resets>>

\* Mutant: the counter is read when the answer is sent.
CurrentResult(d) ==
  [status |-> "applied", data |-> [old |-> journal[d].old, new |-> count[d]]]

\* The result this session answers with.
StoredResult(d) ==
  [status |-> "applied", data |-> [old |-> journal[d].old, new |-> journal[d].new]]

\* One transmission of the result, acknowledged or not.
SendResult(d, acknowledged) ==
  /\ At(d, "answer")
  /\ IF acknowledged \/ session[d].left = 1
     THEN EndSession(d)
     ELSE session' = [session EXCEPT ![d].left = @ - 1] /\ UNCHANGED pc
  /\ UNCHANGED <<config, count, journal, effects, spent, resets>>

-----------------------------------------------------------------------------
\* Mutant: a Pending result is not completed on boot.
RebootWithoutRecovery(d) ==
  /\ session' = [session EXCEPT ![d] = NoSession]
  /\ Goto(d, "idle")

\* The node is reset: RAM is lost, and begin() completes a Pending result
\* before the loop counts again.
Reboot(d) ==
  /\ session' = [session EXCEPT ![d] = NoSession]
  /\ Goto(d, IF journal[d].status = "Pending" THEN "saveCount" ELSE "idle")

ResetNode(d) ==
  /\ resets < MaxResets
  /\ resets' = resets + 1
  /\ Reboot(d)
  /\ UNCHANGED <<config, count, journal, effects, spent>>

\* A long button press: the network configuration is invalidated, and the
\* node restarts.  The profile's EEPROM area survives.
ResetNetwork(d) ==
  /\ resets < MaxResets
  /\ resets' = resets + 1
  /\ At(d, "idle")
  /\ config' = [config EXCEPT ![d] = Unconfigured]
  /\ Reboot(d)
  /\ UNCHANGED <<count, journal, effects, spent>>

\* requestJoin() saved the ID that Join accept assigned.
Provision(d, n) ==
  /\ At(d, "idle")
  /\ config[d] = Unconfigured
  /\ config' = [config EXCEPT ![d] = [state |-> "Provisional", nodeId |-> n]]
  /\ UNCHANGED <<count, journal, pc, session, effects, spent, resets>>

\* confirmJoin() received Join complete and saved the active configuration.
Activate(d) ==
  /\ At(d, "idle")
  /\ config[d].state = "Provisional"
  /\ config' = [config EXCEPT ![d].state = "Active"]
  /\ spent' = [spent EXCEPT ![d] = {}]
  /\ Goto(d, "activated")
  /\ UNCHANGED <<count, journal, session, effects, resets>>

\* profile_.commissioned(): a recorded ID is replaced by zero.
ForgetCommandIds(d) ==
  /\ At(d, "activated")
  /\ journal' = [journal EXCEPT ![d] =
       IF @.commandId = NoCommandId THEN @
       ELSE [status |-> "Applied", commandId |-> NoCommandId,
             old |-> count[d], new |-> count[d]]]
  /\ Goto(d, "idle")
  /\ UNCHANGED <<config, count, session, effects, spent, resets>>

=============================================================================
