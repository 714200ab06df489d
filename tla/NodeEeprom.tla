------------------------------ MODULE NodeEeprom ------------------------------
(***************************************************************************)
(* The EEPROM of a pulse-counting node at the grain of its byte updates    *)
(* (NodeStorage.h, CounterStorage.h): the network configuration and the    *)
(* last set_count result, each in two slots, and the ring of counts.       *)
(*                                                                         *)
(* The node is one loop: an operation runs its updates one after another,  *)
(* and a reset between any two of them drops the rest and boots from what  *)
(* is stored.  A run of byte updates that no load can tell apart is one    *)
(* update here, of a slot's body or a record's count, which is Torn until  *)
(* its last byte; a torn body never passes its CRC.                        *)
(***************************************************************************)
EXTENDS Integers, Sequences

CONSTANTS
  Join,         \* request nonces: each names one commissioning
  CommandId,    \* IDs of the commands the node is sent
  CountLimit,   \* the counter is a uint32_t: 2^32
  Generations,  \* generations wrap at 256
  RingSequences,   \* ring sequences wrap at 255; 0xFF marks an empty record
  RingSize,     \* kCounterRecordCount (32)
  Torn          \* bytes of an update that is not complete

ASSUME JoinAssumption == 0 \notin Join
ASSUME CommandIdAssumption == CommandId \subseteq Nat \ {0}
ASSUME WrapAssumption ==
  /\ CountLimit \in Nat \ {0}
  /\ Generations \in Nat /\ Generations % 2 = 0 /\ Generations >= 4
  /\ RingSequences \in Nat /\ RingSequences % 2 = 1
  /\ RingSize \in 2 .. RingSequences \div 2 + 1

VARIABLES
  eeprom,  \* the slots and records of the three stores
  ram,     \* what the stores and the node hold of it: values and positions
  writes   \* the updates the running operation still has to make

vars == <<eeprom, ram, writes>>

Count == 0 .. CountLimit - 1
Slot == {0, 1}
Sequence == 0 .. RingSequences - 1
Empty == RingSequences

Config == [state : {"Provisional", "Active"}, join : Join]
Unconfigured == [state |-> "Unconfigured", join |-> 0]
Stored == [status : {"Pending", "Applied"}, commandId : CommandId \cup {0},
           old : Count, new : Count]
NoResult == [status |-> "None", commandId |-> 0, old |-> 0, new |-> 0]

\* A slot: whether its magic is set, and its body, covered by a CRC.
Generation == 0 .. Generations - 1
Body(values) == [generation : Generation, value : values]
SlotOf(values) == [magic : BOOLEAN, body : Body(values) \cup {Torn}]

\* A torn body is told from every whole one.
ASSUME TornAssumption == Torn \notin Body(Config) \cup Body(Stored)

RecordOfRing == [sequence : Sequence \cup {Empty}, count : Count \cup {Torn}]

-----------------------------------------------------------------------------
(* Two-slot stores: NetworkConfigStore and SetCountStore *)

\* Mutant: generations do not wrap.
GenerationIsLarger(candidate, current) == candidate > current

\* The difference, taken as a signed byte, is positive.
GenerationIsNewer(candidate, current) ==
  (candidate - current) % Generations \in 1 .. Generations \div 2 - 1

\* decodeNetworkConfig(), decodeSetCountResult()
Decodes(slot) == slot.magic /\ slot.body # Torn

\* load(): which slot is current, and its generation.
Position(slots) ==
  LET valid == {s \in Slot : Decodes(slots[s])}
      current ==
        IF /\ 0 \in valid
           /\ 1 \in valid => GenerationIsNewer(slots[0].body.generation,
                                               slots[1].body.generation)
        THEN 0 ELSE 1
  IN IF valid = {} THEN [has |-> FALSE, slot |-> 1, generation |-> 0]
     ELSE [has |-> TRUE, slot |-> current, generation |-> slots[current].body.generation]

Value(slots, absent) ==
  LET at == Position(slots) IN IF at.has THEN slots[at.slot].body.value ELSE absent

\* Mutant: the generation is not reduced to a byte.
AfterUnwrapped(at) ==
  [has |-> TRUE, slot |-> 1 - at.slot,
   generation |-> IF at.has THEN at.generation + 1 ELSE 0]

\* The position after one more save.
After(at) ==
  [has |-> TRUE, slot |-> 1 - at.slot,
   generation |-> IF at.has THEN (at.generation + 1) % Generations ELSE 0]

Update(store, place, contents) == [store |-> store, place |-> place, contents |-> contents]

\* save(): the other slot's magic is cleared, its body written, its magic set.
SlotWrites(store, at, value) ==
  LET body == [generation |-> After(at).generation, value |-> value]
      write(magic, content) ==
        Update(store, After(at).slot, [magic |-> magic, body |-> content])
  IN <<write(FALSE, Torn), write(FALSE, body), write(TRUE, body)>>

-----------------------------------------------------------------------------
(* The counter ring: CounterStore *)

SequenceIsNewer(candidate, current) ==
  (candidate - current) % RingSequences \in 1 .. RingSequences \div 2

NoRecord == [has |-> FALSE, slot |-> RingSize - 1, sequence |-> 0, count |-> 0]
RecordAt(ring, s) ==
  [has |-> TRUE, slot |-> s, sequence |-> ring[s].sequence, count |-> ring[s].count]

\* load(): the scan keeps the first record and then each newer one.
Scan(ring) ==
  LET scan[s \in -1 .. RingSize - 1] ==
        IF s = -1 THEN NoRecord
        ELSE IF /\ ring[s].sequence # Empty
                /\ scan[s - 1].has =>
                     SequenceIsNewer(ring[s].sequence, scan[s - 1].sequence)
             THEN RecordAt(ring, s) ELSE scan[s - 1]
  IN scan

RingPosition(ring) == Scan(ring)[RingSize - 1]

RingAfter(at, count) ==
  IF at.has /\ count = at.count THEN at
  ELSE [has |-> TRUE, slot |-> (at.slot + 1) % RingSize,
        sequence |-> IF at.has THEN (at.sequence + 1) % RingSequences ELSE 0,
        count |-> count]

\* save(): the oldest record's count is replaced, then its sequence.  A count
\* that is already the newest is not saved again.
RingWrites(ring, at, count) ==
  LET place == RingAfter(at, count).slot
      write(sequence, content) ==
        Update("ring", place, [sequence |-> sequence, count |-> content])
  IN IF at.has /\ count = at.count THEN << >>
     ELSE <<write(ring[place].sequence, Torn),
            write(ring[place].sequence, count),
            write(RingAfter(at, count).sequence, count)>>

-----------------------------------------------------------------------------
\* What begin() of the profile and of commissioning load.
Loaded ==
  [config |-> Value(eeprom.config, Unconfigured),
   result |-> Value(eeprom.result, NoResult),
   count |-> RingPosition(eeprom.ring).count,
   configAt |-> Position(eeprom.config),
   resultAt |-> Position(eeprom.result),
   ringAt |-> RingPosition(eeprom.ring)]

Positions == [has : BOOLEAN, slot : Slot, generation : Generation]
Place == 0 .. RingSize - 1
RingPositions == [has : BOOLEAN, slot : Place, sequence : Sequence, count : Count]

Eeprom == [config : [Slot -> SlotOf(Config)], result : [Slot -> SlotOf(Stored)],
           ring : [Place -> RecordOfRing]]
Memory == [config : Config \cup {Unconfigured}, result : Stored \cup {NoResult},
           count : Count, configAt : Positions, resultAt : Positions,
           ringAt : RingPositions]
Updates ==
  [store : {"config"}, place : Slot, contents : SlotOf(Config)]
    \cup [store : {"result"}, place : Slot, contents : SlotOf(Stored)]
    \cup [store : {"ring"}, place : Place, contents : RecordOfRing]

TypeOK == eeprom \in Eeprom /\ ram \in Memory /\ writes \in Seq(Updates)

\* What RAM holds after each store's save.
ConfigSaved(memory, config) == [memory EXCEPT !.config = config, !.configAt = After(@)]
ResultSaved(memory, result) == [memory EXCEPT !.result = result, !.resultAt = After(@)]
CountSaved(memory, count) == [memory EXCEPT !.count = count, !.ringAt = RingAfter(@, count)]

\* An erased EEPROM: 0xFF everywhere.
Init ==
  /\ eeprom = [config |-> [s \in Slot |-> [magic |-> FALSE, body |-> Torn]],
               result |-> [s \in Slot |-> [magic |-> FALSE, body |-> Torn]],
               ring |-> [s \in Place |-> [sequence |-> Empty, count |-> Torn]]]
  /\ ram = Loaded
  /\ writes = << >>

Idle == writes = << >>

\* The next update reaches the EEPROM.
Write ==
  /\ ~Idle
  /\ LET w == Head(writes) IN eeprom' = [eeprom EXCEPT ![w.store][w.place] = w.contents]
  /\ writes' = Tail(writes)
  /\ UNCHANGED ram

-----------------------------------------------------------------------------
(* The operations of the node's loop *)

\* CounterReedProfile::poll() with a confirmed pulse.
Pulse ==
  LET count == (ram.count + 1) % CountLimit IN
  /\ Idle
  /\ writes' = RingWrites(eeprom.ring, ram.ringAt, count)
  /\ ram' = CountSaved(ram, count)
  /\ UNCHANGED eeprom

Applied(result) == [result EXCEPT !.status = "Applied"]

\* completePending(): the count, then the result as Applied.
CompletionWrites(ring, memory, result) ==
  RingWrites(ring, memory.ringAt, result.new)
    \o SlotWrites("result", memory.resultAt, Applied(result))

Completed(memory, result) ==
  ResultSaved(CountSaved(memory, result.new), Applied(result))

\* apply() of a command that is not a redelivery.
ApplyCommand(id, value) ==
  LET pending == [status |-> "Pending", commandId |-> id, old |-> ram.count, new |-> value]
      saved == ResultSaved(ram, pending)
  IN
  /\ Idle
  /\ ram.config.state = "Active"
  /\ id # ram.result.commandId
  /\ writes' = SlotWrites("result", ram.resultAt, pending)
                 \o CompletionWrites(eeprom.ring, saved, pending)
  /\ ram' = Completed(saved, pending)
  /\ UNCHANGED eeprom

\* requestJoin() up to its save.
Provision(join) ==
  LET config == [state |-> "Provisional", join |-> join] IN
  /\ Idle
  /\ ram.config = Unconfigured
  /\ writes' = SlotWrites("config", ram.configAt, config)
  /\ ram' = ConfigSaved(ram, config)
  /\ UNCHANGED eeprom

Cleared == [status |-> "Applied", commandId |-> 0, old |-> ram.count, new |-> ram.count]

\* confirmJoin() from its save on, and forgetCommandIds() of a recorded ID.
Activate ==
  LET config == [ram.config EXCEPT !.state = "Active"]
      active == ConfigSaved(ram, config)
      saves == SlotWrites("config", ram.configAt, config)
  IN
  /\ Idle
  /\ ram.config.state = "Provisional"
  /\ IF ram.result.commandId = 0
     THEN writes' = saves /\ ram' = active
     ELSE /\ writes' = saves \o SlotWrites("result", ram.resultAt, Cleared)
          /\ ram' = ResultSaved(active, Cleared)
  /\ UNCHANGED eeprom

ConfigForgotten(memory) ==
  [memory EXCEPT !.config = Unconfigured,
                 !.configAt = [has |-> FALSE, slot |-> 1, generation |-> 0]]

\* The magic of a slot is cleared; its body stays.
Invalidate(slot) ==
  Update("config", slot, [eeprom.config[slot] EXCEPT !.magic = FALSE])

\* Mutant: slot B is cleared before slot A.
ResetWritesReversed == <<Invalidate(1), Invalidate(0)>>

\* factoryReset()
ResetWrites == <<Invalidate(0), Invalidate(1)>>

\* resetNetwork() up to its restart, which finds what RAM already holds.
ResetNetwork ==
  /\ Idle
  /\ ram.config # Unconfigured
  /\ writes' = ResetWrites
  /\ ram' = ConfigForgotten(ram)
  /\ UNCHANGED eeprom

\* begin(): everything is loaded, and a Pending result completed.
Boot ==
  IF Loaded.result.status = "Pending"
  THEN /\ writes' = CompletionWrites(eeprom.ring, Loaded, Loaded.result)
       /\ ram' = Completed(Loaded, Loaded.result)
  ELSE writes' = << >> /\ ram' = Loaded

\* Power loss, watchdog or restart, between any two updates.
Reset == Boot /\ UNCHANGED eeprom

Next ==
  \/ Write
  \/ Reset
  \/ Pulse
  \/ \E id \in CommandId, value \in Count : ApplyCommand(id, value)
  \/ \E join \in Join : Provision(join)
  \/ Activate
  \/ ResetNetwork

Spec == Init /\ [][Next]_vars

-----------------------------------------------------------------------------
(* Properties *)

\* When no save is under way, a reset changes nothing the node knows, neither
\* values nor which slot, generation and sequence the next save will use: the
\* stores' RAM never drifts from what load() finds (NetworkConfigStore,
\* SetCountStore, CounterStore).
ResetIsInvisible == Idle => ram = Loaded

Registers ==
  INSTANCE NodeRegisters
    WITH config <- Value(eeprom.config, Unconfigured),
         result <- Value(eeprom.result, NoResult),
         count <- RingPosition(eeprom.ring).count

\* Whatever updates resets cut off, and however often generations and sequences
\* wrap, what a boot finds changes as if each save happened at once: no old
\* configuration, count or result ever comes back, and none is seen half
\* written (NodeStorage.h, CounterStorage.h).
ImplementsRegisters == Registers!Spec

=============================================================================
