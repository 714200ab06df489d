---------------------------- MODULE DualSlotStore ----------------------------
(***************************************************************************)
(* The gateway's dual-slot NVS store (GatewayStorage.h, DualSlotStore) and *)
(* the NVS keys under it (ConfigurationStore.cpp, NvsSlotStorage).  A      *)
(* store is a record: its two slots, and what its RAM remembers of them.   *)
(***************************************************************************)
EXTENDS Integers

CONSTANTS
  Generations,  \* generations wrap at 2^32
  Missing,      \* a slot that was never written
  Corrupt       \* a slot whose bytes do not decode

ASSUME GenerationsAssumption ==
  Generations \in Nat /\ Generations % 2 = 0 /\ Generations >= 4

Slot == {0, 1}
Generation == 0 .. Generations - 1

SlotsOf(values) ==
  [Slot -> [generation : Generation, value : values] \cup {Missing, Corrupt}]

StoreOf(values) ==
  [slots : SlotsOf(values), value : values, generation : Generation,
   active : Slot \cup {-1}]

\* What is written is never taken for one of the marks.
MarksApart(values) ==
  \A mark \in {Missing, Corrupt} : mark \notin [generation : Generation, value : values]

\* Mutant: generations are compared as if they never wrapped.
IsLarger(candidate, current) == candidate > current

\* static_cast<int32_t>(candidate - current) > 0
IsNewer(candidate, current) ==
  (candidate - current) % Generations \in 1 .. Generations \div 2 - 1

Decodes(slot) == slot \notin {Missing, Corrupt}

\* The slot load() selects, -1 if none decodes.
Selected(slots) ==
  IF /\ Decodes(slots[1])
     /\ Decodes(slots[0]) => IsNewer(slots[1].generation, slots[0].generation)
  THEN 1
  ELSE IF Decodes(slots[0]) THEN 0 ELSE -1

\* load() of a model with this default value.
Load(slots, default) ==
  LET s == Selected(slots) IN
  IF s = -1
  THEN [slots |-> slots, value |-> default, generation |-> 0, active |-> -1]
  ELSE [slots |-> slots, value |-> slots[s].value,
        generation |-> slots[s].generation, active |-> s]

LoadsNothing(slots) == \A s \in Slot : slots[s] = Missing
IsCorrupt(slots) == Selected(slots) = -1 /\ ~LoadsNothing(slots)

TargetSlot(store) == IF store.active = 0 THEN 1 ELSE 0

NextGeneration(store) == (store.generation + 1) % Generations

Written(store, value) == [generation |-> NextGeneration(store), value |-> value]

\* save() whose write was read back and compared.
Saved(store, value) ==
  [slots |-> [store.slots EXCEPT ![TargetSlot(store)] = Written(store, value)],
   value |-> value, generation |-> NextGeneration(store), active |-> TargetSlot(store)]

\* save() that failed: the target holds what it held, the new value, or bytes
\* that do not decode; RAM is as it was.  A loss of power looks the same.
NotSaved(store, value) ==
  {[store EXCEPT !.slots[TargetSlot(store)] = content] :
     content \in {store.slots[TargetSlot(store)], Written(store, value), Corrupt}}

\* The next boot finds the value in RAM, or the one write that was reported as
\* failed since: never an older value, and nothing else that failed before.
LoadsCurrentOrFailed(store) ==
  LET s == Selected(store.slots) IN
  IF s = store.active
  THEN s # -1 => store.slots[s] = [generation |-> store.generation, value |-> store.value]
  ELSE s # -1 /\ store.slots[s].generation = NextGeneration(store)

=============================================================================
