--------------------------- MODULE NodeEepromProofs ---------------------------
(***************************************************************************)
(* What a boot finds changes as if every save happened at once, wherever   *)
(* resets cut the updates and however often generations and sequences have *)
(* wrapped.  NodeInv says what each store holds between two updates, and   *)
(* which operation the updates still to be made belong to.                 *)
(***************************************************************************)
EXTENDS NodeEeprom, SequenceTheorems, WellFoundedInduction, TLAPS

Following(g) == (g + 1) % Generations

\* Two slots that decode are one save apart.
Neighbours(slots) ==
  Decodes(slots[0]) /\ Decodes(slots[1]) =>
    \/ slots[0].body.generation = Following(slots[1].body.generation)
    \/ slots[1].body.generation = Following(slots[0].body.generation)

\* Joining starts in slot A and is completed in slot B, so that clearing A first
\* never brings back an older configuration.
ConfigInv(slots) ==
  /\ Decodes(slots[0]) => /\ slots[0].body.generation = 0
                          /\ slots[0].body.value.state = "Provisional"
  /\ Decodes(slots[1]) => /\ slots[1].body.generation = 1
                          /\ slots[1].body.value.state = "Active"

\* The sequence `age` saves before q.
Before(q, age) == IF age <= q THEN q - age ELSE q - age + RingSequences

\* The newest record of a ring is the one at p, with sequence q: the slots up to p
\* hold those before it, and the slots after p older ones or none.
Newest(ring, p, q) ==
  /\ ring[p].count \in Count
  /\ \A s \in Place :
       IF s <= p THEN ring[s].sequence = Before(q, p - s)
       ELSE ring[s].sequence \in {Empty, Before(q, p - s + RingSize)}

Blank(ring) == \A s \in Place : ring[s].sequence = Empty

RingInv(ring) == Blank(ring) \/ \E p \in Place, q \in Sequence : Newest(ring, p, q)

StoresInv ==
  /\ ConfigInv(eeprom.config) /\ Neighbours(eeprom.result) /\ RingInv(eeprom.ring)

\* What remains of a save of which some update is still to be made.
Rests(save) == IF save = << >> THEN {} ELSE {save, Tail(save), Tail(Tail(save))}

\* What a boot would find and do.
Pending == Loaded.result.status = "Pending"
ClearedResult ==
  [status |-> "Applied", commandId |-> 0, old |-> Loaded.count, new |-> Loaded.count]
RingSave(count) == RingWrites(eeprom.ring, Loaded.ringAt, count)
ResultSave(result) == SlotWrites("result", Loaded.resultAt, result)
ConfigSave(config) == SlotWrites("config", Loaded.configAt, config)

\* The operations under way, by what a boot would find now.
Resting == writes = << >> /\ ram = Loaded /\ ~Pending

Pulsing ==
  LET count == (Loaded.count + 1) % CountLimit IN
  /\ ~Pending
  /\ ram = CountSaved(Loaded, count)
  /\ writes \in Rests(RingSave(count))

Accepting ==
  /\ ~Pending /\ Loaded.config.state = "Active"
  /\ \E id \in CommandId, value \in Count :
       LET result == [status |-> "Pending", commandId |-> id, old |-> Loaded.count,
                      new |-> value]
           saved == ResultSaved(Loaded, result)
       IN
       /\ id # Loaded.result.commandId
       /\ ram = Completed(saved, result)
       /\ \E rest \in Rests(ResultSave(result)) :
            writes = rest \o CompletionWrites(eeprom.ring, saved, result)

Completing ==
  /\ Pending /\ ram = Completed(Loaded, Loaded.result)
  /\ \/ \E rest \in Rests(RingSave(Loaded.result.new)) :
          writes = rest \o ResultSave(Applied(Loaded.result))
     \/ /\ RingSave(Loaded.result.new) = << >>
        /\ writes \in Rests(ResultSave(Applied(Loaded.result)))

Provisioning ==
  /\ ~Pending /\ Loaded.config = Unconfigured
  /\ \E join \in Join :
       LET config == [state |-> "Provisional", join |-> join] IN
       /\ ram = ConfigSaved(Loaded, config)
       /\ writes \in Rests(ConfigSave(config))

Activating ==
  LET config == [Loaded.config EXCEPT !.state = "Active"]
      active == ConfigSaved(Loaded, config)
  IN
  /\ ~Pending /\ Loaded.config.state = "Provisional"
  /\ \E rest \in Rests(ConfigSave(config)) :
       IF Loaded.result.commandId = 0
       THEN writes = rest /\ ram = active
       ELSE /\ writes = rest \o ResultSave(ClearedResult)
            /\ ram = ResultSaved(active, ClearedResult)

Clearing ==
  /\ Loaded.result.status = "Applied" /\ Loaded.config.state = "Active"
  /\ ram = ResultSaved(Loaded, ClearedResult)
  /\ writes \in Rests(ResultSave(ClearedResult))

Forgetting ==
  /\ ~Pending
  /\ ram = ConfigForgotten(Loaded)
  /\ \/ writes = ResetWrites
     \/ writes = <<Invalidate(1)>> /\ ~eeprom.config[0].magic

OperationInv ==
  \/ Resting \/ Pulsing \/ Accepting \/ Completing
  \/ Provisioning \/ Activating \/ Clearing \/ Forgetting

NodeInv == TypeOK /\ StoresInv /\ OperationInv

-----------------------------------------------------------------------------
(* Numbers that wrap *)

LEMMA SmallMod ==
  ASSUME NEW n \in Nat \ {0}, NEW x \in Int
  PROVE  /\ 0 <= x /\ x < n => x % n = x
         /\ n <= x /\ x < 2 * n => x % n = x - n
         /\ -n <= x /\ x < 0 => x % n = x + n
OBVIOUS

LEMMA FollowingIsNewer ==
  ASSUME NEW g \in Generation
  PROVE  /\ Following(g) \in Generation
         /\ GenerationIsNewer(Following(g), g) /\ ~GenerationIsNewer(g, Following(g))
BY WrapAssumption DEF Generation, Following, GenerationIsNewer

-----------------------------------------------------------------------------
(* A store of two slots *)

\* What load() selects: a slot that decodes and is newer, if the other one does too.
At(slots, s) == [has |-> TRUE, slot |-> s, generation |-> slots[s].body.generation]
Nowhere == [has |-> FALSE, slot |-> 1, generation |-> 0]

LEMMA CurrentSlot ==
  ASSUME NEW slots, NEW s \in Slot, Decodes(slots[s]),
         Decodes(slots[1 - s]) =>
           /\ GenerationIsNewer(slots[s].body.generation, slots[1 - s].body.generation)
           /\ ~GenerationIsNewer(slots[1 - s].body.generation, slots[s].body.generation)
  PROVE  Position(slots) = At(slots, s)
<1> DEFINE valid == {q \in Slot : Decodes(slots[q])}
<1>1. 0 \in Slot /\ 1 \in Slot /\ s \in valid /\ valid # {}
  BY DEF Slot
<1>2. CASE s = 0
  <2>1. 0 \in valid /\ (1 \in valid => Decodes(slots[1])) /\ 1 - s = 1
    BY <1>1, <1>2
  <2> QED
    BY <1>1, <1>2, <2>1 DEF Position, At
<1>3. CASE s = 1
  <2>1. 1 \in valid /\ (0 \in valid => Decodes(slots[0])) /\ 1 - s = 0
    BY <1>1, <1>3
  <2> QED
    BY <1>1, <1>3, <2>1 DEF Position, At
<1> QED
  BY <1>2, <1>3 DEF Slot

LEMMA NoSlot ==
  ASSUME NEW slots, ~Decodes(slots[0]), ~Decodes(slots[1])
  PROVE  Position(slots) = Nowhere
BY DEF Position, Nowhere, Slot

LEMMA DecodedBody ==
  ASSUME NEW values, NEW slots \in [Slot -> SlotOf(values)], NEW s \in Slot,
         Decodes(slots[s])
  PROVE  slots[s].body.generation \in Generation /\ slots[s].body.value \in values
BY DEF SlotOf, Body, Decodes

LEMMA PositionCases ==
  ASSUME NEW values, NEW slots \in [Slot -> SlotOf(values)], Neighbours(slots)
  PROVE  \/ ~Decodes(slots[0]) /\ ~Decodes(slots[1]) /\ Position(slots) = Nowhere
         \/ \E s \in Slot :
              /\ Decodes(slots[s]) /\ Position(slots) = At(slots, s)
              /\ Decodes(slots[1 - s]) =>
                   slots[s].body.generation = Following(slots[1 - s].body.generation)
<1>1. CASE ~Decodes(slots[0]) /\ ~Decodes(slots[1])
  BY <1>1, NoSlot
<1>2. ASSUME NEW s \in Slot, Decodes(slots[s]),
             Decodes(slots[1 - s]) =>
               slots[s].body.generation = Following(slots[1 - s].body.generation)
      PROVE  Position(slots) = At(slots, s)
  <2>1. 1 - s \in Slot
    BY DEF Slot
  <2>2. Decodes(slots[1 - s]) => slots[1 - s].body.generation \in Generation
    BY <2>1, DecodedBody
  <2>3. Decodes(slots[1 - s]) =>
          /\ GenerationIsNewer(slots[s].body.generation, slots[1 - s].body.generation)
          /\ ~GenerationIsNewer(slots[1 - s].body.generation, slots[s].body.generation)
    BY <1>2, <2>2, FollowingIsNewer
  <2> QED
    BY <1>2, <2>3, CurrentSlot
<1>3. CASE Decodes(slots[0]) /\ ~Decodes(slots[1])
  BY <1>2, <1>3 DEF Slot
<1>4. CASE ~Decodes(slots[0]) /\ Decodes(slots[1])
  BY <1>2, <1>4 DEF Slot
<1>5. CASE Decodes(slots[0]) /\ Decodes(slots[1])
  <2>1. CASE slots[0].body.generation = Following(slots[1].body.generation)
    BY <1>2, <1>5, <2>1 DEF Slot
  <2>2. CASE slots[1].body.generation = Following(slots[0].body.generation)
    BY <1>2, <1>5, <2>2 DEF Slot
  <2> QED
    BY <1>5, <2>1, <2>2 DEF Neighbours
<1> QED
  BY <1>1, <1>3, <1>4, <1>5

LEMMA PositionType ==
  ASSUME NEW values, NEW slots \in [Slot -> SlotOf(values)], Neighbours(slots)
  PROVE  /\ Position(slots) \in Positions /\ After(Position(slots)) \in Positions
         /\ Position(slots).has =>
              /\ Decodes(slots[Position(slots).slot])
              /\ slots[Position(slots).slot].body.value \in values
              /\ slots[Position(slots).slot].body.generation = Position(slots).generation
<1>1. 0 \in Generation /\ \A g \in Generation : (g + 1) % Generations \in Generation
  BY WrapAssumption DEF Generation
<1>2. CASE Position(slots) = Nowhere
  BY <1>1, <1>2 DEF Nowhere, After, Positions, Slot
<1>3. ASSUME NEW s \in Slot, Decodes(slots[s]), Position(slots) = At(slots, s)
      PROVE  /\ Position(slots) \in Positions /\ After(Position(slots)) \in Positions
             /\ Decodes(slots[Position(slots).slot])
             /\ slots[Position(slots).slot].body.value \in values
             /\ slots[Position(slots).slot].body.generation = Position(slots).generation
  <2>1. slots[s].body.generation \in Generation /\ slots[s].body.value \in values
    BY <1>3, DecodedBody
  <2> QED
    BY <1>1, <1>3, <2>1 DEF At, After, Positions, Slot
<1>4. Nowhere.has = FALSE
  BY DEF Nowhere
<1> QED
  BY <1>2, <1>3, <1>4, PositionCases

\* While the other slot is being written, the store keeps what it has.
LEMMA SlotOpened ==
  ASSUME NEW values, NEW slots \in [Slot -> SlotOf(values)], Neighbours(slots),
         NEW body \in Body(values) \cup {Torn},
         NEW next, next = [slots EXCEPT ![After(Position(slots)).slot] =
                             [magic |-> FALSE, body |-> body]]
  PROVE  /\ next \in [Slot -> SlotOf(values)] /\ Neighbours(next)
         /\ Position(next) = Position(slots)
         /\ \A absent : Value(next, absent) = Value(slots, absent)
<1> DEFINE at == Position(slots)
           to == After(at).slot
<1>1. at \in Positions /\ to \in Slot /\ to = 1 - at.slot
  BY PositionType DEF After, Positions
<1>2. next \in [Slot -> SlotOf(values)]
  BY <1>1 DEF SlotOf
<1>3. ~Decodes(next[to]) /\ \A s \in Slot : s # to => next[s] = slots[s]
  BY <1>1 DEF Decodes
<1>4. Neighbours(next)
  BY <1>1, <1>3 DEF Neighbours, Slot
<1>5. at.slot \in Slot /\ at.slot # to /\ \A s \in Slot : s = to \/ s = at.slot
  BY <1>1 DEF Positions, Slot
<1>6. Position(next) = at
  <2>1. ASSUME NEW s \in Slot, Decodes(slots[s]), at = At(slots, s)
        PROVE  Position(next) = at
    <3>1. s = at.slot /\ 1 - s = to /\ next[s] = slots[s] /\ ~Decodes(next[1 - s])
      BY <1>1, <1>3, <1>5, <2>1 DEF At
    <3>2. Position(next) = At(next, s)
      BY <2>1, <3>1, CurrentSlot
    <3> QED
      BY <2>1, <3>1, <3>2 DEF At
  <2>2. CASE ~Decodes(slots[0]) /\ ~Decodes(slots[1]) /\ at = Nowhere
    <3>1. ~Decodes(next[0]) /\ ~Decodes(next[1])
      BY <1>3, <2>2 DEF Slot
    <3> QED
      BY <2>2, <3>1, NoSlot
  <2> QED
    BY <2>1, <2>2, PositionCases
<1>7. \A absent : Value(next, absent) = Value(slots, absent)
  BY <1>3, <1>5, <1>6 DEF Value
<1> QED
  BY <1>2, <1>4, <1>6, <1>7

\* When its magic is set, the store has what was saved.
LEMMA SlotClosed ==
  ASSUME NEW values, Torn \notin Body(values),
         NEW slots \in [Slot -> SlotOf(values)], Neighbours(slots), NEW value \in values,
         NEW next, next = [slots EXCEPT ![After(Position(slots)).slot] =
                             [magic |-> TRUE,
                              body |-> [generation |-> After(Position(slots)).generation,
                                        value |-> value]]]
  PROVE  /\ next \in [Slot -> SlotOf(values)] /\ Neighbours(next)
         /\ Position(next) = After(Position(slots))
         /\ \A absent : Value(next, absent) = value
<1> DEFINE at == Position(slots)
           to == After(at).slot
           body == [generation |-> After(at).generation, value |-> value]
<1>1. /\ at \in Positions /\ After(at) \in Positions /\ to \in Slot /\ to = 1 - at.slot
      /\ After(at).has
  BY PositionType DEF After, Positions
<1>2. body \in Body(values)
  BY <1>1 DEF Body, Positions
<1>3. next \in [Slot -> SlotOf(values)]
  BY <1>1, <1>2 DEF SlotOf
<1>4. /\ next[to] = [magic |-> TRUE, body |-> body] /\ Decodes(next[to])
      /\ \A s \in Slot : s # to => next[s] = slots[s]
  BY <1>1, <1>2 DEF Decodes
<1>5. at.slot \in Slot /\ at.slot # to /\ \A s \in Slot : s = to \/ s = at.slot
  BY <1>1 DEF Positions, Slot
<1>6. Neighbours(next) /\ Position(next) = At(next, to)
  <2>1. CASE ~Decodes(next[at.slot])
    <3>1. Neighbours(next)
      BY <1>5, <2>1 DEF Neighbours, Slot
    <3>2. at.slot = 1 - to
      BY <1>1, <1>5 DEF Slot
    <3> QED
      BY <1>1, <1>4, <2>1, <3>1, <3>2, CurrentSlot
  <2>2. CASE Decodes(next[at.slot])
    <3>1. Decodes(slots[at.slot]) /\ next[at.slot] = slots[at.slot]
      BY <1>4, <1>5, <2>2
    <3>2. at.has /\ slots[at.slot].body.generation = at.generation
      BY <1>5, <3>1, PositionType, PositionCases DEF Slot, Nowhere, At
    <3>3. at.generation \in Generation /\ After(at).generation = Following(at.generation)
      BY <1>1, <3>2 DEF After, Following, Positions
    <3>4. next[to].body.generation = Following(next[at.slot].body.generation)
      BY <1>4, <3>1, <3>2, <3>3
    <3>5. at.slot = 1 - to
      BY <1>1, <1>5 DEF Slot
    <3>6. Neighbours(next)
      BY <1>1, <1>5, <3>4 DEF Neighbours, Slot
    <3>7. /\ GenerationIsNewer(next[to].body.generation, next[at.slot].body.generation)
          /\ ~GenerationIsNewer(next[at.slot].body.generation, next[to].body.generation)
      BY <3>1, <3>2, <3>3, <3>4, FollowingIsNewer
    <3>8. Position(next) = At(next, to)
      BY <1>1, <1>4, <3>5, <3>7, CurrentSlot
    <3> QED
      BY <3>6, <3>8
  <2> QED
    BY <2>1, <2>2
<1>7. At(next, to) = After(at)
  BY <1>1, <1>4 DEF At, After
<1>8. \A absent : Value(next, absent) = value
  BY <1>1, <1>4, <1>6, <1>7 DEF Value
<1> QED
  BY <1>3, <1>6, <1>7, <1>8

-----------------------------------------------------------------------------
(* The ring *)

LEMMA AgesCompare ==
  ASSUME NEW q \in Sequence, NEW a \in Place, NEW b \in Place, a < b
  PROVE  /\ SequenceIsNewer(Before(q, a), Before(q, b))
         /\ ~SequenceIsNewer(Before(q, b), Before(q, a))
<1> DEFINE half == RingSequences \div 2
           x == Before(q, a)
           y == Before(q, b)
           d == b - a
<1>1. /\ RingSequences \in Nat \ {0} /\ RingSequences = 2 * half + 1 /\ half \in Nat
      /\ RingSize \in Nat /\ RingSize - 1 <= half
  BY WrapAssumption
<1>2. q \in 0 .. 2 * half /\ a \in 0 .. half /\ b \in 0 .. half /\ d \in 1 .. half
  BY <1>1 DEF Sequence, Place
<1>3. x \in Int /\ y \in Int /\ (x - y = d \/ x - y = d - RingSequences)
  BY <1>1, <1>2 DEF Before
<1>4. y - x = -d \/ y - x = RingSequences - d
  BY <1>1, <1>2, <1>3
<1> HIDE DEF x, y, d, half
<1>5. (x - y) % RingSequences = d
  <2>1. /\ d \in Int /\ 0 <= d /\ d < RingSequences /\ d - RingSequences \in Int
        /\ -RingSequences <= d - RingSequences /\ d - RingSequences < 0
        /\ d - RingSequences + RingSequences = d
    BY <1>1, <1>2
  <2>2. d % RingSequences = d /\ (d - RingSequences) % RingSequences = d
    BY <1>1, <2>1, SmallMod
  <2> QED
    BY <1>3, <2>2
<1>6. (y - x) % RingSequences = RingSequences - d
  <2>1. /\ -d \in Int /\ -RingSequences <= -d /\ -d < 0
        /\ RingSequences - d \in Int
        /\ 0 <= RingSequences - d /\ RingSequences - d < RingSequences
        /\ -d + RingSequences = RingSequences - d
    BY <1>1, <1>2
  <2>2. /\ (-d) % RingSequences = RingSequences - d
        /\ (RingSequences - d) % RingSequences = RingSequences - d
    BY <1>1, <2>1, SmallMod
  <2> QED
    BY <1>4, <2>2
<1>7. d \in 1 .. half /\ RingSequences - d \notin 1 .. half
  BY <1>1, <1>2
<1> QED
  BY <1>5, <1>6, <1>7 DEF SequenceIsNewer, x, y, half

LEMMA BeforeType ==
  ASSUME NEW q \in Sequence, NEW a \in Place
  PROVE  Before(q, a) \in Sequence /\ Before(q, a) # Empty /\ Before(q, 0) = q
BY WrapAssumption DEF Before, Sequence, Place, Empty

\* The equation of load()'s scan, which has one solution.
IsScan(ring, f) ==
  f = [s \in -1 .. RingSize - 1 |->
         IF s = -1 THEN NoRecord
         ELSE IF /\ ring[s].sequence # Empty
                 /\ f[s - 1].has => SequenceIsNewer(ring[s].sequence, f[s - 1].sequence)
              THEN RecordAt(ring, s) ELSE f[s - 1]]

LEMMA LeastNatural ==
  ASSUME NEW T, T \subseteq Nat, T # {}
  PROVE  \E n \in T : \A m \in T : n <= m
<1>1. \E n \in T : \A m \in T : <<m, n>> \notin OpToRel(<, Nat)
  BY NatLessThanWellFounded, WFMin
<1>2. ASSUME NEW m \in Nat, NEW n \in Nat, m < n
      PROVE  <<m, n>> \in OpToRel(<, Nat)
  BY <1>2, Zenon DEF OpToRel
<1>3. \A m, n \in Nat : ~(m < n) => n <= m
  OBVIOUS
<1> QED
  BY <1>1, <1>2, <1>3

LEMMA ScanIsUnique ==
  ASSUME NEW ring, NEW f, NEW g, IsScan(ring, f), IsScan(ring, g)
  PROVE  f = g
<1> DEFINE D == -1 .. RingSize - 1
           T == {n \in Nat : n <= RingSize - 1 /\ f[n] # g[n]}
<1>1. RingSize \in Nat
  BY WrapAssumption
<1>2. /\ f = [s \in D |-> f[s]] /\ g = [s \in D |-> g[s]]
      /\ f[-1] = NoRecord /\ g[-1] = NoRecord
  BY <1>1 DEF IsScan
<1>3. ASSUME NEW s \in 0 .. RingSize - 1, f[s - 1] = g[s - 1]
      PROVE  f[s] = g[s]
  <2>1. s \in D /\ s # -1
    BY <1>1
  <2>2. f[s] = IF /\ ring[s].sequence # Empty
                  /\ f[s - 1].has => SequenceIsNewer(ring[s].sequence, f[s - 1].sequence)
               THEN RecordAt(ring, s) ELSE f[s - 1]
    BY <2>1 DEF IsScan
  <2>3. g[s] = IF /\ ring[s].sequence # Empty
                  /\ g[s - 1].has => SequenceIsNewer(ring[s].sequence, g[s - 1].sequence)
               THEN RecordAt(ring, s) ELSE g[s - 1]
    BY <2>1 DEF IsScan
  <2> QED
    BY <1>3, <2>2, <2>3
<1>4. ASSUME T # {}
      PROVE  FALSE
  <2>1. PICK n \in T : \A m \in T : n <= m
    BY <1>4, LeastNatural
  <2>2. n \in 0 .. RingSize - 1 /\ f[n] # g[n]
    BY <1>1, <2>1
  <2>3. f[n - 1] = g[n - 1]
    <3>1. CASE n = 0
      BY <1>2, <3>1
    <3>2. CASE n # 0
      <4>1. n - 1 \in Nat /\ n - 1 <= RingSize - 1 /\ ~(n <= n - 1)
        BY <1>1, <2>2, <3>2
      <4> QED
        BY <2>1, <4>1
    <3> QED
      BY <3>1, <3>2
  <2> QED
    BY <1>3, <2>2, <2>3
<1>5. \A s \in D : f[s] = g[s]
  <2>1. \A s \in D : s = -1 \/ (s \in Nat /\ s <= RingSize - 1)
    BY <1>1
  <2> QED
    BY <1>2, <1>4, <2>1
<1> QED
  BY <1>2, <1>5

LEMMA ScanIs ==
  ASSUME NEW ring, NEW f, IsScan(ring, f)
  PROVE  Scan(ring) = f
<1>1. Scan(ring) = CHOOSE g : IsScan(ring, g)
  BY DEF Scan, IsScan
<1>2. IsScan(ring, Scan(ring))
  BY <1>1
<1> QED
  BY <1>2, ScanIsUnique

LEMMA BlankPosition ==
  ASSUME NEW ring, Blank(ring)
  PROVE  RingPosition(ring) = NoRecord
<1> DEFINE f == [s \in -1 .. RingSize - 1 |-> NoRecord]
<1>1. RingSize \in Nat /\ RingSize >= 2
  BY WrapAssumption
<1>2. IsScan(ring, f)
  BY <1>1 DEF IsScan, Blank, Place
<1> QED
  BY <1>1, <1>2, ScanIs DEF RingPosition

LEMMA NewestPosition ==
  ASSUME NEW ring, NEW p \in Place, NEW q \in Sequence, Newest(ring, p, q)
  PROVE  RingPosition(ring) = RecordAt(ring, p)
<1> DEFINE best(s) == IF s = -1 THEN NoRecord
                      ELSE IF s <= p THEN RecordAt(ring, s) ELSE RecordAt(ring, p)
           f == [s \in -1 .. RingSize - 1 |-> best(s)]
<1>1. RingSize \in Nat /\ RingSize >= 2 /\ p \in 0 .. RingSize - 1
  BY WrapAssumption DEF Place
<1>2. ASSUME NEW s \in 0 .. RingSize - 1
      PROVE  best(s) = IF /\ ring[s].sequence # Empty
                          /\ best(s - 1).has =>
                               SequenceIsNewer(ring[s].sequence, best(s - 1).sequence)
                       THEN RecordAt(ring, s) ELSE best(s - 1)
  <2>1. s \in Place /\ s - 1 \in -1 .. RingSize - 1
    BY <1>1 DEF Place
  <2>2. NoRecord.has = FALSE
    BY DEF NoRecord
  <2>3. \A t \in Place : /\ RecordAt(ring, t).has = TRUE
                         /\ RecordAt(ring, t).sequence = ring[t].sequence
    BY DEF RecordAt
  <2>4. CASE s <= p
    <3>1. p - s \in Place /\ ring[s].sequence = Before(q, p - s)
      BY <1>1, <2>1, <2>4 DEF Newest, Place
    <3>2. ring[s].sequence # Empty
      BY <3>1, BeforeType
    <3>3. CASE s = 0
      BY <2>2, <2>4, <3>2, <3>3
    <3>4. CASE s # 0
      <4>1. /\ s - 1 \in Place /\ s - 1 <= p /\ p - (s - 1) \in Place
            /\ p - s < p - (s - 1)
        BY <1>1, <2>1, <2>4, <3>4 DEF Place
      <4>2. ring[s - 1].sequence = Before(q, p - (s - 1))
        BY <4>1 DEF Newest
      <4>3. SequenceIsNewer(ring[s].sequence, ring[s - 1].sequence)
        BY <3>1, <4>1, <4>2, AgesCompare
      <4>4. best(s - 1) = RecordAt(ring, s - 1)
        BY <4>1 DEF Place
      <4> QED
        BY <2>3, <2>4, <3>2, <4>1, <4>3, <4>4
    <3> QED
      BY <3>3, <3>4
  <2>5. CASE ~(s <= p)
    <3>1. best(s) = RecordAt(ring, p) /\ best(s - 1) = RecordAt(ring, p)
      BY <1>1, <2>1, <2>5
    <3>2. ring[p].sequence = q
      <4>1. p <= p /\ p - p = 0 /\ 0 \in Place
        BY <1>1 DEF Place
      <4> QED
        BY <4>1, BeforeType DEF Newest
    <3>3. ~(ring[s].sequence # Empty /\ SequenceIsNewer(ring[s].sequence, q))
      <4>1. /\ 0 \in Place /\ p - s + RingSize \in Place /\ 0 < p - s + RingSize
        BY <1>1, <2>1, <2>5 DEF Place
      <4>2. ring[s].sequence \in {Empty, Before(q, p - s + RingSize)}
        BY <2>1, <2>5 DEF Newest
      <4> QED
        BY <4>1, <4>2, AgesCompare, BeforeType
    <3> QED
      BY <2>3, <3>1, <3>2, <3>3
  <2> QED
    BY <2>4, <2>5
<1>3. IsScan(ring, f)
  <2>1. \A s \in -1 .. RingSize - 1 : s = -1 \/ s \in 0 .. RingSize - 1
    BY <1>1
  <2>2. \A s \in 0 .. RingSize - 1 : s - 1 \in -1 .. RingSize - 1 /\ s # -1
    BY <1>1
  <2>3. \A s \in -1 .. RingSize - 1 : f[s] = best(s)
    OBVIOUS
  <2>4. best(-1) = NoRecord
    OBVIOUS
  <2> HIDE DEF best
  <2>5. \A s \in -1 .. RingSize - 1 :
          best(s) = IF s = -1 THEN NoRecord
                    ELSE IF /\ ring[s].sequence # Empty
                            /\ f[s - 1].has => SequenceIsNewer(ring[s].sequence, f[s - 1].sequence)
                         THEN RecordAt(ring, s) ELSE f[s - 1]
    BY <1>2, <2>1, <2>2, <2>3, <2>4
  <2> QED
    BY <2>5, Zenon DEF IsScan
<1>4. f[RingSize - 1] = RecordAt(ring, p)
  BY <1>1
<1> HIDE DEF f
<1> QED
  BY <1>3, <1>4, ScanIs DEF RingPosition

\* A save of a new count leaves at (p + 1) % RingSize, with ages one more.
LEMMA OneOlder ==
  ASSUME NEW q \in Sequence, NEW age \in Place, age + 1 \in Place
  PROVE  /\ (q + 1) % RingSequences \in Sequence
         /\ Before((q + 1) % RingSequences, age + 1) = Before(q, age)
<1>1. /\ RingSequences \in Nat \ {0} /\ RingSize \in Nat /\ RingSize < RingSequences
      /\ q \in 0 .. RingSequences - 1 /\ age \in 0 .. RingSize - 2
  BY WrapAssumption DEF Sequence, Place
<1>2. CASE q + 1 < RingSequences
  <2>1. (q + 1) % RingSequences = q + 1
    <3>1. q + 1 \in Int /\ 0 <= q + 1
      BY <1>1
    <3> QED
      BY <1>1, <1>2, <3>1, SmallMod
  <2> QED
    BY <1>1, <1>2, <2>1 DEF Before, Sequence
<1>3. CASE q + 1 = RingSequences
  <2>1. (q + 1) % RingSequences = 0
    BY <1>1, <1>3, SmallMod
  <2> QED
    BY <1>1, <1>3, <2>1 DEF Before, Sequence
<1> QED
  BY <1>1, <1>2, <1>3

LEMMA NextPlace ==
  ASSUME NEW p \in Place
  PROVE  LET n == (p + 1) % RingSize IN
         /\ n \in Place /\ n # p
         /\ n = p + 1 \/ (p = RingSize - 1 /\ n = 0)
<1>1. RingSize \in Nat \ {0} /\ RingSize >= 2 /\ p \in 0 .. RingSize - 1
  BY WrapAssumption DEF Place
<1>2. p + 1 \in Int /\ 0 <= p + 1
  BY <1>1
<1>3. CASE p + 1 < RingSize
  <2>1. (p + 1) % RingSize = p + 1
    BY <1>1, <1>2, <1>3, SmallMod
  <2> QED
    BY <1>1, <1>3, <2>1 DEF Place
<1>4. CASE p + 1 = RingSize
  <2>1. (p + 1) % RingSize = 0
    BY <1>1, <1>2, <1>4, SmallMod
  <2> QED
    BY <1>1, <1>4, <2>1 DEF Place
<1> QED
  BY <1>1, <1>3, <1>4

LEMMA RingCases ==
  ASSUME NEW ring \in [Place -> RecordOfRing], RingInv(ring)
  PROVE  \/ /\ Blank(ring) /\ RingPosition(ring) = NoRecord
            /\ \A count : /\ RingAfter(NoRecord, count).slot = 0
                          /\ RingAfter(NoRecord, count).sequence = 0
         \/ \E p \in Place, q \in Sequence :
              /\ Newest(ring, p, q) /\ RingPosition(ring) = RecordAt(ring, p)
              /\ ring[p].sequence = q
<1>1. CASE Blank(ring)
  <2>1. RingSize \in Nat \ {0} /\ RingSize - 1 + 1 = RingSize /\ RingSize % RingSize = 0
    BY WrapAssumption, SmallMod
  <2>2. NoRecord.slot + 1 = RingSize /\ NoRecord.has = FALSE
    BY <2>1 DEF NoRecord
  <2> QED
    BY <1>1, <2>1, <2>2, BlankPosition DEF RingAfter
<1>2. ASSUME NEW p \in Place, NEW q \in Sequence, Newest(ring, p, q)
      PROVE  RingPosition(ring) = RecordAt(ring, p) /\ ring[p].sequence = q
  <2>1. p <= p /\ p - p = 0 /\ 0 \in Place
    BY WrapAssumption DEF Place
  <2> QED
    BY <1>2, <2>1, BeforeType, NewestPosition DEF Newest
<1> QED
  BY <1>1, <1>2 DEF RingInv

LEMMA RingPositionType ==
  ASSUME NEW ring \in [Place -> RecordOfRing], RingInv(ring)
  PROVE  /\ RingPosition(ring) \in RingPositions
         /\ \A count \in Count : RingAfter(RingPosition(ring), count) \in RingPositions
<1>1. /\ 0 \in Sequence /\ 0 \in Count /\ RingSize - 1 \in Place /\ 0 \in Place
      /\ \A q \in Sequence : (q + 1) % RingSequences \in Sequence
  BY WrapAssumption DEF Sequence, Count, Place
<1>2. CASE RingPosition(ring) = NoRecord
  <2>1. \A p \in Place : (p + 1) % RingSize \in Place
    BY NextPlace
  <2> QED
    BY <1>1, <1>2, <2>1 DEF NoRecord, RingPositions, RingAfter
<1>3. ASSUME NEW p \in Place, NEW q \in Sequence, Newest(ring, p, q),
             RingPosition(ring) = RecordAt(ring, p), ring[p].sequence = q
      PROVE  /\ RingPosition(ring) \in RingPositions
             /\ \A count \in Count : RingAfter(RingPosition(ring), count) \in RingPositions
  <2>1. ring[p].count \in Count
    BY <1>3 DEF Newest
  <2>2. (p + 1) % RingSize \in Place
    BY NextPlace
  <2> QED
    BY <1>1, <1>3, <2>1, <2>2 DEF RecordAt, RingPositions, RingAfter
<1> QED
  BY <1>2, <1>3, RingCases

\* While a record that is not the newest keeps its sequence, the ring keeps its count.
LEMMA RingOpened ==
  ASSUME NEW ring \in [Place -> RecordOfRing], RingInv(ring), NEW count \in Count,
         ~(RingPosition(ring).has /\ count = RingPosition(ring).count),
         NEW content \in Count \cup {Torn}, NEW place,
         place = RingAfter(RingPosition(ring), count).slot,
         NEW next, next = [ring EXCEPT ![place] = [sequence |-> ring[place].sequence,
                                                   count |-> content]]
  PROVE  /\ next \in [Place -> RecordOfRing] /\ RingInv(next)
         /\ RingPosition(next) = RingPosition(ring)
         /\ next[place].sequence = ring[place].sequence
<1>1. place \in Place
  BY RingPositionType DEF RingPositions
<1>2. /\ next \in [Place -> RecordOfRing]
      /\ \A s \in Place : next[s].sequence = ring[s].sequence
      /\ \A s \in Place : s # place => next[s] = ring[s]
  BY <1>1 DEF RecordOfRing
<1>3. CASE Blank(ring) /\ RingPosition(ring) = NoRecord
  <2>1. Blank(next)
    BY <1>2, <1>3 DEF Blank
  <2> QED
    BY <1>1, <1>2, <1>3, <2>1, BlankPosition DEF RingInv
<1>4. ASSUME NEW p \in Place, NEW q \in Sequence, Newest(ring, p, q),
             RingPosition(ring) = RecordAt(ring, p)
      PROVE  RingInv(next) /\ RingPosition(next) = RingPosition(ring)
  <2>1. place = (p + 1) % RingSize
    BY <1>4 DEF RecordAt, RingAfter
  <2>2. next[p] = ring[p]
    BY <1>2, <2>1, NextPlace
  <2>3. Newest(next, p, q)
    BY <1>2, <1>4, <2>2 DEF Newest
  <2>4. RingPosition(next) = RecordAt(next, p)
    BY <2>3, NewestPosition
  <2> QED
    BY <1>4, <2>2, <2>3, <2>4 DEF RingInv, RecordAt
<1> QED
  BY <1>1, <1>2, <1>3, <1>4, RingCases

\* When its sequence is written, the ring has the count that was saved.
LEMMA RingClosed ==
  ASSUME NEW ring \in [Place -> RecordOfRing], RingInv(ring), NEW count \in Count,
         ~(RingPosition(ring).has /\ count = RingPosition(ring).count),
         NEW at, at = RingAfter(RingPosition(ring), count),
         NEW next, next = [ring EXCEPT ![at.slot] = [sequence |-> at.sequence,
                                                     count |-> count]]
  PROVE  next \in [Place -> RecordOfRing] /\ RingInv(next) /\ RingPosition(next) = at
<1>1. at \in RingPositions /\ at.slot \in Place /\ at.sequence \in Sequence
  BY RingPositionType DEF RingPositions
<1>2. /\ next \in [Place -> RecordOfRing]
      /\ next[at.slot] = [sequence |-> at.sequence, count |-> count]
      /\ \A s \in Place : s # at.slot => next[s] = ring[s]
  BY <1>1 DEF RecordOfRing
<1>3. at = [has |-> TRUE, slot |-> at.slot, sequence |-> at.sequence, count |-> count]
  BY DEF RingAfter
<1>4. Newest(next, at.slot, at.sequence)
  <2>1. RingSize \in Nat /\ \A s \in Place : s \in 0 .. RingSize - 1
    BY WrapAssumption DEF Place
  <2>2. Before(at.sequence, 0) = at.sequence
    BY <1>1, BeforeType, WrapAssumption DEF Place
  <2>3. CASE Blank(ring) /\ at.slot = 0 /\ at.sequence = 0
    BY <1>1, <1>2, <2>1, <2>2, <2>3 DEF Newest, Blank
  <2>4. ASSUME NEW p \in Place, NEW q \in Sequence, Newest(ring, p, q),
               RingPosition(ring) = RecordAt(ring, p), ring[p].sequence = q
        PROVE  Newest(next, at.slot, at.sequence)
    <3>1. at.slot = (p + 1) % RingSize /\ at.sequence = (q + 1) % RingSequences
      BY <2>4 DEF RecordAt, RingAfter
    <3>2. \A age \in Place : age + 1 \in Place => Before(at.sequence, age + 1) = Before(q, age)
      BY <3>1, OneOlder
    <3> SUFFICES ASSUME NEW s \in Place
                 PROVE  IF s <= at.slot
                        THEN next[s].sequence = Before(at.sequence, at.slot - s)
                        ELSE next[s].sequence \in
                               {Empty, Before(at.sequence, at.slot - s + RingSize)}
      BY <1>2 DEF Newest
    <3>3. CASE s = at.slot
      BY <1>2, <2>1, <2>2, <3>3
    <3>4. CASE s # at.slot /\ s <= p
      <4>1. next[s].sequence = Before(q, p - s) /\ p - s \in Place
        BY <1>2, <2>1, <2>4, <3>4 DEF Newest, Place
      <4>2. CASE at.slot = p + 1
        <5>1. s <= at.slot /\ at.slot - s = p - s + 1 /\ p - s + 1 \in Place
          BY <1>1, <2>1, <3>4, <4>2 DEF Place
        <5> QED
          BY <3>2, <4>1, <5>1
      <4>3. CASE p = RingSize - 1 /\ at.slot = 0
        <5>1. /\ ~(s <= at.slot) /\ at.slot - s + RingSize = p - s + 1
              /\ p - s + 1 \in Place
          BY <2>1, <3>4, <4>3 DEF Place
        <5> QED
          BY <3>2, <4>1, <5>1
      <4> QED
        BY <3>1, <4>2, <4>3, NextPlace
    <3>5. CASE s # at.slot /\ ~(s <= p)
      <4>1. at.slot = p + 1
        BY <2>1, <3>1, <3>5, NextPlace
      <4>2. /\ ~(s <= at.slot) /\ p - s + RingSize \in Place
            /\ at.slot - s + RingSize = p - s + RingSize + 1
            /\ p - s + RingSize + 1 \in Place
        <5>1. /\ s \in 0 .. RingSize - 1 /\ p \in 0 .. RingSize - 1
              /\ at.slot \in Int /\ s # at.slot
          BY <1>1, <2>1, <3>5
        <5> QED
          BY <2>1, <3>5, <4>1, <5>1 DEF Place
      <4>3. next[s].sequence \in {Empty, Before(q, p - s + RingSize)}
        BY <1>2, <2>4, <3>5 DEF Newest
      <4> QED
        BY <3>2, <4>2, <4>3
    <3> QED
      BY <3>3, <3>4, <3>5
  <2> QED
    BY <2>3, <2>4, RingCases
<1>5. RingPosition(next) = RecordAt(next, at.slot)
  BY <1>1, <1>4, NewestPosition
<1> QED
  BY <1>1, <1>2, <1>3, <1>4, <1>5 DEF RingInv, RecordAt

-----------------------------------------------------------------------------
(* Saves as sequences of updates *)

LEMMA HeadTailConcat ==
  ASSUME NEW S, NEW s \in Seq(S), s # << >>, NEW t \in Seq(S)
  PROVE  /\ s \o t \in Seq(S) /\ s \o t # << >>
         /\ Head(s \o t) = Head(s) /\ Tail(s \o t) = Tail(s) \o t
<1>1. /\ Tail(s) \in Seq(S) /\ Len(Tail(s)) = Len(s) - 1
      /\ \A i \in 1 .. Len(Tail(s)) : Tail(s)[i] = s[i + 1]
  BY HeadTailProperties
<1>2. Len(s) \in Nat /\ Len(t) \in Nat /\ Len(s) # 0
  BY LenProperties, EmptySeq
<1>3. /\ s \o t \in Seq(S) /\ Len(s \o t) = Len(s) + Len(t)
      /\ \A i \in 1 .. Len(s) + Len(t) : (s \o t)[i] = IF i <= Len(s) THEN s[i] ELSE t[i - Len(s)]
  BY ConcatProperties
<1>4. s \o t # << >>
  BY ConcatEqualIffEmpty
<1>5. Head(s \o t) = Head(s)
  BY <1>2, <1>3
<1>6. /\ Tail(s \o t) \in Seq(S) /\ Len(Tail(s \o t)) = Len(s) + Len(t) - 1
      /\ \A i \in 1 .. Len(s) + Len(t) - 1 : Tail(s \o t)[i] = (s \o t)[i + 1]
  BY <1>3, <1>4, HeadTailProperties
<1>7. /\ Tail(s) \o t \in Seq(S) /\ Len(Tail(s) \o t) = Len(s) + Len(t) - 1
      /\ \A i \in 1 .. Len(s) + Len(t) - 1 :
           (Tail(s) \o t)[i] = IF i <= Len(s) - 1 THEN Tail(s)[i] ELSE t[i - (Len(s) - 1)]
  <2>1. Len(Tail(s)) + Len(t) = Len(s) + Len(t) - 1
    BY <1>1, <1>2
  <2> QED
    BY <1>1, <2>1, ConcatProperties
<1>8. ASSUME NEW i \in 1 .. Len(s) + Len(t) - 1
      PROVE  Tail(s \o t)[i] = (Tail(s) \o t)[i]
  <2>1. i + 1 \in 1 .. Len(s) + Len(t) /\ (i + 1) - Len(s) = i - (Len(s) - 1)
    BY <1>2
  <2>2. i <= Len(s) - 1 => i \in 1 .. Len(Tail(s)) /\ i + 1 <= Len(s)
    BY <1>1, <1>2
  <2>3. ~(i <= Len(s) - 1) => ~(i + 1 <= Len(s))
    BY <1>2
  <2> QED
    BY <1>1, <1>3, <1>6, <1>7, <2>1, <2>2, <2>3
<1>9. Tail(s \o t) = Tail(s) \o t
  BY <1>6, <1>7, <1>8, SeqEqual
<1> QED
  BY <1>3, <1>4, <1>5, <1>9

LEMMA ThreeUpdates ==
  ASSUME NEW S, NEW a \in S, NEW b \in S, NEW c \in S
  PROVE  /\ <<a, b, c>> \in Seq(S) /\ <<b, c>> \in Seq(S) /\ <<c>> \in Seq(S)
         /\ Rests(<<a, b, c>>) = {<<a, b, c>>, <<b, c>>, <<c>>}
         /\ Tail(<<a, b, c>>) = <<b, c>> /\ Tail(<<b, c>>) = <<c>> /\ Tail(<<c>>) = << >>
         /\ Head(<<a, b, c>>) = a /\ Head(<<b, c>>) = b /\ Head(<<c>>) = c
         /\ <<a, b, c>> # << >> /\ <<b, c>> # << >> /\ <<c>> # << >>
<1>1. <<a, b, c>> \in Seq(S) /\ <<b, c>> \in Seq(S) /\ <<c>> \in Seq(S)
  OBVIOUS
<1>2. Tail(<<a, b, c>>) = <<b, c>> /\ Tail(<<b, c>>) = <<c>> /\ Tail(<<c>>) = << >>
  OBVIOUS
<1>3. Head(<<a, b, c>>) = a /\ Head(<<b, c>>) = b /\ Head(<<c>>) = c
  OBVIOUS
<1>4. <<a, b, c>> # << >> /\ <<b, c>> # << >> /\ <<c>> # << >>
  OBVIOUS
<1> QED
  BY <1>1, <1>2, <1>3, <1>4 DEF Rests

LEMMA RestOfThree ==
  ASSUME NEW S, NEW a \in S, NEW b \in S, NEW c \in S, NEW rest \in Rests(<<a, b, c>>)
  PROVE  /\ rest \in Seq(S) /\ rest # << >>
         /\ \/ Head(rest) \in {a, b} /\ Tail(rest) \in Rests(<<a, b, c>>)
            \/ Head(rest) = c /\ Tail(rest) = << >>
<1> DEFINE good(r) == /\ r \in Seq(S) /\ r # << >>
                      /\ \/ Head(r) \in {a, b} /\ Tail(r) \in Rests(<<a, b, c>>)
                         \/ Head(r) = c /\ Tail(r) = << >>
<1>1. good(<<a, b, c>>) /\ good(<<b, c>>)
  <2>1. <<b, c>> \in Rests(<<a, b, c>>) /\ <<c>> \in Rests(<<a, b, c>>)
    BY ThreeUpdates
  <2> QED
    BY <2>1, ThreeUpdates
<1>2. good(<<c>>)
  BY ThreeUpdates
<1>3. rest \in {<<a, b, c>>, <<b, c>>, <<c>>}
  <2>1. Tail(<<a, b, c>>) = <<b, c>> /\ Tail(<<b, c>>) = <<c>> /\ <<a, b, c>> # << >>
    OBVIOUS
  <2> QED
    BY <2>1 DEF Rests
<1>4. good(rest)
  <2> HIDE DEF good
  <2> QED
    BY <1>1, <1>2, <1>3
<1> QED
  BY <1>4

-----------------------------------------------------------------------------
(* One update of a save *)

Reaches(w) == eeprom' = [eeprom EXCEPT ![w.store][w.place] = w.contents]

LEMMA ReachedStores ==
  ASSUME eeprom \in Eeprom, NEW w \in Updates, Reaches(w)
  PROVE  /\ eeprom' \in Eeprom
         /\ w.store = "config" =>
              /\ eeprom'.config = [eeprom.config EXCEPT ![w.place] = w.contents]
              /\ eeprom'.result = eeprom.result /\ eeprom'.ring = eeprom.ring
         /\ w.store = "result" =>
              /\ eeprom'.result = [eeprom.result EXCEPT ![w.place] = w.contents]
              /\ eeprom'.config = eeprom.config /\ eeprom'.ring = eeprom.ring
         /\ w.store = "ring" =>
              /\ eeprom'.ring = [eeprom.ring EXCEPT ![w.place] = w.contents]
              /\ eeprom'.config = eeprom.config /\ eeprom'.result = eeprom.result
<1>1. CASE w.store = "config"
  BY <1>1 DEF Reaches, Eeprom, Updates
<1>2. CASE w.store = "result"
  BY <1>2 DEF Reaches, Eeprom, Updates
<1>3. CASE w.store = "ring"
  BY <1>3 DEF Reaches, Eeprom, Updates
<1> QED
  BY <1>1, <1>2, <1>3 DEF Updates

\* What a boot loads, by its parts.
Holding(config, result, count, configAt, resultAt, ringAt) ==
  [config |-> config, result |-> result, count |-> count,
   configAt |-> configAt, resultAt |-> resultAt, ringAt |-> ringAt]

LEMMA LoadedParts ==
  /\ Loaded = Holding(Loaded.config, Loaded.result, Loaded.count,
                      Loaded.configAt, Loaded.resultAt, Loaded.ringAt)
  /\ Loaded.config = Value(eeprom.config, Unconfigured)
  /\ Loaded.result = Value(eeprom.result, NoResult)
  /\ Loaded.count = RingPosition(eeprom.ring).count
  /\ Loaded.configAt = Position(eeprom.config) /\ Loaded.resultAt = Position(eeprom.result)
  /\ Loaded.ringAt = RingPosition(eeprom.ring)
  /\ Loaded' = Holding(Value(eeprom'.config, Unconfigured), Value(eeprom'.result, NoResult),
                       RingPosition(eeprom'.ring).count, Position(eeprom'.config),
                       Position(eeprom'.result), RingPosition(eeprom'.ring))
BY DEF Loaded, Holding

LEMMA SavedParts ==
  ASSUME NEW c, NEW r, NEW n, NEW ca, NEW ra, NEW na, NEW x,
         NEW memory, memory = Holding(c, r, n, ca, ra, na)
  PROVE  /\ ConfigSaved(memory, x) = Holding(x, r, n, After(ca), ra, na)
         /\ ResultSaved(memory, x) = Holding(c, x, n, ca, After(ra), na)
         /\ CountSaved(memory, x) = Holding(c, r, x, ca, ra, RingAfter(na, x))
<1>1. ConfigSaved(memory, x) = Holding(x, r, n, After(ca), ra, na)
  <2> DEFINE half == [memory EXCEPT !.config = x]
             new == After(ca)
  <2>1. half = Holding(x, r, n, ca, ra, na) /\ memory.configAt = ca
    BY DEF Holding
  <2>2. [half EXCEPT !.configAt = new] = Holding(x, r, n, new, ra, na)
    <3> HIDE DEF half, new
    <3> QED
      BY <2>1 DEF Holding
  <2> QED
    BY <2>1, <2>2 DEF ConfigSaved
<1>2. ResultSaved(memory, x) = Holding(c, x, n, ca, After(ra), na)
  <2> DEFINE half == [memory EXCEPT !.result = x]
             new == After(ra)
  <2>1. half = Holding(c, x, n, ca, ra, na) /\ memory.resultAt = ra
    BY DEF Holding
  <2>2. [half EXCEPT !.resultAt = new] = Holding(c, x, n, ca, new, na)
    <3> HIDE DEF half, new
    <3> QED
      BY <2>1 DEF Holding
  <2> QED
    BY <2>1, <2>2 DEF ResultSaved
<1>3. CountSaved(memory, x) = Holding(c, r, x, ca, ra, RingAfter(na, x))
  <2> DEFINE half == [memory EXCEPT !.count = x]
             new == RingAfter(na, x)
  <2>1. half = Holding(c, r, x, ca, ra, na) /\ memory.ringAt = na
    BY DEF Holding
  <2>2. [half EXCEPT !.ringAt = new] = Holding(c, r, x, ca, ra, new)
    <3> HIDE DEF half, new
    <3> QED
      BY <2>1 DEF Holding
  <2> QED
    BY <2>1, <2>2 DEF CountSaved
<1> QED
  BY <1>1, <1>2, <1>3

LEMMA ConfigNeighbours ==
  ASSUME NEW slots, ConfigInv(slots)
  PROVE  Neighbours(slots)
<1>1. (0 + 1) % Generations = 1
  BY WrapAssumption, SmallMod
<1> QED
  BY <1>1 DEF ConfigInv, Neighbours, Following

LEMMA LoadedType ==
  ASSUME eeprom \in Eeprom, StoresInv
  PROVE  Loaded \in Memory
<1>1. /\ eeprom.config \in [Slot -> SlotOf(Config)] /\ eeprom.result \in [Slot -> SlotOf(Stored)]
      /\ eeprom.ring \in [Place -> RecordOfRing]
  BY DEF Eeprom
<1>2. /\ Position(eeprom.config) \in Positions
      /\ Value(eeprom.config, Unconfigured) \in Config \cup {Unconfigured}
  BY <1>1, ConfigNeighbours, PositionType DEF StoresInv, Value
<1>3. /\ Position(eeprom.result) \in Positions
      /\ Value(eeprom.result, NoResult) \in Stored \cup {NoResult}
  BY <1>1, PositionType DEF StoresInv, Value
<1>4. RingPosition(eeprom.ring) \in RingPositions
  BY <1>1, RingPositionType DEF StoresInv
<1> QED
  BY <1>2, <1>3, <1>4 DEF Loaded, Memory, RingPositions

LEMMA ResultSaveType ==
  ASSUME NEW at \in Positions, NEW result \in Stored
  PROVE  LET save == SlotWrites("result", at, result) IN
         /\ save \in Seq(Updates) /\ save # << >>
         /\ save[1] \in Updates /\ save[2] \in Updates /\ save[3] \in Updates
         /\ save = <<save[1], save[2], save[3]>>
<1> DEFINE save == SlotWrites("result", at, result)
           body == [generation |-> After(at).generation, value |-> result]
<1>1. After(at).slot \in Slot /\ body \in Body(Stored)
  <2>1. After(at) \in Positions
    BY WrapAssumption DEF Positions, After, Slot, Generation
  <2> QED
    BY <2>1 DEF Positions, Body
<1>2. /\ save[1] \in Updates /\ save[2] \in Updates /\ save[3] \in Updates
      /\ save = <<save[1], save[2], save[3]>>
  BY <1>1 DEF SlotWrites, Update, Updates, SlotOf
<1>3. \A a, b, c \in Updates : <<a, b, c>> \in Seq(Updates) /\ <<a, b, c>> # << >>
  BY ThreeUpdates
<1>4. save \in Seq(Updates) /\ save # << >>
  <2> HIDE DEF save
  <2> QED
    BY <1>2, <1>3, Zenon
<1> QED
  BY <1>2, <1>4

LEMMA ConfigSaveType ==
  ASSUME NEW at \in Positions, NEW config \in Config
  PROVE  LET save == SlotWrites("config", at, config) IN
         /\ save \in Seq(Updates) /\ save # << >>
         /\ save[1] \in Updates /\ save[2] \in Updates /\ save[3] \in Updates
         /\ save = <<save[1], save[2], save[3]>>
<1> DEFINE save == SlotWrites("config", at, config)
           body == [generation |-> After(at).generation, value |-> config]
<1>1. After(at).slot \in Slot /\ body \in Body(Config)
  <2>1. After(at) \in Positions
    BY WrapAssumption DEF Positions, After, Slot, Generation
  <2> QED
    BY <2>1 DEF Positions, Body
<1>2. /\ save[1] \in Updates /\ save[2] \in Updates /\ save[3] \in Updates
      /\ save = <<save[1], save[2], save[3]>>
  BY <1>1 DEF SlotWrites, Update, Updates, SlotOf
<1>3. \A a, b, c \in Updates : <<a, b, c>> \in Seq(Updates) /\ <<a, b, c>> # << >>
  BY ThreeUpdates
<1>4. save \in Seq(Updates) /\ save # << >>
  <2> HIDE DEF save
  <2> QED
    BY <1>2, <1>3, Zenon
<1> QED
  BY <1>2, <1>4

LEMMA RingSaveType ==
  ASSUME NEW ring \in [Place -> RecordOfRing], RingInv(ring), NEW count \in Count
  PROVE  LET at == RingPosition(ring)
             save == RingWrites(ring, at, count)
         IN
         /\ save \in Seq(Updates)
         /\ save = << >> <=> at.has /\ count = at.count
         /\ save # << >> =>
              /\ save[1] \in Updates /\ save[2] \in Updates /\ save[3] \in Updates
              /\ save = <<save[1], save[2], save[3]>>
<1> DEFINE at == RingPosition(ring)
           save == RingWrites(ring, at, count)
           place == RingAfter(at, count).slot
<1>1. place \in Place /\ RingAfter(at, count).sequence \in Sequence
  BY RingPositionType DEF RingPositions
<1>2. ring[place].sequence \in Sequence \cup {Empty}
  BY <1>1 DEF RecordOfRing
<1>3. CASE at.has /\ count = at.count
  BY <1>3, EmptySeq DEF RingWrites
<1>4. CASE ~(at.has /\ count = at.count)
  <2>1. /\ save[1] \in Updates /\ save[2] \in Updates /\ save[3] \in Updates
        /\ save = <<save[1], save[2], save[3]>>
    BY <1>1, <1>2, <1>4 DEF RingWrites, Update, Updates, RecordOfRing
  <2>2. \A a, b, c \in Updates : <<a, b, c>> \in Seq(Updates) /\ <<a, b, c>> # << >>
    BY ThreeUpdates
  <2>3. save \in Seq(Updates) /\ save # << >>
    <3> HIDE DEF save
    <3> QED
      BY <2>1, <2>2, Zenon
  <2> QED
    BY <1>4, <2>1, <2>3
<1> QED
  BY <1>3, <1>4

LEMMA ResultUpdate ==
  ASSUME eeprom \in Eeprom, StoresInv, NEW result \in Stored,
         NEW rest \in Rests(ResultSave(result)), Reaches(Head(rest))
  PROVE  /\ rest \in Seq(Updates) /\ rest # << >>
         /\ eeprom' \in Eeprom /\ StoresInv' /\ eeprom'.ring = eeprom.ring
         /\ \/ Tail(rest) \in Rests(ResultSave(result)) /\ Loaded' = Loaded
            \/ /\ Tail(rest) = << >>
               /\ Loaded' = ResultSaved(Loaded, result)
<1> DEFINE slots == eeprom.result
           at == Position(slots)
           place == After(at).slot
           body == [generation |-> After(at).generation, value |-> result]
           update(magic, content) ==
             Update("result", place, [magic |-> magic, body |-> content])
<1>1. /\ slots \in [Slot -> SlotOf(Stored)] /\ Neighbours(slots)
      /\ ConfigInv(eeprom.config) /\ RingInv(eeprom.ring)
  BY DEF Eeprom, StoresInv
<1>2. at \in Positions /\ After(at) \in Positions /\ place \in Slot /\ body \in Body(Stored)
  BY <1>1, PositionType DEF Positions, Body
<1>3. \A magic \in BOOLEAN, content \in Body(Stored) \cup {Torn} :
        /\ update(magic, content) \in Updates
        /\ update(magic, content).store = "result" /\ update(magic, content).place = place
        /\ update(magic, content).contents = [magic |-> magic, body |-> content]
  BY <1>2 DEF Update, Updates, SlotOf
<1>4. ResultSave(result) = <<update(FALSE, Torn), update(FALSE, body), update(TRUE, body)>>
  BY DEF ResultSave, SlotWrites, Loaded
<1>5. ASSUME NEW content \in Body(Stored) \cup {Torn}, Reaches(update(FALSE, content))
      PROVE  /\ eeprom' \in Eeprom /\ StoresInv' /\ eeprom'.ring = eeprom.ring
             /\ Loaded' = Loaded
  <2> DEFINE w == update(FALSE, content)
  <2>0. /\ w \in Updates /\ w.store = "result" /\ w.place = place
        /\ w.contents = [magic |-> FALSE, body |-> content]
        /\ Reaches(w)
    BY <1>3, <1>5
  <2>1. /\ eeprom' \in Eeprom /\ eeprom'.ring = eeprom.ring
        /\ eeprom'.config = eeprom.config
        /\ eeprom'.result = [slots EXCEPT ![place] = [magic |-> FALSE, body |-> content]]
    <3> HIDE DEF w
    <3> QED
      BY <2>0, ReachedStores
  <2>2. /\ Neighbours(eeprom'.result) /\ Position(eeprom'.result) = at
        /\ Value(eeprom'.result, NoResult) = Value(slots, NoResult)
    BY <1>1, <2>1, SlotOpened
  <2> QED
    BY <1>1, <2>1, <2>2 DEF StoresInv, Loaded
<1>6. ASSUME Reaches(update(TRUE, body))
      PROVE  /\ eeprom' \in Eeprom /\ StoresInv' /\ eeprom'.ring = eeprom.ring
             /\ Loaded' = ResultSaved(Loaded, result)
  <2> DEFINE w == update(TRUE, body)
  <2>0. /\ w \in Updates /\ w.store = "result" /\ w.place = place
        /\ w.contents = [magic |-> TRUE, body |-> body]
        /\ Reaches(w)
    BY <1>2, <1>3, <1>6
  <2>1. /\ eeprom' \in Eeprom /\ eeprom'.ring = eeprom.ring
        /\ eeprom'.config = eeprom.config
        /\ eeprom'.result = [slots EXCEPT ![place] = [magic |-> TRUE, body |-> body]]
    <3> HIDE DEF w
    <3> QED
      BY <2>0, ReachedStores
  <2>2. Torn \notin Body(Stored)
    BY TornAssumption
  <2>3. /\ Neighbours(eeprom'.result) /\ Position(eeprom'.result) = After(at)
        /\ Value(eeprom'.result, NoResult) = result
    BY <1>1, <2>1, <2>2, SlotClosed
  <2>4. Loaded' = ResultSaved(Loaded, result)
    <3>1. Loaded' = Holding(Loaded.config, result, Loaded.count, Loaded.configAt,
                            After(at), Loaded.ringAt)
      BY <2>1, <2>3, LoadedParts
    <3> QED
      BY <3>1, LoadedParts, SavedParts
  <2> QED
    BY <1>1, <2>1, <2>3, <2>4 DEF StoresInv
<1>7. /\ update(FALSE, Torn) \in Updates /\ update(FALSE, body) \in Updates
      /\ update(TRUE, body) \in Updates
  BY <1>2, <1>3
<1>8. /\ rest \in Seq(Updates) /\ rest # << >>
      /\ \/ Head(rest) \in {update(FALSE, Torn), update(FALSE, body)}
            /\ Tail(rest) \in Rests(ResultSave(result))
         \/ Head(rest) = update(TRUE, body) /\ Tail(rest) = << >>
  <2> DEFINE first == update(FALSE, Torn)
             second == update(FALSE, body)
             third == update(TRUE, body)
  <2>1. /\ first \in Updates /\ second \in Updates /\ third \in Updates
        /\ ResultSave(result) = <<first, second, third>>
    BY <1>4, <1>7
  <2> HIDE DEF first, second, third
  <2>2. /\ rest \in Seq(Updates) /\ rest # << >>
        /\ \/ Head(rest) \in {first, second} /\ Tail(rest) \in Rests(ResultSave(result))
           \/ Head(rest) = third /\ Tail(rest) = << >>
    BY <2>1, RestOfThree
  <2> QED
    BY <2>2 DEF first, second, third
<1> HIDE DEF update, body
<1> QED
  BY <1>2, <1>5, <1>6, <1>8

\* Joining and confirming are the only saves of a configuration.
LEMMA ConfigUpdate ==
  ASSUME eeprom \in Eeprom, StoresInv, NEW config \in Config,
         \/ config.state = "Provisional" /\ Loaded.config = Unconfigured
         \/ config.state = "Active" /\ Loaded.config.state = "Provisional",
         NEW rest \in Rests(ConfigSave(config)), Reaches(Head(rest))
  PROVE  /\ rest \in Seq(Updates) /\ rest # << >>
         /\ eeprom' \in Eeprom /\ StoresInv' /\ eeprom'.ring = eeprom.ring
         /\ \/ Tail(rest) \in Rests(ConfigSave(config)) /\ Loaded' = Loaded
            \/ /\ Tail(rest) = << >>
               /\ Loaded' = ConfigSaved(Loaded, config)
<1> DEFINE slots == eeprom.config
           at == Position(slots)
           place == After(at).slot
           body == [generation |-> After(at).generation, value |-> config]
           update(magic, content) ==
             Update("config", place, [magic |-> magic, body |-> content])
<1>1. /\ slots \in [Slot -> SlotOf(Config)] /\ Neighbours(slots) /\ ConfigInv(slots)
      /\ Neighbours(eeprom.result) /\ RingInv(eeprom.ring)
  BY ConfigNeighbours DEF Eeprom, StoresInv
<1>2. at \in Positions /\ After(at) \in Positions /\ place \in Slot /\ body \in Body(Config)
  BY <1>1, PositionType DEF Positions, Body
<1>3. \A magic \in BOOLEAN, content \in Body(Config) \cup {Torn} :
        /\ update(magic, content) \in Updates
        /\ update(magic, content).store = "config" /\ update(magic, content).place = place
        /\ update(magic, content).contents = [magic |-> magic, body |-> content]
  BY <1>2 DEF Update, Updates, SlotOf
<1>4. ConfigSave(config) = <<update(FALSE, Torn), update(FALSE, body), update(TRUE, body)>>
  BY DEF ConfigSave, SlotWrites, Loaded
<1>5. ASSUME NEW content \in Body(Config) \cup {Torn}, Reaches(update(FALSE, content))
      PROVE  /\ eeprom' \in Eeprom /\ StoresInv' /\ eeprom'.ring = eeprom.ring
             /\ Loaded' = Loaded
  <2> DEFINE w == update(FALSE, content)
  <2>0. /\ w \in Updates /\ w.store = "config" /\ w.place = place
        /\ w.contents = [magic |-> FALSE, body |-> content]
        /\ Reaches(w)
    BY <1>3, <1>5
  <2>1. /\ eeprom' \in Eeprom /\ eeprom'.ring = eeprom.ring
        /\ eeprom'.result = eeprom.result
        /\ eeprom'.config = [slots EXCEPT ![place] = [magic |-> FALSE, body |-> content]]
    <3> HIDE DEF w
    <3> QED
      BY <2>0, ReachedStores
  <2>2. /\ Position(eeprom'.config) = at
        /\ Value(eeprom'.config, Unconfigured) = Value(slots, Unconfigured)
    BY <1>1, <2>1, SlotOpened
  <2>3. ConfigInv(eeprom'.config)
    BY <1>1, <1>2, <2>1 DEF ConfigInv, Decodes, Slot
  <2> QED
    BY <1>1, <2>1, <2>2, <2>3 DEF StoresInv, Loaded
<1>6. \/ place = 0 /\ After(at).generation = 0 /\ config.state = "Provisional"
      \/ place = 1 /\ After(at).generation = 1 /\ config.state = "Active"
  <2>1. Loaded.config = IF at.has THEN slots[at.slot].body.value ELSE Unconfigured
    BY DEF Loaded, Value
  <2>2. at.has => /\ Decodes(slots[at.slot]) /\ slots[at.slot].body.value \in Config
                  /\ slots[at.slot].body.generation = at.generation /\ at.slot \in Slot
    BY <1>1, <1>2, PositionType DEF Positions
  <2>3. CASE config.state = "Provisional" /\ Loaded.config = Unconfigured
    <3>1. ~at.has
      BY <2>1, <2>2, <2>3 DEF Config, Unconfigured
    <3>2. at = Nowhere
      BY <1>1, <3>1, PositionCases DEF At
    <3> QED
      BY <2>3, <3>2 DEF Nowhere, After
  <2>4. CASE config.state = "Active" /\ Loaded.config.state = "Provisional"
    <3>1. at.has
      BY <2>1, <2>4 DEF Unconfigured
    <3>2. at.slot = 0 /\ at.generation = 0
      BY <1>1, <2>1, <2>2, <2>4, <3>1 DEF ConfigInv, Slot
    <3>3. (0 + 1) % Generations = 1
      BY WrapAssumption, SmallMod
    <3> QED
      BY <2>4, <3>1, <3>2, <3>3 DEF After
  <2> QED
    BY <2>3, <2>4
<1>7. ASSUME Reaches(update(TRUE, body))
      PROVE  /\ eeprom' \in Eeprom /\ StoresInv' /\ eeprom'.ring = eeprom.ring
             /\ Loaded' = ConfigSaved(Loaded, config)
  <2> DEFINE w == update(TRUE, body)
  <2>0. /\ w \in Updates /\ w.store = "config" /\ w.place = place
        /\ w.contents = [magic |-> TRUE, body |-> body]
        /\ Reaches(w)
    BY <1>2, <1>3, <1>7
  <2>1. /\ eeprom' \in Eeprom /\ eeprom'.ring = eeprom.ring
        /\ eeprom'.result = eeprom.result
        /\ eeprom'.config = [slots EXCEPT ![place] = [magic |-> TRUE, body |-> body]]
    <3> HIDE DEF w
    <3> QED
      BY <2>0, ReachedStores
  <2>2. Torn \notin Body(Config)
    BY TornAssumption
  <2>3. /\ Position(eeprom'.config) = After(at)
        /\ Value(eeprom'.config, Unconfigured) = config
    BY <1>1, <2>1, <2>2, SlotClosed
  <2>4. ConfigInv(eeprom'.config)
    <3>1. \A s \in Slot : eeprom'.config[s] = IF s = place THEN [magic |-> TRUE, body |-> body]
                                              ELSE slots[s]
      BY <1>1, <1>2, <2>1
    <3> QED
      BY <1>1, <1>6, <3>1 DEF ConfigInv, Slot
  <2>5. Loaded' = ConfigSaved(Loaded, config)
    <3>1. Loaded' = Holding(config, Loaded.result, Loaded.count, After(at),
                            Loaded.resultAt, Loaded.ringAt)
      BY <2>1, <2>3, LoadedParts
    <3> QED
      BY <3>1, LoadedParts, SavedParts
  <2> QED
    BY <1>1, <2>1, <2>4, <2>5 DEF StoresInv
<1>8. /\ update(FALSE, Torn) \in Updates /\ update(FALSE, body) \in Updates
      /\ update(TRUE, body) \in Updates
  BY <1>2, <1>3
<1>9. /\ rest \in Seq(Updates) /\ rest # << >>
      /\ \/ Head(rest) \in {update(FALSE, Torn), update(FALSE, body)}
            /\ Tail(rest) \in Rests(ConfigSave(config))
         \/ Head(rest) = update(TRUE, body) /\ Tail(rest) = << >>
  <2> DEFINE first == update(FALSE, Torn)
             second == update(FALSE, body)
             third == update(TRUE, body)
  <2>1. /\ first \in Updates /\ second \in Updates /\ third \in Updates
        /\ ConfigSave(config) = <<first, second, third>>
    BY <1>4, <1>8
  <2> HIDE DEF first, second, third
  <2>2. /\ rest \in Seq(Updates) /\ rest # << >>
        /\ \/ Head(rest) \in {first, second} /\ Tail(rest) \in Rests(ConfigSave(config))
           \/ Head(rest) = third /\ Tail(rest) = << >>
    BY <2>1, RestOfThree
  <2> QED
    BY <2>2 DEF first, second, third
<1> HIDE DEF update, body
<1> QED
  BY <1>2, <1>5, <1>7, <1>9

LEMMA RingUpdate ==
  ASSUME eeprom \in Eeprom, StoresInv, NEW count \in Count,
         NEW rest \in Rests(RingSave(count)), Reaches(Head(rest))
  PROVE  /\ rest \in Seq(Updates) /\ rest # << >>
         /\ eeprom' \in Eeprom /\ StoresInv'
         /\ \/ /\ Tail(rest) \in Rests(RingSave(count)) /\ Loaded' = Loaded
               /\ RingSave(count)' = RingSave(count)
            \/ /\ Tail(rest) = << >>
               /\ Loaded' = CountSaved(Loaded, count)
<1> DEFINE ring == eeprom.ring
           at == RingPosition(ring)
           after == RingAfter(at, count)
           place == after.slot
           update(sequence, content) ==
             Update("ring", place, [sequence |-> sequence, count |-> content])
<1>1. /\ ring \in [Place -> RecordOfRing] /\ RingInv(ring)
      /\ ConfigInv(eeprom.config) /\ Neighbours(eeprom.result)
  BY DEF Eeprom, StoresInv
<1>2. ~(at.has /\ count = at.count)
  <2>1. RingSave(count) # << >>
    BY DEF Rests
  <2> QED
    BY <1>1, <2>1, RingSaveType DEF RingSave, Loaded
<1>3. after \in RingPositions /\ place \in Place /\ after.sequence \in Sequence
  BY <1>1, RingPositionType DEF RingPositions
<1>4. ring[place].sequence \in Sequence \cup {Empty}
  BY <1>1, <1>3 DEF RecordOfRing
<1>5. \A sequence \in Sequence \cup {Empty}, content \in Count \cup {Torn} :
        /\ update(sequence, content) \in Updates
        /\ update(sequence, content).store = "ring"
        /\ update(sequence, content).place = place
        /\ update(sequence, content).contents = [sequence |-> sequence, count |-> content]
  BY <1>3 DEF Update, Updates, RecordOfRing
<1>6. RingSave(count) = <<update(ring[place].sequence, Torn),
                          update(ring[place].sequence, count),
                          update(after.sequence, count)>>
  BY <1>2 DEF RingSave, RingWrites, Loaded
<1>7. ASSUME NEW content \in Count \cup {Torn},
             Reaches(update(ring[place].sequence, content))
      PROVE  /\ eeprom' \in Eeprom /\ StoresInv' /\ Loaded' = Loaded
             /\ RingSave(count)' = RingSave(count)
  <2> DEFINE w == update(ring[place].sequence, content)
  <2>0. /\ w \in Updates /\ w.store = "ring" /\ w.place = place
        /\ w.contents = [sequence |-> ring[place].sequence, count |-> content]
        /\ Reaches(w)
    BY <1>4, <1>5, <1>7
  <2>1. /\ eeprom' \in Eeprom /\ eeprom'.config = eeprom.config
        /\ eeprom'.result = eeprom.result
        /\ eeprom'.ring = [ring EXCEPT ![place] = [sequence |-> ring[place].sequence,
                                                   count |-> content]]
    <3> HIDE DEF w
    <3> QED
      BY <2>0, ReachedStores
  <2>2. /\ RingInv(eeprom'.ring) /\ RingPosition(eeprom'.ring) = at
        /\ eeprom'.ring[place].sequence = ring[place].sequence
    BY <1>1, <1>2, <2>1, RingOpened
  <2>3. RingWrites(eeprom'.ring, at, count) = RingWrites(ring, at, count)
    BY <2>2 DEF RingWrites
  <2> QED
    BY <1>1, <2>1, <2>2, <2>3 DEF StoresInv, Loaded, RingSave
<1>8. ASSUME Reaches(update(after.sequence, count))
      PROVE  /\ eeprom' \in Eeprom /\ StoresInv'
             /\ Loaded' = CountSaved(Loaded, count)
  <2> DEFINE w == update(after.sequence, count)
  <2>0. /\ w \in Updates /\ w.store = "ring" /\ w.place = place
        /\ w.contents = [sequence |-> after.sequence, count |-> count]
        /\ Reaches(w)
    BY <1>3, <1>5, <1>8
  <2>1. /\ eeprom' \in Eeprom /\ eeprom'.config = eeprom.config
        /\ eeprom'.result = eeprom.result
        /\ eeprom'.ring = [ring EXCEPT ![place] = [sequence |-> after.sequence,
                                                   count |-> count]]
    <3> HIDE DEF w
    <3> QED
      BY <2>0, ReachedStores
  <2>2. RingInv(eeprom'.ring) /\ RingPosition(eeprom'.ring) = after
    BY <1>1, <1>2, <2>1, RingClosed
  <2>3. after.count = count
    BY <1>2 DEF RingAfter
  <2>4. Loaded' = CountSaved(Loaded, count)
    <3>1. Loaded' = Holding(Loaded.config, Loaded.result, count, Loaded.configAt,
                            Loaded.resultAt, after)
      BY <2>1, <2>2, <2>3, LoadedParts
    <3> QED
      BY <3>1, LoadedParts, SavedParts
  <2> QED
    BY <1>1, <2>1, <2>2, <2>4 DEF StoresInv
<1>9. /\ update(ring[place].sequence, Torn) \in Updates
      /\ update(ring[place].sequence, count) \in Updates
      /\ update(after.sequence, count) \in Updates
  BY <1>3, <1>4, <1>5
<1> HIDE DEF update, after, place
<1>10. /\ rest \in Seq(Updates) /\ rest # << >>
       /\ \/ /\ Head(rest) \in {update(ring[place].sequence, Torn),
                                 update(ring[place].sequence, count)}
             /\ Tail(rest) \in Rests(RingSave(count))
          \/ Head(rest) = update(after.sequence, count) /\ Tail(rest) = << >>
  BY <1>6, <1>9, RestOfThree
<1> QED
  BY <1>7, <1>8, <1>10

-----------------------------------------------------------------------------
(* What RAM holds, and what a boot finds *)

LEMMA MemoryParts ==
  ASSUME NEW m \in Memory
  PROVE  m = Holding(m.config, m.result, m.count, m.configAt, m.resultAt, m.ringAt)
BY DEF Memory, Holding

LEMMA ForgottenParts ==
  ASSUME NEW m \in Memory
  PROVE  ConfigForgotten(m)
           = Holding(Unconfigured, m.result, m.count, Nowhere, m.resultAt, m.ringAt)
<1> DEFINE half == [m EXCEPT !.config = Unconfigured]
<1>1. half = Holding(Unconfigured, m.result, m.count, m.configAt, m.resultAt, m.ringAt)
  BY DEF Memory, Holding
<1>2. [half EXCEPT !.configAt = Nowhere]
        = Holding(Unconfigured, m.result, m.count, Nowhere, m.resultAt, m.ringAt)
  <2> HIDE DEF half
  <2> QED
    BY <1>1 DEF Holding
<1> QED
  BY <1>2 DEF ConfigForgotten, Nowhere

LEMMA SavedFields ==
  ASSUME NEW m \in Memory, NEW x
  PROVE  /\ LET saved == ConfigSaved(m, x) IN
              /\ saved.config = x /\ saved.configAt = After(m.configAt)
              /\ saved.result = m.result /\ saved.resultAt = m.resultAt
              /\ saved.count = m.count /\ saved.ringAt = m.ringAt
         /\ LET saved == ResultSaved(m, x) IN
              /\ saved.result = x /\ saved.resultAt = After(m.resultAt)
              /\ saved.config = m.config /\ saved.configAt = m.configAt
              /\ saved.count = m.count /\ saved.ringAt = m.ringAt
         /\ LET saved == CountSaved(m, x) IN
              /\ saved.count = x /\ saved.ringAt = RingAfter(m.ringAt, x)
              /\ saved.config = m.config /\ saved.configAt = m.configAt
              /\ saved.result = m.result /\ saved.resultAt = m.resultAt
<1>1. /\ ConfigSaved(m, x)
             = Holding(x, m.result, m.count, After(m.configAt), m.resultAt, m.ringAt)
      /\ ResultSaved(m, x)
             = Holding(m.config, x, m.count, m.configAt, After(m.resultAt), m.ringAt)
      /\ CountSaved(m, x)
           = Holding(m.config, m.result, x, m.configAt, m.resultAt, RingAfter(m.ringAt, x))
  BY MemoryParts, SavedParts
<1>2. \A c, r, n, ca, ra, na :
        LET held == Holding(c, r, n, ca, ra, na) IN
        /\ held.config = c /\ held.result = r /\ held.count = n
        /\ held.configAt = ca /\ held.resultAt = ra /\ held.ringAt = na
  BY DEF Holding
<1> QED
  BY <1>1, <1>2

LEMMA AfterType ==
  /\ \A at \in Positions : After(at) \in Positions
  /\ \A at \in RingPositions, count \in Count : RingAfter(at, count) \in RingPositions
<1>1. \A at \in Positions : After(at) \in Positions
  BY WrapAssumption DEF Positions, After, Slot, Generation
<1>2. ASSUME NEW at \in RingPositions, NEW count \in Count
      PROVE  RingAfter(at, count) \in RingPositions
  <2>1. (at.slot + 1) % RingSize \in Place
    BY NextPlace DEF RingPositions
  <2>2. 0 \in Sequence /\ \A q \in Sequence : (q + 1) % RingSequences \in Sequence
    BY WrapAssumption DEF Sequence
  <2> QED
    BY <2>1, <2>2 DEF RingAfter, RingPositions
<1> QED
  BY <1>1, <1>2

LEMMA HoldingType ==
  ASSUME NEW c \in Config \cup {Unconfigured}, NEW r \in Stored \cup {NoResult}, NEW n \in Count,
         NEW ca \in Positions, NEW ra \in Positions, NEW na \in RingPositions
  PROVE  Holding(c, r, n, ca, ra, na) \in Memory
BY DEF Holding, Memory

LEMMA SavedType ==
  ASSUME NEW m \in Memory
  PROVE  /\ \A config \in Config : ConfigSaved(m, config) \in Memory
         /\ \A result \in Stored : ResultSaved(m, result) \in Memory
         /\ \A count \in Count : CountSaved(m, count) \in Memory
<1>1. /\ m.config \in Config \cup {Unconfigured} /\ m.result \in Stored \cup {NoResult}
      /\ m.count \in Count /\ m.configAt \in Positions /\ m.resultAt \in Positions
      /\ m.ringAt \in RingPositions
  BY DEF Memory
<1>2. \A x :
        /\ ConfigSaved(m, x)
             = Holding(x, m.result, m.count, After(m.configAt), m.resultAt, m.ringAt)
        /\ ResultSaved(m, x)
             = Holding(m.config, x, m.count, m.configAt, After(m.resultAt), m.ringAt)
        /\ CountSaved(m, x)
             = Holding(m.config, m.result, x, m.configAt, m.resultAt, RingAfter(m.ringAt, x))
  BY MemoryParts, SavedParts
<1> QED
  BY <1>1, <1>2, AfterType, HoldingType

\* The newest count is not saved again.
LEMMA CountSavedAlready ==
  ASSUME NEW m \in Memory, m.ringAt.has, m.count = m.ringAt.count
  PROVE  CountSaved(m, m.count) = m
<1>1. RingAfter(m.ringAt, m.count) = m.ringAt
  BY DEF RingAfter
<1> QED
  BY <1>1, MemoryParts, SavedParts

LEMMA CountSavedTwice ==
  ASSUME NEW m \in Memory, NEW count \in Count
  PROVE  CountSaved(CountSaved(m, count), count) = CountSaved(m, count)
<1> DEFINE saved == CountSaved(m, count)
<1>1. saved.ringAt.has /\ saved.count = count /\ saved.ringAt.count = count
  <2>1. RingAfter(m.ringAt, count).has /\ RingAfter(m.ringAt, count).count = count
    BY DEF RingAfter
  <2> QED
    BY <2>1, SavedFields
<1>2. saved \in Memory
  BY SavedType
<1> HIDE DEF saved
<1> QED
  BY <1>1, <1>2, CountSavedAlready DEF saved

\* What a boot finds, as the registers of the abstract specification.
Seen == <<Loaded.config, Loaded.result, Loaded.count>>

LEMMA SeenIs ==
  /\ /\ Loaded.config = Value(eeprom.config, Unconfigured)
     /\ Loaded.result = Value(eeprom.result, NoResult)
     /\ Loaded.count = RingPosition(eeprom.ring).count
  /\ /\ Loaded'.config = Value(eeprom'.config, Unconfigured)
     /\ Loaded'.result = Value(eeprom'.result, NoResult)
     /\ Loaded'.count = RingPosition(eeprom'.ring).count
BY DEF Loaded

LEMMA SeenPulse ==
  ASSUME ~Pending, Loaded'.count = (Loaded.count + 1) % CountLimit,
         Loaded'.config = Loaded.config, Loaded'.result = Loaded.result
  PROVE  Registers!Next
<1>1. Registers!Pulse
  BY SeenIs DEF Registers!Pulse, Pending
<1> QED
  BY <1>1 DEF Registers!Next

LEMMA SeenAccept ==
  ASSUME NEW id \in CommandId, NEW value \in Count, ~Pending,
         Loaded.config.state = "Active", id # Loaded.result.commandId,
         Loaded'.result = [status |-> "Pending", commandId |-> id, old |-> Loaded.count,
                           new |-> value],
         Loaded'.config = Loaded.config, Loaded'.count = Loaded.count
  PROVE  Registers!Next
<1>1. Registers!Accept
  BY SeenIs DEF Registers!Accept, Pending, Count
<1> QED
  BY <1>1 DEF Registers!Next

LEMMA SeenSetCount ==
  ASSUME Pending, Loaded'.count = Loaded.result.new,
         Loaded'.config = Loaded.config, Loaded'.result = Loaded.result
  PROVE  Registers!Next
<1>1. Registers!SetCount
  BY SeenIs DEF Registers!SetCount, Pending
<1> QED
  BY <1>1 DEF Registers!Next

LEMMA SeenFinish ==
  ASSUME Pending, Loaded.count = Loaded.result.new,
         Loaded'.result = Applied(Loaded.result), Loaded'.config = Loaded.config,
         Loaded'.count = Loaded.count
  PROVE  Registers!Next
<1>1. Registers!Finish
  BY SeenIs DEF Registers!Finish, Pending, Applied
<1> QED
  BY <1>1 DEF Registers!Next

LEMMA SeenClearId ==
  ASSUME Loaded.result.status = "Applied", Loaded.config.state = "Active",
         Loaded'.result = ClearedResult, Loaded'.config = Loaded.config,
         Loaded'.count = Loaded.count
  PROVE  Registers!Next
<1>1. Registers!ClearId
  BY SeenIs DEF Registers!ClearId, ClearedResult
<1> QED
  BY <1>1 DEF Registers!Next

LEMMA SeenProvision ==
  ASSUME NEW join \in Join, Loaded.config = Unconfigured,
         Loaded'.config = [state |-> "Provisional", join |-> join],
         Loaded'.result = Loaded.result, Loaded'.count = Loaded.count
  PROVE  Registers!Next
<1>1. Registers!Provision
  BY SeenIs DEF Registers!Provision, Unconfigured, Registers!Unconfigured
<1>2. Registers!Configure
  BY <1>1, SeenIs DEF Registers!Configure
<1> QED
  BY <1>2 DEF Registers!Next

LEMMA SeenActivate ==
  ASSUME Loaded.config.state = "Provisional",
         Loaded'.config = [Loaded.config EXCEPT !.state = "Active"],
         Loaded'.result = Loaded.result, Loaded'.count = Loaded.count
  PROVE  Registers!Next
<1>1. Registers!Activate
  BY SeenIs DEF Registers!Activate
<1>2. Registers!Configure
  BY <1>1, SeenIs DEF Registers!Configure
<1> QED
  BY <1>2 DEF Registers!Next

LEMMA SeenForget ==
  ASSUME Loaded.config # Unconfigured, Loaded'.config = Unconfigured,
         Loaded'.result = Loaded.result, Loaded'.count = Loaded.count
  PROVE  Registers!Next
<1>1. Registers!Forget
  BY SeenIs DEF Registers!Forget, Unconfigured, Registers!Unconfigured
<1>2. Registers!Configure
  BY <1>1, SeenIs DEF Registers!Configure
<1> QED
  BY <1>2 DEF Registers!Next

-----------------------------------------------------------------------------
(* The next update of each operation *)

\* What every step keeps, and how the registers see it.
Outcome ==
  eeprom' \in Eeprom /\ StoresInv' /\ OperationInv' /\ (Registers!Next \/ UNCHANGED Seen)

LEMMA WriteReaches ==
  ASSUME Write
  PROVE  /\ writes # << >> /\ Reaches(Head(writes)) /\ writes' = Tail(writes) /\ ram' = ram
BY DEF Write, Idle, Reaches

LEMMA NothingSeen ==
  ASSUME Loaded' = Loaded
  PROVE  UNCHANGED Seen
BY DEF Seen

LEMMA NextCount ==
  ASSUME NEW m \in Memory
  PROVE  (m.count + 1) % CountLimit \in Count
<1>1. m.count \in Int
  BY WrapAssumption DEF Memory, Count
<1> QED
  BY <1>1, WrapAssumption DEF Count

LEMMA ConfigRest ==
  ASSUME Loaded \in Memory, NEW config \in Config, NEW rest \in Rests(ConfigSave(config))
  PROVE  rest \in Seq(Updates) /\ rest # << >>
<1>1. /\ ConfigSave(config)
           = <<ConfigSave(config)[1], ConfigSave(config)[2], ConfigSave(config)[3]>>
      /\ ConfigSave(config)[1] \in Updates /\ ConfigSave(config)[2] \in Updates
      /\ ConfigSave(config)[3] \in Updates
  BY ConfigSaveType DEF ConfigSave, Memory
<1> QED
  BY <1>1, RestOfThree

LEMMA ResultRest ==
  ASSUME Loaded \in Memory, NEW result \in Stored, NEW rest \in Rests(ResultSave(result))
  PROVE  rest \in Seq(Updates) /\ rest # << >>
<1>1. /\ ResultSave(result)
           = <<ResultSave(result)[1], ResultSave(result)[2], ResultSave(result)[3]>>
      /\ ResultSave(result)[1] \in Updates /\ ResultSave(result)[2] \in Updates
      /\ ResultSave(result)[3] \in Updates
  BY ResultSaveType DEF ResultSave, Memory
<1> QED
  BY <1>1, RestOfThree

LEMMA RingRest ==
  ASSUME eeprom \in Eeprom, StoresInv, NEW count \in Count, NEW rest \in Rests(RingSave(count))
  PROVE  rest \in Seq(Updates) /\ rest # << >>
<1>1. /\ eeprom.ring \in [Place -> RecordOfRing] /\ RingInv(eeprom.ring)
      /\ RingSave(count) = RingWrites(eeprom.ring, RingPosition(eeprom.ring), count)
      /\ RingSave(count) # << >>
  BY LoadedParts DEF Eeprom, StoresInv, RingSave, Rests
<1>2. /\ RingSave(count) = <<RingSave(count)[1], RingSave(count)[2], RingSave(count)[3]>>
      /\ RingSave(count)[1] \in Updates /\ RingSave(count)[2] \in Updates
      /\ RingSave(count)[3] \in Updates
  BY <1>1, RingSaveType
<1> QED
  BY <1>2, RestOfThree

LEMMA PulsingWrite ==
  ASSUME TypeOK, StoresInv, Pulsing, Write
  PROVE  Outcome
<1>1. Loaded \in Memory
  BY LoadedType DEF TypeOK
<1>2. PICK count \in Count : count = (Loaded.count + 1) % CountLimit
  BY <1>1, NextCount
<1>3. PICK rest \in Rests(RingSave(count)) : rest = writes
  BY <1>2 DEF Pulsing
<1>4. ~Pending /\ ram = CountSaved(Loaded, count)
  BY <1>2 DEF Pulsing
<1>5. Reaches(Head(rest)) /\ writes' = Tail(rest) /\ ram' = ram
  BY <1>3, WriteReaches
<1>6. eeprom' \in Eeprom /\ StoresInv'
  BY <1>5, RingUpdate DEF TypeOK
<1>7. CASE /\ Tail(rest) \in Rests(RingSave(count)) /\ Loaded' = Loaded
           /\ RingSave(count)' = RingSave(count)
  <2>1. Pulsing'
    BY <1>2, <1>4, <1>5, <1>7 DEF Pulsing, Pending, RingSave
  <2> QED
    BY <1>6, <1>7, <2>1, NothingSeen DEF Outcome, OperationInv
<1>8. CASE Tail(rest) = << >> /\ Loaded' = CountSaved(Loaded, count)
  <2>1. /\ Loaded'.count = count /\ Loaded'.config = Loaded.config
        /\ Loaded'.result = Loaded.result
    BY <1>1, <1>8, SavedFields
  <2>2. Resting'
    BY <1>4, <1>5, <1>8, <2>1 DEF Resting, Pending
  <2> QED
    BY <1>2, <1>4, <1>6, <2>1, <2>2, SeenPulse DEF Outcome, OperationInv
<1> QED
  BY <1>5, <1>7, <1>8, RingUpdate DEF TypeOK

LEMMA ProvisioningWrite ==
  ASSUME TypeOK, StoresInv, Provisioning, Write
  PROVE  Outcome
<1>1. Loaded \in Memory
  BY LoadedType DEF TypeOK
<1>2. PICK join \in Join :
        LET config == [state |-> "Provisional", join |-> join] IN
        ram = ConfigSaved(Loaded, config) /\ writes \in Rests(ConfigSave(config))
  BY DEF Provisioning
<1>3. PICK config \in Config : config = [state |-> "Provisional", join |-> join]
  BY DEF Config
<1>4. PICK rest \in Rests(ConfigSave(config)) : rest = writes
  BY <1>2, <1>3
<1>5. ~Pending /\ Loaded.config = Unconfigured /\ config.state = "Provisional"
  BY <1>3 DEF Provisioning
<1>6. Reaches(Head(rest)) /\ writes' = Tail(rest) /\ ram' = ram
  BY <1>4, WriteReaches
<1>7. /\ eeprom' \in Eeprom /\ StoresInv' /\ eeprom'.ring = eeprom.ring
      /\ \/ Tail(rest) \in Rests(ConfigSave(config)) /\ Loaded' = Loaded
         \/ Tail(rest) = << >> /\ Loaded' = ConfigSaved(Loaded, config)
  BY <1>5, <1>6, ConfigUpdate DEF TypeOK
<1>8. CASE Tail(rest) \in Rests(ConfigSave(config)) /\ Loaded' = Loaded
  <2>1. Provisioning'
    BY <1>2, <1>3, <1>5, <1>6, <1>8 DEF Provisioning, Pending, ConfigSave
  <2> QED
    BY <1>7, <1>8, <2>1, NothingSeen DEF Outcome, OperationInv
<1>9. CASE Tail(rest) = << >> /\ Loaded' = ConfigSaved(Loaded, config)
  <2>1. /\ Loaded'.config = config /\ Loaded'.result = Loaded.result
        /\ Loaded'.count = Loaded.count
    BY <1>1, <1>9, SavedFields
  <2>2. Resting'
    BY <1>2, <1>3, <1>5, <1>6, <1>9, <2>1 DEF Resting, Pending
  <2> QED
    BY <1>3, <1>5, <1>7, <2>1, <2>2, SeenProvision DEF Outcome, OperationInv
<1> QED
  BY <1>7, <1>8, <1>9

LEMMA ClearedType ==
  ASSUME Loaded \in Memory
  PROVE  ClearedResult \in Stored
BY DEF ClearedResult, Memory, Stored

LEMMA ClearingWrite ==
  ASSUME TypeOK, StoresInv, Clearing, Write
  PROVE  Outcome
<1>1. Loaded \in Memory
  BY LoadedType DEF TypeOK
<1>2. PICK result \in Stored : result = ClearedResult
  BY <1>1, ClearedType
<1>3. PICK rest \in Rests(ResultSave(result)) : rest = writes
  BY <1>2 DEF Clearing
<1>4. /\ Loaded.result.status = "Applied" /\ Loaded.config.state = "Active"
      /\ ram = ResultSaved(Loaded, result)
  BY <1>2 DEF Clearing
<1>5. Reaches(Head(rest)) /\ writes' = Tail(rest) /\ ram' = ram
  BY <1>3, WriteReaches
<1>6. /\ eeprom' \in Eeprom /\ StoresInv' /\ eeprom'.ring = eeprom.ring
      /\ \/ Tail(rest) \in Rests(ResultSave(result)) /\ Loaded' = Loaded
         \/ Tail(rest) = << >> /\ Loaded' = ResultSaved(Loaded, result)
  BY <1>5, ResultUpdate DEF TypeOK
<1>7. CASE Tail(rest) \in Rests(ResultSave(result)) /\ Loaded' = Loaded
  <2>1. Clearing'
    BY <1>2, <1>4, <1>5, <1>7 DEF Clearing, ResultSave, ClearedResult
  <2> QED
    BY <1>6, <1>7, <2>1, NothingSeen DEF Outcome, OperationInv
<1>8. CASE Tail(rest) = << >> /\ Loaded' = ResultSaved(Loaded, result)
  <2>1. /\ Loaded'.result = result /\ Loaded'.config = Loaded.config
        /\ Loaded'.count = Loaded.count
    BY <1>1, <1>8, SavedFields
  <2>2. Resting'
    BY <1>2, <1>4, <1>5, <1>8, <2>1 DEF Resting, Pending, ClearedResult
  <2> QED
    BY <1>2, <1>4, <1>6, <2>1, <2>2, SeenClearId DEF Outcome, OperationInv
<1> QED
  BY <1>6, <1>7, <1>8

LEMMA ActivatingWrite ==
  ASSUME TypeOK, StoresInv, Activating, Write
  PROVE  Outcome
<1>1. Loaded \in Memory
  BY LoadedType DEF TypeOK
<1>2. ~Pending /\ Loaded.config.state = "Provisional"
  BY DEF Activating
<1>3. PICK config \in Config : config = [Loaded.config EXCEPT !.state = "Active"]
  <2>1. Loaded.config \in Config
    BY <1>1, <1>2 DEF Memory, Unconfigured
  <2>2. \A c \in Config : [c EXCEPT !.state = "Active"] \in Config
    BY DEF Config
  <2> QED
    BY <2>1, <2>2
<1>4. config.state = "Active"
  BY <1>1, <1>2, <1>3 DEF Memory, Config, Unconfigured
<1>5. PICK rest \in Rests(ConfigSave(config)) :
        IF Loaded.result.commandId = 0
        THEN writes = rest /\ ram = ConfigSaved(Loaded, config)
        ELSE /\ writes = rest \o ResultSave(ClearedResult)
             /\ ram = ResultSaved(ConfigSaved(Loaded, config), ClearedResult)
  BY <1>3 DEF Activating
<1>6. /\ ResultSave(ClearedResult) \in Seq(Updates) /\ ResultSave(ClearedResult) # << >>
  BY <1>1, ClearedType, ResultSaveType DEF ResultSave, Memory
<1>8. rest \in Seq(Updates) /\ rest # << >>
  BY <1>1, ConfigRest
<1>9. /\ Head(writes) = Head(rest)
      /\ Loaded.result.commandId = 0 => writes' = Tail(rest)
      /\ Loaded.result.commandId # 0 => writes' = Tail(rest) \o ResultSave(ClearedResult)
  BY <1>5, <1>6, <1>8, HeadTailConcat, WriteReaches
<1>10. Reaches(Head(rest)) /\ ram' = ram
  BY <1>9, WriteReaches
<1>11. /\ eeprom' \in Eeprom /\ StoresInv' /\ eeprom'.ring = eeprom.ring
       /\ \/ Tail(rest) \in Rests(ConfigSave(config)) /\ Loaded' = Loaded
          \/ Tail(rest) = << >> /\ Loaded' = ConfigSaved(Loaded, config)
  BY <1>2, <1>4, <1>10, ConfigUpdate DEF TypeOK
<1>12. CASE Tail(rest) \in Rests(ConfigSave(config)) /\ Loaded' = Loaded
  <2>1. Activating'
    BY <1>2, <1>3, <1>5, <1>9, <1>10, <1>12
       DEF Activating, Pending, ConfigSave, ResultSave, ClearedResult
  <2> QED
    BY <1>11, <1>12, <2>1, NothingSeen DEF Outcome, OperationInv
<1>13. CASE Tail(rest) = << >> /\ Loaded' = ConfigSaved(Loaded, config)
  <2>1. /\ Loaded'.config = config /\ Loaded'.result = Loaded.result
        /\ Loaded'.count = Loaded.count /\ Loaded'.resultAt = Loaded.resultAt
    BY <1>1, <1>13, SavedFields
  <2>2. Registers!Next
    BY <1>2, <1>3, <2>1, SeenActivate
  <2>3. CASE Loaded.result.commandId = 0
    <3>1. Resting'
      BY <1>2, <1>5, <1>9, <1>10, <1>13, <2>1, <2>3 DEF Resting, Pending
    <3> QED
      BY <1>11, <2>2, <3>1 DEF Outcome, OperationInv
  <2>4. CASE Loaded.result.commandId # 0
    <3>1. Loaded.result.status = "Applied"
      BY <1>1, <1>2, <2>4 DEF Memory, NoResult, Stored, Pending
    <3>2. writes' = ResultSave(ClearedResult)
      BY <1>6, <1>9, <1>13, <2>4, ConcatEmptySeq
    <3>3. ResultSave(ClearedResult) \in Rests(ResultSave(ClearedResult))
      BY <1>6 DEF Rests
    <3>4. Clearing'
      BY <1>4, <1>5, <1>10, <1>13, <2>1, <2>4, <3>1, <3>2, <3>3
         DEF Clearing, ResultSave, ClearedResult
    <3> QED
      BY <1>11, <2>2, <3>4 DEF Outcome, OperationInv
  <2> QED
    BY <2>3, <2>4
<1> QED
  BY <1>11, <1>12, <1>13

LEMMA AppliedType ==
  ASSUME NEW result \in Stored
  PROVE  /\ Applied(result) \in Stored /\ Applied(result).status = "Applied"
         /\ Applied(result).new = result.new
BY DEF Applied, Stored

\* What is left of a completion whose count is saved, or is the newest already.
LEMMA CompletionType ==
  ASSUME eeprom \in Eeprom, StoresInv, NEW result \in Stored,
         NEW m \in Memory, m.ringAt = RingPosition(eeprom.ring)
  PROVE  /\ RingSave(result.new) \in Seq(Updates)
         /\ RingWrites(eeprom.ring, m.ringAt, result.new) = RingSave(result.new)
         /\ SlotWrites("result", m.resultAt, Applied(result)) \in Seq(Updates)
         /\ SlotWrites("result", m.resultAt, Applied(result)) # << >>
         /\ CompletionWrites(eeprom.ring, m, result)
              = RingSave(result.new) \o SlotWrites("result", m.resultAt, Applied(result))
         /\ CompletionWrites(eeprom.ring, m, result) \in Seq(Updates)
<1>1. eeprom.ring \in [Place -> RecordOfRing] /\ RingInv(eeprom.ring)
  BY DEF Eeprom, StoresInv
<1>2. result.new \in Count /\ m.resultAt \in Positions
  BY DEF Stored, Memory
<1>3. RingWrites(eeprom.ring, m.ringAt, result.new) = RingSave(result.new)
  BY LoadedParts DEF RingSave
<1>4. RingSave(result.new) \in Seq(Updates)
  BY <1>1, <1>2, <1>3, RingSaveType
<1>5. /\ SlotWrites("result", m.resultAt, Applied(result)) \in Seq(Updates)
      /\ SlotWrites("result", m.resultAt, Applied(result)) # << >>
  BY <1>2, AppliedType, ResultSaveType
<1>6. CompletionWrites(eeprom.ring, m, result)
        = RingSave(result.new) \o SlotWrites("result", m.resultAt, Applied(result))
  BY <1>3 DEF CompletionWrites
<1> QED
  BY <1>3, <1>4, <1>5, <1>6, ConcatProperties

\* A Pending result is completed whatever the ring already holds.
CompletionDue ==
  /\ eeprom \in Eeprom /\ StoresInv /\ Pending
  /\ writes = CompletionWrites(eeprom.ring, Loaded, Loaded.result)
  /\ ram = Completed(Loaded, Loaded.result)

LEMMA CompletionStarts == CompletionDue => Completing
<1> SUFFICES ASSUME CompletionDue PROVE Completing
  OBVIOUS
<1> USE DEF CompletionDue
<1>1. Loaded \in Memory /\ Loaded.ringAt = RingPosition(eeprom.ring)
  BY LoadedType, LoadedParts
<1>2. PICK result \in Stored : result = Loaded.result
  BY <1>1 DEF Memory, NoResult, Pending
<1>3. /\ writes = RingSave(result.new) \o ResultSave(Applied(result))
      /\ ResultSave(Applied(result)) \in Seq(Updates) /\ ResultSave(Applied(result)) # << >>
  BY <1>1, <1>2, CompletionType DEF ResultSave
<1>4. CASE RingSave(result.new) = << >>
  <2>1. writes = ResultSave(Applied(result))
    BY <1>3, <1>4, ConcatEmptySeq
  <2>2. writes \in Rests(ResultSave(Applied(result)))
    BY <1>3, <2>1 DEF Rests
  <2> QED
    BY <1>2, <1>4, <2>2 DEF Completing
<1>5. CASE RingSave(result.new) # << >>
  <2>1. RingSave(result.new) \in Rests(RingSave(result.new))
    BY <1>5 DEF Rests
  <2> QED
    BY <1>2, <1>3, <2>1 DEF Completing
<1> QED
  BY <1>4, <1>5

LEMMA CompletionStartsNext == CompletionDue' => Completing'
BY CompletionStarts, PTL

LEMMA AcceptingWrite ==
  ASSUME TypeOK, StoresInv, Accepting, Write
  PROVE  Outcome
<1>1. Loaded \in Memory
  BY LoadedType DEF TypeOK
<1>2. PICK id \in CommandId, value \in Count :
        LET result == [status |-> "Pending", commandId |-> id, old |-> Loaded.count,
                       new |-> value]
            saved == ResultSaved(Loaded, result)
        IN
        /\ id # Loaded.result.commandId
        /\ ram = Completed(saved, result)
        /\ \E rest \in Rests(ResultSave(result)) :
             writes = rest \o CompletionWrites(eeprom.ring, saved, result)
  BY DEF Accepting
<1>3. PICK result \in Stored :
        result = [status |-> "Pending", commandId |-> id, old |-> Loaded.count, new |-> value]
  BY <1>1 DEF Memory, Stored
<1>4. PICK saved \in Memory : saved = ResultSaved(Loaded, result)
  BY <1>1, SavedType
<1>5. ~Pending /\ Loaded.config.state = "Active"
  BY DEF Accepting
<1>6. PICK rest \in Rests(ResultSave(result)) :
        writes = rest \o CompletionWrites(eeprom.ring, saved, result)
  BY <1>2, <1>3, <1>4
<1>7. ram = Completed(saved, result) /\ id # Loaded.result.commandId
  BY <1>2, <1>3, <1>4
<1>8. CompletionWrites(eeprom.ring, saved, result) \in Seq(Updates)
  <2>1. saved.ringAt = RingPosition(eeprom.ring)
    BY <1>1, <1>4, SavedFields, LoadedParts
  <2> QED
    BY <2>1, CompletionType DEF TypeOK
<1>10. rest \in Seq(Updates) /\ rest # << >>
  BY <1>1, ResultRest
<1>11. /\ Reaches(Head(rest)) /\ ram' = ram
       /\ writes' = Tail(rest) \o CompletionWrites(eeprom.ring, saved, result)
  BY <1>6, <1>8, <1>10, HeadTailConcat, WriteReaches
<1>12. /\ eeprom' \in Eeprom /\ StoresInv' /\ eeprom'.ring = eeprom.ring
       /\ \/ Tail(rest) \in Rests(ResultSave(result)) /\ Loaded' = Loaded
          \/ Tail(rest) = << >> /\ Loaded' = ResultSaved(Loaded, result)
  BY <1>11, ResultUpdate DEF TypeOK
<1>13. CASE Tail(rest) \in Rests(ResultSave(result)) /\ Loaded' = Loaded
  <2>1. Accepting'
    BY <1>3, <1>4, <1>5, <1>7, <1>11, <1>12, <1>13 DEF Accepting, Pending, ResultSave
  <2> QED
    BY <1>12, <1>13, <2>1, NothingSeen DEF Outcome, OperationInv
<1>14. CASE Tail(rest) = << >> /\ Loaded' = ResultSaved(Loaded, result)
  <2>1. /\ Loaded'.result = result /\ Loaded'.config = Loaded.config
        /\ Loaded'.count = Loaded.count
    BY <1>1, <1>14, SavedFields
  <2>2. writes' = CompletionWrites(eeprom.ring, saved, result)
    BY <1>8, <1>11, <1>14, ConcatEmptySeq
  <2>3. Pending'
    BY <1>3, <2>1 DEF Pending
  <2>4. Loaded' = saved /\ Loaded'.result = result
    BY <1>4, <1>14, <2>1
  <2>5. CompletionDue'
    BY <1>7, <1>11, <1>12, <2>2, <2>3, <2>4 DEF CompletionDue
  <2>6. Completing'
    BY <2>5, CompletionStartsNext
  <2> QED
    BY <1>3, <1>5, <1>7, <1>12, <2>1, <2>6, SeenAccept DEF Outcome, OperationInv
<1> QED
  BY <1>12, <1>13, <1>14

LEMMA CompletingWrite ==
  ASSUME TypeOK, StoresInv, Completing, Write
  PROVE  Outcome
<1>1. Loaded \in Memory /\ Loaded.ringAt = RingPosition(eeprom.ring)
      /\ Loaded.count = Loaded.ringAt.count
  BY LoadedType, LoadedParts DEF TypeOK
<1>2. Pending
  BY DEF Completing
<1>3. PICK result \in Stored : result = Loaded.result
  BY <1>1, <1>2 DEF Memory, NoResult, Pending
<1>4. PICK done \in Stored : done = Applied(result)
  BY AppliedType
<1>5. result.new \in Count /\ done.status = "Applied"
  BY <1>4, AppliedType DEF Stored
<1>6. /\ ram = ResultSaved(CountSaved(Loaded, result.new), done)
      /\ \/ \E rest \in Rests(RingSave(result.new)) : writes = rest \o ResultSave(done)
         \/ RingSave(result.new) = << >> /\ writes \in Rests(ResultSave(done))
  BY <1>3, <1>4 DEF Completing, Completed
<1>7. ResultSave(done) \in Seq(Updates) /\ ResultSave(done) # << >>
  BY <1>1, ResultSaveType DEF ResultSave, Memory
<1>8. /\ eeprom.ring \in [Place -> RecordOfRing] /\ RingInv(eeprom.ring)
      /\ RingSave(result.new) = RingWrites(eeprom.ring, RingPosition(eeprom.ring), result.new)
  BY <1>1 DEF TypeOK, Eeprom, StoresInv, RingSave
<1>9. ASSUME NEW rest \in Rests(RingSave(result.new)), writes = rest \o ResultSave(done)
      PROVE  Outcome
  <2>1. rest \in Seq(Updates) /\ rest # << >>
    BY <1>5, <1>9, RingRest DEF TypeOK
  <2>2. Reaches(Head(rest)) /\ ram' = ram /\ writes' = Tail(rest) \o ResultSave(done)
    BY <1>7, <1>9, <2>1, HeadTailConcat, WriteReaches
  <2>3. /\ eeprom' \in Eeprom /\ StoresInv'
        /\ \/ /\ Tail(rest) \in Rests(RingSave(result.new)) /\ Loaded' = Loaded
              /\ RingSave(result.new)' = RingSave(result.new)
           \/ Tail(rest) = << >> /\ Loaded' = CountSaved(Loaded, result.new)
    BY <1>5, <2>2, RingUpdate DEF TypeOK
  <2>4. CASE /\ Tail(rest) \in Rests(RingSave(result.new)) /\ Loaded' = Loaded
             /\ RingSave(result.new)' = RingSave(result.new)
    <3>1. Completing'
      BY <1>2, <1>3, <1>4, <1>6, <2>2, <2>4
         DEF Completing, Completed, Pending, RingSave, ResultSave
    <3> QED
      BY <2>3, <2>4, <3>1, NothingSeen DEF Outcome, OperationInv
  <2>5. CASE Tail(rest) = << >> /\ Loaded' = CountSaved(Loaded, result.new)
    <3>1. /\ Loaded'.count = result.new /\ Loaded'.config = Loaded.config
          /\ Loaded'.result = Loaded.result /\ Loaded'.resultAt = Loaded.resultAt
          /\ Loaded'.ringAt = RingAfter(Loaded.ringAt, result.new)
      BY <1>1, <2>5, SavedFields
    <3>2. writes' = ResultSave(done)
      BY <1>7, <2>2, <2>5, ConcatEmptySeq
    <3>3. CountSaved(Loaded', result.new) = CountSaved(Loaded, result.new)
      BY <1>1, <1>5, <2>5, CountSavedTwice
    <3>4. RingWrites(eeprom'.ring, Loaded'.ringAt, result.new) = << >>
      <4>1. Loaded'.ringAt.has /\ Loaded'.ringAt.count = result.new
        BY <3>1 DEF RingAfter
      <4> QED
        BY <4>1 DEF RingWrites
    <3>5. ResultSave(done) \in Rests(ResultSave(done))
      BY <1>7 DEF Rests
    <3>6. Completing'
      BY <1>2, <1>3, <1>4, <1>6, <2>2, <3>1, <3>2, <3>3, <3>4, <3>5
         DEF Completing, Completed, Pending, RingSave, ResultSave
    <3> QED
      BY <1>2, <1>3, <2>3, <3>1, <3>6, SeenSetCount DEF Outcome, OperationInv
  <2> QED
    BY <2>3, <2>4, <2>5
<1>10. ASSUME RingSave(result.new) = << >>, NEW rest \in Rests(ResultSave(done)), writes = rest
       PROVE  Outcome
  <2>1. Reaches(Head(rest)) /\ ram' = ram /\ writes' = Tail(rest)
    BY <1>10, WriteReaches
  <2>2. /\ eeprom' \in Eeprom /\ StoresInv' /\ eeprom'.ring = eeprom.ring
        /\ \/ Tail(rest) \in Rests(ResultSave(done)) /\ Loaded' = Loaded
           \/ Tail(rest) = << >> /\ Loaded' = ResultSaved(Loaded, done)
    BY <2>1, ResultUpdate DEF TypeOK
  <2>3. CASE Tail(rest) \in Rests(ResultSave(done)) /\ Loaded' = Loaded
    <3>1. Completing'
      BY <1>2, <1>3, <1>4, <1>6, <1>10, <2>1, <2>2, <2>3
         DEF Completing, Completed, Pending, RingSave, ResultSave
    <3> QED
      BY <2>2, <2>3, <3>1, NothingSeen DEF Outcome, OperationInv
  <2>4. CASE Tail(rest) = << >> /\ Loaded' = ResultSaved(Loaded, done)
    <3>1. /\ Loaded'.result = done /\ Loaded'.config = Loaded.config
          /\ Loaded'.count = Loaded.count
      BY <1>1, <2>4, SavedFields
    <3>2. Loaded.ringAt.has /\ Loaded.count = result.new
      BY <1>1, <1>5, <1>8, <1>10, RingSaveType
    <3>3. CountSaved(Loaded, result.new) = Loaded
      BY <1>1, <3>2, CountSavedAlready
    <3>4. Resting'
      BY <1>5, <1>6, <2>1, <2>4, <3>1, <3>3 DEF Resting, Pending
    <3> QED
      BY <1>2, <1>3, <1>4, <2>2, <3>1, <3>2, <3>4, SeenFinish DEF Outcome, OperationInv
  <2> QED
    BY <2>2, <2>3, <2>4
<1> QED
  BY <1>6, <1>9, <1>10

\* Clearing slot A before slot B, a boot finds the newest configuration or none.
LEMMA InvalidateReached ==
  ASSUME eeprom \in Eeprom, StoresInv, NEW s \in Slot, Reaches(Invalidate(s)),
         s = 1 => ~eeprom.config[0].magic
  PROVE  /\ eeprom' \in Eeprom /\ StoresInv' /\ ~eeprom'.config[s].magic
         /\ s = 0 => eeprom'.config[1] = eeprom.config[1]
         /\ s = 1 => Loaded' = ConfigForgotten(Loaded)
         /\ Loaded' = Loaded \/ Loaded' = ConfigForgotten(Loaded)
<1> DEFINE slots == eeprom.config
           w == Invalidate(s)
<1>1. /\ slots \in [Slot -> SlotOf(Config)] /\ ConfigInv(slots) /\ Neighbours(slots)
      /\ Neighbours(eeprom.result) /\ RingInv(eeprom.ring)
  BY ConfigNeighbours DEF Eeprom, StoresInv
<1>2. slots[s].magic \in BOOLEAN /\ slots[s].body \in Body(Config) \cup {Torn}
  BY <1>1 DEF SlotOf
<1>3. [slots[s] EXCEPT !.magic = FALSE] = [magic |-> FALSE, body |-> slots[s].body]
  <2>1. PICK v : v = slots[s]
    OBVIOUS
  <2>2. PICK magic, body : v = [magic |-> magic, body |-> body]
    BY <1>1, <2>1 DEF SlotOf
  <2>3. PICK no : no = FALSE
    OBVIOUS
  <2>4. [v EXCEPT !.magic = no] = [magic |-> no, body |-> body] /\ v.body = body
    BY <2>2
  <2> QED
    BY <2>1, <2>3, <2>4
<1>4. /\ w \in Updates /\ w.store = "config" /\ w.place = s
      /\ w.contents = [magic |-> FALSE, body |-> slots[s].body] /\ Reaches(w)
  BY <1>2, <1>3 DEF Invalidate, Update, Updates, SlotOf
<1>5. /\ eeprom' \in Eeprom /\ eeprom'.result = eeprom.result /\ eeprom'.ring = eeprom.ring
      /\ eeprom'.config = [slots EXCEPT ![s] = [magic |-> FALSE, body |-> slots[s].body]]
  <2> HIDE DEF w
  <2> QED
    BY <1>4, ReachedStores
<1>6. /\ ~eeprom'.config[s].magic /\ ~Decodes(eeprom'.config[s])
      /\ \A t \in Slot : t # s => eeprom'.config[t] = slots[t]
  BY <1>1, <1>5 DEF Decodes
<1>7. ConfigInv(eeprom'.config)
  BY <1>1, <1>6 DEF ConfigInv, Slot
<1>8. StoresInv'
  BY <1>1, <1>5, <1>7 DEF StoresInv
<1>9. Loaded \in Memory
  BY LoadedType
<1>10. CASE s = 0 /\ Decodes(slots[1])
  <2>1. eeprom'.config[1] = slots[1] /\ 1 \in Slot /\ 1 - 1 = 0
    BY <1>6, <1>10 DEF Slot
  <2>2. 0 \in Generation /\ (0 + 1) % Generations = 1
    BY WrapAssumption, SmallMod DEF Generation
  <2>3. Decodes(slots[0]) =>
          /\ GenerationIsNewer(slots[1].body.generation, slots[0].body.generation)
          /\ ~GenerationIsNewer(slots[0].body.generation, slots[1].body.generation)
    BY <1>1, <1>10, <2>2, FollowingIsNewer DEF ConfigInv, Following
  <2>4. Position(slots) = At(slots, 1)
    BY <1>10, <2>1, <2>3, CurrentSlot
  <2>5. Position(eeprom'.config) = At(eeprom'.config, 1)
    BY <1>6, <1>10, <2>1, CurrentSlot
  <2>6. /\ Position(eeprom'.config) = Position(slots)
        /\ Value(eeprom'.config, Unconfigured) = Value(slots, Unconfigured)
    BY <2>1, <2>4, <2>5 DEF At, Value
  <2>7. Loaded' = Loaded
    BY <1>5, <2>6 DEF Loaded
  <2> QED
    BY <1>5, <1>6, <1>8, <1>10, <2>1, <2>7
<1>11. CASE ~(s = 0 /\ Decodes(slots[1]))
  <2>1. ~Decodes(eeprom'.config[0]) /\ ~Decodes(eeprom'.config[1])
    BY <1>6, <1>11 DEF Decodes, Slot
  <2>2. Position(eeprom'.config) = Nowhere /\ Value(eeprom'.config, Unconfigured) = Unconfigured
    <3>1. Position(eeprom'.config) = Nowhere
      BY <2>1, NoSlot
    <3>2. ~Nowhere.has
      BY DEF Nowhere
    <3> QED
      BY <3>1, <3>2 DEF Value
  <2>3. Loaded' = Holding(Unconfigured, Loaded.result, Loaded.count, Nowhere,
                          Loaded.resultAt, Loaded.ringAt)
    BY <1>5, <2>2, LoadedParts
  <2>4. Loaded' = ConfigForgotten(Loaded)
    BY <1>9, <2>3, ForgottenParts
  <2>5. s = 0 => eeprom'.config[1] = slots[1]
    BY <1>6 DEF Slot
  <2> QED
    BY <1>5, <1>6, <1>8, <2>4, <2>5
<1> QED
  BY <1>10, <1>11

LEMMA ForgottenFields ==
  ASSUME NEW m \in Memory
  PROVE  LET forgotten == ConfigForgotten(m) IN
         /\ forgotten \in Memory
         /\ forgotten.config = Unconfigured /\ forgotten.result = m.result
         /\ forgotten.count = m.count
         /\ ConfigForgotten(forgotten) = forgotten
<1> DEFINE forgotten == ConfigForgotten(m)
<1>1. forgotten = Holding(Unconfigured, m.result, m.count, Nowhere, m.resultAt, m.ringAt)
  BY ForgottenParts
<1>2. /\ m.result \in Stored \cup {NoResult} /\ m.count \in Count
      /\ m.resultAt \in Positions /\ m.ringAt \in RingPositions
  BY DEF Memory
<1>3. Nowhere \in Positions
  BY WrapAssumption DEF Nowhere, Positions, Slot, Generation
<1>4. forgotten \in Memory
  BY <1>1, <1>2, <1>3, HoldingType
<1>5. /\ forgotten.config = Unconfigured /\ forgotten.result = m.result
      /\ forgotten.count = m.count /\ forgotten.resultAt = m.resultAt
      /\ forgotten.ringAt = m.ringAt
  BY <1>1 DEF Holding
<1>6. ConfigForgotten(forgotten) = forgotten
  <2> HIDE DEF forgotten
  <2> QED
    BY <1>1, <1>4, <1>5, ForgottenParts
<1> QED
  BY <1>4, <1>5, <1>6

LEMMA ForgettingWrite ==
  ASSUME TypeOK, StoresInv, Forgetting, Write
  PROVE  Outcome
<1>1. Loaded \in Memory
  BY LoadedType DEF TypeOK
<1>2. ~Pending /\ ram = ConfigForgotten(Loaded)
  BY DEF Forgetting
<1>3. PICK s \in Slot :
        /\ writes = IF s = 0 THEN <<Invalidate(0), Invalidate(1)>> ELSE <<Invalidate(1)>>
        /\ s = 1 => ~eeprom.config[0].magic
  BY DEF Forgetting, ResetWrites, Slot
<1>4. /\ Reaches(Invalidate(s)) /\ ram' = ram
      /\ writes' = IF s = 0 THEN <<Invalidate(1)>> ELSE << >>
  <2>1. \A a, b : /\ Head(<<a, b>>) = a /\ Tail(<<a, b>>) = <<b>>
                  /\ Head(<<b>>) = b /\ Tail(<<b>>) = << >>
    OBVIOUS
  <2>2. Reaches(Head(writes)) /\ writes' = Tail(writes) /\ ram' = ram
    BY WriteReaches
  <2>3. CASE s = 0
    BY <1>3, <2>1, <2>2, <2>3
  <2>4. CASE s = 1
    BY <1>3, <2>1, <2>2, <2>4
  <2> QED
    BY <2>3, <2>4 DEF Slot
<1>5. /\ eeprom' \in Eeprom /\ StoresInv' /\ ~eeprom'.config[s].magic
      /\ s = 0 => eeprom'.config[1] = eeprom.config[1]
      /\ s = 1 => Loaded' = ConfigForgotten(Loaded)
      /\ Loaded' = Loaded \/ Loaded' = ConfigForgotten(Loaded)
  BY <1>3, <1>4, InvalidateReached DEF TypeOK
<1>6. /\ Loaded'.result = Loaded.result /\ Loaded'.count = Loaded.count
      /\ Loaded'.config \in {Loaded.config, Unconfigured}
      /\ ConfigForgotten(Loaded') = ConfigForgotten(Loaded)
  BY <1>1, <1>5, ForgottenFields
<1>7. Registers!Next \/ UNCHANGED Seen
  <2>1. CASE Loaded'.config = Loaded.config
    BY <1>6, <2>1 DEF Seen
  <2>2. CASE Loaded'.config = Unconfigured /\ Loaded.config # Unconfigured
    BY <1>6, <2>2, SeenForget
  <2> QED
    BY <1>6, <2>1, <2>2
<1>8. CASE s = 0
  <2>1. Invalidate(1)' = Invalidate(1)
    BY <1>5, <1>8 DEF Invalidate
  <2>2. Forgetting'
    BY <1>2, <1>4, <1>5, <1>6, <1>8, <2>1 DEF Forgetting, Pending
  <2> QED
    BY <1>5, <1>7, <2>2 DEF Outcome, OperationInv
<1>9. CASE s = 1
  <2>1. Resting'
    BY <1>2, <1>4, <1>5, <1>6, <1>9 DEF Resting, Pending
  <2> QED
    BY <1>5, <1>7, <2>1 DEF Outcome, OperationInv
<1> QED
  BY <1>8, <1>9 DEF Slot

LEMMA WriteOutcome ==
  ASSUME NodeInv, Write
  PROVE  Outcome /\ TypeOK'
<1>1. Outcome
  <2>1. ~Resting
    BY WriteReaches DEF Resting
  <2> QED
    BY <2>1, PulsingWrite, AcceptingWrite, CompletingWrite, ProvisioningWrite,
       ActivatingWrite, ClearingWrite, ForgettingWrite DEF NodeInv, OperationInv
<1>2. ram' \in Memory /\ writes' \in Seq(Updates)
  BY HeadTailProperties, WriteReaches DEF NodeInv, TypeOK
<1> QED
  BY <1>1, <1>2 DEF Outcome, TypeOK

-----------------------------------------------------------------------------
(* An operation starts when none is under way *)

\* Every operation under way has an update to make.
LEMMA IdleRests ==
  ASSUME NodeInv, Idle
  PROVE  Resting
<1>1. Loaded \in Memory /\ writes = << >> /\ eeprom \in Eeprom /\ StoresInv
  BY LoadedType DEF NodeInv, TypeOK, Idle
<1>2. ~Pulsing
  BY <1>1, NextCount, RingRest DEF Pulsing
<1>3. ~Provisioning
  <2>1. \A join \in Join : [state |-> "Provisional", join |-> join] \in Config
    BY DEF Config
  <2> QED
    BY <1>1, <2>1, ConfigRest DEF Provisioning
<1>4. ~Clearing
  BY <1>1, ClearedType, ResultRest DEF Clearing
<1>5. ~Activating
  <2> SUFFICES ASSUME Activating PROVE FALSE
    OBVIOUS
  <2>1. PICK config \in Config : config = [Loaded.config EXCEPT !.state = "Active"]
    <3>1. Loaded.config \in Config
      BY <1>1 DEF Memory, Unconfigured, Activating
    <3>2. \A c \in Config : [c EXCEPT !.state = "Active"] \in Config
      BY DEF Config
    <3> QED
      BY <3>1, <3>2
  <2>2. PICK rest \in Rests(ConfigSave(config)) :
          writes = rest \/ writes = rest \o ResultSave(ClearedResult)
    BY <2>1 DEF Activating
  <2>3. ResultSave(ClearedResult) \in Seq(Updates)
    BY <1>1, ClearedType, ResultSaveType DEF ResultSave, Memory
  <2> QED
    BY <1>1, <2>2, <2>3, ConfigRest, HeadTailConcat
<1>6. ~Accepting
  <2> SUFFICES ASSUME Accepting PROVE FALSE
    OBVIOUS
  <2>1. PICK id \in CommandId, value \in Count :
          LET result == [status |-> "Pending", commandId |-> id, old |-> Loaded.count,
                         new |-> value]
              saved == ResultSaved(Loaded, result)
          IN \E rest \in Rests(ResultSave(result)) :
               writes = rest \o CompletionWrites(eeprom.ring, saved, result)
    BY DEF Accepting
  <2>2. PICK result \in Stored :
          result = [status |-> "Pending", commandId |-> id, old |-> Loaded.count, new |-> value]
    BY <1>1 DEF Memory, Stored
  <2>3. PICK saved \in Memory : saved = ResultSaved(Loaded, result)
    BY <1>1, SavedType
  <2>4. saved.ringAt = RingPosition(eeprom.ring)
    BY <1>1, <2>3, SavedFields, LoadedParts
  <2>5. CompletionWrites(eeprom.ring, saved, result) \in Seq(Updates)
    BY <1>1, <2>4, CompletionType
  <2>6. \E rest \in Rests(ResultSave(result)) :
          writes = rest \o CompletionWrites(eeprom.ring, saved, result)
    BY <2>1, <2>2, <2>3
  <2> QED
    BY <1>1, <2>5, <2>6, ResultRest, HeadTailConcat
<1>7. ~Completing
  <2> SUFFICES ASSUME Completing PROVE FALSE
    OBVIOUS
  <2>1. PICK result \in Stored : result = Loaded.result
    BY <1>1 DEF Memory, NoResult, Pending, Completing
  <2>2. Applied(result) \in Stored /\ result.new \in Count
    BY AppliedType DEF Stored
  <2>3. ResultSave(Applied(result)) \in Seq(Updates)
    BY <1>1, <2>2, ResultSaveType DEF ResultSave, Memory
  <2>4. CASE \E rest \in Rests(RingSave(result.new)) :
               writes = rest \o ResultSave(Applied(result))
    BY <1>1, <2>2, <2>3, <2>4, RingRest, HeadTailConcat
  <2>5. CASE writes \in Rests(ResultSave(Applied(result)))
    BY <1>1, <2>2, <2>5, ResultRest
  <2> QED
    BY <2>1, <2>4, <2>5 DEF Completing
<1>8. ~Forgetting
  BY <1>1 DEF Forgetting, ResetWrites
<1> QED
  BY <1>2, <1>3, <1>4, <1>5, <1>6, <1>7, <1>8 DEF NodeInv, OperationInv

\* A step that reads the EEPROM and writes none of it.
Starts == eeprom' = eeprom /\ OperationInv' /\ ram' \in Memory /\ writes' \in Seq(Updates)

LEMMA SameLoaded ==
  ASSUME eeprom' = eeprom
  PROVE  /\ Loaded' = Loaded
         /\ StoresInv => StoresInv'
         /\ eeprom \in Eeprom => eeprom' \in Eeprom
BY DEF Loaded, StoresInv

LEMMA PulseStarts ==
  ASSUME NodeInv, Pulse
  PROVE  Starts
<1>1. /\ Loaded \in Memory /\ eeprom \in Eeprom /\ StoresInv /\ Resting
      /\ Loaded.ringAt = RingPosition(eeprom.ring) /\ Loaded.count = Loaded.ringAt.count
  BY LoadedType, LoadedParts, IdleRests DEF NodeInv, TypeOK, Pulse
<1>2. PICK count \in Count : count = (Loaded.count + 1) % CountLimit
  BY <1>1, NextCount
<1>3. /\ eeprom' = eeprom /\ Loaded' = Loaded /\ ~Pending
      /\ writes' = RingSave(count) /\ ram' = CountSaved(Loaded, count)
  BY <1>1, <1>2, SameLoaded DEF Resting, Pulse, RingSave
<1>4. writes' \in Seq(Updates) /\ ram' \in Memory
  BY <1>1, <1>3, RingSaveType, SavedType DEF Eeprom, StoresInv, RingSave
<1>5. CASE RingSave(count) = << >>
  <2>1. Loaded.ringAt.has /\ count = Loaded.count
    BY <1>1, <1>5, RingSaveType DEF Eeprom, StoresInv, RingSave
  <2>2. ram' = Loaded
    BY <1>1, <1>3, <2>1, CountSavedAlready
  <2>3. Resting'
    BY <1>3, <1>5, <2>2 DEF Resting, Pending
  <2> QED
    BY <1>3, <1>4, <2>3 DEF Starts, OperationInv
<1>6. CASE RingSave(count) # << >>
  <2>1. RingSave(count) \in Rests(RingSave(count))
    BY <1>6 DEF Rests
  <2>2. Pulsing'
    BY <1>2, <1>3, <2>1 DEF Pulsing, Pending, RingSave
  <2> QED
    BY <1>3, <1>4, <2>2 DEF Starts, OperationInv
<1> QED
  BY <1>5, <1>6

LEMMA ApplyStarts ==
  ASSUME NodeInv, NEW id \in CommandId, NEW value \in Count, ApplyCommand(id, value)
  PROVE  Starts
<1>1. /\ Loaded \in Memory /\ eeprom \in Eeprom /\ StoresInv /\ Resting
      /\ Loaded.ringAt = RingPosition(eeprom.ring)
  BY LoadedType, LoadedParts, IdleRests DEF NodeInv, TypeOK, ApplyCommand
<1>2. PICK result \in Stored :
        result = [status |-> "Pending", commandId |-> id, old |-> Loaded.count, new |-> value]
  BY <1>1 DEF Memory, Stored
<1>3. PICK saved \in Memory : saved = ResultSaved(Loaded, result)
  BY <1>1, SavedType
<1>4. /\ eeprom' = eeprom /\ Loaded' = Loaded /\ ~Pending
      /\ Loaded.config.state = "Active" /\ id # Loaded.result.commandId
      /\ writes' = ResultSave(result) \o CompletionWrites(eeprom.ring, saved, result)
      /\ ram' = Completed(saved, result)
  BY <1>1, <1>2, <1>3, SameLoaded DEF Resting, ApplyCommand, ResultSave
<1>5. /\ CompletionWrites(eeprom.ring, saved, result) \in Seq(Updates)
      /\ ResultSave(result) \in Seq(Updates) /\ ResultSave(result) # << >>
  <2>1. saved.ringAt = RingPosition(eeprom.ring)
    BY <1>1, <1>3, SavedFields
  <2> QED
    BY <1>1, <2>1, CompletionType, ResultSaveType DEF ResultSave, Memory
<1>6. writes' \in Seq(Updates) /\ ram' \in Memory
  <2>1. result.new \in Count /\ Applied(result) \in Stored
    BY AppliedType DEF Stored
  <2> QED
    BY <1>4, <1>5, <2>1, SavedType, ConcatProperties DEF Completed
<1>7. ResultSave(result) \in Rests(ResultSave(result))
  BY <1>5 DEF Rests
<1>8. Accepting'
  BY <1>2, <1>3, <1>4, <1>7 DEF Accepting, Pending, ResultSave
<1> QED
  BY <1>4, <1>6, <1>8 DEF Starts, OperationInv

LEMMA ProvisionStarts ==
  ASSUME NodeInv, NEW join \in Join, Provision(join)
  PROVE  Starts
<1>1. Loaded \in Memory /\ Resting
  BY LoadedType, IdleRests DEF NodeInv, TypeOK, Provision
<1>2. PICK config \in Config : config = [state |-> "Provisional", join |-> join]
  BY DEF Config
<1>3. /\ eeprom' = eeprom /\ Loaded' = Loaded /\ ~Pending /\ Loaded.config = Unconfigured
      /\ writes' = ConfigSave(config) /\ ram' = ConfigSaved(Loaded, config)
  BY <1>1, <1>2, SameLoaded DEF Resting, Provision, ConfigSave
<1>4. ConfigSave(config) \in Seq(Updates) /\ ConfigSave(config) # << >>
  BY <1>1, ConfigSaveType DEF ConfigSave, Memory
<1>5. ConfigSave(config) \in Rests(ConfigSave(config))
  BY <1>4 DEF Rests
<1>6. Provisioning'
  BY <1>2, <1>3, <1>5 DEF Provisioning, Pending, ConfigSave
<1> QED
  BY <1>1, <1>3, <1>4, <1>6, SavedType DEF Starts, OperationInv

LEMMA ActivateStarts ==
  ASSUME NodeInv, Activate
  PROVE  Starts
<1>1. Loaded \in Memory /\ Resting
  BY LoadedType, IdleRests DEF NodeInv, TypeOK, Activate
<1>2. PICK config \in Config : config = [Loaded.config EXCEPT !.state = "Active"]
  <2>1. Loaded.config \in Config
    BY <1>1 DEF Memory, Unconfigured, Resting, Activate
  <2>2. \A c \in Config : [c EXCEPT !.state = "Active"] \in Config
    BY DEF Config
  <2> QED
    BY <2>1, <2>2
<1>3. /\ eeprom' = eeprom /\ Loaded' = Loaded /\ ~Pending
      /\ Loaded.config.state = "Provisional"
      /\ IF Loaded.result.commandId = 0
         THEN writes' = ConfigSave(config) /\ ram' = ConfigSaved(Loaded, config)
         ELSE /\ writes' = ConfigSave(config) \o ResultSave(ClearedResult)
              /\ ram' = ResultSaved(ConfigSaved(Loaded, config), ClearedResult)
  BY <1>1, <1>2, SameLoaded
     DEF Resting, Activate, ConfigSave, ResultSave, Cleared, ClearedResult
<1>4. /\ ConfigSave(config) \in Seq(Updates) /\ ConfigSave(config) # << >>
      /\ ResultSave(ClearedResult) \in Seq(Updates)
  BY <1>1, ClearedType, ConfigSaveType, ResultSaveType DEF ConfigSave, ResultSave, Memory
<1>5. writes' \in Seq(Updates) /\ ram' \in Memory
  BY <1>1, <1>3, <1>4, ClearedType, SavedType, ConcatProperties
<1>6. ConfigSave(config) \in Rests(ConfigSave(config))
  BY <1>4 DEF Rests
<1>7. Activating'
  BY <1>2, <1>3, <1>6 DEF Activating, Pending, ConfigSave, ResultSave, ClearedResult
<1> QED
  BY <1>3, <1>5, <1>7 DEF Starts, OperationInv

LEMMA ResetNetworkStarts ==
  ASSUME NodeInv, ResetNetwork
  PROVE  Starts
<1>1. Loaded \in Memory /\ Resting /\ eeprom.config \in [Slot -> SlotOf(Config)]
  BY LoadedType, IdleRests DEF NodeInv, TypeOK, ResetNetwork, Eeprom
<1>2. /\ eeprom' = eeprom /\ Loaded' = Loaded /\ ~Pending
      /\ writes' = ResetWrites /\ ram' = ConfigForgotten(Loaded)
  BY <1>1, SameLoaded DEF Resting, ResetNetwork
<1>3. ResetWrites \in Seq(Updates)
  <2>1. \A s \in Slot : Invalidate(s) \in Updates
    BY <1>1 DEF Invalidate, Update, Updates, SlotOf
  <2>2. \A a, b \in Updates : <<a, b>> \in Seq(Updates)
    OBVIOUS
  <2> QED
    BY <2>1, <2>2 DEF ResetWrites, Slot
<1>4. ResetWrites' = ResetWrites
  BY <1>2 DEF ResetWrites, Invalidate
<1>5. Forgetting'
  BY <1>2, <1>4 DEF Forgetting, Pending
<1> QED
  BY <1>1, <1>2, <1>3, <1>5, ForgottenFields DEF Starts, OperationInv

LEMMA ResetStarts ==
  ASSUME NodeInv, Reset
  PROVE  Starts
<1>1. /\ Loaded \in Memory /\ eeprom \in Eeprom /\ StoresInv
      /\ Loaded.ringAt = RingPosition(eeprom.ring)
  BY LoadedType, LoadedParts DEF NodeInv, TypeOK
<1>2. eeprom' = eeprom /\ Loaded' = Loaded /\ StoresInv' /\ Boot
  BY <1>1, SameLoaded DEF Reset
<1>3. CASE Pending
  <2>1. PICK result \in Stored : result = Loaded.result
    BY <1>1, <1>3 DEF Memory, NoResult, Pending
  <2>2. /\ writes' = CompletionWrites(eeprom.ring, Loaded, result)
        /\ ram' = Completed(Loaded, result)
    BY <1>2, <1>3, <2>1 DEF Boot, Pending
  <2>3. CompletionDue'
    BY <1>1, <1>2, <1>3, <2>1, <2>2 DEF CompletionDue, Pending
  <2>4. writes' \in Seq(Updates)
    BY <1>1, <2>2, CompletionType
  <2>5. ram' \in Memory
    <3>1. result.new \in Count /\ Applied(result) \in Stored
      BY AppliedType DEF Stored
    <3> QED
      BY <1>1, <2>2, <3>1, SavedType DEF Completed
  <2> QED
    BY <1>2, <2>3, <2>4, <2>5, CompletionStartsNext DEF Starts, OperationInv
<1>4. CASE ~Pending
  <2>1. writes' = << >> /\ ram' = Loaded
    BY <1>2, <1>4 DEF Boot, Pending
  <2>2. Resting'
    BY <1>2, <1>4, <2>1 DEF Resting, Pending
  <2> QED
    BY <1>1, <1>2, <2>1, <2>2, EmptySeq DEF Starts, OperationInv
<1> QED
  BY <1>3, <1>4

-----------------------------------------------------------------------------
(* Theorems *)

LEMMA InitHolds ==
  ASSUME Init
  PROVE  NodeInv /\ Registers!Init
<1>1. eeprom \in Eeprom
  BY DEF Init, Eeprom, SlotOf, RecordOfRing
<1>2. /\ ~Decodes(eeprom.config[0]) /\ ~Decodes(eeprom.config[1])
      /\ ~Decodes(eeprom.result[0]) /\ ~Decodes(eeprom.result[1]) /\ Blank(eeprom.ring)
  BY DEF Init, Decodes, Slot, Blank
<1>3. StoresInv
  BY <1>2 DEF StoresInv, ConfigInv, Neighbours, RingInv
<1>4. /\ Position(eeprom.config) = Nowhere /\ Position(eeprom.result) = Nowhere
      /\ RingPosition(eeprom.ring) = NoRecord
  BY <1>2, NoSlot, BlankPosition
<1>5. ~Nowhere.has /\ NoRecord.count = 0
  BY DEF Nowhere, NoRecord
<1>6. /\ Loaded.config = Unconfigured /\ Loaded.result = NoResult /\ Loaded.count = 0
  BY <1>4, <1>5, LoadedParts DEF Value
<1>7. TypeOK
  BY <1>1, <1>3, LoadedType, EmptySeq DEF Init, TypeOK
<1>8. Resting
  BY <1>6 DEF Init, Resting, Pending, NoResult
<1>9. Registers!Init
  BY <1>6, LoadedParts
     DEF Registers!Init, Registers!Unconfigured, Registers!NoResult, Unconfigured, NoResult
<1> QED
  BY <1>3, <1>7, <1>8, <1>9 DEF NodeInv, OperationInv

LEMMA StepHolds ==
  ASSUME NodeInv, [Next]_vars
  PROVE  NodeInv' /\ (Registers!Next \/ UNCHANGED Seen)
<1>1. CASE Write
  BY <1>1, WriteOutcome DEF Outcome, NodeInv
<1>2. ASSUME Starts
      PROVE  NodeInv' /\ UNCHANGED Seen
  BY <1>2, SameLoaded, NothingSeen DEF Starts, NodeInv, TypeOK
<1>3. CASE Next /\ ~Write
  <2>1. Starts
    BY <1>3, ResetStarts, PulseStarts, ApplyStarts, ProvisionStarts, ActivateStarts,
       ResetNetworkStarts DEF Next
  <2> QED
    BY <1>2, <2>1
<1>4. CASE UNCHANGED vars
  <2>1. eeprom' = eeprom /\ ram' = ram /\ writes' = writes /\ Loaded' = Loaded
    BY <1>4, SameLoaded DEF vars
  <2>2. TypeOK' /\ StoresInv'
    BY <2>1, SameLoaded DEF NodeInv, TypeOK
  <2>3. /\ Resting => Resting'
        /\ Pulsing => Pulsing'
        /\ Completing => Completing'
    BY <2>1 DEF Resting, Pulsing, Completing, Pending, RingSave, ResultSave
  <2>4. Accepting => Accepting'
    BY <2>1 DEF Accepting, Pending, ResultSave
  <2>5. /\ Provisioning => Provisioning'
        /\ Clearing => Clearing'
    BY <2>1 DEF Provisioning, Clearing, Pending, ConfigSave, ResultSave, ClearedResult
  <2>6. Activating => Activating'
    BY <2>1 DEF Activating, Pending, ConfigSave, ResultSave, ClearedResult
  <2>7. Forgetting => Forgetting'
    BY <2>1 DEF Forgetting, Pending, ResetWrites, Invalidate
  <2>8. OperationInv'
    BY <2>3, <2>4, <2>5, <2>6, <2>7 DEF NodeInv, OperationInv
  <2>9. UNCHANGED Seen
    BY <2>1, NothingSeen
  <2> QED
    BY <2>2, <2>8, <2>9 DEF NodeInv
<1> QED
  BY <1>1, <1>3, <1>4

\* Between any two updates the stores are consistent and RAM holds what they will
\* hold when the operation under way has made its last one (NodeStorage.h,
\* CounterStorage.h).
THEOREM NodeInvariance == Spec => []NodeInv
<1>1. Init => NodeInv
  BY InitHolds
<1>2. NodeInv /\ [Next]_vars => NodeInv'
  BY StepHolds
<1> QED
  BY <1>1, <1>2, PTL DEF Spec

\* Slots, records, positions and updates keep their types.
THEOREM EepromTypeOK == Spec => []TypeOK
<1>1. NodeInv => TypeOK
  BY DEF NodeInv
<1> QED
  BY <1>1, NodeInvariance, PTL

\* Whatever was saved or cut off before, the stores' RAM is what load() finds when
\* no save is under way.
THEOREM ResetsAreInvisible == Spec => []ResetIsInvisible
<1>1. NodeInv => ResetIsInvisible
  BY IdleRests DEF ResetIsInvisible, Resting
<1> QED
  BY <1>1, NodeInvariance, PTL

\* For any number of generations, sequences and records that wraps as the code
\* requires, saves that resets cut anywhere add up to registers written at once: a
\* boot finds the old value or the new one, and no older one ever comes back.
THEOREM EepromImplementsRegisters == Spec => ImplementsRegisters
<1>1. Init => Registers!Init
  BY InitHolds
<1>2. NodeInv /\ [Next]_vars
        => [Registers!Next]_<<Value(eeprom.config, Unconfigured), Value(eeprom.result, NoResult),
                              RingPosition(eeprom.ring).count>>
  BY StepHolds, SeenIs DEF Seen
<1> QED
  BY <1>1, <1>2, NodeInvariance, PTL DEF Spec, ImplementsRegisters, Registers!Spec

=============================================================================
