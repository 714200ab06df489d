------------------------ MODULE GatewayAccountsProofs ------------------------
(***************************************************************************)
(* The dual-slot store loads what was visible or the write that failed     *)
(* since, for any number of generations; and what GatewayAccounts builds   *)
(* on it: setup is whole, the radio's key is durable until a network reset *)
(* replaces it, and every session is that of an enabled user as he is now. *)
(***************************************************************************)
EXTENDS GatewayAccounts, SequenceTheorems, FiniteSetTheorems, WellFoundedInduction, TLAPS

Content(values) == [generation : Generation, value : values]

Following(g) == IF g = Generations - 1 THEN 0 ELSE g + 1

\* What the save before the last one left: an older generation, or one that was
\* reported as failed.
Neighbours(g, h) == g = Following(h) \/ h = Following(g)

\* A store: the active slot holds what RAM holds, the other one its neighbour.
StoreInv(store, values) ==
  /\ store \in StoreOf(values)
  /\ store.active = -1 =>
       /\ store.generation = 0 /\ ~Decodes(store.slots[1])
       /\ Decodes(store.slots[0]) => store.slots[0].generation = 1
  /\ \A s \in Slot : store.active = s =>
       /\ store.slots[s] = [generation |-> store.generation, value |-> store.value]
       /\ Decodes(store.slots[1 - s]) =>
            Neighbours(store.slots[1 - s].generation, store.generation)

-----------------------------------------------------------------------------
(* The store *)

\* Generations wrap.
LEMMA FollowingIsNext ==
  ASSUME NEW g \in Generation
  PROVE  (g + 1) % Generations = Following(g) /\ Following(g) \in Generation
BY GenerationsAssumption DEF Generation, Following

\* The next generation is newer, and not the other way round.
LEMMA FollowingIsNewer ==
  ASSUME NEW g \in Generation
  PROVE  IsNewer(Following(g), g) /\ ~IsNewer(g, Following(g))
BY GenerationsAssumption DEF Generation, Following, IsNewer

LEMMA ContentDecodes ==
  ASSUME NEW values, MarksApart(values), NEW content \in Content(values)
  PROVE  Decodes(content)
BY DEF MarksApart, Decodes, Content

LEMMA StoreTypes ==
  ASSUME NEW values, NEW store, StoreInv(store, values)
  PROVE  /\ store.active \in {-1, 0, 1} /\ store.generation \in Generation
         /\ store.value \in values
         /\ \A s \in Slot : Decodes(store.slots[s]) => store.slots[s] \in Content(values)
         /\ store.slots \in SlotsOf(values)
BY DEF StoreInv, StoreOf, SlotsOf, Slot, Decodes, Content

\* A boot loads the active slot, or a failed write that is newer.
LEMMA StoreLoads ==
  ASSUME NEW values, MarksApart(values), NEW store, StoreInv(store, values)
  PROVE  LoadsCurrentOrFailed(store)
<1> DEFINE a == store.slots[store.active]
           s == Selected(store.slots)
<1>1. /\ store.active \in {-1, 0, 1} /\ store.generation \in Generation
      /\ \A q \in Slot : Decodes(store.slots[q]) => store.slots[q] \in Content(values)
  BY StoreTypes
<1>2. NextGeneration(store) = Following(store.generation)
  BY <1>1, FollowingIsNext DEF NextGeneration
<1>3. CASE store.active = -1
  <2>1. s \in {-1, 0} /\ (s = 0 => store.slots[0].generation = 1)
    BY <1>3 DEF StoreInv, Selected
  <2>2. Following(0) = 1
    BY GenerationsAssumption DEF Following
  <2> QED
    BY <1>2, <1>3, <2>1, <2>2 DEF StoreInv, LoadsCurrentOrFailed
<1>4. ASSUME store.active \in Slot
      PROVE  LoadsCurrentOrFailed(store)
  <2> DEFINE o == 1 - store.active
  <2>1. a = [generation |-> store.generation, value |-> store.value]
        /\ (Decodes(store.slots[o]) => Neighbours(store.slots[o].generation, store.generation))
    BY <1>4 DEF StoreInv
  <2>2. Decodes(a)
    BY <1>1, <1>4, <2>1, StoreTypes, ContentDecodes DEF Content
  <2>3. CASE s = store.active
    BY <2>1, <2>3 DEF LoadsCurrentOrFailed
  <2>4. CASE s # store.active
    <3>1. s = o /\ Decodes(store.slots[o])
      BY <1>4, <2>2, <2>4 DEF Selected, Slot
    <3>2. store.slots[o].generation \in Generation
      BY <1>1, <1>4, <3>1 DEF Content, Slot
    <3>3. ~IsNewer(store.generation, store.slots[o].generation)
            \/ IsNewer(store.slots[o].generation, store.generation)
      BY <1>4, <2>1, <2>2, <3>1 DEF Selected, Slot
    <3>4. store.generation # Following(store.slots[o].generation)
      BY <1>1, <3>2, <3>3, FollowingIsNewer
    <3> QED
      BY <1>2, <1>4, <2>1, <2>4, <3>1, <3>4 DEF Neighbours, LoadsCurrentOrFailed, Slot
  <2> QED
    BY <2>3, <2>4
<1> QED
  BY <1>1, <1>3, <1>4 DEF Slot

LEMMA WrittenType ==
  ASSUME NEW values, MarksApart(values), NEW store, StoreInv(store, values),
         NEW value \in values
  PROVE  /\ Written(store, value) \in Content(values) /\ Decodes(Written(store, value))
         /\ Written(store, value).generation = Following(store.generation)
         /\ NextGeneration(store) = Following(store.generation)
         /\ TargetSlot(store) \in Slot
<1>1. NextGeneration(store) = Following(store.generation)
      /\ NextGeneration(store) \in Generation
  BY StoreTypes, FollowingIsNext DEF NextGeneration
<1>2. Written(store, value) \in Content(values)
  BY <1>1 DEF Written, Content
<1>3. TargetSlot(store) \in Slot
  BY DEF TargetSlot, Slot
<1> QED
  BY <1>1, <1>2, <1>3, ContentDecodes DEF Written

\* After a verified save, a boot selects what was saved.
LEMMA SavedInv ==
  ASSUME NEW values, MarksApart(values), NEW store, StoreInv(store, values),
         NEW value \in values
  PROVE  /\ StoreInv(Saved(store, value), values)
         /\ Selected(Saved(store, value).slots) = Saved(store, value).active
         /\ Saved(store, value).value = value /\ Saved(store, value).active \in Slot
         /\ \A s \in Slot : Decodes(Saved(store, value).slots[s]) =>
              \/ Saved(store, value).slots[s] = store.slots[s]
              \/ Saved(store, value).slots[s].value = value
<1> DEFINE new == Saved(store, value)
           t == TargetSlot(store)
           w == Written(store, value)
<1>1. /\ w \in Content(values) /\ Decodes(w) /\ t \in Slot
      /\ w = [generation |-> Following(store.generation), value |-> value]
  BY WrittenType DEF Written
<1>2. /\ new.slots = [store.slots EXCEPT ![t] = w] /\ new.active = t
      /\ new.generation = Following(store.generation) /\ new.value = value
  BY WrittenType DEF Saved
<1>3. /\ store.active \in {-1, 0, 1} /\ store.generation \in Generation
      /\ store.slots \in SlotsOf(values)
  BY StoreTypes
<1>4. /\ new.slots \in SlotsOf(values) /\ new.slots[t] = w
      /\ new.slots[1 - t] = store.slots[1 - t]
  BY <1>1, <1>2, <1>3 DEF SlotsOf, Content, Slot
<1>5. new \in StoreOf(values)
  BY <1>1, <1>2, <1>3, <1>4, FollowingIsNext DEF StoreOf, Saved, Slot
<1>6. Decodes(new.slots[1 - t]) =>
        store.active = 1 - t /\ new.slots[1 - t].generation = store.generation
  BY <1>3, <1>4 DEF StoreInv, TargetSlot, Slot
<1>7. StoreInv(new, values)
  BY <1>1, <1>2, <1>4, <1>5, <1>6 DEF StoreInv, Neighbours, Slot
<1>8. Selected(new.slots) = t
  <2>1. Decodes(new.slots[1 - t]) =>
          /\ IsNewer(new.slots[t].generation, new.slots[1 - t].generation)
          /\ ~IsNewer(new.slots[1 - t].generation, new.slots[t].generation)
    BY <1>1, <1>3, <1>4, <1>6, FollowingIsNewer
  <2> QED
    BY <1>1, <1>4, <2>1 DEF Selected, Slot
<1>9. \A s \in Slot : new.slots[s] = store.slots[s] \/ new.slots[s].value = value
  BY <1>1, <1>4 DEF Slot
<1> QED
  BY <1>1, <1>2, <1>7, <1>8, <1>9

\* A save that failed leaves a store that may load what it tried to save.
LEMMA NotSavedInv ==
  ASSUME NEW values, MarksApart(values), NEW store, StoreInv(store, values),
         NEW value \in values, NEW new \in NotSaved(store, value)
  PROVE  /\ StoreInv(new, values)
         /\ new.value = store.value /\ new.active = store.active
         /\ \A s \in Slot : Decodes(new.slots[s]) =>
              new.slots[s] = store.slots[s] \/ new.slots[s].value = value
<1> DEFINE t == TargetSlot(store)
           w == Written(store, value)
<1>1. /\ w \in Content(values) /\ Decodes(w) /\ t \in Slot
      /\ w = [generation |-> Following(store.generation), value |-> value]
  BY WrittenType DEF Written
<1>2. store \in StoreOf(values) /\ store.slots \in [Slot -> Content(values) \cup {Missing, Corrupt}]
      /\ store.active \in {-1, 0, 1}
  BY StoreTypes DEF StoreInv, SlotsOf, Content
<1>3. PICK content \in {store.slots[t], w, Corrupt} :
        new = [store EXCEPT !.slots = [store.slots EXCEPT ![t] = content]]
  BY DEF NotSaved
<1>4. content \in Content(values) \cup {Missing, Corrupt}
  BY <1>1, <1>2, <1>3
<1>5. /\ new.slots = [store.slots EXCEPT ![t] = content] /\ new.active = store.active
      /\ new.generation = store.generation /\ new.value = store.value
      /\ new \in StoreOf(values)
  BY <1>1, <1>2, <1>3, <1>4 DEF StoreOf, SlotsOf, Content
<1>6. new.slots[t] = content /\ new.slots[1 - t] = store.slots[1 - t]
  BY <1>1, <1>2, <1>5 DEF Slot
<1>7. \A s \in Slot : Decodes(new.slots[s]) =>
        new.slots[s] = store.slots[s] \/ (s = t /\ new.slots[s] = w)
  BY <1>1, <1>3, <1>6 DEF Slot, Decodes
<1>8. StoreInv(new, values)
  <2>1. CASE store.active = -1
    <3>1. t = 0 /\ store.generation = 0 /\ Following(0) = 1
      BY <2>1, GenerationsAssumption DEF TargetSlot, StoreInv, Following
    <3> QED
      BY <2>1, <3>1, <1>1, <1>5, <1>6, <1>7 DEF StoreInv, Slot
  <2>2. CASE store.active \in Slot
    <3>1. t = 1 - store.active
      BY <2>2 DEF TargetSlot, Slot
    <3> QED
      BY <2>2, <3>1, <1>1, <1>5, <1>6, <1>7 DEF StoreInv, Slot, Neighbours
  <2> QED
    BY <1>2, <2>1, <2>2 DEF Slot
<1> QED
  BY <1>1, <1>5, <1>7, <1>8

\* A boot: RAM holds what was selected.
LEMMA LoadInv ==
  ASSUME NEW values, MarksApart(values), NEW store, StoreInv(store, values),
         NEW default \in values
  PROVE  /\ StoreInv(Load(store.slots, default), values)
         /\ Load(store.slots, default).active = Selected(store.slots)
         /\ Load(store.slots, default).slots = store.slots
<1> DEFINE s == Selected(store.slots)
           new == Load(store.slots, default)
<1>1. /\ s \in {-1, 0, 1} /\ (s = -1 <=> \A q \in Slot : ~Decodes(store.slots[q]))
      /\ s # -1 => Decodes(store.slots[s])
  BY DEF Selected, Slot
<1>2. store \in StoreOf(values) /\ store.slots \in SlotsOf(values)
      /\ \A q \in Slot : Decodes(store.slots[q]) => store.slots[q] \in Content(values)
  BY StoreTypes DEF StoreInv
<1>3. CASE s = -1
  <2>1. new = [slots |-> store.slots, value |-> default, generation |-> 0, active |-> -1]
    BY <1>3 DEF Load
  <2>2. 0 \in Generation
    BY GenerationsAssumption DEF Generation
  <2> QED
    BY <1>1, <1>2, <1>3, <2>1, <2>2 DEF StoreInv, StoreOf, Slot
<1>4. CASE s \in Slot
  <2>1. new = [slots |-> store.slots, value |-> store.slots[s].value,
               generation |-> store.slots[s].generation, active |-> s]
    BY <1>4 DEF Load, Slot
  <2>2. store.slots[s] \in Content(values)
    BY <1>1, <1>2, <1>4 DEF Slot
  <2>3. store.slots[s] = [generation |-> new.generation, value |-> new.value]
        /\ new \in StoreOf(values)
    BY <1>2, <1>4, <2>1, <2>2 DEF Content, StoreOf
  <2>4. Decodes(store.slots[1 - s]) =>
          Neighbours(store.slots[1 - s].generation, new.generation)
    <3>1. CASE store.active = -1
      BY <1>1, <1>4, <3>1 DEF StoreInv, Slot
    <3>2. CASE store.active = s
      BY <1>4, <2>1, <3>2 DEF StoreInv, Slot
    <3>3. CASE store.active = 1 - s
      <4>1. /\ 1 - s \in Slot /\ 1 - (1 - s) = s
            /\ store.slots[1 - s] = [generation |-> store.generation, value |-> store.value]
            /\ Decodes(store.slots[s]) =>
                 Neighbours(store.slots[s].generation, store.generation)
        BY <1>4, <3>3 DEF StoreInv, Slot
      <4> QED
        BY <1>1, <1>4, <2>1, <4>1 DEF Neighbours, Slot
    <3> QED
      BY <1>4, <3>1, <3>2, <3>3, StoreTypes DEF Slot
  <2>5. new.active = s /\ s # -1 /\ new.slots = store.slots
    BY <1>4, <2>1 DEF Slot
  <2>6. StoreInv(new, values)
    <3> HIDE DEF new, s
    <3> QED
      BY <1>4, <2>3, <2>4, <2>5 DEF StoreInv, Slot
  <2> QED
    BY <2>5, <2>6
<1> QED
  BY <1>1, <1>3, <1>4 DEF Slot, Load

LEMMA ErasedInv ==
  ASSUME NEW values, MarksApart(values), NEW default \in values
  PROVE  /\ StoreInv(Load(Erased, default), values)
         /\ Load(Erased, default) = [slots |-> Erased, value |-> default,
                                     generation |-> 0, active |-> -1]
<1>1. \A s \in Slot : ~Decodes(Erased[s])
  BY DEF Erased, Decodes
<1>2. Selected(Erased) = -1
  BY <1>1 DEF Selected, Slot
<1>3. Load(Erased, default) = [slots |-> Erased, value |-> default,
                              generation |-> 0, active |-> -1]
  BY <1>2 DEF Load
<1>4. Erased \in SlotsOf(values) /\ 0 \in Generation
  BY GenerationsAssumption DEF Erased, SlotsOf, Generation
<1> QED
  BY <1>1, <1>3, <1>4 DEF StoreInv, StoreOf, Slot

-----------------------------------------------------------------------------
(* The invariant *)

StoresInv ==
  StoreInv(secrets, Key \cup {NoKey}) /\ StoreInv(settings, Setting)
    /\ StoreInv(accounts, Accounts)

\* What initial setup has saved so far, and still has in its hands.
SetupInv ==
  setup.stage # "none" =>
    /\ ready /\ setup.name \in Name /\ setup.key \in Key /\ setup.settings \in Setting
    /\ secrets.value # NoKey => setup.key = secrets.value
    /\ setup.stage \in {"settings", "accounts"} => setup.key = secrets.value

\* With an installation key in RAM, a boot selects one: the same, unless a reset
\* of the network tried to save another since the boot.  The radio runs with the
\* key in RAM until a reset has replaced it.
KeyInv ==
  /\ secrets.value # NoKey => Load(secrets.slots, NoKey).value # NoKey
  /\ secrets.value # NoKey /\ network = "kept" => Selected(secrets.slots) = secrets.active
  /\ secrets.value # NoKey \/ ready => secrets.active \in Slot
  /\ network # "kept" => secrets.value # NoKey
  /\ radioKey \in Key \cup {NoKey} /\ network \in {"kept", "renewed", "doubtful"}
  /\ radioKey # NoKey /\ network # "renewed" => radioKey = secrets.value

\* Users, in RAM or in any slot, come after the installation key.
UsersInv ==
  /\ \A s \in Slot :
       Decodes(accounts.slots[s]) /\ accounts.slots[s].value.users # {} =>
         /\ HasEnabledAdmin(accounts.slots[s].value.users)
         /\ secrets.value # NoKey \/ IsCorrupt(secrets.slots)
  /\ Users # {} => HasEnabledAdmin(Users) /\ (ready => secrets.value # NoKey)
  /\ sessions # << >> => Users # {} /\ ready

AccountsInv == StoresInv /\ SetupInv /\ KeyInv /\ UsersInv

-----------------------------------------------------------------------------
(* What the invariant implies *)

\* A store with an active slot is not corrupt.
LEMMA ActiveIsLoaded ==
  ASSUME NEW values, MarksApart(values), NEW store, StoreInv(store, values),
         store.active \in Slot
  PROVE  /\ ~IsCorrupt(store.slots) /\ ~LoadsNothing(store.slots)
         /\ store.slots[store.active].value = store.value
<1>1. store.slots[store.active] = [generation |-> store.generation, value |-> store.value]
      /\ store.generation \in Generation /\ store.value \in values
  BY StoreTypes DEF StoreInv
<1>2. Decodes(store.slots[store.active])
  BY <1>1, ContentDecodes DEF Content
<1>3. Selected(store.slots) # -1
  BY <1>2 DEF Selected, Slot
<1> QED
  BY <1>1, <1>2, <1>3 DEF IsCorrupt, LoadsNothing, Decodes

\* What was saved and verified is what a boot loads.
LEMMA LoadsActive ==
  ASSUME NEW values, MarksApart(values), NEW store, StoreInv(store, values),
         store.active \in Slot, Selected(store.slots) = store.active, NEW default
  PROVE  Load(store.slots, default).value = store.value
BY ActiveIsLoaded DEF Load, Slot

\* After a save that failed, a boot loads what is visible, what was to be saved,
\* or what it would have loaded before.
LEMMA FailedLoads ==
  ASSUME NEW values, MarksApart(values), NEW store, StoreInv(store, values),
         store.active \in Slot, NEW value \in values, NEW new \in NotSaved(store, value),
         NEW default
  PROVE  Load(new.slots, default).value \in
           {store.value, value, Load(store.slots, default).value}
<1> DEFINE t == TargetSlot(store)
           w == Written(store, value)
           s == Selected(new.slots)
<1>1. StoreInv(new, values) /\ new.value = store.value /\ new.active = store.active
  BY NotSavedInv
<1>2. /\ ~IsCorrupt(new.slots) /\ ~LoadsNothing(new.slots)
      /\ new.slots[store.active].value = store.value
  BY <1>1, ActiveIsLoaded
<1>3. s \in Slot /\ Load(new.slots, default).value = new.slots[s].value
  BY <1>2 DEF IsCorrupt, Selected, Load, Slot
<1>4. t \in Slot /\ store.slots \in SlotsOf(values)
  BY WrittenType, StoreTypes
<1>5. PICK content \in {store.slots[t], w, Corrupt} :
        new = [store EXCEPT !.slots = [store.slots EXCEPT ![t] = content]]
  BY DEF NotSaved
<1>6. new.slots = [store.slots EXCEPT ![t] = content] /\ new.slots[t] = content
  BY <1>1, <1>4, <1>5 DEF StoreInv, StoreOf, SlotsOf
<1>7. CASE s = store.active
  BY <1>2, <1>3, <1>7
<1>8. CASE s # store.active
  <2>1. s = t /\ Decodes(new.slots[s])
    BY <1>3, <1>8 DEF TargetSlot, Selected, Slot
  <2>2. CASE content = w
    BY <1>3, <1>6, <2>1, <2>2 DEF Written
  <2>3. CASE content = store.slots[t]
    <3>1. new.slots = store.slots
      BY <1>4, <1>6, <2>3 DEF SlotsOf
    <3> QED
      BY <3>1
  <2> QED
    BY <1>5, <1>6, <2>1, <2>2, <2>3 DEF Decodes
<1> QED
  BY <1>7, <1>8

LEMMA KeyLoads ==
  ASSUME AccountsInv, secrets.value # NoKey
  PROVE  /\ Load(secrets.slots, NoKey).value # NoKey
         /\ network = "kept" => Load(secrets.slots, NoKey).value = secrets.value
         /\ ~IsCorrupt(secrets.slots) /\ ~LoadsNothing(secrets.slots)
<1>1. StoreInv(secrets, Key \cup {NoKey}) /\ secrets.active \in Slot
  BY DEF AccountsInv, StoresInv, KeyInv
<1>2. ~IsCorrupt(secrets.slots) /\ ~LoadsNothing(secrets.slots)
  BY <1>1, ActiveIsLoaded, MarksAssumption
<1>3. network = "kept" => Load(secrets.slots, NoKey).value = secrets.value
  BY <1>1, LoadsActive, MarksAssumption DEF AccountsInv, KeyInv
<1> QED
  BY <1>2, <1>3 DEF AccountsInv, KeyInv

LEMMA InvariantShows ==
  ASSUME AccountsInv
  PROVE  BootLoadsCurrent /\ SetupIsWhole /\ RadioKeyIsDurable
<1>1. BootLoadsCurrent
  BY StoreLoads, MarksAssumption DEF AccountsInv, StoresInv, BootLoadsCurrent
<1>2. RadioKeyIsDurable
  BY KeyLoads DEF RadioKeyIsDurable, AccountsInv, KeyInv
<1>3. SetupIsWhole
  <2> DEFINE s == Selected(accounts.slots)
  <2>1. SUFFICES ASSUME Load(accounts.slots, NoAccounts).value.users # {}
                 PROVE  /\ HasEnabledAdmin(Load(accounts.slots, NoAccounts).value.users)
                        /\ ~IsCorrupt(secrets.slots) => Load(secrets.slots, NoKey).value # NoKey
    BY DEF SetupIsWhole
  <2>2. /\ s \in Slot /\ Decodes(accounts.slots[s])
        /\ Load(accounts.slots, NoAccounts).value = accounts.slots[s].value
    BY <2>1 DEF Load, NoAccounts, Selected, Slot
  <2> QED
    BY <2>1, <2>2, KeyLoads DEF AccountsInv, UsersInv
<1> QED
  BY <1>1, <1>2, <1>3

-----------------------------------------------------------------------------
(* The steps *)

\* A step that opens, uses or closes sessions.
LEMMA SessionsStep ==
  ASSUME AccountsInv, UNCHANGED <<secrets, settings, accounts, ready, radioVars, setup>>,
         sessions' # << >> => Users # {} /\ ready
  PROVE  AccountsInv'
BY DEF AccountsInv, StoresInv, SetupInv, KeyInv, UsersInv, Users, radioVars

LEMMA SomeSession ==
  ASSUME AccountsInv, NEW i \in DOMAIN sessions
  PROVE  Users # {} /\ HasEnabledAdmin(Users) /\ ready /\ secrets.value # NoKey
<1>1. sessions # << >>
  OBVIOUS
<1> QED
  BY <1>1 DEF AccountsInv, UsersInv

\* A boot with stores that are in order, whose users come after the key.
LEMMA BootStep ==
  ASSUME NEW s1, StoreInv(s1, Key \cup {NoKey}), NEW s2, StoreInv(s2, Setting),
         NEW s3, StoreInv(s3, Accounts),
         \A s \in Slot : Decodes(s3.slots[s]) /\ s3.slots[s].value.users # {} =>
           /\ HasEnabledAdmin(s3.slots[s].value.users)
           /\ Load(s1.slots, NoKey).value # NoKey \/ IsCorrupt(s1.slots),
         Boot(s1.slots, s2.slots, s3.slots)
  PROVE  AccountsInv'
<1> DEFINE found == Load(s1.slots, NoKey)
<1>1. /\ StoreInv(found, Key \cup {NoKey}) /\ found.slots = s1.slots
      /\ found.active = Selected(s1.slots)
      /\ found.active = -1 => found.value = NoKey
      /\ found.active \in {-1, 0, 1}
  <2>1. found.active = Selected(s1.slots) /\ (found.active = -1 => found.value = NoKey)
    BY DEF Load
  <2>2. Selected(s1.slots) \in {-1, 0, 1}
    BY DEF Selected
  <2> QED
    BY <2>1, <2>2, LoadInv, MarksAssumption
<1>2. /\ StoreInv(settings', Setting) /\ StoreInv(accounts', Accounts)
      /\ accounts'.slots = s3.slots /\ accounts' = Load(s3.slots, NoAccounts)
  <2>1. NoAccounts \in Accounts
    BY LimitsAssumption DEF NoAccounts, Accounts
  <2> QED
    BY <2>1, LoadInv, MarksAssumption, DefaultsAssumption DEF Boot
<1>3. /\ sessions' = << >> /\ setup'.stage = "none"
      /\ ready' = ~(IsCorrupt(s1.slots) \/ IsCorrupt(s2.slots) \/ IsCorrupt(s3.slots))
      /\ radioKey' = IF ready' THEN secrets'.value ELSE NoKey
      /\ secrets' = IF LoadsNothing(s1.slots) /\ ready' THEN Saved(found, NoKey) ELSE found
  BY DEF Boot, NoSetup
<1>4. LoadsNothing(s1.slots) => found.value = NoKey
  BY <1>1 DEF LoadsNothing, Selected, Decodes, Slot
<1>5. /\ StoreInv(secrets', Key \cup {NoKey}) /\ secrets'.value = found.value
      /\ secrets'.value # NoKey =>
           secrets'.active \in Slot /\ Selected(secrets'.slots) = secrets'.active
      /\ secrets' = found \/ secrets'.active \in Slot
  BY <1>1, <1>3, <1>4, SavedInv, MarksAssumption DEF Slot
<1>6. ready' => secrets'.active \in Slot
  <2>1. CASE LoadsNothing(s1.slots)
    BY <1>1, <1>3, <2>1, SavedInv, MarksAssumption
  <2>2. ASSUME ready', ~LoadsNothing(s1.slots) PROVE secrets'.active \in Slot
    <3>1. Selected(s1.slots) # -1 /\ secrets' = found
      BY <1>3, <2>2 DEF IsCorrupt
    <3> QED
      BY <1>1, <3>1 DEF Slot
  <2> QED
    BY <2>1, <2>2
<1>7. KeyInv'
  <2>1. secrets'.value # NoKey => Load(secrets'.slots, NoKey).value # NoKey
    BY <1>5, LoadsActive, MarksAssumption
  <2>2. radioKey' \in Key \cup {NoKey} /\ network' = "kept"
    BY <1>3, <1>5, StoreTypes DEF Boot
  <2> QED
    BY <1>3, <1>5, <1>6, <2>1, <2>2 DEF KeyInv
<1>8. IsCorrupt(s1.slots) => IsCorrupt(secrets'.slots)
  BY <1>1, <1>3 DEF IsCorrupt
<1>9. Users' # {} => HasEnabledAdmin(Users') /\ (ready' => secrets'.value # NoKey)
  <2> DEFINE s == Selected(s3.slots)
  <2>1. SUFFICES ASSUME Users' # {}
                 PROVE  HasEnabledAdmin(Users') /\ (ready' => secrets'.value # NoKey)
    OBVIOUS
  <2>2. s \in Slot /\ Decodes(s3.slots[s]) /\ Users' = s3.slots[s].value.users
    BY <1>2, <2>1 DEF Users, Load, NoAccounts, Selected, Slot
  <2> QED
    BY <1>3, <1>5, <2>1, <2>2
<1>10. UsersInv'
  BY <1>2, <1>3, <1>5, <1>8, <1>9 DEF UsersInv
<1> QED
  BY <1>2, <1>3, <1>5, <1>7, <1>10 DEF AccountsInv, StoresInv, SetupInv

\* An admin's change of the accounts.
LEMMA MutatesStep ==
  ASSUME AccountsInv, NEW i \in DOMAIN sessions, NEW value \in Accounts, NEW list,
         value.users # {}, HasEnabledAdmin(value.users), Mutates(i, value, list)
  PROVE  AccountsInv'
<1>1. StoreInv(accounts, Accounts) /\ MarksApart(Accounts) /\ ready /\ secrets.value # NoKey
      /\ Users # {} /\ HasEnabledAdmin(Users)
  BY SomeSession, MarksAssumption DEF AccountsInv, StoresInv
<1>2. UNCHANGED <<secrets, settings, ready, radioVars, setup>>
      /\ (accounts' = Saved(accounts, value) \/ accounts' \in NotSaved(accounts, value))
  BY DEF Mutates
<1>3. /\ StoreInv(accounts', Accounts)
      /\ accounts'.value = value \/ accounts'.value = accounts.value
      /\ \A s \in Slot : Decodes(accounts'.slots[s]) =>
           accounts'.slots[s] = accounts.slots[s] \/ accounts'.slots[s].value = value
  <2>1. CASE accounts' = Saved(accounts, value)
    BY <1>1, <2>1, SavedInv
  <2>2. CASE accounts' \in NotSaved(accounts, value)
    BY <1>1, <2>2, NotSavedInv
  <2> QED
    BY <1>2, <2>1, <2>2
<1>4. UsersInv'
  BY <1>1, <1>2, <1>3 DEF AccountsInv, UsersInv, Users
<1> QED
  BY <1>2, <1>3, <1>4 DEF AccountsInv, StoresInv, SetupInv, KeyInv, radioVars

LEMMA AccountsType ==
  ASSUME AccountsInv
  PROVE  accounts.value \in Accounts
BY StoreTypes DEF AccountsInv, StoresInv

LEMMA CreateUserStep ==
  ASSUME AccountsInv, NEW i \in DOMAIN sessions, NEW name \in Name, NEW role \in Role,
         NEW enabled \in BOOLEAN, CreateUser(i, name, role, enabled)
  PROVE  AccountsInv'
<1> DEFINE id == IF accounts.value.nextUserId = 0 THEN 1 ELSE accounts.value.nextUserId
           user == [id |-> id, name |-> name, role |-> role, enabled |-> enabled]
           value == [accounts.value EXCEPT !.users = @ \cup {user}, !.nextUserId = id + 1]
<1>1. accounts.value \in Accounts
  BY AccountsType
<1>2. id \in UserId /\ id + 1 \in 0 .. MaxUserId
  BY <1>1, LimitsAssumption DEF CreateUser, Accounts, UserId
<1>3. user \in User
  BY <1>2 DEF User
<1>4. value \in Accounts /\ value.users = Users \cup {user}
  BY <1>1, <1>2, <1>3 DEF Accounts, Users
<1>5. HasEnabledAdmin(value.users)
  BY <1>4, SomeSession DEF HasEnabledAdmin
<1>6. Mutates(i, value, Touched(i))
  BY DEF CreateUser
<1> QED
  BY <1>4, <1>5, <1>6, MutatesStep

LEMMA UpdateUserStep ==
  ASSUME AccountsInv, NEW i \in DOMAIN sessions, NEW user \in Users, NEW name \in Name,
         NEW role \in Role, NEW enabled \in BOOLEAN,
         UpdateUser(i, user, name, role, enabled)
  PROVE  AccountsInv'
<1> DEFINE changed == [user EXCEPT !.name = name, !.role = role, !.enabled = enabled]
           value == [accounts.value EXCEPT !.users = (@ \ {user}) \cup {changed}]
<1>1. accounts.value \in Accounts /\ Users \subseteq User
  BY AccountsType DEF Accounts, Users
<1>2. changed \in User
  BY <1>1 DEF User
<1>3. value \in Accounts /\ changed \in value.users
  BY <1>1, <1>2 DEF Accounts, Users
<1>4. HasEnabledAdmin(value.users)
  BY DEF UpdateUser
<1>5. CASE Mutates(i, value, SessionsAfter(i, user.id))
  BY <1>3, <1>4, <1>5, MutatesStep
<1>6. CASE UNCHANGED <<secrets, settings, accounts, ready, radioVars, setup>>
  BY <1>6, SomeSession, SessionsStep
<1> QED
  BY <1>5, <1>6 DEF UpdateUser

LEMMA DeleteUserStep ==
  ASSUME AccountsInv, NEW i \in DOMAIN sessions, NEW user \in Users, DeleteUser(i, user)
  PROVE  AccountsInv'
<1> DEFINE value == [accounts.value EXCEPT !.users = @ \ {user}]
<1>1. value \in Accounts /\ value.users = Users \ {user}
  BY AccountsType DEF Accounts, Users
<1>2. HasEnabledAdmin(value.users) /\ Mutates(i, value, SessionsAfter(i, user.id))
  BY <1>1 DEF DeleteUser
<1> QED
  BY <1>1, <1>2, MutatesStep DEF HasEnabledAdmin

LEMMA TokenSteps ==
  ASSUME AccountsInv, NEW i \in DOMAIN sessions,
         CreateToken(i) \/ \E id \in accounts.value.tokens : DeleteToken(i, id)
  PROVE  AccountsInv'
<1>1. accounts.value \in Accounts /\ Users # {} /\ HasEnabledAdmin(Users)
  BY AccountsType, SomeSession
<1>2. CASE CreateToken(i)
  <2> DEFINE id == IF accounts.value.nextTokenId = 0 THEN 1 ELSE accounts.value.nextTokenId
             value == [accounts.value EXCEPT !.tokens = @ \cup {id}, !.nextTokenId = id + 1]
  <2>1. id \in 1 .. MaxTokenId /\ id + 1 \in 0 .. MaxTokenId
    BY <1>1, <1>2, LimitsAssumption DEF CreateToken, Accounts
  <2>2. value \in Accounts /\ value.users = Users
    BY <1>1, <2>1 DEF Accounts, Users
  <2>3. Mutates(i, value, Touched(i))
    BY <1>2 DEF CreateToken
  <2> QED
    BY <1>1, <2>2, <2>3, MutatesStep
<1>3. ASSUME NEW id \in accounts.value.tokens, DeleteToken(i, id)
      PROVE  AccountsInv'
  <2> DEFINE value == [accounts.value EXCEPT !.tokens = @ \ {id}]
  <2>1. value \in Accounts /\ value.users = Users
    BY <1>1 DEF Accounts, Users
  <2>2. Mutates(i, value, Touched(i))
    BY <1>3 DEF DeleteToken
  <2> QED
    BY <1>1, <2>1, <2>2, MutatesStep
<1> QED
  BY <1>2, <1>3

LEMMA BeginSetupStep ==
  ASSUME AccountsInv, NEW name \in Name, NEW key \in Key, NEW setting \in Setting,
         BeginSetup(name, key, setting)
  PROVE  AccountsInv'
<1>1. UNCHANGED <<secrets, settings, accounts, ready, radioVars, sessions>> /\ ready
      /\ setup' = [stage |-> "secrets", name |-> name, key |-> key, settings |-> setting]
      /\ (secrets.value # NoKey => key = secrets.value)
  BY DEF BeginSetup, WebIdle
<1> QED
  BY <1>1 DEF AccountsInv, StoresInv, SetupInv, KeyInv, UsersInv, Users, radioVars

\* The installation key is written only while there is none.
LEMMA SetupSecretsStep ==
  ASSUME AccountsInv, SetupSecrets
  PROVE  AccountsInv'
<1>1. /\ setup.stage = "secrets" /\ ready /\ setup.name \in Name /\ setup.key \in Key
      /\ setup.settings \in Setting /\ setup.key # NoKey
      /\ (secrets.value # NoKey => setup.key = secrets.value)
      /\ StoreInv(secrets, Key \cup {NoKey}) /\ MarksApart(Key \cup {NoKey})
      /\ secrets.active \in Slot
  BY KeyAssumption, MarksAssumption
  DEF SetupSecrets, AccountsInv, SetupInv, StoresInv, KeyInv
<1>2. UNCHANGED <<settings, accounts, ready, radioVars, sessions>>
  BY DEF SetupSecrets
<1>3. CASE secrets.value = setup.key
  <2>1. UNCHANGED secrets /\ setup' = [setup EXCEPT !.stage = "settings"]
    BY <1>3 DEF SetupSecrets, SetupSaves
  <2>2. /\ setup'.key = setup.key /\ setup'.name = setup.name
        /\ setup'.settings = setup.settings
    BY <2>1
  <2>3. SetupInv'
    BY <1>1, <1>2, <1>3, <2>1, <2>2 DEF SetupInv
  <2> QED
    BY <1>2, <2>1, <2>3 DEF AccountsInv, StoresInv, KeyInv, UsersInv, Users, radioVars
<1>4. CASE secrets.value # setup.key
  <2>1. secrets.value = NoKey /\ network = "kept" /\ radioKey = NoKey
    BY <1>1, <1>4 DEF AccountsInv, KeyInv
  <2>2. ~IsCorrupt(secrets.slots)
    BY <1>1, ActiveIsLoaded
  <2>3. \/ secrets' = Saved(secrets, setup.key) /\ setup' = [setup EXCEPT !.stage = "settings"]
        \/ secrets' \in NotSaved(secrets, setup.key) /\ setup' = NoSetup
    BY <1>4 DEF SetupSecrets, SetupSaves
  <2>4. /\ StoreInv(secrets', Key \cup {NoKey}) /\ secrets'.active \in Slot
        /\ secrets'.value # NoKey => Selected(secrets'.slots) = secrets'.active
    <3>1. CASE secrets' = Saved(secrets, setup.key)
      BY <1>1, <3>1, SavedInv
    <3>2. CASE secrets' \in NotSaved(secrets, setup.key)
      BY <1>1, <2>1, <3>2, NotSavedInv
    <3> QED
      BY <2>3, <3>1, <3>2
  <2>5. SetupInv'
    <3>1. CASE secrets' = Saved(secrets, setup.key) /\ setup' = [setup EXCEPT !.stage = "settings"]
      <4>1. secrets'.value = setup.key
        BY <1>1, <3>1, SavedInv
      <4>2. /\ setup'.key = setup.key /\ setup'.name = setup.name
            /\ setup'.settings = setup.settings
        BY <3>1
      <4> QED
        BY <1>1, <1>2, <4>1, <4>2 DEF SetupInv
    <3>2. CASE setup' = NoSetup
      BY <3>2 DEF SetupInv, NoSetup
    <3> QED
      BY <2>3, <3>1, <3>2
  <2>6. KeyInv'
    <3>1. secrets'.value # NoKey => Load(secrets'.slots, NoKey).value # NoKey
      BY <2>4, LoadsActive, MarksAssumption
    <3> QED
      BY <1>2, <2>1, <2>4, <3>1 DEF KeyInv, radioVars
  <2>7. UsersInv'
    BY <1>1, <1>2, <2>1, <2>2 DEF AccountsInv, UsersInv, Users
  <2> QED
    BY <1>2, <2>4, <2>5, <2>6, <2>7 DEF AccountsInv, StoresInv
<1> QED
  BY <1>3, <1>4

LEMMA SetupSettingsStep ==
  ASSUME AccountsInv, SetupSettings
  PROVE  AccountsInv'
<1>1. /\ setup.stage = "settings" /\ setup.settings \in Setting
      /\ StoreInv(settings, Setting) /\ MarksApart(Setting)
      /\ UNCHANGED <<secrets, accounts, ready, radioVars, sessions>>
  BY MarksAssumption DEF SetupSettings, AccountsInv, SetupInv, StoresInv
<1>2. \/ settings' \in {settings, Saved(settings, setup.settings)}
           /\ setup' = [setup EXCEPT !.stage = "accounts"]
      \/ settings' \in NotSaved(settings, setup.settings) /\ setup' = NoSetup
  BY DEF SetupSettings, SetupSaves
<1>3. StoreInv(settings', Setting)
  BY <1>1, <1>2, SavedInv, NotSavedInv
<1>4. SetupInv'
  <2>1. CASE setup' = [setup EXCEPT !.stage = "accounts"]
    <3>1. /\ setup'.key = setup.key /\ setup'.name = setup.name
          /\ setup'.settings = setup.settings
      BY <2>1
    <3> QED
      BY <1>1, <3>1 DEF AccountsInv, SetupInv
  <2>2. CASE setup' = NoSetup
    BY <2>2 DEF SetupInv, NoSetup
  <2> QED
    BY <1>2, <2>1, <2>2
<1> QED
  BY <1>1, <1>3, <1>4 DEF AccountsInv, StoresInv, KeyInv, UsersInv, Users, radioVars

LEMMA SetupAccountsStep ==
  ASSUME AccountsInv, SetupAccounts
  PROVE  AccountsInv'
<1> DEFINE admin == FirstAdmin(setup.name)
           value == [users |-> {admin}, nextUserId |-> 2, tokens |-> {}, nextTokenId |-> 0]
<1>1. /\ setup.stage = "accounts" /\ ready /\ setup.name \in Name
      /\ setup.key = secrets.value /\ secrets.value # NoKey
      /\ StoreInv(accounts, Accounts) /\ MarksApart(Accounts)
      /\ UNCHANGED <<secrets, settings, ready, network>> /\ setup' = NoSetup
      /\ setup.key \in Key
  BY MarksAssumption, KeyAssumption
  DEF SetupAccounts, AccountsInv, SetupInv, StoresInv
<1>2. admin \in User /\ admin.enabled /\ admin.role = "Admin"
  BY <1>1, LimitsAssumption DEF FirstAdmin, User, UserId, Role
<1>3. value.users = {admin} /\ value \in Accounts
  <2>1. value = [users |-> {admin}, nextUserId |-> 2, tokens |-> {}, nextTokenId |-> 0]
    OBVIOUS
  <2>2. /\ {admin} \subseteq User /\ 2 \in 0 .. MaxUserId
        /\ {} \subseteq 1 .. MaxTokenId /\ 0 \in 0 .. MaxTokenId
    BY <1>2, LimitsAssumption
  <2> HIDE DEF value, admin
  <2> QED
    BY <2>1, <2>2 DEF Accounts
<1>4. HasEnabledAdmin(value.users)
  BY <1>2, <1>3 DEF HasEnabledAdmin
<1>5. \/ accounts' = Saved(accounts, value) /\ radioKey' \in {setup.key, radioKey}
      \/ accounts' \in NotSaved(accounts, value) /\ UNCHANGED <<radioKey, sessions>>
  BY DEF SetupAccounts
<1>6. /\ StoreInv(accounts', Accounts)
      /\ \/ accounts'.value = value
         \/ accounts'.value = accounts.value /\ UNCHANGED sessions
      /\ \A s \in Slot : Decodes(accounts'.slots[s]) =>
           accounts'.slots[s] = accounts.slots[s] \/ accounts'.slots[s].value = value
  <2> HIDE DEF value, admin
  <2>1. CASE accounts' = Saved(accounts, value)
    BY <1>1, <1>3, <2>1, SavedInv
  <2>2. CASE accounts' \in NotSaved(accounts, value) /\ UNCHANGED sessions
    BY <1>1, <1>3, <2>2, NotSavedInv
  <2> QED
    BY <1>5, <2>1, <2>2
<1>7. UsersInv'
  <2> HIDE DEF value, admin
  <2> QED
    BY <1>1, <1>3, <1>4, <1>6 DEF AccountsInv, UsersInv, Users
<1>8. KeyInv' /\ SetupInv'
  BY <1>1, <1>5 DEF AccountsInv, KeyInv, SetupInv, NoSetup
<1> QED
  BY <1>1, <1>6, <1>7, <1>8 DEF AccountsInv, StoresInv

LEMMA UpdateSettingsStep ==
  ASSUME AccountsInv, NEW i \in DOMAIN sessions, NEW setting \in Setting,
         UpdateSettings(i, setting)
  PROVE  AccountsInv'
<1>1. UNCHANGED <<secrets, accounts, ready, radioVars, setup>> /\ Users # {} /\ ready
  BY SomeSession DEF UpdateSettings
<1>2. StoreInv(settings', Setting)
  BY SavedInv, NotSavedInv, MarksAssumption DEF UpdateSettings, AccountsInv, StoresInv
<1> QED
  BY <1>1, <1>2 DEF AccountsInv, StoresInv, SetupInv, KeyInv, UsersInv, Users, radioVars

\* A reset of the network goes from one installation key to another.
LEMMA ResetRadioNetworkStep ==
  ASSUME AccountsInv, NEW i \in DOMAIN sessions, NEW key \in Key, ResetRadioNetwork(i, key)
  PROVE  AccountsInv'
<1>1. /\ UNCHANGED <<settings, accounts, ready, radioKey, setup>> /\ setup.stage = "none"
      /\ Users # {} /\ ready /\ secrets.value # NoKey /\ key # NoKey
      /\ StoreInv(secrets, Key \cup {NoKey}) /\ MarksApart(Key \cup {NoKey})
      /\ secrets.active \in Slot /\ Load(secrets.slots, NoKey).value # NoKey
  BY SomeSession, KeyAssumption, MarksAssumption
  DEF ResetRadioNetwork, AsAdmin, WebIdle, AccountsInv, StoresInv, KeyInv
<1>2. /\ StoreInv(secrets', Key \cup {NoKey}) /\ secrets'.active \in Slot
      /\ secrets'.value # NoKey /\ Load(secrets'.slots, NoKey).value # NoKey
      /\ network' \in {"renewed", "doubtful"}
      /\ network' # "renewed" => network # "renewed" /\ secrets'.value = secrets.value
  <2>1. CASE secrets' = Saved(secrets, key) /\ network' = "renewed"
    BY <1>1, <2>1, SavedInv, LoadsActive
  <2>2. CASE /\ secrets' \in NotSaved(secrets, key)
             /\ network' = IF network = "renewed" THEN "renewed" ELSE "doubtful"
    <3>1. /\ StoreInv(secrets', Key \cup {NoKey})
          /\ secrets'.value = secrets.value /\ secrets'.active = secrets.active
      BY <1>1, <2>2, NotSavedInv
    <3>2. Load(secrets'.slots, NoKey).value \in
            {secrets.value, key, Load(secrets.slots, NoKey).value}
      BY <1>1, <2>2, FailedLoads
    <3> QED
      BY <1>1, <2>2, <3>1, <3>2
  <2> QED
    BY <2>1, <2>2 DEF ResetRadioNetwork
<1>3. UsersInv'
  BY <1>1, <1>2 DEF AccountsInv, UsersInv, Users
<1>4. KeyInv'
  BY <1>1, <1>2 DEF AccountsInv, KeyInv
<1> QED
  BY <1>1, <1>2, <1>3, <1>4 DEF AccountsInv, StoresInv, SetupInv

LEMMA RestartStep ==
  ASSUME AccountsInv, Restart
  PROVE  AccountsInv'
<1>1. \A s \in Slot : Decodes(accounts.slots[s]) /\ accounts.slots[s].value.users # {} =>
        /\ HasEnabledAdmin(accounts.slots[s].value.users)
        /\ Load(secrets.slots, NoKey).value # NoKey \/ IsCorrupt(secrets.slots)
  BY KeyLoads DEF AccountsInv, UsersInv
<1> QED
  BY <1>1, BootStep DEF Restart, AccountsInv, StoresInv

LEMMA FactoryResetStep ==
  ASSUME FactoryReset
  PROVE  AccountsInv'
<1> DEFINE s1 == Load(Erased, NoKey)
           s2 == Load(Erased, Defaults)
           s3 == Load(Erased, NoAccounts)
<1>1. NoAccounts \in Accounts
  BY LimitsAssumption DEF NoAccounts, Accounts
<1>2. /\ StoreInv(s1, Key \cup {NoKey}) /\ StoreInv(s2, Setting) /\ StoreInv(s3, Accounts)
      /\ s1.slots = Erased /\ s2.slots = Erased /\ s3.slots = Erased
  BY <1>1, ErasedInv, MarksAssumption, DefaultsAssumption
<1>3. \A s \in Slot : ~Decodes(s3.slots[s])
  BY <1>2 DEF Erased, Decodes
<1> HIDE DEF s1, s2, s3
<1> QED
  BY <1>2, <1>3, BootStep DEF FactoryReset

-----------------------------------------------------------------------------
(* The theorems *)

LEMMA AccountsInit ==
  ASSUME Init
  PROVE  AccountsInv
<1> DEFINE s1 == Load(Erased, NoKey)
<1>1. NoAccounts \in Accounts
  BY LimitsAssumption DEF NoAccounts, Accounts
<1>2. /\ StoreInv(settings, Setting) /\ StoreInv(accounts, Accounts)
      /\ accounts.slots = Erased /\ Users = {}
  BY <1>1, ErasedInv, MarksAssumption, DefaultsAssumption DEF Init, Users, NoAccounts
<1>3. StoreInv(s1, Key \cup {NoKey})
  BY ErasedInv, MarksAssumption
<1>4. /\ StoreInv(secrets, Key \cup {NoKey}) /\ secrets.value = NoKey
      /\ secrets.active \in Slot
  BY <1>3, SavedInv, MarksAssumption DEF Init
<1>5. \A s \in Slot : ~Decodes(accounts.slots[s])
  BY <1>2 DEF Erased, Decodes
<1> QED
  BY <1>2, <1>4, <1>5
  DEF Init, AccountsInv, StoresInv, SetupInv, KeyInv, UsersInv, NoSetup

LEMMA AccountsStep ==
  ASSUME AccountsInv, [Next]_vars
  PROVE  AccountsInv'
<1>1. CASE ToggleSetup \/ SetupExpires
  <2>1. UNCHANGED <<secrets, settings, accounts, ready, radioVars, setup, sessions>>
    BY <1>1 DEF ToggleSetup, SetupExpires
  <2> QED
    BY <2>1, SessionsStep DEF AccountsInv, UsersInv
<1>2. CASE \E user \in Users : Login(user)
  BY <1>2, SessionsStep DEF Login, WebIdle
<1>3. CASE SessionExpires
  BY <1>3, SessionsStep DEF SessionExpires, AccountsInv, UsersInv
<1>4. ASSUME NEW i \in DOMAIN sessions, UseSession(i) \/ Logout(i)
      PROVE  AccountsInv'
  BY <1>4, SessionsStep, SomeSession DEF UseSession, Logout
<1>5. ASSUME NEW i \in DOMAIN sessions, NEW name \in Name, NEW role \in Role,
             NEW enabled \in BOOLEAN,
             \/ CreateUser(i, name, role, enabled)
             \/ \E user \in Users : UpdateUser(i, user, name, role, enabled)
      PROVE  AccountsInv'
  BY <1>5, CreateUserStep, UpdateUserStep
<1>6. ASSUME NEW i \in DOMAIN sessions,
             \/ \E user \in Users : DeleteUser(i, user)
             \/ CreateToken(i)
             \/ \E id \in accounts.value.tokens : DeleteToken(i, id)
             \/ \E setting \in Setting : UpdateSettings(i, setting)
             \/ \E key \in Key : ResetRadioNetwork(i, key)
      PROVE  AccountsInv'
  BY <1>6, DeleteUserStep, TokenSteps, UpdateSettingsStep, ResetRadioNetworkStep
<1>7. CASE UNCHANGED vars
  BY <1>7 DEF vars, radioVars, AccountsInv, StoresInv, SetupInv, KeyInv, UsersInv, Users
<1> QED
  BY <1>1, <1>2, <1>3, <1>4, <1>5, <1>6, <1>7, BeginSetupStep, SetupSecretsStep,
     SetupSettingsStep, SetupAccountsStep, RestartStep, FactoryResetStep DEF Next

\* The invariant of the accounts and their stores.
THEOREM AccountsInvariance == Spec => []AccountsInv
<1>1. Init => AccountsInv
  BY AccountsInit
<1>2. AccountsInv /\ [Next]_vars => AccountsInv'
  BY AccountsStep
<1> QED
  BY <1>1, <1>2, PTL DEF Spec

\* An older value never comes back, whatever saves fail and however often the
\* generations have wrapped.
THEOREM CurrentIsLoaded == Spec => []BootLoadsCurrent
<1>1. AccountsInv => BootLoadsCurrent
  BY InvariantShows
<1> QED
  BY <1>1, AccountsInvariance, PTL

\* A gateway with users has its installation key and an enabled admin.
THEOREM SetupStaysWhole == Spec => []SetupIsWhole
<1>1. AccountsInv => SetupIsWhole
  BY InvariantShows
<1> QED
  BY <1>1, AccountsInvariance, PTL

\* The radio's key is the one that the next boot loads, until a reset of the
\* network has saved another; after one that reports a failure it is still the one
\* the gateway has (handleInitialSetup, handleResetRadioNetwork).
THEOREM RadioKeyStaysDurable == Spec => []RadioKeyIsDurable
<1>1. AccountsInv => RadioKeyIsDurable
  BY InvariantShows
<1> QED
  BY <1>1, AccountsInvariance, PTL

-----------------------------------------------------------------------------
(* Lists of sessions: what every change of one leaves in it *)

LEMMA LeastPosition ==
  ASSUME NEW T, T \subseteq Nat, T # {}
  PROVE  \E m \in T : \A k \in T : m <= k
<1>1. PICK m \in T : \A k \in T : <<k, m>> \notin OpToRel(<, Nat)
  BY NatLessThanWellFounded, WFMin
<1>2. ASSUME NEW k \in T, k < m PROVE FALSE
  <2>1. <<k, m>> \in OpToRel(<, Nat)
    BY <1>2, Zenon DEF OpToRel
  <2> QED
    BY <1>1, <2>1
<1> QED
  BY <1>2

LEMMA PositionsAreFinite ==
  ASSUME NEW n \in Nat, NEW positions, positions \subseteq 1 .. n
  PROVE  /\ IsFiniteSet(positions)
         /\ Cardinality(positions) \in Nat
         /\ Cardinality(positions) <= n
<1>1. 1 \in Int /\ n \in Int
  OBVIOUS
<1>2. IsFiniteSet(1 .. n) /\ Cardinality(1 .. n) = IF 1 > n THEN 0 ELSE n - 1 + 1
  BY <1>1, FS_Interval
<1>3. Cardinality(1 .. n) = n
  BY <1>2
<1>4. positions \in SUBSET (1 .. n)
  OBVIOUS
<1>5. IsFiniteSet(positions) /\ Cardinality(positions) <= Cardinality(1 .. n)
  BY <1>2, <1>4, FS_Subset
<1> QED
  BY <1>3, <1>5, FS_CardinalityType

\* Every place up to their number is that of one of the positions.
LEMMA NthIsPosition ==
  ASSUME NEW n \in Nat, NEW positions, positions \subseteq 1 .. n,
         NEW p \in 1 .. Cardinality(positions)
  PROVE  Nth(positions, p) \in positions
<1> DEFINE upTo(i) == {j \in positions : j <= i}
           enough == {i \in 0 .. n : p <= Cardinality(upTo(i))}
<1>1. \A i \in 0 .. n : IsFiniteSet(upTo(i)) /\ Cardinality(upTo(i)) \in Nat
  <2> SUFFICES ASSUME NEW i \in 0 .. n
               PROVE  IsFiniteSet(upTo(i)) /\ Cardinality(upTo(i)) \in Nat
    OBVIOUS
  <2>1. upTo(i) \subseteq 1 .. n
    OBVIOUS
  <2> HIDE DEF upTo
  <2> QED
    BY <2>1, PositionsAreFinite
<1>0. \A j \in positions : j \in Int /\ 1 <= j /\ j <= n
  OBVIOUS
<1>2. upTo(n) = positions /\ upTo(0) = {}
  <2>1. \A j \in positions : j <= n /\ ~(j <= 0)
    BY <1>0
  <2> QED
    BY <2>1
<1>3. \A i \in 1 .. n :
        upTo(i) = IF i \in positions THEN upTo(i - 1) \cup {i} ELSE upTo(i - 1)
  <2> SUFFICES ASSUME NEW i \in 1 .. n
               PROVE  upTo(i) = IF i \in positions THEN upTo(i - 1) \cup {i} ELSE upTo(i - 1)
    OBVIOUS
  <2>1. \A j \in positions : j <= i <=> j <= i - 1 \/ j = i
    BY <1>0
  <2> QED
    BY <2>1
<1>4. \A i \in 1 .. n : i \notin upTo(i - 1)
  OBVIOUS
<1>5. \A i \in positions : i \in 1 .. n
  OBVIOUS
<1>6. p \in Nat /\ p > 0 /\ p <= Cardinality(positions)
  BY PositionsAreFinite
<1> HIDE DEF upTo
<1>7. n \in enough /\ enough \subseteq Nat
  BY <1>2, <1>6
<1>8. PICK i \in enough : \A k \in enough : i <= k
  BY <1>7, LeastPosition
<1>9. i \in 1 .. n
  BY <1>2, <1>6, <1>8, FS_EmptySet
<1>10. i - 1 \in 0 .. n /\ i - 1 \notin enough
  BY <1>8, <1>9
<1>11. /\ Cardinality(upTo(i - 1)) < p /\ p <= Cardinality(upTo(i))
       /\ Cardinality(upTo(i - 1)) \in Nat /\ Cardinality(upTo(i)) \in Nat
       /\ IsFiniteSet(upTo(i - 1))
  BY <1>1, <1>6, <1>8, <1>9, <1>10
<1>12. i \in positions
  BY <1>3, <1>9, <1>11
<1>13. Cardinality(upTo(i)) = Cardinality(upTo(i - 1)) + 1
  <2>1. upTo(i) = upTo(i - 1) \cup {i} /\ i \notin upTo(i - 1)
    BY <1>3, <1>4, <1>9, <1>12
  <2> QED
    BY <1>11, <2>1, FS_AddElement
<1>14. Cardinality(upTo(i)) = p
  BY <1>6, <1>11, <1>13
<1> QED
  BY <1>12, <1>14 DEF Nth, upTo

LEMMA InvalidatedLists ==
  ASSUME NEW S, NEW list \in Seq(S), NEW id
  PROVE  /\ Invalidated(list, id) \in Seq({session \in S : session.user # id})
         /\ Len(Invalidated(list, id)) <= Len(list)
<1> DEFINE others == {i \in DOMAIN list : list[i].user # id}
           size == Cardinality(others)
<1>1. Len(list) \in Nat /\ DOMAIN list = 1 .. Len(list) /\ list \in [1 .. Len(list) -> S]
  BY LenProperties
<1>2. size \in Nat /\ size <= Len(list)
  BY <1>1, PositionsAreFinite
<1>3. \A p \in 1 .. size : Nth(others, p) \in others
  BY <1>1, NthIsPosition
<1>4. Invalidated(list, id) = [p \in 1 .. size |-> list[Nth(others, p)]]
  BY DEF Invalidated
<1> DEFINE kept == {session \in S : session.user # id}
<1>5. Invalidated(list, id) \in [1 .. size -> kept]
  BY <1>1, <1>3, <1>4
<1> HIDE DEF size, kept
<1>6. Invalidated(list, id) \in Seq(kept) /\ Len(Invalidated(list, id)) = size
  BY <1>2, <1>5
<1> QED
  BY <1>2, <1>6 DEF kept

LEMMA RemovedLists ==
  ASSUME NEW S, NEW list \in Seq(S), NEW i \in 1 .. Len(list)
  PROVE  RemoveAt(list, i) \in Seq(S) /\ Len(RemoveAt(list, i)) = Len(list) - 1
<1> DEFINE left == SubSeq(list, 1, i - 1)
           right == SubSeq(list, i + 1, Len(list))
<1>1. /\ left \in Seq(S) /\ Len(left) = i - 1
      /\ right \in Seq(S) /\ Len(right) = Len(list) - i
  BY SubSeqProperties, LenProperties
<1>2. RemoveAt(list, i) = left \o right
  BY DEF RemoveAt
<1>3. Len(list) \in Nat
  BY LenProperties
<1> HIDE DEF left, right
<1>4. left \o right \in Seq(S) /\ Len(left \o right) = Len(left) + Len(right)
  BY <1>1, ConcatProperties
<1> QED
  BY <1>1, <1>2, <1>3, <1>4

LEMMA OpenedLists ==
  ASSUME NEW S, NEW list \in Seq(S), Len(list) <= MaximumSessions, NEW session \in S
  PROVE  Open(list, session) \in Seq(S) /\ Len(Open(list, session)) <= MaximumSessions
<1>1. CASE Len(list) = MaximumSessions
  <2>1. list # << >>
    BY <1>1, LimitsAssumption, EmptySeq
  <2>2. Tail(list) \in Seq(S) /\ Len(Tail(list)) = MaximumSessions - 1
    BY <1>1, <2>1, HeadTailProperties
  <2> QED
    BY <1>1, <2>2, LimitsAssumption, AppendProperties DEF Open
<1>2. CASE Len(list) # MaximumSessions
  BY <1>2, LimitsAssumption, LenProperties, AppendProperties DEF Open
<1> QED
  BY <1>1, <1>2

LEMMA ListsGrow ==
  ASSUME NEW S, NEW T, S \subseteq T, NEW list \in Seq(S)
  PROVE  list \in Seq(T)
<1>1. Len(list) \in Nat /\ list \in [1 .. Len(list) -> S]
  BY LenProperties
<1>2. list \in [1 .. Len(list) -> T]
  BY <1>1
<1> QED
  BY <1>1, <1>2

-----------------------------------------------------------------------------
(* Sessions and accounts *)

\* The sessions enabled users would open now, and the lists of them there can be.
Current(users) ==
  {session \in Session : \E user \in users : user.enabled /\ SessionOf(user) = session}

ListsOf(some) == {list \in Seq(some) : Len(list) <= MaximumSessions}

\* Accounts as validateAuthentication() accepts them, of finitely many users.
WholeAccounts == {value \in Accounts : ValidAccounts(value) /\ IsFiniteSet(value.users)}

SessionsInv == sessions \in ListsOf(Current(Users))

\* Setup runs while there are no users.
StageInv ==
  /\ ready \in BOOLEAN /\ window \in BOOLEAN
  /\ setup.stage \in {"none", "secrets", "settings", "accounts"}
  /\ setup.stage # "none" => SetupRequired

WholeInv == AccountsInv /\ StageInv /\ StoreInv(accounts, WholeAccounts) /\ SessionsInv

LEMMA WholeInvShows ==
  ASSUME WholeInv
  PROVE  TypeOK /\ SessionsMatchAccounts
<1>1. /\ sessions \in Seq(Session) /\ Len(sessions) <= MaximumSessions
      /\ \A i \in DOMAIN sessions : sessions[i] \in Current(Users)
  <2>1. Current(Users) \subseteq Session
    BY DEF Current
  <2>2. sessions \in Seq(Current(Users)) /\ Len(sessions) <= MaximumSessions
    BY DEF WholeInv, SessionsInv, ListsOf
  <2> QED
    BY <2>1, <2>2, ListsGrow, LenProperties, ElementOfSeq
<1>2. SessionsMatchAccounts
  BY <1>1 DEF SessionsMatchAccounts, Current
<1>3. \A s \in Slot : Decodes(accounts.slots[s]) => ValidAccounts(accounts.slots[s].value)
  BY StoreTypes DEF WholeInv, Content, WholeAccounts
<1> QED
  <2>1. /\ secrets \in StoreOf(Key \cup {NoKey}) /\ settings \in StoreOf(Setting)
        /\ secrets.value \in Key \cup {NoKey} /\ radioKey \in Key \cup {NoKey}
        /\ network \in {"kept", "renewed", "doubtful"}
    BY StoreTypes DEF WholeInv, AccountsInv, StoresInv, StoreInv, KeyInv
  <2> QED
    BY <1>1, <1>2, <1>3, <2>1 DEF WholeInv, StageInv, TypeOK

LEMMA WholeMarks == MarksApart(WholeAccounts)
BY MarksAssumption DEF MarksApart, WholeAccounts

LEMMA TouchedLists ==
  ASSUME NEW some, sessions \in ListsOf(some), NEW i \in DOMAIN sessions
  PROVE  Touched(i) \in ListsOf(some)
<1>1. /\ sessions \in Seq(some) /\ Len(sessions) <= MaximumSessions
      /\ i \in 1 .. Len(sessions) /\ sessions[i] \in some /\ Len(sessions) \in Nat
  BY LenProperties, ElementOfSeq DEF ListsOf
<1>2. RemoveAt(sessions, i) \in Seq(some) /\ Len(RemoveAt(sessions, i)) = Len(sessions) - 1
  BY <1>1, RemovedLists
<1> QED
  BY <1>1, <1>2, AppendProperties DEF Touched, ListsOf

LEMMA ListsOfMore ==
  ASSUME NEW S, NEW T, S \subseteq T, NEW list \in ListsOf(S)
  PROVE  list \in ListsOf(T)
BY ListsGrow DEF ListsOf

LEMMA OneMore ==
  ASSUME NEW S, IsFiniteSet(S), NEW x
  PROVE  /\ IsFiniteSet(S \cup {x})
         /\ Cardinality(S \cup {x}) \in {Cardinality(S), Cardinality(S) + 1}
BY FS_AddElement

\* What a save of the accounts by session i leaves: a valid value, and the
\* sessions that remain if it was verified.
LEMMA MutatesKeeps ==
  ASSUME WholeInv, NEW i \in DOMAIN sessions, NEW value \in WholeAccounts, NEW list,
         list \in ListsOf(Current(value.users)), Mutates(i, value, list)
  PROVE  StoreInv(accounts', WholeAccounts) /\ SessionsInv'
<1>1. StoreInv(accounts, WholeAccounts) /\ sessions \in ListsOf(Current(Users))
  BY DEF WholeInv, SessionsInv
<1>2. CASE accounts' = Saved(accounts, value) /\ sessions' = list
  BY <1>1, <1>2, WholeMarks, SavedInv DEF SessionsInv, Users
<1>3. CASE accounts' \in NotSaved(accounts, value) /\ sessions' = Touched(i)
  <2>1. StoreInv(accounts', WholeAccounts) /\ accounts'.value = accounts.value
    BY <1>1, <1>3, WholeMarks, NotSavedInv
  <2>2. Touched(i) \in ListsOf(Current(Users))
    BY <1>1, TouchedLists
  <2> QED
    BY <1>3, <2>1, <2>2 DEF SessionsInv, Users
<1> QED
  BY <1>2, <1>3 DEF Mutates

LEMMA WholeValue ==
  ASSUME WholeInv
  PROVE  accounts.value \in WholeAccounts /\ Users = accounts.value.users
BY StoreTypes DEF WholeInv, Users

LEMMA CreateUserIsValid ==
  ASSUME WholeInv, NEW i \in DOMAIN sessions, NEW name \in Name, NEW role \in Role,
         NEW enabled \in BOOLEAN, CreateUser(i, name, role, enabled)
  PROVE  StoreInv(accounts', WholeAccounts) /\ SessionsInv'
<1> DEFINE id == IF accounts.value.nextUserId = 0 THEN 1 ELSE accounts.value.nextUserId
           user == [id |-> id, name |-> name, role |-> role, enabled |-> enabled]
           value == [accounts.value EXCEPT !.users = @ \cup {user}, !.nextUserId = id + 1]
<1>1. /\ accounts.value \in Accounts /\ ValidAccounts(accounts.value)
      /\ IsFiniteSet(Users) /\ Users = accounts.value.users
  BY WholeValue DEF WholeAccounts
<1>2. id \in UserId /\ id + 1 \in 0 .. MaxUserId
  BY <1>1, LimitsAssumption DEF CreateUser, Accounts, UserId
<1>3. /\ value \in Accounts /\ value.users = Users \cup {user} /\ value.nextUserId = id + 1
      /\ value.tokens = accounts.value.tokens
      /\ value.nextTokenId = accounts.value.nextTokenId
  <2>1. user \in User
    BY <1>2 DEF User
  <2> HIDE DEF user, id
  <2> QED
    BY <1>1, <1>2, <2>1 DEF Accounts
<1>4. \A u \in Users : u.id < id /\ u.name # name /\ u.id \in Nat
  <2>1. \A u \in Users : u.id < accounts.value.nextUserId /\ u.id \in UserId
    BY <1>1 DEF ValidAccounts, Accounts, User
  <2>2. \A u \in Users : u.id # 0
    BY <2>1 DEF UserId
  <2> QED
    BY <1>1, <2>1, <2>2 DEF CreateUser, NameTaken, UserId, Accounts
<1>5. IsFiniteSet(value.users) /\ Cardinality(value.users) <= MaximumUsers
  <2>1. Cardinality(Users) \in Nat /\ Cardinality(Users) < MaximumUsers
    BY <1>1, FS_CardinalityType DEF CreateUser
  <2>2. /\ IsFiniteSet(Users \cup {user})
        /\ Cardinality(Users \cup {user}) \in {Cardinality(Users), Cardinality(Users) + 1}
    BY <1>1, OneMore
  <2> HIDE DEF user, value
  <2>3. Cardinality(value.users) \in Nat
    BY <1>3, <2>2, FS_CardinalityType
  <2> QED
    BY <1>3, <2>1, <2>2, <2>3, LimitsAssumption
<1>6. user.id = id /\ user.name = name
  OBVIOUS
<1>7. HasEnabledAdmin(value.users)
  BY <1>3, SomeSession DEF WholeInv, HasEnabledAdmin
<1>8. CreateUser(i, name, role, enabled) => Mutates(i, value, Touched(i))
  BY DEF CreateUser
<1> HIDE DEF user, value
<1>9. \A u, v \in value.users : u # v => u.id # v.id /\ u.name # v.name
  BY <1>1, <1>3, <1>4, <1>6 DEF ValidAccounts
<1>10. \A u \in value.users : u.id < value.nextUserId
  BY <1>2, <1>3, <1>4, <1>6 DEF UserId
<1>11. value \in WholeAccounts
  BY <1>1, <1>3, <1>5, <1>7, <1>9, <1>10 DEF WholeAccounts, ValidAccounts
<1>12. Touched(i) \in ListsOf(Current(value.users))
  <2>1. Current(Users) \subseteq Current(value.users)
    BY <1>3 DEF Current
  <2> QED
    BY <2>1, TouchedLists, ListsOfMore DEF WholeInv, SessionsInv
<1> QED
  BY <1>8, <1>11, <1>12, MutatesKeeps

\* The sessions that remain when user id is changed or deleted are other users'.
LEMMA SessionsOfOthers ==
  ASSUME WholeInv, NEW i \in DOMAIN sessions, NEW user \in Users, NEW users,
         Users \ {user} \subseteq users
  PROVE  SessionsAfter(i, user.id) \in ListsOf(Current(users))
<1> DEFINE some == {session \in Current(Users) : session.user # user.id}
<1>1. Touched(i) \in Seq(Current(Users)) /\ Len(Touched(i)) <= MaximumSessions
  BY TouchedLists DEF WholeInv, SessionsInv, ListsOf
<1>2. /\ SessionsAfter(i, user.id) \in Seq(some)
      /\ Len(SessionsAfter(i, user.id)) <= Len(Touched(i))
  BY <1>1, InvalidatedLists DEF SessionsAfter
<1>3. some \subseteq Current(users)
  BY DEF Current, SessionOf
<1>4. Len(SessionsAfter(i, user.id)) \in Nat /\ Len(Touched(i)) \in Nat
  BY <1>1, <1>2, LenProperties
<1> QED
  BY <1>1, <1>2, <1>3, <1>4, ListsGrow, LimitsAssumption DEF ListsOf

LEMMA UpdateUserIsValid ==
  ASSUME WholeInv, NEW i \in DOMAIN sessions, NEW user \in Users, NEW name \in Name,
         NEW role \in Role, NEW enabled \in BOOLEAN,
         UpdateUser(i, user, name, role, enabled)
  PROVE  StoreInv(accounts', WholeAccounts) /\ SessionsInv'
<1> DEFINE changed == [user EXCEPT !.name = name, !.role = role, !.enabled = enabled]
           value == [accounts.value EXCEPT !.users = (@ \ {user}) \cup {changed}]
<1>1. /\ accounts.value \in Accounts /\ ValidAccounts(accounts.value)
      /\ IsFiniteSet(Users) /\ Users = accounts.value.users /\ Users \subseteq User
  BY WholeValue DEF WholeAccounts, Accounts
<1>2. changed \in User /\ changed.id = user.id /\ changed.name = name
  BY <1>1 DEF User
<1>3. /\ value \in Accounts /\ value.users = (Users \ {user}) \cup {changed}
      /\ value.nextUserId = accounts.value.nextUserId
      /\ value.tokens = accounts.value.tokens
      /\ value.nextTokenId = accounts.value.nextTokenId
  BY <1>1, <1>2 DEF Accounts
<1>4. \/ Mutates(i, value, SessionsAfter(i, user.id))
      \/ sessions' = SessionsAfter(i, user.id) /\ UNCHANGED accounts
  BY DEF UpdateUser
<1>5. HasEnabledAdmin(value.users) /\ \A u \in Users : u.name = name => u.id = user.id
  BY DEF UpdateUser, NameTaken
<1> HIDE DEF changed, value
<1>6. IsFiniteSet(value.users) /\ Cardinality(value.users) <= MaximumUsers
  <2>1. /\ IsFiniteSet(Users \ {user}) /\ Cardinality(Users \ {user}) = Cardinality(Users) - 1
        /\ Cardinality(Users) \in Nat
    BY <1>1, FS_RemoveElement, FS_CardinalityType
  <2> DEFINE rest == Users \ {user}
  <2>2. /\ IsFiniteSet(rest \cup {changed})
        /\ Cardinality(rest \cup {changed}) \in {Cardinality(rest), Cardinality(rest) + 1}
    BY <2>1, OneMore
  <2>3. value.users = rest \cup {changed}
    BY <1>3
  <2>4. Cardinality(rest) = Cardinality(Users) - 1
    BY <2>1
  <2> HIDE DEF rest
  <2> QED
    BY <1>1, <2>1, <2>2, <2>3, <2>4, LimitsAssumption DEF ValidAccounts
<1>7. \A u, v \in value.users : u # v => u.id # v.id /\ u.name # v.name
  BY <1>1, <1>2, <1>3, <1>5 DEF ValidAccounts
<1>8. \A u \in value.users : u.id < value.nextUserId
  BY <1>1, <1>2, <1>3 DEF ValidAccounts
<1>9. value \in WholeAccounts
  BY <1>1, <1>3, <1>5, <1>6, <1>7, <1>8 DEF WholeAccounts, ValidAccounts
<1>10. CASE Mutates(i, value, SessionsAfter(i, user.id))
  BY <1>3, <1>9, <1>10, SessionsOfOthers, MutatesKeeps
<1>11. CASE sessions' = SessionsAfter(i, user.id) /\ UNCHANGED accounts
  BY <1>11, SessionsOfOthers DEF WholeInv, SessionsInv, Users
<1> QED
  BY <1>4, <1>10, <1>11

LEMMA DeleteUserIsValid ==
  ASSUME WholeInv, NEW i \in DOMAIN sessions, NEW user \in Users, DeleteUser(i, user)
  PROVE  StoreInv(accounts', WholeAccounts) /\ SessionsInv'
<1> DEFINE value == [accounts.value EXCEPT !.users = @ \ {user}]
<1>1. /\ accounts.value \in Accounts /\ ValidAccounts(accounts.value)
      /\ IsFiniteSet(Users) /\ Users = accounts.value.users
  BY WholeValue DEF WholeAccounts
<1>2. /\ value \in Accounts /\ value.users = Users \ {user}
      /\ value.nextUserId = accounts.value.nextUserId
      /\ value.tokens = accounts.value.tokens
      /\ value.nextTokenId = accounts.value.nextTokenId
  BY <1>1 DEF Accounts
<1>3. HasEnabledAdmin(value.users) /\ Mutates(i, value, SessionsAfter(i, user.id))
  BY <1>2 DEF DeleteUser
<1> HIDE DEF value
<1>4. IsFiniteSet(value.users) /\ Cardinality(value.users) <= MaximumUsers
  <2>1. /\ IsFiniteSet(Users \ {user}) /\ Cardinality(Users \ {user}) = Cardinality(Users) - 1
        /\ Cardinality(Users) \in Nat
    BY <1>1, FS_RemoveElement, FS_CardinalityType
  <2> QED
    BY <1>1, <1>2, <2>1, LimitsAssumption DEF ValidAccounts
<1>5. value \in WholeAccounts
  BY <1>1, <1>2, <1>3, <1>4 DEF WholeAccounts, ValidAccounts
<1> QED
  BY <1>2, <1>3, <1>5, SessionsOfOthers, MutatesKeeps

LEMMA TokensAreValid ==
  ASSUME WholeInv, NEW i \in DOMAIN sessions,
         CreateToken(i) \/ \E id \in accounts.value.tokens : DeleteToken(i, id)
  PROVE  StoreInv(accounts', WholeAccounts) /\ SessionsInv'
<1>1. /\ accounts.value \in Accounts /\ ValidAccounts(accounts.value)
      /\ IsFiniteSet(Users) /\ Users = accounts.value.users
  BY WholeValue DEF WholeAccounts
<1>2. Touched(i) \in ListsOf(Current(Users))
  BY TouchedLists DEF WholeInv, SessionsInv
<1>3. CASE CreateToken(i)
  <2> DEFINE id == IF accounts.value.nextTokenId = 0 THEN 1 ELSE accounts.value.nextTokenId
             value == [accounts.value EXCEPT !.tokens = @ \cup {id}, !.nextTokenId = id + 1]
  <2>1. id \in 1 .. MaxTokenId /\ id + 1 \in 0 .. MaxTokenId
    BY <1>1, <1>3, LimitsAssumption DEF CreateToken, Accounts
  <2>2. /\ value \in Accounts /\ value.users = Users
        /\ value.nextUserId = accounts.value.nextUserId
        /\ value.tokens = accounts.value.tokens \cup {id} /\ value.nextTokenId = id + 1
    BY <1>1, <2>1 DEF Accounts
  <2>3. Mutates(i, value, Touched(i))
    BY <1>3 DEF CreateToken
  <2>4. \A other \in accounts.value.tokens : other < id + 1
    BY <1>1, <2>1 DEF ValidAccounts, Accounts
  <2> HIDE DEF value, id
  <2>5. value \in WholeAccounts
    BY <1>1, <2>1, <2>2, <2>4 DEF WholeAccounts, ValidAccounts
  <2> QED
    BY <1>2, <2>2, <2>3, <2>5, MutatesKeeps
<1>4. ASSUME NEW id \in accounts.value.tokens, DeleteToken(i, id)
      PROVE  StoreInv(accounts', WholeAccounts) /\ SessionsInv'
  <2> DEFINE value == [accounts.value EXCEPT !.tokens = @ \ {id}]
  <2>1. /\ value \in Accounts /\ value.users = Users
        /\ value.nextUserId = accounts.value.nextUserId
        /\ value.tokens = accounts.value.tokens \ {id}
        /\ value.nextTokenId = accounts.value.nextTokenId
    BY <1>1 DEF Accounts
  <2>2. Mutates(i, value, Touched(i))
    BY <1>4 DEF DeleteToken
  <2> HIDE DEF value
  <2>3. value \in WholeAccounts
    BY <1>1, <2>1 DEF WholeAccounts, ValidAccounts
  <2> QED
    BY <1>2, <2>1, <2>2, <2>3, MutatesKeeps
<1> QED
  BY <1>3, <1>4

\* Setup runs while there are no users, so there are no sessions but the admin's.
LEMMA SetupAccountsIsValid ==
  ASSUME WholeInv, SetupAccounts
  PROVE  StoreInv(accounts', WholeAccounts) /\ SessionsInv'
<1> DEFINE admin == FirstAdmin(setup.name)
           value == [users |-> {admin}, nextUserId |-> 2, tokens |-> {}, nextTokenId |-> 0]
<1>1. setup.name \in Name /\ sessions = << >> /\ StoreInv(accounts, WholeAccounts)
  BY DEF WholeInv, AccountsInv, StageInv, SetupInv, UsersInv, SetupAccounts, SetupRequired
<1>2. admin \in User /\ admin.enabled /\ admin.role = "Admin" /\ admin.id = 1
  BY <1>1, LimitsAssumption DEF FirstAdmin, User, UserId, Role
<1>3. \/ accounts' = Saved(accounts, value) /\ sessions' = Open(sessions, SessionOf(admin))
      \/ accounts' \in NotSaved(accounts, value) /\ UNCHANGED sessions
  BY DEF SetupAccounts
<1>4. /\ value = [users |-> {admin}, nextUserId |-> 2, tokens |-> {}, nextTokenId |-> 0]
      /\ value.users = {admin} /\ value.nextUserId = 2
      /\ value.tokens = {} /\ value.nextTokenId = 0
  OBVIOUS
<1> HIDE DEF value, admin
<1>5. value \in Accounts
  <2>1. /\ {admin} \subseteq User /\ 2 \in 0 .. MaxUserId
        /\ {} \subseteq 1 .. MaxTokenId /\ 0 \in 0 .. MaxTokenId
    BY <1>2, LimitsAssumption
  <2> QED
    BY <1>4, <2>1 DEF Accounts
<1>6. IsFiniteSet({admin}) /\ Cardinality({admin}) = 1
  BY FS_Singleton
<1>7. value \in WholeAccounts
  BY <1>2, <1>4, <1>5, <1>6, LimitsAssumption
     DEF WholeAccounts, ValidAccounts, HasEnabledAdmin
<1>8. SessionOf(admin) \in Current(value.users)
  BY <1>2, <1>4 DEF Current, SessionOf, Session, User
<1>9. sessions \in Seq(Current(value.users)) /\ Len(sessions) <= MaximumSessions
  BY <1>1, EmptySeq, LimitsAssumption
<1>10. Open(sessions, SessionOf(admin)) \in ListsOf(Current(value.users))
  BY <1>8, <1>9, OpenedLists DEF ListsOf
<1>11. CASE accounts' = Saved(accounts, value) /\ sessions' = Open(sessions, SessionOf(admin))
  BY <1>1, <1>7, <1>10, <1>11, WholeMarks, SavedInv DEF SessionsInv, Users
<1>12. CASE accounts' \in NotSaved(accounts, value) /\ UNCHANGED sessions
  BY <1>1, <1>7, <1>12, WholeMarks, NotSavedInv DEF WholeInv, SessionsInv, Users
<1> QED
  BY <1>3, <1>11, <1>12

\* Steps that leave the accounts alone: sessions are opened, used and closed.
LEMMA SessionStepIsValid ==
  ASSUME WholeInv,
         \/ \E user \in Users : Login(user)
         \/ SessionExpires
         \/ \E i \in DOMAIN sessions :
              \/ UseSession(i) \/ Logout(i)
              \/ \E setting \in Setting : UpdateSettings(i, setting)
              \/ \E key \in Key : ResetRadioNetwork(i, key)
  PROVE  accounts' = accounts /\ SessionsInv'
<1>1. /\ sessions \in Seq(Current(Users)) /\ Len(sessions) <= MaximumSessions
      /\ Len(sessions) \in Nat /\ DOMAIN sessions = 1 .. Len(sessions)
      /\ sessions \in ListsOf(Current(Users))
  BY LenProperties DEF WholeInv, SessionsInv, ListsOf
<1>2. accounts' = accounts
  BY DEF Login, SessionExpires, UseSession, Logout, UpdateSettings, ResetRadioNetwork
<1>3. SUFFICES sessions' \in ListsOf(Current(Users))
  BY <1>2 DEF SessionsInv, Users
<1>4. ASSUME NEW user \in Users, Login(user)
      PROVE  sessions' \in ListsOf(Current(Users))
  <2>1. user \in User
    BY WholeValue DEF WholeAccounts, Accounts
  <2>2. SessionOf(user) \in Current(Users)
    BY <1>4, <2>1 DEF Login, CanLogIn, Current, SessionOf, Session, User
  <2> QED
    BY <1>1, <1>4, <2>2, OpenedLists DEF Login, ListsOf
<1>5. CASE SessionExpires
  BY <1>1, <1>5, HeadTailProperties, LimitsAssumption DEF SessionExpires, ListsOf
<1>6. ASSUME NEW i \in DOMAIN sessions,
             \/ UseSession(i)
             \/ \E setting \in Setting : UpdateSettings(i, setting)
             \/ \E key \in Key : ResetRadioNetwork(i, key)
      PROVE  sessions' \in ListsOf(Current(Users))
  BY <1>1, <1>6, TouchedLists DEF UseSession, UpdateSettings, ResetRadioNetwork
<1>7. ASSUME NEW i \in DOMAIN sessions, Logout(i)
      PROVE  sessions' \in ListsOf(Current(Users))
  BY <1>1, <1>7, RemovedLists, LimitsAssumption DEF Logout, ListsOf
<1> QED
  BY <1>4, <1>5, <1>6, <1>7

\* A boot, of the stores as they are or erased, starts without sessions.
LEMMA BootIsValid ==
  ASSUME WholeInv, Restart \/ FactoryReset
  PROVE  StoreInv(accounts', WholeAccounts) /\ SessionsInv'
<1>1. NoAccounts \in WholeAccounts
  <2>1. NoAccounts \in Accounts
    BY LimitsAssumption DEF NoAccounts, Accounts
  <2> QED
    BY <2>1, FS_EmptySet, LimitsAssumption DEF NoAccounts, WholeAccounts, ValidAccounts
<1>2. sessions' = << >>
  BY DEF Restart, FactoryReset, Boot
<1>3. SessionsInv'
  BY <1>2, EmptySeq, LimitsAssumption DEF SessionsInv, ListsOf
<1>4. CASE Restart
  <2>1. accounts' = Load(accounts.slots, NoAccounts) /\ StoreInv(accounts, WholeAccounts)
    BY <1>4 DEF WholeInv, Restart, Boot
  <2>2. StoreInv(Load(accounts.slots, NoAccounts), WholeAccounts)
    BY <1>1, <2>1, WholeMarks, LoadInv
  <2> QED
    BY <1>3, <2>1, <2>2
<1>5. CASE FactoryReset
  <2>1. accounts' = Load(Erased, NoAccounts)
    BY <1>5 DEF FactoryReset, Boot
  <2>2. StoreInv(Load(Erased, NoAccounts), WholeAccounts)
    BY <1>1, WholeMarks, ErasedInv
  <2> QED
    BY <1>3, <2>1, <2>2
<1> QED
  BY <1>3, <1>4, <1>5

LEMMA InitIsWhole ==
  ASSUME Init
  PROVE  WholeInv
<1>1. NoAccounts \in WholeAccounts
  <2>1. NoAccounts \in Accounts
    BY LimitsAssumption DEF NoAccounts, Accounts
  <2> QED
    BY <2>1, FS_EmptySet, LimitsAssumption DEF NoAccounts, WholeAccounts, ValidAccounts
<1>2. StoreInv(accounts, WholeAccounts)
  BY <1>1, WholeMarks, ErasedInv DEF Init
<1>3. SessionsInv
  BY EmptySeq, LimitsAssumption DEF Init, SessionsInv, ListsOf
<1>4. StageInv
  BY DEF Init, StageInv, NoSetup
<1> QED
  BY <1>2, <1>3, <1>4, AccountsInit DEF WholeInv

LEMMA StageStep ==
  ASSUME WholeInv, [Next]_vars
  PROVE  StageInv'
<1>1. ASSUME NEW i \in DOMAIN sessions, NEW value, NEW list, Mutates(i, value, list)
      PROVE  StageInv'
  BY <1>1 DEF WholeInv, StageInv, Mutates, AsAdmin, WebIdle
<1>2. ASSUME NEW i \in DOMAIN sessions, NEW user \in Users, NEW name \in Name, NEW role \in Role,
             NEW enabled \in BOOLEAN, UpdateUser(i, user, name, role, enabled)
      PROVE  StageInv'
  <2>1. \/ \E value, list : Mutates(i, value, list)
        \/ UNCHANGED <<accounts, ready, window, setup>>
    BY <1>2 DEF UpdateUser
  <2> QED
    BY <1>1, <2>1 DEF WholeInv, StageInv, SetupRequired, Users
<1>3. ASSUME NEW i \in DOMAIN sessions,
             \/ \E name \in Name, role \in Role, enabled \in BOOLEAN :
                  CreateUser(i, name, role, enabled)
             \/ \E user \in Users : DeleteUser(i, user)
             \/ CreateToken(i)
             \/ \E id \in accounts.value.tokens : DeleteToken(i, id)
      PROVE  StageInv'
  BY <1>1, <1>3 DEF CreateUser, DeleteUser, CreateToken, DeleteToken
<1>4. ASSUME NEW i \in DOMAIN sessions,
             \/ UseSession(i) \/ Logout(i)
             \/ \E setting \in Setting : UpdateSettings(i, setting)
             \/ \E key \in Key : ResetRadioNetwork(i, key)
      PROVE  StageInv'
  BY <1>4 DEF WholeInv, StageInv, SetupRequired, Users, UseSession, Logout, UpdateSettings,
              ResetRadioNetwork
<1>5. CASE ToggleSetup \/ SetupExpires \/ SessionExpires \/ \E user \in Users : Login(user)
  BY <1>5 DEF WholeInv, StageInv, SetupRequired, Users, ToggleSetup, SetupExpires,
              SessionExpires, Login
<1>6. ASSUME NEW name \in Name, NEW key \in Key, NEW setting \in Setting,
             BeginSetup(name, key, setting)
      PROVE  StageInv'
  BY <1>6 DEF WholeInv, StageInv, SetupRequired, Users, BeginSetup
<1>7. CASE SetupSecrets \/ SetupSettings
  <2>1. /\ UNCHANGED <<accounts, ready, window>> /\ setup.stage # "none"
        /\ \/ setup' = [setup EXCEPT !.stage = "settings"]
           \/ setup' = [setup EXCEPT !.stage = "accounts"]
           \/ setup' = NoSetup
    BY <1>7 DEF SetupSecrets, SetupSettings, SetupSaves
  <2>2. UsersInv /\ SetupRequired /\ setup.stage \in {"secrets", "settings"}
    BY <1>7, <2>1 DEF WholeInv, StageInv, AccountsInv, SetupSecrets, SetupSettings
  <2>3. setup'.stage \in {"none", "settings", "accounts"}
    <3>1. CASE setup' = NoSetup
      BY <3>1 DEF NoSetup
    <3>2. ASSUME NEW stage \in {"settings", "accounts"}, setup' = [setup EXCEPT !.stage = stage]
          PROVE  setup'.stage = stage
      BY <3>2, <2>2
    <3> QED
      BY <2>1, <3>1, <3>2
  <2> QED
    BY <2>1, <2>2, <2>3 DEF WholeInv, StageInv, SetupRequired, Users
<1>8. CASE SetupAccounts \/ Restart \/ FactoryReset
  <2>1. setup' = NoSetup /\ ready' \in BOOLEAN /\ window' \in BOOLEAN
    BY <1>8 DEF WholeInv, StageInv, SetupAccounts, Restart, FactoryReset, Boot
  <2> QED
    BY <2>1 DEF StageInv, NoSetup
<1>9. CASE UNCHANGED vars
  BY <1>9 DEF vars, WholeInv, StageInv, SetupRequired, Users
<1> QED
  BY <1>2, <1>3, <1>4, <1>5, <1>6, <1>7, <1>8, <1>9 DEF Next

LEMMA WholeStep ==
  ASSUME WholeInv, [Next]_vars
  PROVE  WholeInv'
<1>1. AccountsInv' /\ StageInv'
  BY AccountsStep, StageStep DEF WholeInv
<1>2. SUFFICES StoreInv(accounts', WholeAccounts) /\ SessionsInv'
  BY <1>1 DEF WholeInv
<1>3. CASE UNCHANGED <<accounts, sessions>>
  BY <1>3 DEF WholeInv, SessionsInv, Users
<1>4. CASE \/ ToggleSetup \/ SetupExpires \/ SetupSecrets \/ SetupSettings \/ UNCHANGED vars
           \/ \E name \in Name, key \in Key, setting \in Setting : BeginSetup(name, key, setting)
  BY <1>3, <1>4 DEF ToggleSetup, SetupExpires, SetupSecrets, SetupSettings, BeginSetup, vars
<1>5. CASE \/ \E user \in Users : Login(user)
           \/ SessionExpires
           \/ \E i \in DOMAIN sessions :
                \/ UseSession(i) \/ Logout(i)
                \/ \E setting \in Setting : UpdateSettings(i, setting)
                \/ \E key \in Key : ResetRadioNetwork(i, key)
  BY <1>5, SessionStepIsValid DEF WholeInv
<1>6. ASSUME NEW i \in DOMAIN sessions, NEW name \in Name, NEW role \in Role,
             NEW enabled \in BOOLEAN,
             \/ CreateUser(i, name, role, enabled)
             \/ \E user \in Users : UpdateUser(i, user, name, role, enabled)
      PROVE  StoreInv(accounts', WholeAccounts) /\ SessionsInv'
  BY <1>6, CreateUserIsValid, UpdateUserIsValid
<1>7. ASSUME NEW i \in DOMAIN sessions,
             \/ \E user \in Users : DeleteUser(i, user)
             \/ CreateToken(i)
             \/ \E id \in accounts.value.tokens : DeleteToken(i, id)
      PROVE  StoreInv(accounts', WholeAccounts) /\ SessionsInv'
  BY <1>7, DeleteUserIsValid, TokensAreValid
<1> QED
  BY <1>4, <1>5, <1>6, <1>7, SetupAccountsIsValid, BootIsValid DEF Next

LEMMA WholeInvariance == Spec => []WholeInv
<1>1. Init => WholeInv
  BY InitIsWhole
<1>2. WholeInv /\ [Next]_vars => WholeInv'
  BY WholeStep
<1> QED
  BY <1>1, <1>2, PTL DEF Spec

\* Type correctness; what decodes from a slot is what validateAuthentication() accepts.
THEOREM AccountsTypeOK == Spec => []TypeOK
<1>1. WholeInv => TypeOK
  BY WholeInvShows
<1> QED
  BY <1>1, WholeInvariance, PTL

\* Every session is that of an enabled user as he is now, for any number of users
\* and sessions, and whatever saves of their changes fail (invalidateUserSessions).
THEOREM SessionsStayCurrent == Spec => []SessionsMatchAccounts
<1>1. WholeInv => SessionsMatchAccounts
  BY WholeInvShows
<1> QED
  BY <1>1, WholeInvariance, PTL

=============================================================================
