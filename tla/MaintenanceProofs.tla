----------------------- MODULE MaintenanceProofs -----------------------
(***************************************************************************)
(* What survives failed writes and power cuts in factory reset, restore,   *)
(* setup and network reset: one installation, nothing from before a reset, *)
(* the whole of a backup, and no users or nodes lost.                      *)
(***************************************************************************)
EXTENDS Maintenance, TLAPS

\* Who works in which mode, and what the marker says meanwhile.
WorkInv ==
  /\ mode = "erasing" <=> work.at = "boot"
  /\ work.at = "boot" => work.step \in 1 .. 6 /\ marker = "reset"
  /\ work.at \in {"setup", "export", "network"} => mode = "idle"
  /\ work.at \in {"setup", "network"} => work.step \in 1 .. 3
  /\ At("setup", 1) \/ work.at = "network" => Unused # {}
  /\ work.at = "restore" =>
       /\ backup.key \in Key
       /\ \/ work.step = 1 /\ mode = "idle"
          \/ work.step \in 2 .. 11 /\ mode = "restore" /\ marker = "restore"
  /\ mode \in {"loading", "idle"} => marker = "idle"
  /\ mode \in {"restore", "restarting"} => marker # "reset"
  /\ mode \in {"begin", "erasing", "loading"} => ~pairing

\* What the erasing has done so far; and only it leaves old content to erase.
EraseInv ==
  /\ marker # "reset" => old = {}
  /\ work.at = "boot" =>
       \A i \in 1 .. 5 : i < work.step =>
         flash[EraseOrder[i]] = Empty /\ EraseOrder[i] \notin old

\* What a restore has written so far, and that it found nothing to erase.
RestoreInv ==
  /\ RestoreIsComplete
  /\ work.at = "restore" /\ mode = "restore" =>
       /\ work.step <= 7 => flash["registry"] = Empty
       /\ work.step <= 10 => flash["auth"] = Empty
       /\ work.step >= 7 => flash["commands"] = Empty
       /\ work.step >= 8 => flash["registry"] = backup.registry
       /\ work.step >= 10 => flash["secrets"] = backup.key
       /\ work.step >= 11 => flash["auth"] = Written

\* What a running gateway knows of its flash.
RamInv ==
  mode = "idle" =>
    /\ ram.users => flash["auth"] = Written /\ ram.key \in Key
    /\ ram.key \in Key =>
         /\ ram.ready /\ flash["secrets"] \in Key
         /\ ~doubtful => flash["secrets"] = ram.key
    /\ ram.ready /\ ram.key = NoKey => flash["registry"] = Empty /\ flash["auth"] = Empty
    /\ ram.registry # Empty => flash["auth"] = Written /\ flash["secrets"] \in Key
    /\ flash["registry"] \in Key => ram.registry # Empty
    /\ ~doubtful /\ {ram.registry, ram.key} \subseteq Key => ram.registry = ram.key
    /\ pairing => ram.users
    /\ work.at = "setup" /\ work.step > 1 => ram.key \in Key
    /\ work.at = "network" => ram.users /\ (work.step > 1 => ram.registry = Empty)

\* Only a node with the gateway's own key is confirmed.
RadioInv ==
  mode = "idle" =>
    /\ radio \in Key => ram.key \in Key
    /\ ram.registry = Pending /\ joiner \in Key /\ joiner = radio => joiner = ram.key

\* An installation, on flash, in a file and in an export under way.
InstallationInv ==
  /\ OneInstallation
  /\ marker = "idle" /\ flash["auth"] = Written => flash["secrets"] \in Key
  /\ ~doubtful /\ work.file.registry \in Key => work.file.registry = work.file.key

MaintenanceInv ==
  TypeOK /\ WorkInv /\ EraseInv /\ RestoreInv /\ RamInv /\ RadioInv /\ InstallationInv

-----------------------------------------------------------------------------
(* The parts of the steps *)

WorkType == [at : {"idle", "boot", "setup", "export", "restore", "network"},
             step : 0 .. 11, file : Backup]
RamType == [ready : BOOLEAN, users : BOOLEAN, key : Key \cup {NoKey},
            registry : Key \cup {Pending, Empty}]

\* What may be found on flash.
FlashOK(f) ==
  /\ DOMAIN f = Stores
  /\ \A s \in {"config", "auth", "commands"} : f[s] \in {Empty, Written}
  /\ f["secrets"] \in Key \cup {NoKey, Empty}
  /\ f["registry"] \in Key \cup {Pending, Empty}

\* The work at rest and the gateway without power have their types.
LEMMA Resting ==
  /\ Idle \in WorkType /\ Idle.at = "idle" /\ Idle.file.registry = Empty
  /\ Off \in RamType
BY DEF Idle, NoFile, Off, WorkType, RamType, Backup

\* A write that succeeds has reached the flash.
LEMMA OutcomeCases ==
  ASSUME NEW o \in Outcome
  PROVE  o.ok \in BOOLEAN /\ o.reached \in BOOLEAN /\ (o.ok => o.reached)
<1>1. CASE o = [ok |-> TRUE, reached |-> TRUE]
  BY <1>1
<1>2. CASE o = [ok |-> FALSE, reached |-> FALSE]
  BY <1>2
<1>3. CASE o = [ok |-> FALSE, reached |-> TRUE]
  BY <1>3
<1> QED
  BY <1>1, <1>2, <1>3 DEF Outcome

\* The outcome of a write leaves the number of faults within its bound.
LEMMA HappensType ==
  ASSUME TypeOK, NEW o \in Outcome, Happens(o)
  PROVE  faults' \in 0 .. MaxFaults
BY OutcomeCases, FaultsAssumption DEF TypeOK, Happens

\* A handler that goes on changes the work and nothing it holds.
LEMMA GoToEffect ==
  ASSUME TypeOK, NEW handler \in {"boot", "setup", "restore", "network"},
         NEW step \in 0 .. 11, GoTo(handler, step)
  PROVE  /\ work' \in WorkType
         /\ work'.at = handler /\ work'.step = step /\ work'.file = work.file
BY DEF TypeOK, WorkType, GoTo

\* A write of one store.
LEMMA PutEffect ==
  ASSUME TypeOK, NEW s \in Stores, NEW value, NEW o \in Outcome, Put(s, value, o)
  PROVE  /\ DOMAIN flash' = Stores
         /\ flash'[s] = value \/ flash'[s] = flash[s]
         /\ o.ok => flash'[s] = value /\ s \notin old'
         /\ \A t \in Stores : t # s => flash'[t] = flash[t]
         /\ old' \subseteq old
BY OutcomeCases DEF TypeOK, Put

\* A write of the marker changes it, or nothing; with a reset, all content is old.
LEMMA MarkEffect ==
  ASSUME TypeOK, NEW value \in {"idle", "restore", "reset"}, NEW o \in Outcome, Mark(value, o)
  PROVE  /\ o.ok => marker' = value
         /\ \/ marker' = marker /\ old' = old
            \/ marker' = value /\ old' \in SUBSET Stores /\ (value # "reset" => old' = old)
BY OutcomeCases DEF TypeOK, Mark

\* A new key is one that nothing holds.
LEMMA FreshKeyIsUnused ==
  ASSUME Unused # {}
  PROVE  FreshKey \in Unused /\ FreshKey \in Key
BY DEF FreshKey, Unused

-----------------------------------------------------------------------------
(* The steps *)

\* begin() reads the marker and starts the erasing or the loading.
LEMMA ReadMarkerStep ==
  ASSUME MaintenanceInv, NEW readable \in BOOLEAN, ReadMarker(readable)
  PROVE  MaintenanceInv'
<1>1. \/ mode' = "unavailable" /\ ~readable
      \/ mode' = "erasing" /\ marker = "reset"
      \/ mode' = "restore" /\ marker = "restore"
      \/ mode' = "loading" /\ marker = "idle"
  BY DEF MaintenanceInv, TypeOK, ReadMarker
<1>2. mode' = "erasing" => GoTo("boot", 1)
  BY DEF ReadMarker
<1>3. mode' = "erasing" =>
        /\ work' \in WorkType
        /\ work'.at = "boot" /\ work'.step = 1 /\ work'.file = work.file
  BY <1>2, GoToEffect DEF MaintenanceInv
<1>4. faults' \in 0 .. MaxFaults
  BY FaultsAssumption DEF MaintenanceInv, TypeOK, ReadMarker
<1>5. TypeOK'
  BY <1>3, <1>4 DEF MaintenanceInv, TypeOK, ReadMarker, WorkType
<1>6. WorkInv' /\ EraseInv' /\ RestoreInv'
  BY <1>1, <1>3
  DEF MaintenanceInv, WorkInv, EraseInv, RestoreInv, RestoreIsComplete, ReadMarker, At
<1>7. RamInv' /\ RadioInv' /\ InstallationInv'
  BY <1>1, <1>3
  DEF MaintenanceInv, RamInv, RadioInv, InstallationInv, OneInstallation, ReadMarker
<1> QED
  BY <1>5, <1>6, <1>7 DEF MaintenanceInv

\* The boot erases one store of a recorded reset.
LEMMA BootErasesStep ==
  ASSUME MaintenanceInv, NEW o \in Outcome, BootErases(o)
  PROVE  MaintenanceInv'
<1>1. faults' \in 0 .. MaxFaults
  BY HappensType DEF MaintenanceInv, BootErases
<1>2. /\ Idle \in WorkType /\ Idle.at = "idle" /\ Idle.file.registry = Empty
      /\ Off \in RamType
  BY Resting
<1>3. work.at = "boot" /\ work.step \in 1 .. 5
  BY DEF BootErases, At, EraseOrder
<1>4. /\ DOMAIN flash' = Stores
      /\ flash'[EraseOrder[work.step]] = Empty \/ flash'[EraseOrder[work.step]] = flash[EraseOrder[work.step]]
      /\ o.ok => flash'[EraseOrder[work.step]] = Empty /\ EraseOrder[work.step] \notin old'
      /\ \A t \in Stores : t # EraseOrder[work.step] => flash'[t] = flash[t]
      /\ old' \subseteq old
  BY <1>3, PutEffect DEF MaintenanceInv, BootErases, EraseOrder, Stores
<1>5. o.ok =>
        /\ work' \in WorkType
        /\ work'.at = "boot" /\ work'.step = work.step + 1 /\ work'.file = work.file
  BY <1>3, GoToEffect DEF MaintenanceInv, BootErases
<1>6. TypeOK'
  BY <1>1, <1>2, <1>4, <1>5 DEF MaintenanceInv, TypeOK, BootErases, Stores, WorkType
<1>7. WorkInv' /\ EraseInv' /\ RestoreInv'
  BY <1>2, <1>4, <1>5
  DEF MaintenanceInv, WorkInv, EraseInv, RestoreInv, RestoreIsComplete, BootErases,
      EraseOrder, Stores, At
<1>8. RamInv' /\ RadioInv' /\ InstallationInv'
  BY <1>2, <1>3, <1>5, KeyAssumption
  DEF MaintenanceInv, WorkInv, RamInv, RadioInv, InstallationInv, OneInstallation,
      BootErases
<1> QED
  BY <1>6, <1>7, <1>8 DEF MaintenanceInv

\* The boot records that everything is erased.
LEMMA BootErasedStep ==
  ASSUME MaintenanceInv, NEW o \in Outcome, BootErased(o)
  PROVE  MaintenanceInv'
<1>1. faults' \in 0 .. MaxFaults
  BY HappensType DEF MaintenanceInv, BootErased
<1>2. /\ Idle \in WorkType /\ Idle.at = "idle" /\ Idle.file.registry = Empty
      /\ Off \in RamType
  BY Resting
<1>3. /\ o.ok => marker' = "idle"
      /\ \/ marker' = marker /\ old' = old
         \/ marker' = "idle" /\ old' \in SUBSET Stores /\ old' = old
  BY MarkEffect DEF MaintenanceInv, BootErased
<1>4. marker' \in {"idle", "restore", "reset"} /\ old' \subseteq Stores
  BY <1>3 DEF MaintenanceInv, TypeOK
<1>5. TypeOK'
  BY <1>1, <1>2, <1>4 DEF MaintenanceInv, TypeOK, BootErased, WorkType
<1>6. WorkInv' /\ EraseInv' /\ RestoreInv'
  BY <1>2, <1>3
  DEF MaintenanceInv, WorkInv, EraseInv, RestoreInv, RestoreIsComplete, BootErased, At,
      EraseOrder, Stores
<1>7. RamInv' /\ RadioInv' /\ InstallationInv'
  BY <1>2, KeyAssumption, EmptyAssumption
  DEF MaintenanceInv, EraseInv, RamInv, RadioInv, InstallationInv, OneInstallation,
      BootErased, At, EraseOrder
<1> QED
  BY <1>5, <1>6, <1>7 DEF MaintenanceInv

\* The services load their stores; missing secrets are created.
LEMMA LoadStep ==
  ASSUME MaintenanceInv, NEW o \in Outcome, Load(o)
  PROVE  MaintenanceInv'
<1>1. o.ok \in BOOLEAN /\ o.reached \in BOOLEAN /\ (o.ok => o.reached)
  BY OutcomeCases
<1>2. faults' \in 0 .. MaxFaults
  BY HappensType DEF MaintenanceInv, Load
<1>3. flash["secrets"] = Empty =>
        /\ DOMAIN flash' = Stores
        /\ flash'["secrets"] = NoKey \/ flash'["secrets"] = flash["secrets"]
        /\ o.ok => flash'["secrets"] = NoKey /\ "secrets" \notin old'
        /\ \A t \in Stores : t # "secrets" => flash'[t] = flash[t]
        /\ old' \subseteq old
  BY PutEffect DEF MaintenanceInv, Load, Stores
<1>4. flash["secrets"] # Empty => UNCHANGED <<flash, old>>
  BY DEF Load
<1>5. FlashOK(flash') /\ old' \subseteq Stores
  BY <1>3, <1>4 DEF MaintenanceInv, TypeOK, FlashOK, Stores
<1>6. TypeOK'
  BY <1>1, <1>2, <1>3, <1>5 DEF MaintenanceInv, TypeOK, Load, Stores
<1>7. WorkInv' /\ EraseInv' /\ RestoreInv'
  BY <1>3 DEF MaintenanceInv, WorkInv, EraseInv, RestoreInv, RestoreIsComplete, Load, At
<1>8. RamInv' /\ RadioInv' /\ InstallationInv'
  BY <1>3, KeyAssumption
  DEF MaintenanceInv, TypeOK, WorkInv, RamInv, RadioInv, InstallationInv,
      OneInstallation, Load, Stores
<1> QED
  BY <1>6, <1>7, <1>8 DEF MaintenanceInv

\* A factory reset records itself and restarts.
LEMMA FactoryResetStep ==
  ASSUME MaintenanceInv, NEW o \in Outcome, FactoryReset(o)
  PROVE  MaintenanceInv'
<1>1. faults' \in 0 .. MaxFaults
  BY HappensType DEF MaintenanceInv, FactoryReset
<1>2. /\ Idle \in WorkType /\ Idle.at = "idle" /\ Idle.file.registry = Empty
      /\ Off \in RamType
  BY Resting
<1>3. /\ o.ok => marker' = "reset"
      /\ \/ marker' = marker /\ old' = old
         \/ marker' = "reset" /\ old' \in SUBSET Stores
  BY MarkEffect DEF MaintenanceInv, FactoryReset
<1>4. window' \in BOOLEAN /\ pairing' \in BOOLEAN /\ due' \in BOOLEAN /\ doubtful' \in BOOLEAN
  BY DEF MaintenanceInv, TypeOK, FactoryReset, PoweredOff
<1>5. marker' \in {"idle", "restore", "reset"} /\ old' \subseteq Stores
  BY <1>3 DEF MaintenanceInv, TypeOK
<1>6. TypeOK'
  BY <1>1, <1>2, <1>4, <1>5
  DEF MaintenanceInv, TypeOK, FactoryReset, PoweredOff, WorkType, RamType
<1>7. WorkInv' /\ EraseInv' /\ RestoreInv'
  BY <1>2, <1>3
  DEF MaintenanceInv, WorkInv, EraseInv, RestoreInv, RestoreIsComplete, FactoryReset,
      PoweredOff, Guarded, Busy, At
<1>8. RamInv' /\ RadioInv' /\ InstallationInv'
  BY <1>2, <1>3, KeyAssumption
  DEF MaintenanceInv, RamInv, RadioInv, InstallationInv, OneInstallation, FactoryReset,
      PoweredOff
<1> QED
  BY <1>6, <1>7, <1>8 DEF MaintenanceInv

\* A restart forgets what RAM held.
LEMMA RestartStep ==
  ASSUME MaintenanceInv, Restart
  PROVE  MaintenanceInv'
<1>1. /\ Idle \in WorkType /\ Idle.at = "idle" /\ Idle.file.registry = Empty
      /\ Off \in RamType
  BY Resting
<1>2. window' \in BOOLEAN /\ pairing' \in BOOLEAN /\ due' \in BOOLEAN /\ doubtful' \in BOOLEAN
  BY DEF MaintenanceInv, TypeOK, Restart, PoweredOff
<1>3. TypeOK'
  BY <1>1, <1>2 DEF MaintenanceInv, TypeOK, Restart, PoweredOff, WorkType, RamType
<1>4. WorkInv' /\ EraseInv' /\ RestoreInv'
  BY <1>1
  DEF MaintenanceInv, WorkInv, EraseInv, RestoreInv, RestoreIsComplete, Restart,
      PoweredOff, At
<1>5. RamInv' /\ RadioInv' /\ InstallationInv'
  BY <1>1, KeyAssumption
  DEF MaintenanceInv, RamInv, RadioInv, InstallationInv, OneInstallation, Restart,
      PoweredOff
<1> QED
  BY <1>3, <1>4, <1>5 DEF MaintenanceInv

\* A power cut forgets what RAM held.
LEMMA PowerCutStep ==
  ASSUME MaintenanceInv, PowerCut
  PROVE  MaintenanceInv'
<1>1. /\ Idle \in WorkType /\ Idle.at = "idle" /\ Idle.file.registry = Empty
      /\ Off \in RamType
  BY Resting
<1>2. window' \in BOOLEAN /\ pairing' \in BOOLEAN /\ due' \in BOOLEAN /\ doubtful' \in BOOLEAN
  BY DEF MaintenanceInv, TypeOK, PowerCut, PoweredOff
<1>3. faults' \in 0 .. MaxFaults
  BY FaultsAssumption DEF MaintenanceInv, TypeOK, PowerCut
<1>4. TypeOK'
  BY <1>1, <1>2, <1>3 DEF MaintenanceInv, TypeOK, PowerCut, PoweredOff, WorkType, RamType
<1>5. WorkInv' /\ EraseInv' /\ RestoreInv'
  BY <1>1
  DEF MaintenanceInv, WorkInv, EraseInv, RestoreInv, RestoreIsComplete, PowerCut,
      PoweredOff, At
<1>6. RamInv' /\ RadioInv' /\ InstallationInv'
  BY <1>1, KeyAssumption
  DEF MaintenanceInv, RamInv, RadioInv, InstallationInv, OneInstallation, PowerCut,
      PoweredOff
<1> QED
  BY <1>4, <1>5, <1>6 DEF MaintenanceInv

\* The setup button.
LEMMA ToggleSetupStep ==
  ASSUME MaintenanceInv, ToggleSetup
  PROVE  MaintenanceInv'
<1>1. TypeOK'
  BY DEF MaintenanceInv, TypeOK, ToggleSetup
<1>2. WorkInv' /\ EraseInv' /\ RestoreInv'
  BY DEF MaintenanceInv, WorkInv, EraseInv, RestoreInv, RestoreIsComplete, ToggleSetup,
         At, Unused
<1>3. RamInv' /\ RadioInv' /\ InstallationInv'
  BY DEF MaintenanceInv, RamInv, RadioInv, InstallationInv, OneInstallation, ToggleSetup
<1> QED
  BY <1>1, <1>2, <1>3 DEF MaintenanceInv

\* The setup window closes.
LEMMA ExpireSetupStep ==
  ASSUME MaintenanceInv, ExpireSetup
  PROVE  MaintenanceInv'
<1>1. window' \in BOOLEAN /\ pairing' \in BOOLEAN /\ due' \in BOOLEAN /\ doubtful' \in BOOLEAN
  BY DEF MaintenanceInv, TypeOK, ExpireSetup
<1>2. TypeOK'
  BY <1>1 DEF MaintenanceInv, TypeOK, ExpireSetup
<1>3. WorkInv' /\ EraseInv' /\ RestoreInv'
  BY DEF MaintenanceInv, WorkInv, EraseInv, RestoreInv, RestoreIsComplete, ExpireSetup,
         At, Unused
<1>4. RamInv' /\ RadioInv' /\ InstallationInv'
  BY DEF MaintenanceInv, RamInv, RadioInv, InstallationInv, OneInstallation, ExpireSetup
<1> QED
  BY <1>2, <1>3, <1>4 DEF MaintenanceInv

\* The initial setup begins.
LEMMA StartSetupStep ==
  ASSUME MaintenanceInv, StartSetup
  PROVE  MaintenanceInv'
<1>1. /\ work' \in WorkType
      /\ work'.at = "setup" /\ work'.step = 1 /\ work'.file = work.file
  BY GoToEffect DEF MaintenanceInv, StartSetup
<1>2. TypeOK'
  BY <1>1 DEF MaintenanceInv, TypeOK, StartSetup, WorkType
<1>3. WorkInv' /\ EraseInv' /\ RestoreInv'
  BY <1>1
  DEF MaintenanceInv, WorkInv, EraseInv, RestoreInv, RestoreIsComplete, StartSetup,
      Free, Unused
<1>4. RamInv' /\ RadioInv' /\ InstallationInv'
  BY <1>1
  DEF MaintenanceInv, RamInv, RadioInv, InstallationInv, OneInstallation, StartSetup
<1> QED
  BY <1>2, <1>3, <1>4 DEF MaintenanceInv

\* The setup saves a new key.
LEMMA SetupKeyStep ==
  ASSUME MaintenanceInv, NEW o \in Outcome, SetupKey(o)
  PROVE  MaintenanceInv'
<1>1. /\ Idle \in WorkType /\ Idle.at = "idle" /\ Idle.file.registry = Empty
      /\ Off \in RamType
  BY Resting
<1>2. faults' \in 0 .. MaxFaults
  BY HappensType DEF MaintenanceInv, TypeOK, SetupKey, SaveKey
<1>3. FreshKey \in Unused /\ FreshKey \in Key
  BY FreshKeyIsUnused DEF MaintenanceInv, WorkInv, SetupKey
<1>4. SaveKey(FreshKey, o) =>
        /\ DOMAIN flash' = Stores
        /\ flash'["secrets"] = FreshKey \/ flash'["secrets"] = flash["secrets"]
        /\ o.ok => flash'["secrets"] = FreshKey /\ "secrets" \notin old'
        /\ \A t \in Stores : t # "secrets" => flash'[t] = flash[t]
        /\ old' \subseteq old
  BY PutEffect DEF MaintenanceInv, SetupKey, SaveKey, Stores
<1>5. o.ok =>
        /\ work' \in WorkType
        /\ work'.at = "setup" /\ work'.step = 2 /\ work'.file = work.file
  BY GoToEffect DEF MaintenanceInv, SetupKey
<1>6. TypeOK'
  BY <1>1, <1>2, <1>3, <1>4, <1>5
  DEF MaintenanceInv, TypeOK, SetupKey, SaveKey, Stores, WorkType
<1>7. WorkInv' /\ EraseInv' /\ RestoreInv'
  BY <1>1, <1>4, <1>5
  DEF MaintenanceInv, WorkInv, EraseInv, RestoreInv, RestoreIsComplete, SetupKey, At
<1>8. RamInv' /\ RadioInv' /\ InstallationInv'
  BY <1>1, <1>3, <1>4, <1>5, KeyAssumption
  DEF MaintenanceInv, TypeOK, WorkInv, RamInv, RadioInv, InstallationInv,
      OneInstallation, SetupKey, SaveKey, KeyLocked, At, Stores
<1> QED
  BY <1>6, <1>7, <1>8 DEF MaintenanceInv

\* The setup saves the settings.
LEMMA SetupSettingsStep ==
  ASSUME MaintenanceInv, NEW o \in Outcome, SetupSettings(o)
  PROVE  MaintenanceInv'
<1>1. faults' \in 0 .. MaxFaults
  BY HappensType DEF MaintenanceInv, SetupSettings
<1>2. /\ Idle \in WorkType /\ Idle.at = "idle" /\ Idle.file.registry = Empty
      /\ Off \in RamType
  BY Resting
<1>3. /\ DOMAIN flash' = Stores
      /\ flash'["config"] = Written \/ flash'["config"] = flash["config"]
      /\ o.ok => flash'["config"] = Written /\ "config" \notin old'
      /\ \A t \in Stores : t # "config" => flash'[t] = flash[t]
      /\ old' \subseteq old
  BY PutEffect DEF MaintenanceInv, SetupSettings, Stores
<1>4. o.ok =>
        /\ work' \in WorkType
        /\ work'.at = "setup" /\ work'.step = 3 /\ work'.file = work.file
  BY GoToEffect DEF MaintenanceInv, SetupSettings
<1>5. TypeOK'
  BY <1>1, <1>2, <1>3, <1>4 DEF MaintenanceInv, TypeOK, SetupSettings, Stores, WorkType
<1>6. WorkInv' /\ EraseInv' /\ RestoreInv'
  BY <1>2, <1>3, <1>4
  DEF MaintenanceInv, WorkInv, EraseInv, RestoreInv, RestoreIsComplete, SetupSettings,
      At
<1>7. RamInv' /\ RadioInv' /\ InstallationInv'
  BY <1>2, <1>3, <1>4, KeyAssumption
  DEF MaintenanceInv, RamInv, RadioInv, InstallationInv, OneInstallation, SetupSettings,
      At, Stores
<1> QED
  BY <1>5, <1>6, <1>7 DEF MaintenanceInv

\* The setup saves the first admin.
LEMMA SetupAdminStep ==
  ASSUME MaintenanceInv, NEW o \in Outcome, NEW named \in BOOLEAN, NEW taken \in BOOLEAN,
         SetupAdmin(o, named, taken)
  PROVE  MaintenanceInv'
<1>1. faults' \in 0 .. MaxFaults
  BY HappensType DEF MaintenanceInv, SetupAdmin
<1>2. /\ Idle \in WorkType /\ Idle.at = "idle" /\ Idle.file.registry = Empty
      /\ Off \in RamType
  BY Resting
<1>3. /\ DOMAIN flash' = Stores
      /\ flash'["auth"] = Written \/ flash'["auth"] = flash["auth"]
      /\ o.ok => flash'["auth"] = Written /\ "auth" \notin old'
      /\ \A t \in Stores : t # "auth" => flash'[t] = flash[t]
      /\ old' \subseteq old
  BY PutEffect DEF MaintenanceInv, SetupAdmin, Stores
<1>4. window' \in BOOLEAN /\ pairing' \in BOOLEAN /\ due' \in BOOLEAN /\ doubtful' \in BOOLEAN
  BY DEF MaintenanceInv, TypeOK, SetupAdmin
<1>5. ram' \in RamType /\ ram'.key = ram.key /\ ram'.registry = ram.registry
  <2>1. ram \in RamType
    BY DEF MaintenanceInv, TypeOK, RamType
  <2>2. ram' = ram \/ ram' = [ram EXCEPT !.users = TRUE]
    BY DEF SetupAdmin
  <2> QED
    BY <2>1, <2>2 DEF RamType
<1>6. TypeOK'
  BY <1>1, <1>2, <1>3, <1>4, <1>5
  DEF MaintenanceInv, TypeOK, SetupAdmin, Stores, WorkType, RamType
<1>7. WorkInv' /\ EraseInv' /\ RestoreInv'
  BY <1>2, <1>3
  DEF MaintenanceInv, WorkInv, EraseInv, RestoreInv, RestoreIsComplete, SetupAdmin, At
<1>8. RamInv' /\ RadioInv' /\ InstallationInv'
  BY <1>2, <1>3, KeyAssumption
  DEF MaintenanceInv, TypeOK, WorkInv, RamInv, RadioInv, InstallationInv,
      OneInstallation, SetupAdmin, At, Stores
<1> QED
  BY <1>6, <1>7, <1>8 DEF MaintenanceInv

\* An export captures the registry and the key.
LEMMA StartExportStep ==
  ASSUME MaintenanceInv, StartExport
  PROVE  MaintenanceInv'
<1>1. TypeOK'
  BY DEF MaintenanceInv, TypeOK, StartExport, capture, Backup
<1>2. WorkInv' /\ EraseInv' /\ RestoreInv'
  BY DEF MaintenanceInv, WorkInv, EraseInv, RestoreInv, RestoreIsComplete, StartExport,
         Free, At
<1>3. RamInv' /\ RadioInv' /\ InstallationInv'
  BY DEF MaintenanceInv, RamInv, RadioInv, InstallationInv, OneInstallation,
         StartExport, Free, capture
<1> QED
  BY <1>1, <1>2, <1>3 DEF MaintenanceInv

\* An export hands out the file.
LEMMA FinishExportStep ==
  ASSUME MaintenanceInv, FinishExport
  PROVE  MaintenanceInv'
<1>1. /\ Idle \in WorkType /\ Idle.at = "idle" /\ Idle.file.registry = Empty
      /\ Off \in RamType
  BY Resting
<1>2. TypeOK'
  BY <1>1 DEF MaintenanceInv, TypeOK, FinishExport, WorkType
<1>3. WorkInv' /\ EraseInv' /\ RestoreInv'
  BY <1>1
  DEF MaintenanceInv, WorkInv, EraseInv, RestoreInv, RestoreIsComplete, FinishExport, At
<1>4. RamInv' /\ RadioInv' /\ InstallationInv'
  BY <1>1, KeyAssumption
  DEF MaintenanceInv, RamInv, RadioInv, InstallationInv, OneInstallation, FinishExport
<1> QED
  BY <1>2, <1>3, <1>4 DEF MaintenanceInv

\* A restore is asked for.
LEMMA StartRestoreStep ==
  ASSUME MaintenanceInv, StartRestore
  PROVE  MaintenanceInv'
<1>1. /\ work' \in WorkType
      /\ work'.at = "restore" /\ work'.step = 1 /\ work'.file = work.file
  BY GoToEffect DEF MaintenanceInv, StartRestore
<1>2. TypeOK'
  BY <1>1 DEF MaintenanceInv, TypeOK, StartRestore, WorkType
<1>3. WorkInv' /\ EraseInv' /\ RestoreInv'
  BY <1>1
  DEF MaintenanceInv, WorkInv, EraseInv, RestoreInv, RestoreIsComplete, StartRestore,
      Free, At
<1>4. RamInv' /\ RadioInv' /\ InstallationInv'
  BY <1>1
  DEF MaintenanceInv, RamInv, RadioInv, InstallationInv, OneInstallation, StartRestore
<1> QED
  BY <1>2, <1>3, <1>4 DEF MaintenanceInv

\* A restore finds the gateway set up already.
LEMMA RestoreTooLateStep ==
  ASSUME MaintenanceInv, RestoreTooLate
  PROVE  MaintenanceInv'
<1>1. /\ Idle \in WorkType /\ Idle.at = "idle" /\ Idle.file.registry = Empty
      /\ Off \in RamType
  BY Resting
<1>2. TypeOK'
  BY <1>1 DEF MaintenanceInv, TypeOK, RestoreTooLate, WorkType
<1>3. WorkInv' /\ EraseInv' /\ RestoreInv'
  BY <1>1
  DEF MaintenanceInv, WorkInv, EraseInv, RestoreInv, RestoreIsComplete, RestoreTooLate,
      At
<1>4. RamInv' /\ RadioInv' /\ InstallationInv'
  BY <1>1, KeyAssumption
  DEF MaintenanceInv, RamInv, RadioInv, InstallationInv, OneInstallation, RestoreTooLate
<1> QED
  BY <1>2, <1>3, <1>4 DEF MaintenanceInv

\* A restore records itself.
LEMMA RestoreBeginsStep ==
  ASSUME MaintenanceInv, NEW o \in Outcome, RestoreBegins(o)
  PROVE  MaintenanceInv'
<1>1. faults' \in 0 .. MaxFaults
  BY HappensType DEF MaintenanceInv, RestoreBegins
<1>2. /\ Idle \in WorkType /\ Idle.at = "idle" /\ Idle.file.registry = Empty
      /\ Off \in RamType
  BY Resting
<1>3. /\ o.ok => marker' = "restore"
      /\ \/ marker' = marker /\ old' = old
         \/ marker' = "restore" /\ old' \in SUBSET Stores /\ old' = old
  BY MarkEffect DEF MaintenanceInv, RestoreBegins
<1>4. o.ok =>
        /\ work' \in WorkType
        /\ work'.at = "restore" /\ work'.step = 2 /\ work'.file = work.file
  BY GoToEffect DEF MaintenanceInv, RestoreBegins
<1>5. marker' \in {"idle", "restore", "reset"} /\ old' \subseteq Stores
  BY <1>3 DEF MaintenanceInv, TypeOK
<1>6. TypeOK'
  BY <1>1, <1>2, <1>4, <1>5 DEF MaintenanceInv, TypeOK, RestoreBegins, WorkType
<1>7. WorkInv' /\ EraseInv' /\ RestoreInv'
  BY <1>2, <1>3, <1>4, <1>5
  DEF MaintenanceInv, WorkInv, EraseInv, RestoreInv, RestoreIsComplete, RamInv,
      RestoreBegins, At, cleanGateway
<1>8. RamInv' /\ RadioInv' /\ InstallationInv'
  BY <1>2, <1>3, <1>4
  DEF MaintenanceInv, RamInv, RadioInv, InstallationInv, OneInstallation, RestoreBegins,
      cleanGateway, Blocked
<1> QED
  BY <1>6, <1>7, <1>8 DEF MaintenanceInv

\* A restore erases one store.
LEMMA RestoreErasesStep ==
  ASSUME MaintenanceInv, NEW o \in Outcome, RestoreErases(o)
  PROVE  MaintenanceInv'
<1>1. faults' \in 0 .. MaxFaults
  BY HappensType DEF MaintenanceInv, RestoreErases
<1>2. /\ Idle \in WorkType /\ Idle.at = "idle" /\ Idle.file.registry = Empty
      /\ Off \in RamType
  BY Resting
<1>3. work.at = "restore" /\ work.step - 1 \in 1 .. 5 /\ work.step \in Nat
  BY DEF MaintenanceInv, TypeOK, RestoreErases, At, EraseOrder
<1>4. /\ DOMAIN flash' = Stores
      /\ \/ flash'[EraseOrder[work.step - 1]] = Empty
         \/ flash'[EraseOrder[work.step - 1]] = flash[EraseOrder[work.step - 1]]
      /\ o.ok => flash'[EraseOrder[work.step - 1]] = Empty /\ EraseOrder[work.step - 1] \notin old'
      /\ \A t \in Stores : t # EraseOrder[work.step - 1] => flash'[t] = flash[t]
      /\ old' \subseteq old
  BY <1>3, PutEffect DEF MaintenanceInv, RestoreErases, EraseOrder, Stores
<1>5. o.ok =>
        /\ work' \in WorkType
        /\ work'.at = "restore" /\ work'.step = work.step + 1 /\ work'.file = work.file
  BY <1>3, GoToEffect DEF MaintenanceInv, RestoreErases
<1>6. TypeOK'
  BY <1>1, <1>2, <1>4, <1>5 DEF MaintenanceInv, TypeOK, RestoreErases, Stores, WorkType
<1>7. WorkInv' /\ EraseInv' /\ RestoreInv'
  BY <1>2, <1>4, <1>5
  DEF MaintenanceInv, WorkInv, EraseInv, RestoreInv, RestoreIsComplete, RestoreErases,
      EraseOrder, Stores, At
<1>8. RamInv' /\ RadioInv' /\ InstallationInv'
  BY <1>2, <1>3, <1>5, KeyAssumption
  DEF MaintenanceInv, WorkInv, RamInv, RadioInv, InstallationInv, OneInstallation,
      RestoreErases
<1> QED
  BY <1>6, <1>7, <1>8 DEF MaintenanceInv

\* A restore writes one store of the backup.
LEMMA RestoreWritesStep ==
  ASSUME MaintenanceInv, NEW o \in Outcome, RestoreWrites(o)
  PROVE  MaintenanceInv'
<1>1. faults' \in 0 .. MaxFaults
  BY HappensType DEF MaintenanceInv, RestoreWrites
<1>2. /\ Idle \in WorkType /\ Idle.at = "idle" /\ Idle.file.registry = Empty
      /\ Off \in RamType
  BY Resting
<1>3. work.at = "restore" /\ work.step - 6 \in 1 .. 4 /\ work.step \in Nat
  BY DEF MaintenanceInv, TypeOK, RestoreWrites, At, RestoreOrder
<1>4. /\ DOMAIN flash' = Stores
      /\ \/ flash'[RestoreOrder[work.step - 6]] = Restored(RestoreOrder[work.step - 6])
         \/ flash'[RestoreOrder[work.step - 6]] = flash[RestoreOrder[work.step - 6]]
      /\ o.ok => /\ flash'[RestoreOrder[work.step - 6]] = Restored(RestoreOrder[work.step - 6])
                 /\ RestoreOrder[work.step - 6] \notin old'
      /\ \A t \in Stores : t # RestoreOrder[work.step - 6] => flash'[t] = flash[t]
      /\ old' \subseteq old
  BY <1>3, PutEffect DEF MaintenanceInv, RestoreWrites, RestoreOrder, Stores
<1>5. o.ok =>
        /\ work' \in WorkType
        /\ work'.at = "restore" /\ work'.step = work.step + 1 /\ work'.file = work.file
  BY <1>3, GoToEffect DEF MaintenanceInv, RestoreWrites
<1>6. TypeOK'
  BY <1>1, <1>2, <1>4, <1>5
  DEF MaintenanceInv, TypeOK, RestoreWrites, Restored, Stores, WorkType, Backup
<1>7. WorkInv' /\ EraseInv' /\ RestoreInv'
  BY <1>2, <1>4, <1>5
  DEF MaintenanceInv, WorkInv, EraseInv, RestoreInv, RestoreIsComplete, RestoreWrites,
      RestoreOrder, Restored, Stores, At
<1>8. RamInv' /\ RadioInv' /\ InstallationInv'
  BY <1>2, <1>3, <1>5, KeyAssumption
  DEF MaintenanceInv, WorkInv, RamInv, RadioInv, InstallationInv, OneInstallation,
      RestoreWrites
<1> QED
  BY <1>6, <1>7, <1>8 DEF MaintenanceInv

\* A restore clears its marker.
LEMMA RestoreFinishesStep ==
  ASSUME MaintenanceInv, NEW o \in Outcome, RestoreFinishes(o)
  PROVE  MaintenanceInv'
<1>1. faults' \in 0 .. MaxFaults
  BY HappensType DEF MaintenanceInv, RestoreFinishes
<1>2. /\ Idle \in WorkType /\ Idle.at = "idle" /\ Idle.file.registry = Empty
      /\ Off \in RamType
  BY Resting
<1>3. /\ o.ok => marker' = "idle"
      /\ \/ marker' = marker /\ old' = old
         \/ marker' = "idle" /\ old' \in SUBSET Stores /\ old' = old
  BY MarkEffect DEF MaintenanceInv, RestoreFinishes
<1>4. marker' \in {"idle", "restore", "reset"} /\ old' \subseteq Stores
  BY <1>3 DEF MaintenanceInv, TypeOK
<1>5. TypeOK'
  BY <1>1, <1>2, <1>4 DEF MaintenanceInv, TypeOK, RestoreFinishes, WorkType
<1>6. WorkInv' /\ EraseInv' /\ RestoreInv'
  BY <1>2, <1>3
  DEF MaintenanceInv, WorkInv, EraseInv, RestoreInv, RestoreIsComplete, RestoreFinishes,
      At
<1>7. RamInv' /\ RadioInv' /\ InstallationInv'
  BY <1>2, KeyAssumption
  DEF MaintenanceInv, WorkInv, RestoreInv, RamInv, RadioInv, InstallationInv,
      OneInstallation, RestoreFinishes, At
<1> QED
  BY <1>5, <1>6, <1>7 DEF MaintenanceInv

\* A network reset begins.
LEMMA StartNetworkResetStep ==
  ASSUME MaintenanceInv, StartNetworkReset
  PROVE  MaintenanceInv'
<1>1. /\ work' \in WorkType
      /\ work'.at = "network" /\ work'.step = 1 /\ work'.file = work.file
  BY GoToEffect DEF MaintenanceInv, StartNetworkReset
<1>2. TypeOK'
  BY <1>1 DEF MaintenanceInv, TypeOK, StartNetworkReset, WorkType
<1>3. WorkInv' /\ EraseInv' /\ RestoreInv'
  BY <1>1
  DEF MaintenanceInv, WorkInv, EraseInv, RestoreInv, RestoreIsComplete,
      StartNetworkReset, Free, Unused
<1>4. RamInv' /\ RadioInv' /\ InstallationInv'
  BY <1>1
  DEF MaintenanceInv, RamInv, RadioInv, InstallationInv, OneInstallation,
      StartNetworkReset
<1> QED
  BY <1>2, <1>3, <1>4 DEF MaintenanceInv

\* A network reset clears the registry.
LEMMA NetworkClearsRegistryStep ==
  ASSUME MaintenanceInv, NEW o \in Outcome, NetworkClearsRegistry(o)
  PROVE  MaintenanceInv'
<1>1. faults' \in 0 .. MaxFaults
  BY HappensType DEF MaintenanceInv, TypeOK, NetworkClearsRegistry
<1>2. /\ Idle \in WorkType /\ Idle.at = "idle" /\ Idle.file.registry = Empty
      /\ Off \in RamType
  BY Resting
<1>3. ram.registry # Empty =>
        /\ DOMAIN flash' = Stores
        /\ flash'["registry"] = Empty \/ flash'["registry"] = flash["registry"]
        /\ o.ok => flash'["registry"] = Empty /\ "registry" \notin old'
        /\ \A t \in Stores : t # "registry" => flash'[t] = flash[t]
        /\ old' \subseteq old
  BY PutEffect DEF MaintenanceInv, NetworkClearsRegistry, Stores
<1>4. o.ok =>
        /\ work' \in WorkType
        /\ work'.at = "network" /\ work'.step = 2 /\ work'.file = work.file
  BY GoToEffect DEF MaintenanceInv, NetworkClearsRegistry
<1>5. TypeOK'
  BY <1>1, <1>2, <1>3, <1>4
  DEF MaintenanceInv, TypeOK, NetworkClearsRegistry, Stores, WorkType
<1>6. WorkInv' /\ EraseInv' /\ RestoreInv'
  BY <1>2, <1>3, <1>4, KeyAssumption
  DEF MaintenanceInv, TypeOK, WorkInv, EraseInv, RestoreInv, RestoreIsComplete,
      NetworkClearsRegistry, At, Stores, Unused
<1>7. RamInv' /\ RadioInv' /\ InstallationInv'
  BY <1>2, <1>3, <1>4, KeyAssumption, EmptyAssumption
  DEF MaintenanceInv, TypeOK, RamInv, RadioInv, InstallationInv, OneInstallation,
      NetworkClearsRegistry, At, Stores
<1> QED
  BY <1>5, <1>6, <1>7 DEF MaintenanceInv

\* A network reset clears the commands.
LEMMA NetworkClearsCommandsStep ==
  ASSUME MaintenanceInv, NEW o \in Outcome, NetworkClearsCommands(o)
  PROVE  MaintenanceInv'
<1>1. faults' \in 0 .. MaxFaults
  BY HappensType DEF MaintenanceInv, NetworkClearsCommands
<1>2. /\ DOMAIN flash' = Stores
      /\ flash'["commands"] = Empty \/ flash'["commands"] = flash["commands"]
      /\ o.ok => flash'["commands"] = Empty /\ "commands" \notin old'
      /\ \A t \in Stores : t # "commands" => flash'[t] = flash[t]
      /\ old' \subseteq old
  BY PutEffect DEF MaintenanceInv, NetworkClearsCommands, Stores
<1>3. /\ work' \in WorkType
      /\ work'.at = "network" /\ work'.step = 3 /\ work'.file = work.file
  BY GoToEffect DEF MaintenanceInv, NetworkClearsCommands
<1>4. TypeOK'
  BY <1>1, <1>2, <1>3 DEF MaintenanceInv, TypeOK, NetworkClearsCommands, Stores, WorkType
<1>5. WorkInv' /\ EraseInv' /\ RestoreInv'
  BY <1>2, <1>3
  DEF MaintenanceInv, WorkInv, EraseInv, RestoreInv, RestoreIsComplete,
      NetworkClearsCommands, At, Stores, Unused
<1>6. RamInv' /\ RadioInv' /\ InstallationInv'
  BY <1>2, <1>3
  DEF MaintenanceInv, RamInv, RadioInv, InstallationInv, OneInstallation,
      NetworkClearsCommands, At, Stores
<1> QED
  BY <1>4, <1>5, <1>6 DEF MaintenanceInv

\* A network reset saves a new key.
LEMMA NetworkKeyStep ==
  ASSUME MaintenanceInv, NEW o \in Outcome, NetworkKey(o)
  PROVE  MaintenanceInv'
<1>1. /\ Idle \in WorkType /\ Idle.at = "idle" /\ Idle.file.registry = Empty
      /\ Off \in RamType
  BY Resting
<1>2. faults' \in 0 .. MaxFaults
  BY HappensType DEF MaintenanceInv, TypeOK, NetworkKey, SaveKey
<1>3. FreshKey \in Unused /\ FreshKey \in Key
  BY FreshKeyIsUnused DEF MaintenanceInv, WorkInv, NetworkKey, At
<1>4. ~KeyLocked =>
        /\ DOMAIN flash' = Stores
        /\ flash'["secrets"] = FreshKey \/ flash'["secrets"] = flash["secrets"]
        /\ o.ok => flash'["secrets"] = FreshKey /\ "secrets" \notin old'
        /\ \A t \in Stores : t # "secrets" => flash'[t] = flash[t]
        /\ old' \subseteq old
  BY PutEffect DEF MaintenanceInv, NetworkKey, SaveKey, Stores
<1>5. ~KeyLocked =>
        /\ ~doubtful' => ~doubtful /\ (o.ok \/ ~o.reached)
        /\ o.ok => ram'.key = FreshKey
        /\ ~o.ok => ram' = ram
        /\ ~o.reached => flash' = flash
  BY DEF MaintenanceInv, TypeOK, NetworkKey, SaveKey, Put
<1>6. TypeOK'
  BY <1>1, <1>2, <1>3, <1>4
  DEF MaintenanceInv, TypeOK, NetworkKey, SaveKey, KeyLocked, Stores, WorkType
<1>7. WorkInv' /\ EraseInv' /\ RestoreInv'
  BY <1>1, <1>4
  DEF MaintenanceInv, WorkInv, EraseInv, RestoreInv, RestoreIsComplete, NetworkKey, At
<1>8. RamInv' /\ RadioInv' /\ InstallationInv'
  BY <1>1, <1>3, <1>4, <1>5, KeyAssumption, EmptyAssumption
  DEF MaintenanceInv, TypeOK, WorkInv, RamInv, RadioInv, InstallationInv,
      OneInstallation, NetworkKey, SaveKey, At, Stores
<1> QED
  BY <1>6, <1>7, <1>8 DEF MaintenanceInv

\* The pairing window opens or closes.
LEMMA TogglePairingStep ==
  ASSUME MaintenanceInv, TogglePairing
  PROVE  MaintenanceInv'
<1>1. TypeOK'
  BY DEF MaintenanceInv, TypeOK, TogglePairing
<1>2. WorkInv' /\ EraseInv' /\ RestoreInv'
  BY DEF MaintenanceInv, WorkInv, EraseInv, RestoreInv, RestoreIsComplete,
         TogglePairing, Blocked, Guarded, At
<1>3. RamInv' /\ RadioInv' /\ InstallationInv'
  BY DEF MaintenanceInv, RamInv, RadioInv, InstallationInv, OneInstallation,
         TogglePairing
<1> QED
  BY <1>1, <1>2, <1>3 DEF MaintenanceInv

\* A node ID is reserved for the joining device.
LEMMA ReserveStep ==
  ASSUME MaintenanceInv, NEW o \in Outcome, Reserve(o)
  PROVE  MaintenanceInv'
<1>1. faults' \in 0 .. MaxFaults
  BY HappensType DEF MaintenanceInv, Reserve, SaveRegistry
<1>2. /\ DOMAIN flash' = Stores
      /\ flash'["registry"] = Pending \/ flash'["registry"] = flash["registry"]
      /\ o.ok => flash'["registry"] = Pending /\ "registry" \notin old'
      /\ \A t \in Stores : t # "registry" => flash'[t] = flash[t]
      /\ old' \subseteq old
  BY PutEffect DEF MaintenanceInv, Reserve, SaveRegistry, Stores
<1>3. TypeOK'
  BY <1>1, <1>2 DEF MaintenanceInv, TypeOK, Reserve, SaveRegistry, Stores
<1>4. WorkInv' /\ EraseInv' /\ RestoreInv'
  BY <1>2
  DEF MaintenanceInv, WorkInv, EraseInv, RestoreInv, RestoreIsComplete, Reserve,
      SaveRegistry, Blocked, Guarded, At
<1>5. RamInv' /\ RadioInv' /\ InstallationInv'
  BY <1>2, KeyAssumption
  DEF MaintenanceInv, RamInv, RadioInv, InstallationInv, OneInstallation, Reserve,
      SaveRegistry, Blocked, Guarded, Stores
<1> QED
  BY <1>3, <1>4, <1>5 DEF MaintenanceInv

\* The joining device takes the gateway's key.
LEMMA AcceptStep ==
  ASSUME MaintenanceInv, Accept
  PROVE  MaintenanceInv'
<1>1. TypeOK'
  BY DEF MaintenanceInv, TypeOK, Accept
<1>2. WorkInv' /\ EraseInv' /\ RestoreInv'
  BY KeyAssumption
  DEF MaintenanceInv, WorkInv, EraseInv, RestoreInv, RestoreIsComplete, Accept, Unused,
      At
<1>3. RamInv' /\ RadioInv' /\ InstallationInv'
  BY KeyAssumption
  DEF MaintenanceInv, RamInv, RadioInv, InstallationInv, OneInstallation, Accept
<1> QED
  BY <1>1, <1>2, <1>3 DEF MaintenanceInv

\* The device that answers with the radio's key is confirmed.
LEMMA ConfirmStep ==
  ASSUME MaintenanceInv, NEW o \in Outcome, Confirm(o)
  PROVE  MaintenanceInv'
<1>1. faults' \in 0 .. MaxFaults
  BY HappensType DEF MaintenanceInv, Confirm, SaveRegistry
<1>2. /\ DOMAIN flash' = Stores
      /\ flash'["registry"] = joiner \/ flash'["registry"] = flash["registry"]
      /\ o.ok => flash'["registry"] = joiner /\ "registry" \notin old'
      /\ \A t \in Stores : t # "registry" => flash'[t] = flash[t]
      /\ old' \subseteq old
  BY PutEffect DEF MaintenanceInv, Confirm, SaveRegistry, Stores
<1>3. TypeOK'
  BY <1>1, <1>2 DEF MaintenanceInv, TypeOK, Confirm, SaveRegistry, Stores
<1>4. WorkInv' /\ EraseInv' /\ RestoreInv'
  BY <1>2
  DEF MaintenanceInv, WorkInv, EraseInv, RestoreInv, RestoreIsComplete, Confirm,
      SaveRegistry, Blocked, Guarded, At
<1>5. RamInv' /\ RadioInv' /\ InstallationInv'
  BY <1>2, KeyAssumption, EmptyAssumption
  DEF MaintenanceInv, RamInv, RadioInv, InstallationInv, OneInstallation, Confirm,
      SaveRegistry, Blocked, Stores
<1> QED
  BY <1>3, <1>4, <1>5 DEF MaintenanceInv

\* A command is queued.
LEMMA QueueStep ==
  ASSUME MaintenanceInv, NEW o \in Outcome, Queue(o)
  PROVE  MaintenanceInv'
<1>1. faults' \in 0 .. MaxFaults
  BY HappensType DEF MaintenanceInv, Queue
<1>2. /\ DOMAIN flash' = Stores
      /\ flash'["commands"] = Written \/ flash'["commands"] = flash["commands"]
      /\ o.ok => flash'["commands"] = Written /\ "commands" \notin old'
      /\ \A t \in Stores : t # "commands" => flash'[t] = flash[t]
      /\ old' \subseteq old
  BY PutEffect DEF MaintenanceInv, Queue, Stores
<1>3. TypeOK'
  BY <1>1, <1>2 DEF MaintenanceInv, TypeOK, Queue, Stores
<1>4. WorkInv' /\ EraseInv' /\ RestoreInv'
  BY <1>2
  DEF MaintenanceInv, WorkInv, EraseInv, RestoreInv, RestoreIsComplete, Queue, Free,
      Idle, At
<1>5. RamInv' /\ RadioInv' /\ InstallationInv'
  BY <1>2
  DEF MaintenanceInv, RamInv, RadioInv, InstallationInv, OneInstallation, Queue, Stores
<1> QED
  BY <1>3, <1>4, <1>5 DEF MaintenanceInv

\* The invariant holds before the first boot.
LEMMA InitInv == Init => MaintenanceInv
<1> SUFFICES ASSUME Init PROVE MaintenanceInv
  OBVIOUS
<1>1. TypeOK
  <2>1. window \in BOOLEAN /\ pairing \in BOOLEAN /\ due \in BOOLEAN /\ doubtful \in BOOLEAN
    BY DEF Init
  <2>2. NoFile \in Backup
    BY DEF NoFile, Backup
  <2>3. FlashOK(flash)
    BY DEF Init, FlashOK, Stores
  <2> QED
    BY <2>1, <2>2, <2>3, Resting, FaultsAssumption
    DEF Init, TypeOK, WorkType, RamType, FlashOK
<1>2. WorkInv /\ EraseInv /\ RestoreInv
  BY Resting DEF Init, WorkInv, EraseInv, RestoreInv, RestoreIsComplete, At
<1>3. RamInv /\ RadioInv /\ InstallationInv
  BY Resting, KeyAssumption, EmptyAssumption
  DEF Init, RamInv, RadioInv, InstallationInv, OneInstallation, NoFile, Stores
<1> QED
  BY <1>1, <1>2, <1>3 DEF MaintenanceInv

\* Stuttering keeps the invariant.
LEMMA UnchangedStep ==
  ASSUME MaintenanceInv, UNCHANGED vars
  PROVE  MaintenanceInv'
<1>1. TypeOK'
  BY DEF MaintenanceInv, TypeOK, vars
<1>2. WorkInv' /\ EraseInv' /\ RestoreInv'
  BY DEF MaintenanceInv, WorkInv, EraseInv, RestoreInv, RestoreIsComplete, Unused, At, vars
<1>3. RamInv' /\ RadioInv' /\ InstallationInv'
  BY DEF MaintenanceInv, RamInv, RadioInv, InstallationInv, OneInstallation, vars
<1> QED
  BY <1>1, <1>2, <1>3 DEF MaintenanceInv

\* Every step keeps the invariant.
LEMMA NextStep ==
  ASSUME MaintenanceInv, Next
  PROVE  MaintenanceInv'
<1>1. CASE BootStep
  BY <1>1, ReadMarkerStep, BootErasesStep, BootErasedStep, LoadStep DEF BootStep
<1>2. CASE HandlerStep
  BY <1>2, FinishExportStep, RestoreTooLateStep, SetupKeyStep, SetupSettingsStep,
     SetupAdminStep, RestoreBeginsStep, RestoreErasesStep, RestoreWritesStep,
     RestoreFinishesStep, NetworkClearsRegistryStep, NetworkClearsCommandsStep,
     NetworkKeyStep
  DEF HandlerStep
<1>3. CASE Restart \/ PowerCut \/ ToggleSetup \/ ExpireSetup \/ StartSetup
  BY <1>3, RestartStep, PowerCutStep, ToggleSetupStep, ExpireSetupStep, StartSetupStep
<1>4. CASE StartExport \/ StartRestore \/ StartNetworkReset \/ TogglePairing \/ Accept
  BY <1>4, StartExportStep, StartRestoreStep, StartNetworkResetStep, TogglePairingStep,
     AcceptStep
<1>5. CASE \E o \in Outcome : FactoryReset(o) \/ Reserve(o) \/ Confirm(o) \/ Queue(o)
  BY <1>5, FactoryResetStep, ReserveStep, ConfirmStep, QueueStep
<1> QED
  BY <1>1, <1>2, <1>3, <1>4, <1>5 DEF Next

\* The invariant of resets, restores, setup and joins.
THEOREM MaintenanceInvariance == Spec => []MaintenanceInv
<1>1. MaintenanceInv /\ [Next]_vars => MaintenanceInv'
  BY NextStep, UnchangedStep
<1> QED
  BY <1>1, InitInv, PTL DEF Spec

-----------------------------------------------------------------------------
(* What follows *)

\* Every variable keeps its type.
THEOREM MaintenanceTypeOK == Spec => []TypeOK
<1>1. MaintenanceInv => TypeOK
  BY DEF MaintenanceInv
<1> QED
  BY <1>1, MaintenanceInvariance, PTL

\* Wherever writes fail and the power is cut, what the next boot finds is one
\* installation: its nodes have its key, and somebody can sign in.
THEOREM InstallationStaysOne == Spec => []OneInstallation
<1>1. MaintenanceInv => OneInstallation
  BY DEF MaintenanceInv, InstallationInv
<1> QED
  BY <1>1, MaintenanceInvariance, PTL

\* After a recorded factory reset no gateway comes up with a part of what was.
THEOREM ResetsForget == Spec => []ResetForgets
<1>1. MaintenanceInv => ResetForgets
  BY DEF MaintenanceInv, WorkInv, EraseInv, ResetForgets
<1> QED
  BY <1>1, MaintenanceInvariance, PTL

\* A restore that reports success has written the whole backup and nothing else.
THEOREM RestoresAreComplete == Spec => []RestoreIsComplete
<1>1. MaintenanceInv => RestoreIsComplete
  BY DEF MaintenanceInv, RestoreInv
<1> QED
  BY <1>1, MaintenanceInvariance, PTL

\* Only a recorded factory reset erases users; it or a network reset, the nodes.
LEMMA VanishesStep ==
  ASSUME MaintenanceInv, Next, NEW s \in {"auth", "registry"},
         flash[s] # Empty, flash'[s] = Empty
  PROVE  marker = "reset" \/ (s = "registry" /\ work.at = "network")
<1>1. s \in Stores /\ flash' # flash
  BY DEF Stores
<1>2. ASSUME NEW o \in Outcome, BootErases(o)
      PROVE  marker = "reset"
  BY <1>2 DEF BootErases, At, MaintenanceInv, WorkInv
<1>3. ASSUME NEW o \in Outcome, NEW t \in Stores, NEW value, Put(t, value, o), value # Empty
      PROVE  FALSE
  BY <1>1, <1>3, PutEffect DEF MaintenanceInv
<1>4. ASSUME NEW o \in Outcome, NEW t \in Stores \ {"auth", "registry"}, NEW value,
             Put(t, value, o)
      PROVE  FALSE
  BY <1>1, <1>4, PutEffect DEF MaintenanceInv
<1>5. ASSUME NEW o \in Outcome, RestoreErases(o)
      PROVE  FALSE
  <2>1. work.at = "restore" /\ work.step \in 2 .. 6
    BY <1>5 DEF MaintenanceInv, TypeOK, RestoreErases, At, EraseOrder
  <2> QED
    BY <1>1, <2>1 DEF MaintenanceInv, WorkInv, RestoreInv
<1>6. ASSUME NEW o \in Outcome, RestoreWrites(o)
      PROVE  FALSE
  <2>1. /\ work.at = "restore" /\ work.step - 6 \in 1 .. 4 /\ work.step \in 7 .. 10
        /\ RestoreOrder[work.step - 6] \in Stores
        /\ Put(RestoreOrder[work.step - 6], Restored(RestoreOrder[work.step - 6]), o)
    BY <1>6 DEF MaintenanceInv, TypeOK, RestoreWrites, At, RestoreOrder, Stores
  <2>2. CASE work.step = 7
    BY <1>1, <1>6, <2>1, <2>2, PutEffect
    DEF MaintenanceInv, WorkInv, RestoreInv, RestoreOrder
  <2>3. CASE work.step \in 8 .. 10
    <3>1. Restored(RestoreOrder[work.step - 6]) # Empty \/ RestoreOrder[work.step - 6] = "secrets"
      BY <2>3, EmptyAssumption DEF Restored, RestoreOrder
    <3> QED
      BY <1>3, <1>4, <2>1, <3>1
  <2> QED
    BY <2>1, <2>2, <2>3
<1>7. ASSUME NEW o \in Outcome,
             \/ Load(o) \/ SetupKey(o) \/ SetupSettings(o) \/ NetworkClearsCommands(o)
             \/ NetworkKey(o) \/ Queue(o)
      PROVE  FALSE
  BY <1>1, <1>4, <1>7
  DEF Load, SetupKey, SetupSettings, NetworkClearsCommands, NetworkKey, Queue, SaveKey, Stores
<1>8. ASSUME NEW o \in Outcome, NEW named \in BOOLEAN, NEW taken \in BOOLEAN,
             SetupAdmin(o, named, taken)
      PROVE  FALSE
  BY <1>3, <1>8, EmptyAssumption DEF SetupAdmin, Stores
<1>9. ASSUME NEW o \in Outcome, Reserve(o) \/ Confirm(o)
      PROVE  FALSE
  BY <1>3, <1>9, EmptyAssumption, KeyAssumption DEF Reserve, Confirm, SaveRegistry, Stores
<1>10. ASSUME NEW o \in Outcome, NetworkClearsRegistry(o)
       PROVE  s = "registry" /\ work.at = "network"
  BY <1>1, <1>10, PutEffect DEF MaintenanceInv, NetworkClearsRegistry, At, Stores
<1>11. CASE UNCHANGED flash
  BY <1>1, <1>11
<1>12. CASE BootStep
  BY <1>2, <1>7, <1>11, <1>12 DEF BootStep, ReadMarker, BootErased
<1>13. CASE HandlerStep
  BY <1>5, <1>6, <1>7, <1>8, <1>10, <1>11, <1>13
  DEF HandlerStep, FinishExport, RestoreTooLate, RestoreBegins, RestoreFinishes
<1>14. CASE \E o \in Outcome : FactoryReset(o) \/ Reserve(o) \/ Confirm(o) \/ Queue(o)
  BY <1>7, <1>9, <1>11, <1>14 DEF FactoryReset
<1> QED
  BY <1>11, <1>12, <1>13, <1>14
  DEF Next, Restart, PowerCut, ToggleSetup, ExpireSetup, StartSetup, StartExport,
      StartRestore, StartNetworkReset, TogglePairing, Accept

\* Users and nodes vanish by a factory or a network reset only.
THEOREM NothingIsLost == Spec => NothingVanishes
<1>1. MaintenanceInv /\ [Next]_vars =>
        [\A s \in {"auth", "registry"} : flash[s] # Empty /\ flash'[s] = Empty =>
           marker = "reset" \/ (s = "registry" /\ work.at = "network")]_vars
  BY VanishesStep
<1> QED
  BY <1>1, MaintenanceInvariance, PTL DEF Spec, NothingVanishes

=============================================================================
