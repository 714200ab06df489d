----------------------------- MODULE Maintenance -----------------------------
(***************************************************************************)
(* What writes several of the gateway's NVS stores in one operation: the   *)
(* factory reset (RecoveryService.cpp), the restore of a backup            *)
(* (BackupService.cpp), the initial setup and the network reset            *)
(* (WebServer.cpp), with the boot that repairs or refuses what a power cut *)
(* left behind, and the joins (CommissioningService.cpp) that change the   *)
(* registry meanwhile.                                                     *)
(*                                                                         *)
(* Every write of a store, and the write of the control marker, is a step  *)
(* that succeeds, fails, or reports failure although it reached the flash. *)
(* The power may fail between any two steps.                               *)
(***************************************************************************)
EXTENDS Naturals, Sequences

CONSTANTS
  Key,        \* installation keys (bound: a new one is one that nothing holds)
  NoKey,      \* a record of secrets without an installation key
  Empty,      \* a store that holds nothing
  Pending,    \* a registry whose one node is reserved and not confirmed
  Written,    \* the content of a store whose value plays no part
  MaxFaults   \* bound: failed writes and power cuts, together

ASSUME KeyAssumption ==
  Key # {} /\ Key \cap {NoKey, Empty, Pending, Written, "none", "reserved"} = {}
ASSUME EmptyAssumption == Empty \notin {NoKey, Pending, Written}
ASSUME FaultsAssumption == MaxFaults \in Nat

VARIABLES
  marker,   \* the control marker on flash
  flash,    \* the five stores; an active node is known by the key it was given
  ram,      \* what the running gateway loaded or saved
  mode,     \* recovery's state, and the phases of the boot before it is known
  work,     \* the boot's or the web handler's sequence of writes, and its next step
  backup,   \* the file of the last export, in the user's hands
  window,   \* the physical setup window is open
  pairing,  \* the pairing window is open
  radio,    \* the radio's operational key
  joiner,   \* the joining device: "none", "reserved", or the key it was given
  due,      \* a restart of the web server is scheduled
  old,      \* stores with content from before the last recorded factory reset
  doubtful, \* a network reset saved a key and was told that it had failed
  faults    \* faults so far

vars == <<marker, flash, ram, mode, work, backup, window, pairing, radio, joiner,
          due, old, doubtful, faults>>

Stores == {"config", "auth", "secrets", "registry", "commands"}
EraseOrder == <<"config", "auth", "secrets", "registry", "commands">>
Backup == [registry : Key \cup {Empty, Pending}, key : Key \cup {NoKey}]
NoFile == [registry |-> Empty, key |-> NoKey]
Idle == [at |-> "idle", step |-> 0, file |-> NoFile]
Off == [ready |-> FALSE, users |-> FALSE, key |-> NoKey, registry |-> Empty]

TypeOK ==
  /\ marker \in {"idle", "restore", "reset"}
  /\ DOMAIN flash = Stores
  /\ \A s \in {"config", "auth", "commands"} : flash[s] \in {Empty, Written}
  /\ flash["secrets"] \in Key \cup {NoKey, Empty}
  /\ flash["registry"] \in Key \cup {Pending, Empty}
  /\ ram \in [ready : BOOLEAN, users : BOOLEAN, key : Key \cup {NoKey},
              registry : Key \cup {Pending, Empty}]
  /\ mode \in {"begin", "erasing", "loading", "idle", "restore", "reset",
               "unavailable", "restarting"}
  /\ work \in [at : {"idle", "boot", "setup", "export", "restore", "network"},
               step : 0 .. 11, file : Backup]
  /\ backup \in Backup
  /\ window \in BOOLEAN /\ pairing \in BOOLEAN /\ due \in BOOLEAN
  /\ radio \in Key \cup {NoKey} /\ joiner \in Key \cup {"none", "reserved"}
  /\ old \subseteq Stores /\ doubtful \in BOOLEAN /\ faults \in 0 .. MaxFaults

Init ==
  /\ marker = "idle" /\ flash = [s \in Stores |-> Empty] /\ ram = Off
  /\ mode = "begin" /\ work = Idle /\ backup = NoFile
  /\ window = FALSE /\ pairing = FALSE /\ radio = NoKey /\ joiner = "none"
  /\ due = FALSE /\ old = {} /\ doubtful = FALSE /\ faults = 0

-----------------------------------------------------------------------------
(* Flash *)

\* blocked(): recovery's state is not idle.
Blocked == mode # "idle"

\* The outcomes of a write: what it reports, and whether it reached the flash.
Outcome ==
  {[ok |-> TRUE, reached |-> TRUE], [ok |-> FALSE, reached |-> FALSE],
   [ok |-> FALSE, reached |-> TRUE]}

\* An outcome that is not success counts as a fault.
Happens(o) ==
  /\ o.ok \/ faults < MaxFaults
  /\ faults' = IF o.ok THEN faults ELSE faults + 1

Put(s, value, o) ==
  /\ flash' = IF o.reached THEN [flash EXCEPT ![s] = value] ELSE flash
  /\ old' = IF o.reached THEN old \ {s} ELSE old

\* writeMarker(): a factory reset recorded on flash makes all there is old.
Mark(value, o) ==
  /\ marker' = IF o.reached THEN value ELSE marker
  /\ old' = IF o.reached /\ value = "reset"
              THEN {s \in Stores : flash[s] # Empty} ELSE old

\* The web server's handler holds the recovery mutex, or a backup operation.
Guarded == work.at \in {"setup", "restore", "network"}
Busy == work.at \in {"export", "restore"}

\* A key nothing holds yet.
Unused ==
  Key \ {flash["secrets"], flash["registry"], ram.key, ram.registry, radio, joiner,
         backup.key, backup.registry, work.file.key}
FreshKey == CHOOSE k \in Unused : TRUE

-----------------------------------------------------------------------------
(* Boot, recovery and factory reset *)

PoweredOff ==
  /\ mode' = "begin" /\ ram' = Off /\ work' = Idle /\ window' = FALSE
  /\ pairing' = FALSE /\ radio' = NoKey /\ due' = FALSE
  /\ joiner' = IF joiner = "reserved" THEN "none" ELSE joiner

At(handler, step) == work.at = handler /\ work.step = step
GoTo(handler, step) == work' = [work EXCEPT !.at = handler, !.step = step]

\* begin() finds the marker, or cannot read it.
ReadMarker(readable) ==
  /\ mode = "begin" /\ (readable \/ faults < MaxFaults)
  /\ faults' = IF readable THEN faults ELSE faults + 1
  /\ mode' = CASE ~readable -> "unavailable"
               [] readable /\ marker = "reset" -> "erasing"
               [] readable /\ marker = "restore" -> "restore"
               [] readable /\ marker = "idle" -> "loading"
  /\ IF mode' = "erasing" THEN GoTo("boot", 1) ELSE UNCHANGED work
  /\ UNCHANGED <<marker, flash, ram, backup, window, pairing, radio, joiner, due, old,
                 doubtful>>

\* Mutant: a store that could not be erased is passed over.
BootErasesUnchecked(o) ==
  /\ At("boot", work.step) /\ work.step \in DOMAIN EraseOrder
  /\ Put(EraseOrder[work.step], Empty, o) /\ Happens(o)
  /\ GoTo("boot", work.step + 1)
  /\ UNCHANGED <<marker, ram, mode, backup, window, pairing, radio, joiner, due, doubtful>>

\* eraseStores(): one store a step.
BootErases(o) ==
  /\ At("boot", work.step) /\ work.step \in DOMAIN EraseOrder
  /\ Put(EraseOrder[work.step], Empty, o) /\ Happens(o)
  /\ IF o.ok THEN GoTo("boot", work.step + 1) /\ UNCHANGED mode
     ELSE work' = Idle /\ mode' = "reset"
  /\ UNCHANGED <<marker, ram, backup, window, pairing, radio, joiner, due, doubtful>>

BootErased(o) ==
  /\ At("boot", Len(EraseOrder) + 1) /\ Mark("idle", o) /\ Happens(o)
  /\ mode' = IF o.ok THEN "loading" ELSE "reset"
  /\ work' = Idle
  /\ UNCHANGED <<flash, ram, backup, window, pairing, radio, joiner, due, doubtful>>

\* The stores' begin() and the radio's: secrets are made up when there are none.
\* Without them the configuration is not ready, and reads as its defaults.
Load(o) ==
  /\ mode = "loading" /\ mode' = "idle" /\ Happens(o)
  /\ IF flash["secrets"] = Empty THEN Put("secrets", NoKey, o)
     ELSE UNCHANGED <<flash, old>>
  /\ ram' = [ready |-> o.ok,
             users |-> o.ok /\ flash["auth"] = Written,
             key |-> IF o.ok THEN flash'["secrets"] ELSE NoKey,
             registry |-> flash["registry"]]
  /\ radio' = ram'.key
  /\ UNCHANGED <<marker, work, backup, window, pairing, joiner, due, doubtful>>

\* Mutant: the reset is refused while storage is blocked, as everything else is.
FactoryResetUnblocked(o) ==
  /\ mode = "idle" /\ ~Guarded /\ ~Busy /\ Mark("reset", o) /\ Happens(o)
  /\ IF o.ok THEN PoweredOff
     ELSE /\ mode' = "unavailable"
          /\ UNCHANGED <<ram, work, window, pairing, radio, joiner, due>>
  /\ UNCHANGED <<flash, backup, doubtful>>

\* The confirmed button.  A marker that may or may not be there blocks the gateway.
FactoryReset(o) ==
  /\ mode \in {"idle", "restore", "reset", "unavailable", "restarting"}
  /\ ~Guarded /\ ~Busy /\ Mark("reset", o) /\ Happens(o)
  /\ IF o.ok THEN PoweredOff
     ELSE /\ mode' = "unavailable"
          /\ UNCHANGED <<ram, work, window, pairing, radio, joiner, due>>
  /\ UNCHANGED <<flash, backup, doubtful>>

\* restartSoon(), the web server's own restart, or the user's hand on a gateway
\* that waits for its next boot.
Restart ==
  /\ \/ due /\ mode = "idle"
     \/ mode \in {"reset", "unavailable", "restarting"}
  /\ PoweredOff
  /\ UNCHANGED <<marker, flash, backup, old, doubtful, faults>>

PowerCut ==
  /\ faults < MaxFaults /\ faults' = faults + 1
  /\ PoweredOff
  /\ UNCHANGED <<marker, flash, backup, old, doubtful>>

-----------------------------------------------------------------------------
(* Initial setup, backup and restore *)

SetupRequired == Blocked \/ ~ram.users
SetupActive == ~Blocked /\ SetupRequired /\ window

\* A short press of the button while there is no user; and the window's end.
ToggleSetup ==
  /\ ~Blocked /\ ~Guarded /\ SetupRequired
  /\ window' = ~window
  /\ UNCHANGED <<marker, flash, ram, mode, work, backup, pairing, radio, joiner, due, old,
                 doubtful, faults>>

ExpireSetup ==
  /\ window /\ mode \notin {"begin", "erasing", "loading"}
  /\ window' = FALSE
  /\ UNCHANGED <<marker, flash, ram, mode, work, backup, pairing, radio, joiner, due, old,
                 doubtful, faults>>

Free == work = Idle /\ mode = "idle"

StartSetup ==
  /\ Free /\ SetupActive /\ Unused # {} /\ GoTo("setup", 1)
  /\ UNCHANGED <<marker, flash, ram, mode, backup, window, pairing, radio, joiner, due,
                 old, doubtful, faults>>

\* Mutant: the copy in RAM takes the key before the save has succeeded.
SaveKeyEarly(key, o) ==
  /\ Put("secrets", key, o) /\ Happens(o)
  /\ ram' = [ram EXCEPT !.key = key]

\* saveSecrets(): refused while a node is active; in RAM only when it succeeded.
SaveKey(key, o) ==
  /\ Put("secrets", key, o) /\ Happens(o)
  /\ ram' = IF o.ok THEN [ram EXCEPT !.key = key] ELSE ram

KeyLocked == ~ram.ready \/ ram.registry \in Key

\* handleInitialSetup(): a key that is there is kept.
SetupKey(o) ==
  /\ At("setup", 1)
  /\ CASE ram.key # NoKey /\ ram.ready -> o.ok /\ UNCHANGED <<flash, ram, old, faults>>
       [] ram.key = NoKey /\ ~KeyLocked -> SaveKey(FreshKey, o)
       [] OTHER -> ~o.ok /\ ~o.reached /\ UNCHANGED <<flash, ram, old, faults>>
  /\ IF o.ok THEN GoTo("setup", 2) ELSE work' = Idle
  /\ UNCHANGED <<marker, mode, backup, window, pairing, radio, joiner, due, doubtful>>

SetupSettings(o) ==
  /\ At("setup", 2) /\ Put("config", Written, o) /\ Happens(o)
  /\ IF o.ok THEN GoTo("setup", 3) ELSE work' = Idle
  /\ UNCHANGED <<marker, ram, mode, backup, window, pairing, radio, joiner, due, doubtful>>

\* A hostname asks for a restart.  The radio may answer too late, or not at all.
SetupAdmin(o, named, taken) ==
  /\ At("setup", 3) /\ Put("auth", Written, o) /\ Happens(o)
  /\ work' = Idle
  /\ IF o.ok
       THEN /\ ram' = [ram EXCEPT !.users = TRUE] /\ window' = FALSE
            /\ due' = (due \/ named) /\ radio' = IF taken THEN ram.key ELSE radio
       ELSE UNCHANGED <<ram, window, due, radio>>
  /\ UNCHANGED <<marker, mode, backup, pairing, joiner, doubtful>>

\* handleBackupExport(): the snapshot is taken under the mutex, the file follows.
capture == [registry |-> ram.registry, key |-> ram.key]

StartExport ==
  /\ Free /\ ram.users /\ ram.ready /\ ~pairing
  /\ work' = [at |-> "export", step |-> 1, file |-> capture]
  /\ UNCHANGED <<marker, flash, ram, mode, backup, window, pairing, radio, joiner, due,
                 old, doubtful, faults>>

FinishExport ==
  /\ At("export", 1)
  /\ backup' = work.file /\ work' = Idle
  /\ UNCHANGED <<marker, flash, ram, mode, window, pairing, radio, joiner, due, old,
                 doubtful, faults>>

\* Mutant: a gateway whose configuration did not load passes for a clean one.
CleanByDefaults ==
  ~Blocked /\ ~ram.users /\ ram.key = NoKey /\ ram.registry = Empty

cleanGateway ==
  ~Blocked /\ ram.ready /\ ~ram.users /\ ram.key = NoKey /\ ram.registry = Empty

\* handleBackupImport(), before the seconds the decryption takes.
StartRestore ==
  /\ Free /\ cleanGateway /\ SetupActive /\ backup.key \in Key
  /\ GoTo("restore", 1)
  /\ UNCHANGED <<marker, flash, ram, mode, backup, window, pairing, radio, joiner, due,
                 old, doubtful, faults>>

RestoreTooLate ==
  /\ At("restore", 1) /\ (~SetupActive \/ ~cleanGateway \/ pairing)
  /\ work' = Idle
  /\ UNCHANGED <<marker, flash, ram, mode, backup, window, pairing, radio, joiner, due,
                 old, doubtful, faults>>

\* startRestore(): blocked from here on, whatever the marker's write reports.
RestoreBegins(o) ==
  /\ At("restore", 1) /\ SetupActive /\ cleanGateway /\ ~pairing
  /\ mode' = "restore" /\ Mark("restore", o) /\ Happens(o)
  /\ IF o.ok THEN GoTo("restore", 2) ELSE work' = Idle
  /\ UNCHANGED <<flash, ram, backup, window, pairing, radio, joiner, due, doubtful>>

\* eraseInstallation(), the steps after the first.
RestoreErases(o) ==
  /\ At("restore", work.step) /\ work.step - 1 \in DOMAIN EraseOrder
  /\ Put(EraseOrder[work.step - 1], Empty, o) /\ Happens(o)
  /\ IF o.ok THEN GoTo("restore", work.step + 1) ELSE work' = Idle
  /\ UNCHANGED <<marker, ram, mode, backup, window, pairing, radio, joiner, due, doubtful>>

\* restore(): registry, settings, secrets in both slots, the new administrator.
RestoreOrder == <<"registry", "config", "secrets", "auth">>
\* Mutant: registry and secrets change places.
RestoredSwapped(s) ==
  CASE s = "registry" -> backup.key
    [] s = "secrets" -> backup.registry
    [] OTHER -> Written

Restored(s) ==
  CASE s = "registry" -> backup.registry
    [] s = "secrets" -> backup.key
    [] OTHER -> Written

\* Mutant: the write that fails does not stop the restore.
RestoreWritesUnchecked(o) ==
  /\ At("restore", work.step) /\ work.step - 6 \in DOMAIN RestoreOrder
  /\ LET s == RestoreOrder[work.step - 6] IN Put(s, Restored(s), o) /\ Happens(o)
  /\ GoTo("restore", work.step + 1)
  /\ UNCHANGED <<marker, ram, mode, backup, window, pairing, radio, joiner, due, doubtful>>

RestoreWrites(o) ==
  /\ At("restore", work.step) /\ work.step - 6 \in DOMAIN RestoreOrder
  /\ LET s == RestoreOrder[work.step - 6] IN Put(s, Restored(s), o) /\ Happens(o)
  /\ IF o.ok THEN GoTo("restore", work.step + 1) ELSE work' = Idle
  /\ UNCHANGED <<marker, ram, mode, backup, window, pairing, radio, joiner, due, doubtful>>

\* finishRestore(): the marker last of all, then the restart.
RestoreFinishes(o) ==
  /\ At("restore", 11) /\ Mark("idle", o) /\ Happens(o)
  /\ mode' = IF o.ok THEN "restarting" ELSE mode
  /\ work' = Idle
  /\ UNCHANGED <<flash, ram, backup, window, pairing, radio, joiner, due, doubtful>>

-----------------------------------------------------------------------------
(* Network reset, joins and commands *)

\* handleResetRadioNetwork(): the registry first ...
StartNetworkReset ==
  /\ Free /\ ram.users /\ Unused # {} /\ GoTo("network", 1)
  /\ UNCHANGED <<marker, flash, ram, mode, backup, window, pairing, radio, joiner, due,
                 old, doubtful, faults>>

NetworkClearsRegistry(o) ==
  /\ At("network", 1)
  /\ IF ram.registry = Empty
       THEN o.ok /\ UNCHANGED <<flash, ram, old, faults>>
       ELSE /\ Put("registry", Empty, o) /\ Happens(o)
            /\ ram' = IF o.ok THEN [ram EXCEPT !.registry = Empty] ELSE ram
  /\ IF o.ok THEN GoTo("network", 2) ELSE work' = Idle
  /\ UNCHANGED <<marker, mode, backup, window, pairing, radio, joiner, due, doubtful>>

\* ... then the commands, whose failure is ignored ...
NetworkClearsCommands(o) ==
  /\ At("network", 2)
  /\ Put("commands", Empty, o) /\ Happens(o)
  /\ GoTo("network", 3)
  /\ UNCHANGED <<marker, ram, mode, backup, window, pairing, radio, joiner, due, doubtful>>

\* ... and the new key last.  The radio keeps the old one until the restart.
NetworkKey(o) ==
  /\ At("network", 3) /\ work' = Idle
  /\ IF KeyLocked THEN ~o.ok /\ ~o.reached /\ UNCHANGED <<flash, ram, old, faults, doubtful, due>>
     ELSE /\ SaveKey(FreshKey, o)
          /\ doubtful' = (doubtful \/ (o.reached /\ ~o.ok))
          /\ due' = (due \/ o.ok)
  /\ UNCHANGED <<marker, mode, backup, window, pairing, radio, joiner>>

TogglePairing ==
  /\ ~Blocked /\ ~Guarded
  /\ pairing \/ (work = Idle /\ ram.users)
  /\ pairing' = ~pairing
  /\ UNCHANGED <<marker, flash, ram, mode, work, backup, window, radio, joiner, due, old,
                 doubtful, faults>>

\* A registry save takes the recovery mutex, waiting for the web server's handler.
SaveRegistry(value, o) ==
  /\ ~Blocked /\ ~Guarded /\ Put("registry", value, o) /\ Happens(o)
  /\ ram' = IF o.ok THEN [ram EXCEPT !.registry = value] ELSE ram

\* handleJoinRequest(): the record first ...
Reserve(o) ==
  /\ pairing /\ ram.registry \in {Empty, Pending} /\ joiner # "reserved"
  /\ SaveRegistry(Pending, o)
  /\ joiner' = IF o.ok THEN "reserved" ELSE "none"
  /\ UNCHANGED <<marker, mode, work, backup, window, pairing, radio, due, doubtful>>

\* ... then the key, read without the mutex.
Accept ==
  /\ joiner = "reserved" /\ mode \notin {"begin", "erasing", "loading"}
  /\ joiner' = IF ram.key = NoKey THEN "none" ELSE ram.key
  /\ UNCHANGED <<marker, flash, ram, mode, work, backup, window, pairing, radio, due, old,
                 doubtful, faults>>

\* handleJoinConfirm(): heard on the radio's key only.
Confirm(o) ==
  /\ joiner \in Key /\ radio = joiner /\ ram.registry = Pending
  /\ SaveRegistry(joiner, o)
  /\ UNCHANGED <<marker, mode, work, backup, window, pairing, radio, joiner, due, doubtful>>

Queue(o) ==
  /\ Free /\ ram.users /\ ram.registry \in Key
  /\ Put("commands", Written, o) /\ Happens(o)
  /\ UNCHANGED <<marker, ram, mode, work, backup, window, pairing, radio, joiner, due,
                 doubtful>>

-----------------------------------------------------------------------------
BootStep ==
  \/ \E readable \in BOOLEAN : ReadMarker(readable)
  \/ \E o \in Outcome : BootErases(o) \/ BootErased(o) \/ Load(o)

HandlerStep ==
  \/ FinishExport \/ RestoreTooLate
  \/ \E o \in Outcome :
       \/ SetupKey(o) \/ SetupSettings(o)
       \/ \E named \in BOOLEAN, taken \in BOOLEAN : SetupAdmin(o, named, taken)
       \/ RestoreBegins(o) \/ RestoreErases(o) \/ RestoreWrites(o) \/ RestoreFinishes(o)
       \/ NetworkClearsRegistry(o) \/ NetworkClearsCommands(o) \/ NetworkKey(o)

Next ==
  \/ BootStep \/ HandlerStep \/ Restart \/ PowerCut
  \/ ToggleSetup \/ ExpireSetup \/ StartSetup \/ StartExport \/ StartRestore
  \/ StartNetworkReset \/ TogglePairing \/ Accept
  \/ \E o \in Outcome : FactoryReset(o) \/ Reserve(o) \/ Confirm(o) \/ Queue(o)

Spec == Init /\ [][Next]_vars

\* The boot and a handler that has started go on.  The user restarts a gateway that
\* waits for it, and confirms a factory reset where only that helps.
FairSpec ==
  /\ Spec
  /\ WF_vars(BootStep) /\ WF_vars(HandlerStep) /\ WF_vars(Restart)
  /\ WF_vars(mode = "restore" /\ \E o \in Outcome : FactoryReset(o))

-----------------------------------------------------------------------------
(* Properties *)

\* Whatever step a write failed or the power was cut at, an installation whose
\* marker is idle is one installation: a node has the key the gateway will load,
\* and somebody can sign in.  The same of a backup.  (RecoveryService.cpp:60-93,
\* WebServer.cpp:1105-1144, BackupService.cpp:53-66.)  Excepted is a network reset
\* whose key is on flash although its save was reported as failed: the next boot
\* loads it, and the nodes that joined until then have another one.
OneInstallation ==
  /\ marker = "idle" /\ flash["registry"] # Empty =>
       flash["auth"] = Written /\ flash["secrets"] \in Key
  /\ marker = "idle" /\ ~doubtful /\ flash["registry"] \in Key =>
       flash["registry"] = flash["secrets"]
  /\ ~doubtful /\ backup.registry \in Key => backup.registry = backup.key

\* A factory reset that was recorded, however often its erasing was interrupted,
\* leaves nothing of what was there: no gateway comes up with a part of it.
\* (BACKUP.md:22, RecoveryService.cpp:39-49, 78-84.)
ResetForgets == mode = "idle" => old = {}

\* A restore that says so has put all of the backup on flash, and nothing else.
\* (BackupService.cpp:100-137.)
RestoreIsComplete ==
  mode = "restarting" =>
    /\ flash["registry"] = backup.registry /\ flash["secrets"] = backup.key
    /\ flash["auth"] = Written /\ flash["commands"] = Empty

\* Users and nodes on flash disappear by a recorded factory reset or, nodes only, by
\* a network reset: a restore, which erases everything, never finds any.
\* (BackupService.cpp:68-73, WebServer.cpp:519-531.)
NothingVanishes ==
  [][\A s \in {"auth", "registry"} : flash[s] # Empty /\ flash'[s] = Empty =>
       marker = "reset" \/ (s = "registry" /\ work.at = "network")]_vars

\* No failed write and no power cut, in a reset or a restore, leaves a gateway that
\* its button and a restart cannot bring back.  (BACKUP.md:22, 44.)
Recoverable == Blocked ~> ~Blocked
=============================================================================
