# Formal verification of RadioSensors

RadioSensors is a home sensor network. Battery nodes (ATtiny1614) talk over an
encrypted RFM69 radio to a gateway (ESP32), which offers a REST and WebSocket
interface. This directory holds TLA+ models of the parts whose correctness
depends on order, loss, crashes and concurrency, the TLC configurations that
check them, and TLAPS proofs about them.

Modelled are the six parts in which a user's order, an installation or a stored
value could be lost, doubled or mixed up:

* **commands**: how a command queued for a sleeping node is stored, fetched,
  applied exactly once, answered and recorded;
* **stores**: what the node's EEPROM and the gateway's dual-slot NVS stores load
  after a reset between any two writes, and the accounts built on the latter;
* **pairing**: the window, the join handshake and the radio profile, between
  three gateway tasks and several nodes;
* **radio power**: the control loop between the gateway's tasks and a node;
* **maintenance**: factory reset, backup, restore, setup and network reset;
* **updates**: firmware and Web UI, the trial of a new image, rollback.

## 1. The system

### Components

| Component | State | Operations | Talks to |
|---|---|---|---|
| Command book (`CommandBook.cpp`) | at most 16 records, oldest first, one per node ID; next command ID | queue, complete, cancel, removeNode, clear | value type inside the command service |
| Command service (`CommandService.cpp`) | book in RAM, dual-slot NVS store, pending bitmap, last delivery per node | handleCommandReady, handleCommandResult (task, priority 7); queue, cancel, removeNode, clear (web task) | radio queues, registry, recovery guard |
| Radio task (`RadioService.cpp`) | profile, keys, receive queues, send queue | receive and route a frame, send, switch profile, synchronous commands | interrupts, every other task |
| Node registry (`NodeRegistry.cpp`, `NodeRegistryStore.cpp`) | records (UID, node ID, state, profile, nonce, power policy), active bitmap | reserve, confirm, disable, remove, rename, set policy, update info; each a durable commit | commissioning, web, commands |
| Commissioning (`gateway/src/CommissioningService.cpp`, `GatewayStatus.cpp`; node `CommissioningService.cpp`) | pairing window, expected device, confirm deadline; node: provisioning state | join request, accept, confirm, complete; window open, close, expiry | radio profiles, registry |
| Node runtime (`NodeRuntime.h`) | clock, backoffs, session attempts | report, command session, join, network reset, restart | radio, profile, EEPROM |
| set_count journal, counter ring (`CounterStorage.h`) | last result in two slots, ring of counts | apply, recover, forgetCommandIds, count a pulse | node runtime |
| Dual-slot stores (`GatewayStorage.h`, `RegistryPersistence.cpp`), EEPROM A/B store (`NodeStorage.h`) | two slots with generations | load newest valid, write the other, verify | all persistent state |
| Telemetry store (`TelemetryStore.cpp`) | newest frame per node | accept (main loop), erase, read | registry, commands, web |
| Power control (`PowerControlService.cpp`, `RadioPowerControl.h`, node `RadioPowerState.h`) | per node: reports, RSSI sum, floor, wanted level | observe, policy change, forget; node: target, fallback | telemetry ACKs |
| Recovery and backup (`RecoveryService.cpp`, `BackupService.cpp`) | control marker, recursive guard | factory reset, restore | every store |
| Configuration, authentication, users (`ConfigurationStore.cpp`, `AuthenticationService.cpp`, `UserManagement.cpp`) | settings, secrets, users, tokens in three stores; login sessions in RAM | initial setup, login, user, token and settings handlers | web, stores, radio key |
| Updates (`UpdateService.cpp`, `OtaService.cpp`, `WebUiService.cpp`) | update task, Web UI partition, two application slots, trial | check, install, repair, ArduinoOTA upload, confirm, roll back | web, main loop, bootloader |
| Other profiles, drivers, codecs, schedules, management UI | | | |

### How they interact on a command

1. The web task runs `commands::queue`: the candidate book is written to NVS,
   verified, and only then copied to RAM (`commitCandidate`).
2. The next telemetry ACK carries a hint, or the user presses the button. The
   node opens a session: a fresh nonce, then Command ready, up to three times,
   with a 250 ms window after each.
3. The radio task queues the frame if its sender is active. The commands task
   answers it with Command or No command, echoing the nonce, and remembers
   nonce and command ID as the node's delivery.
4. The node recognises a redelivery by the one ID in its journal. For a new
   command it saves a Pending result, the count and the Applied result, in this
   order, then sends the result until it is acknowledged, three times at most.
5. The radio task acknowledges a result when it is queued. The commands task
   records it if nonce and ID match the delivery and the record still waits.

### What is hard

Loss of every frame and acknowledgement on its own; retries on three levels;
resets between any two EEPROM saves; gateway restarts and commits reported as
failed that are durable all the same; cancelling, deleting and replacing while
a session is under way; node IDs that are reused; command IDs that wrap; bounded
queues. Beyond the command session: synchronous calls that are given up but
still executed, deadlines cleared after they were renewed, values published
after the lock they were computed under, operations over five stores with no
transaction, two writers of one partition. `PROJECT.json` lists each hazard at
its line, with the properties that cover it or the reason why none does.

### What makes each component correct

* Command book and service: capacity, one record per node ID, fair eviction,
  only queued commands are sent, only the delivery's result is recorded, every
  waiting command settles.
* Node: a command is applied at most once, also across resets; the reported
  counts are those of that application; a session ends.
* Stores: after a crash at any byte the old or the new value is loaded, and a
  verified write is never lost.
* Accounts: setup is all or nothing, and a login session never exceeds its account.
* Commissioning: a node that has a configuration is in the registry under its ID
  and nonce; only nodes that accepted are active; a provisional node becomes
  active; the pairing key goes with the window.
* Power control: a fallback is respected by the next target; automatic control
  stays clear of a level that failed; a fixed level takes effect.
* Recovery: after any crash the installation is old, erased, restored or blocked,
  and a blocked gateway can be brought back.
* Updates: there is a confirmed image to return to, firmware and UI fit, an
  unreachable image is left again, a damaged UI can be repaired.

## 2. Modules

| Module | Content | Code |
|---|---|---|
| `SessionFrames` | identities, results, the four session frames | `CommandSessionFrames.h` |
| `CommandBook` | the book's operations as functions | `CommandBook.cpp` |
| `CommandGateway` | web handlers, radio queues, commands task, commits, restart | `CommandService.cpp`, parts of `RadioService.cpp`, `WebServer.cpp`, `NodeRegistryStore.cpp`, `GatewayStorage.h` |
| `CounterNode` | node loop, session, journal, resets, commissioning steps | `NodeRuntime.h`, `CounterStorage.h`, `CounterReedProfile.h` |
| `CommandSession` | `CommandGateway` and `CounterNode` over the radio; properties, fairness | both |
| `OneShotCommand` | abstract: a counter, commands applied at most once, true results | `protocol/PROTOCOL.md`, "Set count" |
| `GatewayEnvironment` | `CommandGateway` with nodes that answer anything | as `CommandGateway` |
| `CommandOrder`, `SessionInvariant` | the inductive invariants | |
| `NodeEeprom` | the node's configuration slots, result slots and counter ring, update by update | `NodeStorage.h`, `CounterStorage.h`, `EEPROM.md` |
| `NodeRegisters` | abstract: three registers written at once | `node/EEPROM.md` |
| `DualSlotStore` | load and save of a gateway store as functions of a record | `GatewayStorage.h`, `ConfigurationStore.cpp` |
| `GatewayAccounts` | three such stores, initial setup, login sessions, user, token and settings handlers, the key of a network reset | `AuthenticationService.cpp`, `UserManagement.cpp`, `WebServer.cpp` |
| `Pairing` | window, callers, radio task, registry, joining nodes | `CommissioningService.cpp` (both), `GatewayStatus.cpp`, `RadioService.cpp`, `NodeRegistry*.cpp`, `WebServer.cpp` |
| `PowerControl` | node level and fallback, ACK targets, controller, publication | `RadioPowerControl.h`, `RadioPowerState.h`, `PowerControlService.cpp`, `TelemetryStore.cpp`, `main.cpp` |
| `Maintenance` | marker, factory reset, export, restore, setup, network reset, boot | `RecoveryService.cpp`, `BackupService.cpp`, `WebServer.cpp` |
| `FirmwareUpdate` | update task, Web UI partition, ArduinoOTA, trial, boot slots | `UpdateService.cpp`, `WebUiService.cpp`, `OtaService.cpp` |
| `MCCommandSession`, `MCGatewayEnvironment`, `MCGatewayAccounts`, `MCPairing` | symmetries and constraints for TLC | |
| `CommandGatewayProofs`, `CommandSessionProofs`, `GatewayAccountsProofs`, `FirmwareUpdateProofs`, `MaintenanceProofs`, `NodeEepromProofs`, `PairingProofs`, `PowerControlProofs` | theorems and lemmas | |

`CommandSession` composes `CommandGateway` and `CounterNode`, and implements
`OneShotCommand`; `NodeEeprom` implements `NodeRegisters`, which is what makes the
atomic saves of `CounterNode` right; `GatewayAccounts` builds on `DualSlotStore`,
whose `LoadsCurrentOrFailed` is what `CommandGateway`, `Pairing` and `Maintenance`
take a save to be: done, not done, or done and reported as failed.

### Correspondence

Names follow the code. One action is one critical section or one durable save:

* `QueueCommand`, `CancelCommand`, `DeleteRecord` are `queue()`, `cancel()`,
  `removeNode()` of the command service, each under its mutex. `DeleteNode` and
  `DeleteRecord` are the two commits of `handleDeleteNode`; in between
  `deleting` is set and the recovery guard is held, so no other web handler, no
  confirmation and no `handleCommandResult` runs, but `handleCommandReady`,
  which takes no guard, does.
* `handleCommandReady` is `AnswerEmptySession`, or `ReadIdentity` followed by
  `DeliverCommand` or `WithholdCommand`: the identity is read before the book
  is locked, and `handler` holds it meanwhile. Reading the pending bitmap and
  the identity are one step, because a record that goes in between is noticed
  under the lock. `handleCommandResult` is one step: the guard is held
  throughout.
* `CommitSaved` and `CommitFailed` are the outcomes of `commitCandidate()`. A
  failed commit leaves in `nvs` what it held, the candidate (written, not
  verified), or the book (the slot no longer loads). `RestartGateway` loads it.
* The send queue's head is the frame on the air. `Receive*` is a node hearing
  it, `EndTransmission` takes it off, heard or not.
* `CounterNode` steps from one EEPROM save to the next. A pulse, its RAM count
  and its ring save are one step, because nothing else can run or be seen
  in between, and a reset before the save only loses the pulse.
* `issued`, `confirmed`, `effects`, `spent`, `faults` and `resets` are history.

The other modules, in the same way:

* `NodeEeprom`: an operation (`Pulse`, `ApplyCommand`, `Provision`, `Activate`,
  `ResetNetwork`) queues its EEPROM updates in `writes`, and `Write` makes the
  next one: a magic byte cleared, a body that is `Torn` until its last byte, a
  generation or sequence. `Reset` drops the rest, and `Boot` loads and recovers.
  Updates that no load can tell apart are one.
* `GatewayAccounts`: a handler is one step with its save, since web handlers run
  one after another; `handleInitialSetup` is `BeginSetup` and three saving
  steps, because the gateway may restart between them. `Saved` and `NotSaved` are
  the outcomes of `save()`. `sessions` is ordered by last use, which stands for
  its clock: the head expires and is evicted first. `radioKey` is the key the radio
  was configured with at the boot or by setup; `ResetRadioNetwork` saves another one,
  and `network` says what such a reset has done to the key since the boot.
* `Pairing`: a task that needs the radio puts a command in `queue` (`Call`,
  `Enter`), and goes on after `RadioStep` answered it or it gave up (`GiveUp`,
  after which the command stays queued). What it does next is an action of its
  own (`Opened`, `Expired`, `Accepted`, ...), so the window, the registry and the
  profile may have changed meanwhile. `window` is `pairingEndsAt`, "due" when it
  has passed and the main loop has not seen it.
* `PowerControl`: `Report*` is a report with the ACK of the radio task, lost or
  not; `Accept`, `ReadPolicy`, `Observe`, `PublishOne`, `PublishOther` are the
  main loop, whose publication is two unlocked stores; `ChangePolicy`,
  `PublishPolicy`, `Forget*` the web server's.
* `Maintenance`: `work` is the handler or boot and its next write. Each write
  takes an outcome: ok, failed, or failed in its report only. `PowerCut` may
  come in between; what stays is `marker` and `flash`.
* `FirmwareUpdate`: the update task goes through `update.phase`; sectors of the
  UI are written one by one, the firmware and the boot record in steps of
  their own. `Ota*` is the upload inside the main loop, `Confirm` and `Reject`
  the end of a trial, `Boot` the bootloader's choice and the mount of the UI.
  `page` is what `web_ui` knows: its state and manifest, and in `page.assets` whether
  `addRoutes` registered `/assets/`, which it does at the boot only. `Served` is what
  `handlePageRequest` decides by; `Works` is a UI that is all there, with its assets.

### Abstractions

Commands
* Every NVS commit and EEPROM save is atomic in `CommandSession`; see `NodeEeprom`
  and `DualSlotStore` for why.
* Reservation, Join accept and Join confirm are one step, `Join`, with no other
  reservation outstanding, so the ID is the lowest one not registered (`Pairing`
  has the steps). Join complete is a step of its own, and so is each EEPROM save
  of the node.
* Only `set_count`. `read_info` records no ID on the node.
* Session frames carry a node ID and no UID. A deleted node that was not reset
  shares its ID with its successor and can take its commands; the gateway then
  records the old device's result under the new one. `ResultIsTruth` therefore says
  that some device did what a result reports, and the requests and results of
  `OneShotCommand` name a command, not a device.
* EEPROM saves of the node cannot fail in the code, so a node never reports
  `storage_failure`; `GatewayEnvironment` lets nodes report it anyway.
* A new nonce differs from those in queues, deliveries and running sessions.
  The code hashes a microsecond clock into 32 bits. The same in `Pairing`.

Accounts
* Passwords, CSRF and bearer values are left out: whoever logs in knows the
  password, whoever uses a session has its cookie. A settings save that is
  refused while nodes are active is left out.
* The radio runs with the key that the next boot loads, with one exception, a reset of
  the network: it saves a new key, and the radio has the old one until the restart
  (`renewed`; `gateway/API.md:316`). If it was told that the save failed, no restart
  is due, and the next boot may load either key (`doubtful`). `RadioKeyIsDurable`
  says for each case what still holds. What such a reset does to the nodes, and the
  restore, which starts from a gateway without a key, are in `Maintenance`.

Pairing
* A frame that is not heard leaves no trace; a frame is heard by radios on the
  same profile only. EEPROM saves of the node are atomic.

Power
* The averaged RSSI is an input (too strong, too weak, fine); `target()`'s two
  atomic reads are one; the ceiling of image and record does not change.
* `AutomaticStaysClear` speaks of automatic control that was `alone`. A fixed
  level in between, a node restart or a fallback that races the slow main loop
  (reports of before it still wait), or a deletion and a join can lower the
  floor, and then `gateway/API.md:242` ("stays three levels
  above the level that failed until the gateway restarts") is not kept. Likewise
  `TargetKnowsFallback` is about fallbacks the gateway had seen the end of: when
  every report at the target level was lost, the gateway cannot tell, and answers
  a fallback at once with the same target.

Maintenance
* One node stands for the registry. The encryption of the file and the
  validation of its fields are left out: an invalid file changes nothing.
* `doubtful`: a network reset whose key was saved but reported as failed leaves
  RAM and flash with different keys until the next boot; nodes that join until
  then have the old one. `OneInstallation` excepts it.
* `handleResetRadioNetwork` ignores the result of `commands::clear()`: commands may be
  left. Only the same UID under the same ID could get one.

Updates
* The bootloader is external: `Confirm` and `Reject` mark the active record, and
  a reset turns a pending image into an aborted one. A partly written partition
  is unusable or shows the manifest of any release that has sectors in it.
* Download, inflation, hashes and signatures are outcomes. The refusals during
  recovery or backup are left out.
* The model shows these corners, which the properties except by `lost` or
  `enabled`: an update begun in the 60 s of a trial overwrites the previous image,
  so `gateway/API.md:346` is not kept; a confirmation in the second before a planned
  restart marks the next image valid untried; ArduinoOTA does
  not ask whether the update task is running; any restart during a trial
  rolls back.
* After a failed image, `inspectManifest` may find enough of it to call it ready. Then
  parts of a UI are served and, if the gateway booted without a usable one, with no
  `/assets/` route, so that the page is blank; the recovery page that
  `UpdateService.cpp:348` and `gateway/README.md:56` promise is not shown. `ServedUiFits` does
  not exclude this, and `UiRepairable` does not count it as repaired: it asks for
  `Works`. There the page has no button, and only a REST client, with the request that
  `gateway/API.md:344` describes, or a restart leads on.
* `ServedUiFits` speaks of both writers of the web partition. The task never
  writes under a served page until an upload was begun since the boot, and an upload never until
  a task was; after both, the one that fails may have mounted the partition under the
  other, and only the series is certain.

## 3. Runs

| Run | Question | Shows |
|---|---|---|
| `session_safety` | What can go wrong with one node, two commands, late and lost frames, two gateway faults, a node reset or network reset, a second commissioning? | `ResultIsTruth`, `AtMostOncePerCommissioning`, `ImplementsOneShot` hold |
| `session_progress` | Does every command settle and every session end? | `CommandSettles` and `SessionEnds` hold under `Fairness`; `TypeOK`, `IInv`, `StoreIsCurrent`, `CommandsWereQueued` hold |
| `book_capacity` | Three nodes share a book of two; nodes answer anything. | `BooksWellFormed`, `QueueingSparesOthers` hold |
| `forgotten_ids` | Does commissioning clear the recorded ID? | violated |
| `node_eeprom` | Can a reset between any two EEPROM updates be told from one between two operations? | `ResetIsInvisible`, `ImplementsRegisters`, `TypeOK` hold |
| `gateway_accounts` | Failing saves and restarts anywhere in setup, changes of accounts and resets of the network. | `BootLoadsCurrent`, `SessionsMatchAccounts`, `SetupIsWhole`, `RadioKeyIsDurable`, `TypeOK` hold |
| `pairing` | Two devices, two windows, a restart, a failed save or an abandoned call at any point. | `JoinedIsRegistered`, `ActiveHasJoined`, `TypeOK` hold |
| `pairing_progress` | Does a provisional node become active, after two faults? | `ProvisionalJoins` holds under `Fairness`; `JoinedIsRegistered` holds |
| `key_kept` | Is the pairing key wiped when the window is gone? | violated |
| `power_control` | A fallback, lost ACKs and two policy changes, deletions or restarts between any two steps of three tasks. | `TargetKnowsFallback`, `AutomaticStaysClear`, `FixedTakesEffect`, `TypeOK` hold |
| `maintenance` | Three failed writes or power cuts in resets, restores and setup. | `OneInstallation`, `ResetForgets`, `RestoreIsComplete`, `NothingVanishes`, `Recoverable`, `TypeOK` hold |
| `firmware_update` | Two power cuts, outages, failed steps or uploads in checks, installs, repairs and trials. | `PreviousImageKept`, `ServedUiFits`, `InstalledTogether`, `DeafImageLeaves`, `UiRepairable`, `TypeOK` hold |

Two runs check what the repository says and the code does not keep:

* `forgotten_ids`. `PROTOCOL.md:129` says that commissioning clears recorded
  IDs. The active configuration and the cleared journal are two saves, and a
  reset between them skips the second for good. A command of the new
  installation with the old ID is then answered as a redelivery.
* `key_kept`. `API.md:302` says that the pairing key is wiped when pairing is
  closed or expires. The main loop closes an expired window with a synchronous
  profile switch and then stores zero in `pairingEndsAt` (`GatewayStatus.cpp:142-144`);
  a window opened in between loses its deadline. No window is open, nothing
  expires, and the radio stays in the commissioning profile with the key.

### Bounds

* **Command sessions.** One node ID and one device: sessions of different IDs
  share only the queues and the book, which `book_capacity` covers with three.
  Two command IDs, starting with the last, so the sequence wraps. `IdsLeft`
  stops issuing before an ID is used again: in the code that takes 65535
  commands of one installation. Two commands show replacement, cancellation and
  late results; the proofs cover any number. Two nonces: a session and the one
  before it; `NonceSymmetry` is used for safety only. `MaxFaults = 2`: a write
  reported as failed, and the restart that loads it. `MaxConfirms = 2`: a
  rejoin. `MaxResets = 1`: a reset, or a network reset. Queue depths of 1 or 2
  instead of 8 let queues fill up. Two transmissions of a result instead of
  three: a first and a last one; one Command ready per session in
  `session_safety`, two in `session_progress`. Counts 0 and 1, wrapping at 2, so
  pulses between command and answer change what a live count would show.
* **`book_capacity`.** `RegisteredFirst`: commands are queued once all three
  nodes are commissioned, so that the book is full; `CompletionsOnly`: results only
  complete commands (other results are in the session runs). One fault, and
  `NoSessionAfterFault`: after it, no node starts a session, since books after a
  fault followed by sessions are in `session_progress`. It switches deadlock
  checking off: with every node deleted and `MaxConfirms` used up, the gateway
  rests.
* **`node_eeprom`.** 4 generations for 256, a ring of 3 with sequences modulo 5
  for 32 and 255, counts modulo 2: everything wraps within a few operations, with
  the conditions the code's numbers meet (`WrapAssumption`: 256 is even, 255 odd, and a
  ring of 32 is at most half of 255). One join and one command
  ID, which each commissioning makes new again; a redelivery writes nothing.
  No bound on operations or resets: the state space is finite.
* **`gateway_accounts`.** Two names, two keys (the old and the new one of a network
  reset), two settings, user IDs up to 3 and token IDs up to 2 (the last one is refused,
  as in the code), 4 generations. Any number of saves, failures and restarts;
  settings and accounts wrap. `MaxKeyGeneration = 2` leaves room for one reset of the
  network after setup, which may fail, be repeated and be followed by restarts; the
  proofs put no bound on them. Names and keys are interchangeable (`Symmetry`), and no liveness
  is checked.
* **`pairing`.** Two devices and two windows: a window of one device and a late
  confirm of the other. Two nonces, command queue of 2, frame queue of 1, one
  fault; two faults with one device in `pairing_progress`.
* **`power_control`.** Three levels, decisions after two reports, steps of one
  down and two up, a margin of one, fallback after two missed reports: the order of the
  real numbers (three reports, steps of 3 and 6, margin 3) at the smallest
  values. One fallback, and any two policy changes, deletions and restarts, so that a
  fixed level may follow a deletion and a join whose node inherited a target. Any number
  of fallbacks and changes is in the proofs, except for `FixedTakesEffect`.
* **`maintenance`.** Three keys: a new one is always one that nothing holds. Three
  faults: enough to fail an operation, its repair and a write of the next boot.
* **`firmware_update`.** Three releases of two series, the last without network; two
  sectors, so the UI can be half written; two faults. ArduinoOTA is enabled or not
  from the start.

### Fairness

* **Command sessions.** Weak for the commands task, the second commit of a
  deletion, the radio task's sends and the node's loop: FreeRTOS tasks with their
  own queues, and a loop that nothing blocks. Strong for the three places where
  the radio is tried again and again: a Command ready reaches the gateway, a
  Command reaches the node, a result reaches the gateway. Without the last three
  nothing can be promised over a radio. A node keeps opening sessions because every
  telemetry ACK hints at a waiting command. Nothing is assumed about users, faults
  or resets. `PromptGateway` is a timing assumption, for `session_progress` only: a
  window does not close, and the next session does not open, while the gateway
  still has a frame from this node ID or an answer to it under way. 250 ms against
  milliseconds in the code justify it; without it, every answer could come late
  for ever. The safety runs do without it.
* **Pairing.** Weak for every task's next step and for the radio task; strong for
  entering the synchronous call (a FreeRTOS mutex), for a radio step that is
  heard, for the node's confirm and for the gateway's handling of it: the node
  repeats the confirm on every join attempt.
* **Power control.** Weak for main loop and web server, strong for a report that is
  acknowledged: nodes report for ever.
* **Maintenance.** Weak for boot and a started handler; the user restarts a gateway
  that waits for it, and confirms the factory reset where the gateway says that only
  that helps.
* **Updates.** Weak for boot, network, update task, a running upload and the main loop;
  strong for the repair request, while there is no UI that works: of a user who sees the
  recovery page and presses its button again, or of a REST client where a blank page or
  parts of a UI are shown.

## 4. Proofs

Checked by TLAPS for every value of the constants that the named `ASSUME`s allow
(any number of nodes, devices, IDs, users, keys, sectors, releases, faults, resets,
any queue depth and capacity, any even number of generations from 4 on, any odd number of
ring sequences and any ring of at most half of them, rounded up):

| Module | Theorem | States |
|---|---|---|
| `CommandSessionProofs` | `SessionInvariance` | `Spec => []IInv` of `CommandSession` |
| | `SessionTypeOK` | `Spec => []TypeOK` |
| | `CommandsAppliedOnce` | `Spec => AtMostOncePerCommissioning` |
| | `ResultsAreTrue` | `Spec => []ResultIsTruth` |
| | `SessionsImplementOneShot` | `Spec => ImplementsOneShot` |
| `CommandGatewayProofs` | `EnvironmentInvariance` | `EnvironmentSpec => []EInv` of `GatewayEnvironment` |
| | `BooksStayWellFormed` | `EnvironmentSpec => []BooksWellFormed` |
| | `SentCommandsWereQueued` | `EnvironmentSpec => []CommandsWereQueued` |
| | `StoreStaysCurrent` | `EnvironmentSpec => []StoreIsCurrent` |
| | `QueueingSparesOtherNodes` | `EnvironmentSpec => QueueingSparesOthers` |
| `GatewayAccountsProofs` | `AccountsInvariance` | `Spec => []AccountsInv` of `GatewayAccounts` |
| | `AccountsTypeOK` | `Spec => []TypeOK` |
| | `CurrentIsLoaded` | `Spec => []BootLoadsCurrent` |
| | `SetupStaysWhole` | `Spec => []SetupIsWhole` |
| | `RadioKeyStaysDurable` | `Spec => []RadioKeyIsDurable` |
| | `SessionsStayCurrent` | `Spec => []SessionsMatchAccounts` |
| `PowerControlProofs` | `PowerInvariance` | `Spec => []PowerInv` of `PowerControl` |
| | `PowerTypeOK` | `Spec => []TypeOK` |
| | `TargetsKnowFallback` | `Spec => []TargetKnowsFallback` |
| | `AutomaticControlStaysClear` | `Spec => []AutomaticStaysClear` |
| `FirmwareUpdateProofs` | `UpdateTypeOK` | `Spec => []TypeOK` of `FirmwareUpdate` |
| | `PreviousImageIsKept` | `Spec => []PreviousImageKept` |
| | `UpdatesAreWhole` | `Spec => InstalledTogether` |
| | `ServedUiStaysFit` | `Spec => []ServedUiFits` |
| `MaintenanceProofs` | `MaintenanceInvariance` | `Spec => []MaintenanceInv` of `Maintenance` |
| | `MaintenanceTypeOK` | `Spec => []TypeOK` |
| | `InstallationStaysOne` | `Spec => []OneInstallation` |
| | `ResetsForget` | `Spec => []ResetForgets` |
| | `RestoresAreComplete` | `Spec => []RestoreIsComplete` |
| | `NothingIsLost` | `Spec => NothingVanishes` |
| `NodeEepromProofs` | `NodeInvariance` | `Spec => []NodeInv` of `NodeEeprom` |
| | `EepromTypeOK` | `Spec => []TypeOK` |
| | `ResetsAreInvisible` | `Spec => []ResetIsInvisible` |
| | `EepromImplementsRegisters` | `Spec => ImplementsRegisters` |
| `PairingProofs` | `PairingInvariance` | `Spec => []PairingInv` of `Pairing` |
| | `PairingTypeOK` | `Spec => []TypeOK` |
| | `JoinedStaysRegistered` | `Spec => []JoinedIsRegistered` |
| | `ActiveOnlyByJoining` | `Spec => []ActiveHasJoined` |

**Why at most once needs an invariant.** A node remembers one command ID. That
is enough only because commands for a node ID reach it in the order in which
they were issued, so nothing older than the last applied command can come. This
is what `IInv` says:

* `BookInOrder`: the book holds only the latest command issued for a node ID;
  the store holds a subset of it and at most one command that RAM never had (a
  failed queueing that was durable);
* `SendsInOrder`: the commands in the send queue for a node ID are in issue
  order. A command in the book is the latest, so a delivery appends one that is
  not older, and the queue is first in, first out;
* `SpentInOrder`: a command that the device has applied is the one in its
  journal, or a later one was issued for the node ID; and nothing on its way is
  older, or is the same one unless the journal still remembers it;
* `PlaceOK`: what the loop's places imply (in `saveCount` the journal is
  Pending, sessions belong to active nodes, and so on).

Each action changes few of these: `CommandGatewayProofs` has the lemmas about the
book's functions and shows that gateway steps keep types and order,
`CommandSessionProofs` adds the node. The invariant rests on IDs being
different (`IdsLeft`): the argument ends when the sequence comes round.

**Why a recorded result is true.** `TruthInv` follows a result back to where it comes
from: a record in RAM or on flash has it from a frame (`BookIsTrue`), a queued frame
from a journal (`FramesAreTrue`), a journal from a `set_count` that was done
(`JournalsAreTrue`), and what was done carries the count of a command that was issued
(`AsIssued`). An ID is issued once (`IdsDiffer`), so that count is the record's, also
when a boot loads a record whose write was reported as failed.

**Why sessions are one-shot commands.** The abstract counter (`Settled`) is the one
in the node's RAM, except from the moment its Pending result is saved: then it is
the count of that result, although the counter and the Applied result are still to
be written, and pulses cannot come in between. `SavesInv` says just that: a Pending
result is being completed, and in the last step of it the counter has its value.
Saving the Pending result is therefore the abstract `Apply`, which `SpentInOrder`
allows only once and `AsIssued` only with the count that was asked for; the other
two saves, and a reset with its recovery, are stutters. The gateway's steps are
`Ask`: they issue commands under IDs not used before, and show results that
`TruthInv` has as true.

**Why queueing spares the others.** `Queued` takes out the record of the same node,
or else, if the book is full, the oldest record with a result; so of another node
only a completed one may go, and that only when there is no room. It needs the
books to be well formed: with two records of one node it would not hold.

**Why an older value never comes back.** `BootLoadsCurrent` alone is not inductive:
it says nothing of the slot that is not selected. `StoreInv` does: the active slot
holds what RAM holds, and the other one, if it decodes, has the generation just
before (the last save) or just after (a failed one that is durable). A save goes to
the other slot with the generation after, which is newer in the signed comparison
as long as half a cycle is more than one step (`FollowingIsNewer`), so both facts
survive every save, failed save, boot and wrap. On top, `SetupInv` relates the key
in the hands of `handleInitialSetup` to the one saved, `KeyInv` says that an
installation key in RAM is the one selected on flash, until a reset of the network tried
to save another (some key is selected then, too), and the one the radio runs with, until
a reset has replaced it, and `UsersInv` that users in
any slot, not only the selected one, come with an enabled admin and after the key.
`MarksAssumption` keeps the two marks of a slot (never written, does not decode)
apart from values.

**Why no half save is seen on a node.** `NodeInv` has two parts. `StoresInv` is about what
is stored between any two updates. Two result slots that both decode are one save apart
(`Neighbours`). The configuration is saved twice at most before it is cleared:
Provisional with generation 0 in slot A, Active with generation 1 in slot B, so clearing
A first shows the newest or none (`ConfigInv`; cleared the other way round, the
provisional one would come back). The ring is blank or has a newest record at some slot
p: the slots up to p hold the sequences just before it, the slots after p older ones or
none (`RingInv`). All of these are less than the size of the ring apart, and the ring is
at most half the cycle, so the comparison orders them as their ages do
(`AgesCompare`) and the scan of `load()` ends at p. `Scan` is a recursive function; that
it is the only one its equation allows (`ScanIsUnique`) is what makes the claim about it
provable without induction over the scan. `OperationInv` says which operation
the updates still to be made belong to, in terms of what a boot would find now
(`Loaded`): every update leaves `Loaded` as it is, except the last one of a save, which
changes it to what RAM holds of that store. That update is one step of `NodeRegisters`, the
others and every reset are stutters. `TornAssumption` keeps a torn body apart from a
whole one.

**Why sessions match accounts.** `WholeInv` adds to `AccountsInv` that both slots of the
account store hold accounts `validateAuthentication()` accepts, each user once, and
that the sessions are a list of entries drawn from `Current(users)`, the pairs of an
enabled user's role and name as they are now. A save that is reported as done drops the sessions of
the user it changes, and leaves the other users as they are, so what remains is still
drawn from the current pairs. A save reported as failed leaves RAM and sessions alone;
if it took effect, a restart loads it, and a restart ends all sessions. `Invalidated` is defined by position (`Nth`), not by `SelectSeq`, whose
recursion the prover cannot unfold.

**Why a confirmed image is left.** `SlotInv`: the running image is confirmed, or it
is on trial, boots next, the other slot is confirmed and no one is writing it. A
write into the other slot during a trial breaks it, which the code allows; the
history variable `lost` marks it. `OffInv` says that a
gateway without power has no task, upload or trial. `WrittenInv` says what the
task has written by each phase; `InstalledTogether` follows from it at the step
that asks for the restart. `ServedInv` adds that a page is served by a running gateway
only: it is then the one found at the last mount, by this firmware, and the task and
the upload unmount it before they write. `IdleInv` says that a task or an upload under
way shows in `update.state` or `ota.state`, by which `NoTasks` and `NoUploads` tell
whether one of the two writers was alone since the boot.

**Why there is one installation.** Registry, secrets and users are written one
after the other, so `OneInstallation` depends on where each sequence stands.
`WorkInv` says who works in which mode and what the marker holds meanwhile;
`EraseInv`, that the stores up to the current one are erased and that only a
recorded reset leaves old content behind; `RestoreInv`, what a restore has written
so far, and that it found neither nodes nor users, so that its erasing loses
nothing; `RamInv`, what a running gateway knows of its flash (users in RAM are on
flash, with a key; a clean gateway has neither nodes nor users there); `RadioInv`,
that the device about to be confirmed has the gateway's own key. The key of a node
in the registry is then the key on flash, unless a network reset was told that its
save of a key had failed when it had not (`doubtful`, a behaviour of the code).
`KeyAssumption` and `EmptyAssumption` keep the marks of a store and of the joining
device apart from keys and from each other.

**Why a join cannot go wrong half-way.** An accept whose caller gave up is still
sent, a deletion or a failed save may come between any two steps, and frames wait
in queues. What makes it safe is which of them a device still listens to.
`RequestInv`: the request a node waits on is its last, and is handled before its
accept is sent, so nothing reserves again for a node that has, or is being sent,
its configuration. `SendInv`: an accept that its device waits for carries what is
registered in RAM and on flash; a complete that its device waits for was sent for
an active record. `ConfirmInv`: a confirm that would be taken is of the
configuration the node has. `ActiveInv`: of a record active in RAM a failed save
cannot leave another version on flash (`reserve` refuses active records). They
range over commands that wait for the mutex as well as queued ones (`UnderWay`).
That nonces are different is assumed (`InUse`), and `MarksAssumption` keeps "no
nonce" and "no record" apart from nonces and records.

**Why automatic control stays clear.** The gateway learns of a fallback from a report,
and answers each report with what its main loop published some reports ago. So it
matters which reports still wait. `NoticedInv`: in a fallback the gateway was able to
notice, at most one report that waits is older than it, the first, and once the
fallback is marked as seen, what is published is from it or from the user. From that
`TargetKnowsFallback` follows. `SeenInv`: the mark in RAM, the controller's memory of
the last report and the reports that wait agree, so that a fallback not seen yet is
still going on. `FloorInv`: nothing below the floor is reported, wanted or published,
except what was published before the floor rose, which the node, being in the
fallback, cannot be told. The last two hold while control is `alone`; a fallback
that starts while reports of the level before it wait ends that, because such a
report would lower the floor again after the first one of the fallback raised it.

**Only model-checked**: liveness, which is out of the prover's reach: `CommandSettles`,
`SessionEnds`, `ProvisionalJoins`, `FixedTakesEffect`, `Recoverable`,
`DeafImageLeaves`, `UiRepairable`. Every safety property and every refinement that a
passing run checks is proved.

## 5. State and plan

Done: command sessions, stores, accounts, commissioning, power control with the
telemetry path as far as it carries reports, recovery and backup, updates. Worth
doing next: `read_info` in `CommandSession`, which changes the registry before the book.

Not modelled:

* **Report schedules, backoff, supply gate** (`TelemetrySchedule.h`): they only
  decide when a report, a session or a join attempt happens. The models leave that
  time open, so they cover every schedule; the functions of a wrapping clock have
  unit tests.
* **Cached telemetry records and the event stream**: the web server reads them, and
  nothing is decided by them.
* **Codecs and cryptography**: byte layouts and primitives with test vectors.
* **Other profiles and drivers**: hardware access and input filters with no state
  that a command or a peer depends on.
* **Management UI**: presentation of the REST interface.
* **Rename and disable** in the registry: disabling has no caller, a name decides
  nothing.
