---------------------------- MODULE FirmwareUpdate ----------------------------
(***************************************************************************)
(* The gateway's updates: the background task of UpdateService.cpp (check, *)
(* install, repair of the Web UI), the Web UI partition that               *)
(* WebUiService.cpp mounts and serves, the ArduinoOTA uploads of           *)
(* OtaService.cpp, the trial of a new firmware image in the main loop, and *)
(* the two application slots between which the bootloader chooses.         *)
(*                                                                         *)
(* A release is a number, and names both of its images. The update task,   *)
(* the main loop and the web server run concurrently; ArduinoOTA runs      *)
(* inside the main loop and stops it while an upload lasts. The power may  *)
(* fail between any two steps.                                             *)
(***************************************************************************)
EXTENDS Naturals, FiniteSets

CONSTANTS
  MaxRelease,  \* bound: releases 1 .. MaxRelease
  NewSeries,   \* the first release of the second firmware series
  Deaf,        \* releases whose firmware never gets an address
  Sectors,     \* bound: sectors of the web partition
  MaxFaults    \* bound: power cuts, outages, failed steps and ArduinoOTA uploads, together

ASSUME ReleaseAssumption ==
  /\ MaxRelease \in Nat \ {0} /\ NewSeries \in 1 .. MaxRelease + 1
  /\ Deaf \subseteq 2 .. MaxRelease
  /\ Sectors \in Nat \ {0} /\ MaxFaults \in Nat

VARIABLES
  latest,   \* the newest published release
  slot,     \* the two slots: an image (0: not a whole one) and its state
  boot,     \* the slot of the active boot record
  running,  \* the slot that runs, 0 while the gateway is off
  ui,       \* the release each sector of the web partition holds, 0 for none
  page,     \* web_ui: its state, the release of the manifest it found, and whether
            \* /assets/ was registered at the boot
  update,   \* update: its state, its task, the task's phase, what it installs
  ota,      \* ArduinoOTA: its state, and the upload it is receiving
  updater,  \* who has begun the library's one Update object
  net,      \* Ethernet has an address
  trial,    \* imageOnTrial
  due,      \* restartSoon() was called
  lost,     \* the previous image was overwritten while its successor was on trial
  faults    \* faults so far

vars == <<latest, slot, boot, running, ui, page, update, ota, updater, net, trial,
          due, lost, faults>>

Release == 1 .. MaxRelease
Sector == 1 .. Sectors
Slot == {1, 2}
Other(s) == 3 - s
Series(v) == IF v < NewSeries THEN 1 ELSE 2
Image == slot[running].image

OffPage == [state |-> "off", version |-> 0, assets |-> FALSE]
IdleUpdate == [state |-> "idle", task |-> "none", phase |-> "none", release |-> 0, at |-> 0]
NoUpload(state) == [state |-> state, what |-> "none", release |-> 0, at |-> 0]
enabled == ota.state # "disabled"

\* The records of the state: a slot, web_ui, the update task, ArduinoOTA.
Slots == [image : 0 .. MaxRelease, state : {"empty", "new", "pending", "valid", "invalid"}]
Pages == [state : {"off", "unusable", "incompatible", "ready", "updating"},
          version : 0 .. MaxRelease, assets : BOOLEAN]
Updates == [state : {"idle", "checking", "upToDate", "available", "installing",
                     "restarting", "failed"},
            task : {"none", "check", "install", "repair"},
            phase : {"none", "begin", "ui", "flash", "firmware"},
            release : 0 .. MaxRelease, at : 0 .. Sectors]
Uploads == [state : {"disabled", "waiting", "ready", "updating", "failed"},
            what : {"none", "ui", "firmware"}, release : 0 .. MaxRelease, at : 0 .. Sectors]

TypeOK ==
  /\ latest \in Release /\ slot \in [Slot -> Slots]
  /\ boot \in Slot /\ running \in Slot \cup {0}
  /\ ui \in [Sector -> 0 .. MaxRelease] /\ page \in Pages
  /\ update \in Updates /\ ota \in Uploads
  /\ updater \in {"nobody", "task", "ota"}
  /\ net \in BOOLEAN /\ trial \in BOOLEAN /\ due \in BOOLEAN /\ lost \in BOOLEAN
  /\ faults \in 0 .. MaxFaults

\* Release 1 runs with its Web UI. A build without LocalSecrets.h has no ArduinoOTA.
Init ==
  /\ latest = 1
  /\ slot = [s \in Slot |-> IF s = 1 THEN [image |-> 1, state |-> "valid"]
                                     ELSE [image |-> 0, state |-> "empty"]]
  /\ boot = 1 /\ running = 0 /\ ui = [i \in Sector |-> 1] /\ page = OffPage
  /\ update = IdleUpdate /\ ota \in {NoUpload("disabled"), NoUpload("waiting")}
  /\ updater = "nobody"
  /\ net = FALSE /\ trial = FALSE /\ due = FALSE /\ lost = FALSE
  /\ faults = 0

Fault == faults < MaxFaults /\ faults' = faults + 1

-----------------------------------------------------------------------------
(* The Web UI *)

\* What inspectManifest() finds on a partition: the release it holds; on one
\* that holds parts of several, nothing usable or the manifest of any of them.
Found(u) ==
  LET present == {u[i] : i \in Sector}
  IN  IF Cardinality(present) = 1 THEN present ELSE present \cup {0}

Fits(v, image) == v # 0 /\ Series(v) = Series(image)

\* web_ui::begin(), by a firmware image, when `v` is found.
Mounted(v, image, assets) ==
  [state |-> IF v = 0 THEN "unusable" ELSE IF Fits(v, image) THEN "ready" ELSE "incompatible",
   version |-> v, assets |-> assets]

\* handlePageRequest(): index.html, or else the recovery page.
Served == page.state = "ready"

\* A UI that works: all of it is there, and its assets are served (addRoutes()).
Works == Served /\ page.assets /\ \A i \in Sector : ui[i] = page.version

\* prepareForFilesystemUpdate(): the file system is unmounted.
Unmounted == [state |-> "updating", version |-> 0, assets |-> page.assets]

\* recoverAfterFailedFilesystemUpdate(): mounts again, and registers nothing.
Remount(u) == \E v \in Found(u) : page' = Mounted(v, Image, page.assets)

\* A sector is erased before it is written, unless it holds the new bytes already.
Interrupted(at, v) ==
  {ui} \cup (IF at < Sectors /\ ui[at + 1] # v THEN {[ui EXCEPT ![at + 1] = 0]} ELSE {})

-----------------------------------------------------------------------------
(* Power and boot *)

\* A reset: what the gateway holds in RAM is gone, and a sector half written.
GoesDown ==
  /\ ui' \in (IF update.phase = "ui" THEN Interrupted(update.at, update.release) ELSE {ui})
            \cup (IF ota.what = "ui" THEN Interrupted(ota.at, ota.release) ELSE {ui})
  /\ running' = 0 /\ page' = OffPage /\ update' = IdleUpdate /\ updater' = "nobody"
  /\ net' = FALSE /\ trial' = FALSE /\ due' = FALSE
  /\ ota' = NoUpload(IF enabled THEN "waiting" ELSE "disabled")

PowerCut ==
  /\ running # 0 /\ Fault /\ GoesDown
  /\ UNCHANGED <<latest, slot, boot, lost>>

\* The bootloader: an image still on trial was reset before it was confirmed and
\* is given up; the active record decides, then the other one, then any whole image.
Selected ==
  LET usable(s) == slot[s].image # 0 /\ slot[s].state \in {"new", "valid"}
  IN  IF usable(boot) THEN {boot}
      ELSE IF usable(Other(boot)) THEN {Other(boot)}
      ELSE {s \in Slot : slot[s].image # 0}

Boot ==
  /\ running = 0
  /\ \E s \in Selected :
       /\ running' = s
       /\ boot' = IF slot[s].state \in {"new", "valid"} THEN s ELSE boot
       /\ slot' = [q \in Slot |->
            [slot[q] EXCEPT !.state = CASE @ = "pending" -> "invalid"
                                        [] @ = "new" /\ q = s -> "pending"
                                        [] OTHER -> @]]
       /\ trial' = (slot[s].state = "new")
       /\ \E v \in Found(ui) :
            page' = Mounted(v, slot[s].image, Fits(v, slot[s].image))
  /\ UNCHANGED <<latest, ui, update, ota, updater, net, due, lost, faults>>

\* Ethernet: an address is obtained, or lost.
NetUp ==
  /\ running # 0 /\ ~net /\ Image \notin Deaf /\ net' = TRUE
  /\ UNCHANGED <<latest, slot, boot, running, ui, page, update, ota, updater, trial,
                 due, lost, faults>>

NetDown ==
  /\ running # 0 /\ net /\ Fault /\ net' = FALSE
  /\ UNCHANGED <<latest, slot, boot, running, ui, page, update, ota, updater, trial,
                 due, lost>>

Publish ==
  /\ latest < MaxRelease /\ latest' = latest + 1
  /\ UNCHANGED <<slot, boot, running, ui, page, update, ota, updater, net, trial,
                 due, lost, faults>>

-----------------------------------------------------------------------------
(* The update task. Its last setState() and the release of taskRunning are one  *)
(* step: a request between them would be refused.                               *)

\* startTask(): one task at a time; its creation may fail. A request in the
\* second before a restart, which nothing refuses, is counted with the faults.
startTask(task, state) ==
  /\ running # 0 /\ update.task = "none"
  /\ \/ /\ update' = [update EXCEPT !.state = state, !.task = task, !.phase = "begin"]
        /\ IF due THEN Fault ELSE UNCHANGED faults
     \/ Fault /\ update' = [update EXCEPT !.state = "failed"]
  /\ UNCHANGED <<latest, slot, boot, running, ui, page, ota, updater, net, trial,
                 due, lost>>

startCheck == startTask("check", "checking")
startInstall ==
  /\ ota.state # "updating" /\ update.state = "available"
  /\ startTask("install", "installing")

\* Mutant: not after a failed update.
startUiRepairOnce ==
  /\ ota.state # "updating" /\ update.state # "failed"
  /\ startTask("repair", "installing")

startUiRepair == ota.state # "updating" /\ startTask("repair", "installing")

\* The requests of an administrator.
UserActs == startCheck \/ startInstall \/ startUiRepair

\* The button of the recovery page; where a page shows that is blank or broken,
\* the same request from a REST client.
RepairWhenBroken == running # 0 /\ ~Works /\ startUiRepair

Ended(state) ==
  [IdleUpdate EXCEPT !.state = state]

\* release::compare() on parsed versions.
Newer(v, current) == v > current

\* release::readSigned(): refused unless the signature, the format and the entry of
\* this board are good; then by its version.
readSigned(v, current) == {"refused", IF Newer(v, current) THEN "ok" ELSE "notNewer"}

\* check(): the newest release against the running firmware.
check ==
  /\ update.task = "check" /\ net
  /\ \E status \in readSigned(latest, Image) :
       /\ update' = CASE status = "ok" -> [Ended("available") EXCEPT !.release = latest]
                      [] status = "notNewer" -> Ended("upToDate")
                      [] status = "refused" -> Ended("failed")
       /\ IF status = "refused" THEN Fault ELSE UNCHANGED faults
  /\ UNCHANGED <<latest, slot, boot, running, ui, page, ota, updater, net, trial, due, lost>>

\* A task that ends before it touches the flash: no network, a failed download,
\* a clock that is not set, no memory, or a release that was never published.
EndsEarly ==
  /\ update.phase = "begin" /\ update' = Ended("failed")
  /\ \/ (~net \/ (update.task = "repair" /\ Image > latest)) /\ UNCHANGED faults
     \/ net /\ Fault
  /\ UNCHANGED <<latest, slot, boot, running, ui, page, ota, updater, net, trial,
                 due, lost>>

\* Mutant: the file system stays mounted under the writer.
BeginUiMounted ==
  /\ update.phase = "begin" /\ net
  /\ \/ /\ update.task = "install"
        /\ update' = [update EXCEPT !.phase = "ui", !.at = 0]
     \/ /\ update.task = "repair" /\ Image <= latest
        /\ update' = [update EXCEPT !.phase = "ui", !.at = 0, !.release = Image]
  /\ UNCHANGED <<latest, slot, boot, running, ui, page, ota, updater, net, trial,
                 due, lost, faults>>

\* installUi() begins: of the release offered, or of the running one.
BeginUi ==
  /\ update.phase = "begin" /\ net
  /\ \/ /\ update.task = "install"
        /\ update' = [update EXCEPT !.phase = "ui", !.at = 0]
     \/ /\ update.task = "repair" /\ Image <= latest
        /\ update' = [update EXCEPT !.phase = "ui", !.at = 0, !.release = Image]
  /\ page' = Unmounted
  /\ UNCHANGED <<latest, slot, boot, running, ui, ota, updater, net, trial,
                 due, lost, faults>>

\* Mutant: one sector past the end.
commitSectorPast ==
  /\ update.phase = "ui" /\ update.at <= Sectors
  /\ ui' = [ui EXCEPT ![update.at + 1] = update.release]
  /\ update' = [update EXCEPT !.at = @ + 1]
  /\ UNCHANGED <<latest, slot, boot, running, page, ota, updater, net, trial,
                 due, lost, faults>>

commitSector ==
  /\ update.phase = "ui" /\ update.at < Sectors
  /\ ui' = [ui EXCEPT ![update.at + 1] = update.release]
  /\ update' = [update EXCEPT !.at = @ + 1]
  /\ UNCHANGED <<latest, slot, boot, running, page, ota, updater, net, trial,
                 due, lost, faults>>

\* installUi() fails: at a sector, or at the end by its size or its hash.
FailUi ==
  /\ update.phase = "ui" /\ Fault
  /\ ui' \in Interrupted(update.at, update.release) /\ Remount(ui')
  /\ update' = Ended("failed")
  /\ UNCHANGED <<latest, slot, boot, running, ota, updater, net, trial, due, lost>>

\* Mutant: a truncated image passes.
EndUiTruncated ==
  /\ update.phase = "ui" /\ update.at > 0
  /\ IF update.task = "repair"
       THEN update' = Ended("restarting") /\ due' = TRUE
       ELSE update' = [update EXCEPT !.phase = "flash", !.at = 0] /\ UNCHANGED due
  /\ UNCHANGED <<latest, slot, boot, running, ui, page, ota, updater, net, trial,
                 lost, faults>>

\* installUi() succeeds: a repair restarts the gateway, an install goes on.
EndUi ==
  /\ update.phase = "ui" /\ update.at = Sectors
  /\ IF update.task = "repair"
       THEN update' = Ended("restarting") /\ due' = TRUE
       ELSE update' = [update EXCEPT !.phase = "flash", !.at = 0] /\ UNCHANGED due
  /\ UNCHANGED <<latest, slot, boot, running, ui, page, ota, updater, net, trial,
                 lost, faults>>

\* Mutant: the slot that does not boot next.
OverwriteNotBoot ==
  /\ slot' = [slot EXCEPT ![Other(boot)].image = 0]
  /\ lost' = (lost \/ slot[running].state = "pending")

\* The first write of a firmware image, into the slot that does not run.
Overwrite ==
  /\ slot' = [slot EXCEPT ![Other(running)].image = 0]
  /\ lost' = (lost \/ slot[running].state = "pending")

\* esp_ota_set_boot_partition(): the whole image boots next, on trial.
Bootable(v) ==
  /\ slot' = [slot EXCEPT ![Other(running)] = [image |-> v, state |-> "new"]]
  /\ boot' = Other(running)

\* installFirmware(): Update.begin() and the first write.
BeginFirmware ==
  /\ update.phase = "flash" /\ updater = "nobody" /\ Overwrite
  /\ updater' = "task" /\ update' = [update EXCEPT !.phase = "firmware"]
  /\ UNCHANGED <<latest, boot, running, ui, page, ota, net, trial, due, faults>>

\* The firmware fails: Update.begin() while an upload holds it, or any later step.
FailFirmware ==
  /\ \/ update.phase = "flash" /\ updater # "nobody" /\ UNCHANGED <<updater, faults>>
     \/ update.phase = "flash" /\ updater = "nobody" /\ Fault /\ UNCHANGED updater
     \/ update.phase = "firmware" /\ Fault /\ updater' = "nobody"
  /\ Remount(ui) /\ update' = Ended("failed")
  /\ UNCHANGED <<latest, slot, boot, running, ui, ota, net, trial, due, lost>>

\* Only a complete image with the signed hash becomes the boot partition.
EndFirmware ==
  /\ update.phase = "firmware" /\ Bootable(update.release)
  /\ updater' = "nobody" /\ update' = Ended("restarting") /\ due' = TRUE
  /\ UNCHANGED <<latest, running, ui, page, ota, net, trial, lost, faults>>

-----------------------------------------------------------------------------
(* ArduinoOTA, inside the main loop *)

\* ota::loop(): begins once there is an address.
OtaReady ==
  /\ running # 0 /\ ota.state = "waiting" /\ net /\ ota' = NoUpload("ready")
  /\ UNCHANGED <<latest, slot, boot, running, ui, page, update, updater, net, trial,
                 due, lost, faults>>

\* An upload starts, of any build; Update.begin() refuses it while the task has it.
OtaStart ==
  /\ ota.state \in {"ready", "failed"} /\ net /\ Fault
  /\ IF updater # "nobody"
       THEN ota' = NoUpload("failed") /\ UNCHANGED <<updater, page>>
       ELSE \E what \in {"ui", "firmware"}, v \in Release :
              /\ ota' = [state |-> "updating", what |-> what, release |-> v, at |-> 0]
              /\ updater' = "ota"
              /\ page' = IF what = "ui" THEN Unmounted ELSE page
  /\ UNCHANGED <<latest, slot, boot, running, ui, update, net, trial, due, lost>>

OtaWrite ==
  /\ \/ /\ ota.what = "ui" /\ ota.at < Sectors
        /\ ui' = [ui EXCEPT ![ota.at + 1] = ota.release] /\ UNCHANGED <<slot, lost>>
     \/ ota.what = "firmware" /\ ota.at = 0 /\ Overwrite /\ UNCHANGED ui
  /\ ota' = [ota EXCEPT !.at = @ + 1]
  /\ UNCHANGED <<latest, boot, running, page, update, updater, net, trial, due, faults>>

\* onEnd, and ArduinoOTA's own restart.
OtaEnd ==
  /\ \/ ota.what = "ui" /\ ota.at = Sectors /\ UNCHANGED <<slot, boot>>
     \/ ota.what = "firmware" /\ ota.at = 1 /\ Bootable(ota.release)
  /\ GoesDown
  /\ UNCHANGED <<latest, lost, faults>>

\* onError: a failed upload of the Web UI mounts what is there.
OtaError ==
  /\ ota.what # "none" /\ updater' = "nobody" /\ ota' = NoUpload("failed")
  /\ IF ota.what = "ui" THEN ui' \in Interrupted(ota.at, ota.release) /\ Remount(ui')
                        ELSE UNCHANGED <<ui, page>>
  /\ UNCHANGED <<latest, slot, boot, running, update, net, trial, due, lost, faults>>

-----------------------------------------------------------------------------
(* The main loop, which an upload keeps waiting *)

\* recovery::loop(): the restart that restartSoon() asked for.
Restart ==
  /\ due /\ ota.what = "none" /\ GoesDown
  /\ UNCHANGED <<latest, slot, boot, lost, faults>>

\* Mutant: by the time alone.
ConfirmAnyway ==
  /\ trial /\ ota.what = "none" /\ trial' = FALSE
  /\ \/ slot' = [slot EXCEPT ![boot].state = "valid"] /\ UNCHANGED faults
     \/ Fault /\ UNCHANGED slot
  /\ UNCHANGED <<latest, boot, running, ui, page, update, ota, updater, net, due, lost>>

\* update::loop(): on the network for a minute. The mark may fail to be written.
Confirm ==
  /\ trial /\ net /\ ota.what = "none" /\ trial' = FALSE
  /\ \/ slot' = [slot EXCEPT ![boot].state = "valid"] /\ UNCHANGED faults
     \/ Fault /\ UNCHANGED slot
  /\ UNCHANGED <<latest, boot, running, ui, page, update, ota, updater, net, due,
                 lost>>

\* update::loop(): ten minutes without an address, which for an image that can
\* get one is a fault of the network. Nothing happens without another image.
Reject ==
  /\ trial /\ ~net /\ ota.what = "none"
  /\ slot[Other(boot)].image # 0
  /\ slot[Other(boot)].state \in {"new", "pending", "valid"}
  /\ slot' = [slot EXCEPT ![boot].state = "invalid"] /\ GoesDown
  /\ IF Image \in Deaf THEN UNCHANGED faults ELSE Fault
  /\ UNCHANGED <<latest, boot, lost>>

-----------------------------------------------------------------------------
TaskStep ==
  check \/ EndsEarly \/ BeginUi \/ commitSector \/ FailUi \/ EndUi \/ BeginFirmware
        \/ FailFirmware \/ EndFirmware
OtaStep == OtaReady \/ OtaStart \/ OtaWrite \/ OtaEnd \/ OtaError
MainLoop == Restart \/ Confirm \/ Reject

Next ==
  \/ PowerCut \/ Boot \/ NetUp \/ NetDown \/ Publish
  \/ UserActs \/ TaskStep \/ OtaStep \/ MainLoop

Spec == Init /\ [][Next]_vars

\* The task and the main loop are scheduled, the gateway boots, Ethernet gets its
\* address, an upload ends, and a user who keeps finding no UI that works asks for
\* the repair.
Fairness ==
  /\ WF_vars(Boot) /\ WF_vars(NetUp)
  /\ WF_vars(TaskStep) /\ WF_vars(OtaWrite \/ OtaEnd) /\ WF_vars(MainLoop)
  /\ SF_vars(RepairWhenBroken)

FairSpec == Spec /\ Fairness

-----------------------------------------------------------------------------
(* Properties *)

\* The bootloader can always go back: some slot holds a whole, confirmed image,
\* also during a trial, an install, an upload and the second before a restart,
\* unless an image was written while its predecessor was on trial; and the
\* running image is never written over (installFirmware(), loop();
\* UpdateService.cpp:44, :245).
PreviousImageKept ==
  /\ running # 0 => Image # 0
  /\ ~lost => \E s \in Slot : slot[s].image # 0 /\ slot[s].state = "valid"

\* Firmware and Web UI change together: a task that asks for the restart has
\* written the whole Web UI of its release, and an install the whole firmware too,
\* whatever failed in between (install(), repairUi(); UpdateService.cpp:353, :371).
\* An ArduinoOTA upload, which the task does not know of, may interfere.
InstalledTogether ==
  [][~enabled /\ update.task # "none" /\ update'.state = "restarting" =>
       /\ \A i \in Sector : ui'[i] = update.release
       /\ slot'[IF update.task = "install" THEN boot' ELSE running].image = update.release
    ]_vars

NoTasks == update.state = "idle"
NoUploads == ota.state \in {"disabled", "waiting", "ready"}

\* A page is served only when it fits the running firmware's series, and the task
\* and ArduinoOTA each never write under a served page, whatever fails and wherever
\* the power is cut (prepareForFilesystemUpdate(), firmwareSeriesMatches()).  Only
\* after both were used since the boot can the failure of one have mounted the
\* partition under the other.
ServedUiFits ==
  Served =>
    /\ Series(page.version) = Series(Image)
    /\ NoUploads => update.phase # "ui"
    /\ NoTasks => ota.what # "ui"
    /\ NoUploads \/ NoTasks => \E i \in Sector : ui[i] = page.version

\* A firmware that cannot reach the network is left again: rejected after its
\* trial, or given up at a reset (loop(), UpdateService.cpp:47), unless the image
\* before it was overwritten during an earlier trial.
DeafImageLeaves ==
  (running # 0 /\ Image \in Deaf) ~> (lost \/ (running # 0 /\ Image \notin Deaf))

\* A gateway without a UI that works - it shows the recovery page, parts of a UI, or
\* a blank page without assets - gets one again, whatever failed and wherever the
\* power was cut, if the repair is asked for again and again and the release can be
\* downloaded (repairUi(), addRoutes()); the page never gets stuck in "updating".
UiRepairable ==
  (running # 0 /\ ~Works /\ ~enabled) ~> (Works \/ lost)

=============================================================================
