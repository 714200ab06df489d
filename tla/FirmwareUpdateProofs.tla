------------------------- MODULE FirmwareUpdateProofs -------------------------
(***************************************************************************)
(* Type correctness of FirmwareUpdate, and that a confirmed image is       *)
(* always left and that firmware and Web UI are installed together, for    *)
(* any number of releases, sectors and faults.                             *)
(***************************************************************************)
EXTENDS FirmwareUpdate, TLAPS

\* A gateway that is off has no network, no task, no upload and no trial.
OffInv == running = 0 => ~net /\ update = IdleUpdate /\ ota.what = "none" /\ ~trial

\* What PreviousImageKept rests on: the running image is confirmed, or it is on
\* trial, boots next, and the other slot is confirmed and not being written.
SlotInv ==
  /\ PreviousImageKept
  /\ trial => slot[running].state = "pending"
  /\ ~lost /\ running # 0 /\ slot[running].state # "valid" =>
       /\ slot[running].state = "pending" /\ boot = running
       /\ slot[Other(running)].image # 0 /\ slot[Other(running)].state = "valid"
       /\ update.phase # "firmware" /\ ~(ota.what = "firmware" /\ ota.at > 0)

\* What InstalledTogether rests on: what the task has written so far.
WrittenInv ==
  /\ ~enabled => ota.what = "none"
  /\ update.task # "none" => update.state # "restarting"
  /\ update.phase = "ui" =>
       /\ update.task \in {"install", "repair"}
       /\ ~enabled => \A i \in 1 .. update.at : ui[i] = update.release
       /\ update.task = "repair" => update.release = Image
  /\ update.phase \in {"flash", "firmware"} =>
       /\ update.task = "install"
       /\ ~enabled => \A i \in Sector : ui[i] = update.release

-----------------------------------------------------------------------------
(* Types *)

LEMMA EndedType ==
  ASSUME NEW state \in {"idle", "checking", "upToDate", "available", "installing",
                        "restarting", "failed"}
  PROVE  Ended(state) \in Updates /\ IdleUpdate \in Updates
BY ReleaseAssumption DEF Ended, IdleUpdate, Updates

LEMMA MountedType ==
  ASSUME NEW v \in 0 .. MaxRelease, NEW image, NEW assets \in BOOLEAN
  PROVE  Mounted(v, image, assets) \in Pages
BY DEF Mounted, Pages

LEMMA FoundType ==
  ASSUME NEW u \in [Sector -> 0 .. MaxRelease], NEW v \in Found(u)
  PROVE  v \in 0 .. MaxRelease
BY ReleaseAssumption DEF Found, Sector

LEMMA RemountType ==
  ASSUME TypeOK, NEW u \in [Sector -> 0 .. MaxRelease], Remount(u)
  PROVE  page' \in Pages
<1>1. page.assets \in BOOLEAN
  BY DEF TypeOK, Pages
<1> QED
  BY <1>1, FoundType, MountedType DEF Remount

LEMMA UnmountedType ==
  ASSUME TypeOK
  PROVE  Unmounted \in Pages /\ OffPage \in Pages
BY ReleaseAssumption DEF TypeOK, Pages, Unmounted, OffPage

LEMMA InterruptedType ==
  ASSUME TypeOK, NEW at \in 0 .. Sectors, NEW v, NEW u \in Interrupted(at, v)
  PROVE  u \in [Sector -> 0 .. MaxRelease]
BY ReleaseAssumption DEF Interrupted, TypeOK, Sector

\* What a reset leaves has its type.
DownOK ==
  /\ ui \in [Sector -> 0 .. MaxRelease] /\ running \in Slot \cup {0} /\ page \in Pages
  /\ update \in Updates /\ ota \in Uploads /\ updater \in {"nobody", "task", "ota"}
  /\ net \in BOOLEAN /\ trial \in BOOLEAN /\ due \in BOOLEAN

LEMMA DownType ==
  ASSUME TypeOK, GoesDown
  PROVE  DownOK'
<1>1. ui' \in [Sector -> 0 .. MaxRelease]
  <2>1. update.at \in 0 .. Sectors /\ ota.at \in 0 .. Sectors
    BY DEF TypeOK, Updates, Uploads
  <2>2. ui \in [Sector -> 0 .. MaxRelease]
    BY DEF TypeOK
  <2> QED
    BY <2>1, <2>2, InterruptedType DEF GoesDown
<1>2. page' \in Pages
  BY ReleaseAssumption DEF GoesDown, OffPage, Pages
<1>3. update' \in Updates
  BY EndedType DEF GoesDown
<1>4. ota' \in Uploads
  BY ReleaseAssumption DEF GoesDown, NoUpload, enabled, Uploads
<1> QED
  BY <1>1, <1>2, <1>3, <1>4 DEF GoesDown, DownOK

\* The image that runs has its type.
LEMMA ImageType ==
  ASSUME TypeOK
  PROVE  /\ \A s \in Slot : slot[s].image \in 0 .. MaxRelease
         /\ running # 0 => Image \in 0 .. MaxRelease
BY DEF TypeOK, Slots, Slot, Image

LEMMA FaultType ==
  ASSUME TypeOK, Fault
  PROVE  faults' \in 0 .. MaxFaults
BY ReleaseAssumption DEF TypeOK, Fault

LEMMA OfferType ==
  ASSUME TypeOK
  PROVE  [Ended("available") EXCEPT !.release = latest] \in Updates
<1>1. latest \in 0 .. MaxRelease
  BY ReleaseAssumption DEF TypeOK, Release
<1>2. Ended("available") \in Updates
  BY EndedType
<1> QED
  BY <1>1, <1>2 DEF Updates

\* A slot with another image is a slot.
LEMMA ImageSetType ==
  ASSUME NEW record \in Slots, NEW v \in 0 .. MaxRelease
  PROVE  [record EXCEPT !.image = v] \in Slots
BY DEF Slots

LEMMA OverwriteType ==
  ASSUME TypeOK, Overwrite
  PROVE  slot' \in [Slot -> Slots] /\ lost' \in BOOLEAN
<1> DEFINE o == Other(running)
<1>1. slot \in [Slot -> Slots] /\ 0 \in 0 .. MaxRelease /\ lost \in BOOLEAN
  BY ReleaseAssumption DEF TypeOK
<1>2. \A s \in Slot : [slot[s] EXCEPT !.image = 0] \in Slots
  BY <1>1, ImageSetType
<1>3. slot' = [slot EXCEPT ![o] = [slot[o] EXCEPT !.image = 0]]
  BY DEF Overwrite
<1> HIDE DEF o
<1>4. slot' \in [Slot -> Slots]
  BY <1>1, <1>2, <1>3
<1> QED
  BY <1>1, <1>4 DEF Overwrite

LEMMA BootableType ==
  ASSUME TypeOK, NEW v \in 0 .. MaxRelease, Bootable(v)
  PROVE  slot' \in [Slot -> Slots] /\ (running # 0 => boot' \in Slot)
<1> DEFINE o == Other(running)
           r == [image |-> v, state |-> "new"]
<1>1. r \in Slots
  BY DEF Slots
<1>2. slot' = [slot EXCEPT ![o] = r] /\ boot' = o
  BY DEF Bootable
<1>3. running # 0 => o \in Slot
  BY DEF TypeOK, Other, Slot
<1> HIDE DEF o, r
<1> QED
  BY <1>1, <1>2, <1>3 DEF TypeOK

\* Every step keeps the types.
LEMMA TypeStep ==
  ASSUME TypeOK, OffInv, [Next]_vars
  PROVE  TypeOK'
<1>1. CASE PowerCut
  BY <1>1, ReleaseAssumption, DownType DEF PowerCut, Fault, TypeOK, DownOK
<1>2. CASE Boot
  <2>1. PICK s \in Selected :
          /\ running' = s /\ boot' = IF slot[s].state \in {"new", "valid"} THEN s ELSE boot
          /\ slot' = [q \in Slot |->
               [slot[q] EXCEPT !.state = CASE @ = "pending" -> "invalid"
                                           [] @ = "new" /\ q = s -> "pending"
                                           [] OTHER -> @]]
          /\ trial' = (slot[s].state = "new")
          /\ \E v \in Found(ui) : page' = Mounted(v, slot[s].image, Fits(v, slot[s].image))
    BY <1>2 DEF Boot
  <2>2. s \in Slot /\ slot[s] \in Slots
    BY <2>1 DEF Selected, TypeOK, Other, Slot
  <2>3. page' \in Pages
    BY <2>1, FoundType, MountedType DEF TypeOK, Fits
  <2>4. slot' \in [Slot -> Slots]
    BY <2>1 DEF TypeOK, Slots
  <2> QED
    BY <1>2, <2>1, <2>2, <2>3, <2>4 DEF Boot, TypeOK
<1>3. CASE NetUp
  BY <1>3, ReleaseAssumption DEF NetUp, TypeOK
<1>4. CASE NetDown
  <2>1. faults' \in 0 .. MaxFaults
    BY <1>4, ReleaseAssumption, FaultType DEF NetDown
  <2> QED
    BY <1>4, <2>1 DEF NetDown, TypeOK
<1>5. CASE Publish
  BY <1>5, ReleaseAssumption DEF Publish, TypeOK, Release
<1>6. CASE startCheck
  <2>1. update' \in Updates
    BY <1>6, ReleaseAssumption DEF startCheck, startTask, TypeOK, Updates
  <2>2. faults' \in 0 .. MaxFaults
    BY <1>6, ReleaseAssumption, FaultType DEF startCheck, startTask, TypeOK
  <2> QED
    BY <1>6, <2>1, <2>2 DEF startCheck, startTask, TypeOK
<1>7. CASE startInstall
  <2>1. update' \in Updates
    BY <1>7, ReleaseAssumption DEF startInstall, startTask, TypeOK, Updates
  <2>2. faults' \in 0 .. MaxFaults
    BY <1>7, ReleaseAssumption, FaultType DEF startInstall, startTask, TypeOK
  <2> QED
    BY <1>7, <2>1, <2>2 DEF startInstall, startTask, TypeOK
<1>8. CASE startUiRepair
  <2>1. update' \in Updates
    BY <1>8, ReleaseAssumption DEF startUiRepair, startTask, TypeOK, Updates
  <2>2. faults' \in 0 .. MaxFaults
    BY <1>8, ReleaseAssumption, FaultType DEF startUiRepair, startTask, TypeOK
  <2> QED
    BY <1>8, <2>1, <2>2 DEF startUiRepair, startTask, TypeOK
<1>9. CASE check
  <2>1. update' \in Updates
    BY <1>9, ReleaseAssumption, EndedType, OfferType
    DEF check, readSigned, TypeOK
  <2>2. faults' \in 0 .. MaxFaults
    BY <1>9, ReleaseAssumption, FaultType DEF check, TypeOK
  <2> QED
    BY <1>9, <2>1, <2>2 DEF check, TypeOK
<1>10. CASE EndsEarly
  BY <1>10, ReleaseAssumption, EndedType DEF EndsEarly, Fault, TypeOK
<1>11. CASE BeginUi
  <2>1. update' \in Updates
    <3>1. running # 0
      BY <1>11 DEF BeginUi, OffInv, IdleUpdate
    <3>2. Image \in 0 .. MaxRelease /\ 0 \in 0 .. Sectors
      BY <3>1, ImageType, ReleaseAssumption
    <3>3. update' = [update EXCEPT !.phase = "ui", !.at = 0]
            \/ update' = [update EXCEPT !.phase = "ui", !.at = 0, !.release = Image]
      BY <1>11 DEF BeginUi
    <3> QED
      BY <3>2, <3>3 DEF TypeOK, Updates
  <2>2. page' \in Pages
    BY <1>11, UnmountedType DEF BeginUi
  <2> QED
    BY <1>11, <2>1, <2>2 DEF BeginUi, TypeOK
<1>12. CASE commitSector
  <2>1. update' \in Updates
    BY <1>12, ReleaseAssumption DEF commitSector, TypeOK, Updates
  <2>2. update.release \in 0 .. MaxRelease
    BY <1>12, ReleaseAssumption DEF TypeOK, Updates
  <2>3. ui' \in [Sector -> 0 .. MaxRelease]
    BY <1>12, ReleaseAssumption, <2>2 DEF commitSector, TypeOK, Sector
  <2> QED
    BY <1>12, <2>1, <2>2, <2>3 DEF commitSector, TypeOK
<1>13. CASE FailUi
  BY <1>13, ReleaseAssumption, EndedType, InterruptedType, RemountType
  DEF FailUi, Fault, TypeOK, Updates
<1>14. CASE EndUi
  <2>1. update' \in Updates
    <3>1. update' = Ended("restarting") \/ update' = [update EXCEPT !.phase = "flash", !.at = 0]
      BY <1>14 DEF EndUi
    <3>2. Ended("restarting") \in Updates
      BY EndedType
    <3>3. 0 \in 0 .. Sectors
      BY ReleaseAssumption
    <3>4. [update EXCEPT !.phase = "flash", !.at = 0] \in Updates
      BY <3>3 DEF TypeOK, Updates
    <3> QED
      BY <3>1, <3>2, <3>4
  <2>2. due' \in BOOLEAN
    BY <1>14, ReleaseAssumption DEF EndUi, TypeOK
  <2> QED
    BY <1>14, <2>1, <2>2 DEF EndUi, TypeOK
<1>15. CASE BeginFirmware
  <2>1. update' \in Updates
    BY <1>15, ReleaseAssumption DEF BeginFirmware, TypeOK, Updates
  <2>2. slot' \in [Slot -> Slots]
    BY <1>15, ReleaseAssumption, OverwriteType DEF BeginFirmware
  <2>3. lost' \in BOOLEAN
    BY <1>15, ReleaseAssumption DEF BeginFirmware, Overwrite, TypeOK
  <2> QED
    BY <1>15, <2>1, <2>2, <2>3 DEF BeginFirmware, TypeOK
<1>16. CASE FailFirmware
  BY <1>16, ReleaseAssumption, EndedType, RemountType
  DEF FailFirmware, Fault, TypeOK
<1>17. CASE EndFirmware
  <2>1. running # 0
    BY <1>17, ReleaseAssumption DEF EndFirmware, OffInv, IdleUpdate
  <2>2. update.release \in 0 .. MaxRelease
    BY <1>17, ReleaseAssumption DEF TypeOK, Updates
  <2>3. slot' \in [Slot -> Slots] /\ boot' \in Slot
    BY <1>17, ReleaseAssumption, <2>1, <2>2, BootableType DEF EndFirmware
  <2>4. update' \in Updates
    BY <1>17, ReleaseAssumption, EndedType DEF EndFirmware
  <2> QED
    BY <1>17, <2>1, <2>2, <2>3, <2>4 DEF EndFirmware, TypeOK
<1>18. CASE OtaReady
  BY <1>18, ReleaseAssumption DEF OtaReady, NoUpload, TypeOK, Uploads
<1>19. CASE OtaStart
  BY <1>19, ReleaseAssumption, UnmountedType
  DEF OtaStart, Fault, NoUpload, TypeOK, Uploads, Release
<1>20. CASE OtaWrite
  <2>1. ota' \in Uploads
    BY <1>20, ReleaseAssumption DEF OtaWrite, TypeOK, Uploads
  <2>2. ota.release \in 0 .. MaxRelease
    BY <1>20, ReleaseAssumption DEF TypeOK, Uploads
  <2>3. ui' \in [Sector -> 0 .. MaxRelease]
    BY <1>20, ReleaseAssumption, <2>2 DEF OtaWrite, TypeOK, Sector
  <2>4. slot' \in [Slot -> Slots]
    BY <1>20, ReleaseAssumption, OverwriteType DEF OtaWrite, TypeOK
  <2>5. lost' \in BOOLEAN
    BY <1>20, ReleaseAssumption DEF OtaWrite, Overwrite, TypeOK
  <2> QED
    BY <1>20, <2>1, <2>2, <2>3, <2>4, <2>5 DEF OtaWrite, TypeOK
<1>21. CASE OtaEnd
  <2>1. running # 0
    BY <1>21, ReleaseAssumption DEF OtaEnd, OffInv
  <2>2. ota.release \in 0 .. MaxRelease
    BY <1>21, ReleaseAssumption DEF TypeOK, Uploads
  <2>3. slot' \in [Slot -> Slots] /\ boot' \in Slot
    BY <1>21, ReleaseAssumption, <2>1, <2>2, BootableType DEF OtaEnd, TypeOK
  <2>4. DownOK'
    BY <1>21, ReleaseAssumption, DownType DEF OtaEnd
  <2> QED
    BY <1>21, <2>1, <2>2, <2>3, <2>4 DEF OtaEnd, TypeOK, DownOK
<1>22. CASE OtaError
  BY <1>22, ReleaseAssumption, InterruptedType, RemountType
  DEF OtaError, NoUpload, TypeOK, Uploads
<1>23. CASE Restart
  BY <1>23, ReleaseAssumption, DownType DEF Restart, TypeOK, DownOK
<1>24. CASE Confirm
  <2>1. slot' \in [Slot -> Slots]
    BY <1>24, ReleaseAssumption DEF Confirm, TypeOK, Slots
  <2>2. faults' \in 0 .. MaxFaults
    BY <1>24, ReleaseAssumption, FaultType DEF Confirm, TypeOK
  <2> QED
    BY <1>24, <2>1, <2>2 DEF Confirm, TypeOK
<1>25. CASE Reject
  BY <1>25, ReleaseAssumption, DownType
  DEF Reject, Fault, TypeOK, Slots, DownOK
<1>26. CASE UNCHANGED vars
  BY <1>26 DEF vars, TypeOK
<1> QED
  BY <1>1, <1>2, <1>3, <1>4, <1>5, <1>6, <1>7, <1>8, <1>9, <1>10, <1>11,
     <1>12, <1>13, <1>14, <1>15, <1>16, <1>17, <1>18, <1>19, <1>20, <1>21,
     <1>22, <1>23, <1>24, <1>25, <1>26
  DEF Next, UserActs, TaskStep, OtaStep, MainLoop

\* No step gives a gateway that is off anything to do.
LEMMA OffStep ==
  ASSUME TypeOK, OffInv, [Next]_vars
  PROVE  OffInv'
<1>1. CASE PowerCut
  BY <1>1 DEF PowerCut, OffInv, GoesDown, NoUpload
<1>2. CASE Boot
  BY <1>2, ReleaseAssumption, ImageType
  DEF Boot, OffInv, Selected, Slot, TypeOK, Other
<1>3. CASE NetUp
  BY <1>3 DEF NetUp, OffInv
<1>4. CASE NetDown
  BY <1>4 DEF NetDown, OffInv
<1>5. CASE Publish
  BY <1>5 DEF Publish, OffInv
<1>6. CASE startCheck
  BY <1>6 DEF startCheck, OffInv, startTask
<1>7. CASE startInstall
  BY <1>7 DEF startInstall, OffInv, startTask
<1>8. CASE startUiRepair
  BY <1>8 DEF startUiRepair, OffInv, startTask
<1>9. CASE check
  BY <1>9 DEF check, OffInv, IdleUpdate
<1>10. CASE EndsEarly
  BY <1>10 DEF EndsEarly, OffInv, IdleUpdate
<1>11. CASE BeginUi
  BY <1>11 DEF BeginUi, OffInv, IdleUpdate
<1>12. CASE commitSector
  BY <1>12 DEF commitSector, OffInv, IdleUpdate
<1>13. CASE FailUi
  BY <1>13 DEF FailUi, OffInv, IdleUpdate
<1>14. CASE EndUi
  BY <1>14 DEF EndUi, OffInv, IdleUpdate
<1>15. CASE BeginFirmware
  BY <1>15 DEF BeginFirmware, OffInv, IdleUpdate
<1>16. CASE FailFirmware
  BY <1>16 DEF FailFirmware, OffInv, IdleUpdate
<1>17. CASE EndFirmware
  BY <1>17 DEF EndFirmware, OffInv, IdleUpdate
<1>18. CASE OtaReady
  BY <1>18 DEF OtaReady, OffInv, NoUpload
<1>19. CASE OtaStart
  BY <1>19 DEF OtaStart, OffInv
<1>20. CASE OtaWrite
  BY <1>20 DEF OtaWrite, OffInv
<1>21. CASE OtaEnd
  BY <1>21 DEF OtaEnd, OffInv, GoesDown, NoUpload
<1>22. CASE OtaError
  BY <1>22 DEF OtaError, OffInv
<1>23. CASE Restart
  BY <1>23 DEF Restart, OffInv, GoesDown, NoUpload
<1>24. CASE Confirm
  BY <1>24 DEF Confirm, OffInv
<1>25. CASE Reject
  BY <1>25 DEF Reject, OffInv, GoesDown, NoUpload
<1>26. CASE UNCHANGED vars
  BY <1>26 DEF vars, OffInv
<1> QED
  BY <1>1, <1>2, <1>3, <1>4, <1>5, <1>6, <1>7, <1>8, <1>9, <1>10, <1>11,
     <1>12, <1>13, <1>14, <1>15, <1>16, <1>17, <1>18, <1>19, <1>20, <1>21,
     <1>22, <1>23, <1>24, <1>25, <1>26
  DEF Next, UserActs, TaskStep, OtaStep, MainLoop

-----------------------------------------------------------------------------
(* The previous image *)

\* The slot that runs is not the one written.
LEMMA OtherSlot ==
  ASSUME TypeOK, running # 0
  PROVE  /\ running \in Slot /\ Other(running) \in Slot /\ Other(running) # running
         /\ \A s \in Slot : s = running \/ s = Other(running)
BY DEF TypeOK, Slot, Other

\* A step that touches no slot, and begins no write of one.
LEMMA QuietStep ==
  ASSUME SlotInv, UNCHANGED <<slot, boot, running, lost>>, trial' => trial,
         update'.phase = "firmware" => update.phase = "firmware",
         ota'.what = "firmware" /\ ota'.at > 0 => ota.what = "firmware" /\ ota.at > 0
  PROVE  SlotInv'
BY DEF SlotInv, PreviousImageKept, Image

\* A step after which the gateway is off leaves a confirmed image.
LEMMA DownStep ==
  ASSUME GoesDown, ~lost' => \E s \in Slot : slot'[s].image # 0 /\ slot'[s].state = "valid"
  PROVE  SlotInv'
BY DEF GoesDown, SlotInv, PreviousImageKept

\* The first write of an image, by a confirmed one or else noted.
LEMMA OverwriteStep ==
  ASSUME TypeOK, SlotInv, running # 0, Overwrite, UNCHANGED <<boot, running, trial>>
  PROVE  SlotInv'
<1>1. /\ running \in Slot /\ Other(running) # running /\ slot \in [Slot -> Slots]
      /\ lost \in BOOLEAN
  BY OtherSlot DEF TypeOK
<1>2. slot'[running] = slot[running]
  BY <1>1 DEF Overwrite
<1>3. ~lost' => slot[running].state = "valid" /\ slot[running].image # 0
  BY <1>1 DEF Overwrite, SlotInv, PreviousImageKept, Image
<1> QED
  BY <1>1, <1>2, <1>3 DEF SlotInv, PreviousImageKept, Image

\* A whole image becomes bootable: the running one is confirmed, or the loss noted.
LEMMA BootableKeepsRunning ==
  ASSUME TypeOK, SlotInv, running # 0, NEW v, Bootable(v),
         update.phase = "firmware" \/ (ota.what = "firmware" /\ ota.at > 0)
  PROVE  /\ running \in Slot /\ slot'[running] = slot[running] /\ slot[running].image # 0
         /\ ~lost => slot[running].state = "valid"
<1>1. /\ running \in Slot /\ Other(running) # running /\ slot \in [Slot -> Slots]
  BY OtherSlot DEF TypeOK
<1>2. slot'[running] = slot[running]
  BY <1>1 DEF Bootable
<1> QED
  BY <1>1, <1>2 DEF SlotInv, PreviousImageKept, Image

LEMMA BootKeepsImage ==
  ASSUME TypeOK, OffInv, SlotInv, Boot
  PROVE  SlotInv'
<1> USE DEF Slot
<1>1. PICK s \in Selected :
        /\ running' = s
        /\ boot' = IF slot[s].state \in {"new", "valid"} THEN s ELSE boot
        /\ slot' = [q \in Slot |->
             [slot[q] EXCEPT !.state = CASE @ = "pending" -> "invalid"
                                         [] @ = "new" /\ q = s -> "pending"
                                         [] OTHER -> @]]
        /\ trial' = (slot[s].state = "new")
  BY DEF Boot
<1>2. running = 0 /\ update' = IdleUpdate /\ ota'.what = "none" /\ lost' = lost
  BY DEF Boot, OffInv
<1>3. s \in Slot /\ Other(s) \in Slot /\ Other(s) # s /\ slot[s].image # 0
  BY <1>1 DEF Selected, TypeOK, Other
<1>4. \A q \in Slot :
        /\ slot'[q].image = slot[q].image
        /\ slot[q].state = "valid" => slot'[q].state = "valid"
        /\ slot[q].state = "new" /\ q = s => slot'[q].state = "pending"
  BY <1>1 DEF TypeOK, Slots
<1>5. ~lost => /\ \E q \in Slot : slot[q].image # 0 /\ slot[q].state = "valid"
               /\ slot[s].state \in {"new", "valid"}
  <2>1. SUFFICES ASSUME ~lost, NEW q \in Slot, slot[q].image # 0, slot[q].state = "valid"
                 PROVE  slot[s].state \in {"new", "valid"}
    BY DEF SlotInv, PreviousImageKept
  <2>2. boot \in Slot /\ (q = boot \/ q = Other(boot))
    BY DEF TypeOK, Other
  <2> QED
    BY <1>1, <2>1, <2>2 DEF Selected
<1>6. PreviousImageKept'
  BY <1>1, <1>2, <1>3, <1>4, <1>5 DEF PreviousImageKept, Image
<1>7. trial' => slot'[running'].state = "pending"
  BY <1>1, <1>3, <1>4
<1>8. ~lost' /\ slot'[running'].state # "valid" =>
        /\ slot'[running'].state = "pending" /\ boot' = running'
        /\ slot'[Other(running')].image # 0 /\ slot'[Other(running')].state = "valid"
  <2>1. SUFFICES ASSUME ~lost, slot'[s].state # "valid"
                 PROVE  /\ slot'[s].state = "pending" /\ boot' = s
                        /\ slot'[Other(s)].image # 0 /\ slot'[Other(s)].state = "valid"
    BY <1>1, <1>2
  <2>2. slot[s].state = "new"
    BY <2>1, <1>3, <1>4, <1>5
  <2>3. slot[Other(s)].image # 0 /\ slot[Other(s)].state = "valid"
    BY <2>1, <2>2, <1>3, <1>5 DEF Other
  <2> QED
    BY <2>2, <2>3, <1>1, <1>3, <1>4
<1> QED
  BY <1>2, <1>6, <1>7, <1>8 DEF SlotInv, IdleUpdate

\* A task gets to the write of the firmware only by beginning it.
LEMMA PhaseStep ==
  ASSUME TypeOK, TaskStep \/ UserActs, update'.phase = "firmware"
  PROVE  BeginFirmware \/ update.phase = "firmware"
<1>1. update \in Updates
  BY DEF TypeOK
<1>2. CASE UserActs
  BY <1>1, <1>2 DEF UserActs, startCheck, startInstall, startUiRepair, startTask, Updates
<1>3. CASE check
  <2>1. ASSUME NEW state PROVE Ended(state).phase # "firmware"
    BY DEF Ended, IdleUpdate
  <2>2. [Ended("available") EXCEPT !.release = latest].phase # "firmware"
    BY DEF Ended, IdleUpdate
  <2> QED
    BY <1>3, <2>1, <2>2 DEF check, readSigned
<1>4. CASE EndsEarly \/ FailUi \/ FailFirmware \/ EndFirmware
  BY <1>4 DEF EndsEarly, FailUi, FailFirmware, EndFirmware, Ended, IdleUpdate
<1>5. CASE BeginUi \/ commitSector \/ EndUi
  BY <1>1, <1>5 DEF BeginUi, commitSector, EndUi, Ended, IdleUpdate, Updates
<1> QED
  BY <1>2, <1>3, <1>4, <1>5 DEF TaskStep

\* No step takes the last confirmed image away.
LEMMA SlotStep ==
  ASSUME TypeOK, OffInv, SlotInv, [Next]_vars
  PROVE  SlotInv'
<1>1. CASE PowerCut \/ Restart
  <2>1. GoesDown /\ UNCHANGED <<slot, lost>>
    BY <1>1 DEF PowerCut, Restart
  <2> QED
    BY <2>1, DownStep DEF SlotInv, PreviousImageKept
<1>2. CASE Boot
  BY <1>2, BootKeepsImage
<1>3. CASE NetUp \/ NetDown \/ Publish \/ OtaReady \/ OtaError \/ UNCHANGED vars
  <2>1. UNCHANGED <<slot, boot, running, lost, update, trial>>
    BY <1>3 DEF NetUp, NetDown, Publish, OtaReady, OtaError, vars
  <2>2. ota' = ota \/ ota'.what = "none"
    BY <1>3 DEF NetUp, NetDown, Publish, OtaReady, OtaError, NoUpload, vars
  <2> QED
    BY <2>1, <2>2, QuietStep
<1>4. CASE (TaskStep \/ UserActs) /\ ~BeginFirmware /\ ~EndFirmware
  <2>1. UNCHANGED <<slot, boot, running, lost, trial, ota>>
    BY <1>4 DEF UserActs, startCheck, startInstall, startUiRepair, startTask, TaskStep,
       check, EndsEarly, BeginUi, commitSector, FailUi, EndUi, FailFirmware
  <2>2. update'.phase = "firmware" => update.phase = "firmware"
    BY <1>4, PhaseStep
  <2> QED
    BY <2>1, <2>2, QuietStep
<1>5. CASE BeginFirmware
  <2>1. running # 0
    BY <1>5 DEF BeginFirmware, OffInv, IdleUpdate
  <2> QED
    BY <1>5, <2>1, OverwriteStep DEF BeginFirmware
<1>6. CASE EndFirmware
  <2>1. running # 0 /\ Bootable(update.release) /\ update.phase = "firmware"
        /\ UNCHANGED <<running, lost, trial>>
    BY <1>6 DEF EndFirmware, OffInv, IdleUpdate
  <2>2. /\ running \in Slot /\ slot'[running] = slot[running] /\ slot[running].image # 0
        /\ ~lost => slot[running].state = "valid"
    BY <2>1, BootableKeepsRunning
  <2> QED
    BY <2>1, <2>2 DEF SlotInv, PreviousImageKept, Image
<1>7. CASE OtaStart
  <2>1. UNCHANGED <<slot, boot, running, lost, update, trial>>
    BY <1>7 DEF OtaStart
  <2>2. ~(ota'.what = "firmware" /\ ota'.at > 0)
    BY <1>7 DEF OtaStart, NoUpload
  <2> QED
    BY <2>1, <2>2, QuietStep
<1>8. CASE OtaWrite
  <2>1. ota.what # "none" /\ running # 0
    BY <1>8 DEF OtaWrite, OffInv
  <2>2. CASE Overwrite
    BY <1>8, <2>1, <2>2, OverwriteStep DEF OtaWrite
  <2>3. CASE ota.what = "ui" /\ UNCHANGED <<slot, lost>>
    <3>1. UNCHANGED <<boot, running, update, trial>> /\ ota'.what = "ui"
      BY <1>8, <2>3 DEF OtaWrite, TypeOK, Uploads
    <3> QED
      BY <2>3, <3>1, QuietStep
  <2> QED
    BY <1>8, <2>2, <2>3 DEF OtaWrite
<1>9. CASE OtaEnd
  <2>1. GoesDown /\ lost' = lost /\ ota.what # "none" /\ running # 0
    BY <1>9 DEF OtaEnd, OffInv
  <2>2. CASE UNCHANGED slot
    BY <2>1, <2>2, DownStep DEF SlotInv, PreviousImageKept
  <2>3. CASE ota.what = "firmware" /\ ota.at = 1 /\ Bootable(ota.release)
    <3>1. /\ running \in Slot /\ slot'[running] = slot[running] /\ slot[running].image # 0
          /\ ~lost => slot[running].state = "valid"
      BY <2>1, <2>3, BootableKeepsRunning
    <3> QED
      BY <2>1, <3>1, DownStep
  <2> QED
    BY <1>9, <2>2, <2>3 DEF OtaEnd
<1>10. CASE Confirm
  <2>1. running # 0 /\ trial /\ ~trial' /\ UNCHANGED <<boot, running, update, ota, lost>>
    BY <1>10 DEF Confirm, OffInv
  <2>2. CASE UNCHANGED slot
    BY <2>1, <2>2, QuietStep
  <2>3. CASE slot' = [slot EXCEPT ![boot].state = "valid"]
    <3>1. boot \in Slot /\ running \in Slot /\ slot \in [Slot -> Slots]
      BY <2>1 DEF TypeOK
    <3>2. \A s \in Slot : /\ slot'[s].image = slot[s].image
                          /\ slot[s].state = "valid" => slot'[s].state = "valid"
      BY <2>3, <3>1 DEF Slots
    <3>3. slot'[boot].state = "valid"
      BY <2>3, <3>1 DEF Slots
    <3>4. ~lost => boot = running
      BY <2>1 DEF SlotInv
    <3>5. PreviousImageKept'
      BY <2>1, <3>1, <3>2 DEF SlotInv, PreviousImageKept, Image
    <3>6. ~lost' => slot'[running'].state = "valid"
      BY <2>1, <3>3, <3>4
    <3> QED
      BY <2>1, <3>5, <3>6 DEF SlotInv
  <2> QED
    BY <1>10, <2>2, <2>3 DEF Confirm
<1>11. CASE Reject
  <2>1. /\ GoesDown /\ trial /\ running # 0 /\ lost' = lost
        /\ slot' = [slot EXCEPT ![boot].state = "invalid"]
    BY <1>11 DEF Reject, OffInv
  <2>2. slot \in [Slot -> Slots] /\ Other(running) \in Slot /\ Other(running) # running
    BY <2>1, OtherSlot DEF TypeOK
  <2>3. ~lost => /\ boot = running
                 /\ slot[Other(running)].image # 0 /\ slot[Other(running)].state = "valid"
    BY <2>1 DEF SlotInv
  <2>4. ~lost => slot'[Other(running)] = slot[Other(running)]
    BY <2>1, <2>2, <2>3
  <2> QED
    BY <2>1, <2>2, <2>3, <2>4, DownStep
<1> QED
  BY <1>1, <1>2, <1>3, <1>4, <1>5, <1>6, <1>7, <1>8, <1>9, <1>10, <1>11
  DEF Next, UserActs, TaskStep, OtaStep, MainLoop

-----------------------------------------------------------------------------
(* What the task has written *)

\* A step that ends the task, or after which there is none.
LEMMA TaskEnds ==
  ASSUME update'.task = "none", update'.phase = "none", ~enabled' => ota'.what = "none"
  PROVE  WrittenInv'
BY DEF WrittenInv

\* A step that does not touch what the task has written, nor the running image.
LEMMA SameWritten ==
  ASSUME WrittenInv, update' = update, ~enabled' => ~enabled /\ ota'.what = "none",
         ~enabled => ui' = ui, update.task # "none" => Image' = Image
  PROVE  WrittenInv'
BY DEF WrittenInv

\* The running image is never written over.
LEMMA SameImage ==
  ASSUME TypeOK, running # 0, running' = running,
         \/ UNCHANGED slot \/ Overwrite
         \/ \E state \in {"valid", "invalid"} : slot' = [slot EXCEPT ![boot].state = state]
  PROVE  Image' = Image
<1>1. /\ running \in Slot /\ Other(running) # running /\ slot \in [Slot -> Slots]
      /\ boot \in Slot
  BY OtherSlot DEF TypeOK
<1>2. CASE UNCHANGED slot
  BY <1>2 DEF Image
<1>3. CASE Overwrite
  BY <1>1, <1>3 DEF Overwrite, Image
<1>4. ASSUME NEW state, slot' = [slot EXCEPT ![boot].state = state]
      PROVE  Image' = Image
  BY <1>1, <1>4 DEF Image, Slots
<1> QED
  BY <1>2, <1>3, <1>4

\* A task that starts has written nothing yet.
LEMMA StartWritten ==
  ASSUME TypeOK, WrittenInv, NEW task \in {"check", "install", "repair"},
         NEW state \in {"checking", "installing"}, startTask(task, state)
  PROVE  WrittenInv'
<1>1. update \in Updates
  BY DEF TypeOK
<1>2. /\ update.task = "none" /\ UNCHANGED <<ui, ota>>
      /\ \/ update' = [update EXCEPT !.state = state, !.task = task, !.phase = "begin"]
         \/ update' = [update EXCEPT !.state = "failed"]
  BY DEF startTask
<1>3. update.phase \notin {"ui", "flash", "firmware"}
  BY <1>2 DEF WrittenInv
<1>4. update'.phase \notin {"ui", "flash", "firmware"}
      /\ (update'.task # "none" => update'.state # "restarting")
  BY <1>1, <1>2, <1>3 DEF Updates
<1> QED
  BY <1>2, <1>4 DEF WrittenInv, enabled

\* No step makes the task forget, or another write over, what it has written.
LEMMA WrittenStep ==
  ASSUME TypeOK, OffInv, WrittenInv, [Next]_vars
  PROVE  WrittenInv'
<1>1. CASE PowerCut \/ Restart \/ Reject \/ OtaEnd
  <2>1. GoesDown
    BY <1>1 DEF PowerCut, Restart, Reject, OtaEnd
  <2> QED
    BY <2>1, TaskEnds DEF GoesDown, IdleUpdate, NoUpload
<1>2. CASE Boot
  <2>1. update' = IdleUpdate /\ ota'.what = "none"
    BY <1>2 DEF Boot, OffInv
  <2> QED
    BY <2>1, TaskEnds DEF IdleUpdate
<1>3. CASE NetUp \/ NetDown \/ Publish \/ OtaReady \/ OtaStart \/ UNCHANGED vars
  <2>1. UNCHANGED <<slot, running, ui, update>>
    BY <1>3 DEF NetUp, NetDown, Publish, OtaReady, OtaStart, vars
  <2>2. ~enabled' => ~enabled /\ ota'.what = "none"
    BY <1>3 DEF NetUp, NetDown, Publish, OtaReady, OtaStart, NoUpload, vars, enabled,
       WrittenInv
  <2> QED
    BY <2>1, <2>2, SameWritten DEF Image
<1>4. CASE UserActs
  BY <1>4, StartWritten DEF UserActs, startCheck, startInstall, startUiRepair
<1>5. CASE check \/ EndsEarly \/ FailUi \/ FailFirmware \/ EndFirmware
  <2>1. UNCHANGED ota
    BY <1>5 DEF check, EndsEarly, FailUi, FailFirmware, EndFirmware
  <2>2. \E state \in {"available", "upToDate", "failed", "restarting"} :
          \/ update' = Ended(state)
          \/ update' = [Ended(state) EXCEPT !.release = latest]
    BY <1>5 DEF check, readSigned, EndsEarly, FailUi, FailFirmware, EndFirmware
  <2> QED
    BY <2>1, <2>2, TaskEnds DEF Ended, IdleUpdate, enabled, WrittenInv
<1>6. CASE BeginUi
  <2>1. UNCHANGED <<ui, ota, slot, running>> /\ update \in Updates
    BY <1>6 DEF BeginUi, TypeOK
  <2>2. /\ update.task \in {"install", "repair"} /\ update'.task = update.task
        /\ update'.phase = "ui" /\ update'.at = 0 /\ update'.state = update.state
        /\ update.task = "repair" => update'.release = Image
    BY <1>6, <2>1 DEF BeginUi, Updates
  <2> QED
    BY <2>1, <2>2 DEF WrittenInv, Image, enabled
<1>7. CASE commitSector
  <2>1. UNCHANGED <<ota, slot, running>> /\ update \in Updates /\ update.phase = "ui"
        /\ ui \in [Sector -> 0 .. MaxRelease] /\ update.at + 1 \in Sector
        /\ ui' = [ui EXCEPT ![update.at + 1] = update.release]
        /\ update' = [update EXCEPT !.at = @ + 1]
    BY <1>7, ReleaseAssumption DEF commitSector, TypeOK, Updates, Sector
  <2>2. /\ update'.task = update.task /\ update'.phase = "ui" /\ update'.at = update.at + 1
        /\ update'.state = update.state /\ update'.release = update.release
    BY <2>1 DEF Updates
  <2>3. ~enabled => \A i \in 1 .. update.at + 1 : ui'[i] = update.release
    <3>1. SUFFICES ASSUME ~enabled, NEW i \in 1 .. update.at + 1
                   PROVE  ui'[i] = update.release
      OBVIOUS
    <3>2. update.at \in 0 .. Sectors /\ i \in Sector
      BY <2>1, ReleaseAssumption DEF Updates, Sector
    <3>3. CASE i = update.at + 1
      BY <2>1, <3>2, <3>3
    <3>4. CASE i \in 1 .. update.at
      BY <2>1, <3>1, <3>2, <3>4 DEF WrittenInv
    <3> QED
      BY <3>2, <3>3, <3>4
  <2> QED
    BY <2>1, <2>2, <2>3 DEF WrittenInv, Image, enabled
<1>8. CASE EndUi
  <2>1. UNCHANGED <<ui, ota>> /\ update \in Updates
    BY <1>8 DEF EndUi, TypeOK
  <2>2. CASE update.task = "repair"
    BY <1>8, <2>1, <2>2, TaskEnds DEF EndUi, Ended, IdleUpdate, WrittenInv, enabled
  <2>3. CASE update.task # "repair"
    <3>1. /\ update'.task = "install" /\ update'.phase = "flash"
          /\ update'.state = update.state /\ update'.release = update.release
      BY <1>8, <2>1, <2>3 DEF EndUi, WrittenInv, Updates
    <3>2. ~enabled => \A i \in Sector : ui[i] = update.release
      BY <1>8 DEF EndUi, WrittenInv, Sector
    <3> QED
      BY <1>8, <2>1, <2>3, <3>1, <3>2 DEF EndUi, WrittenInv, enabled
  <2> QED
    BY <2>2, <2>3
<1>9. CASE BeginFirmware
  <2>1. UNCHANGED <<ui, ota>> /\ update \in Updates /\ update.phase = "flash"
        /\ update' = [update EXCEPT !.phase = "firmware"]
    BY <1>9 DEF BeginFirmware, TypeOK
  <2>2. /\ update'.task = update.task /\ update'.phase = "firmware"
        /\ update'.state = update.state /\ update'.release = update.release
    BY <2>1 DEF Updates
  <2> QED
    BY <2>1, <2>2 DEF WrittenInv, enabled
<1>10. CASE OtaWrite \/ OtaError
  <2>1. ota.what # "none" /\ update' = update /\ running' = running /\ ota \in Uploads
        /\ (UNCHANGED slot \/ Overwrite)
    BY <1>10 DEF OtaWrite, OtaError, TypeOK
  <2>2. enabled /\ enabled' /\ running # 0
    BY <1>10, <2>1 DEF OtaWrite, OtaError, NoUpload, enabled, WrittenInv, OffInv, Uploads
  <2>3. Image' = Image
    BY <2>1, <2>2, SameImage
  <2> QED
    BY <2>1, <2>2, <2>3, SameWritten
<1>11. CASE Confirm
  <2>1. UNCHANGED <<update, ota, ui, running>> /\ running # 0
        /\ (UNCHANGED slot \/ slot' = [slot EXCEPT ![boot].state = "valid"])
    BY <1>11 DEF Confirm, OffInv
  <2>2. Image' = Image
    BY <2>1, SameImage
  <2> QED
    BY <2>1, <2>2, SameWritten DEF enabled, WrittenInv
<1> QED
  BY <1>1, <1>2, <1>3, <1>4, <1>5, <1>6, <1>7, <1>8, <1>9, <1>10, <1>11
  DEF Next, TaskStep, OtaStep, MainLoop

-----------------------------------------------------------------------------
(* The Web UI that is served *)

\* Nothing is under way before anything was asked for.
IdleInv ==
  /\ NoTasks => update.phase = "none"
  /\ ota.state # "updating" => ota.what = "none"

LEMMA IdleStep ==
  ASSUME TypeOK, OffInv, IdleInv, [Next]_vars
  PROVE  IdleInv'
<1>1. CASE PowerCut \/ Restart \/ Reject \/ OtaEnd
  BY <1>1 DEF PowerCut, Restart, Reject, OtaEnd, GoesDown, IdleInv, NoTasks, IdleUpdate,
     NoUpload
<1>2. CASE Boot \/ NetUp \/ NetDown \/ Publish \/ Confirm \/ UNCHANGED vars
  BY <1>2 DEF Boot, NetUp, NetDown, Publish, Confirm, vars, IdleInv, NoTasks
<1>3. CASE UserActs
  BY <1>3 DEF UserActs, startCheck, startInstall, startUiRepair, startTask, IdleInv,
     NoTasks, TypeOK, Updates
<1>4. CASE check \/ EndsEarly \/ FailUi \/ FailFirmware \/ EndFirmware
  BY <1>4 DEF check, readSigned, EndsEarly, FailUi, FailFirmware, EndFirmware, Ended,
     IdleUpdate, IdleInv, NoTasks
<1>5. CASE BeginUi \/ commitSector \/ EndUi \/ BeginFirmware
  <2>1. /\ ota' = ota /\ update.phase # "none" /\ update \in Updates
        /\ update'.phase = "none" \/ update'.state = update.state
    BY <1>5 DEF BeginUi, commitSector, EndUi, BeginFirmware, Ended, IdleUpdate, TypeOK,
       Updates
  <2> QED
    BY <2>1 DEF IdleInv, NoTasks
<1>6. CASE OtaReady \/ OtaStart \/ OtaWrite \/ OtaError
  BY <1>6 DEF OtaReady, OtaStart, OtaWrite, OtaError, NoUpload, IdleInv, NoTasks, TypeOK,
     Uploads
<1> QED
  BY <1>1, <1>2, <1>3, <1>4, <1>5, <1>6 DEF Next, TaskStep, OtaStep, MainLoop

\* What ServedUiFits rests on: a page is served by a running gateway only.
ServedInv == ServedUiFits /\ (Served => running # 0)

\* A partition that is mounted again, or for the first time, is served only if
\* its manifest fits the firmware, and the manifest is that of some sector.
LEMMA MountedServed ==
  ASSUME NEW u, NEW v \in Found(u), NEW image, NEW assets,
         Mounted(v, image, assets).state = "ready"
  PROVE  /\ Mounted(v, image, assets).version = v /\ Series(v) = Series(image)
         /\ \E i \in Sector : u[i] = v
BY DEF Mounted, Fits, Found

\* A step that mounts what is on the partition after it, and ends the write that
\* was under way, or starts from a gateway where none was.
LEMMA RemountServed ==
  ASSUME running' # 0, NEW v \in Found(ui'), NEW assets,
         page' = Mounted(v, Image', assets),
         NoUploads' => update'.phase # "ui",
         NoTasks' => ota'.what # "ui"
  PROVE  ServedInv'
<1>1. SUFFICES ASSUME Mounted(v, Image', assets).state = "ready"
               PROVE  ServedInv'
  BY DEF ServedInv, ServedUiFits, Served
<1>2. /\ page'.version = v /\ Series(v) = Series(Image')
      /\ \E i \in Sector : ui'[i] = v
  BY <1>1, MountedServed
<1> QED
  BY <1>2 DEF ServedInv, ServedUiFits, Series

\* A step that leaves the page to the firmware it was mounted by, and starts no
\* write; a sector is written only by a task or an upload that has unmounted it.
LEMMA SamePage ==
  ASSUME ServedInv, page' = page, running' = running, running # 0 => Image' = Image,
         NoUploads' => NoUploads /\ (update'.phase = "ui" => update.phase = "ui"),
         NoTasks' => NoTasks /\ (ota'.what = "ui" => ota.what = "ui"),
         \/ ui' = ui
         \/ update.phase = "ui" /\ ~NoTasks'
         \/ ota.what = "ui" /\ ~NoUploads'
  PROVE  ServedInv'
BY DEF ServedInv, ServedUiFits, Served, Series

\* A step after which nothing is served.
LEMMA NotServed ==
  ASSUME page' \in {OffPage, Unmounted}
  PROVE  ServedInv'
BY DEF ServedInv, ServedUiFits, Served, OffPage, Unmounted

\* No step serves a page that does not fit, or changes what is served.
LEMMA ServedStep ==
  ASSUME TypeOK, OffInv, IdleInv, ServedInv, [Next]_vars
  PROVE  ServedInv'
<1>1. CASE PowerCut \/ Restart \/ Reject \/ OtaEnd
  BY <1>1, NotServed DEF PowerCut, Restart, Reject, OtaEnd, GoesDown
<1>2. CASE Boot
  <2>1. PICK s \in Selected :
          /\ running' = s
          /\ \E v \in Found(ui) : page' = Mounted(v, slot[s].image, Fits(v, slot[s].image))
          /\ slot' = [q \in Slot |->
               [slot[q] EXCEPT !.state = CASE @ = "pending" -> "invalid"
                                           [] @ = "new" /\ q = s -> "pending"
                                           [] OTHER -> @]]
    BY <1>2 DEF Boot
  <2>2. s \in Slot /\ s # 0 /\ slot[s] \in Slots
    BY <2>1 DEF Selected, TypeOK, Other, Slot
  <2>3. Image' = slot[s].image
    BY <2>1, <2>2 DEF Image, Slots
  <2>4. ui' = ui /\ update'.phase # "ui" /\ ota'.what # "ui"
    BY <1>2 DEF Boot, OffInv, IdleUpdate
  <2> QED
    BY <2>1, <2>2, <2>3, <2>4, RemountServed
<1>3. CASE NetUp \/ NetDown \/ Publish \/ OtaReady \/ UNCHANGED vars
  <2>1. UNCHANGED <<slot, running, ui, page, update>>
    BY <1>3 DEF NetUp, NetDown, Publish, OtaReady, vars
  <2>2. (NoUploads' => NoUploads) /\ (ota'.what = "ui" => ota.what = "ui")
    BY <1>3 DEF NetUp, NetDown, Publish, OtaReady, NoUpload, vars, NoUploads
  <2> QED
    BY <2>1, <2>2, SamePage DEF Image, NoTasks
<1>4. CASE UserActs
  <2>1. /\ UNCHANGED <<slot, running, ui, page, ota>>
        /\ update'.phase \in {"begin", update.phase} /\ update'.state # "idle"
    BY <1>4 DEF UserActs, startCheck, startInstall, startUiRepair, startTask, TypeOK, Updates
  <2> QED
    BY <2>1, SamePage DEF Image, NoUploads, NoTasks
<1>5. CASE check \/ EndsEarly
  <2>1. /\ UNCHANGED <<slot, running, ui, page, ota>>
        /\ update'.phase = "none" /\ update'.state # "idle"
    BY <1>5 DEF check, readSigned, EndsEarly, Ended, IdleUpdate
  <2> QED
    BY <2>1, SamePage DEF Image, NoUploads, NoTasks
<1>6. CASE BeginUi
  BY <1>6, NotServed DEF BeginUi
<1>7. CASE commitSector \/ EndUi
  <2>1. /\ UNCHANGED <<slot, running, page, ota>> /\ update.phase = "ui" /\ update \in Updates
        /\ update'.state \in {"restarting", update.state}
    BY <1>7 DEF commitSector, EndUi, Ended, IdleUpdate, TypeOK, Updates
  <2>2. update'.state # "idle"
    BY <2>1 DEF IdleInv, NoTasks
  <2> QED
    BY <2>1, <2>2, SamePage DEF Image, NoUploads, NoTasks
<1>8. CASE FailUi \/ FailFirmware
  <2>1. /\ running # 0 /\ UNCHANGED <<slot, running, ota>>
        /\ update'.phase = "none" /\ update'.state = "failed"
        /\ Remount(ui')
    BY <1>8 DEF FailUi, FailFirmware, Ended, IdleUpdate, OffInv
  <2>2. PICK v \in Found(ui') : page' = Mounted(v, Image', page.assets)
    BY <2>1 DEF Remount, Image
  <2> QED
    BY <2>1, <2>2, RemountServed DEF NoTasks
<1>9. CASE BeginFirmware
  <2>1. /\ running # 0 /\ Overwrite /\ UNCHANGED <<running, ui, page, ota>>
        /\ update'.phase = "firmware" /\ update'.state = update.state
    BY <1>9 DEF BeginFirmware, OffInv, IdleUpdate, TypeOK, Updates
  <2> QED
    BY <2>1, SameImage, SamePage DEF NoUploads, NoTasks
<1>10. CASE EndFirmware
  <2>1. /\ running # 0 /\ Bootable(update.release) /\ UNCHANGED <<running, ui, page, ota>>
        /\ update'.phase = "none" /\ update'.state # "idle"
    BY <1>10 DEF EndFirmware, OffInv, Ended, IdleUpdate
  <2>2. Image' = Image
    BY <2>1, OtherSlot DEF Bootable, Image, TypeOK
  <2> QED
    BY <2>1, <2>2, SamePage DEF NoUploads, NoTasks
<1>11. CASE OtaStart
  <2>1. /\ UNCHANGED <<slot, running, ui, update>> /\ ~NoUploads'
        /\ page' = Unmounted \/ (page' = page /\ ota'.what # "ui")
    BY <1>11 DEF OtaStart, NoUpload, NoUploads
  <2> QED
    BY <2>1, NotServed, SamePage DEF Image, NoTasks
<1>12. CASE OtaWrite
  <2>1. /\ running # 0 /\ UNCHANGED <<running, page, update>> /\ (UNCHANGED slot \/ Overwrite)
        /\ ota.state = "updating" /\ ota'.state = ota.state /\ ota'.what = ota.what
        /\ ui' = ui \/ ota.what = "ui"
    BY <1>12 DEF OtaWrite, OffInv, IdleInv, TypeOK, Uploads
  <2> QED
    BY <2>1, SameImage, SamePage DEF NoUploads, NoTasks
<1>13. CASE OtaError
  <2>1. /\ running # 0 /\ UNCHANGED <<slot, running, update>>
        /\ ~NoUploads' /\ ota'.what = "none"
        /\ (page' = page /\ ui' = ui) \/ Remount(ui')
    BY <1>13 DEF OtaError, OffInv, NoUpload, NoUploads
  <2>2. CASE page' = page /\ ui' = ui
    BY <2>1, <2>2, SamePage DEF Image, NoTasks
  <2>3. CASE Remount(ui')
    <3>1. PICK v \in Found(ui') : page' = Mounted(v, Image', page.assets)
      BY <2>1, <2>3 DEF Remount, Image
    <3> QED
      BY <2>1, <3>1, RemountServed
  <2> QED
    BY <2>1, <2>2, <2>3
<1>14. CASE Confirm
  <2>1. UNCHANGED <<update, ota, ui, page, running>> /\ running # 0
        /\ (UNCHANGED slot \/ slot' = [slot EXCEPT ![boot].state = "valid"])
    BY <1>14 DEF Confirm, OffInv
  <2> QED
    BY <2>1, SameImage, SamePage DEF NoUploads, NoTasks
<1> QED
  BY <1>1, <1>2, <1>3, <1>4, <1>5, <1>6, <1>7, <1>8, <1>9, <1>10, <1>11, <1>12,
     <1>13, <1>14
  DEF Next, TaskStep, OtaStep, MainLoop

-----------------------------------------------------------------------------
(* The theorems *)

LEMMA UpdateInit ==
  ASSUME Init
  PROVE  TypeOK /\ OffInv /\ SlotInv /\ WrittenInv
<1>1. TypeOK
  <2>1. latest \in Release /\ slot \in [Slot -> Slots] /\ ui \in [Sector -> 0 .. MaxRelease]
    BY ReleaseAssumption DEF Init, Release, Slot, Slots, Sector
  <2>2. page \in Pages /\ update \in Updates
    BY EndedType, ReleaseAssumption DEF Init, OffPage, Pages
  <2>3. ota \in Uploads
    BY ReleaseAssumption DEF Init, NoUpload, Uploads
  <2>4. boot \in Slot /\ running = 0 /\ updater = "nobody" /\ faults \in 0 .. MaxFaults
        /\ net = FALSE /\ trial = FALSE /\ due = FALSE /\ lost = FALSE
    BY ReleaseAssumption DEF Init, Slot
  <2> QED
    BY <2>1, <2>2, <2>3, <2>4 DEF TypeOK
<1>2. OffInv
  BY DEF Init, OffInv, NoUpload
<1>3. SlotInv
  BY DEF Init, SlotInv, PreviousImageKept, Slot
<1>4. WrittenInv
  BY DEF Init, WrittenInv, IdleUpdate, NoUpload
<1> QED
  BY <1>1, <1>2, <1>3, <1>4

\* Every variable keeps its type.
THEOREM UpdateTypeOK == Spec => []TypeOK
<1>1. Init => TypeOK /\ OffInv
  BY UpdateInit
<1>2. TypeOK /\ OffInv /\ [Next]_vars => TypeOK' /\ OffInv'
  BY TypeStep, OffStep
<1> QED
  BY <1>1, <1>2, PTL DEF Spec

\* There is always a confirmed image to go back to, however often the power fails
\* during a download, a write, a trial or a rollback.
THEOREM PreviousImageIsKept == Spec => []PreviousImageKept
<1>1. Init => TypeOK /\ OffInv /\ SlotInv
  BY UpdateInit
<1>2. TypeOK /\ OffInv /\ SlotInv /\ [Next]_vars => TypeOK' /\ OffInv' /\ SlotInv'
  BY TypeStep, OffStep, SlotStep
<1>3. SlotInv => PreviousImageKept
  BY DEF SlotInv
<1> QED
  BY <1>1, <1>2, <1>3, PTL DEF Spec

\* What InstalledTogether says of a step.
WholeUpdate ==
  ~enabled /\ update.task # "none" /\ update'.state = "restarting" =>
    /\ \A i \in Sector : ui'[i] = update.release
    /\ slot'[IF update.task = "install" THEN boot' ELSE running].image = update.release

LEMMA WholeUpdateStep ==
  ASSUME TypeOK, OffInv, WrittenInv, [Next]_vars
  PROVE  WholeUpdate \/ UNCHANGED vars
<1> SUFFICES ASSUME ~enabled, update.task # "none", update'.state = "restarting",
                    Next
             PROVE  /\ \A i \in Sector : ui'[i] = update.release
                    /\ slot'[IF update.task = "install" THEN boot' ELSE running].image
                         = update.release
  BY DEF WholeUpdate
<1>1. update \in Updates /\ update.state # "restarting" /\ running # 0
  BY DEF TypeOK, WrittenInv, OffInv, IdleUpdate
<1>2. ~GoesDown
  BY DEF GoesDown, IdleUpdate
<1>3. ~UserActs
  BY DEF UserActs, startCheck, startInstall, startUiRepair, startTask
<1>4. ~(check \/ EndsEarly \/ FailUi \/ FailFirmware)
  BY DEF check, readSigned, EndsEarly, FailUi, FailFirmware, Ended, IdleUpdate
<1>5. ~(BeginUi \/ commitSector \/ BeginFirmware)
  BY <1>1 DEF BeginUi, commitSector, BeginFirmware, Updates
<1>6. EndUi \/ EndFirmware
  BY <1>1, <1>2, <1>3, <1>4, <1>5 DEF Next, TaskStep, OtaStep, MainLoop, PowerCut, Boot,
     NetUp, NetDown, Publish, OtaReady, OtaStart, OtaWrite, OtaEnd, OtaError, Restart,
     Confirm, Reject
<1>7. CASE EndUi
  <2>1. update.task = "repair"
    BY <1>1, <1>7 DEF EndUi, Updates
  <2> QED
    BY <1>7, <2>1 DEF EndUi, WrittenInv, Sector, Image
<1>8. CASE EndFirmware
  <2>1. update.task = "install" /\ \A i \in Sector : ui'[i] = update.release
    BY <1>8 DEF EndFirmware, WrittenInv
  <2>2. boot' \in Slot /\ slot' = [slot EXCEPT ![boot'] = [image |-> update.release, state |-> "new"]]
    BY <1>1, <1>8, OtherSlot DEF EndFirmware, Bootable
  <2> QED
    BY <2>1, <2>2 DEF TypeOK
<1> QED
  BY <1>6, <1>7, <1>8

\* A task never asks for the restart before all of its release is written.
THEOREM UpdatesAreWhole == Spec => InstalledTogether
<1>1. Init => TypeOK /\ OffInv /\ WrittenInv
  BY UpdateInit
<1>2. TypeOK /\ OffInv /\ WrittenInv /\ [Next]_vars => TypeOK' /\ OffInv' /\ WrittenInv'
  BY TypeStep, OffStep, WrittenStep
<1>3. TypeOK /\ OffInv /\ WrittenInv /\ [Next]_vars => [WholeUpdate]_vars
  BY WholeUpdateStep
<1> QED
  BY <1>1, <1>2, <1>3, PTL DEF Spec, InstalledTogether, WholeUpdate

\* A page is served only to the firmware series it is of, and neither a task nor an
\* upload ever writes under a served page, except under one that the failure of the
\* other has mounted; until both were used since the boot, the page served is of a
\* release that the partition still holds.
THEOREM ServedUiStaysFit == Spec => []ServedUiFits
<1>1. Init => TypeOK /\ OffInv /\ IdleInv /\ ServedInv
  <2>1. Init => ServedInv
    BY DEF Init, ServedInv, ServedUiFits, Served, OffPage
  <2>2. Init => IdleInv
    BY DEF Init, IdleInv, NoTasks, IdleUpdate, NoUpload
  <2> QED
    BY <2>1, <2>2, UpdateInit
<1>2. TypeOK /\ OffInv /\ IdleInv /\ ServedInv /\ [Next]_vars
        => TypeOK' /\ OffInv' /\ IdleInv' /\ ServedInv'
  BY TypeStep, OffStep, IdleStep, ServedStep
<1>3. ServedInv => ServedUiFits
  BY DEF ServedInv
<1> QED
  BY <1>1, <1>2, <1>3, PTL DEF Spec

=============================================================================
