--------------------------- MODULE SwUpdateProofs ---------------------------
(***************************************************************************)
(* Proofs about SwUpdate for every set of files and sticks, every layout   *)
(* of the flash and every bound.                                           *)
(***************************************************************************)
EXTENDS SwUpdate, TLAPS

\* The images fit into the device.  The code does not check it: what happens
\* otherwise is shown by TLC.
FilesInDevice == \A f \in Files : f.size <= DeviceSectors

-----------------------------------------------------------------------------
(* The inductive invariant.                                                *)

\* A storage device was found only where a stick is.
FoundStick ==
    pc \in {"load1", "update", "image", "info", "load2", "return"} /\ found
      => Stick \in Sticks

\* While something is written the file is still the one that was checked; the
\* sectors below sect hold it, and all of them do once the record is written,
\* unless spi_write has refused the size.
Writing ==
    /\ pc \in {"image", "info"} => Stick \in Sticks /\ File \in Files /\ File.shaOk
    /\ pc = "image" =>
         /\ File.size <= DeviceSectors
         /\ sect <= File.size /\ File.size <= reach
         /\ \A s \in 1 .. ImageSectors : s < sect => flash[s] = File.ver
    /\ pc = "info" /\ File.size <= DeviceSectors => Installed(File)

\* There is an image to boot, except while it is replaced or after that was cut.
StaysBootable ==
    /\ pc # "image" /\ ~hit => Bootable
    /\ DeadOnlyByPowerLoss

IInv == TypeOK /\ FoundStick /\ Writing /\ StaysBootable

\* The record is intact, being written, or overwritten by an image that reaches
\* it; it and the file being installed are the box's own, as long as no record
\* has been lost.
OwnRecord ==
    /\ pc = "info" /\ erased => info = Torn
    /\ ~wild => \/ info \in Records /\ info.id = FactoryInfo.id
                \/ pc \in {"image", "info"} /\ info \in {Torn, Stale}
    /\ ~wild /\ pc \in {"image", "info"} => File.id = FactoryInfo.id

KeptInv == OwnRecord /\ OnlyOwnImages /\ OutsideImageKept

-----------------------------------------------------------------------------
\* load_uboot_env finds no uboot.sh, one that runs, or one that fails.
LEMMA ScriptType ==
  ASSUME IInv, pc \in {"load1", "load2"}
  PROVE  Script(1) \in {"none", "good", "bad"} /\ Script(2) \in {"none", "good", "bad"}
<1>1. found => Stick \in Sticks
  BY DEF IInv, FoundStick
<1> QED
  BY <1>1, SwUpdateAssumption DEF Script, FsOf

\* A box leaves the factory with a bootable image and nothing being written.
LEMMA InitIInv == Init => IInv
<1> SUFFICES ASSUME Init PROVE IInv
  OBVIOUS
<1>1. PICK r \in {FactoryInfo, Blank} :
        flash = [s \in 1 .. DeviceSectors |->
                   IF s <= ImageSectors THEN FactoryImage
                   ELSE IF s = InfoSector THEN r ELSE Data]
  BY DEF Init
<1>2. DOMAIN flash = 1 .. DeviceSectors /\ info = r
  BY <1>1, SwUpdateAssumption DEF info
<1>3. {probed, key, second, found, erased, hit, wild} \subseteq BOOLEAN
  BY Zenon DEF Init
<1>4. TypeOK
  BY <1>2, <1>3, SwUpdateAssumption DEF Init, TypeOK, Records, Ports
<1>5. StaysBootable
  BY SwUpdateAssumption DEF Init, StaysBootable, Bootable, DeadOnlyByPowerLoss
<1>6. FoundStick /\ Writing
  BY DEF Init, FoundStick, Writing
<1> QED
  BY <1>4, <1>5, <1>6 DEF IInv

-----------------------------------------------------------------------------
\* The step Restart preserves the invariant.
LEMMA RestartIInv == IInv /\ Restart => IInv'
<1> SUFFICES ASSUME IInv, Restart PROVE IInv'
  OBVIOUS
<1> USE SwUpdateAssumption
<1>1. TypeOK'
  BY DEF IInv, Restart, TypeOK, info, usb, writer, history, bounds, Start, Ports, Other
<1>2. FoundStick'
  BY DEF IInv, Restart, TypeOK, FoundStick, Stick, usb, writer, history, bounds, Start
<1>3. Writing'
  BY DEF IInv, Restart, Writing, File, Stick, Installed, usb, writer, history, bounds, Start
<1>4. StaysBootable'
  BY DEF IInv, Restart, StaysBootable, Bootable, Installed, DeadOnlyByPowerLoss, usb, writer,
         history, bounds, Start
<1> QED
  BY <1>1, <1>2, <1>3, <1>4 DEF IInv

\* The step PowerOn preserves the invariant.
LEMMA PowerOnIInv == IInv /\ PowerOn => IInv'
<1> SUFFICES ASSUME IInv, PowerOn PROVE IInv'
  OBVIOUS
<1> USE SwUpdateAssumption
<1>1. TypeOK'
  BY DEF IInv, PowerOn, TypeOK, info, usb, writer, history, bounds, Start, Ports, Other
<1>2. FoundStick'
  BY DEF IInv, PowerOn, TypeOK, FoundStick, Stick, usb, writer, history, bounds, Start
<1>3. Writing'
  BY DEF IInv, PowerOn, Writing, File, Stick, Installed, usb, writer, history, bounds, Start
<1>4. StaysBootable'
  BY DEF IInv, PowerOn, StaysBootable, Bootable, Installed, DeadOnlyByPowerLoss, usb, writer,
         history, bounds, Start
<1> QED
  BY <1>1, <1>2, <1>3, <1>4 DEF IInv

\* The step update_process preserves the invariant.
LEMMA update_processIInv == IInv /\ update_process => IInv'
<1> SUFFICES ASSUME IInv, update_process PROVE IInv'
  OBVIOUS
<1> USE SwUpdateAssumption
<1>a. ({probed, key, second, found, erased, hit, wild}' \subseteq BOOLEAN)
  BY Zenon DEF IInv, update_process, TypeOK, usb, writer, history, bounds
<1>1. TypeOK'
  BY <1>a DEF IInv, update_process, TypeOK, info, usb, writer, history, bounds, Ports, Other,
         Ports
<1>2. FoundStick'
  BY DEF IInv, update_process, TypeOK, FoundStick, Stick, usb, writer, history, bounds, Start
<1>3. Writing'
  BY DEF IInv, update_process, Writing, File, Stick, Installed, usb, writer, history, bounds,
         Start
<1>4. StaysBootable'
  BY DEF IInv, update_process, StaysBootable, Bootable, Installed, DeadOnlyByPowerLoss, usb,
         writer, history, bounds, Start
<1> QED
  BY <1>1, <1>2, <1>3, <1>4 DEF IInv

\* The step NextPort preserves the invariant.
LEMMA NextPortIInv == IInv /\ NextPort => IInv'
<1> SUFFICES ASSUME IInv, NextPort PROVE IInv'
  OBVIOUS
<1> USE SwUpdateAssumption
<1>a. ({probed, key, second, found, erased, hit, wild}' \subseteq BOOLEAN)
  BY Zenon DEF IInv, NextPort, TypeOK, usb, writer, history, bounds
<1>1. TypeOK'
  BY <1>a DEF IInv, NextPort, TypeOK, info, usb, writer, history, bounds, Ports, Other
<1>2. FoundStick'
  BY DEF IInv, NextPort, TypeOK, FoundStick, Stick, usb, writer, history, bounds, Start
<1>3. Writing'
  BY DEF IInv, NextPort, Writing, File, Stick, Installed, usb, writer, history, bounds, Start
<1>4. StaysBootable'
  BY DEF IInv, NextPort, StaysBootable, Bootable, Installed, DeadOnlyByPowerLoss, usb, writer,
         history, bounds, Start
<1> QED
  BY <1>1, <1>2, <1>3, <1>4 DEF IInv

\* The step usb_config_start preserves the invariant.
LEMMA usb_config_startIInv == IInv /\ usb_config_start => IInv'
<1> SUFFICES ASSUME IInv, usb_config_start PROVE IInv'
  OBVIOUS
<1> USE SwUpdateAssumption
<1>a. ({probed, key, second, found, erased, hit, wild}' \subseteq BOOLEAN)
  BY Zenon DEF IInv, usb_config_start, TypeOK, usb, writer, history, bounds
<1>1. TypeOK'
  BY <1>a DEF IInv, usb_config_start, TypeOK, info, usb, writer, history, bounds, Ports, Other
<1>2. FoundStick'
  BY DEF IInv, usb_config_start, TypeOK, FoundStick, Stick, usb, writer, history, bounds, Start
<1>3. Writing'
  BY DEF IInv, usb_config_start, Writing, File, Stick, Installed, usb, writer, history, bounds,
         Start
<1>4. StaysBootable'
  BY DEF IInv, usb_config_start, StaysBootable, Bootable, Installed, DeadOnlyByPowerLoss, usb,
         writer, history, bounds, Start
<1> QED
  BY <1>1, <1>2, <1>3, <1>4 DEF IInv

\* The step LoadFirst preserves the invariant.
LEMMA LoadFirstIInv == IInv /\ LoadFirst => IInv'
<1> SUFFICES ASSUME IInv, LoadFirst PROVE IInv'
  OBVIOUS
<1> USE SwUpdateAssumption
<1>a. ({probed, key, second, found, erased, hit, wild}' \subseteq BOOLEAN)
  BY Zenon DEF IInv, LoadFirst, TypeOK, usb, writer, history, bounds
<1>1. TypeOK'
  BY <1>a, ScriptType DEF IInv, LoadFirst, TypeOK, info, usb, writer, history, bounds, Ports,
         Other, load_uboot_env
<1>2. FoundStick'
  BY DEF IInv, LoadFirst, TypeOK, FoundStick, Stick, usb, writer, history, bounds, Start
<1>3. Writing'
  BY DEF IInv, LoadFirst, Writing, File, Stick, Installed, usb, writer, history, bounds, Start
<1>4. StaysBootable'
  BY DEF IInv, LoadFirst, StaysBootable, Bootable, Installed, DeadOnlyByPowerLoss, usb, writer,
         history, bounds, Start
<1> QED
  BY <1>1, <1>2, <1>3, <1>4 DEF IInv

\* The step LoadSecond preserves the invariant.
LEMMA LoadSecondIInv == IInv /\ LoadSecond => IInv'
<1> SUFFICES ASSUME IInv, LoadSecond PROVE IInv'
  OBVIOUS
<1> USE SwUpdateAssumption
<1>a. ({probed, key, second, found, erased, hit, wild}' \subseteq BOOLEAN)
  BY Zenon DEF IInv, LoadSecond, TypeOK, usb, writer, history, bounds
<1>1. TypeOK'
  BY <1>a, ScriptType DEF IInv, LoadSecond, TypeOK, info, usb, writer, history, bounds, Ports,
         Other, load_uboot_env
<1>2. FoundStick'
  BY DEF IInv, LoadSecond, TypeOK, FoundStick, Stick, usb, writer, history, bounds, Start
<1>3. Writing'
  BY DEF IInv, LoadSecond, Writing, File, Stick, Installed, usb, writer, history, bounds, Start
<1>4. StaysBootable'
  BY DEF IInv, LoadSecond, StaysBootable, Bootable, Installed, DeadOnlyByPowerLoss, usb,
         writer, history, bounds, Start
<1> QED
  BY <1>1, <1>2, <1>3, <1>4 DEF IInv

\* The step UpdateSkipped preserves the invariant.
LEMMA UpdateSkippedIInv == IInv /\ UpdateSkipped => IInv'
<1> SUFFICES ASSUME IInv, UpdateSkipped PROVE IInv'
  OBVIOUS
<1> USE SwUpdateAssumption
<1>1. TypeOK'
  BY DEF IInv, UpdateSkipped, TypeOK, info, usb, writer, history, bounds, Start, Ports, Other
<1>2. FoundStick'
  BY DEF IInv, UpdateSkipped, TypeOK, FoundStick, Stick, usb, writer, history, bounds, Start
<1>3. Writing'
  BY DEF IInv, UpdateSkipped, Writing, File, Stick, Installed, usb, writer, history, bounds,
         Start
<1>4. StaysBootable'
  BY DEF IInv, UpdateSkipped, StaysBootable, Bootable, Installed, DeadOnlyByPowerLoss, usb,
         writer, history, bounds, Start
<1> QED
  BY <1>1, <1>2, <1>3, <1>4 DEF IInv

\* The step UpdateBadCrc preserves the invariant.
LEMMA UpdateBadCrcIInv == IInv /\ UpdateBadCrc => IInv'
<1> SUFFICES ASSUME IInv, UpdateBadCrc PROVE IInv'
  OBVIOUS
<1> USE SwUpdateAssumption
<1>1. TypeOK'
  BY DEF IInv, UpdateBadCrc, TypeOK, info, usb, writer, history, bounds, Start, Ports, Other
<1>2. FoundStick'
  BY DEF IInv, UpdateBadCrc, TypeOK, FoundStick, Stick, usb, writer, history, bounds, Start
<1>3. Writing'
  BY DEF IInv, UpdateBadCrc, Writing, File, Stick, Installed, usb, writer, history, bounds,
         Start
<1>4. StaysBootable'
  BY DEF IInv, UpdateBadCrc, StaysBootable, Bootable, Installed, DeadOnlyByPowerLoss, usb,
         writer, history, bounds, Start
<1> QED
  BY <1>1, <1>2, <1>3, <1>4 DEF IInv

\* The step UpdateStart preserves the invariant.
LEMMA UpdateStartIInv == IInv /\ UpdateStart => IInv'
<1> SUFFICES ASSUME IInv, UpdateStart PROVE IInv'
  OBVIOUS
<1> USE SwUpdateAssumption
<1>0. Stick \in Sticks /\ File \in Files /\ File.size \in Nat \ {0}
  BY DEF IInv, UpdateStart, Loaded, FoundStick, File
<1>a. ({probed, key, second, found, erased, hit, wild}' \subseteq BOOLEAN)
  BY Zenon DEF IInv, UpdateStart, StartWriting, TypeOK, usb, writer, history, bounds
<1>1. TypeOK'
  BY <1>a, <1>0 DEF IInv, UpdateStart, StartWriting, TypeOK, info, usb, writer, history,
         bounds, Ports, Other
<1>2. FoundStick'
  BY DEF IInv, UpdateStart, StartWriting, TypeOK, FoundStick, Stick, usb, writer, bounds
<1>3. Writing'
  BY <1>0 DEF IInv, UpdateStart, StartWriting, TypeOK, Writing, File, Stick, Installed, usb,
         bounds
<1>4. StaysBootable'
  BY DEF IInv, UpdateStart, StartWriting, StaysBootable, Bootable, Installed,
         DeadOnlyByPowerLoss, usb, bounds
<1> QED
  BY <1>1, <1>2, <1>3, <1>4 DEF IInv

\* The step ImageErase preserves the invariant.
LEMMA ImageEraseIInv == IInv /\ ImageErase => IInv'
<1> SUFFICES ASSUME IInv, ImageErase PROVE IInv'
  OBVIOUS
<1> USE SwUpdateAssumption
<1>1. TypeOK'
  BY DEF IInv, ImageErase, TypeOK, info, usb, writer, history, bounds, Start, Ports, Other
<1>2. FoundStick'
  BY DEF IInv, ImageErase, TypeOK, FoundStick, Stick, usb, writer, history, bounds, Start
<1>3. Writing'
  BY DEF IInv, ImageErase, Writing, File, Stick, Installed, usb, writer, history, bounds, Start
<1>4. StaysBootable'
  BY DEF IInv, ImageErase, StaysBootable, Bootable, Installed, DeadOnlyByPowerLoss, usb,
         writer, history, bounds, Start
<1> QED
  BY <1>1, <1>2, <1>3, <1>4 DEF IInv

\* The step ImageProgram preserves the invariant.
LEMMA ImageProgramIInv == IInv /\ ImageProgram => IInv'
<1> SUFFICES ASSUME IInv, ImageProgram PROVE IInv'
  OBVIOUS
<1> USE SwUpdateAssumption
<1>0. /\ Stick \in Sticks /\ File \in Files /\ File.size \in Nat
      /\ sect <= File.size /\ File.size <= DeviceSectors /\ sect \in Nat
      /\ UNCHANGED <<File, Stick>>
  BY DEF IInv, ImageProgram, Writing, TypeOK, File, Stick
<1>a. ({probed, key, second, found, erased, hit, wild}' \subseteq BOOLEAN)
  BY Zenon DEF IInv, ImageProgram, TypeOK, usb, writer, history, bounds
<1>1. TypeOK'
  BY <1>a, <1>0 DEF IInv, ImageProgram, TypeOK, info, usb, writer, history, bounds, Ports,
         Other, InRam, File, Stick
<1>2. FoundStick'
  BY DEF IInv, ImageProgram, TypeOK, FoundStick, Stick, usb, writer, history, bounds, Start
<1>3. ASSUME NEW s \in 1 .. ImageSectors, s <= sect PROVE flash'[s] = File.ver
  BY <1>0, <1>3 DEF IInv, ImageProgram, TypeOK, Writing, InRam
<1>4. pc' = "info" => Installed(File)'
  BY <1>0, <1>3 DEF ImageProgram, Installed
<1>5. Writing'
  BY <1>0, <1>3, <1>4 DEF IInv, ImageProgram, Writing, history
<1>6. StaysBootable'
  BY <1>0, <1>4 DEF IInv, ImageProgram, StaysBootable, Bootable, DeadOnlyByPowerLoss, history
<1> QED
  BY <1>1, <1>2, <1>5, <1>6 DEF IInv

\* The step InfoErase preserves the invariant.
LEMMA InfoEraseIInv == IInv /\ InfoErase => IInv'
<1> SUFFICES ASSUME IInv, InfoErase PROVE IInv'
  OBVIOUS
<1> USE SwUpdateAssumption
<1>1. TypeOK'
  BY DEF IInv, InfoErase, TypeOK, info, usb, writer, history, bounds, Start, Ports, Other
<1>2. FoundStick'
  BY DEF IInv, InfoErase, TypeOK, FoundStick, Stick, usb, writer, history, bounds, Start
<1>3. Writing'
  BY DEF IInv, InfoErase, Writing, File, Stick, Installed, usb, writer, history, bounds, Start
<1>4. StaysBootable'
  BY DEF IInv, InfoErase, StaysBootable, Bootable, Installed, DeadOnlyByPowerLoss, usb, writer,
         history, bounds, Start
<1> QED
  BY <1>1, <1>2, <1>3, <1>4 DEF IInv

\* The step InfoProgram preserves the invariant.
LEMMA InfoProgramIInv == IInv /\ InfoProgram => IInv'
<1> SUFFICES ASSUME IInv, InfoProgram PROVE IInv'
  OBVIOUS
<1> USE SwUpdateAssumption
<1>0. File \in Files
  BY DEF IInv, InfoProgram, Writing
<1>a. ({probed, key, second, found, erased, hit, wild}' \subseteq BOOLEAN)
  BY Zenon DEF IInv, InfoProgram, TypeOK, usb, writer, history, bounds
<1>1. TypeOK'
  BY <1>a, <1>0 DEF IInv, InfoProgram, TypeOK, info, usb, writer, history, bounds, Ports,
         Other, Records
<1>2. FoundStick'
  BY DEF IInv, InfoProgram, TypeOK, FoundStick, Stick, usb, writer, history, bounds, Start
<1>3. Writing'
  BY DEF IInv, InfoProgram, Writing, File, Stick, Installed, usb, writer, history, bounds,
         Start
<1>4. StaysBootable'
  BY DEF IInv, InfoProgram, StaysBootable, Bootable, Installed, DeadOnlyByPowerLoss, usb,
         writer, history, bounds, Start
<1> QED
  BY <1>1, <1>2, <1>3, <1>4 DEF IInv

\* The step PowerLoss preserves the invariant.
LEMMA PowerLossIInv == IInv /\ PowerLoss => IInv'
<1> SUFFICES ASSUME IInv, PowerLoss PROVE IInv'
  OBVIOUS
<1> USE SwUpdateAssumption
<1>1. TypeOK'
  BY DEF IInv, PowerLoss, TypeOK, info, usb, writer, history, bounds, Start, Ports, Other
<1>2. FoundStick'
  BY DEF IInv, PowerLoss, TypeOK, FoundStick, Stick, usb, writer, history, bounds, Start
<1>3. Writing'
  BY DEF IInv, PowerLoss, Writing, File, Stick, Installed, usb, writer, history, bounds, Start
<1>4. StaysBootable'
  BY DEF IInv, PowerLoss, StaysBootable, Bootable, Installed, DeadOnlyByPowerLoss, usb, writer,
         history, bounds, Start
<1> QED
  BY <1>1, <1>2, <1>3, <1>4 DEF IInv

\* The step SwapStick preserves the invariant.
LEMMA SwapStickIInv == IInv /\ SwapStick => IInv'
<1> SUFFICES ASSUME IInv, SwapStick PROVE IInv'
  OBVIOUS
<1> USE SwUpdateAssumption
<1>1. TypeOK'
  BY DEF IInv, SwapStick, TypeOK, info, usb, writer, history, bounds, Start, Ports, Other
<1>2. FoundStick'
  BY DEF IInv, SwapStick, TypeOK, FoundStick, Stick, usb, writer, history, bounds, Start
<1>3. Writing'
  BY DEF IInv, SwapStick, Writing, File, Stick, Installed, usb, writer, history, bounds, Start
<1>4. StaysBootable'
  BY DEF IInv, SwapStick, StaysBootable, Bootable, Installed, DeadOnlyByPowerLoss, usb, writer,
         history, bounds, Start
<1> QED
  BY <1>1, <1>2, <1>3, <1>4 DEF IInv

\* The step do_usbcfg preserves the invariant.
LEMMA do_usbcfgIInv == IInv /\ do_usbcfg => IInv'
<1> SUFFICES ASSUME IInv, do_usbcfg PROVE IInv'
  OBVIOUS
<1> USE SwUpdateAssumption
<1>1. TypeOK'
  BY DEF IInv, do_usbcfg, TypeOK, info, usb, writer, history, bounds, Start, Ports, Other
<1>2. FoundStick'
  BY DEF IInv, do_usbcfg, TypeOK, FoundStick, Stick, usb, writer, history, bounds, Start
<1>3. Writing'
  BY DEF IInv, do_usbcfg, Writing, File, Stick, Installed, usb, writer, history, bounds, Start
<1>4. StaysBootable'
  BY DEF IInv, do_usbcfg, StaysBootable, Bootable, Installed, DeadOnlyByPowerLoss, usb, writer,
         history, bounds, Start
<1> QED
  BY <1>1, <1>2, <1>3, <1>4 DEF IInv

\* A step that changes nothing preserves the invariant.
LEMMA StutterIInv == IInv /\ UNCHANGED vars => IInv'
<1> SUFFICES ASSUME IInv, UNCHANGED vars PROVE IInv'
  OBVIOUS
<1> USE DEF vars, usb, writer, history, bounds
<1>1. TypeOK'
  BY DEF IInv, TypeOK, info
<1>2. FoundStick' /\ Writing'
  BY DEF IInv, FoundStick, Writing, File, Stick, Installed
<1>3. StaysBootable'
  BY DEF IInv, StaysBootable, Bootable, Installed, DeadOnlyByPowerLoss
<1> QED
  BY <1>1, <1>2, <1>3 DEF IInv

\* IInv is inductive.
LEMMA NextIInv == IInv /\ [Next]_vars => IInv'
  BY PowerOnIInv, RestartIInv, update_processIInv, NextPortIInv, usb_config_startIInv,
     LoadFirstIInv, LoadSecondIInv, UpdateSkippedIInv, UpdateBadCrcIInv, UpdateStartIInv,
     ImageEraseIInv, ImageProgramIInv, InfoEraseIInv, InfoProgramIInv, PowerLossIInv,
     SwapStickIInv, do_usbcfgIInv, StutterIInv
  DEF Next, BoardStep, Update

\* IInv holds in every reachable state.
LEMMA Inductive == Spec => []IInv
  BY InitIInv, NextIInv, PTL DEF Spec

\* The state of update_process and of the writes it starts stays within its
\* types: the next sector is one of the device, the record is one.
THEOREM TypeCorrect == Spec => []TypeOK
<1>1. IInv => TypeOK
  BY DEF IInv
<1> QED
  BY <1>1, Inductive, PTL

\* No file, whatever its size field says, makes uboot_update install something
\* that does not boot: only a power loss during the replacement does.
THEOREM NeverKillsTheBox == Spec => []DeadOnlyByPowerLoss
<1>1. IInv => DeadOnlyByPowerLoss
  BY DEF IInv, StaysBootable
<1> QED
  BY <1>1, Inductive, PTL

-----------------------------------------------------------------------------
(* What an update leaves alone.                                            *)

\* The box is shipped with its own record and image, and nothing else written.
LEMMA InitKeptInv == Init => KeptInv
<1> SUFFICES ASSUME Init PROVE KeptInv
  OBVIOUS
<1>1. PICK r \in {FactoryInfo, Blank} :
        flash = [s \in 1 .. DeviceSectors |->
                   IF s <= ImageSectors THEN FactoryImage
                   ELSE IF s = InfoSector THEN r ELSE Data]
  BY DEF Init
<1>2. info = r
  BY <1>1, SwUpdateAssumption DEF info
<1>3. ~wild => info = FactoryInfo
  BY <1>2 DEF Init
<1>4. OwnRecord
  BY <1>3 DEF Init, OwnRecord, Records
<1>5. OnlyOwnImages /\ OutsideImageKept
  BY <1>1, SwUpdateAssumption, ContentsAssumption DEF OnlyOwnImages, OutsideImageKept
<1> QED
  BY <1>4, <1>5 DEF KeptInv

\* A step that writes nothing, and starts no write, preserves the invariant.
LEMMA QuietKeptInv ==
  ASSUME KeptInv, pc \notin {"image", "info"}, pc' \notin {"image", "info"},
         UNCHANGED <<flash, wild, reach>>
  PROVE  KeptInv'
<1>1. OwnRecord'
  BY DEF KeptInv, OwnRecord, info
<1> QED
  BY <1>1 DEF KeptInv, OnlyOwnImages, OutsideImageKept

\* The image writes stay within UbootSize.
LEMMA SectorInImage ==
  ASSUME IInv, pc = "image"
  PROVE  /\ sect \in 1 .. DeviceSectors /\ sect <= reach /\ reach \in Nat
         /\ File \in Files /\ File.shaOk
<1>1. /\ File \in Files /\ File.shaOk /\ sect <= File.size /\ sect \in 1 .. DeviceSectors
      /\ File.size <= reach /\ reach \in 0 .. DeviceSectors
  BY DEF IInv, Writing, TypeOK
<1> QED
  BY <1>1, SwUpdateAssumption

\* check_update_sw_header lets only the box's own files pass, unless the record
\* was lost.
LEMMA UpdateStartKeptInv == IInv /\ KeptInv /\ UpdateStart => KeptInv'
<1> SUFFICES ASSUME IInv, KeptInv, UpdateStart PROVE KeptInv'
  OBVIOUS
<1>1. UNCHANGED <<flash, wild, info, File>> /\ erased' = FALSE
  BY DEF UpdateStart, StartWriting, info, File, Stick
<1>2. ASSUME ~wild PROVE info \in Records /\ info.id = FactoryInfo.id
  BY <1>2 DEF KeptInv, OwnRecord, UpdateStart
<1>3. ASSUME ~wild PROVE File.id = FactoryInfo.id
  <2>1. info \notin {Blank, Torn, Stale}
    BY <1>2, <1>3, ContentsAssumption
  <2>2. CASE ~probed
    <3>1. HeaderOk(File) = {FALSE}
      BY <2>2 DEF HeaderOk
    <3> QED
      BY <3>1 DEF UpdateStart
  <2>3. CASE probed
    <3>1. HeaderOk(File) = {File.flagOk /\ File.id = info.id /\ File.ver # info.ver}
      BY <2>1, <2>3 DEF HeaderOk
    <3>2. File.flagOk /\ File.id = info.id /\ File.ver # info.ver
      BY <3>1 DEF UpdateStart
    <3> QED
      BY <3>2, <1>2, <1>3
  <2> QED
    BY <2>2, <2>3
<1>4. OwnRecord'
  BY <1>1, <1>2, <1>3 DEF OwnRecord
<1>5. OnlyOwnImages'
  BY <1>1 DEF KeptInv, OnlyOwnImages
<1>6. OutsideImageKept'
  <2>1. File \in Files
    BY SwUpdateAssumption DEF IInv, FoundStick, UpdateStart, Loaded, File
  <2>2. reach \in Nat /\ reach' \in Nat /\ reach' >= reach
    BY <2>1, SwUpdateAssumption DEF UpdateStart, StartWriting, IInv, TypeOK
  <2> QED
    BY <1>1, <2>2, SwUpdateAssumption DEF KeptInv, OutsideImageKept
<1> QED
  BY <1>4, <1>5, <1>6 DEF KeptInv

\* Erasing a sector leaves the record alone, or loses it while the image is
\* written, and touches other data only within UbootSize.
LEMMA ImageEraseKeptInv == IInv /\ KeptInv /\ ImageErase => KeptInv'
<1> SUFFICES ASSUME IInv, KeptInv, ImageErase PROVE KeptInv'
  OBVIOUS
<1>1. sect \in 1 .. DeviceSectors /\ sect <= reach /\ reach \in Nat
  BY SectorInImage DEF ImageErase
<1>2. /\ UNCHANGED <<wild, reach, File, pc>> /\ pc = "image"
      /\ DOMAIN flash = 1 .. DeviceSectors /\ info' \in {info, Torn}
  BY <1>1, SwUpdateAssumption DEF ImageErase, history, info, File, Stick, IInv, TypeOK
<1>3. OwnRecord'
  BY <1>2 DEF KeptInv, OwnRecord
<1>4. OnlyOwnImages' /\ OutsideImageKept'
  BY <1>1, <1>2, ContentsAssumption, SwUpdateAssumption
     DEF KeptInv, OnlyOwnImages, OutsideImageKept, ImageErase
<1> QED
  BY <1>3, <1>4 DEF KeptInv

\* Programming a sector of the image puts the verified bytes of the file there,
\* and bytes of no image beyond it.
LEMMA ImageProgramKeptInv == IInv /\ KeptInv /\ ImageProgram => KeptInv'
<1> SUFFICES ASSUME IInv, KeptInv, ImageProgram PROVE KeptInv'
  OBVIOUS
<1>1. /\ sect \in 1 .. DeviceSectors /\ sect <= reach /\ reach \in Nat
      /\ File \in Files /\ File.shaOk
  BY SectorInImage DEF ImageProgram
<1>a. /\ sect <= ImageSectors => InRam(sect) = File.ver
      /\ sect > ImageSectors => InRam(sect) = Stale
  BY <1>1, SwUpdateAssumption DEF InRam
<1>2. /\ UNCHANGED <<wild, reach, File>> /\ pc = "image" /\ pc' \in {"image", "info"}
      /\ DOMAIN flash = 1 .. DeviceSectors /\ erased' = FALSE
      /\ flash' = [flash EXCEPT ![sect] = InRam(sect)]
  BY SwUpdateAssumption DEF ImageProgram, history, File, Stick, IInv, TypeOK
<1>3. info' \in {info, Stale}
  BY <1>1, <1>a, <1>2, SwUpdateAssumption DEF info
<1>4. OwnRecord'
  BY <1>2, <1>3 DEF KeptInv, OwnRecord
<1>5. ~wild => File.id = FactoryInfo.id
  BY <1>2 DEF KeptInv, OwnRecord
<1>6. OnlyOwnImages'
  BY <1>1, <1>a, <1>2, <1>5, ContentsAssumption, SwUpdateAssumption
     DEF KeptInv, OnlyOwnImages
<1>7. OutsideImageKept'
  BY <1>1, <1>2, SwUpdateAssumption DEF KeptInv, OutsideImageKept
<1> QED
  BY <1>4, <1>6, <1>7 DEF KeptInv

\* Erasing the record touches only the record.
LEMMA InfoEraseKeptInv == IInv /\ KeptInv /\ InfoErase => KeptInv'
<1> SUFFICES ASSUME IInv, KeptInv, InfoErase PROVE KeptInv'
  OBVIOUS
<1>1. /\ UNCHANGED <<wild, reach, File, pc>> /\ pc = "info" /\ erased' /\ info' = Torn
      /\ DOMAIN flash = 1 .. DeviceSectors
  BY SwUpdateAssumption DEF InfoErase, history, info, File, Stick, IInv, TypeOK
<1>2. OwnRecord'
  BY <1>1 DEF KeptInv, OwnRecord
<1>3. OnlyOwnImages' /\ OutsideImageKept'
  BY <1>1, SwUpdateAssumption DEF KeptInv, OnlyOwnImages, OutsideImageKept, InfoErase
<1> QED
  BY <1>2, <1>3 DEF KeptInv

\* The new record is the box's own again.
LEMMA InfoProgramKeptInv == IInv /\ KeptInv /\ InfoProgram => KeptInv'
<1> SUFFICES ASSUME IInv, KeptInv, InfoProgram PROVE KeptInv'
  OBVIOUS
<1>1. /\ UNCHANGED <<wild, reach>> /\ pc = "info" /\ pc' = "restart"
      /\ info' = [ver |-> File.ver, id |-> File.id]
      /\ DOMAIN flash = 1 .. DeviceSectors /\ File \in Files
  BY SwUpdateAssumption DEF InfoProgram, history, info, IInv, TypeOK, Writing
<1>2. OwnRecord'
  BY <1>1, SwUpdateAssumption DEF KeptInv, OwnRecord, Records
<1>3. OnlyOwnImages' /\ OutsideImageKept'
  BY <1>1, SwUpdateAssumption DEF KeptInv, OnlyOwnImages, OutsideImageKept, InfoProgram
<1> QED
  BY <1>2, <1>3 DEF KeptInv

\* A power loss while the record is lost is remembered in wild.
LEMMA PowerLossKeptInv == KeptInv /\ PowerLoss => KeptInv'
<1> SUFFICES ASSUME KeptInv, PowerLoss PROVE KeptInv'
  OBVIOUS
<1>1. /\ UNCHANGED <<flash, info, reach>> /\ pc' = "off"
      /\ ~wild' => ~wild /\ info \notin {Torn, Stale}
  BY DEF PowerLoss, info
<1>2. OwnRecord'
  BY <1>1 DEF KeptInv, OwnRecord
<1> QED
  BY <1>1, <1>2 DEF KeptInv, OnlyOwnImages, OutsideImageKept

\* KeptInv is inductive relative to IInv.
LEMMA NextKeptInv == IInv /\ KeptInv /\ [Next]_vars => KeptInv'
<1> SUFFICES ASSUME IInv, KeptInv, [Next]_vars PROVE KeptInv'
  OBVIOUS
<1>1. CASE UNCHANGED vars
  BY <1>1 DEF KeptInv, OwnRecord, OnlyOwnImages, OutsideImageKept, vars, info, File, Stick,
              writer, history
<1>2. CASE PowerOn \/ Restart \/ update_process \/ NextPort \/ usb_config_start
  BY <1>2, QuietKeptInv DEF PowerOn, Restart, update_process, NextPort, usb_config_start,
                           Start, history
<1>3. CASE LoadFirst \/ LoadSecond \/ UpdateSkipped \/ UpdateBadCrc
  BY <1>3, QuietKeptInv DEF LoadFirst, LoadSecond, UpdateSkipped, UpdateBadCrc, history
<1>4. CASE SwapStick \/ do_usbcfg
  BY <1>4, QuietKeptInv DEF SwapStick, do_usbcfg, history
<1> QED
  BY <1>1, <1>2, <1>3, <1>4, UpdateStartKeptInv, ImageEraseKeptInv, ImageProgramKeptInv,
     InfoEraseKeptInv, InfoProgramKeptInv, PowerLossKeptInv
  DEF Next, BoardStep, Update

\* As long as no record was lost only images made for the box are in its flash,
\* whatever is plugged in and whatever size a file claims.
THEOREM OwnImagesOnly == Spec => []OnlyOwnImages
<1>1. IInv /\ KeptInv /\ [Next]_vars => KeptInv'
  BY NextKeptInv
<1>2. KeptInv => OnlyOwnImages
  BY DEF KeptInv
<1> QED
  BY <1>1, <1>2, InitKeptInv, Inductive, PTL DEF Spec

\* No update, restart or power loss changes a sector beyond the image, but for
\* the record and for what the largest UbootSize installed reaches.
THEOREM UpdateKeepsData == Spec => []OutsideImageKept
<1>1. IInv /\ KeptInv /\ [Next]_vars => KeptInv'
  BY NextKeptInv
<1>2. KeptInv => OutsideImageKept
  BY DEF KeptInv
<1> QED
  BY <1>1, <1>2, InitKeptInv, Inductive, PTL DEF Spec

\* With no UbootSize beyond the device a version is recorded only once its image
\* is complete.
THEOREM RecordedIsInstalled == ASSUME FilesInDevice PROVE Spec => RecordFollowsImage
<1> DEFINE Follows == info' # info /\ info' \in Records =>
                        \E f \in Files : Installed(f) /\ info' = [ver |-> f.ver, id |-> f.id]
<1>1. IInv /\ [Next]_vars => [Follows]_vars
  <2> SUFFICES ASSUME IInv, Next, info' # info, info' \in Records
               PROVE  \E f \in Files : Installed(f) /\ info' = [ver |-> f.ver, id |-> f.id]
    OBVIOUS
  <2>1. flash' # flash /\ DOMAIN flash = 1 .. DeviceSectors
    BY DEF info, IInv, TypeOK
  <2>2. ImageErase \/ ImageProgram \/ InfoErase \/ InfoProgram
    BY <2>1 DEF Next, BoardStep, Update, PowerOn, Restart, update_process, NextPort,
         usb_config_start, LoadFirst, LoadSecond, UpdateSkipped, UpdateBadCrc, UpdateStart,
         PowerLoss, SwapStick, do_usbcfg
  <2>3. ~ImageErase /\ ~ImageProgram
    <3>1. ImageErase \/ ImageProgram => sect \in 1 .. DeviceSectors
      BY SectorInImage DEF ImageErase, ImageProgram
    <3>2. ImageProgram /\ sect = InfoSector => InRam(sect) = Stale
      BY <3>1, SwUpdateAssumption DEF InRam
    <3>3. ImageErase \/ ImageProgram => info' \in {info, Torn, Stale}
      BY <2>1, <3>1, <3>2, SwUpdateAssumption DEF ImageErase, ImageProgram, info
    <3> QED
      BY <3>3, ContentsAssumption
  <2>4. ~InfoErase
    BY <2>1, SwUpdateAssumption, ContentsAssumption DEF InfoErase, info
  <2>5. File \in Files /\ Installed(File)
    <3>1. File \in Files
      BY <2>2, <2>3, <2>4 DEF InfoProgram, IInv, Writing
    <3>2. File.size <= DeviceSectors
      BY <3>1 DEF FilesInDevice
    <3> QED
      BY <2>2, <2>3, <2>4, <3>1, <3>2 DEF InfoProgram, IInv, Writing
  <2>6. info' = [ver |-> File.ver, id |-> File.id]
    BY <2>1, <2>2, <2>3, <2>4, SwUpdateAssumption DEF InfoProgram, info
  <2> QED
    BY <2>5, <2>6
<1> QED
  BY <1>1, Inductive, PTL DEF Spec, RecordFollowsImage
=============================================================================
