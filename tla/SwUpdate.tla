------------------------------ MODULE SwUpdate ------------------------------
(***************************************************************************)
(* The boot-time update of board/st/pdk7105: update_process tries the two  *)
(* USB ports in turn, runs a uboot.sh it finds there or installs           *)
(* iptvubootupdate.bin into the SPI flash, records the installed version   *)
(* at SPI_UBOOT_UPDATE_INFO and restarts the board.                        *)
(*                                                                         *)
(* The flash is seen by erase sector, as FlashStore describes it: a write  *)
(* replaces sector after sector, each being lost while it is replaced.     *)
(* Sectors 1 to ImageSectors are the boot image (MAX_IMAGE_SECTION/2       *)
(* bytes, the part that SHA-1 covers), InfoSector holds the record, the    *)
(* others the environment and other data.  CRC-16 and SHA-1 are idealised: *)
(* a file either passes them, and is then what its maker built, or not.    *)
(***************************************************************************)
EXTENDS Integers

CONSTANTS
    Files,         \* iptvubootupdate.bin files
    Sticks,        \* contents of USB sticks
    NoFile, NoStick,
    Ids,           \* factory and device identities
    FactoryInfo,   \* the information record the box is shipped with
    Blank,         \* an erased record: every field reads 0xffffffff
    Torn,          \* a sector whose replacement was cut short
    Stale,         \* bytes that are part of no verified image
    Data,          \* the contents of the other sectors
    ImageSectors,  \* sectors of the boot image
    InfoSector,    \* the sector of SPI_UBOOT_UPDATE_INFO
    DeviceSectors, \* sectors of the device
    FactoryImage,  \* the image the box is shipped with
    MaxPowerLoss,  \* bound: power losses
    MaxSwaps       \* bound: the user changing the sticks

Ports == {"int", "ext"}
Other(p) == IF p = "int" THEN "ext" ELSE "int"

ASSUME SwUpdateAssumption ==
    /\ ImageSectors \in Nat \ {0}
    /\ DeviceSectors \in Nat
    /\ InfoSector \in ImageSectors + 1 .. DeviceSectors
    /\ MaxPowerLoss \in Nat
    /\ MaxSwaps \in Nat
    /\ \A f \in Files :
          /\ f.crcOk \in BOOLEAN /\ f.flagOk \in BOOLEAN /\ f.shaOk \in BOOLEAN
          /\ f.id \in Ids
          /\ f.size \in Nat \ {0}
    /\ \A s \in Sticks :
          /\ s.fs1 \in {"none", "fat", "ext2"} /\ s.fs2 \in {"none", "fat", "ext2"}
          /\ s.sh1 \in {"none", "good", "bad"} /\ s.sh2 \in {"none", "good", "bad"}
          /\ s.file \in Files \cup {NoFile}

\* Records that a box may hold: the factory's, or one an update has written.
Records == [ver : {f.ver : f \in Files}, id : Ids] \cup {FactoryInfo}

\* A version stands for the bytes of an image: it names one image, made for one
\* identity, and no such image is what a cut or a stray write leaves behind.
ASSUME ContentsAssumption ==
    /\ Blank \notin {Torn, Stale}
    /\ {Blank, Torn, Stale} \cap Records = {}
    /\ \A f \in Files : f.ver \notin {Torn, Stale}
    /\ \A f, g \in Files : f.ver = g.ver => f.id = g.id
    /\ \A f \in Files : f.ver = FactoryImage => f.id = FactoryInfo.id

VARIABLES
    flash,   \* by sector: the version it belongs to, the record, Data...
    probed,  \* spi_init has recognised the flash
    sticks,  \* the stick in each port
    key,     \* the reset key is down
    pc,      \* control point
    port,    \* the port update_from_usb looks at
    second,  \* it is the second port tried
    ncnt,    \* usb_config_start: retries
    found,   \* GetStorageDevicesNum() > 0
    rc,      \* return code of update_from_usb
    sect,    \* spi_write: next sector of the image
    erased,  \* spi_write: that sector has been erased
    reach,   \* history: sectors of the largest UbootSize an update has written
    hit,     \* history: the power failed while the image was being replaced
    wild,    \* history: the record was blank, or lost in a power failure
    cuts, swaps

usb == <<ncnt, found>>
writer == <<sect, erased>>
history == <<reach, hit, wild>>
bounds == <<cuts, swaps>>
vars == <<flash, probed, sticks, key, pc, port, second, usb, rc, writer,
          history, bounds>>

info == flash[InfoSector]

Stick == sticks[port]
File == Stick.file

-----------------------------------------------------------------------------
(* Power on: the processor runs the boot image, if there is a whole one.   *)

Installed(f) == \A s \in 1 .. ImageSectors : s <= f.size => flash[s] = f.ver
Bootable ==
    \/ \A s \in 1 .. ImageSectors : flash[s] = FactoryImage
    \/ \E f \in Files : Installed(f)

Start == pc' = IF Bootable THEN "start" ELSE "dead"

PowerOn ==
    /\ pc = "off"
    /\ Start
    /\ probed' \in BOOLEAN
    /\ key' \in BOOLEAN
    /\ UNCHANGED <<flash, sticks, port, second, usb, rc, writer, history, bounds>>

\* smit_restartST40: the watchdog restarts the board; the key keeps its state.
Restart ==
    /\ pc = "restart"
    /\ Start
    /\ probed' \in BOOLEAN
    /\ UNCHANGED <<flash, sticks, key, port, second, usb, rc, writer, history, bounds>>

-----------------------------------------------------------------------------
(* update_process: the external port first when the key is down.           *)

update_process ==
    /\ pc = "start"
    /\ port' = IF key THEN "ext" ELSE "int"
    /\ second' = FALSE
    /\ ncnt' = 0
    /\ pc' = "usb"
    /\ UNCHANGED <<flash, probed, sticks, key, found, rc, writer, history, bounds>>

\* update_from_usb has returned rc.
NextPort ==
    /\ pc = "return"
    /\ \/ /\ rc # "SUCCESS" /\ ~second
          /\ port' = Other(port)
          /\ second' = TRUE
          /\ ncnt' = 0
          /\ pc' = "usb"
       \/ /\ rc = "SUCCESS" \/ second
          /\ pc' = "main_loop"
          /\ UNCHANGED <<port, second, ncnt>>
    /\ UNCHANGED <<flash, probed, sticks, key, found, rc, writer, history, bounds>>

\* Mutant: one retry too many.
usb_config_startThrice ==
    /\ pc = "usb"
    /\ \E storage \in IF Stick = NoStick THEN {FALSE} ELSE BOOLEAN, two \in BOOLEAN :
          /\ found' = storage
          /\ IF ~two /\ ncnt <= 2 /\ ~storage
             THEN ncnt' = ncnt + 1 /\ UNCHANGED pc
             ELSE pc' = "load1" /\ UNCHANGED ncnt
    /\ UNCHANGED <<flash, probed, sticks, key, port, second, rc, writer, history, bounds>>

\* usb_config_start: one "usb start"; a stick may take time to be recognised.
\* It is repeated at most twice, unless a device that is no storage answers.
usb_config_start ==
    /\ pc = "usb"
    /\ \E storage \in IF Stick = NoStick THEN {FALSE} ELSE BOOLEAN, two \in BOOLEAN :
          /\ found' = storage
          /\ IF ~two /\ ncnt < 2 /\ ~storage
             THEN ncnt' = ncnt + 1 /\ UNCHANGED pc
             ELSE pc' = "load1" /\ UNCHANGED ncnt
    /\ UNCHANGED <<flash, probed, sticks, key, port, second, rc, writer, history, bounds>>

-----------------------------------------------------------------------------
(* load_uboot_env(part).  A partition that is not ext2 is read with        *)
(* usb_fatload, which always takes the first partition of the stick.       *)

FsOf(part) == IF ~found THEN "none" ELSE IF part = 1 THEN Stick.fs1 ELSE Stick.fs2

Script(part) ==
    CASE FsOf(part) = "none" -> "none"
      [] FsOf(part) = "ext2" -> IF part = 1 THEN Stick.sh1 ELSE Stick.sh2
      [] OTHER -> IF FsOf(1) = "fat" THEN Stick.sh1 ELSE "none"

load_uboot_env(part) ==
    rc' = CASE Script(part) = "none" -> "ABNORMITY"
            [] Script(part) = "bad"  -> "FAILURE"
            [] Script(part) = "good" -> "SUCCESS"

\* First partition; an update is looked for only if it has no uboot.sh and,
\* by check_ext2_usb, is not ext2.
LoadFirst ==
    /\ pc = "load1"
    /\ load_uboot_env(1)
    /\ pc' = IF Script(1) # "none" THEN "return"
             ELSE IF FsOf(1) = "ext2" THEN "load2" ELSE "update"
    /\ UNCHANGED <<flash, probed, sticks, key, port, second, usb, writer, history, bounds>>

LoadSecond ==
    /\ pc = "load2"
    /\ load_uboot_env(2)
    /\ pc' = "return"
    /\ UNCHANGED <<flash, probed, sticks, key, port, second, usb, writer, history, bounds>>

-----------------------------------------------------------------------------
(* uboot_update(NORMAL_START).                                             *)

\* Mutant: the factory and device of the file are not compared.
HeaderOkAnyId(f) ==
    IF ~probed THEN {FALSE}
    ELSE CASE info = Blank           -> {f.flagOk}
           [] info \in {Torn, Stale} -> {FALSE, f.flagOk}
           [] OTHER                  -> {f.flagOk /\ f.ver # info.ver}

\* Mutant: the version of the file is not compared.
HeaderOkAnyVersion(f) ==
    IF ~probed THEN {FALSE}
    ELSE CASE info = Blank           -> {f.flagOk}
           [] info \in {Torn, Stale} -> {FALSE, f.flagOk}
           [] OTHER                  -> {f.flagOk /\ f.id = info.id}

\* check_update_sw_header: the outcomes for file f.  The record stays zero,
\* and no file matches it, when the flash was not recognised; a lost one may
\* read as anything.
HeaderOk(f) ==
    IF ~probed THEN {FALSE}
    ELSE CASE info = Blank           -> {f.flagOk}
           [] info \in {Torn, Stale} -> {FALSE, f.flagOk}
           [] OTHER                  -> {f.flagOk /\ f.id = info.id /\ f.ver # info.ver}

\* usb_fatload("iptvubootupdate.bin") succeeds.
Loaded == found /\ FsOf(1) = "fat" /\ File # NoFile

\* No stick, no file, or a file that fails a check.
UpdateSkipped ==
    /\ pc = "update"
    /\ \/ ~Loaded
       \/ Loaded /\ File.crcOk /\ FALSE \in HeaderOk(File)
       \/ Loaded /\ File.crcOk /\ TRUE \in HeaderOk(File) /\ ~File.shaOk
    /\ rc' = "FAILURE"
    /\ pc' = "load2"
    /\ UNCHANGED <<flash, probed, sticks, key, port, second, usb, writer, history, bounds>>

\* A bad header CRC returns ABNORMITY_RET: update_from_usb restarts the board.
UpdateBadCrc ==
    /\ pc = "update"
    /\ Loaded /\ ~File.crcOk
    /\ rc' = "ABNORMITY"
    /\ pc' = "restart"
    /\ UNCHANGED <<flash, probed, sticks, key, port, second, usb, writer, history, bounds>>

\* do_auto_update_uboot_to_spi writes UbootSize bytes from address 0 on, however
\* many they are.  It returns 0 also when spi_write refuses the size.
StartWriting ==
    /\ sect' = 1
    /\ erased' = FALSE
    /\ \/ /\ File.size <= DeviceSectors
          /\ pc' = "image"
          /\ reach' = IF File.size > reach THEN File.size ELSE reach
       \/ /\ File.size > DeviceSectors
          /\ pc' = "info"
          /\ UNCHANGED reach

\* Mutant: the SHA-1 value is not compared.
UpdateStartNoSha ==
    /\ pc = "update"
    /\ Loaded /\ File.crcOk /\ TRUE \in HeaderOk(File)
    /\ StartWriting
    /\ UNCHANGED <<flash, probed, sticks, key, port, second, usb, rc, hit, wild, bounds>>

\* The checks passed.
UpdateStart ==
    /\ pc = "update"
    /\ Loaded /\ File.crcOk /\ TRUE \in HeaderOk(File) /\ File.shaOk
    /\ StartWriting
    /\ UNCHANGED <<flash, probed, sticks, key, port, second, usb, rc, hit, wild, bounds>>

\* What lies in RAM for sector s: beyond the loaded and hashed bytes, anything.
InRam(s) == IF s <= ImageSectors /\ File.shaOk THEN File.ver ELSE Stale

ImageErase ==
    /\ pc = "image" /\ ~erased
    /\ flash' = [flash EXCEPT ![sect] = Torn]
    /\ erased' = TRUE
    /\ UNCHANGED <<probed, sticks, key, pc, port, second, usb, rc, sect, history, bounds>>

\* Mutant: one sector too many is written.
ImageProgramOneMore ==
    /\ pc = "image" /\ erased
    /\ flash' = [flash EXCEPT ![sect] = InRam(sect)]
    /\ erased' = FALSE
    /\ IF sect <= File.size THEN sect' = sect + 1 /\ UNCHANGED pc
                            ELSE pc' = "info" /\ UNCHANGED sect
    /\ UNCHANGED <<probed, sticks, key, port, second, usb, rc, history, bounds>>

\* Mutant: the version is recorded before the last sector is written.
ImageProgramOneLess ==
    /\ pc = "image" /\ erased
    /\ flash' = [flash EXCEPT ![sect] = InRam(sect)]
    /\ erased' = FALSE
    /\ IF sect + 1 < File.size THEN sect' = sect + 1 /\ UNCHANGED pc
                               ELSE pc' = "info" /\ UNCHANGED sect
    /\ UNCHANGED <<probed, sticks, key, port, second, usb, rc, history, bounds>>

ImageProgram ==
    /\ pc = "image" /\ erased
    /\ flash' = [flash EXCEPT ![sect] = InRam(sect)]
    /\ erased' = FALSE
    /\ IF sect < File.size THEN sect' = sect + 1 /\ UNCHANGED pc
                           ELSE pc' = "info" /\ UNCHANGED sect
    /\ UNCHANGED <<probed, sticks, key, port, second, usb, rc, history, bounds>>

\* WriteSPIFlashDataFromBuffer(SPI_UBOOT_UPDATE_INFO): one sector.
InfoErase ==
    /\ pc = "info" /\ ~erased
    /\ flash' = [flash EXCEPT ![InfoSector] = Torn]
    /\ erased' = TRUE
    /\ UNCHANGED <<probed, sticks, key, pc, port, second, usb, rc, sect, history, bounds>>

InfoProgram ==
    /\ pc = "info" /\ erased
    /\ flash' = [flash EXCEPT ![InfoSector] = [ver |-> File.ver, id |-> File.id]]
    /\ erased' = FALSE
    /\ pc' = "restart"
    /\ UNCHANGED <<probed, sticks, key, port, second, usb, rc, sect, history, bounds>>

-----------------------------------------------------------------------------
(* The user.                                                               *)

PowerLoss ==
    /\ pc \notin {"off", "dead"}
    /\ cuts < MaxPowerLoss
    /\ cuts' = cuts + 1
    /\ pc' = "off"
    /\ hit' = (hit \/ pc = "image")
    /\ wild' = (wild \/ info \in {Torn, Stale})
    /\ UNCHANGED <<flash, probed, sticks, key, port, second, usb, rc, writer, reach, swaps>>

\* Sticks are exchanged while the board is off.
SwapStick ==
    /\ pc = "off"
    /\ swaps < MaxSwaps
    /\ swaps' = swaps + 1
    /\ \E p \in Ports, s \in Sticks \cup {NoStick} : sticks' = [sticks EXCEPT ![p] = s]
    /\ UNCHANGED <<flash, probed, key, pc, port, second, usb, rc, writer, history, cuts>>

\* The usbcfg command: the port the next "usb start" of the shell looks at.
do_usbcfg ==
    /\ pc = "main_loop"
    /\ \E p \in Ports : port' = p
    /\ UNCHANGED <<flash, probed, sticks, key, pc, second, usb, rc, writer, history, bounds>>

Init ==
    /\ \E r \in {FactoryInfo, Blank} :
          flash = [s \in 1 .. DeviceSectors |->
                     IF s <= ImageSectors THEN FactoryImage
                     ELSE IF s = InfoSector THEN r ELSE Data]
    /\ probed = FALSE
    /\ sticks \in [Ports -> Sticks \cup {NoStick}]
    /\ key = FALSE
    /\ pc = "off"
    /\ port = "int" /\ second = FALSE
    /\ ncnt = 0 /\ found = FALSE
    /\ rc = "FAILURE"
    /\ sect = 1 /\ erased = FALSE
    /\ reach = 0 /\ hit = FALSE /\ wild = (info = Blank)
    /\ cuts = 0 /\ swaps = 0

Update == UpdateSkipped \/ UpdateBadCrc \/ UpdateStart
              \/ ImageErase \/ ImageProgram \/ InfoErase \/ InfoProgram
BoardStep == PowerOn \/ Restart \/ update_process \/ NextPort \/ usb_config_start
              \/ LoadFirst \/ LoadSecond \/ Update

Next == BoardStep \/ PowerLoss \/ SwapStick \/ do_usbcfg

Spec == Init /\ [][Next]_vars
\* The board runs while it has power; the user switches it on again.
FairSpec == Spec /\ WF_vars(BoardStep)

-----------------------------------------------------------------------------
(* Properties.                                                             *)

TypeOK ==
    /\ DOMAIN flash = 1 .. DeviceSectors
    /\ info \in {Blank, Torn, Stale} \/ info \in Records
    /\ sticks \in [Ports -> Sticks \cup {NoStick}]
    /\ pc \in {"off", "dead", "start", "usb", "load1", "update", "image", "info",
               "load2", "return", "restart", "main_loop"}
    /\ port \in Ports /\ reach \in 0 .. DeviceSectors
    /\ ncnt \in 0 .. 2 /\ sect \in 1 .. DeviceSectors
    /\ rc \in {"SUCCESS", "FAILURE", "ABNORMITY"}
    /\ {probed, key, second, found, erased, hit, wild} \subseteq BOOLEAN
    /\ cuts \in 0 .. MaxPowerLoss /\ swaps \in 0 .. MaxSwaps

\* The box stops booting only when the power fails during the replacement of
\* the boot image: no file, valid or not, makes uboot_update install something
\* that does not run.
DeadOnlyByPowerLoss == pc = "dead" => hit

\* A record is written to SPI_UBOOT_UPDATE_INFO only when the image of the
\* version it names is completely in the flash: a failed or interrupted
\* do_auto_update_uboot_to_spi is never recorded as installed.
RecordFollowsImage ==
    [][info' # info /\ info' \in Records =>
          \E f \in Files : Installed(f) /\ info' = [ver |-> f.ver, id |-> f.id]]_vars

\* As long as the record of a box has not been lost, only images made for the
\* box's factory and device are in its flash, whatever is plugged in.
OnlyOwnImages ==
    ~wild => \A f \in Files, s \in 1 .. ImageSectors : flash[s] = f.ver => f.id = FactoryInfo.id

\* The sectors beyond the image keep their contents, but for the record and for
\* those a UbootSize has reached that was larger than the image area: without
\* such a file, which uboot_update does not refuse, the environment survives
\* every update, restart and power loss.
OutsideImageKept ==
    \A s \in ImageSectors + 1 .. DeviceSectors :
        s # InfoSector /\ s > reach => flash[s] = Data

\* The plugged update files have good headers, and not two different versions.
Plugged == {sticks[p].file : p \in {q \in Ports : sticks[q] # NoStick}} \ {NoFile}
Calm == \A f, g \in Plugged : f.crcOk /\ f.ver = g.ver

\* Updating comes to an end: with calm sticks, and once the power stays on, the
\* board reaches main_loop instead of updating and restarting for ever.
BootsEventually == <>[]Calm => <>[](pc \in {"main_loop", "dead"})
=============================================================================
