# Verification of the pdk7105 U-Boot: flash, environment, update and loading

This directory holds TLA+ models of the parts of this U-Boot tree that decide
whether a set-top box of the pdk7105 board keeps booting and what it boots: the
driver of its SPI serial flash, the environment kept in that flash, the boot-time
update from USB sticks, the sticks themselves, and loading a file over the network
with TFTP or NFS. TLC checks small instances of each model; TLAPS proves every
safety property of the passing runs for all values of the constants.

Paths below are relative to the U-Boot tree (`src/src/`).

## 1. The system

| Component | State | Operations | Hard behaviour | What makes it correct |
|---|---|---|---|---|
| SPI flash driver (`cpu/sh/spi.c`) | page, erase and device size; the cells, write-enable latch and busy bit of the device | `spi_init`, `spi_read`, `spi_write`, `my_spi_write` | read-merge-erase-program of partial sectors, sector boundaries, commands that are silently ignored, power loss between commands | a returned write is exactly the merge; at most one sector is at risk; every write returns |
| Environment (`cpu/sh/env_eeprom.c`, `common/env_common.c`, `common/cmd_nvedit.c`) | image in flash with a CRC-32, copy in RAM, `gd->env_valid`, `gd->baudrate` | `env_init`, `env_relocate`, `setenv`, `getenv`, `saveenv` | power loss while the image is replaced in place, edits in place, names defined twice, overflow, stale CRC, reading before relocation | no boot accepts a mixture of two environments; setenv changes one variable and takes effect; a saved environment is accepted |
| Software update (`board/st/pdk7105/swUpdate.c`, `load_uboot_env.c`) | boot image, version record at `SPI_UBOOT_UPDATE_INFO`, sticks in two ports | `update_process`, `update_from_usb`, `uboot_update`, `load_uboot_env` | restart loops, order of image and record under power loss, wildcard identities, unchecked sizes, ignored results | only complete images made for the box are installed and recorded; updating ends |
| SPI helpers (`common/cmd_spi.c`), EEPROM layer (`common/cmd_eeprom.c`) | none | wrappers of `spi_read` and `spi_write` | dropped return values | callers learn of refused writes |
| Boot sequence (`lib_sh/board.c`) | `gd` | `start_sh4boot` | order of initialisations | each step finds what it needs |
| USB storage (`common/usb_storage.c`, on `usb.c`, `cmd_usb.c`) | `usb_stor`, `usb_dev_desc`, `usb_max_devs`, `CBWTag`, the caller's buffer | `usb_stor_scan`, `usb_stor_get_info`, `usb_stor_read`, the bulk-only transport | stalls, failures and timeouts in every phase, what a stick kept through a lost reset, a full table, skipped devices | blocks counted as read are the blocks asked for; a device has a slot of its own; every call returns |
| Network loading (`net/net.c`, `tftp.c`, `nfs.c`, `bootp.c`) | `NetState`, `timeHandler`, the packet waiting for ARP, TFTP block numbers and block size, NFS handles, path buffer and `rpc_id` | `NetLoop`, ARP, `TftpStart`, `TftpHandler`, `TftpTimeout`, `NfsStart`, `NfsHandler`, `NfsTimeout` | lost, late, duplicated and reordered packets, wrap-around, restarts that keep old state, timeouts that meet answers | a file that is reported is complete and is one file; every load ends |
| Command loop (`common/main.c`, `hush.c`), serial download (`xyzModem.c`), NAND (`drivers/mtd/nand`), file systems (`fs/`) | | | | |

The components share the flash: `saveenv` goes through `eeprom_write`, the
update through `do_auto_update_uboot_to_spi` and `WriteSPIFlashDataFromBuffer`,
all of them down to `spi_write`. The update reads its files through
`usb_stor_read`. TFTP and NFS share `NetLoop`, its one timeout and the one packet
that may wait for ARP. There is one thread. What runs beside it is the flash
device, which works on its own after each command, and the outside world: the
power supply, the sticks, the servers, the network, the user and time.

## 2. Modules

| Module | Models | Composition |
|---|---|---|
| `FlashStore` | what `spi_write` promises: sectors replaced one after the other, a power loss spoils at most the next one | abstract specification |
| `SpiFlash` | `cpu/sh/spi.c` in the pdk7105 build, and the NOR device | implements `FlashStore` (`ImplementsFlashStore`) |
| `SpiFlashProofs` | inductive invariant and theorems about `SpiFlash` | extends `SpiFlash` |
| `SpiFlashRefinement` | proof that `SpiFlash` implements `FlashStore` | extends `SpiFlashProofs` |
| `Env` | environment in RAM and flash | uses the sector-wise replacement that `FlashStore` describes |
| `EnvText` | the text of the environment in RAM and the loops that edit it in place | extends `Env`; `EditsInPlace` ties the two |
| `SwUpdate` | update from USB | as `Env` |
| `Net` | `NetLoop`, its timeout, its restarts and ARP (`net/net.c`) | extended by the protocols |
| `Tftp` | `net/tftp.c`, a TFTP server and the network | extends `Net` |
| `Nfs` | `net/nfs.c`, an NFS server and the network | extends `Net` |
| `UsbStorage` | `common/usb_storage.c` and the sticks | |
| `EnvProofs`, `SwUpdateProofs`, `TftpProofs`, `NfsProofs`, `UsbStorageProofs` | inductive invariants and theorems | each extends the module it is named after |
| `MCSpiFlash`, `MCEnv`, `MCSwUpdate`, `MCTftp`, `MCNfs`, `MCUsbStorage` | constants for TLC | |

### SpiFlash

One action is one SPI command or one decision of `spi_write`. `spi_write(f,n,b)`
is the call with its early returns; `FirstBlock`, `WholeBlock`, `TailBlock` and
`Return` are the four parts of its body; `my_spi_write` (read and merge), `Wren`,
`SectorErase`, `WaitErase`, `PageProgram` and `WaitPage` are `my_spi_write`.
`ChipDone` ends an operation of the device, `PowerLoss` may happen anywhere. A
byte is the set of its one bits, so that programming is intersection: a page
programmed over something else than erased cells does not hold the data. A
command is dropped by the device when WEL is clear or WIP is set (`Accepts`).
A byte whose erase or program is interrupted is `Torn`. `EraseSize` is what the
driver believes OP_SE to erase, `ChipErase` what it erases.

The transfer of words over the bus (`spi_xfer`, `spi_xfer_one_word`) is part of
the command that uses it. The device is taken not to be block-protected; the
driver only warns in that case. For an unrecognised device `spi_write` divides by
`eraseSize` = 0 before it refuses the call; on the SH4 that gives an unused value
and no trap, and is left out.

### Env

An environment is a sequence of variables with a weight each; `EnvSize` is
ENV_SIZE. CRC-32 is idealised: the CRC of data is the data, so it matches exactly
the data it was computed over. The image spans `Sectors` erase sectors, the CRC
in the first. `env_init`, `init_baudrate`, `spi_init` and `env_relocate` are the
steps of `start_sh4boot`; `do_setenv` is `_do_setenv` with its refusals, deletion,
append and overflow; `saveenv`, `EraseSector` and `ProgramSector` write the image.
With an unrecognised flash `saveenv` changes nothing (and reports success), so it
is no action. `EarlyViews` are the ways the environment can look when it is read
from the CRC field on, which depends on where the CRC has zero bytes.
CONFIG_ENV_OVERWRITE is defined for the board, so no variable is write-once.
A sector of the image holds one variable; the variables end at the first empty one
(`FlashLen`), as every search of the code ends there. A search finds the first
definition of a name (`FirstOf`), and deletion removes that one only. Nothing is
assumed of `Default` but that it fits: this board's defines `bootdelay` and
`ethaddr` twice (`env_common.c:75,84` and again in CONFIG_EXTRA_ENV_SETTINGS,
`pdk7105.h:137,148`). `Single` are the names it does not define twice; `WellFormed`
and `SetenvTakesEffect` are about those, `OneVariableAtATime` is about all, and
the run `env_setenv` shows what becomes of the others.

### EnvText

`Env` replaces a variable in one step. `EnvText` has the array of bytes `env_data`
and the loops of `_do_setenv` over it: `Search`, `DeleteText` (with `MoveUp`, the
loop that closes the gap), `AppendAt`, `RoomFor`, `AppendText`. A byte is the
variable it belongs to, a NUL or an old byte behind the end. The invariant
`EditsInPlace` says that in every environment `Env` reaches, and for every name and
value, these loops compute what `Env` says and write nothing behind `env_data`.

### SwUpdate

The flash is seen by sector: boot image, version record, rest. A file is a record
of its version, identity and size and of which checks it passes; CRC-16 and SHA-1
are idealised. A stick has up to two partitions with a file system and perhaps a
`uboot.sh`, and an update file in the first. `update_process`, `NextPort`,
`usb_config_start`, `LoadFirst`, `LoadSecond`, `UpdateSkipped`, `UpdateBadCrc`,
`UpdateStart`, `ImageErase`, `ImageProgram`, `InfoErase`, `InfoProgram` and
`Restart` follow the code; `do_usbcfg` is the shell's command; `PowerLoss` and
`SwapStick` are the user. `StartWriting` takes UbootSize from the file as it is:
larger than the image area it overwrites what lies behind, where the environment is
(`reach` remembers how far), larger than the device it is refused by `spi_write`,
which nobody notices. The commands
inside a `uboot.sh` are not modelled, only that it ran and whether it succeeded.

### Net

A pass of the loop of `NetLoop` is three steps: one packet is taken and handled
(the board's `stmac_eth_rx` delivers one at a time) or none (`RxNothing`); after
`ctrlc`, `ArpTimeoutCheck`; then the timeout handler, taken down before it runs,
and the `Switch` on `NetState`. A timeout that is due in the pass that took a packet
therefore runs after the packet's handler and may undo its `NetState`. Passes
without a packet or an expired timer change nothing and are left out. Timers hold
the ticks they have left, and `Tick` lets them run. `net` is the set of packets in
flight: it has no order, a packet taken may stay in it (a duplicate), and a lost
packet is one that is never taken. `NetStartAgain` follows `netretry`; it is the
build without CONFIG_NET_MULTI. The packet that waits for ARP is replaced by
the next one sent (`NetSendUDPPacket`), as in the code. A failing
`net_check_prereq` only makes `NetLoop` return and is left out.

`RestartAssumption` is an assumption about the build: the restart delay is shorter
than the time ARP takes to give up. When ARP gives up, its packet keeps waiting
and it goes on asking; should it give up again within the delay of 10 s, the delay
starts anew. With CONFIG_NET_RETRY_COUNT below 4 that puts the restart off for
ever; with the default of 5 it cannot.

### Tftp

Each request that reaches the server opens a session, which serves a file of its
own: what U-Boot loads must be one of them and not a mixture. `RxOack`,
`RxNotFirst`, `RxSame`, `RxBlock` and `RxError` are the cases of `TftpHandler`,
`RxIgnored` its early returns and `startAgainHandler`. Block numbers are taken
modulo `SequenceSize`. Memory and files are counted in units; every session has a
block size (`BlkSize`). `tftp.blk` is TftpBlkSize: `TftpStart` sets it to
TFTP_BLOCK_SIZE, an OACK to that of its session, and `store_block` and the test for
the last block use it, whatever the size of the session's blocks. Port numbers of
ours may be reused by a restart. Packets are taken to live less than the restart
delay, so that a restart finds none in flight, but sessions of attempts before may
retransmit at any time. A session of an earlier attempt whose block size was agreed
on by OACK may retransmit its block 1 to a reused port; the client, whose
block size is the default again, then binds to it and stores its blocks over one
another, and still reports success. `StaleSize` names these states, and
`LoadedIsFile` and `AckedBlocksStored` except them.

`FilesFit` says that there is memory for every file, which `tftp.c` does not check.
`TimingAssumption` is about the build: a timeout of TFTP and the restart delay
together (5 s and 10 s) are shorter than the time ARP takes to give up (20 s).

### Nfs

A name is a directory and a base name, and handles are names, so that a handle
that belongs to something else is seen. `RxPortmap`, `RxMount`, `RxLookup`,
`RxReadlink`, `RxRead` and `RxUmount` are the states of `NfsHandler`. Packets of an
earlier load stay in flight across a restart or another `nfs` command, since
`NfsOurPort` is always 1000 and the source port is not looked at. A server may report errors, offer no
port, and return less than was asked for. `nfs_path_buff` is static: `longest` is
the length of the longest path it has held. The text of a relative link is
terminated one byte too late, so that its path may get a byte the buffer held
before, of the present path or of an earlier load (`LinkPaths`); `Garbled` gives the
paths with such a byte. `LoadedIsFile` says that the file reported is that of the
path the client holds, and that this path is where the name leads unless a relative
link of another length than its name lies on the way. The links of the run have no
cycle: NFS_MAXLINKDEPTH is used nowhere in `nfs.c`, although `nfs.c:20-22` speaks of a
maximum of 16 steps, and a cycle is followed for ever, so that `LoadEnds` would
not hold. The theorems allow cycles. There is memory for every file (`FilesFit`),
which `nfs.c` does not check. A READ reply with nothing wrong but its verifier ends
the read as if at the end of the file; the run has that, `cutShort` remembers it,
and `LoadedIsFile` then speaks of the part that was read.

### UsbStorage

The commands of the scan are seen as a whole, each passing or failing: their
control is the retry counters, with `usb_inquiry` following its post-decrement
(success at the last try is an error, which counts the device; failure of all
tries is success with what `usb_stor_buf` held). The commands of a read are taken
apart into the phases of `usb_stor_BBB_transport`: `Command`, `DataIn` or
`DataStall`, `StatusIn` or `StatusStall`, `InTimeout`, `ResetRequest`, `ClearHalts`.
A stick is the queue of what its bulk-in endpoint will send, each item ending with
a short packet, and whether that endpoint is halted; a reset request may get lost,
and the queue then survives. A stick may pass a READ(10) without having sent all
blocks: the residue is computed and not looked at (`usb_storage.c:703-705`). `short`
remembers that for the call, and `ReadIsData` excepts it. The test for more data
than asked for (`usb_storage.c:722`) never holds, since `usb_bulk_msg` is given the
length. `usb_stor_BBB_clear_endpt_stall` names the endpoint
without its direction bit, so it clears nothing on the IN endpoint;
`SharedNumber` says whether the request is accepted, there being an OUT endpoint of
that number. A device with `blksz` 0 (removable, not ready when scanned) is asked
for no data and answers with a phase error. A device whose READ CAPACITY failed has
a wrong `blksz` (the default size is swapped on this little-endian machine);
`ReadIsData` excepts it. Callers are taken to read from the slots that were
counted; the commands let a user name others, and such a read gets no data: no
device has the number 0xff, and a skipped device has `blksz` 0. The reads of
`init_part` in the middle of the scan are seen by their end only (`InitPart`). The sticks
start a read with empty queues; leftovers arise between its commands. The loop variable and `usb_stor_buf` are
forgotten when the scan ends: the next one sets them anew.

## 3. Runs

| Run | Shows |
|---|---|
| `spi` | all addresses and lengths (0 to beyond the device) on a device of 3 sectors of 2 pages of 2 bytes, 2 calls, 1 power loss: `WriteIsMerge`, `OneSectorAtRisk`, `ProgramsErasedPages`, `NoCommandIgnored`, refinement of `FlashStore`, `WriteReturns` |
| `spi_128mbit` | violation: with an erase command smaller than the driver's sector a completed write is not the merge |
| `env` | `NoMixedEnvironment`, `WellFormed`, `EditsInPlace`, `CrcCoversData`, `OneVariableAtATime`, `SetenvTakesEffect` with 3 names, one of which the default environment defines twice, 2 values, 4 sets, 2 power losses |
| `env_setenv` | violation: setenv of a name the default environment defines twice does not take effect |
| `env_overflow` | violation: after an overflow and a saveenv the next boot rejects the environment |
| `env_baudrate` | violation: the baud rate of a valid environment may be missed before relocation |
| `swupdate` | `DeadOnlyByPowerLoss`, `OnlyOwnImages`, `OutsideImageKept`, `RecordFollowsImage`, `BootsEventually` with 10 kinds of sticks in 2 ports, one with a UbootSize beyond the image area, 1 exchange, 1 power loss |
| `swupdate_size` | violation: a refused write is recorded as installed |
| `tftp` | `LoadedIsFile`, `AckedBlocksStored`, `ArpNeverGivesUp`, `AttemptEnds` with 2 attempts, 2 sessions that serve a file of 3 blocks of 3 units, agreed on by OACK, and one of 1 block of the default 2 units, 2 ports, 2 duplicates or retransmissions, netretry set or not |
| `tftp_wrap` | violation: a duplicate of the block numbered 0 counts as another wrap-around and the rest of the file is stored in the wrong place |
| `nfs` | `LoadedIsFile`, `HandlesArePath`, `NoLateWrite`, `LoadEnds` with an absolute link, a relative one shorter than its path and 2 files, of which one has the path of the other with a stray character, 2 loads or restarts, or 1 with a duplicate, refused lookups and verifiers, and aborts anywhere |
| `usb` | `ReadIsData`, `OwnSlot`, `Restored`, `UsbReturns` with a hub, a device of unknown type and 2 sticks for 2 slots, and a read of up to 2 blocks, a READ(10) each |

Bounds. Three sectors are the fewest with a partial first, a whole middle and a
partial last one; two pages of two bytes make page and byte offsets differ; two
calls let a second request find what the first, or a power loss in it, left
behind. The buffers have period 3 so that a byte at a wrong place is seen. Three
environment sectors let a power loss separate the CRC from two later sectors; the
room for seven units takes the default environment (short, short, long: 2, 2 and 3)
and makes overflow reachable with and without an old definition.
The image has two sectors so that it can be half written; of the two behind it one
is the record and one holds other data, which the long file reaches.

Three blocks have a first, a middle and a last one, and a second session with a
shorter file and another block size makes a mixture visible in content, size and
place; two attempts let a
restart meet what the first left behind, in U-Boot and in a session that still
retransmits. Timers of one tick keep the ratio of the code's (TIMEOUT and
ARP_TIMEOUT 5 s, the restart delay 10 s, five ARP timeouts); for NFS the timeout
(60 s) exceeds what ARP needs to give up, so that both ends of a load occur.
`SequenceSize` 3 makes the third block the one numbered 0. A file of 2 units read
in pieces of up to 2 gives short reads and the empty read at the end; the absolute
link has the longest path, so that a load through it leaves a byte for the relative
link of the next load to pick up. `MaxBoth`
bounds attempts and faults together. Four devices, of which one is skipped after it
has filled in a slot, are more than two slots hold; retry counters of 0 and 1 have
a first and a last try, and one block per READ(10) makes a call go through the loop
twice, the second time with leftovers of the first.

CHECK_DEADLOCK is off: the systems really stop, in `idle`, `done` or `main_loop`
when the bounded calls are used up, or `dead`.

Fairness. `spi`: weak fairness of the driver (one thread, nothing blocks it for
ever) and of `ChipDone` (a device ends an operation it has accepted; the driver
polls without a timeout and relies on it). `swupdate`: weak fairness of the
board's steps; power losses and exchanges are bounded, not fair.
`BootsEventually` needs the sticks to be calm in the end: with a bad header CRC,
or with two sticks of different versions, the code restarts the board for ever
(`uboot_update` returns ABNORMITY_RET, and versions are compared with `!=`).

`tftp`, `nfs`: weak fairness of `NetLoop` (one thread that polls) and of `Tick` (time
passes while the loop polls). Nothing is assumed of the server, the delivery of packets and the user:
`AttemptEnds` and `LoadEnds` hold with no server at all. `usb`: weak fairness of the
driver; `usb_bulk_msg` and `usb_control_msg` have time limits, so a silent stick is a
timeout and nothing is assumed of the sticks.

## 4. Proofs

`SpiFlashProofs` proves, for every page, sector and device size that divide each
other (`SizesAssumption`), every set of bits, buffers and initial contents
(`DataAssumption`) and every bound, under `ChipErase = EraseSize`:

- `TypeCorrect`: `Spec => []TypeOK`
- `WriteCorrect`: `Spec => []WriteIsMerge`
- `PowerLossBounded`: `Spec => []OneSectorAtRisk`
- `PagesErased`: `Spec => []ProgramsErasedPages`
- `CommandsAccepted`: `Spec => NoCommandIgnored`

`ChipErase = EraseSize` cannot be dropped: the run `spi_128mbit` refutes
`WriteIsMerge` without it.

None of these is inductive. `IInv` describes a request from left to right: below
the frontier all is final, above it all is untouched (`Settled`), and the pointer
of `spi_write` is at the frontier unless the request ended before (`PtrAt`). It
says so at each control point of `spi_write` (`FirstInv`, `WholeInv`, `DoneInv`).
While a sector is replaced (`ReplaceInv`) the image in RAM is the final content of
the sector, so the part already programmed is final and the rest erased
(`PageInv`), and the device is busy only while the driver waits for it
(`ChipInv`). There is one lemma per action; `StartReplaceInv` is shared by the
three places that call `my_spi_write`. The arithmetic of sectors and pages, where
nonlinear terms occur, is isolated in lemmas at the top.

`SpiFlashRefinement` proves, under the same assumptions,

- `SectorAtomic`: `Spec => ImplementsFlashStore`

`MapInv`, a consequence of `IInv`, says what the refinement mapping shows: the
store is the goal below `Frontier` and the old contents from it on, whatever the
device holds in the sector being replaced. Commands, waits and merges leave
`Frontier` alone and so are stuttering steps; the wait for the last page of a
sector is `Replace`, a return is `Finish`, a call `Start` or `Refuse`, and a power
loss during a request is `Crash`.

`EnvProofs` proves for every set of variables, sizes and bounds, from
`EnvAssumption` and `ImageHoldsAll` (the image of CFG_ENV_SIZE bytes has room for
every environment):

- `TypeCorrect`, `NeverMixed`, `AlwaysWellFormed`, `CrcAlwaysCovers`:
  `Spec => []` of `TypeOK`, `NoMixedEnvironment`, `WellFormed`, `CrcCoversData`
- `SetsOneVariable`: `Spec => OneVariableAtATime`
- `SetenvEffective`: `Spec => SetenvTakesEffect`

Names may be defined twice in `Default`. `EditsInPlace` is not among them: its loops
are recursive functions over the bytes, and what such a function computes for every
input needs an induction over data.

`NoMixedEnvironment` says nothing of a boot that is not over and of sectors that are
half replaced. Its invariant says that outside a save an image whose CRC matches
is the one saved last, and that during one the sectors already passed hold the new
environment's parts: the first sector decides, because it holds the CRC, and after
a power loss that CRC is either still with the old image or that of `attempt`.
`WellFormed` needs that the accepted image is one of these environments, so it
cannot bring in a second definition of a name in `Single`. `Used` is a sum over a sequence; that deleting a variable does not
increase it and appending one adds its weight is proved by least counterexample,
without an induction rule.

`SwUpdateProofs` proves for every set of files and sticks and every layout, from
`SwUpdateAssumption` and `ContentsAssumption` (a version stands for one image, made
for one identity):

- `TypeCorrect`, `NeverKillsTheBox`, `OwnImagesOnly`, `UpdateKeepsData`: `Spec => []`
  of `TypeOK`, `DeadOnlyByPowerLoss`, `OnlyOwnImages`, `OutsideImageKept`
- with `FilesInDevice` (no file is larger than the device), `RecordedIsInstalled`:
  `Spec => RecordFollowsImage`

The code does not check `FilesInDevice`; without it the last one fails (run
`swupdate_size`). The others hold for every UbootSize: `OutsideImageKept` says how far
the damage of a large one goes. `Writing` is the heart of the invariant: while sectors are replaced
the file is still the one that was checked, and the sectors below `sect` hold it.
`OwnRecord` says which record the identity check has compared with.

`UsbStorageProofs` proves for every bus, size of the tables and number of retries,
from `UsbAssumption`:

- `TypeCorrect`, `SlotsAreOwn`, `AlwaysRestored`, `ReadsTheData`:
  `Spec => []` of `TypeOK`, `OwnSlot`, `Restored`, `ReadIsData`

`OwnSlot` speaks of the end of the scan; `Counted` and `Current` carry it through the
scan: the devices counted lie behind the one looked at, which has the next slot.
`ReadIsData` rests on `Queues` (no stick holds an answer to a command that is still
to be sent), `Progress` (what counts as read is in the buffer) and `Flight`: the
wrapper with the current tag is the last item of its queue and stands behind the
blocks it reports, so that leftovers in front of it are taken as something that
fails, never as its data.

`NfsProofs` proves for every set of files and links, cycles and garbled targets
included, from `NetAssumption`, `RestartAssumption`, `NfsAssumption`,
`PathsAssumption` and `FilesFit`:

- `TypeCorrect`, `HandlesMatch`: `Spec => []` of `TypeOK`, `HandlesArePath`
- `SettledStays`: `Spec => NoLateWrite`
- `LoadCorrect`: `Spec => []LoadedIsFile`

Packets of all earlier requests and loads may be in flight, so the invariant sorts
them by identifier: none has one that is still to be given out (`Messages`), and one
with the current identifier is the request of the current state or an answer to it
(`Asked`). From there handles belong to the path, and what was read lies in memory
(`Read`). `Followed` says that the links followed lead where the name given leads, as
long as all of them are absolute or as long as their names. A READ reply that is
refused for its verifier is allowed: `cutShort` tells that such a reply was taken for
the end of the file.

`TftpProofs` proves for every number of sessions, blocks, ports and retries and every
block size of every session, from
`NetAssumption`, `RestartAssumption`, `TftpAssumption`, `FilesFit` and
`TimingAssumption`:

- `TypeCorrect`, `ArpGivesNotUp`: `Spec => []` of `TypeOK`, `ArpNeverGivesUp`
- with `NoWrap` (no file has SequenceSize blocks or more), `LoadCorrect`,
  `AcksAreStored`: `Spec => []` of `LoadedIsFile`, `AckedBlocksStored`

`NoWrap` cannot be dropped: the run `tftp_wrap` refutes `LoadedIsFile` without it.
`Waited` bounds the time a packet has waited for ARP by the time the timer of TFTP,
and after it that of the restart, has run. `Messages` says that every packet in
flight is of the client as it is bound now or of a session, and that a block in
flight has been sent. For the data, `Bound` ties the two ends together: what the
session has seen acknowledged, and what the client may acknowledge again, is in
memory. It needs `Acks` (of the packets in flight between them) and `Fresh`: a client
that has chosen no session has acknowledged nothing, so that the packet that makes
the choice comes from a session at its start. `Sized` gives the block sizes: a client
bound to a session of its own attempt has that session's block size, because a
session with another than the default one sends no block before its OACK has been
acknowledged; `MismatchIsStale` concludes that only `StaleSize` is left as exception.

Model-checked only: `WriteReturns`, `BootsEventually`, `AttemptEnds`, `LoadEnds` and
`UsbReturns`, since liveness under fairness is out of the prover's reach, and
`EditsInPlace`.

## 5. Plan

1. An abstract specification of loading (nothing, or one file, whole) that `Tftp` and
   `Nfs` both implement.
2. An abstract specification of the saved environment (the old or the new one, or
   none) that `Env` implements.
3. `Bootp`: BOOTP and DHCP on `Net`, with the retries of `BootpTimeout`.
4. `Autoboot`: `abortboot`, the countdown and `bootcmd`.

## 6. Not modelled

Other boards, processors and drivers of the tree; NAND (the board keeps image and
environment in SPI flash); byte-level parsing of file systems and images; the
hush shell, dlmalloc and zlib (third-party code); LEDs, console and pin set-up.

Of the network: BOOTP and DHCP, RARP, ping, SNTP, CDP, VLANs, multicast TFTP, TFTP
into flash, and the build with several interfaces (CONFIG_NET_MULTI). Of USB:
enumeration, hubs and the host controller, and the CB and CBI transports, which
only floppy drives and old readers use.

Known and not refuted by a run of their own (section 2 describes the first five):

- a cycle of NFS links is followed for ever, against "maximum 16 steps" (`nfs.c:20-22`);
- the verifier of a READ reply that is refused is taken for the end of the file;
- a session of an earlier TFTP attempt is stored with the wrong block size
  (`tftp.c:523` against 286) and reported as "the whole thing" (`tftp.c:411`);
- a UbootSize larger than the image area overwrites the environment
  (`swUpdate.c:953`); only `OutsideImageKept` says how far;
- a USB stick that passes a short read is believed; the block size assumed when
  READ CAPACITY fails is wrong; `usb_inquiry` swaps its results at the last try;
- a `uboot.sh` in a second partition that is FAT is never executed, since
  `usb_fatload` passes no partition (`swUpdate.c:686`), against the comment "if 2nd
  parition exist uboot.sh then executed it" (`swUpdate.c:992`). `Script` of `SwUpdate`
  follows the code.
