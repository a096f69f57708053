------------------------------ MODULE SpiFlash ------------------------------
(***************************************************************************)
(* The serial-flash driver of cpu/sh/spi.c as built for the pdk7105 board  *)
(* (CONFIG_SPI, CONFIG_SPI_FLASH_ST), and the NOR device it talks to.      *)
(*                                                                         *)
(* spi_write() splits a request into erase sectors; my_spi_write() reads   *)
(* and merges a partial sector in RAM, erases the sector and programs it   *)
(* back page by page, polling the status register after every command.     *)
(* One action is one SPI command (or one decision of spi_write), so that a *)
(* power loss may fall between any two of them.                            *)
(*                                                                         *)
(* A byte is the set of its 1 bits: an erase sets every bit and a page     *)
(* program can only clear bits.  A byte whose erase or program was cut     *)
(* short by a power loss reads as an unknown value, Torn.                  *)
(***************************************************************************)
EXTENDS Integers

CONSTANTS
    Bits,          \* the bits of a byte
    Torn,          \* an unknown byte: an interrupted erase or program
    PageSize,      \* pageSize: bytes of one page program
    EraseSize,     \* eraseSize: bytes the driver takes one erase to cover
    ChipErase,     \* bytes the OP_SE command of the device really erases
    DeviceSize,    \* deviceSize of the probed part
    Buffers,       \* the callers' buffers
    InitMems,      \* contents of the device before the first call
    MaxCalls,      \* bound: calls of spi_write
    MaxPowerLoss   \* bound: power losses

Byte == SUBSET Bits
Cell == {Torn} \cup Byte
Erased == Bits
Addr == 0 .. DeviceSize - 1
Pages == EraseSize \div PageSize

ASSUME SizesAssumption ==
    /\ PageSize \in Nat \ {0}
    /\ EraseSize \in Nat \ {0}
    /\ DeviceSize \in Nat \ {0}
    /\ ChipErase \in Nat \ {0}
    /\ EraseSize % PageSize = 0
    /\ DeviceSize % EraseSize = 0

ASSUME DataAssumption ==
    /\ \A b \in Byte : b # Torn
    /\ Buffers \subseteq [0 .. DeviceSize - 1 -> Byte]
    /\ InitMems \subseteq [Addr -> Cell]
    /\ MaxCalls \in Nat
    /\ MaxPowerLoss \in Nat

NoRet == -1           \* spi_write has not returned

VARIABLES
    mem,         \* the cells of the device
    wel,         \* the device's write-enable latch
    busy,        \* the device's operation in progress (SR_WIP)
    at,          \* its address
    latch,       \* the page buffer of the device
    deviceSize,  \* the driver's deviceSize, 0 until a part is recognised
    pc,          \* control point of the driver
    cont,        \* where my_spi_write returns to in spi_write
    first,       \* spi_write: first address of the request
    len,         \* spi_write: its length
    buf,         \* spi_write: its buffer
    ptr,         \* spi_write: next address to write
    sector,      \* spi_write: next sector number
    base,        \* my_spi_write: address of the sector being replaced
    image,       \* my_spi_write: the bytes to program into it
    page,        \* my_spi_write: next page of the sector
    ret,         \* what spi_write returned
    old,         \* history: mem when spi_write was called
    calls, cuts  \* bounded counters

chip == <<mem, wel, busy, at, latch>>
request == <<first, len, buf, old>>
walk == <<ptr, sector>>
replace == <<base, image, page>>
vars == <<chip, deviceSize, pc, cont, request, walk, replace, ret, calls, cuts>>

-----------------------------------------------------------------------------
(* The device.                                                             *)

\* Programming clears bits and never sets one.
Program(c, d) == IF Torn \in {c, d} THEN Torn ELSE c \cap d

\* Commands that change cells are ignored while WIP is set or WEL is clear.
Accepts == wel /\ busy = "no"

\* WREN is itself ignored while an operation is in progress.
WriteEnable == wel' = (wel \/ busy = "no")

InErase(a) == at <= a /\ a < at + ChipErase
InPage(a)  == at <= a /\ a < at + PageSize

\* The device ends its operation: WIP and WEL are cleared.
ChipDone ==
    /\ busy # "no"
    /\ mem' = [a \in Addr |->
                 IF busy = "erase" /\ InErase(a) THEN Erased
                 ELSE IF busy = "program" /\ InPage(a)
                      THEN Program(mem[a], latch[a - at])
                      ELSE mem[a]]
    /\ busy' = "no"
    /\ wel' = FALSE
    /\ UNCHANGED <<at, latch, deviceSize, pc, cont, request, walk, replace,
                   ret, calls, cuts>>

\* Power fails: the cells an unfinished operation was changing are unknown.
PowerLoss ==
    /\ pc # "off"
    /\ cuts < MaxPowerLoss
    /\ cuts' = cuts + 1
    /\ mem' = [a \in Addr |->
                 IF \/ busy = "erase" /\ InErase(a)
                    \/ busy = "program" /\ InPage(a)
                 THEN Torn ELSE mem[a]]
    /\ busy' = "no"
    /\ wel' = FALSE
    /\ deviceSize' = 0
    /\ pc' = "off"
    /\ UNCHANGED <<at, latch, cont, request, walk, replace, ret, calls>>

-----------------------------------------------------------------------------
\* Mutant: the capacity code of the device id is taken for one size too many.
ProbeWrongCapacity ==
    /\ pc = "off"
    /\ deviceSize' \in {0, 2 * DeviceSize}
    /\ pc' = "idle"
    /\ UNCHANGED <<chip, cont, request, walk, replace, ret, calls, cuts>>

(* spi_init: an unrecognised status or device id leaves deviceSize at 0.   *)
spi_probe_serial_flash ==
    /\ pc = "off"
    /\ deviceSize' \in {0, DeviceSize}
    /\ pc' = "idle"
    /\ UNCHANGED <<chip, cont, request, walk, replace, ret, calls, cuts>>

-----------------------------------------------------------------------------
(* spi_write.                                                              *)

last == first + len - 1

\* Mutant: the sector that holds the end of the request counts as whole.
lsectorRoundedUp == (first + len + EraseSize - 2) \div EraseSize

lsector == (first + len) \div EraseSize

\* The call: nothing to do for len < 1, refused when out of range.
spi_write(f, n, b) ==
    /\ pc = "idle"
    /\ calls < MaxCalls
    /\ calls' = calls + 1
    /\ first' = f /\ len' = n /\ buf' = b /\ old' = mem
    /\ ptr' = f
    /\ sector' = f \div EraseSize
    /\ \/ n < 1 /\ ret' = n /\ pc' = "idle"
       \/ n >= 1 /\ f + n - 1 >= deviceSize /\ ret' = 0 /\ pc' = "idle"
       \/ n >= 1 /\ f + n - 1 < deviceSize /\ ret' = NoRet /\ pc' = "first"
    /\ UNCHANGED <<chip, deviceSize, cont, replace, cuts>>

\* The sector at address a with the n bytes from a on taken from the buffer.
SectorBase(a) == (a \div EraseSize) * EraseSize

\* Mutant: the rest of a partial sector is not read back.
MergedNoRead(a, n) ==
    [i \in 0 .. EraseSize - 1 |->
        LET c == SectorBase(a) + i
        IN  IF a <= c /\ c < a + n THEN buf[c - first] ELSE Erased]

Merged(a, n) ==
    [i \in 0 .. EraseSize - 1 |->
        LET c == SectorBase(a) + i
        IN  IF a <= c /\ c < a + n THEN buf[c - first] ELSE mem[c]]

\* my_spi_write(address, buffer, n): the read and merge of the sector.
my_spi_write(a, n, k) ==
    /\ base' = SectorBase(a)
    /\ image' = Merged(a, n)
    /\ page' = 0
    /\ cont' = k
    /\ pc' = "wrenErase"

\* Up to the end of the first erase block.
FirstBlock ==
    LET byte == first % EraseSize
        size == IF len < EraseSize - byte THEN len ELSE EraseSize - byte
    IN  /\ pc = "first"
        /\ \/ /\ byte # 0
              /\ my_spi_write(first, size, "whole")
              /\ sector' = sector + 1
              /\ ptr' = ptr + size
           \/ /\ byte = 0
              /\ pc' = "whole"
              /\ UNCHANGED <<walk, replace, cont>>
        /\ UNCHANGED <<chip, deviceSize, request, ret, calls, cuts>>

\* Each whole erase block in turn.
WholeBlock ==
    /\ pc = "whole"
    /\ sector < lsector
    /\ my_spi_write(ptr, EraseSize, "whole")
    /\ sector' = sector + 1
    /\ ptr' = ptr + EraseSize
    /\ UNCHANGED <<chip, deviceSize, request, ret, calls, cuts>>

\* Any data at the tail.
TailBlock ==
    /\ pc = "whole"
    /\ sector >= lsector
    /\ ptr <= last
    /\ my_spi_write(ptr, last - ptr + 1, "done")
    /\ UNCHANGED <<chip, deviceSize, request, walk, ret, calls, cuts>>

\* Mutant: the tail is forgotten.
ReturnBeforeTail ==
    /\ \/ pc = "whole" /\ sector >= lsector
       \/ pc = "done"
    /\ ret' = len
    /\ pc' = "idle"
    /\ UNCHANGED <<chip, deviceSize, cont, request, walk, replace, calls, cuts>>

Return ==
    /\ \/ pc = "whole" /\ sector >= lsector /\ ptr > last
       \/ pc = "done"
    /\ ret' = len
    /\ pc' = "idle"
    /\ UNCHANGED <<chip, deviceSize, cont, request, walk, replace, calls, cuts>>

-----------------------------------------------------------------------------
(* my_spi_write, after the merge: WREN, SE, wait, then WREN, PP, wait for  *)
(* every page of the sector.                                               *)

Wren ==
    /\ \/ pc = "wrenErase" /\ pc' = "erase"
       \/ pc = "wrenPage" /\ pc' = "program"
    /\ WriteEnable
    /\ UNCHANGED <<mem, busy, at, latch, deviceSize, cont, request, walk,
                   replace, ret, calls, cuts>>

\* Mutant: the erase command is sent with the address of the second page.
SectorEraseSecondPage ==
    /\ pc = "erase"
    /\ IF Accepts THEN busy' = "erase" /\ at' = base + PageSize
                  ELSE UNCHANGED <<busy, at>>
    /\ pc' = "waitErase"
    /\ UNCHANGED <<mem, wel, latch, deviceSize, cont, request, walk, replace,
                   ret, calls, cuts>>

SectorErase ==
    /\ pc = "erase"
    /\ IF Accepts THEN busy' = "erase" /\ at' = base
                  ELSE UNCHANGED <<busy, at>>
    /\ pc' = "waitErase"
    /\ UNCHANGED <<mem, wel, latch, deviceSize, cont, request, walk, replace,
                   ret, calls, cuts>>

PageProgram ==
    /\ pc = "program"
    /\ IF Accepts
       THEN /\ busy' = "program"
            /\ at' = base + page * PageSize
            /\ latch' = [i \in 0 .. PageSize - 1 |-> image[page * PageSize + i]]
       ELSE UNCHANGED <<busy, at, latch>>
    /\ pc' = "waitPage"
    /\ UNCHANGED <<mem, wel, deviceSize, cont, request, walk, replace,
                   ret, calls, cuts>>

\* Mutant: the driver does not wait for the device.
no_wait == TRUE

\* spi_wait_till_ready polls the status register until WIP is clear.
spi_wait_till_ready == busy = "no"

WaitErase ==
    /\ pc = "waitErase"
    /\ spi_wait_till_ready
    /\ pc' = "wrenPage"
    /\ UNCHANGED <<chip, deviceSize, cont, request, walk, replace, ret, calls, cuts>>

\* Mutant: the loop over the pages does not advance.
WaitPageStuck ==
    /\ pc = "waitPage"
    /\ spi_wait_till_ready
    /\ page' = page
    /\ pc' = IF page + 1 < Pages THEN "wrenPage" ELSE cont
    /\ UNCHANGED <<chip, deviceSize, cont, request, walk, base, image, ret,
                   calls, cuts>>

WaitPage ==
    /\ pc = "waitPage"
    /\ spi_wait_till_ready
    /\ page' = page + 1
    /\ pc' = IF page + 1 < Pages THEN "wrenPage" ELSE cont
    /\ UNCHANGED <<chip, deviceSize, cont, request, walk, base, image, ret,
                   calls, cuts>>

-----------------------------------------------------------------------------
Init ==
    /\ mem \in InitMems
    /\ wel = FALSE /\ busy = "no" /\ at = 0
    /\ latch = [i \in 0 .. PageSize - 1 |-> Erased]
    /\ deviceSize = 0
    /\ pc = "off" /\ cont = "done"
    /\ first = 0 /\ len = 0 /\ buf \in Buffers /\ old = mem
    /\ ptr = 0 /\ sector = 0
    /\ base = 0 /\ image = [i \in 0 .. EraseSize - 1 |-> Erased] /\ page = 0
    /\ ret = NoRet
    /\ calls = 0 /\ cuts = 0

Call == \E f \in Addr, n \in 0 .. DeviceSize + 1, b \in Buffers : spi_write(f, n, b)

DriverStep ==
    \/ FirstBlock \/ WholeBlock \/ TailBlock \/ Return
    \/ Wren \/ SectorErase \/ WaitErase \/ PageProgram \/ WaitPage

Next == spi_probe_serial_flash \/ Call \/ DriverStep \/ ChipDone \/ PowerLoss

\* The driver runs on a single thread that is never blocked for ever, and
\* the device ends every operation it has accepted.
Fairness == WF_vars(DriverStep) /\ WF_vars(ChipDone)

Spec == Init /\ [][Next]_vars
FairSpec == Spec /\ Fairness

-----------------------------------------------------------------------------
(* Properties.                                                             *)

TypeOK ==
    /\ mem \in [Addr -> Cell]
    /\ wel \in BOOLEAN
    /\ busy \in {"no", "erase", "program"}
    /\ at \in Addr
    /\ latch \in [0 .. PageSize - 1 -> Cell]
    /\ deviceSize \in {0, DeviceSize}
    /\ pc \in {"off", "idle", "first", "whole", "done", "wrenErase", "erase",
               "waitErase", "wrenPage", "program", "waitPage"}
    /\ cont \in {"whole", "done"}
    /\ first \in Addr
    /\ len \in 0 .. DeviceSize + 1
    /\ buf \in Buffers
    /\ old \in [Addr -> Cell]
    /\ ptr \in 0 .. DeviceSize
    /\ sector \in Nat
    /\ base \in Addr
    /\ image \in [0 .. EraseSize - 1 -> Cell]
    /\ page \in 0 .. Pages
    /\ ret \in {NoRet} \cup (0 .. DeviceSize + 1)
    /\ calls \in 0 .. MaxCalls
    /\ cuts \in 0 .. MaxPowerLoss

\* What the request in progress, or the last one, is meant to leave behind.
Target ==
    [a \in Addr |-> IF first <= a /\ a < first + len THEN buf[a - first] ELSE old[a]]

\* When spi_write has returned, the device holds the old contents with exactly
\* the requested bytes replaced (ret = len), or is untouched (refused call).
WriteIsMerge ==
    pc = "idle" /\ ret # NoRet => mem = IF ret = len THEN Target ELSE old

\* At every instant, so also after a power loss, at most one erase sector is
\* neither finished nor untouched: below it the new contents are complete and
\* above it the old ones are intact.
OneSectorAtRisk ==
    \E b \in Addr :
        /\ b % EraseSize = 0
        /\ \A a \in Addr :
              /\ a < b => mem[a] = Target[a]
              /\ a >= b + EraseSize => mem[a] = old[a]

\* A page is programmed only while all its cells are erased: programming can
\* only clear bits, so this is what makes the programmed page equal the image.
ProgramsErasedPages ==
    busy = "program" => \A i \in 0 .. PageSize - 1 : mem[at + i] = Erased

\* No erase or program command is ever sent to a device that ignores it (write
\* disabled, or still busy): the device would drop it without any error.
NoCommandIgnored ==
    [][ /\ pc = "erase" /\ pc' = "waitErase" => busy' = "erase" /\ at' = base
        /\ pc = "program" /\ pc' = "waitPage" =>
              busy' = "program" /\ at' = base + page * PageSize ]_vars

\* Every call of spi_write returns, unless the power fails.
WriteReturns == pc \notin {"idle", "off"} ~> pc \in {"idle", "off"}
-----------------------------------------------------------------------------
(* spi_write implements FlashStore.                                        *)

Serving == pc \notin {"idle", "off"}
Replacing == pc \in {"wrenErase", "erase", "waitErase", "wrenPage", "program",
                     "waitPage"}

\* The sector being replaced counts as old until its last page is programmed.
StableMem ==
    [a \in Addr |-> IF Replacing /\ base <= a /\ a < base + EraseSize
                    THEN old[a] ELSE mem[a]]

Frontier ==
    CASE pc = "first" -> SectorBase(first)
      [] pc = "whole" -> SectorBase(ptr + EraseSize - 1)
      [] pc = "done"  -> base + EraseSize
      [] Replacing    -> base
      [] OTHER        -> 0

\* What the caller knows: nothing, a refusal, or the length written.
Reply == IF ret = NoRet THEN "none" ELSE IF ret = 0 THEN "refused" ELSE "done"

Store == INSTANCE FlashStore WITH
    store <- StableMem,
    active <- Serving,
    goal <- IF Serving THEN Target ELSE StableMem,
    frontier <- Frontier,
    end <- IF Serving THEN first + len ELSE 0,
    reply <- Reply

\* Erases, page programs and merges of spi_write amount to replacing whole
\* sectors in ascending order, with one sector at stake in a power loss.
ImplementsFlashStore == Store!StoreSpec
=============================================================================
