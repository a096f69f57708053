--------------------------- MODULE SpiFlashProofs ---------------------------
(***************************************************************************)
(* Proofs about SpiFlash for every geometry (page, sector and device       *)
(* size), every buffer and every bound, for devices whose sector erase     *)
(* covers what the driver takes it to cover.                               *)
(***************************************************************************)
EXTENDS SpiFlash, TLAPS

-----------------------------------------------------------------------------
(* Arithmetic of sectors and pages.                                        *)

\* The sector number of an address bounds the address.
LEMMA SectorBounds ==
    ASSUME NEW n \in Nat
    PROVE  /\ n \div EraseSize \in Nat
           /\ (n \div EraseSize) * EraseSize \in Nat
           /\ (n \div EraseSize) * EraseSize <= n
           /\ n < (n \div EraseSize) * EraseSize + EraseSize
           /\ n % EraseSize = n - (n \div EraseSize) * EraseSize
  BY SizesAssumption

\* Multiples of the sector size are ordered like their factors.
LEMMA SectorOrder ==
    ASSUME NEW x \in Nat, NEW y \in Nat
    PROVE  /\ x * EraseSize \in Nat
           /\ (x + 1) * EraseSize = x * EraseSize + EraseSize
           /\ x < y => x * EraseSize + EraseSize <= y * EraseSize
           /\ x >= y => y * EraseSize <= x * EraseSize
  BY SizesAssumption

\* A multiple of the sector size is the base of its own sector.
LEMMA SectorOfMultiple ==
    ASSUME NEW x \in Nat
    PROVE  /\ (x * EraseSize) % EraseSize = 0
           /\ (x * EraseSize) \div EraseSize = x
  BY SizesAssumption

\* A sector that starts inside the device ends inside it.
LEMMA SectorFits ==
    ASSUME NEW x \in Nat, x * EraseSize < DeviceSize
    PROVE  x * EraseSize + EraseSize <= DeviceSize
<1> DEFINE q == DeviceSize \div EraseSize
<1>1. q \in Nat /\ DeviceSize = q * EraseSize
  BY SizesAssumption, SectorBounds
<1>2. x < q
  BY <1>1, SectorOrder
<1>3. x * EraseSize + EraseSize <= q * EraseSize
  BY <1>1, <1>2, SectorOrder
<1> QED
  BY <1>1, <1>3

\* The last sector of the device.
LEMMA LastSector ==
    /\ DeviceSize - EraseSize \in Addr
    /\ (DeviceSize - EraseSize) % EraseSize = 0
<1> DEFINE q == DeviceSize \div EraseSize
<1>1. q \in Nat /\ DeviceSize = q * EraseSize
  BY SizesAssumption, SectorBounds
<1>2. q # 0
  BY <1>1, SizesAssumption
<1>3. q - 1 \in Nat /\ DeviceSize - EraseSize = (q - 1) * EraseSize
  BY <1>1, <1>2, SectorOrder, SizesAssumption
<1>4. (DeviceSize - EraseSize) % EraseSize = 0
  BY <1>3, SectorOfMultiple
<1>5. DeviceSize - EraseSize \in Addr
  BY <1>3, SectorOrder, SizesAssumption DEF Addr
<1> QED
  BY <1>4, <1>5

\* The pages of a sector fill it exactly.
LEMMA PageBounds ==
    /\ Pages \in Nat \ {0}
    /\ Pages * PageSize = EraseSize
    /\ \A p \in Nat : /\ p * PageSize \in Nat
                      /\ (p + 1) * PageSize = p * PageSize + PageSize
                      /\ p < Pages => p * PageSize + PageSize <= EraseSize
                      /\ p >= Pages => p * PageSize >= EraseSize
  BY SizesAssumption DEF Pages

\* Programming an erased cell stores the data.
LEMMA ProgramErased ==
    ASSUME NEW d \in Cell
    PROVE  Program(Erased, d) = d
<1>1. Bits \in Byte /\ Bits # Torn
  BY DataAssumption DEF Byte
<1>2. CASE d = Torn
  BY <1>2 DEF Program
<1>3. CASE d \in Byte
  BY <1>1, <1>3, DataAssumption DEF Program, Erased, Byte
<1> QED
  BY <1>2, <1>3 DEF Cell

-----------------------------------------------------------------------------
(* The inductive invariant.  A request is served from left to right: what  *)
(* lies below the frontier is final, what lies above it is untouched, and  *)
(* only the sector at the frontier is in between.                          *)

Settled(lo, hi) ==
    /\ \A a \in Addr : a < lo => mem[a] = Target[a]
    /\ \A a \in Addr : a >= hi => mem[a] = old[a]

\* ptr is at the frontier, or the request ended in the sector before it.
PtrAt(f) ==
    \/ ptr = f /\ first <= ptr /\ ptr <= first + len
    \/ ptr = first + len /\ ptr < f /\ f < ptr + EraseSize

RequestInv == Serving => len >= 1 /\ first + len <= DeviceSize /\ ret = NoRet

RestInv ==
    ~Serving => /\ OneSectorAtRisk
                /\ ret # NoRet => mem = IF ret = len THEN Target ELSE old

FirstInv == pc = "first" => ptr = first /\ sector = first \div EraseSize /\ mem = old

WholeInv ==
    pc = "whole" => /\ sector * EraseSize <= DeviceSize
                    /\ Settled(sector * EraseSize, sector * EraseSize)
                    /\ PtrAt(sector * EraseSize)

DoneInv == pc = "done" => mem = Target /\ first + len <= base + EraseSize

ReplaceInv ==
    Replacing => /\ base % EraseSize = 0
                 /\ base + EraseSize <= DeviceSize
                 /\ base < first + len
                 /\ Settled(base, base + EraseSize)
                 /\ \A i \in 0 .. EraseSize - 1 : image[i] = Target[base + i]
                 /\ cont = "whole" => /\ sector * EraseSize = base + EraseSize
                                      /\ PtrAt(base + EraseSize)
                 /\ cont = "done" => first + len <= base + EraseSize

\* The part of the sector that has been programmed; the rest is erased.
Programmed == IF pc = "waitPage" /\ busy = "no" THEN (page + 1) * PageSize ELSE page * PageSize
Erasing == pc \in {"wrenErase", "erase", "waitErase"}
Programming == pc \in {"wrenPage", "program", "waitPage"}

PageInv ==
    /\ Erasing => page = 0
    /\ Programming => page < Pages
    /\ Programming \/ (pc = "waitErase" /\ busy = "no") =>
          \A i \in 0 .. EraseSize - 1 :
              mem[base + i] = IF i < Programmed THEN Target[base + i] ELSE Erased

ChipInv ==
    /\ busy = "erase" => pc = "waitErase" /\ at = base
    /\ busy = "program" => /\ pc = "waitPage"
                           /\ at = base + page * PageSize
                           /\ \A i \in 0 .. PageSize - 1 : latch[i] = image[page * PageSize + i]
    /\ pc \in {"erase", "program"} => wel

IInv == TypeOK /\ RequestInv /\ RestInv /\ FirstInv /\ WholeInv /\ DoneInv
            /\ ReplaceInv /\ PageInv /\ ChipInv

-----------------------------------------------------------------------------
(* Facts every step uses.                                                  *)

\* The goal of a request changes only with the request.
LEMMA TargetSame ==
    ASSUME UNCHANGED request
    PROVE  Target' = Target
  BY DEF Target, request

\* The goal of a request is a content of the device.
LEMMA TargetType ==
    ASSUME TypeOK
    PROVE  /\ Target \in [Addr -> Cell]
           /\ \A a \in Addr : first <= a /\ a < first + len =>
                  /\ Target[a] = buf[a - first]
                  /\ buf[a - first] \in Cell
           /\ \A a \in Addr : ~(first <= a /\ a < first + len) => Target[a] = old[a]
<1>1. ASSUME NEW a \in Addr, first <= a
      PROVE  buf[a - first] \in Cell
  <2>1. a - first \in 0 .. DeviceSize - 1
    BY <1>1, SizesAssumption DEF TypeOK, Addr
  <2>2. buf \in [0 .. DeviceSize - 1 -> Byte]
    BY DataAssumption DEF TypeOK
  <2> QED
    BY <2>1, <2>2 DEF Cell
<1>2. \A a \in Addr : old[a] \in Cell
  BY DEF TypeOK
<1> QED
  BY <1>1, <1>2 DEF Target

\* Contents m that are the old ones o, or the new ones t, leave nothing at risk.
LEMMA RiskAtEnds ==
    ASSUME NEW m, NEW t, NEW o, m = o \/ m = t
    PROVE  \E b \in Addr :
               /\ b % EraseSize = 0
               /\ \A a \in Addr : /\ a < b => m[a] = t[a]
                                  /\ a >= b + EraseSize => m[a] = o[a]
<1>1. CASE m = o
  <2>1. 0 \in Addr /\ 0 % EraseSize = 0
    BY SizesAssumption DEF Addr
  <2>2. \A a \in Addr : ~(a < 0)
    BY DEF Addr
  <2> QED
    BY <1>1, <2>1, <2>2
<1>2. CASE m = t
  <2>1. \A a \in Addr : ~(a >= (DeviceSize - EraseSize) + EraseSize)
    BY SizesAssumption DEF Addr
  <2> QED
    BY <1>2, <2>1, LastSector
<1> QED
  BY <1>1, <1>2

\* In every state of the invariant at most one sector is at risk.
LEMMA RiskBounded ==
    ASSUME IInv
    PROVE  OneSectorAtRisk
<1> USE DEF IInv
<1>1. CASE ~Serving
  BY <1>1 DEF RestInv
<1>2. CASE pc = "first" \/ pc = "done"
  BY <1>2, RiskAtEnds DEF FirstInv, DoneInv, OneSectorAtRisk
<1>3. CASE pc = "whole"
  <2> DEFINE f == sector * EraseSize
  <2>1. f \in Nat /\ f % EraseSize = 0 /\ f <= DeviceSize
    BY <1>3, SectorOrder, SectorOfMultiple DEF WholeInv, TypeOK
  <2>2. Settled(f, f)
    BY <1>3 DEF WholeInv
  <2>3. CASE f < DeviceSize
    <3>1. f \in Addr
      BY <2>1, <2>3, SizesAssumption DEF Addr
    <3>2. \A a \in Addr : a >= f + EraseSize => a >= f
      BY <2>1, SizesAssumption DEF Addr
    <3> QED
      BY <2>1, <2>2, <3>1, <3>2 DEF OneSectorAtRisk, Settled
  <2>4. CASE f = DeviceSize
    <3>1. \A a \in Addr : a < f /\ ~(a >= (DeviceSize - EraseSize) + EraseSize)
      BY <2>4, SizesAssumption DEF Addr
    <3> QED
      BY <2>2, <3>1, LastSector DEF OneSectorAtRisk, Settled
  <2> QED
    BY <2>1, <2>3, <2>4, SizesAssumption
<1>4. CASE Replacing
  BY <1>4 DEF OneSectorAtRisk, ReplaceInv, Settled, TypeOK
<1> QED
  BY <1>1, <1>2, <1>3, <1>4 DEF Serving, Replacing, TypeOK

-----------------------------------------------------------------------------
(* The invariant holds initially.                                          *)

\* Power-on, with nothing requested yet, satisfies the invariant.
LEMMA InitInv ==
    Init => IInv
<1> SUFFICES ASSUME Init PROVE IInv
  OBVIOUS
<1>1. TypeOK
  <2>1. mem \in [Addr -> Cell] /\ old \in [Addr -> Cell] /\ buf \in Buffers
    BY DataAssumption DEF Init
  <2>2. Erased \in Cell
    BY DEF Erased, Cell, Byte
  <2>3. 0 \in Addr /\ 0 \in 0 .. Pages /\ 0 \in 0 .. DeviceSize
    BY SizesAssumption, PageBounds DEF Addr
  <2>4. 0 \in 0 .. MaxCalls /\ 0 \in 0 .. MaxPowerLoss /\ 0 \in 0 .. DeviceSize + 1
    BY DataAssumption, SizesAssumption
  <2> QED
    BY <2>1, <2>2, <2>3, <2>4 DEF Init, TypeOK
<1>2. OneSectorAtRisk
  BY RiskAtEnds DEF Init, OneSectorAtRisk
<1> QED
  BY <1>1, <1>2 DEF Init, IInv, RequestInv, RestInv, FirstInv, WholeInv, DoneInv,
     ReplaceInv, PageInv, ChipInv, Serving, Replacing, Erasing, Programming

-----------------------------------------------------------------------------
(* Every step preserves it.  First the steps of my_spi_write that leave    *)
(* the cells of the device alone.                                          *)

\* What is known of the sector being replaced survives a step that changes
\* neither the device nor the request.
LEMMA ReplaceFrame ==
    ASSUME IInv, Replacing, UNCHANGED <<mem, request, walk, base, image, cont>>
    PROVE  ReplaceInv'
<1>1. Target' = Target
  BY TargetSame
<1> QED
  BY <1>1 DEF IInv, ReplaceInv, Settled, PtrAt, request, walk

\* WREN: the device is idle, so the write-enable latch is set.
LEMMA WrenInv ==
    ASSUME IInv, Wren
    PROVE  IInv'
<1> USE DEF IInv, Wren, request, walk, replace, chip
<1>1. Replacing /\ Replacing' /\ Serving /\ Serving'
  BY DEF Replacing, Serving
<1>2. busy = "no" /\ wel' = TRUE
  BY DEF ChipInv, TypeOK, WriteEnable
<1>3. TypeOK'
  BY <1>2 DEF TypeOK
<1>4. ReplaceInv'
  BY <1>1, ReplaceFrame
<1>5. RequestInv' /\ RestInv' /\ FirstInv' /\ WholeInv' /\ DoneInv'
  BY <1>1 DEF RequestInv, RestInv, FirstInv, WholeInv, DoneInv
<1>6. PageInv'
  <2>1. Target' = Target
    BY TargetSame
  <2>2. CASE pc = "wrenErase"
    BY <2>2 DEF PageInv, Erasing, Programming
  <2>3. CASE pc = "wrenPage"
    BY <2>1, <2>3 DEF PageInv, Erasing, Programming, Programmed
  <2> QED
    BY <2>2, <2>3
<1>7. ChipInv'
  BY <1>2 DEF ChipInv
<1> QED
  BY <1>3, <1>4, <1>5, <1>6, <1>7

\* OP_SE: the device accepts the erase of the sector at base.
LEMMA SectorEraseInv ==
    ASSUME IInv, SectorErase
    PROVE  IInv'
<1> USE DEF IInv, SectorErase, request, walk, replace, chip
<1>1. Replacing /\ Replacing' /\ Serving /\ Serving'
  BY DEF Replacing, Serving
<1>2. busy' = "erase" /\ at' = base
  BY DEF ChipInv, TypeOK, Accepts
<1>3. TypeOK'
  BY <1>2 DEF TypeOK
<1>4. ReplaceInv'
  BY <1>1, ReplaceFrame
<1>5. RequestInv' /\ RestInv' /\ FirstInv' /\ WholeInv' /\ DoneInv'
  BY <1>1 DEF RequestInv, RestInv, FirstInv, WholeInv, DoneInv
<1>6. PageInv'
  BY <1>2 DEF PageInv, Erasing, Programming
<1>7. ChipInv'
  BY <1>2 DEF ChipInv
<1> QED
  BY <1>3, <1>4, <1>5, <1>6, <1>7

\* SR_WIP is clear after the erase: the whole sector is erased.
LEMMA WaitEraseInv ==
    ASSUME IInv, WaitErase
    PROVE  IInv'
<1> USE DEF IInv, WaitErase, spi_wait_till_ready, request, walk, replace, chip
<1>1. Replacing /\ Replacing' /\ Serving /\ Serving'
  BY DEF Replacing, Serving
<1>3. TypeOK'
  BY DEF TypeOK
<1>4. ReplaceInv'
  BY <1>1, ReplaceFrame
<1>5. RequestInv' /\ RestInv' /\ FirstInv' /\ WholeInv' /\ DoneInv'
  BY <1>1 DEF RequestInv, RestInv, FirstInv, WholeInv, DoneInv
<1>6. PageInv'
  <2>1. Target' = Target
    BY TargetSame
  <2>2. page = 0 /\ 0 < Pages
    BY PageBounds DEF PageInv, Erasing
  <2> QED
    BY <2>1, <2>2 DEF PageInv, Erasing, Programming, Programmed
<1>7. ChipInv'
  BY DEF ChipInv
<1> QED
  BY <1>3, <1>4, <1>5, <1>6, <1>7

\* The page about to be programmed lies inside the sector and the device.
LEMMA PageInside ==
    ASSUME IInv, Programming
    PROVE  /\ page \in Nat /\ page * PageSize \in Nat
           /\ page * PageSize + PageSize <= EraseSize
           /\ base + page * PageSize \in Addr
           /\ \A i \in 0 .. PageSize - 1 : page * PageSize + i \in 0 .. EraseSize - 1
<1>1. page \in Nat /\ page < Pages
  BY PageBounds DEF IInv, TypeOK, PageInv
<1>2. page * PageSize \in Nat /\ page * PageSize + PageSize <= EraseSize
  BY <1>1, PageBounds
<1>3. base + EraseSize <= DeviceSize /\ base \in Addr
  BY DEF IInv, ReplaceInv, Programming, Replacing, TypeOK
<1>4. base + page * PageSize \in Addr
  BY <1>2, <1>3, SizesAssumption DEF Addr
<1>5. \A i \in 0 .. PageSize - 1 : page * PageSize + i \in 0 .. EraseSize - 1
  BY <1>2, SizesAssumption
<1> QED
  BY <1>1, <1>2, <1>4, <1>5

\* OP_PP: the device accepts the page and latches its part of the image.
LEMMA PageProgramInv ==
    ASSUME IInv, PageProgram
    PROVE  IInv'
<1> USE DEF IInv, PageProgram, request, walk, replace, chip
<1>1. Replacing /\ Replacing' /\ Serving /\ Serving' /\ Programming
  BY DEF Replacing, Serving, Programming
<1>2. /\ busy' = "program" /\ at' = base + page * PageSize
      /\ latch' = [i \in 0 .. PageSize - 1 |-> image[page * PageSize + i]]
  BY DEF ChipInv, TypeOK, Accepts
<1>3. TypeOK'
  <2>1. at' \in Addr /\ latch' \in [0 .. PageSize - 1 -> Cell]
    BY <1>1, <1>2, PageInside DEF TypeOK
  <2> QED
    BY <1>2, <2>1 DEF TypeOK
<1>4. ReplaceInv'
  BY <1>1, ReplaceFrame
<1>5. RequestInv' /\ RestInv' /\ FirstInv' /\ WholeInv' /\ DoneInv'
  BY <1>1 DEF RequestInv, RestInv, FirstInv, WholeInv, DoneInv
<1>6. PageInv'
  <2>1. Target' = Target
    BY TargetSame
  <2> QED
    BY <1>2, <2>1 DEF PageInv, Erasing, Programming, Programmed
<1>7. ChipInv'
  BY <1>2 DEF ChipInv
<1> QED
  BY <1>3, <1>4, <1>5, <1>6, <1>7

\* A sector whose last page has been programmed is final, and with it all
\* the device below its end.
LEMMA SectorFinal ==
    ASSUME IInv, Replacing,
           \A i \in 0 .. EraseSize - 1 : mem[base + i] = Target[base + i]
    PROVE  /\ Settled(base + EraseSize, base + EraseSize)
           /\ first + len <= base + EraseSize => mem = Target
<1> USE DEF IInv
<1>1. base \in Addr /\ first \in Addr /\ len \in Nat
  BY SizesAssumption DEF TypeOK
<1>2. Settled(base, base + EraseSize)
  BY DEF ReplaceInv
<1>3. ASSUME NEW a \in Addr, a < base + EraseSize
      PROVE  mem[a] = Target[a]
  <2>1. CASE a < base
    BY <1>2, <2>1 DEF Settled
  <2>2. CASE a >= base
    <3>1. a - base \in 0 .. EraseSize - 1 /\ base + (a - base) = a
      BY <1>1, <1>3, <2>2, SizesAssumption DEF Addr
    <3> QED
      BY <3>1
  <2> QED
    BY <1>1, <2>1, <2>2 DEF Addr
<1>4. Settled(base + EraseSize, base + EraseSize)
  BY <1>2, <1>3 DEF Settled
<1>5. ASSUME first + len <= base + EraseSize
      PROVE  mem = Target
  <2>1. ASSUME NEW a \in Addr, a >= base + EraseSize
        PROVE  mem[a] = Target[a]
    <3>1. ~(first <= a /\ a < first + len)
      BY <1>1, <1>5, <2>1, SizesAssumption DEF Addr
    <3> QED
      BY <1>2, <2>1, <3>1, TargetType DEF Settled
  <2>2. \A a \in Addr : mem[a] = Target[a]
    BY <1>1, <1>3, <2>1, SizesAssumption DEF Addr
  <2> QED
    BY <2>2, TargetType DEF TypeOK
<1> QED
  BY <1>4, <1>5

\* SR_WIP is clear after a page: the next page, or the next sector.
LEMMA WaitPageInv ==
    ASSUME IInv, WaitPage
    PROVE  IInv'
<1> USE DEF IInv, WaitPage, spi_wait_till_ready, request, walk, replace, chip
<1>1. Replacing /\ Serving /\ Programming
  BY DEF Replacing, Serving, Programming
<1>2. page \in Nat /\ page + 1 <= Pages /\ Pages \in Nat
  BY <1>1, PageBounds DEF PageInv, TypeOK
<1>3. TypeOK'
  BY <1>2 DEF TypeOK
<1>4. Target' = Target
  BY TargetSame
<1>5. Serving'
  BY DEF Serving, TypeOK
<1>6. RequestInv' /\ RestInv' /\ FirstInv'
  BY <1>1, <1>5 DEF RequestInv, RestInv, FirstInv, TypeOK
<1>7. CASE page + 1 < Pages
  <2>1. Replacing' /\ pc' = "wrenPage"
    BY <1>7 DEF Replacing
  <2>2. ReplaceInv'
    BY <1>1, ReplaceFrame
  <2>3. WholeInv' /\ DoneInv'
    BY <2>1 DEF WholeInv, DoneInv
  <2>4. PageInv'
    BY <1>1, <1>2, <1>4, <1>7, <2>1 DEF PageInv, Erasing, Programming, Programmed
  <2>5. ChipInv'
    BY <2>1 DEF ChipInv
  <2> QED
    BY <1>3, <1>6, <2>2, <2>3, <2>4, <2>5
<1>8. CASE ~(page + 1 < Pages)
  <2>1. pc' = cont /\ cont \in {"whole", "done"}
    BY <1>8 DEF TypeOK
  <2>2. (page + 1) * PageSize = EraseSize
    BY <1>2, <1>8, PageBounds
  <2>3. \A i \in 0 .. EraseSize - 1 : mem[base + i] = Target[base + i]
    BY <1>1, <2>2, SizesAssumption DEF PageInv, Programmed
  <2>4. /\ Settled(base + EraseSize, base + EraseSize)
        /\ first + len <= base + EraseSize => mem = Target
    BY <1>1, <2>3, SectorFinal
  <2>5. WholeInv'
    BY <1>1, <1>4, <2>1, <2>4 DEF WholeInv, ReplaceInv, Settled, PtrAt
  <2>6. DoneInv'
    BY <1>1, <1>4, <2>1, <2>4 DEF DoneInv, ReplaceInv
  <2>7. ReplaceInv' /\ PageInv' /\ ChipInv'
    BY <2>1 DEF ReplaceInv, PageInv, ChipInv, Replacing, Erasing, Programming
  <2> QED
    BY <1>3, <1>6, <2>5, <2>6, <2>7
<1> QED
  BY <1>7, <1>8

-----------------------------------------------------------------------------
(* The device ends its operation, or loses power during it.                *)

\* The end of an erase.
LEMMA EraseDoneInv ==
    ASSUME ChipErase = EraseSize, IInv, ChipDone, busy = "erase"
    PROVE  IInv'
<1> USE DEF IInv, request, walk, replace, chip
<1>1. pc = "waitErase" /\ at = base /\ pc' = pc /\ Replacing /\ Serving
  BY DEF ChipInv, ChipDone, Replacing, Serving
<1>2. base \in Addr /\ base + EraseSize <= DeviceSize
  BY <1>1 DEF TypeOK, ReplaceInv
<1>3. /\ mem' \in [Addr -> Cell]
      /\ \A a \in Addr : mem'[a] = IF base <= a /\ a < base + EraseSize
                                    THEN Erased ELSE mem[a]
  <2>1. Erased \in Cell
    BY DEF Erased, Cell, Byte
  <2>2. mem' = [a \in Addr |-> IF base <= a /\ a < base + EraseSize
                               THEN Erased ELSE mem[a]]
    BY <1>1 DEF ChipDone, InErase
  <2> QED
    BY <2>1, <2>2 DEF TypeOK
<1>4. Target' = Target
  BY TargetSame DEF ChipDone
<1>5. TypeOK'
  BY <1>3 DEF TypeOK, ChipDone
<1>6. RequestInv' /\ RestInv' /\ FirstInv' /\ WholeInv' /\ DoneInv'
  BY <1>1 DEF ChipDone, RequestInv, RestInv, FirstInv, WholeInv, DoneInv, Serving
<1>7. ReplaceInv'
  <2>1. Settled(base, base + EraseSize)'
    BY <1>1, <1>2, <1>3, <1>4, SizesAssumption DEF ChipDone, ReplaceInv, Settled, Addr
  <2> QED
    BY <1>1, <1>4, <2>1 DEF ChipDone, ReplaceInv, PtrAt, Replacing
<1>8. PageInv'
  <2>1. page = 0 /\ 0 * PageSize = 0
    BY <1>1, SizesAssumption DEF PageInv, Erasing
  <2>2. ASSUME NEW i \in 0 .. EraseSize - 1
        PROVE  mem'[base + i] = Erased /\ ~(i < 0)
    <3>1. base + i \in Addr /\ base <= base + i /\ base + i < base + EraseSize
      BY <1>2, SizesAssumption DEF Addr
    <3> QED
      BY <1>3, <3>1
  <2> QED
    BY <1>1, <2>1, <2>2 DEF ChipDone, PageInv, Erasing, Programming, Programmed
<1>9. ChipInv'
  BY <1>1 DEF ChipDone, ChipInv
<1> QED
  BY <1>5, <1>6, <1>7, <1>8, <1>9

\* The end of a page program: the page now holds its part of the image.
LEMMA ProgramDoneInv ==
    ASSUME IInv, ChipDone, busy = "program"
    PROVE  IInv'
<1> USE DEF IInv, request, walk, replace, chip
<1> DEFINE p == page * PageSize
<1>1. pc = "waitPage" /\ at = base + p /\ pc' = pc /\ Replacing /\ Serving /\ Programming
  BY DEF ChipInv, ChipDone, Replacing, Serving, Programming
<1>2. base \in Addr /\ base + EraseSize <= DeviceSize
  BY <1>1 DEF TypeOK, ReplaceInv
<1>3. /\ page \in Nat /\ p \in Nat /\ p + PageSize <= EraseSize
      /\ (page + 1) * PageSize = p + PageSize
  BY <1>1, PageInside, PageBounds
<1>4. \A i \in 0 .. EraseSize - 1 :
          mem[base + i] = IF i < p THEN Target[base + i] ELSE Erased
  BY <1>1 DEF PageInv, Programmed
<1>5. mem' = [a \in Addr |-> IF base + p <= a /\ a < base + p + PageSize
                             THEN Program(mem[a], latch[a - (base + p)]) ELSE mem[a]]
  BY <1>1 DEF ChipDone, InPage
<1>6. ASSUME NEW a \in Addr, base + p <= a, a < base + p + PageSize
      PROVE  mem'[a] = Target[a] /\ mem'[a] \in Cell
  <2> DEFINE i == a - base
             j == a - (base + p)
  <2>1. i \in 0 .. EraseSize - 1 /\ j \in 0 .. PageSize - 1 /\ i = p + j /\ base + i = a /\ ~(i < p)
    BY <1>2, <1>3, <1>6, SizesAssumption DEF Addr
  <2>2. mem[a] = Erased
    BY <1>4, <2>1
  <2>3. latch[j] = Target[a]
    <3>1. latch[j] = image[p + j]
      BY <2>1 DEF ChipInv
    <3>2. image[i] = Target[base + i]
      BY <1>1, <2>1 DEF ReplaceInv
    <3> QED
      BY <2>1, <3>1, <3>2
  <2>4. latch[j] \in Cell
    BY <2>1 DEF TypeOK
  <2>5. mem'[a] = Program(Erased, latch[j])
    BY <1>5, <1>6, <2>2
  <2>6. Program(Erased, latch[j]) = latch[j]
    BY <2>4, ProgramErased
  <2> QED
    BY <2>3, <2>4, <2>5, <2>6
<1>7. ASSUME NEW a \in Addr, ~(base + p <= a /\ a < base + p + PageSize)
      PROVE  mem'[a] = mem[a]
  BY <1>5, <1>7
<1>8. Target' = Target
  BY TargetSame DEF ChipDone
<1>9. TypeOK'
  <2>1. \A a \in Addr : mem'[a] \in Cell
    BY <1>6, <1>7 DEF TypeOK
  <2>2. mem' \in [Addr -> Cell]
    BY <1>5, <2>1
  <2> QED
    BY <2>2 DEF TypeOK, ChipDone
<1>10. RequestInv' /\ RestInv' /\ FirstInv' /\ WholeInv' /\ DoneInv'
  BY <1>1 DEF ChipDone, RequestInv, RestInv, FirstInv, WholeInv, DoneInv, Serving
<1>11. ReplaceInv'
  <2>1. ASSUME NEW a \in Addr, a < base \/ a >= base + EraseSize
        PROVE  mem'[a] = mem[a]
    <3>1. ~(base + p <= a /\ a < base + p + PageSize)
      BY <1>2, <1>3, <2>1, SizesAssumption DEF Addr
    <3> QED
      BY <1>7, <3>1
  <2>2. Settled(base, base + EraseSize)'
    BY <1>1, <1>8, <2>1 DEF ChipDone, ReplaceInv, Settled
  <2> QED
    BY <1>1, <1>8, <2>2 DEF ChipDone, ReplaceInv, PtrAt, Replacing
<1>12. PageInv'
  <2>1. ASSUME NEW i \in 0 .. EraseSize - 1
        PROVE  mem'[base + i] = IF i < (page + 1) * PageSize THEN Target[base + i] ELSE Erased
    <3>1. base + i \in Addr
      BY <1>2, SizesAssumption DEF Addr
    <3>2. CASE p <= i /\ i < p + PageSize
      <4>1. base + p <= base + i /\ base + i < base + p + PageSize
        BY <1>2, <1>3, <3>2, SizesAssumption DEF Addr
      <4> QED
        BY <1>3, <1>6, <3>1, <3>2, <4>1
    <3>3. CASE ~(p <= i /\ i < p + PageSize)
      <4>1. ~(base + p <= base + i /\ base + i < base + p + PageSize)
        BY <1>2, <1>3, <3>3, SizesAssumption DEF Addr
      <4>2. i < (page + 1) * PageSize <=> i < p
        BY <1>3, <3>3, SizesAssumption
      <4> QED
        BY <1>4, <1>7, <3>1, <4>1, <4>2
    <3> QED
      BY <3>2, <3>3
  <2> QED
    BY <1>1, <1>8, <2>1 DEF ChipDone, PageInv, Erasing, Programming, Programmed
<1>13. ChipInv'
  BY <1>1 DEF ChipDone, ChipInv
<1> QED
  BY <1>9, <1>10, <1>11, <1>12, <1>13

\* A power loss while the device is busy changes cells of one sector only.
LEMMA PowerLossOutside ==
    ASSUME ChipErase = EraseSize, IInv, PowerLoss, busy # "no",
           NEW a \in Addr, a < base \/ a >= base + EraseSize
    PROVE  mem'[a] = mem[a]
<1> USE DEF IInv
<1>1. base \in Addr
  BY DEF TypeOK
<1>2. CASE busy = "erase"
  <2>1. ~InErase(a)
    BY <1>1, <1>2, SizesAssumption DEF ChipInv, InErase, Addr
  <2> QED
    BY <1>2, <2>1 DEF PowerLoss
<1>3. CASE busy = "program"
  <2>1. pc = "waitPage" /\ at = base + page * PageSize
    BY <1>3 DEF ChipInv
  <2>2. page * PageSize \in Nat /\ page * PageSize + PageSize <= EraseSize
    BY <2>1, PageInside DEF Programming
  <2>3. ~InPage(a)
    BY <1>1, <2>1, <2>2, SizesAssumption DEF InPage, Addr
  <2> QED
    BY <1>3, <2>3 DEF PowerLoss
<1> QED
  BY <1>2, <1>3 DEF TypeOK

\* A power loss spoils at most the sector being replaced.
LEMMA PowerLossInv ==
    ASSUME ChipErase = EraseSize, IInv, PowerLoss
    PROVE  IInv'
<1> USE DEF IInv, request, walk, replace, chip
<1>1. Target' = Target /\ old' = old /\ ret' = ret /\ len' = len
  BY TargetSame DEF PowerLoss
<1>2. mem' \in [Addr -> Cell]
  BY DEF PowerLoss, TypeOK, Cell
<1>3. TypeOK'
  <2>1. cuts' \in 0 .. MaxPowerLoss
    BY DataAssumption DEF TypeOK, PowerLoss
  <2> QED
    BY <1>2, <2>1 DEF TypeOK, PowerLoss
<1>4. ASSUME busy = "no" PROVE RestInv'
  <2>1. mem' = mem
    BY <1>4 DEF PowerLoss, TypeOK
  <2>2. OneSectorAtRisk'
    BY <1>1, <2>1, RiskBounded DEF OneSectorAtRisk
  <2> QED
    BY <1>1, <2>1, <2>2 DEF RestInv, RequestInv
<1>5. ASSUME busy # "no" PROVE RestInv'
  <2>1. Replacing /\ Serving
    BY <1>5 DEF ChipInv, TypeOK, Replacing, Serving
  <2>2. base \in Addr /\ base % EraseSize = 0 /\ Settled(base, base + EraseSize)
    BY <2>1 DEF ReplaceInv, TypeOK
  <2>3. ASSUME NEW a \in Addr, a < base \/ a >= base + EraseSize
        PROVE  mem'[a] = mem[a]
    BY <1>5, <2>3, PowerLossOutside
  <2>4. OneSectorAtRisk'
    <3>1. \A a \in Addr : /\ a < base => mem'[a] = Target'[a]
                          /\ a >= base + EraseSize => mem'[a] = old'[a]
      BY <1>1, <2>2, <2>3 DEF Settled
    <3> QED
      BY <2>2, <3>1 DEF OneSectorAtRisk
  <2> QED
    BY <1>1, <2>1, <2>4 DEF RestInv, RequestInv
<1>6. RestInv'
  BY <1>4, <1>5
<1>7. RequestInv' /\ FirstInv' /\ WholeInv' /\ DoneInv' /\ ReplaceInv' /\ PageInv' /\ ChipInv'
  BY DEF PowerLoss, RequestInv, FirstInv, WholeInv, DoneInv, ReplaceInv, PageInv,
         ChipInv, Serving, Replacing, Erasing, Programming
<1> QED
  BY <1>3, <1>6, <1>7

-----------------------------------------------------------------------------
(* The steps of spi_write.                                                 *)

\* The probe of spi_init touches neither the device nor the request.
LEMMA ProbeInv ==
    ASSUME IInv, spi_probe_serial_flash
    PROVE  IInv'
<1> USE DEF IInv, spi_probe_serial_flash, request, walk, replace, chip
<1>1. TypeOK'
  BY DEF TypeOK
<1>2. RestInv'
  <2>1. Target' = Target
    BY TargetSame
  <2> QED
    BY <2>1 DEF RestInv, Serving, OneSectorAtRisk
<1>3. RequestInv' /\ FirstInv' /\ WholeInv' /\ DoneInv' /\ ReplaceInv' /\ PageInv'
  BY DEF RequestInv, FirstInv, WholeInv, DoneInv, ReplaceInv, PageInv,
         Serving, Replacing, Erasing, Programming
<1>4. ChipInv'
  BY DEF ChipInv
<1> QED
  BY <1>1, <1>2, <1>3, <1>4

\* A call of spi_write is refused untouched or starts at the first block.
LEMMA CallInv ==
    ASSUME IInv, Call
    PROVE  IInv'
<1> USE DEF IInv, request, walk, replace, chip
<1>1. PICK f \in Addr, n \in 0 .. DeviceSize + 1, b \in Buffers : spi_write(f, n, b)
  BY DEF Call
<1>2. /\ first' = f /\ len' = n /\ old' = mem /\ mem' = mem /\ ptr' = f
      /\ sector' = f \div EraseSize /\ busy' = busy /\ pc = "idle"
  BY <1>1 DEF spi_write
<1>3. f \in Nat /\ n \in Nat /\ f < DeviceSize
  BY SizesAssumption DEF Addr
<1>4. /\ pc' \in {"idle", "first"}
      /\ pc' = "idle" => ret' = 0
      /\ pc' = "first" => ret' = NoRet /\ n >= 1 /\ f + n - 1 < deviceSize
  BY <1>1, <1>3 DEF spi_write
<1>5. TypeOK'
  <2>1. calls' \in 0 .. MaxCalls
    BY <1>1, DataAssumption DEF TypeOK, spi_write
  <2>2. ptr' \in 0 .. DeviceSize /\ sector' \in Nat
    BY <1>2, <1>3, SectorBounds, SizesAssumption
  <2>3. ret' \in {NoRet} \cup (0 .. DeviceSize + 1)
    BY <1>4, SizesAssumption
  <2>4. deviceSize' = deviceSize /\ cont' = cont /\ cuts' = cuts /\ buf' = b
        /\ UNCHANGED <<wel, at, latch, base, image, page>>
    BY <1>1 DEF spi_write
  <2> QED
    BY <1>2, <1>4, <2>1, <2>2, <2>3, <2>4 DEF TypeOK
<1>6. RequestInv'
  BY <1>2, <1>3, <1>4, SizesAssumption DEF RequestInv, Serving, TypeOK
<1>7. RestInv'
  <2>1. OneSectorAtRisk'
    BY <1>2, RiskAtEnds DEF OneSectorAtRisk
  <2>2. ASSUME pc' = "idle", ret' = len'
        PROVE  mem' = Target'
    <3>1. len' = 0
      BY <1>4, <2>2
    <3>2. \A a \in Addr : ~(first' <= a /\ a < first' + len')
      BY <1>2, <1>3, <3>1 DEF Addr
    <3>3. Target' = [a \in Addr |-> mem[a]]
      BY <1>2, <3>2 DEF Target
    <3> QED
      BY <1>2, <3>3 DEF TypeOK
  <2> QED
    BY <1>2, <1>4, <2>1, <2>2 DEF RestInv, Serving
<1>8. FirstInv'
  BY <1>2 DEF FirstInv
<1>9. WholeInv' /\ DoneInv' /\ ReplaceInv' /\ PageInv'
  BY <1>4 DEF WholeInv, DoneInv, ReplaceInv, PageInv, Replacing, Erasing, Programming
<1>10. ChipInv'
  BY <1>2, <1>4 DEF ChipInv, TypeOK
<1> QED
  BY <1>5, <1>6, <1>7, <1>8, <1>9, <1>10

\* spi_write returns only when the frontier has passed the request.
LEMMA ReturnInv ==
    ASSUME IInv, Return
    PROVE  IInv'
<1> USE DEF IInv, Return, request, walk, replace, chip
<1>1. mem = Target
  <2>1. CASE pc = "done"
    BY <2>1 DEF DoneInv
  <2>2. CASE pc = "whole"
    <3> DEFINE e == sector * EraseSize
    <3>1. e \in Nat /\ first \in Nat /\ len \in Nat /\ ptr \in Nat
      BY SectorOrder, SizesAssumption DEF TypeOK, Addr
    <3>2. Settled(e, e) /\ PtrAt(e)
      BY <2>2 DEF WholeInv
    <3>3. first + len <= e
      BY <2>2, <3>1, <3>2 DEF PtrAt, last
    <3>4. ASSUME NEW a \in Addr
          PROVE  mem[a] = Target[a]
      <4>1. CASE a < e
        BY <3>2, <4>1 DEF Settled
      <4>2. CASE a >= e
        <5>1. ~(first <= a /\ a < first + len)
          BY <3>1, <3>3, <4>2 DEF Addr
        <5> QED
          BY <3>2, <4>2, <5>1, TargetType DEF Settled
      <4> QED
        BY <3>1, <4>1, <4>2 DEF Addr
    <3> QED
      BY <3>4, TargetType DEF TypeOK
  <2> QED
    BY <2>1, <2>2
<1>2. Target' = Target
  BY TargetSame
<1>3. TypeOK'
  BY DEF TypeOK
<1>4. RestInv'
  <2>1. OneSectorAtRisk'
    BY <1>1, <1>2, RiskAtEnds DEF OneSectorAtRisk
  <2> QED
    BY <1>1, <1>2, <2>1 DEF RestInv
<1>5. RequestInv' /\ FirstInv' /\ WholeInv' /\ DoneInv' /\ ReplaceInv' /\ PageInv'
  BY DEF RequestInv, FirstInv, WholeInv, DoneInv, ReplaceInv, PageInv,
         Serving, Replacing, Erasing, Programming
<1>6. ChipInv'
  BY DEF ChipInv
<1> QED
  BY <1>3, <1>4, <1>5, <1>6

\* The call of my_spi_write for one sector: all below the sector is final, the
\* sector and all above it untouched, and the n bytes from a on are exactly
\* the part of the request that falls into it.
LEMMA StartReplaceInv ==
    ASSUME IInv, pc \in {"first", "whole"},
           NEW a \in Addr, NEW n \in Nat, NEW k \in {"whole", "done"},
           my_spi_write(a, n, k),
           a < first + len,
           UNCHANGED <<chip, deviceSize, request, ret, calls, cuts>>,
           ptr' \in 0 .. DeviceSize, sector' \in Nat,
           Settled(SectorBase(a), SectorBase(a)),
           \A c \in Addr : SectorBase(a) <= c /\ c < SectorBase(a) + EraseSize =>
               (a <= c /\ c < a + n <=> first <= c /\ c < first + len),
           k = "whole" => /\ sector' * EraseSize = SectorBase(a) + EraseSize
                          /\ PtrAt(base + EraseSize)',
           k = "done" => first + len <= SectorBase(a) + EraseSize
    PROVE  IInv'
<1> USE DEF IInv, request, replace, chip
<1> DEFINE e == SectorBase(a)
<1>1. /\ base' = e /\ image' = Merged(a, n) /\ page' = 0 /\ cont' = k
      /\ pc' = "wrenErase"
  BY DEF my_spi_write
<1>2. /\ e \in Nat /\ e % EraseSize = 0 /\ e \in Addr /\ e + EraseSize <= DeviceSize
      /\ e < first + len
  <2>1. a \in Nat /\ a < DeviceSize
    BY SizesAssumption DEF Addr
  <2>2. a \div EraseSize \in Nat /\ e \in Nat /\ e <= a /\ e % EraseSize = 0
    BY <2>1, SectorBounds, SectorOfMultiple DEF SectorBase
  <2>3. e < DeviceSize
    BY <2>1, <2>2, SizesAssumption
  <2>4. e + EraseSize <= DeviceSize
    BY <2>2, <2>3, SectorFits DEF SectorBase
  <2>5. e < first + len
    <3>1. first \in Nat /\ len \in Nat
      BY SizesAssumption DEF TypeOK, Addr
    <3> HIDE DEF e
    <3> QED
      BY <2>1, <2>2, <3>1
  <2> QED
    BY <2>2, <2>3, <2>4, <2>5, SizesAssumption DEF Addr
<1>3. Target' = Target /\ mem' = mem /\ old' = old /\ busy' = busy
  BY TargetSame
<1>4. ASSUME NEW i \in 0 .. EraseSize - 1
      PROVE  image'[i] = Target[e + i] /\ image'[i] \in Cell
  <2>1. e + i \in Addr /\ e <= e + i /\ e + i < e + EraseSize
    BY <1>2, SizesAssumption DEF Addr
  <2>2. image'[i] = IF a <= e + i /\ e + i < a + n THEN buf[(e + i) - first] ELSE mem[e + i]
    BY <1>1 DEF Merged
  <2>3. CASE first <= e + i /\ e + i < first + len
    BY <2>1, <2>2, <2>3, TargetType
  <2>4. CASE ~(first <= e + i /\ e + i < first + len)
    <3>1. mem[e + i] = old[e + i]
      BY <2>1 DEF Settled
    <3> QED
      BY <2>1, <2>2, <2>4, <3>1, TargetType DEF TypeOK
  <2> QED
    BY <2>3, <2>4
<1>5. TypeOK'
  <2>1. image' \in [0 .. EraseSize - 1 -> Cell]
    BY <1>1, <1>4 DEF Merged
  <2>2. 0 \in 0 .. Pages
    BY PageBounds
  <2> QED
    BY <1>1, <1>2, <2>1, <2>2 DEF TypeOK
<1>6. RequestInv' /\ RestInv' /\ FirstInv' /\ WholeInv' /\ DoneInv'
  BY <1>1 DEF RequestInv, RestInv, FirstInv, WholeInv, DoneInv, Serving
<1>7. ReplaceInv'
  <2>1. \A c \in Addr : /\ c < base' => mem'[c] = Target'[c]
                        /\ c >= base' + EraseSize => mem'[c] = old'[c]
    BY <1>1, <1>2, <1>3, SizesAssumption DEF Settled, Addr
  <2>2. Settled(base, base + EraseSize)'
    BY <2>1 DEF Settled
  <2> QED
    BY <1>1, <1>2, <1>3, <1>4, <2>2 DEF ReplaceInv
<1>8. PageInv'
  BY <1>1 DEF PageInv, Erasing, Programming
<1>9. ChipInv'
  BY <1>1, <1>3 DEF ChipInv, TypeOK
<1> QED
  BY <1>5, <1>6, <1>7, <1>8, <1>9

\* The first block: a partial sector is merged, an aligned start skipped.
LEMMA FirstBlockInv ==
    ASSUME IInv, FirstBlock
    PROVE  IInv'
<1> USE DEF IInv, request, walk, replace, chip
<1> DEFINE byte == first % EraseSize
           size == IF len < EraseSize - byte THEN len ELSE EraseSize - byte
           e == SectorBase(first)
<1>1. /\ pc = "first" /\ ptr = first /\ sector = first \div EraseSize /\ mem = old
      /\ len >= 1 /\ first + len <= DeviceSize
  BY DEF FirstBlock, FirstInv, RequestInv, Serving
<1>2. first \in Nat /\ first \in Addr /\ len \in Nat
  BY SizesAssumption DEF TypeOK, Addr
<1>3. /\ sector \in Nat /\ e = sector * EraseSize /\ e \in Nat
      /\ e <= first /\ first < e + EraseSize /\ byte = first - e
  BY <1>1, <1>2, SectorBounds DEF SectorBase
<1>4. Settled(e, e)
  <2>1. ASSUME NEW c \in Addr, c < e
        PROVE  Target[c] = old[c]
    <3>1. ~(first <= c /\ c < first + len)
      BY <1>2, <1>3, <2>1 DEF Addr
    <3> QED
      BY <3>1, TargetType
  <2> QED
    BY <1>1, <2>1 DEF Settled
<1>5. UNCHANGED <<chip, deviceSize, request, ret, calls, cuts>>
  BY DEF FirstBlock
<1>6. CASE byte # 0
  <2>1. my_spi_write(first, size, "whole") /\ sector' = sector + 1 /\ ptr' = ptr + size
    BY <1>6 DEF FirstBlock
  <2>2. size \in Nat /\ size <= len /\ first + size <= e + EraseSize
        /\ (size = len \/ first + size = e + EraseSize)
    BY <1>2, <1>3, SizesAssumption
  <2>3. ptr' \in 0 .. DeviceSize /\ sector' \in Nat
    BY <1>1, <1>2, <1>3, <2>1, <2>2, SizesAssumption
  <2>4. \A c \in Addr : e <= c /\ c < e + EraseSize =>
            (first <= c /\ c < first + size <=> first <= c /\ c < first + len)
    BY <1>2, <1>3, <2>2, SizesAssumption DEF Addr
  <2>5. sector' * EraseSize = e + EraseSize
    BY <1>3, <2>1, SectorOrder
  <2>6. PtrAt(base + EraseSize)'
    <3>1. base' = e /\ first' = first /\ len' = len /\ ptr' = first + size
      BY <1>1, <1>5, <2>1 DEF my_spi_write
    <3>2. CASE first + size = e + EraseSize
      BY <1>2, <2>2, <3>1, <3>2 DEF PtrAt
    <3>3. CASE size = len /\ first + size # e + EraseSize
      BY <1>1, <1>2, <1>3, <2>2, <3>1, <3>3, SizesAssumption DEF PtrAt
    <3> QED
      BY <2>2, <3>2, <3>3
  <2>7. first < first + len
    BY <1>1, <1>2
  <2> HIDE DEF size, byte, e
  <2> QED
    BY <1>1, <1>2, <1>4, <1>5, <2>1, <2>2, <2>3, <2>4, <2>5, <2>6, <2>7, StartReplaceInv DEF e
<1>7. CASE byte = 0
  <2>1. pc' = "whole" /\ UNCHANGED <<walk, replace, cont>>
    BY <1>7 DEF FirstBlock
  <2>2. Target' = Target
    BY <1>5, TargetSame
  <2>3. first = sector * EraseSize
    BY <1>2, <1>3, <1>7
  <2>4. TypeOK'
    BY <1>5, <2>1 DEF TypeOK
  <2>5. RequestInv' /\ RestInv' /\ FirstInv' /\ DoneInv' /\ ReplaceInv' /\ PageInv'
    BY <1>1, <1>5, <2>1 DEF RequestInv, RestInv, FirstInv, DoneInv, ReplaceInv, PageInv,
       Serving, Replacing, Erasing, Programming
  <2>6. WholeInv'
    <3>1. Settled(sector * EraseSize, sector * EraseSize)'
      BY <1>3, <1>4, <1>5, <2>1, <2>2 DEF Settled
    <3>2. PtrAt(sector * EraseSize)'
      BY <1>1, <1>2, <1>5, <2>1, <2>3 DEF PtrAt
    <3>3. (sector * EraseSize <= DeviceSize)'
      BY <1>1, <1>2, <2>1, <2>3, SizesAssumption
    <3> QED
      BY <3>1, <3>2, <3>3 DEF WholeInv
  <2>7. ChipInv'
    BY <1>1, <1>5, <2>1 DEF ChipInv, TypeOK
  <2> QED
    BY <2>4, <2>5, <2>6, <2>7
<1> QED
  BY <1>6, <1>7

\* In the loop over the whole sectors ptr is the start of the next sector as
\* long as some of the request is left.
LEMMA PtrIsSector ==
    ASSUME IInv, pc = "whole", ptr < first + len
    PROVE  /\ ptr = sector * EraseSize /\ ptr \in Addr /\ first <= ptr
           /\ SectorBase(ptr) = ptr
           /\ Settled(ptr, ptr)
<1> USE DEF IInv
<1>1. ptr \in Nat /\ first \in Nat /\ len \in Nat /\ sector \in Nat
  BY SizesAssumption DEF TypeOK, Addr
<1>2. first + len <= DeviceSize
  BY DEF RequestInv, Serving
<1>3. ptr = sector * EraseSize /\ first <= ptr /\ Settled(ptr, ptr)
  BY <1>1 DEF WholeInv, PtrAt
<1>4. ptr \in Addr
  BY <1>1, <1>2, SizesAssumption DEF Addr
<1>5. SectorBase(ptr) = ptr
  BY <1>1, <1>3, SectorOfMultiple DEF SectorBase
<1> QED
  BY <1>3, <1>4, <1>5

\* A whole block is one that the request covers completely.
LEMMA WholeBlockInv ==
    ASSUME IInv, WholeBlock
    PROVE  IInv'
<1> USE DEF IInv, request, walk, replace, chip
<1>1. pc = "whole" /\ first + len <= DeviceSize
  BY DEF WholeBlock, RequestInv, Serving
<1>2. ptr \in Nat /\ first \in Nat /\ len \in Nat /\ sector \in Nat
  BY SizesAssumption DEF TypeOK, Addr
<1>3. sector * EraseSize + EraseSize <= first + len
  <2>1. lsector \in Nat /\ lsector * EraseSize <= first + len /\ lsector * EraseSize \in Nat
    BY <1>2, SectorBounds DEF lsector
  <2>2. sector * EraseSize + EraseSize <= lsector * EraseSize /\ sector * EraseSize \in Nat
    BY <1>2, <2>1, SectorOrder DEF WholeBlock
  <2> QED
    BY <1>2, <2>1, <2>2, SizesAssumption
<1>4. ptr < first + len
  <2>1. PtrAt(sector * EraseSize) /\ sector * EraseSize \in Nat
    BY <1>1, <1>2, SectorOrder DEF WholeInv
  <2> QED
    BY <1>2, <1>3, <2>1, SizesAssumption DEF PtrAt
<1>5. /\ ptr = sector * EraseSize /\ ptr \in Addr /\ first <= ptr
      /\ SectorBase(ptr) = ptr /\ Settled(ptr, ptr)
  BY <1>1, <1>4, PtrIsSector
<1>6. /\ my_spi_write(ptr, EraseSize, "whole") /\ sector' = sector + 1
      /\ ptr' = ptr + EraseSize
      /\ UNCHANGED <<chip, deviceSize, request, ret, calls, cuts>>
  BY DEF WholeBlock
<1>7. ptr' \in 0 .. DeviceSize /\ sector' \in Nat
  BY <1>1, <1>2, <1>3, <1>5, <1>6, SizesAssumption
<1>8. \A c \in Addr : ptr <= c /\ c < ptr + EraseSize =>
          (ptr <= c /\ c < ptr + EraseSize <=> first <= c /\ c < first + len)
  BY <1>2, <1>3, <1>5, SizesAssumption DEF Addr
<1>9. sector' * EraseSize = ptr + EraseSize
  BY <1>2, <1>5, <1>6, SectorOrder
<1>10. PtrAt(base + EraseSize)'
  <2>1. base' = ptr /\ first' = first /\ len' = len
    BY <1>5, <1>6 DEF my_spi_write
  <2> QED
    BY <1>2, <1>3, <1>5, <1>6, <2>1, SizesAssumption DEF PtrAt
<1>11. EraseSize \in Nat
  BY SizesAssumption
<1> QED
  BY <1>1, <1>4, <1>5, <1>6, <1>7, <1>8, <1>9, <1>10, <1>11, StartReplaceInv

\* The tail block is the last sector the request reaches.
LEMMA TailBlockInv ==
    ASSUME IInv, TailBlock
    PROVE  IInv'
<1> USE DEF IInv, request, walk, replace, chip
<1>1. pc = "whole" /\ first + len <= DeviceSize
  BY DEF TailBlock, RequestInv, Serving
<1>2. ptr \in Nat /\ first \in Nat /\ len \in Nat /\ sector \in Nat
  BY SizesAssumption DEF TypeOK, Addr
<1>3. ptr < first + len
  BY <1>2 DEF TailBlock, last
<1>4. /\ ptr = sector * EraseSize /\ ptr \in Addr /\ first <= ptr
      /\ SectorBase(ptr) = ptr /\ Settled(ptr, ptr)
  BY <1>1, <1>3, PtrIsSector
<1>5. first + len <= ptr + EraseSize
  <2>1. lsector \in Nat /\ first + len < lsector * EraseSize + EraseSize
        /\ lsector * EraseSize \in Nat
    BY <1>2, SectorBounds DEF lsector
  <2>2. lsector * EraseSize <= sector * EraseSize /\ sector * EraseSize \in Nat
    BY <1>2, <2>1, SectorOrder DEF TailBlock
  <2> QED
    BY <1>2, <1>4, <2>1, <2>2, SizesAssumption
<1> DEFINE n == last - ptr + 1
<1>6. n \in Nat /\ ptr + n = first + len
  BY <1>2, <1>3 DEF last
<1>7. /\ my_spi_write(ptr, n, "done") /\ sector' = sector /\ ptr' = ptr
      /\ UNCHANGED <<chip, deviceSize, request, ret, calls, cuts>>
  BY DEF TailBlock
<1>8. ptr' \in 0 .. DeviceSize /\ sector' \in Nat
  BY <1>2, <1>7 DEF TypeOK
<1>9. \A c \in Addr : ptr <= c /\ c < ptr + EraseSize =>
          (ptr <= c /\ c < ptr + n <=> first <= c /\ c < first + len)
  BY <1>2, <1>4, <1>6 DEF Addr
<1> HIDE DEF n
<1> QED
  BY <1>1, <1>3, <1>4, <1>5, <1>6, <1>7, <1>8, <1>9, StartReplaceInv

-----------------------------------------------------------------------------
(* The theorems.                                                           *)

\* Every step of the driver, the device and the power supply preserves IInv.
LEMMA NextInv ==
    ASSUME ChipErase = EraseSize, IInv, [Next]_vars
    PROVE  IInv'
<1>1. CASE spi_probe_serial_flash
  BY <1>1, ProbeInv
<1>2. CASE Call
  BY <1>2, CallInv
<1>3. CASE FirstBlock
  BY <1>3, FirstBlockInv
<1>4. CASE WholeBlock
  BY <1>4, WholeBlockInv
<1>5. CASE TailBlock
  BY <1>5, TailBlockInv
<1>6. CASE Return
  BY <1>6, ReturnInv
<1>7. CASE Wren
  BY <1>7, WrenInv
<1>8. CASE SectorErase
  BY <1>8, SectorEraseInv
<1>9. CASE WaitErase
  BY <1>9, WaitEraseInv
<1>10. CASE PageProgram
  BY <1>10, PageProgramInv
<1>11. CASE WaitPage
  BY <1>11, WaitPageInv
<1>12. CASE ChipDone
  BY <1>12, EraseDoneInv, ProgramDoneInv DEF ChipDone, IInv, TypeOK
<1>13. CASE PowerLoss
  BY <1>13, PowerLossInv
<1>14. CASE UNCHANGED vars
  <2>1. Target' = Target
    BY <1>14, TargetSame DEF vars
  <2> QED
    BY <1>14, <2>1 DEF vars, chip, request, walk, replace, IInv, TypeOK, RequestInv,
       RestInv, OneSectorAtRisk, FirstInv, WholeInv, DoneInv, ReplaceInv, Settled, PtrAt,
       PageInv, Programmed, ChipInv, Serving, Replacing, Erasing, Programming
<1> QED
  BY <1>1, <1>2, <1>3, <1>4, <1>5, <1>6, <1>7, <1>8, <1>9, <1>10, <1>11, <1>12,
     <1>13, <1>14 DEF Next, DriverStep

\* The inductive invariant holds in every reachable state.
THEOREM Invariance ==
    ASSUME ChipErase = EraseSize
    PROVE  Spec => []IInv
<1>1. IInv /\ [Next]_vars => IInv'
  BY NextInv
<1> QED
  BY <1>1, InitInv, PTL DEF Spec

\* The driver's and the device's state stay within their types: no address,
\* page number or length of spi_write and my_spi_write leaves its range.
THEOREM TypeCorrect ==
    ASSUME ChipErase = EraseSize
    PROVE  Spec => []TypeOK
<1>1. IInv => TypeOK
  BY DEF IInv
<1> QED
  BY <1>1, Invariance, PTL

\* When spi_write has returned, the device holds exactly the merge of the old
\* contents and the request, for every first sector, run of whole sectors and
\* tail the request can have; a refused call changes nothing.
THEOREM WriteCorrect ==
    ASSUME ChipErase = EraseSize
    PROVE  Spec => []WriteIsMerge
<1>1. IInv => WriteIsMerge
  BY DEF IInv, RestInv, WriteIsMerge, Serving
<1> QED
  BY <1>1, Invariance, PTL

\* Whenever the power fails, at most the erase sector my_spi_write is replacing
\* is lost: all below it is final and all above it is intact.
THEOREM PowerLossBounded ==
    ASSUME ChipErase = EraseSize
    PROVE  Spec => []OneSectorAtRisk
<1>1. IInv => OneSectorAtRisk
  BY RiskBounded
<1> QED
  BY <1>1, Invariance, PTL

\* my_spi_write programs a page only while the device holds it erased.
THEOREM PagesErased ==
    ASSUME ChipErase = EraseSize
    PROVE  Spec => []ProgramsErasedPages
<1>1. ASSUME IInv, busy = "program", NEW i \in 0 .. PageSize - 1
      PROVE  mem[at + i] = Erased
  <2> DEFINE p == page * PageSize
  <2>1. pc = "waitPage" /\ at = base + p
    BY <1>1 DEF IInv, ChipInv
  <2>2. p \in Nat /\ p + i \in 0 .. EraseSize - 1 /\ base \in Nat
    <3>1. Programming
      BY <2>1 DEF Programming
    <3>2. p \in Nat /\ p + i \in 0 .. EraseSize - 1
      BY <1>1, <3>1, PageInside
    <3>3. base \in Nat
      BY <1>1, SizesAssumption DEF IInv, TypeOK, Addr
    <3> QED
      BY <3>2, <3>3
  <2>3. mem[base + (p + i)] = Erased
    BY <1>1, <2>1, <2>2 DEF IInv, PageInv, Programming, Programmed
  <2>4. at + i = base + (p + i)
    BY <2>1, <2>2
  <2> QED
    BY <2>3, <2>4
<1>2. IInv => ProgramsErasedPages
  BY <1>1 DEF ProgramsErasedPages
<1> QED
  BY <1>2, Invariance, PTL

\* The device accepts every erase and program command my_spi_write sends: the
\* polling of SR_WIP and the WREN before each of them are sufficient.
THEOREM CommandsAccepted ==
    ASSUME ChipErase = EraseSize
    PROVE  Spec => NoCommandIgnored
<1> DEFINE Obeyed ==
      /\ pc = "erase" /\ pc' = "waitErase" => busy' = "erase" /\ at' = base
      /\ pc = "program" /\ pc' = "waitPage" =>
            busy' = "program" /\ at' = base + page * PageSize
<1>1. IInv /\ [Next]_vars => [Obeyed]_vars
  <2> SUFFICES ASSUME IInv, [Next]_vars, ~UNCHANGED vars PROVE Obeyed
    OBVIOUS
  <2>1. CASE pc \notin {"erase", "program"}
    BY <2>1
  <2>2. CASE pc \in {"erase", "program"}
    <3>1. Accepts
      BY <2>2 DEF IInv, ChipInv, TypeOK, Accepts
    <3>2. SectorErase \/ PageProgram \/ PowerLoss
      BY <2>2, <3>1 DEF Next, DriverStep, spi_probe_serial_flash, Call, spi_write,
         FirstBlock, WholeBlock, TailBlock, Return, Wren, WaitErase, WaitPage, ChipDone, Accepts
    <3> QED
      BY <2>2, <3>1, <3>2 DEF SectorErase, PageProgram, PowerLoss
  <2> QED
    BY <2>1, <2>2
<1> QED
  BY <1>1, Invariance, PTL DEF Spec, NoCommandIgnored
=============================================================================
