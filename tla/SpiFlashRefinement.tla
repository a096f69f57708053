------------------------- MODULE SpiFlashRefinement -------------------------
(***************************************************************************)
(* Proof that SpiFlash implements FlashStore for every geometry, buffer    *)
(* and bound, for devices whose sector erase covers what the driver takes  *)
(* it to cover: erases, page programs and waits are stuttering steps, and  *)
(* the last page of a sector replaces it in the abstract store.            *)
(***************************************************************************)
EXTENDS SpiFlashProofs

\* The request as far as it has been served.
Progress == [a \in Addr |-> IF a < Frontier THEN Target[a] ELSE old[a]]

\* What the refinement mapping shows in the states of IInv.
MapInv ==
    /\ ~Serving => StableMem = mem /\ Frontier = 0
    /\ Serving => StableMem = Progress /\ Frontier \in Nat
    /\ pc = "first" => Frontier = SectorBase(first)
    /\ pc = "whole" => Frontier = sector * EraseSize
    /\ pc = "done" => Frontier = base + EraseSize
    /\ Replacing => Frontier = base

-----------------------------------------------------------------------------
\* Rounding an address up to the next sector boundary.
LEMMA RoundUp ==
    ASSUME NEW p \in Nat, NEW y \in Nat,
           y * EraseSize <= p + EraseSize - 1, p < y * EraseSize + 1
    PROVE  SectorBase(p + EraseSize - 1) = y * EraseSize
<1> DEFINE n == p + EraseSize - 1
           q == n \div EraseSize
<1>1. n \in Nat
  BY SizesAssumption
<1>2. q \in Nat /\ q * EraseSize \in Nat /\ q * EraseSize <= n /\ n < q * EraseSize + EraseSize
  BY <1>1, SectorBounds
<1>3. y * EraseSize \in Nat /\ n < y * EraseSize + EraseSize
  BY SectorOrder, SizesAssumption
<1> HIDE DEF q, n
<1>4. ~(q < y)
  <2>1. q < y => q * EraseSize + EraseSize <= y * EraseSize
    BY <1>2, SectorOrder
  <2> QED
    BY <1>1, <1>2, <1>3, <2>1, SizesAssumption DEF n
<1>5. ~(y < q)
  <2>1. y < q => y * EraseSize + EraseSize <= q * EraseSize
    BY <1>2, SectorOrder
  <2> QED
    BY <1>1, <1>2, <1>3, <2>1, SizesAssumption
<1>6. q = y
  BY <1>2, <1>4, <1>5
<1> QED
  BY <1>6 DEF SectorBase, q, n

\* The frontier at each control point of spi_write.
LEMMA FrontierAt ==
    /\ pc = "first" => Frontier = SectorBase(first)
    /\ pc = "whole" => Frontier = SectorBase(ptr + EraseSize - 1)
    /\ pc = "done" => Frontier = base + EraseSize
    /\ Replacing => Frontier = base
    /\ ~Serving => Frontier = 0
<1>1. CASE pc = "first"
  BY <1>1 DEF Frontier, Replacing, Serving
<1>2. CASE pc = "whole"
  BY <1>2 DEF Frontier, Replacing, Serving
<1>3. CASE pc = "done"
  BY <1>3 DEF Frontier, Replacing, Serving
<1>4. CASE Replacing
  BY <1>4 DEF Frontier, Replacing, Serving
<1>5. CASE ~Serving
  BY <1>5 DEF Frontier, Replacing, Serving
<1> QED
  BY <1>1, <1>2, <1>3, <1>4, <1>5

\* The invariant of SpiFlash determines what the mapping shows.
LEMMA MapInvariant ==
    IInv => MapInv
<1> SUFFICES ASSUME IInv PROVE MapInv
  OBVIOUS
<1> USE DEF IInv
<1>1. mem \in [Addr -> Cell] /\ first \in Nat /\ len \in Nat /\ ptr \in Nat /\ base \in Nat
      /\ sector \in Nat
  BY SizesAssumption DEF TypeOK, Addr
<1>2. ASSUME ~Serving PROVE StableMem = mem
  BY <1>1, <1>2 DEF StableMem, Serving, Replacing
<1>3. ASSUME pc = "whole" PROVE Frontier = sector * EraseSize /\ Frontier \in Nat
  <2> DEFINE f == sector * EraseSize
  <2>1. f \in Nat /\ PtrAt(f)
    BY <1>1, <1>3, SectorOrder DEF WholeInv
  <2>2. f <= ptr + EraseSize - 1 /\ ptr < f + 1
    BY <1>1, <2>1, SizesAssumption DEF PtrAt
  <2>3. Frontier = SectorBase(ptr + EraseSize - 1)
    BY <1>3, FrontierAt
  <2> QED
    BY <1>1, <2>1, <2>2, <2>3, RoundUp
<1>4. ASSUME pc = "first" PROVE StableMem = Progress /\ Frontier \in Nat
  <2>1. Frontier = SectorBase(first) /\ Frontier \in Nat /\ Frontier <= first
    BY <1>1, <1>4, FrontierAt, SectorBounds DEF SectorBase
  <2>2. mem = old /\ ~Replacing
    BY <1>4 DEF FirstInv, Replacing
  <2>3. ASSUME NEW a \in Addr, a < Frontier PROVE Target[a] = old[a]
    <3>1. ~(first <= a /\ a < first + len)
      BY <1>1, <2>1, <2>3 DEF Addr
    <3> QED
      BY <3>1, TargetType
  <2> QED
    BY <2>1, <2>2, <2>3 DEF StableMem, Progress
<1>5. ASSUME pc = "whole" PROVE StableMem = Progress
  <2>1. Settled(Frontier, Frontier) /\ Frontier \in Nat /\ ~Replacing
    BY <1>3, <1>5 DEF WholeInv, Replacing
  <2>2. \A a \in Addr : a < Frontier \/ a >= Frontier
    BY <2>1 DEF Addr
  <2> QED
    BY <2>1, <2>2 DEF StableMem, Progress, Settled
<1>6. ASSUME pc = "done" PROVE StableMem = Progress /\ Frontier \in Nat
  <2>1. Frontier = base + EraseSize /\ Frontier \in Nat /\ ~Replacing
    BY <1>1, <1>6, FrontierAt, SizesAssumption DEF Replacing
  <2>2. mem = Target /\ first + len <= Frontier
    BY <1>6, <2>1 DEF DoneInv
  <2>3. ASSUME NEW a \in Addr, ~(a < Frontier) PROVE Target[a] = old[a]
    <3>1. ~(first <= a /\ a < first + len)
      BY <1>1, <2>1, <2>2, <2>3 DEF Addr
    <3> QED
      BY <3>1, TargetType
  <2> QED
    BY <2>1, <2>2, <2>3 DEF StableMem, Progress
<1>7. ASSUME Replacing PROVE StableMem = Progress /\ Frontier \in Nat
  <2>1. Frontier = base /\ Settled(base, base + EraseSize)
    BY <1>7, FrontierAt DEF ReplaceInv
  <2>2. ASSUME NEW a \in Addr
        PROVE  (IF base <= a /\ a < base + EraseSize THEN old[a] ELSE mem[a])
                   = IF a < base THEN Target[a] ELSE old[a]
    <3>1. a < base \/ (base <= a /\ a < base + EraseSize) \/ a >= base + EraseSize
      BY <1>1, SizesAssumption DEF Addr
    <3>2. a < base => ~(base <= a)
      BY <1>1 DEF Addr
    <3>3. a >= base + EraseSize => ~(a < base) /\ ~(a < base + EraseSize)
      BY <1>1, SizesAssumption DEF Addr
    <3> QED
      BY <2>1, <3>1, <3>2, <3>3 DEF Settled
  <2> QED
    BY <1>1, <1>7, <2>1, <2>2 DEF StableMem, Progress
<1>8. pc \in {"off", "idle", "first", "whole", "done"} \/ Replacing
  BY DEF TypeOK, Replacing
<1> QED
  BY <1>2, <1>3, <1>4, <1>5, <1>6, <1>7, <1>8, FrontierAt DEF MapInv, Serving, Replacing

-----------------------------------------------------------------------------
\* While a request is served, a step that moves neither the request nor the
\* frontier is invisible in the store.
LEMMA Stutter ==
    ASSUME MapInv, MapInv', Serving, Serving', UNCHANGED request, ret' = ret,
           Frontier' = Frontier
    PROVE  UNCHANGED Store!storeVars
<1>1. Target' = Target /\ old' = old /\ first' = first /\ len' = len
  BY TargetSame DEF request
<1>2. Progress' = Progress
  BY <1>1 DEF Progress
<1>3. StableMem' = StableMem
  BY <1>2 DEF MapInv
<1>4. Serving' = Serving /\ Reply' = Reply
  BY DEF Serving, Reply
<1> QED
  BY <1>1, <1>3, <1>4 DEF Store!storeVars

\* The device and the pages of a sector work behind the frontier.
LEMMA DeviceStep ==
    ASSUME MapInv, MapInv', Replacing, Replacing', UNCHANGED request,
           ret' = ret, base' = base
    PROVE  UNCHANGED Store!storeVars
<1>1. Serving /\ Serving'
  BY DEF Serving, Replacing
<1>2. Frontier' = Frontier
  BY DEF MapInv
<1> QED
  BY <1>1, <1>2, Stutter

\* The start of a sector: its merge in RAM changes nothing in the device.
LEMMA BlockStep ==
    ASSUME IInv, MapInv, MapInv', FirstBlock \/ WholeBlock \/ TailBlock
    PROVE  UNCHANGED Store!storeVars
<1> USE DEF IInv
<1>1. UNCHANGED request /\ ret' = ret
  BY DEF FirstBlock, WholeBlock, TailBlock
<1>2. first \in Nat /\ len \in Nat /\ ptr \in Nat /\ sector \in Nat
  BY SizesAssumption DEF TypeOK, Addr
<1>3. Serving /\ Serving'
  BY DEF FirstBlock, WholeBlock, TailBlock, my_spi_write, Serving
<1>4. CASE FirstBlock
  <2>1. pc = "first" /\ sector = first \div EraseSize /\ Frontier = SectorBase(first)
    BY <1>4 DEF FirstBlock, FirstInv, MapInv
  <2>2. CASE first % EraseSize # 0
    <3>1. Replacing' /\ base' = SectorBase(first)
      BY <1>4, <2>2 DEF FirstBlock, my_spi_write, Replacing
    <3> QED
      BY <1>1, <1>3, <2>1, <3>1, Stutter DEF MapInv
  <2>3. CASE first % EraseSize = 0
    <3>1. pc' = "whole" /\ sector' = sector
      BY <1>4, <2>3 DEF FirstBlock, walk
    <3>2. Frontier' = Frontier
      BY <2>1, <3>1 DEF MapInv, SectorBase
    <3> QED
      BY <1>1, <1>3, <3>2, Stutter
  <2> QED
    BY <2>2, <2>3
<1>5. CASE WholeBlock \/ TailBlock
  <2>1. pc = "whole" /\ ptr < first + len
    <3>1. CASE WholeBlock
      <4>1. pc = "whole" /\ sector < lsector
        BY <3>1 DEF WholeBlock
      <4>2. lsector \in Nat /\ lsector * EraseSize \in Nat /\ lsector * EraseSize <= first + len
        BY <1>2, SectorBounds DEF lsector
      <4>3. sector * EraseSize \in Nat /\ sector * EraseSize + EraseSize <= lsector * EraseSize
        BY <1>2, <4>1, <4>2, SectorOrder
      <4>4. ptr <= sector * EraseSize
        BY <1>2, <4>1, <4>3 DEF WholeInv, PtrAt
      <4> QED
        BY <1>2, <4>1, <4>2, <4>3, <4>4, SizesAssumption
    <3>2. CASE TailBlock
      BY <1>2, <3>2 DEF TailBlock, last
    <3> QED
      BY <1>5, <3>1, <3>2
  <2>2. ptr = sector * EraseSize /\ SectorBase(ptr) = ptr
    BY <2>1, PtrIsSector
  <2>3. Replacing' /\ base' = SectorBase(ptr)
    BY <1>5 DEF WholeBlock, TailBlock, my_spi_write, Replacing
  <2>4. Frontier' = Frontier
    BY <2>1, <2>2, <2>3 DEF MapInv
  <2> QED
    BY <1>1, <1>3, <2>4, Stutter
<1> QED
  BY <1>4, <1>5

-----------------------------------------------------------------------------
(* The steps a caller can see.                                             *)

\* A call is refused or starts a request at the sector of its first byte.
LEMMA CallStep ==
    ASSUME IInv, MapInv, MapInv', Call
    PROVE  Store!StoreNext
<1> USE DEF IInv
<1>1. PICK f \in Addr, n \in 0 .. DeviceSize + 1, b \in Buffers : spi_write(f, n, b)
  BY DEF Call
<1>2. /\ ~Serving /\ mem' = mem /\ old' = mem /\ first' = f /\ len' = n /\ buf' = b
      /\ StableMem = mem /\ Frontier = 0 /\ mem \in [Addr -> Cell]
      /\ f \in Nat /\ n \in Nat /\ DeviceSize \in Nat
  BY <1>1, SizesAssumption DEF spi_write, Serving, MapInv, chip, TypeOK, Addr
<1>3. CASE pc' = "idle"
  <2>1. ~Serving' /\ StableMem' = mem /\ Frontier' = 0
    BY <1>2, <1>3 DEF Serving, MapInv
  <2>2. ret' = 0
    BY <1>1, <1>2, <1>3 DEF spi_write
  <2>3. Reply' = "refused"
    BY <2>2 DEF Reply, NoRet
  <2>4. Serving' = Serving
    BY <1>2, <2>1 DEF Serving
  <2>5. Store!Refuse
    BY <1>2, <2>1, <2>3, <2>4 DEF Store!Refuse
  <2> QED
    BY <2>5 DEF Store!StoreNext
<1>4. CASE pc' # "idle"
  <2>1. n >= 1 /\ f + n - 1 < deviceSize /\ ret' = NoRet /\ pc' = "first"
    BY <1>1, <1>4 DEF spi_write
  <2>2. n \in 1 .. DeviceSize /\ f + n <= DeviceSize
    BY <1>2, <2>1 DEF TypeOK
  <2>3. Serving' /\ Frontier' = SectorBase(first)'
    BY <2>1 DEF Serving, MapInv
  <2>4. Frontier' = (f \div EraseSize) * EraseSize
    BY <1>2, <2>3 DEF SectorBase
  <2>5. Reply' = "none"
    BY <2>1 DEF Reply
  <2>6. Target' = [a \in Addr |-> IF f <= a /\ a < f + n THEN b[a - f] ELSE mem[a]]
    BY <1>2 DEF Target
  <2>7. StableMem' = mem
    <3>1. ~Replacing'
      BY <2>1 DEF Replacing
    <3> QED
      BY <1>2, <3>1 DEF StableMem
  <2>8. Store!Start(f, n, b)
    BY <1>2, <2>1, <2>2, <2>3, <2>4, <2>5, <2>6, <2>7 DEF Store!Start, Store!StoreAddr, Addr
  <2> QED
    BY <1>1, <2>2, <2>8 DEF Store!StoreNext, Store!StoreAddr, Addr
<1> QED
  BY <1>3, <1>4

\* The wait for a page: unseen, but the last page completes the sector.
LEMMA WaitPageStep ==
    ASSUME IInv, MapInv, MapInv', WaitPage
    PROVE  Store!Replace \/ UNCHANGED Store!storeVars
<1> USE DEF IInv
<1>1. /\ Replacing /\ UNCHANGED request /\ ret' = ret /\ base' = base /\ sector' = sector
      /\ pc' = IF page + 1 < Pages THEN "wrenPage" ELSE cont
  BY DEF WaitPage, Replacing, walk
<1>2. CASE page + 1 < Pages
  <2>1. Replacing'
    BY <1>1, <1>2 DEF Replacing
  <2> QED
    BY <1>1, <2>1, DeviceStep
<1>3. CASE ~(page + 1 < Pages)
  <2>1. base \in Nat /\ first \in Nat /\ len \in Nat
    BY SizesAssumption DEF TypeOK, Addr
  <2>2. Frontier = base /\ base < first + len
    BY <1>1 DEF MapInv, ReplaceInv
  <2>3. pc' \in {"whole", "done"} /\ Frontier' = base + EraseSize
    BY <1>1, <1>3 DEF MapInv, TypeOK, ReplaceInv
  <2>4. Serving /\ Serving'
    BY <1>1, <2>3 DEF Serving, Replacing
  <2>5. Target' = Target /\ old' = old /\ first' = first /\ len' = len
    BY <1>1, TargetSame DEF request
  <2>6. Reply' = Reply
    BY <1>1 DEF Reply
  <2>7. StableMem = [a \in Addr |-> IF a < base THEN Target[a] ELSE old[a]]
    BY <2>2, <2>4 DEF MapInv, Progress
  <2>8. StableMem' = [a \in Addr |-> IF a < base + EraseSize THEN Target[a] ELSE old[a]]
    BY <2>3, <2>4, <2>5 DEF MapInv, Progress
  <2>9. ASSUME NEW a \in Addr
        PROVE  StableMem'[a] = IF base <= a /\ a < base + EraseSize
                               THEN Target[a] ELSE StableMem[a]
    <3>1. a < base => a < base + EraseSize
      BY <2>1, SizesAssumption DEF Addr
    <3>2. ~(base <= a) <=> a < base
      BY <2>1 DEF Addr
    <3> QED
      BY <2>7, <2>8, <3>1, <3>2
  <2>10. StableMem' = [a \in Addr |-> IF base <= a /\ a < base + EraseSize
                                       THEN Target[a] ELSE StableMem[a]]
    BY <2>8, <2>9
  <2>11. Store!Replace
    BY <2>2, <2>3, <2>4, <2>5, <2>6, <2>10
       DEF Store!Replace, Store!StoreAddr, Store!NextSector, Addr
  <2> QED
    BY <2>11
<1> QED
  BY <1>2, <1>3

\* The return: the whole request lies below the frontier.
LEMMA ReturnStep ==
    ASSUME IInv, MapInv, MapInv', Return
    PROVE  Store!Finish
<1> USE DEF IInv
<1>1. /\ pc \in {"whole", "done"} /\ pc' = "idle" /\ ret' = len /\ mem' = mem
      /\ pc = "whole" => ptr > last
  BY DEF Return, chip
<1>2. Serving /\ ~Serving' /\ ~Replacing
  BY <1>1 DEF Serving, Replacing
<1>3. first \in Nat /\ len \in Nat /\ ptr \in Nat /\ base \in Nat /\ sector \in Nat /\ len >= 1
  BY <1>2, SizesAssumption DEF TypeOK, Addr, RequestInv
<1>4. first + len <= Frontier
  <2>1. CASE pc = "whole"
    <3>1. Frontier = sector * EraseSize /\ Frontier \in Nat /\ ptr >= first + len
      BY <1>1, <1>2, <1>3, <2>1 DEF MapInv, last
    <3> QED
      BY <1>3, <2>1, <3>1 DEF WholeInv, PtrAt
  <2>2. CASE pc = "done"
    BY <2>2 DEF DoneInv, MapInv
  <2> QED
    BY <1>1, <2>1, <2>2
<1>5. StableMem = mem /\ StableMem' = mem /\ Frontier' = 0
  <2>1. mem \in [Addr -> Cell]
    BY DEF TypeOK
  <2> QED
    BY <1>1, <1>2, <2>1 DEF StableMem, MapInv
<1>6. Reply' = "done"
  BY <1>1, <1>3 DEF Reply, NoRet
<1>7. Frontier >= first + len
  BY <1>2, <1>3, <1>4 DEF MapInv
<1> QED
  BY <1>2, <1>5, <1>6, <1>7 DEF Store!Finish, Store!Rest

\* A power loss abandons the request; it spoils at most the sector at the
\* frontier, and only while that sector is being replaced.
LEMMA PowerLossStep ==
    ASSUME ChipErase = EraseSize, IInv, IInv', MapInv, MapInv', PowerLoss
    PROVE  Store!Crash \/ UNCHANGED Store!storeVars
<1> USE DEF IInv
<1>1. ~Serving' /\ Reply' = Reply
  BY DEF PowerLoss, Serving, Reply
<1>2. StableMem' = mem' /\ mem' \in [Addr -> Cell] /\ Frontier' = 0
  BY <1>1 DEF MapInv, TypeOK
<1>3. mem \in [Addr -> Cell] /\ base \in Nat /\ first \in Nat /\ len \in Nat
  BY SizesAssumption DEF TypeOK, Addr
<1>4. busy = "no" => mem' = mem
  BY <1>3 DEF PowerLoss
<1>5. busy # "no" => Replacing
  BY DEF ChipInv, TypeOK, Replacing
<1>6. CASE ~Serving
  <2>1. mem' = mem /\ Serving' = Serving
    BY <1>1, <1>4, <1>5, <1>6 DEF Serving, Replacing
  <2>2. StableMem = mem /\ Frontier = 0
    BY <1>6 DEF MapInv
  <2> QED
    BY <1>1, <1>2, <1>6, <2>1, <2>2 DEF Store!storeVars
<1>7. CASE Serving
  <2>1. ASSUME NEW a \in Addr, ~(Frontier <= a /\ a < Frontier + EraseSize) \/ Frontier >= first + len
        PROVE  mem'[a] = StableMem[a]
    <3>1. CASE Replacing
      <4>1. Frontier = base /\ base < first + len
        BY <3>1 DEF MapInv, ReplaceInv
      <4>2. ~(base <= a /\ a < base + EraseSize)
        BY <1>3, <2>1, <4>1
      <4>3. StableMem[a] = mem[a]
        BY <4>2 DEF StableMem
      <4>4. a < base \/ a >= base + EraseSize
        BY <1>3, <4>2, SizesAssumption DEF Addr
      <4>5. mem'[a] = mem[a]
        BY <1>4, <4>4, PowerLossOutside
      <4> QED
        BY <4>3, <4>5
    <3>2. CASE ~Replacing
      BY <1>4, <1>5, <3>2 DEF StableMem
    <3> QED
      BY <3>1, <3>2
  <2>2. Store!Crash
    BY <1>1, <1>2, <1>7, <2>1 DEF Store!Crash, Store!Rest, Store!StoreAddr, Store!NextSector, Addr
  <2> QED
    BY <2>2
<1> QED
  BY <1>6, <1>7

-----------------------------------------------------------------------------
\* Every step of the driver, the device and the power supply is a step of the
\* store or invisible in it.
LEMMA StoreStep ==
    ASSUME ChipErase = EraseSize, IInv, IInv', MapInv, MapInv', [Next]_vars
    PROVE  [Store!StoreNext]_(Store!storeVars)
<1>1. CASE spi_probe_serial_flash
  <2>1. /\ ~Serving /\ ~Serving' /\ Serving' = Serving /\ mem' = mem /\ Reply' = Reply
    BY <1>1 DEF spi_probe_serial_flash, Serving, Reply, chip
  <2> QED
    BY <2>1 DEF MapInv, Store!storeVars
<1>2. CASE Call
  BY <1>2, CallStep
<1>3. CASE FirstBlock \/ WholeBlock \/ TailBlock
  BY <1>3, BlockStep
<1>4. CASE Return
  BY <1>4, ReturnStep DEF Store!StoreNext
<1>5. CASE Wren \/ SectorErase \/ WaitErase \/ PageProgram
  <2>1. Replacing /\ Replacing' /\ UNCHANGED request /\ ret' = ret /\ base' = base
    BY <1>5 DEF Wren, SectorErase, WaitErase, PageProgram, Replacing, replace
  <2> QED
    BY <2>1, DeviceStep
<1>6. CASE WaitPage
  BY <1>6, WaitPageStep DEF Store!StoreNext
<1>7. CASE ChipDone
  <2>1. Replacing /\ Replacing' /\ UNCHANGED request /\ ret' = ret /\ base' = base
    BY <1>7 DEF ChipDone, ChipInv, IInv, TypeOK, Replacing, replace
  <2> QED
    BY <2>1, DeviceStep
<1>8. CASE PowerLoss
  BY <1>8, PowerLossStep DEF Store!StoreNext
<1>9. CASE UNCHANGED vars
  <2>1. /\ UNCHANGED request /\ ret' = ret /\ pc' = pc /\ ptr' = ptr /\ base' = base
        /\ sector' = sector /\ mem' = mem
    BY <1>9 DEF vars, walk, replace, chip
  <2>2. Serving' = Serving /\ Reply' = Reply /\ Replacing' = Replacing
    BY <2>1 DEF Serving, Reply, Replacing
  <2>3. CASE ~Serving
    BY <2>1, <2>2, <2>3 DEF MapInv, Store!storeVars
  <2>4. CASE Serving
    <3>1. pc \in {"first", "whole", "done"} \/ Replacing
      BY <2>4 DEF IInv, TypeOK, Serving, Replacing
    <3>2. Frontier' = Frontier
      BY <2>1, <2>2, <3>1 DEF MapInv, SectorBase, request
    <3> QED
      BY <2>1, <2>2, <2>4, <3>2, Stutter
  <2> QED
    BY <2>3, <2>4
<1> QED
  BY <1>1, <1>2, <1>3, <1>4, <1>5, <1>6, <1>7, <1>8, <1>9 DEF Next, DriverStep

\* A device at power-up is a store without a request.
LEMMA StoreStart ==
    Init => Store!StoreInit
<1> SUFFICES ASSUME Init PROVE Store!StoreInit
  OBVIOUS
<1>1. ~Serving /\ Reply = "none"
  BY DEF Init, Serving, Reply
<1>2. Frontier = 0
  BY <1>1, FrontierAt
<1> QED
  BY <1>1, <1>2 DEF Store!StoreInit

\* spi_write is sector-atomic for every geometry, buffer and bound: seen
\* through StableMem and Frontier, every behaviour of the driver and the
\* device, power losses included, is one of FlashStore.
THEOREM SectorAtomic ==
    ASSUME ChipErase = EraseSize
    PROVE  Spec => ImplementsFlashStore
<1>1. IInv /\ IInv' /\ MapInv /\ MapInv' /\ [Next]_vars
          => [Store!StoreNext]_(Store!storeVars)
  BY StoreStep
<1> QED
  BY <1>1, StoreStart, Invariance, MapInvariant, PTL
     DEF Spec, ImplementsFlashStore, Store!StoreSpec
=============================================================================
