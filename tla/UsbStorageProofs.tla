-------------------------- MODULE UsbStorageProofs --------------------------
(***************************************************************************)
(* Proofs about UsbStorage for every bus, every size of the tables and of  *)
(* the sticks, and every number of retries.                                *)
(***************************************************************************)
EXTENDS UsbStorage, SequenceTheorems, TLAPS

Scanning == {"scan", "inquiry", "ready", "capacity"}
Commands == {"tur", "tursense", "read", "readsense"}

-----------------------------------------------------------------------------
(* The inductive invariant: the scan.                                      *)

\* The devices counted so far lie behind the one looked at, and each has its
\* slot to itself.
Counted ==
    \A k \in 0 .. usb_max_devs - 1 :
      /\ desc[k].target \in Devs
      /\ privptr[desc[k].target] = k
      /\ pusb_dev[k] = desc[k].target
      /\ pc \in Scanning => desc[k].target < at

\* The device whose information is being read has the next slot.
Current ==
    pc \in {"inquiry", "ready", "capacity"} =>
      /\ at \in Devs /\ usb_max_devs \in Slots
      /\ desc[usb_max_devs].target = at
      /\ privptr[at] = usb_max_devs
      /\ pusb_dev[usb_max_devs] = at

Switches ==
    /\ pc \in Scanning => caches /\ ret = None
    /\ Restored

ScanInv == TypeOK /\ Counted /\ Current /\ Switches

-----------------------------------------------------------------------------
(* The inductive invariant: reading.                                       *)

Items ==
    [kind : {"csw"}, tag : Nat, status : {"passed", "failed", "phase"}] \cup {Sense} \cup
    [kind : {"data"}, blks : Seq(Devs \X (0 .. Blocks - 1))]

\* A status wrapper of the current command.
Answering(item) == item.kind = "csw" /\ item.tag = CBWTag - 1

\* Sticks hold items, and no answer to a command that is still to be sent.
Queues ==
    /\ fifo \in [Devs -> Seq(Items)]
    /\ \A d \in Devs : \A i \in 1 .. Len(fifo[d]) :
         fifo[d][i].kind = "csw" => fifo[d][i].tag < CBWTag

\* The first n blocks of the buffer are the ones asked for, unless the stick has
\* passed a read that was short.
Filled(n) ==
    ~short /\ desc[rd.slot].blksz # "wrong" =>
      \A i \in 0 .. n - 1 : buf[i] = <<rd.dev, rd.start + i>>

\* A call has a device, the one of its slot, and has read what it says.
Progress ==
    pc \in Commands \/ (pc = "idle" /\ ret \in Nat) =>
      /\ rd \in [dev : Devs, slot : Slots, start : 0 .. Blocks - 1, cnt : 1 .. Blocks,
                 blks : 0 .. Blocks]
      /\ rd.slot < usb_max_devs /\ desc[rd.slot].target = rd.dev
      /\ rd.start + rd.cnt <= Blocks /\ rd.blks <= rd.cnt
      /\ pc \in Commands => rd.blks > 0
      /\ pc = "idle" => ret <= rd.cnt - rd.blks
      /\ Filled(rd.cnt - rd.blks)

\* The answer to a READ(10) comes last, behind its blocks; it is taken for good
\* only if the blocks are in the buffer.
Flight ==
    LET q == fifo[rd.dev]
    IN  pc = "read" =>
          /\ phase \in {"data", "status"} =>
               \A i \in 1 .. Len(q) : Answering(q[i]) => i = Len(q)
          /\ phase = "data" =>
               \A i \in 1 .. Len(q) : Answering(q[i]) /\ q[i].status = "passed" =>
                  i > 1 /\ (short \/ q[i - 1] = Content(Wanted))
          /\ phase = "status" /\ ~haltIn[rd.dev] =>
               (q # <<>> /\ Answering(q[1]) /\ q[1].status = "passed" =>
                  Filled(rd.cnt - rd.blks + SmallBlks))
          /\ phase = "good" => Filled(rd.cnt - rd.blks + SmallBlks)

ReadInv == Queues /\ Progress /\ Flight

IInv == ScanInv /\ ReadInv

-----------------------------------------------------------------------------
(* The scan.                                                               *)

\* The constants are numbers.
LEMMA Bounds ==
  /\ Len(Bus) \in Nat /\ USB_MAX_STOR_DEV \in Nat \ {0} /\ USB_MAX_READ_BLK \in Nat \ {0}
  /\ Blocks \in Nat \ {0} /\ None \notin Nat
  /\ InquiryRetry \in Nat /\ ReadyRetry \in Nat /\ CapacityRetry \in Nat /\ ReadRetry \in Nat
  BY UsbAssumption

\* usb_stor_scan starts with empty tables.
LEMMA InitIInv == Init => IInv
<1> SUFFICES ASSUME Init PROVE IInv
  OBVIOUS
<1>a. desc \in [Slots -> [target : Devs \cup {None}, blksz : {"zero", "true", "wrong"}]]
  BY DEF Init
<1>b. /\ pusb_dev \in [Slots -> Devs \cup {None}] /\ privptr \in [Devs -> Slots \cup {None}]
      /\ buf \in [0 .. Blocks - 1 -> (Devs \X (0 .. Blocks - 1)) \cup {None}]
      /\ haltIn \in [Devs -> BOOLEAN]
  BY DEF Init
<1>c. inq \in [unknown : BOOLEAN, removable : BOOLEAN]
  BY DEF Init, NoInquiry
<1>d. at \in 1 .. Len(Bus) + 1 /\ usb_max_devs \in 0 .. USB_MAX_STOR_DEV /\ retry \in Nat
      /\ CBWTag \in Nat /\ again \in 0 .. 1
  BY Bounds DEF Init
<1>1. TypeOK
  BY <1>a, <1>b, <1>c, <1>d DEF Init, TypeOK
<1>2. Counted /\ Current
  BY DEF Init, Counted, Current
<1>3. Switches
  BY DEF Init, Switches, Restored
<1>4. ReadInv
  BY Bounds DEF Init, ReadInv, Queues, Progress, Flight, Commands
<1> QED
  BY <1>1, <1>2, <1>3, <1>4 DEF IInv, ScanInv

\* No scan step touches what reading relies on.
LEMMA ScanReadInv == IInv /\ Scan => ReadInv'
<1> SUFFICES ASSUME IInv, Scan PROVE ReadInv'
  OBVIOUS
<1>1. pc \in Scanning /\ UNCHANGED <<fifo, CBWTag, ret>> /\ pc' \in Scanning \cup {"idle"}
  BY DEF Scan, ProbeOther, ProbeProblem, Probe, InquiryPasses, InquiryFails, InquiryDone,
         InfoReturns, ReadyPasses, ReadyFails, CapacityPasses, CapacityFails, InitPart, ScanDone,
         readvars, transport, Scanning
<1>2. ret' \notin Nat
  BY <1>1, Bounds DEF IInv, ScanInv, Switches
<1>3. Queues'
  BY <1>1 DEF IInv, ReadInv, Queues
<1>4. Progress' /\ Flight'
  BY <1>1, <1>2 DEF Progress, Flight, Scanning, Commands
<1> QED
  BY <1>3, <1>4 DEF ReadInv

\* A device that is no storage is passed over.
LEMMA ProbeOtherScanInv == ScanInv /\ ProbeOther => ScanInv'
<1> SUFFICES ASSUME ScanInv, ProbeOther PROVE ScanInv'
  OBVIOUS
<1> USE Bounds DEF scanvars, readvars, transport
<1>1. TypeOK'
  BY DEF ScanInv, TypeOK, Current, ProbeOther, ScanEnds, NextSlot, InfoReturns, InquiryDone,
         InquiryData, InitPart, NoInquiry, Slots, Devs
<1>2. Counted'
  BY DEF ScanInv, TypeOK, Counted, Current, ProbeOther, ScanEnds, NextSlot, InfoReturns,
         InquiryDone, InitPart, Scanning, Slots, Devs
<1>3. Current'
  BY DEF ScanInv, TypeOK, Current, ProbeOther, ScanEnds, NextSlot, InfoReturns, InquiryDone,
         Slots, Devs
<1>4. Switches'
  BY DEF ScanInv, Switches, Restored, ProbeOther, InfoReturns, InquiryDone, InitPart, Scanning
<1> QED
  BY <1>1, <1>2, <1>3, <1>4 DEF ScanInv

\* A device that cannot be used leaves a mark only in the slot not yet taken.
LEMMA ProbeProblemScanInv == ScanInv /\ ProbeProblem => ScanInv'
<1> SUFFICES ASSUME ScanInv, ProbeProblem PROVE ScanInv'
  OBVIOUS
<1> USE Bounds DEF scanvars, readvars, transport
<1>1. TypeOK'
  BY DEF ScanInv, TypeOK, Current, ProbeProblem, ScanEnds, NextSlot, InfoReturns, InquiryDone,
         InquiryData, InitPart, NoInquiry, Slots, Devs
<1>2. Counted'
  BY DEF ScanInv, TypeOK, Counted, Current, ProbeProblem, ScanEnds, NextSlot, InfoReturns,
         InquiryDone, InitPart, Scanning, Slots, Devs
<1>3. Current'
  BY DEF ScanInv, TypeOK, Current, ProbeProblem, ScanEnds, NextSlot, InfoReturns, InquiryDone,
         Slots, Devs
<1>4. Switches'
  BY DEF ScanInv, Switches, Restored, ProbeProblem, InfoReturns, InquiryDone, InitPart,
         Scanning
<1> QED
  BY <1>1, <1>2, <1>3, <1>4 DEF ScanInv

\* A device is given the next slot.
LEMMA ProbeScanInv == ScanInv /\ Probe => ScanInv'
<1> SUFFICES ASSUME ScanInv, Probe PROVE ScanInv'
  OBVIOUS
<1> USE Bounds DEF scanvars, readvars, transport
<1>a. at \in Devs /\ usb_max_devs \in Slots /\ retry' \in Nat
  BY DEF ScanInv, TypeOK, Probe, ScanEnds, Slots, Devs
<1>b. desc' \in [Slots -> [target : Devs \cup {None}, blksz : {"zero", "true", "wrong"}]]
  <2>1. /\ desc \in [Slots -> [target : Devs \cup {None}, blksz : {"zero", "true", "wrong"}]]
        /\ desc' = [desc EXCEPT ![usb_max_devs].target = at]
    BY DEF ScanInv, TypeOK, Probe
  <2> QED
    BY <1>a, <2>1
<1>c. pusb_dev' \in [Slots -> Devs \cup {None}] /\ privptr' \in [Devs -> Slots \cup {None}]
  BY <1>a DEF ScanInv, TypeOK, Probe, NextSlot
<1>1. TypeOK'
  BY <1>a, <1>b, <1>c DEF ScanInv, TypeOK, Probe
<1>2. Counted'
  <2> SUFFICES ASSUME NEW k \in 0 .. usb_max_devs - 1
               PROVE  /\ desc'[k].target \in Devs /\ privptr'[desc'[k].target] = k
                      /\ pusb_dev'[k] = desc'[k].target /\ desc'[k].target < at
    BY DEF Counted, Probe
  <2>1. k \in Slots /\ k # usb_max_devs
    BY <1>a DEF Slots
  <2>2. /\ desc[k].target \in Devs /\ privptr[desc[k].target] = k
        /\ pusb_dev[k] = desc[k].target /\ desc[k].target < at
    BY DEF ScanInv, Counted, Probe, Scanning
  <2>3. desc'[k].target = desc[k].target /\ pusb_dev'[k] = pusb_dev[k]
    BY <1>a, <2>1 DEF ScanInv, TypeOK, Probe, NextSlot
  <2>4. desc[k].target # at
    BY <1>a, <2>2 DEF Devs
  <2>5. privptr'[desc[k].target] = privptr[desc[k].target]
    BY <2>2, <2>4 DEF ScanInv, TypeOK, Probe
  <2> QED
    BY <2>2, <2>3, <2>5
<1>3. Current'
  <2>1. desc'[usb_max_devs].target = at
    BY <1>a DEF ScanInv, TypeOK, Probe
  <2>2. privptr'[at] = usb_max_devs /\ pusb_dev'[usb_max_devs] = at
    BY <1>a DEF ScanInv, TypeOK, Probe, NextSlot
  <2>3. at' = at /\ usb_max_devs' = usb_max_devs
    BY DEF Probe
  <2> QED
    BY <1>a, <2>1, <2>2, <2>3 DEF Current
<1>4. Switches'
  BY DEF ScanInv, Switches, Restored, Probe, InfoReturns, InquiryDone, InitPart, Scanning
<1> QED
  BY <1>1, <1>2, <1>3, <1>4 DEF ScanInv

\* The device is counted, skipped or asked further.
LEMMA InquiryPassesScanInv == ScanInv /\ InquiryPasses => ScanInv'
<1> SUFFICES ASSUME ScanInv, InquiryPasses PROVE ScanInv'
  OBVIOUS
<1> USE Bounds DEF scanvars, readvars, transport
<1>a. at' \in 1 .. Len(Bus) + 1 /\ usb_max_devs' \in 0 .. USB_MAX_STOR_DEV /\ retry' \in Nat
      /\ pc' \in {"scan", "inquiry", "ready"}
  BY DEF ScanInv, TypeOK, Current, InquiryPasses, InfoReturns, InquiryDone, Slots, Devs
<1>b. inq' \in [unknown : BOOLEAN, removable : BOOLEAN]
  <2>1. InquiryData \subseteq [unknown : BOOLEAN, removable : BOOLEAN]
    BY DEF InquiryData
  <2> QED
    BY <2>1 DEF ScanInv, TypeOK, InquiryPasses
<1>1. TypeOK'
  BY <1>a, <1>b DEF ScanInv, TypeOK, InquiryPasses
<1>2. Counted'
  BY DEF ScanInv, TypeOK, Counted, Current, InquiryPasses, ScanEnds, NextSlot, InfoReturns,
         InquiryDone, InitPart, Scanning, Slots, Devs
<1>3. Current'
  BY DEF ScanInv, TypeOK, Current, InquiryPasses, ScanEnds, NextSlot, InfoReturns, InquiryDone,
         Slots, Devs
<1>4. Switches'
  BY DEF ScanInv, Switches, Restored, InquiryPasses, InfoReturns, InquiryDone, InitPart,
         Scanning
<1> QED
  BY <1>1, <1>2, <1>3, <1>4 DEF ScanInv

\* The device is asked again, or what is in the buffer is used.
LEMMA InquiryFailsScanInv == ScanInv /\ InquiryFails => ScanInv'
<1> SUFFICES ASSUME ScanInv, InquiryFails PROVE ScanInv'
  OBVIOUS
<1> USE Bounds DEF scanvars, readvars, transport
<1>a. at' \in 1 .. Len(Bus) + 1 /\ usb_max_devs' \in 0 .. USB_MAX_STOR_DEV /\ retry' \in Nat
      /\ pc' \in {"scan", "inquiry", "ready"}
  BY DEF ScanInv, TypeOK, Current, InquiryFails, InfoReturns, InquiryDone, Slots, Devs
<1>b. inq' \in [unknown : BOOLEAN, removable : BOOLEAN]
  <2>1. InquiryData \subseteq [unknown : BOOLEAN, removable : BOOLEAN]
    BY DEF InquiryData
  <2> QED
    BY <2>1 DEF ScanInv, TypeOK, InquiryFails
<1>1. TypeOK'
  BY <1>a, <1>b DEF ScanInv, TypeOK, InquiryFails
<1>2. Counted'
  BY DEF ScanInv, TypeOK, Counted, Current, InquiryFails, ScanEnds, NextSlot, InfoReturns,
         InquiryDone, InitPart, Scanning, Slots, Devs
<1>3. Current'
  BY DEF ScanInv, TypeOK, Current, InquiryFails, ScanEnds, NextSlot, InfoReturns, InquiryDone,
         Slots, Devs
<1>4. Switches'
  BY DEF ScanInv, Switches, Restored, InquiryFails, InfoReturns, InquiryDone, InitPart,
         Scanning
<1> QED
  BY <1>1, <1>2, <1>3, <1>4 DEF ScanInv

\* The unit is ready.
LEMMA ReadyPassesScanInv == ScanInv /\ ReadyPasses => ScanInv'
<1> SUFFICES ASSUME ScanInv, ReadyPasses PROVE ScanInv'
  OBVIOUS
<1> USE Bounds DEF scanvars, readvars, transport
<1>1. TypeOK'
  BY DEF ScanInv, TypeOK, Current, ReadyPasses, ScanEnds, NextSlot, InfoReturns, InquiryDone,
         InquiryData, InitPart, NoInquiry, Slots, Devs
<1>2. Counted'
  BY DEF ScanInv, TypeOK, Counted, Current, ReadyPasses, ScanEnds, NextSlot, InfoReturns,
         InquiryDone, InitPart, Scanning, Slots, Devs
<1>3. Current'
  BY DEF ScanInv, TypeOK, Current, ReadyPasses, ScanEnds, NextSlot, InfoReturns, InquiryDone,
         Slots, Devs
<1>4. Switches'
  BY DEF ScanInv, Switches, Restored, ReadyPasses, InfoReturns, InquiryDone, InitPart, Scanning
<1> QED
  BY <1>1, <1>2, <1>3, <1>4 DEF ScanInv

\* The unit is not ready: it is asked again, counted or skipped.
LEMMA ReadyFailsScanInv == ScanInv /\ ReadyFails => ScanInv'
<1> SUFFICES ASSUME ScanInv, ReadyFails PROVE ScanInv'
  OBVIOUS
<1> USE Bounds DEF scanvars, readvars, transport
<1>a. at' \in 1 .. Len(Bus) + 1 /\ usb_max_devs' \in 0 .. USB_MAX_STOR_DEV /\ retry' \in Nat
      /\ pc' \in {"scan", "ready"}
  BY DEF ScanInv, TypeOK, Current, ReadyFails, InfoReturns, Slots, Devs
<1>1. TypeOK'
  BY <1>a DEF ScanInv, TypeOK, ReadyFails
<1>2. Counted'
  BY DEF ScanInv, TypeOK, Counted, Current, ReadyFails, ScanEnds, NextSlot, InfoReturns,
         InquiryDone, InitPart, Scanning, Slots, Devs
<1>3. Current'
  BY DEF ScanInv, TypeOK, Current, ReadyFails, ScanEnds, NextSlot, InfoReturns, InquiryDone,
         Slots, Devs
<1>4. Switches'
  BY DEF ScanInv, Switches, Restored, ReadyFails, InfoReturns, InquiryDone, InitPart, Scanning
<1> QED
  BY <1>1, <1>2, <1>3, <1>4 DEF ScanInv

\* The device is counted with a block size.
LEMMA CapacityCounts ==
  ASSUME ScanInv, pc = "capacity", pc' = "scan", NEW sz \in {"true", "wrong"},
         desc' = [desc EXCEPT ![usb_max_devs].blksz = sz], InitPart,
         at' = at + 1, usb_max_devs' = usb_max_devs + 1,
         UNCHANGED <<retry, inq, privptr, pusb_dev, transport>>
  PROVE  ScanInv'
<1> USE Bounds DEF transport
<1>1. at \in Nat /\ usb_max_devs \in Nat /\ usb_max_devs \in Slots
      /\ desc \in [Slots -> [target : Devs \cup {None}, blksz : {"zero", "true", "wrong"}]]
  <2>1. /\ at \in 1 .. Len(Bus) + 1 /\ usb_max_devs \in 0 .. USB_MAX_STOR_DEV
        /\ desc \in [Slots -> [target : Devs \cup {None}, blksz : {"zero", "true", "wrong"}]]
    BY DEF ScanInv, TypeOK
  <2>2. usb_max_devs \in Slots
    BY DEF ScanInv, Current
  <2> QED
    BY <2>1, <2>2
<1>2. at' \in 1 .. Len(Bus) + 1 /\ usb_max_devs' \in 0 .. USB_MAX_STOR_DEV
  BY <1>1 DEF ScanInv, Current, Slots, Devs
<1>3. /\ desc' \in [Slots -> [target : Devs \cup {None}, blksz : {"zero", "true", "wrong"}]]
      /\ \A k \in Slots : desc'[k].target = desc[k].target
  BY <1>1
<1>4. TypeOK'
  BY <1>2, <1>3 DEF ScanInv, TypeOK, InitPart
<1>5. Counted'
  <2> SUFFICES ASSUME NEW k \in 0 .. usb_max_devs' - 1
               PROVE  /\ desc'[k].target \in Devs /\ privptr[desc'[k].target] = k
                      /\ pusb_dev[k] = desc'[k].target /\ desc'[k].target < at'
    BY DEF Counted
  <2>1. k \in Slots /\ k \in Nat
    <3>1. PICK n \in Nat : n = usb_max_devs' /\ n <= USB_MAX_STOR_DEV
      BY <1>2
    <3>2. k \in 0 .. n - 1
      BY <3>1
    <3> QED
      BY <3>1, <3>2 DEF Slots
  <2>2. CASE k < usb_max_devs
    <3>1. k \in 0 .. usb_max_devs - 1
      BY <1>1, <2>1, <2>2
    <3>2. /\ desc[k].target \in Devs /\ privptr[desc[k].target] = k
          /\ pusb_dev[k] = desc[k].target /\ desc[k].target < at
      BY <3>1 DEF ScanInv, Counted, Scanning
    <3> QED
      BY <1>1, <1>3, <2>1, <3>2 DEF Devs
  <2>3. CASE k = usb_max_devs
    BY <1>1, <1>3, <2>1, <2>3 DEF ScanInv, Current
  <2> QED
    BY <1>1, <2>1, <2>2, <2>3
<1>6. Current' /\ Switches'
  BY DEF ScanInv, Current, Switches, Restored, InitPart, Scanning
<1> QED
  BY <1>4, <1>5, <1>6 DEF ScanInv

\* READ CAPACITY passes: the block size is the device's.
LEMMA CapacityPassesScanInv == ScanInv /\ CapacityPasses => ScanInv'
  BY CapacityCounts DEF CapacityPasses, InfoReturns

\* READ CAPACITY fails: it is sent again, or the block size is assumed.
LEMMA CapacityFailsScanInv == ScanInv /\ CapacityFails => ScanInv'
<1> SUFFICES ASSUME ScanInv, CapacityFails PROVE ScanInv'
  OBVIOUS
<1>1. CASE retry # 0
  <2>1. UNCHANGED <<pc, scanvars, readvars, transport>> /\ retry' \in Nat
    BY <1>1 DEF CapacityFails, ScanInv, TypeOK, scanvars
  <2> QED
    BY <2>1 DEF ScanInv, TypeOK, Counted, Current, Switches, Restored, scanvars, readvars,
                transport
<1>2. CASE retry = 0
  BY <1>2, CapacityCounts DEF CapacityFails, InfoReturns
<1> QED
  BY <1>1, <1>2

\* The scan ends with the devices counted.
LEMMA ScanDoneScanInv == ScanInv /\ ScanDone => ScanInv'
<1> SUFFICES ASSUME ScanInv, ScanDone PROVE ScanInv'
  OBVIOUS
<1> USE Bounds DEF scanvars, readvars, transport
<1>1. TypeOK'
  BY DEF ScanInv, TypeOK, Current, ScanDone, ScanEnds, NextSlot, InfoReturns, InquiryDone,
         InquiryData, InitPart, NoInquiry, Slots, Devs
<1>2. Counted'
  BY DEF ScanInv, TypeOK, Counted, Current, ScanDone, ScanEnds, NextSlot, InfoReturns,
         InquiryDone, InitPart, Scanning, Slots, Devs
<1>3. Current'
  BY DEF ScanInv, TypeOK, Current, ScanDone, ScanEnds, NextSlot, InfoReturns, InquiryDone,
         Slots, Devs
<1>4. Switches'
  BY DEF ScanInv, Switches, Restored, ScanDone, InfoReturns, InquiryDone, InitPart, Scanning
<1> QED
  BY <1>1, <1>2, <1>3, <1>4 DEF ScanInv

\* The scan preserves the invariant.
LEMMA ScanIInv == IInv /\ Scan => IInv'
  BY ScanReadInv, ProbeOtherScanInv, ProbeProblemScanInv, ProbeScanInv, InquiryPassesScanInv,
     InquiryFailsScanInv, ReadyPassesScanInv, ReadyFailsScanInv, CapacityPassesScanInv,
     CapacityFailsScanInv, ScanDoneScanInv
  DEF IInv, Scan

-----------------------------------------------------------------------------
(* The transport.                                                          *)

\* While a command is carried out there is a device and something to read.
LEMMA Reading ==
  ASSUME IInv, pc \in Commands
  PROVE  /\ rd \in [dev : Devs, slot : Slots, start : 0 .. Blocks - 1, cnt : 1 .. Blocks,
                     blks : 0 .. Blocks]
         /\ rd.dev \in Devs /\ rd.slot \in Slots /\ rd.start \in Nat /\ rd.cnt \in Nat
         /\ rd.blks \in Nat /\ rd.blks <= rd.cnt /\ rd.start + rd.cnt <= Blocks
         /\ SmallBlks \in 1 .. rd.blks /\ ReadStart \in Nat /\ CBWTag \in Nat
<1>1. /\ rd \in [dev : Devs, slot : Slots, start : 0 .. Blocks - 1, cnt : 1 .. Blocks,
                  blks : 0 .. Blocks]
      /\ rd.blks > 0 /\ rd.blks <= rd.cnt /\ rd.start + rd.cnt <= Blocks
  BY DEF IInv, ReadInv, Progress
<1>2. /\ rd.dev \in Devs /\ rd.slot \in Slots /\ rd.start \in Nat /\ rd.cnt \in Nat
      /\ rd.blks \in Nat
  BY <1>1, Bounds
<1>3. SmallBlks \in 1 .. rd.blks
  BY <1>1, <1>2, Bounds DEF SmallBlks, Min2
<1>4. ReadStart \in Nat
  BY <1>1, <1>2 DEF ReadStart
<1>5. CBWTag \in Nat
  BY DEF IInv, ScanInv, TypeOK
<1> QED
  BY <1>1, <1>2, <1>3, <1>4, <1>5

\* The blocks asked for are blocks of the device.
LEMMA WantedType ==
  ASSUME IInv, pc \in Commands
  PROVE  /\ Wanted \in Seq(Devs \X (0 .. Blocks - 1)) /\ Len(Wanted) = SmallBlks
         /\ \A j \in 1 .. SmallBlks : Wanted[j] = <<rd.dev, ReadStart + j - 1>>
<1>1. ASSUME NEW j \in 1 .. SmallBlks PROVE ReadStart + j - 1 \in 0 .. Blocks - 1
  <2>1. /\ rd.start \in Nat /\ rd.cnt \in Nat /\ rd.blks \in Nat /\ Blocks \in Nat
        /\ rd.blks <= rd.cnt /\ rd.start + rd.cnt <= Blocks /\ SmallBlks \in 1 .. rd.blks
    BY Reading, Bounds
  <2>2. j \in Nat /\ 1 <= j /\ j <= rd.blks
    BY <1>1, <2>1
  <2>3. rd.start + rd.cnt - rd.blks + j - 1 \in 0 .. Blocks - 1
    BY <2>1, <2>2
  <2> QED
    BY <2>3 DEF ReadStart
<1>2. SmallBlks \in Nat /\ rd.dev \in Devs
  BY Reading
<1> QED
  BY <1>1, <1>2 DEF Wanted

\* An answer ends with the status of the command; behind a READ(10) that passes
\* there are blocks.
LEMMA AnswerShape ==
  ASSUME IInv, pc \in Commands, NEW a \in Answers(CBWTag)
  PROVE  /\ a.items \in Seq(Items) /\ Len(a.items) \in {1, 2} /\ a.halt \in BOOLEAN
         /\ a.items[Len(a.items)].kind = "csw" /\ a.items[Len(a.items)].tag = CBWTag
         /\ Len(a.items) = 2 => a.items[1].kind # "csw"
         /\ pc = "read" /\ a.items[Len(a.items)].status = "passed" =>
               HasData /\ Len(a.items) = 2
<1>0. CBWTag \in Nat /\ Sense \in Items
      /\ \A st \in {"passed", "failed", "phase"} : Csw(CBWTag, st) \in Items
  BY Reading DEF Items, Csw
<1>1. CASE pc = "tur"
  <2>1. PICK st \in {"passed", "failed"} : a = [items |-> <<Csw(CBWTag, st)>>, halt |-> FALSE]
    BY <1>1 DEF Answers
  <2> QED
    BY <1>0, <1>1, <2>1 DEF Csw
<1>2. CASE pc \in {"tursense", "readsense"}
  <2>1. a = [items |-> <<Sense, Csw(CBWTag, "passed")>>, halt |-> FALSE]
    BY <1>2 DEF Answers
  <2> QED
    BY <1>0, <1>2, <2>1 DEF Csw, Sense
<1>3. CASE pc = "read" /\ ~HasData
  <2>1. a = [items |-> <<Csw(CBWTag, "phase")>>, halt |-> FALSE]
    BY <1>3 DEF Answers
  <2> QED
    BY <1>0, <1>3, <2>1 DEF Csw
<1>4. CASE pc = "read" /\ HasData
  <2>0. \/ a = [items |-> <<Content(Wanted), Csw(CBWTag, "passed")>>, halt |-> FALSE]
        \/ a = [items |-> <<Csw(CBWTag, "failed")>>, halt |-> TRUE]
        \/ \E k \in 0 .. SmallBlks - 1 :
             \E st \in {"passed", "failed"} :
               a = [items |-> <<Content(SubSeq(Wanted, 1, k)), Csw(CBWTag, st)>>,
                    halt |-> FALSE]
    BY <1>4 DEF Answers
  <2>1. CASE a = [items |-> <<Content(Wanted), Csw(CBWTag, "passed")>>, halt |-> FALSE]
    <3>1. Content(Wanted) \in Items
      BY WantedType DEF Items, Content
    <3> QED
      BY <1>0, <1>4, <2>1, <3>1 DEF Csw, Content
  <2>2. CASE a = [items |-> <<Csw(CBWTag, "failed")>>, halt |-> TRUE]
    BY <1>0, <1>4, <2>2 DEF Csw
  <2>3. CASE \E k \in 0 .. SmallBlks - 1 : \E st \in {"passed", "failed"} :
             a = [items |-> <<Content(SubSeq(Wanted, 1, k)), Csw(CBWTag, st)>>,
                  halt |-> FALSE]
    <3>1. PICK k \in 0 .. SmallBlks - 1, st \in {"passed", "failed"} :
             a = [items |-> <<Content(SubSeq(Wanted, 1, k)), Csw(CBWTag, st)>>,
                  halt |-> FALSE]
      BY <2>3
    <3>2. SubSeq(Wanted, 1, k) \in Seq(Devs \X (0 .. Blocks - 1))
      <4>1. k \in Int /\ k <= Len(Wanted) /\ Wanted \in Seq(Devs \X (0 .. Blocks - 1))
        BY WantedType, Reading
      <4>2. \A i \in 1 .. k : Wanted[i] \in Devs \X (0 .. Blocks - 1)
        BY <4>1
      <4> QED
        BY <4>1, <4>2, SubSeqProperties
    <3>3. Content(SubSeq(Wanted, 1, k)) \in Items
      BY <3>2 DEF Items, Content
    <3> QED
      BY <1>0, <1>4, <3>1, <3>3 DEF Csw, Content
  <2> QED
    BY <2>0, <2>1, <2>2, <2>3
<1> QED
  BY <1>1, <1>2, <1>3, <1>4 DEF Commands

\* A transfer changes nothing of the tables, and nothing of the call but the
\* buffer.
LEMMA TransferScanInv ==
  ASSUME IInv, UNCHANGED <<pc, retry, scanvars, rd, ret, asynch, caches>>, short' \in BOOLEAN,
         buf' \in [0 .. Blocks - 1 -> (Devs \X (0 .. Blocks - 1)) \cup {None}],
         phase' \in {"command", "data", "status", "reset", "clear", "good", "failed"},
         again' \in 0 .. 1, CBWTag' \in Nat, haltIn' \in [Devs -> BOOLEAN]
  PROVE  ScanInv'
<1>1. TypeOK'
  BY DEF IInv, ScanInv, TypeOK, scanvars
<1>2. Counted' /\ Current' /\ Switches'
  BY DEF IInv, ScanInv, Counted, Current, Switches, Restored, scanvars
<1> QED
  BY <1>1, <1>2 DEF ScanInv

\* What a transfer that leaves the buffer alone preserves.
LEMMA TransferProgress ==
  ASSUME IInv, UNCHANGED <<pc, retry, scanvars, rd, buf, ret>>, short => short'
  PROVE  /\ Progress' /\ SmallBlks' = SmallBlks /\ Wanted' = Wanted
         /\ \A n : Filled(n) => Filled(n)'
<1>1. SmallBlks' = SmallBlks /\ Wanted' = Wanted /\ \A n : Filled(n) => Filled(n)'
  BY DEF SmallBlks, Wanted, ReadStart, Filled, scanvars
<1> QED
  BY <1>1 DEF IInv, ReadInv, Progress, Filled, scanvars

\* The tag of a status wrapper is a number.
LEMMA TagType == ASSUME NEW item \in Items, item.kind = "csw" PROVE item.tag \in Nat
  BY DEF Items, Sense

\* A new tag is later than all that are queued.
LEMMA TagsGrow ==
  ASSUME IInv, UNCHANGED fifo, CBWTag' \in {CBWTag, CBWTag + 1}
  PROVE  Queues'
<1>1. CBWTag \in Nat /\ fifo \in [Devs -> Seq(Items)]
  BY DEF IInv, ScanInv, TypeOK, ReadInv, Queues
<1>2. ASSUME NEW d \in Devs, NEW i \in 1 .. Len(fifo[d]), fifo[d][i].kind = "csw"
      PROVE  fifo[d][i].tag < CBWTag'
  <2>1. fifo[d][i].tag < CBWTag /\ fifo[d][i] \in Items
    BY <1>1, <1>2 DEF IInv, ReadInv, Queues
  <2>2. fifo[d][i].tag \in Nat
    BY <1>2, <2>1, TagType
  <2> QED
    BY <1>1, <2>1, <2>2
<1> QED
  BY <1>1, <1>2 DEF Queues

\* The answer to a command is queued behind what is left from earlier ones.
LEMMA CommandIInv == IInv /\ Command => IInv'
<1> SUFFICES ASSUME IInv, Command PROVE IInv'
  OBVIOUS
<1>0. /\ pc \in Commands /\ UNCHANGED <<pc, retry, scanvars, rd, buf, ret, asynch, caches>>
      /\ CBWTag' = CBWTag + 1 /\ again' = 0
  BY DEF Command, InTransport, Commands
<1>s. short' \in BOOLEAN /\ (short => short')
  <2>1. short \in BOOLEAN
    BY DEF IInv, ScanInv, TypeOK
  <2>2. UNCHANGED short \/ \E a \in Answers(CBWTag) : short' = (short \/ PassesShort(a))
    BY DEF Command
  <2> QED
    BY <2>1, <2>2
<1>1. CBWTag \in Nat /\ rd.dev \in Devs
  BY <1>0, Reading
<1>2. fifo \in [Devs -> Seq(Items)] /\ haltIn \in [Devs -> BOOLEAN]
      /\ buf \in [0 .. Blocks - 1 -> (Devs \X (0 .. Blocks - 1)) \cup {None}]
  BY DEF IInv, ReadInv, Queues, ScanInv, TypeOK
<1>3. Progress' /\ SmallBlks' = SmallBlks /\ Wanted' = Wanted
  BY <1>0, <1>s, TransferProgress
<1>4. CASE phase' = "reset" /\ UNCHANGED <<fifo, haltIn, short>>
  <2>1. ScanInv'
    BY <1>0, <1>s, <1>1, <1>2, <1>4, TransferScanInv
  <2>2. Queues'
    BY <1>0, <1>4, TagsGrow
  <2>3. Flight'
    BY <1>4 DEF Flight
  <2> QED
    BY <1>3, <2>1, <2>2, <2>3 DEF IInv, ReadInv
<1>5. ASSUME NEW a \in Answers(CBWTag),
             fifo' = [fifo EXCEPT ![rd.dev] = @ \o a.items],
             haltIn' = [haltIn EXCEPT ![rd.dev] = @ \/ a.halt],
             phase' \in {IF HasData THEN "data" ELSE "status", "reset"},
             short' = (short \/ PassesShort(a))
      PROVE  IInv'
  <2> DEFINE q == fifo[rd.dev]
             it == a.items
             p == fifo'[rd.dev]
  <2>1. /\ it \in Seq(Items) /\ Len(it) \in {1, 2} /\ a.halt \in BOOLEAN
        /\ it[Len(it)].kind = "csw" /\ it[Len(it)].tag = CBWTag
        /\ Len(it) = 2 => it[1].kind # "csw"
        /\ pc = "read" /\ it[Len(it)].status = "passed" =>
              HasData /\ Len(it) = 2 /\ (short' \/ it[1] = Content(Wanted))
    BY <1>0, <1>5, AnswerShape DEF PassesShort
  <2>2. q \in Seq(Items) /\ p = q \o it
    BY <1>1, <1>2, <1>5
  <2> HIDE DEF q, it, p
  <2>3. /\ p \in Seq(Items) /\ Len(p) = Len(q) + Len(it) /\ Len(q) \in Nat
        /\ \A i \in 1 .. Len(p) : p[i] = IF i <= Len(q) THEN q[i] ELSE it[i - Len(q)]
    BY <2>1, <2>2, ConcatProperties
  <2>4. \A i \in 1 .. Len(q) : q[i].kind = "csw" => q[i].tag < CBWTag
    BY <1>1 DEF IInv, ReadInv, Queues, q
  <2>5. ASSUME NEW i \in 1 .. Len(p), p[i].kind = "csw"
        PROVE  /\ p[i].tag <= CBWTag
               /\ p[i].tag = CBWTag => i = Len(p) /\ p[i] = it[Len(it)]
    <3>1. CASE i <= Len(q)
      <4>1. i \in 1 .. Len(q) /\ p[i] = q[i]
        BY <2>3, <3>1
      <4>2. q[i].tag < CBWTag /\ q[i] \in Items
        BY <2>2, <2>4, <2>5, <4>1
      <4>3. q[i].tag \in Nat
        BY <2>5, <4>1, <4>2, TagType
      <4> QED
        BY <1>1, <4>1, <4>2, <4>3
    <3>2. CASE i > Len(q)
      <4>1. i - Len(q) \in 1 .. Len(it) /\ p[i] = it[i - Len(q)]
        BY <2>1, <2>3, <3>2
      <4>2. i - Len(q) = Len(it)
        BY <2>1, <2>5, <4>1
      <4> QED
        BY <1>1, <2>1, <2>3, <4>1, <4>2
    <3> QED
      BY <2>3, <3>1, <3>2
  <2>6. ScanInv'
    <3>1. haltIn' \in [Devs -> BOOLEAN]
      BY <1>1, <1>2, <1>5
    <3> QED
      BY <1>0, <1>s, <1>1, <1>2, <1>5, <3>1, TransferScanInv
  <2>7. Queues'
    <3>1. fifo' \in [Devs -> Seq(Items)]
      BY <1>1, <1>2, <1>5, <2>2, <2>3 DEF q, it, p
    <3>2. ASSUME NEW d \in Devs, NEW i \in 1 .. Len(fifo'[d]), fifo'[d][i].kind = "csw"
          PROVE  fifo'[d][i].tag < CBWTag'
      <4>1. CASE d = rd.dev
        <5>1. p[i].tag <= CBWTag /\ p[i] \in Items /\ p[i].kind = "csw"
          BY <2>3, <2>5, <3>2, <4>1 DEF p
        <5>2. p[i].tag \in Nat
          BY <5>1, TagType
        <5> QED
          BY <1>0, <1>1, <4>1, <5>1, <5>2 DEF p
      <4>2. CASE d # rd.dev
        <5>1. fifo'[d] = fifo[d]
          BY <1>1, <1>2, <1>5, <4>2
        <5>2. fifo[d][i].tag < CBWTag /\ fifo[d][i] \in Items
          BY <1>2, <3>2, <5>1 DEF IInv, ReadInv, Queues
        <5>3. fifo[d][i].tag \in Nat
          BY <3>2, <5>1, <5>2, TagType
        <5> QED
          BY <1>0, <1>1, <5>1, <5>2, <5>3
      <4> QED
        BY <4>1, <4>2
    <3> QED
      BY <3>1, <3>2 DEF Queues
  <2>8. Flight'
    <3> DEFINE Ans(i) == p[i].kind = "csw" /\ p[i].tag = CBWTag
    <3> SUFFICES ASSUME pc = "read", phase' \in {"data", "status"}
                 PROVE  /\ \A i \in 1 .. Len(p) : Ans(i) => i = Len(p)
                        /\ phase' = "data" =>
                             \A i \in 1 .. Len(p) : Ans(i) /\ p[i].status = "passed" =>
                               i > 1 /\ (short' \/ p[i - 1] = Content(Wanted))
                        /\ phase' = "status" =>
                             ~(p # <<>> /\ Ans(1) /\ p[1].status = "passed")
      <4>1. rd'.dev = rd.dev /\ CBWTag' - 1 = CBWTag /\ pc' = pc
        BY <1>0, <1>1
      <4>2. phase' # "good"
        BY <1>5
      <4> QED
        BY <1>3, <4>1, <4>2 DEF Flight, Content, Answering, p
    <3>1. \A i \in 1 .. Len(p) : Ans(i) => i = Len(p) /\ p[i] = it[Len(it)]
      BY <2>5
    <3>2. ASSUME NEW i \in 1 .. Len(p), Ans(i), p[i].status = "passed"
          PROVE  HasData /\ i > 1 /\ (short' \/ p[i - 1] = Content(Wanted))
      <4>1. HasData /\ Len(it) = 2 /\ (short' \/ it[1] = Content(Wanted)) /\ i = Len(q) + 2
        BY <2>1, <2>3, <3>1, <3>2
      <4> QED
        BY <2>3, <4>1
    <3>3. phase' = "status" => ~HasData
      BY <1>5
    <3>4. p # <<>> => 1 \in 1 .. Len(p)
      BY <2>3
    <3> QED
      BY <3>1, <3>2, <3>3, <3>4
  <2> QED
    BY <1>3, <2>6, <2>7, <2>8 DEF IInv, ReadInv
<1> QED
  BY <1>4, <1>5 DEF Command

\* What arrives lands behind the blocks already read; if it is what was asked
\* for, the next blocks are in place.
LEMMA LandedBlocks ==
  ASSUME IInv, pc = "read", NEW item \in Items
  PROVE  LET new == Landed(item)
             n == rd.cnt - rd.blks
         IN  /\ new \in [0 .. Blocks - 1 -> (Devs \X (0 .. Blocks - 1)) \cup {None}]
             /\ desc[rd.slot].blksz # "wrong" => \A i \in 0 .. n - 1 : new[i] = buf[i]
             /\ desc[rd.slot].blksz # "wrong" /\ item = Content(Wanted) =>
                  \A i \in n .. n + SmallBlks - 1 : new[i] = <<rd.dev, rd.start + i>>
<1> DEFINE new == Landed(item)
           n == rd.cnt - rd.blks
           got == IF item.kind = "data" THEN item.blks ELSE <<None>>
           off == n * (IF desc[rd.slot].blksz = "wrong" THEN 256 ELSE 1)
           T == (Devs \X (0 .. Blocks - 1)) \cup {None}
<1>1. got \in Seq(T)
  <2>1. CASE item.kind = "data"
    BY <2>1 DEF Items, Sense
  <2>2. CASE item.kind # "data"
    BY <2>2
  <2> QED
    BY <2>1, <2>2
<1>2. /\ n \in Nat /\ n + SmallBlks <= Blocks /\ SmallBlks \in Nat /\ Blocks \in Nat
      /\ rd.start \in Nat /\ ReadStart = rd.start + n
  BY Reading, Bounds DEF Commands, ReadStart
<1>3. off \in Nat /\ (desc[rd.slot].blksz # "wrong" => off = n)
  BY <1>2
<1>4. \A j : BufPos(j) = off + j - 1
  BY DEF BufPos
<1>5. buf \in [0 .. Blocks - 1 -> T] /\ DOMAIN buf = 0 .. Blocks - 1
  BY DEF IInv, ScanInv, TypeOK
<1>6. new = [i \in 0 .. Blocks - 1 |->
               IF \E j \in 1 .. Len(got) : BufPos(j) = i
               THEN got[CHOOSE j \in 1 .. Len(got) : BufPos(j) = i] ELSE buf[i]]
  BY <1>5 DEF Landed
<1> HIDE DEF new, n, got, off, T
<1>7. ASSUME NEW i \in 0 .. Blocks - 1
      PROVE  /\ i < off => new[i] = buf[i]
             /\ \A j \in 1 .. Len(got) : i = off + j - 1 => new[i] = got[j]
             /\ new[i] \in T
  <2>0. Len(got) \in Nat
    BY <1>1
  <2>1. CASE \E j \in 1 .. Len(got) : BufPos(j) = i
    <3> DEFINE c == CHOOSE j \in 1 .. Len(got) : BufPos(j) = i
    <3>1. c \in 1 .. Len(got) /\ BufPos(c) = i
      BY <2>1
    <3>2. new[i] = got[c]
      BY <1>6, <2>1
    <3> HIDE DEF c
    <3>3. i = off + c - 1
      BY <1>4, <3>1
    <3>4. got[c] \in T
      BY <1>1, <3>1
    <3> QED
      BY <1>2, <1>3, <2>0, <3>1, <3>2, <3>3, <3>4
  <2>2. CASE ~\E j \in 1 .. Len(got) : BufPos(j) = i
    <3>1. new[i] = buf[i]
      BY <1>6, <2>2
    <3>2. \A j \in 1 .. Len(got) : i # off + j - 1
      BY <1>4, <2>2
    <3> QED
      BY <1>5, <3>1, <3>2
  <2> QED
    BY <2>1, <2>2
<1>8. new \in [0 .. Blocks - 1 -> T]
  BY <1>6, <1>7
<1>9. ASSUME desc[rd.slot].blksz # "wrong", NEW i \in 0 .. n - 1 PROVE new[i] = buf[i]
  BY <1>2, <1>3, <1>7, <1>9
<1>10. ASSUME desc[rd.slot].blksz # "wrong", item = Content(Wanted),
              NEW i \in n .. n + SmallBlks - 1
       PROVE  new[i] = <<rd.dev, rd.start + i>>
  <2>1. got = Wanted
    BY <1>10 DEF got, Content
  <2>2. /\ Len(Wanted) = SmallBlks
        /\ \A j \in 1 .. SmallBlks : Wanted[j] = <<rd.dev, ReadStart + j - 1>>
    BY WantedType DEF Commands
  <2>3. i - n + 1 \in 1 .. SmallBlks /\ i \in 0 .. Blocks - 1 /\ i = n + (i - n + 1) - 1
    BY <1>2
  <2>4. new[i] = Wanted[i - n + 1]
    BY <1>3, <1>7, <1>10, <2>1, <2>2, <2>3
  <2>5. ReadStart + (i - n + 1) - 1 = rd.start + i
    BY <1>2
  <2> QED
    BY <2>2, <2>3, <2>4, <2>5
<1> QED
  BY <1>8, <1>9, <1>10 DEF new, n, T

\* The first item of a queue is taken.
LEMMA TakeFirst ==
  ASSUME IInv, pc \in Commands, fifo[rd.dev] # <<>>,
         fifo' = [fifo EXCEPT ![rd.dev] = Tail(@)], UNCHANGED CBWTag
  PROVE  /\ Queues' /\ Head(fifo[rd.dev]) \in Items /\ Head(fifo[rd.dev]) = fifo[rd.dev][1]
         /\ Len(fifo[rd.dev]) \in Nat \ {0} /\ fifo'[rd.dev] = Tail(fifo[rd.dev])
         /\ Len(fifo'[rd.dev]) = Len(fifo[rd.dev]) - 1
         /\ \A i \in 1 .. Len(fifo'[rd.dev]) : fifo'[rd.dev][i] = fifo[rd.dev][i + 1]
<1> DEFINE q == fifo[rd.dev]
<1>1. fifo \in [Devs -> Seq(Items)] /\ rd.dev \in Devs
  BY Reading DEF IInv, ReadInv, Queues
<1>2. q \in Seq(Items) /\ fifo'[rd.dev] = Tail(q)
  BY <1>1
<1> HIDE DEF q
<1>3. /\ Head(q) \in Items /\ Head(q) = q[1] /\ Len(q) \in Nat \ {0} /\ Tail(q) \in Seq(Items)
      /\ Len(Tail(q)) = Len(q) - 1 /\ \A i \in 1 .. Len(Tail(q)) : Tail(q)[i] = q[i + 1]
  <2>1. q # <<>>
    BY DEF q
  <2> QED
    BY <1>2, <2>1
<1>4. fifo' \in [Devs -> Seq(Items)]
  BY <1>1, <1>2, <1>3 DEF q
<1>5. ASSUME NEW d \in Devs, NEW i \in 1 .. Len(fifo'[d]), fifo'[d][i].kind = "csw"
      PROVE  fifo'[d][i].tag < CBWTag'
  <2>1. CASE d = rd.dev
    <3>1. fifo'[d] = Tail(q) /\ fifo[d] = q
      BY <1>2, <2>1 DEF q
    <3>2. i \in 1 .. Len(Tail(q))
      BY <3>1
    <3>3. i + 1 \in 1 .. Len(q) /\ Tail(q)[i] = q[i + 1]
      BY <1>3, <3>2
    <3>4. q[i + 1].kind = "csw" => q[i + 1].tag < CBWTag
      BY <3>1, <3>3 DEF IInv, ReadInv, Queues
    <3> QED
      BY <1>5, <3>1, <3>3, <3>4
  <2>2. CASE d # rd.dev
    <3>1. fifo'[d] = fifo[d]
      BY <1>1, <2>2
    <3> QED
      BY <1>5, <3>1 DEF IInv, ReadInv, Queues
  <2> QED
    BY <2>1, <2>2
<1>6. Queues'
  BY <1>4, <1>5 DEF Queues
<1> QED
  BY <1>2, <1>3, <1>6 DEF q

\* Data, or something else, is read from the endpoint.
LEMMA DataInIInv == IInv /\ DataIn => IInv'
<1> SUFFICES ASSUME IInv, DataIn PROVE IInv'
  OBVIOUS
<1> DEFINE q == fifo[rd.dev]
           p == fifo'[rd.dev]
<1>0. /\ pc \in Commands /\ UNCHANGED <<pc, retry, scanvars, rd, ret, asynch, caches, again>>
      /\ UNCHANGED <<CBWTag, haltIn, short>> /\ q # <<>> /\ ~haltIn[rd.dev] /\ phase = "data"
      /\ fifo' = [fifo EXCEPT ![rd.dev] = Tail(@)] /\ phase' \in {"status", "reset"}
  BY DEF DataIn, InTransport, Commands
<1>1. /\ Queues' /\ q[1] \in Items /\ Head(q) = q[1] /\ Len(q) \in Nat \ {0}
      /\ Len(p) = Len(q) - 1 /\ \A i \in 1 .. Len(p) : p[i] = q[i + 1]
  BY <1>0, TakeFirst
<1>2. again \in 0 .. 1 /\ CBWTag \in Nat /\ short \in BOOLEAN /\ haltIn \in [Devs -> BOOLEAN]
      /\ buf \in [0 .. Blocks - 1 -> (Devs \X (0 .. Blocks - 1)) \cup {None}]
  BY DEF IInv, ScanInv, TypeOK
<1>3. CASE pc # "read"
  <2>1. buf' = buf
    BY <1>3 DEF DataIn
  <2>2. ScanInv'
    BY <1>0, <1>2, <2>1, TransferScanInv
  <2>3. Progress'
    BY <1>0, <2>1, TransferProgress
  <2>4. Flight'
    BY <1>0, <1>3 DEF Flight
  <2> QED
    BY <1>1, <2>2, <2>3, <2>4 DEF IInv, ReadInv
<1>4. CASE pc = "read"
  <2> DEFINE n == rd.cnt - rd.blks
  <2>1. buf' = Landed(q[1]) /\ phase' = "status"
    BY <1>1, <1>4 DEF DataIn
  <2>2. /\ buf' \in [0 .. Blocks - 1 -> (Devs \X (0 .. Blocks - 1)) \cup {None}]
        /\ desc[rd.slot].blksz # "wrong" => \A i \in 0 .. n - 1 : buf'[i] = buf[i]
        /\ desc[rd.slot].blksz # "wrong" /\ q[1] = Content(Wanted) =>
             \A i \in n .. n + SmallBlks - 1 : buf'[i] = <<rd.dev, rd.start + i>>
    BY <1>1, <1>4, <2>1, LandedBlocks
  <2>3. ScanInv'
    BY <1>0, <1>2, <2>1, <2>2, TransferScanInv
  <2>4. n \in Nat /\ SmallBlks \in Nat
    BY <1>0, Reading
  <2>5. UNCHANGED <<desc, rd, pc, usb_max_devs, short>> /\ SmallBlks' = SmallBlks
    BY <1>0 DEF scanvars, SmallBlks
  <2>6. Filled(n)
    BY <1>0 DEF IInv, ReadInv, Progress
  <2>7. Filled(n)'
    BY <2>2, <2>5, <2>6 DEF Filled
  <2>8. Progress'
    BY <1>0, <1>4, <2>5, <2>7 DEF IInv, ReadInv, Progress, Commands
  <2>9. ASSUME p # <<>>, p[1].kind = "csw", p[1].tag = CBWTag - 1, p[1].status = "passed"
        PROVE  Filled(n + SmallBlks)'
    <3>1. Len(p) > 0 /\ 2 \in 1 .. Len(q) /\ p[1] = q[2]
      <4>1. p \in Seq(Items)
        <5>1. rd' = rd /\ rd.dev \in Devs
          BY <1>0, Reading
        <5> QED
          BY <1>1, <5>1 DEF Queues
      <4>2. Len(p) \in Nat /\ Len(p) # 0
        <5> HIDE DEF p
        <5> QED
          BY <2>9, <4>1
      <4>3. Len(p) = Len(q) - 1 /\ Len(q) \in Nat
        BY <1>1
      <4>4. 1 \in 1 .. Len(p) /\ 2 \in 1 .. Len(q)
        <5> HIDE DEF p, q
        <5> QED
          BY <4>2, <4>3
      <4>5. p[1] = q[2]
        BY <1>1, <4>4
      <4> QED
        BY <4>2, <4>4, <4>5
    <3>2. Answering(q[2])
      BY <1>0, <2>9, <3>1 DEF Answering
    <3>3. q[2].status = "passed" /\ (short \/ q[1] = Content(Wanted))
      BY <1>0, <1>4, <2>9, <3>1, <3>2 DEF IInv, ReadInv, Flight
    <3> QED
      BY <2>2, <2>4, <2>5, <2>6, <3>3 DEF Filled
  <2>10. ASSUME NEW i \in 1 .. Len(p), p[i].kind = "csw", p[i].tag = CBWTag - 1
         PROVE  i = Len(p)
    <3>1. i + 1 \in 1 .. Len(q) /\ Answering(q[i + 1])
      BY <1>0, <1>1, <2>10 DEF Answering
    <3>2. i + 1 = Len(q)
      BY <1>0, <1>4, <3>1 DEF IInv, ReadInv, Flight
    <3> QED
      BY <1>1, <3>2
  <2>11. Flight'
    <3>1. pc' = "read" /\ phase' = "status" /\ rd' = rd /\ CBWTag' = CBWTag
      BY <1>0, <1>4, <2>1
    <3> QED
      BY <2>5, <2>9, <2>10, <3>1 DEF Flight, Answering
  <2> QED
    BY <1>1, <2>3, <2>8, <2>11 DEF IInv, ReadInv
<1> QED
  BY <1>3, <1>4

\* A status wrapper is read: only that of the current command is good.
LEMMA StatusInIInv == IInv /\ StatusIn => IInv'
<1> SUFFICES ASSUME IInv, StatusIn PROVE IInv'
  OBVIOUS
<1> DEFINE q == fifo[rd.dev]
<1>0. /\ pc \in Commands /\ UNCHANGED <<pc, retry, scanvars, rd, buf, ret, asynch, caches, short>>
      /\ UNCHANGED <<again, CBWTag, haltIn>> /\ q # <<>> /\ ~haltIn[rd.dev] /\ phase = "status"
      /\ fifo' = [fifo EXCEPT ![rd.dev] = Tail(@)] /\ phase' = Verdict(Head(q))
  BY DEF StatusIn, InTransport, Commands, readvars
<1>1. Queues' /\ q[1] \in Items /\ Head(q) = q[1]
  BY <1>0, TakeFirst
<1>2. /\ phase' \in {"reset", "good", "failed"}
      /\ phase' = "good" => Answering(q[1]) /\ q[1].status = "passed"
  <2>1. q[1].kind = "csw" => q[1].status \in {"passed", "failed", "phase"}
    BY <1>1 DEF Items, Sense
  <2> QED
    BY <1>0, <1>1, <2>1 DEF Verdict, Answering
<1>3. ScanInv'
  <2>1. again \in 0 .. 1 /\ CBWTag \in Nat /\ short \in BOOLEAN /\ haltIn \in [Devs -> BOOLEAN]
      /\ buf \in [0 .. Blocks - 1 -> (Devs \X (0 .. Blocks - 1)) \cup {None}]
    BY DEF IInv, ScanInv, TypeOK
  <2> QED
    BY <1>0, <1>2, <2>1, TransferScanInv
<1>4. Progress' /\ SmallBlks' = SmallBlks /\ \A n : Filled(n) => Filled(n)'
  BY <1>0, TransferProgress
<1>5. pc = "read" /\ phase' = "good" => Filled(rd.cnt - rd.blks + SmallBlks)
  BY <1>0, <1>2 DEF IInv, ReadInv, Flight
<1>6. Flight'
  BY <1>0, <1>2, <1>4, <1>5 DEF Flight
<1> QED
  BY <1>1, <1>3, <1>4, <1>6 DEF IInv, ReadInv

\* A stall, a time limit or a reset brings nothing into the buffer.
LEMMA RecoveryIInv ==
  IInv /\ (DataStall \/ InTimeout \/ StatusStall \/ ResetRequest \/ ClearHalts) => IInv'
<1> SUFFICES ASSUME IInv, DataStall \/ InTimeout \/ StatusStall \/ ResetRequest \/ ClearHalts
             PROVE  IInv'
  OBVIOUS
<1>0. /\ pc \in Commands
      /\ UNCHANGED <<pc, retry, scanvars, rd, buf, ret, asynch, caches, short, CBWTag>>
  BY DEF DataStall, InTimeout, StatusStall, ResetRequest, ClearHalts, InTransport, Commands,
         readvars
<1>1. again \in 0 .. 1 /\ CBWTag \in Nat /\ short \in BOOLEAN /\ haltIn \in [Devs -> BOOLEAN] /\ rd.dev \in Devs
      /\ buf \in [0 .. Blocks - 1 -> (Devs \X (0 .. Blocks - 1)) \cup {None}]
      /\ fifo \in [Devs -> Seq(Items)]
  BY <1>0, Reading DEF IInv, ScanInv, TypeOK, ReadInv, Queues
<1>2. /\ again' \in 0 .. 1 /\ haltIn' \in [Devs -> BOOLEAN]
      /\ phase' \in {"status", "reset", "clear", "failed"}
  <2>1. CASE DataStall \/ InTimeout
    BY <1>1, <2>1 DEF DataStall, InTimeout
  <2>2. CASE StatusStall
    BY <1>1, <2>2 DEF StatusStall, InTransport
  <2>3. CASE ResetRequest
    BY <1>1, <2>3 DEF ResetRequest
  <2>4. CASE ClearHalts
    BY <1>1, <2>4 DEF ClearHalts
  <2> QED
    BY <2>1, <2>2, <2>3, <2>4
<1>3. ScanInv'
  BY <1>0, <1>1, <1>2, TransferScanInv
<1>4. Progress' /\ SmallBlks' = SmallBlks /\ \A n : Filled(n) => Filled(n)'
  BY <1>0, TransferProgress
<1>5. Queues'
  <2>1. CASE UNCHANGED fifo
    BY <1>0, <2>1, TagsGrow
  <2>2. CASE fifo' = [fifo EXCEPT ![rd.dev] = <<>>]
    BY <1>0, <1>1, <2>2 DEF IInv, ReadInv, Queues
  <2> QED
    BY <2>1, <2>2 DEF DataStall, InTimeout, StatusStall, ResetRequest, ClearHalts
<1>6. ASSUME phase' = "status"
      PROVE  haltIn[rd.dev] /\ UNCHANGED <<fifo, haltIn>> /\ phase \in {"data", "status"}
  BY <1>6 DEF DataStall, InTimeout, StatusStall, ResetRequest, ClearHalts, InTransport
<1>7. Flight'
  <2>1. CASE phase' # "status"
    BY <1>2, <2>1 DEF Flight
  <2>2. CASE phase' = "status"
    BY <1>0, <1>6, <2>2 DEF IInv, ReadInv, Flight, Answering
  <2> QED
    BY <2>1, <2>2
<1> QED
  BY <1>3, <1>4, <1>5, <1>7 DEF IInv, ReadInv

-----------------------------------------------------------------------------
(* usb_stor_read.                                                          *)

\* What the steps of the caller leave alone.
LEMMA CallerFrame ==
  ASSUME IInv, UNCHANGED <<scanvars, CBWTag, fifo, haltIn, again, short>>, phase' = "command",
         pc \in Commands, pc' \in Commands \cup {"idle"}, retry' \in Nat,
         ret' \in 0 .. Blocks \cup {None}, asynch' \in BOOLEAN, caches' \in BOOLEAN,
         pc' = "idle" => caches' /\ (asynch' \/ ret' = 0), UNCHANGED buf
  PROVE  ScanInv' /\ Queues' /\ Flight'
<1>1. TypeOK'
  BY DEF IInv, ScanInv, TypeOK, scanvars, Commands
<1>2. Counted' /\ Current' /\ Switches'
  BY DEF IInv, ScanInv, Counted, Current, Switches, Restored, scanvars, Commands, Scanning
<1>3. Queues'
  BY TagsGrow
<1>4. Flight'
  BY DEF Flight
<1> QED
  BY <1>1, <1>2, <1>3, <1>4 DEF ScanInv

\* A step to the next command keeps the call as it is.
LEMMA GoesIInv ==
  ASSUME IInv, UNCHANGED <<scanvars, CBWTag, fifo, haltIn, again, short, buf, rd>>,
         phase' = "command",
         pc \in Commands, NEW cmd \in Commands, NEW r \in Nat, Goes(cmd, r)
  PROVE  IInv'
<1>1. ScanInv' /\ Queues' /\ Flight'
  BY CallerFrame DEF Goes, IInv, ScanInv, TypeOK, Commands
<1>2. Progress'
  BY DEF IInv, ReadInv, Progress, Goes, Filled, scanvars, Commands
<1> QED
  BY <1>1, <1>2 DEF IInv, ReadInv

\* A return with no more than what was read.
LEMMA ReturnsIInv ==
  ASSUME IInv, UNCHANGED <<scanvars, CBWTag, fifo, haltIn, again, short, buf, rd>>,
         phase' = "command",
         pc \in Commands, NEW n \in Nat, n <= rd.cnt - rd.blks, Returns(n),
         asynch' \in BOOLEAN, asynch' \/ n = 0
  PROVE  IInv'
<1>0. n \in 0 .. Blocks /\ retry \in Nat
  BY Reading, Bounds DEF IInv, ScanInv, TypeOK
<1>1. ScanInv' /\ Queues' /\ Flight'
  BY <1>0, CallerFrame DEF Returns, Commands
<1>2. Progress'
  BY DEF IInv, ReadInv, Progress, Returns, Filled, scanvars, Commands
<1> QED
  BY <1>1, <1>2 DEF IInv, ReadInv

\* usb_test_unit_ready and the loop over READ(10).
LEMMA CallerIInv == IInv /\ Caller => IInv'
<1> SUFFICES ASSUME IInv, Caller PROVE IInv'
  OBVIOUS
<1>0. UNCHANGED <<scanvars, buf, CBWTag, fifo, haltIn, again, short>>
  BY DEF Caller
<1>1. retry \in Nat /\ ReadRetry \in Nat /\ asynch \in BOOLEAN
  BY Bounds DEF IInv, ScanInv, TypeOK
<1>2. CASE TestUnitReady
  <2>0. pc \in Commands /\ UNCHANGED rd /\ phase' = "command"
    BY <1>2 DEF TestUnitReady, Returned, Commands
  <2>1. 0 <= rd.cnt - rd.blks
    BY <2>0, Reading
  <2>2. CASE Goes("read", ReadRetry) \/ Goes("tursense", retry) \/ (retry # 0 /\ Goes("tur", retry - 1))
    <3>1. retry # 0 => retry - 1 \in Nat
      BY <1>1
    <3> QED
      BY <1>0, <1>1, <2>0, <2>2, <3>1, GoesIInv DEF Commands
  <2>3. CASE Returns(0) /\ UNCHANGED asynch
    BY <1>0, <1>1, <2>0, <2>1, <2>3, ReturnsIInv
  <2> QED
    BY <1>2, <2>2, <2>3 DEF TestUnitReady
<1>3. CASE ReadLoop
  <2>0. pc \in Commands /\ phase' = "command"
    BY <1>3 DEF ReadLoop, Returned, Commands
  <2>1. rd.cnt - rd.blks \in Nat
    BY <2>0, Reading
  <2>2. CASE UNCHANGED rd /\ (Goes("readsense", retry) \/ (retry # 0 /\ Goes("read", retry - 1)))
    <3>1. retry # 0 => retry - 1 \in Nat
      BY <1>1
    <3> QED
      BY <1>0, <1>1, <2>0, <2>2, <3>1, GoesIInv DEF Commands
  <2>3. CASE UNCHANGED rd /\ Returns(rd.cnt - rd.blks) /\ asynch' = TRUE
    BY <1>0, <2>0, <2>1, <2>3, ReturnsIInv
  <2>4. CASE /\ pc = "read" /\ Returned("good")
             /\ rd' = [rd EXCEPT !.blks = @ - SmallBlks]
             /\ IF rd'.blks = 0
                THEN Returns(rd.cnt) /\ asynch' = TRUE
                ELSE Goes("read", ReadRetry)
    <3>1. /\ rd \in [dev : Devs, slot : Slots, start : 0 .. Blocks - 1, cnt : 1 .. Blocks,
                       blks : 0 .. Blocks]
          /\ rd.blks \in Nat /\ rd.cnt \in Nat /\ SmallBlks \in 1 .. rd.blks
          /\ rd.blks <= rd.cnt /\ rd.start + rd.cnt <= Blocks
      BY <2>0, Reading
    <3>2. rd.blks - SmallBlks \in 0 .. Blocks /\ rd.cnt \in 0 .. Blocks
      BY <3>1, Bounds
    <3>3. /\ rd' \in [dev : Devs, slot : Slots, start : 0 .. Blocks - 1, cnt : 1 .. Blocks,
                       blks : 0 .. Blocks]
          /\ rd'.dev = rd.dev /\ rd'.slot = rd.slot /\ rd'.start = rd.start /\ rd'.cnt = rd.cnt
          /\ rd'.blks = rd.blks - SmallBlks
      BY <2>4, <3>1, <3>2
    <3>4. rd'.cnt - rd'.blks = rd.cnt - rd.blks + SmallBlks /\ rd'.blks <= rd'.cnt
      BY <3>1, <3>3
    <3> DEFINE m == rd.cnt - rd.blks + SmallBlks
    <3>5. Filled(m)
      BY <2>4 DEF IInv, ReadInv, Flight, Returned
    <3>6. ~short /\ desc[rd.slot].blksz # "wrong" =>
             \A i \in 0 .. m - 1 : buf[i] = <<rd.dev, rd.start + i>>
      <4> HIDE DEF m
      <4> QED
        BY <3>5 DEF Filled
    <3>7. Filled(rd.cnt - rd.blks)'
      <4>1. rd'.cnt - rd'.blks = m /\ desc' = desc /\ buf' = buf /\ short' = short
        BY <1>0, <3>4 DEF scanvars
      <4> HIDE DEF m
      <4> QED
        BY <3>3, <3>6, <4>1 DEF Filled
    <3>8. ScanInv' /\ Queues' /\ Flight'
      BY <1>0, <1>1, <2>0, <2>4, <3>2, CallerFrame
         DEF Goes, Returns, Commands, IInv, ScanInv, TypeOK
    <3>9. rd'.slot < usb_max_devs' /\ desc'[rd'.slot].target = rd'.dev
      BY <1>0, <2>0, <3>3 DEF IInv, ReadInv, Progress, scanvars
    <3>10. pc' \in Commands => rd'.blks > 0
      BY <2>4, <3>1, <3>3 DEF Returns, Goes, Commands
    <3>11. pc' = "idle" => ret' <= rd'.cnt - rd'.blks
      BY <2>4, <3>1, <3>3 DEF Returns, Goes
    <3>12. Progress'
      BY <3>1, <3>3, <3>4, <3>7, <3>9, <3>10, <3>11 DEF Progress
    <3> QED
      BY <3>8, <3>12 DEF IInv, ReadInv
  <2> QED
    BY <1>3, <2>2, <2>3, <2>4 DEF ReadLoop
<1> QED
  BY <1>2, <1>3 DEF Caller

\* usb_stor_read finds the device by its slot.
LEMMA CallIInv == IInv /\ Call => IInv'
<1> SUFFICES ASSUME IInv,
                    NEW slot \in 0 .. usb_max_devs - 1, NEW start \in 0 .. Blocks - 1,
                    NEW cnt \in 1 .. Blocks - start, usb_stor_read(slot, start, cnt)
             PROVE  IInv'
  BY DEF Call
<1> USE Bounds DEF scanvars
<1>1. usb_max_devs \in Nat /\ usb_max_devs <= USB_MAX_STOR_DEV /\ pc = "idle"
  BY DEF IInv, ScanInv, TypeOK, usb_stor_read
<1>2. slot \in Slots /\ slot < usb_max_devs
  BY <1>1 DEF Slots
<1>3. desc[slot].target \in Devs /\ pusb_dev[privptr[desc[slot].target]] = desc[slot].target
  BY DEF IInv, ScanInv, Counted
<1>4. cnt \in 1 .. Blocks /\ start + cnt <= Blocks
  OBVIOUS
<1>5. TypeOK'
  <2>1. buf' \in [0 .. Blocks - 1 -> (Devs \X (0 .. Blocks - 1)) \cup {None}]
    BY DEF usb_stor_read
  <2> QED
    BY <2>1 DEF IInv, ScanInv, TypeOK, usb_stor_read
<1>6. Counted' /\ Current' /\ Switches'
  BY DEF IInv, ScanInv, Counted, Current, Switches, Restored, usb_stor_read, Scanning
<1>7. Queues'
  BY TagsGrow DEF usb_stor_read
<1>8. Flight'
  BY DEF Flight, usb_stor_read
<1>9. Progress'
  <2>1. rd' = [dev |-> desc[slot].target, slot |-> slot, start |-> start, cnt |-> cnt, blks |-> cnt]
    BY <1>3 DEF usb_stor_read
  <2>2. rd' \in [dev : Devs, slot : Slots, start : 0 .. Blocks - 1, cnt : 1 .. Blocks,
                 blks : 0 .. Blocks]
    BY <1>2, <1>3, <1>4, <2>1
  <2>3. Filled(rd.cnt - rd.blks)'
    BY <1>4, <2>1 DEF Filled
  <2> QED
    BY <1>2, <1>4, <2>1, <2>2, <2>3 DEF Progress, usb_stor_read, Commands
<1> QED
  BY <1>5, <1>6, <1>7, <1>8, <1>9 DEF IInv, ScanInv, ReadInv

\* A step that changes nothing preserves the invariant.
LEMMA StutterIInv == IInv /\ UNCHANGED vars => IInv'
<1> SUFFICES ASSUME IInv, UNCHANGED vars PROVE IInv'
  OBVIOUS
<1> USE DEF vars, scanvars, readvars, transport
<1>1. TypeOK'
  BY DEF IInv, ScanInv, TypeOK
<1>2. Counted' /\ Current' /\ Switches'
  BY DEF IInv, ScanInv, Counted, Current, Switches, Restored
<1>3. Queues'
  BY TagsGrow
<1>4. Progress' /\ SmallBlks' = SmallBlks /\ Wanted' = Wanted /\ \A n : Filled(n) => Filled(n)'
  BY TransferProgress
<1>5. Flight'
  BY <1>4 DEF IInv, ReadInv, Flight, Answering, Content
<1> QED
  BY <1>1, <1>2, <1>3, <1>4, <1>5 DEF IInv, ScanInv, ReadInv

\* IInv holds in every reachable state.
LEMMA Inductive == Spec => []IInv
<1>1. IInv /\ [Next]_vars => IInv'
  BY ScanIInv, CommandIInv, DataInIInv, StatusInIInv, RecoveryIInv, CallerIInv, CallIInv,
     StutterIInv
  DEF Next, Driver, Transport
<1> QED
  BY <1>1, InitIInv, PTL DEF Spec

-----------------------------------------------------------------------------
(* The theorems.                                                           *)

\* The storage code stays within its types: usb_max_devs within the tables, the
\* retry counters at 0 or above.
THEOREM TypeCorrect == Spec => []TypeOK
<1>1. IInv => TypeOK
  BY DEF IInv, ScanInv
<1> QED
  BY <1>1, Inductive, PTL

\* Every device usb_stor_scan has counted has a us_data of its own, on every bus.
THEOREM SlotsAreOwn == Spec => []OwnSlot
<1>1. IInv => OwnSlot
  BY DEF IInv, ScanInv, Counted, OwnSlot
<1> QED
  BY <1>1, Inductive, PTL

\* However usb_stor_read ends, it leaves the caches on, and asynchronous
\* transfers allowed unless the device was not ready.
THEOREM AlwaysRestored == Spec => []Restored
<1>1. IInv => Restored
  BY DEF IInv, ScanInv, Switches
<1> QED
  BY <1>1, Inductive, PTL

\* The blocks usb_stor_read says it has read are those asked for, whatever
\* earlier commands have left in the stick, unless the stick itself has passed a
\* read that was short.
THEOREM ReadsTheData == Spec => []ReadIsData
<1>1. ASSUME IInv PROVE ReadIsData
  <2> SUFFICES ASSUME pc = "idle", ret \in Nat, ~short, desc[rd.slot].blksz # "wrong",
                      NEW i \in 0 .. ret - 1
               PROVE  buf[i] = <<desc[rd.slot].target, rd.start + i>>
    BY DEF ReadIsData
  <2>1. /\ rd \in [dev : Devs, slot : Slots, start : 0 .. Blocks - 1, cnt : 1 .. Blocks,
                    blks : 0 .. Blocks]
        /\ desc[rd.slot].target = rd.dev /\ ret <= rd.cnt - rd.blks
        /\ Filled(rd.cnt - rd.blks)
    BY <1>1 DEF IInv, ReadInv, Progress
  <2>2. i \in 0 .. rd.cnt - rd.blks - 1
    BY <2>1, Bounds
  <2> QED
    BY <2>1, <2>2 DEF Filled
<1> QED
  BY <1>1, Inductive, PTL
=============================================================================
