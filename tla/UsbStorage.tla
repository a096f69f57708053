----------------------------- MODULE UsbStorage -----------------------------
(***************************************************************************)
(* USB mass storage (common/usb_storage.c): finding the sticks on the bus  *)
(* (usb_stor_scan), and reading blocks (usb_stor_read) over the bulk-only  *)
(* transport, from sticks that stall, fail, answer late or miss a reset.   *)
(*                                                                         *)
(* The i-th device on the bus is of kind Bus[i].  Block b of device d is   *)
(* <<d, b>>.  Each stick has a queue of what its bulk-in endpoint will     *)
(* send next: the data of a command, then its status wrapper (CSW).  What  *)
(* a reset does not throw away is still there when the next command is     *)
(* sent.  The commands of usb_stor_get_info are seen as passing or failing *)
(* as a whole; those of usb_stor_read are taken apart into phases.         *)
(***************************************************************************)
EXTENDS Integers, Sequences

CONSTANTS
    Bus,              \* kinds of the devices: "stick", "odd", "other"
    USB_MAX_STOR_DEV, \* size of usb_stor and usb_dev_desc
    USB_MAX_READ_BLK, \* blocks of one READ(10)
    Blocks,           \* blocks of a stick
    InquiryRetry,     \* initial retry counters: 5,
    ReadyRetry,       \*   10,
    CapacityRetry,    \*   3,
    ReadRetry,        \*   2
    SharedNumber,     \* the IN endpoint has the number of an OUT endpoint
    MaxReads,         \* bound: calls of usb_stor_read
    None

ASSUME UsbAssumption ==
    /\ Bus \in Seq({"stick", "odd", "other"})
    /\ USB_MAX_STOR_DEV \in Nat \ {0}
    /\ USB_MAX_READ_BLK \in Nat \ {0}
    /\ Blocks \in Nat \ {0}
    /\ {InquiryRetry, ReadyRetry, CapacityRetry, ReadRetry} \subseteq Nat
    /\ SharedNumber \in BOOLEAN
    /\ MaxReads \in Nat
    /\ None \notin Nat

Devs == 1 .. Len(Bus)
Slots == 0 .. USB_MAX_STOR_DEV - 1

VARIABLES
    pc,           \* "scan", "inquiry", "ready", "capacity"; "idle"; the command
                  \* usb_stor_read is in: "tur", "tursense", "read", "readsense"
    at,           \* scan: device looked at
    retry,        \* the retry counter of the loop the code is in
    inq,          \* usb_stor_buf: what the last INQUIRY left in it: the device
                  \* is of unknown type, the drive is removable
    usb_max_devs,
    desc,         \* usb_dev_desc: target and blksz, by slot
    pusb_dev,     \* usb_stor[slot].pusb_dev
    privptr,      \* dev->privptr, by device
    rd,           \* usb_stor_read: device, arguments, blocks still to read
    buf,          \* the caller's buffer, by block
    ret,          \* what the last usb_stor_read returned
    asynch,       \* asynch_allowed
    caches,       \* the data caches are on
    phase,        \* usb_stor_BBB_transport: "command", "data", "status",
                  \* "reset", "clear", or "good", "failed": it has returned
    again,        \* its retry of the STATUS phase
    CBWTag,
    fifo,         \* what the bulk-in endpoint of a stick is going to send
    haltIn,       \* the bulk-in endpoint of a stick is halted
    short,        \* history: the stick has let a READ(10) of this call pass
                  \* although it did not send all blocks
    reads

scanvars == <<at, inq, usb_max_devs, desc, pusb_dev, privptr>>
readvars == <<rd, buf, ret, asynch, caches, short, reads>>
transport == <<phase, again, CBWTag, fifo, haltIn>>
vars == <<pc, retry, scanvars, readvars, transport>>

-----------------------------------------------------------------------------
(* usb_stor_scan                                                           *)

\* Mutant: the us_data of a device is found by its place on the bus.
SlotByPlace == (at - 1) % USB_MAX_STOR_DEV

\* The slot usb_stor_scan gives to the next device.
NextSlot == usb_max_devs

\* Mutant: the table is taken to be large enough.
ScanEndsNoLimit == at > Len(Bus)

\* usb_get_dev_index has no more devices, or the table is full.
ScanEnds == at > Len(Bus) \/ usb_max_devs = USB_MAX_STOR_DEV

\* usb_storage_probe: not mass storage.
ProbeOther ==
    /\ pc = "scan"
    /\ ~ScanEnds
    /\ Bus[at] = "other"
    /\ at' = at + 1
    /\ UNCHANGED <<pc, retry, inq, usb_max_devs, desc, pusb_dev, privptr, readvars,
                   transport>>

\* The slot is filled in, but the protocol is not supported or the interface
\* cannot be set: dev->privptr is left alone.
ProbeProblem ==
    /\ pc = "scan"
    /\ ~ScanEnds
    /\ Bus[at] # "other"
    /\ pusb_dev' = [pusb_dev EXCEPT ![NextSlot] = at]
    /\ at' = at + 1
    /\ UNCHANGED <<pc, retry, inq, usb_max_devs, desc, privptr, readvars, transport>>

\* The slot is filled in; usb_stor_get_info resets the device and goes on.
Probe ==
    /\ pc = "scan"
    /\ ~ScanEnds
    /\ Bus[at] # "other"
    /\ pusb_dev' = [pusb_dev EXCEPT ![NextSlot] = at]
    /\ privptr' = [privptr EXCEPT ![at] = NextSlot]
    /\ desc' = [desc EXCEPT ![usb_max_devs].target = at]
    /\ pc' = "inquiry"
    /\ retry' = InquiryRetry
    /\ UNCHANGED <<at, inq, usb_max_devs, readvars, transport>>

\* usb_stor_get_info returns; anything but 0 counts the device.
InfoReturns(counted) ==
    /\ pc' = "scan"
    /\ at' = at + 1
    /\ usb_max_devs' = IF counted THEN usb_max_devs + 1 ELSE usb_max_devs

\* After the inquiry: a device of unknown type is skipped.
InquiryDone ==
    IF inq'.unknown
    THEN InfoReturns(FALSE) /\ UNCHANGED retry
    ELSE pc' = "ready" /\ retry' = ReadyRetry /\ UNCHANGED <<at, usb_max_devs>>

NoInquiry == [unknown |-> FALSE, removable |-> FALSE]
InquiryData == [unknown : {Bus[at] = "odd"}, removable : BOOLEAN]

\* INQUIRY passes.  With no retry left usb_inquiry reports an error even so,
\* and the -1 of usb_stor_get_info counts the device.
InquiryPasses ==
    /\ pc = "inquiry"
    /\ inq' \in InquiryData
    /\ IF retry = 0 THEN InfoReturns(TRUE) /\ UNCHANGED retry ELSE InquiryDone
    /\ UNCHANGED <<desc, pusb_dev, privptr, readvars, transport>>

\* Mutant: the last failure starts the retries over.
InquiryFailsForever ==
    /\ pc = "inquiry"
    /\ inq' \in InquiryData \cup {inq}
    /\ retry' = IF retry = 0 THEN InquiryRetry ELSE retry - 1
    /\ UNCHANGED <<pc, at, usb_max_devs, desc, pusb_dev, privptr, readvars,
                   transport>>

\* INQUIRY fails, before or after its data has arrived.  When all retries are
\* used up the counter is -1, which is taken for success: what is in
\* usb_stor_buf, from another device or from none, is used.
InquiryFails ==
    /\ pc = "inquiry"
    /\ inq' \in InquiryData \cup {inq}
    /\ IF retry = 0
       THEN InquiryDone
       ELSE retry' = retry - 1 /\ UNCHANGED <<pc, at, usb_max_devs>>
    /\ UNCHANGED <<desc, pusb_dev, privptr, readvars, transport>>

ReadyPasses ==
    /\ pc = "ready"
    /\ pc' = "capacity"
    /\ retry' = CapacityRetry
    /\ UNCHANGED <<scanvars, readvars, transport>>

\* A removable drive that is not ready is counted; its blksz stays 0.
ReadyFails ==
    /\ pc = "ready"
    /\ IF retry = 0
       THEN InfoReturns(inq.removable) /\ UNCHANGED retry
       ELSE retry' = retry - 1 /\ UNCHANGED <<pc, at, usb_max_devs>>
    /\ UNCHANGED <<inq, desc, pusb_dev, privptr, readvars, transport>>

\* init_part looks for partitions with usb_stor_read, in the middle of the scan.
\* A call that gets as far as reading allows asynchronous transfers when it ends.
InitPart ==
    /\ asynch' \in {asynch, TRUE}
    /\ UNCHANGED <<rd, buf, ret, caches, short, reads>>

CapacityPasses ==
    /\ pc = "capacity"
    /\ desc' = [desc EXCEPT ![usb_max_devs].blksz = "true"]
    /\ InitPart
    /\ InfoReturns(TRUE)
    /\ UNCHANGED <<retry, inq, pusb_dev, privptr, transport>>

\* The default size, with its bytes swapped on a little-endian machine.
CapacityFails ==
    /\ pc = "capacity"
    /\ IF retry = 0
       THEN /\ desc' = [desc EXCEPT ![usb_max_devs].blksz = "wrong"]
            /\ InitPart
            /\ InfoReturns(TRUE)
            /\ UNCHANGED retry
       ELSE retry' = retry - 1 /\ UNCHANGED <<pc, at, usb_max_devs, desc, readvars>>
    /\ UNCHANGED <<inq, pusb_dev, privptr, transport>>

\* usb_stor_scan returns; asynchronous transfers are allowed again.  The loop
\* variable is gone, and the next scan begins by clearing usb_stor_buf.
ScanDone ==
    /\ pc = "scan"
    /\ ScanEnds
    /\ pc' = "idle"
    /\ asynch' = TRUE
    /\ at' = 1
    /\ inq' = NoInquiry
    /\ UNCHANGED <<retry, usb_max_devs, desc, pusb_dev, privptr, rd, buf, ret, caches,
                   short, reads, transport>>

Scan ==
    \/ ProbeOther \/ ProbeProblem \/ Probe
    \/ InquiryPasses \/ InquiryFails
    \/ ReadyPasses \/ ReadyFails
    \/ CapacityPasses \/ CapacityFails
    \/ ScanDone

-----------------------------------------------------------------------------
(* The sticks.                                                             *)

Csw(tag, st) == [kind |-> "csw", tag |-> tag, status |-> st]
Sense == [kind |-> "sense"]
Content(blks) == [kind |-> "data", blks |-> blks]

Min2(a, b) == IF a < b THEN a ELSE b

\* smallblks, and where the blocks that are read next begin on the disk.
SmallBlks == Min2(rd.blks, USB_MAX_READ_BLK)
ReadStart == rd.start + rd.cnt - rd.blks

\* srb->datalen is not 0.
HasData ==
    \/ pc \in {"tursense", "readsense"}
    \/ /\ pc = "read"
       /\ desc[rd.slot].blksz # "zero"

\* The blocks READ(10) asks for.
Wanted == [j \in 1 .. SmallBlks |-> <<rd.dev, ReadStart + j - 1>>]

\* What a stick may answer to the current command, sent with this tag: what it
\* will send, and whether it halts the endpoint first.  A READ(10) delivers all
\* blocks and passes; or it delivers some or none, and has failed or, with a
\* residue, passed even so.  (A status that waits behind a halted endpoint is
\* never read while it is current, so it does not matter which one it is.)
Answers(tag) ==
    LET answer(i, h) == [items |-> i, halt |-> h]
    IN  CASE pc = "tur" ->
               {answer(<<Csw(tag, st)>>, FALSE) : st \in {"passed", "failed"}}
          [] pc \in {"tursense", "readsense"} ->
               {answer(<<Sense, Csw(tag, "passed")>>, FALSE)}
          [] pc = "read" /\ ~HasData ->
               {answer(<<Csw(tag, "phase")>>, FALSE)}
          [] OTHER ->
               {answer(<<Content(Wanted), Csw(tag, "passed")>>, FALSE),
                answer(<<Csw(tag, "failed")>>, TRUE)} \cup
               {answer(<<Content(SubSeq(Wanted, 1, k)), Csw(tag, st)>>, FALSE) :
                  k \in 0 .. SmallBlks - 1, st \in {"passed", "failed"}}

\* An answer that passes without all blocks.
PassesShort(a) ==
    /\ pc = "read"
    /\ a.items[Len(a.items)].status = "passed"
    /\ a.items[1] # Content(Wanted)

-----------------------------------------------------------------------------
(* usb_stor_BBB_transport                                                  *)

InTransport(ph) == pc \in {"tur", "tursense", "read", "readsense"} /\ phase = ph

\* The command wrapper is sent; or it is not taken, or taken and not confirmed.
Command ==
    /\ InTransport("command")
    /\ CBWTag' = CBWTag + 1
    /\ again' = 0
    /\ \/ \E a \in Answers(CBWTag) :
            /\ fifo' = [fifo EXCEPT ![rd.dev] = @ \o a.items]
            /\ haltIn' = [haltIn EXCEPT ![rd.dev] = @ \/ a.halt]
            /\ phase' \in {IF HasData THEN "data" ELSE "status", "reset"}
            /\ short' = (short \/ PassesShort(a))
       \/ phase' = "reset" /\ UNCHANGED <<fifo, haltIn, short>>
    /\ UNCHANGED <<pc, retry, scanvars, rd, buf, ret, asynch, caches, reads>>

\* Where in the buffer READ(10) puts block j of what it gets: buf_addr moves on
\* by blksz for every block read, 256 times too far with the wrong blksz.
BufPos(j) ==
    (rd.cnt - rd.blks) * (IF desc[rd.slot].blksz = "wrong" THEN 256 ELSE 1) + j - 1

\* The buffer once item lies in it: blocks, or the few bytes of something else.
Landed(item) ==
    LET got == IF item.kind = "data" THEN item.blks ELSE <<None>>
    IN  [i \in DOMAIN buf |->
           IF \E j \in 1 .. Len(got) : BufPos(j) = i
           THEN got[CHOOSE j \in 1 .. Len(got) : BufPos(j) = i]
           ELSE buf[i]]

\* DATA phase.  usb_stor_BBB_clear_endpt_stall names the endpoint without its
\* direction: the halted IN endpoint stays halted, and the request fails unless
\* there is an OUT endpoint of that number.
DataStall ==
    /\ InTransport("data")
    /\ haltIn[rd.dev]
    /\ \/ SharedNumber /\ phase' = "status"
       \/ phase' = "reset"
    /\ UNCHANGED <<pc, retry, scanvars, readvars, again, CBWTag, fifo, haltIn>>

\* Something arrives: more than 18 bytes are an error for REQUEST SENSE.
DataIn ==
    LET item == Head(fifo[rd.dev])
    IN  /\ InTransport("data")
        /\ ~haltIn[rd.dev]
        /\ fifo[rd.dev] # <<>>
        /\ fifo' = [fifo EXCEPT ![rd.dev] = Tail(@)]
        /\ IF pc = "read"
           THEN buf' = Landed(item) /\ phase' = "status"
           ELSE /\ phase' = IF item.kind = "data" THEN "reset" ELSE "status"
                /\ UNCHANGED buf
        /\ UNCHANGED <<pc, retry, scanvars, rd, ret, asynch, caches, short, reads,
                       again, CBWTag, haltIn>>

\* Nothing arrives within the time usb_bulk_msg waits.
InTimeout ==
    /\ InTransport("data") \/ InTransport("status")
    /\ ~haltIn[rd.dev]
    /\ phase' = "reset"
    /\ UNCHANGED <<pc, retry, scanvars, readvars, again, CBWTag, fifo, haltIn>>

\* STATUS phase: one retry after a stall.
StatusStall ==
    /\ InTransport("status")
    /\ haltIn[rd.dev]
    /\ \/ SharedNumber /\ again = 0 /\ again' = 1 /\ UNCHANGED phase
       \/ phase' = "reset" /\ UNCHANGED again
    /\ UNCHANGED <<pc, retry, scanvars, readvars, CBWTag, fifo, haltIn>>

\* Mutant: the tag of the status wrapper is not compared.
VerdictAnyTag(item) ==
    IF item.kind # "csw" THEN "reset"
    ELSE CASE item.status = "passed" -> "good"
           [] item.status = "failed" -> "failed"
           [] item.status = "phase"  -> "reset"

\* What the checks on the status wrapper make of item.  The residue is computed
\* and not looked at; usb_bulk_msg never transfers more than datalen, so that
\* the test of data_actlen against it never holds.
Verdict(item) ==
    IF item.kind # "csw" THEN "reset"
    ELSE IF item.tag # CBWTag - 1 THEN "reset"
    ELSE CASE item.status = "passed" -> "good"
           [] item.status = "failed" -> "failed"
           [] item.status = "phase"  -> "reset"

StatusIn ==
    /\ InTransport("status")
    /\ ~haltIn[rd.dev]
    /\ fifo[rd.dev] # <<>>
    /\ fifo' = [fifo EXCEPT ![rd.dev] = Tail(@)]
    /\ phase' = Verdict(Head(fifo[rd.dev]))
    /\ UNCHANGED <<pc, retry, scanvars, readvars, again, CBWTag, haltIn>>

\* usb_stor_BBB_reset: a stalled request ends it; one that is lost does not, and
\* the stick forgets nothing.
ResetRequest ==
    /\ InTransport("reset")
    /\ \/ fifo' = [fifo EXCEPT ![rd.dev] = <<>>] /\ phase' = "clear"
       \/ phase' = "clear" /\ UNCHANGED fifo
       \/ phase' = "failed" /\ UNCHANGED fifo
    /\ UNCHANGED <<pc, retry, scanvars, readvars, again, CBWTag, haltIn>>

\* usb_clear_halt of both endpoints; failures are ignored.
ClearHalts ==
    /\ InTransport("clear")
    /\ phase' = "failed"
    /\ \/ haltIn' = [haltIn EXCEPT ![rd.dev] = FALSE]
       \/ haltIn[rd.dev] /\ UNCHANGED haltIn
    /\ UNCHANGED <<pc, retry, scanvars, readvars, again, CBWTag, fifo>>

Transport ==
    Command \/ DataStall \/ DataIn \/ InTimeout \/ StatusStall \/ StatusIn
    \/ ResetRequest \/ ClearHalts

-----------------------------------------------------------------------------
(* usb_stor_read                                                           *)

\* The call: the device is found by desc.target, its us_data by privptr.
usb_stor_read(slot, start, cnt) ==
    /\ pc = "idle"
    /\ reads < MaxReads
    /\ reads' = reads + 1
    /\ rd' = [dev |-> pusb_dev[privptr[desc[slot].target]], slot |-> slot,
              start |-> start, cnt |-> cnt, blks |-> cnt]
    /\ buf' = [i \in 0 .. Blocks - 1 |-> None]
    /\ ret' = None
    /\ asynch' = FALSE
    /\ caches' = FALSE
    /\ short' = FALSE
    /\ pc' = "tur"
    /\ retry' = ReadyRetry
    /\ phase' = "command"
    /\ UNCHANGED <<scanvars, again, CBWTag, fifo, haltIn>>

\* The next command of the call, or its end.
Goes(cmd, r) == pc' = cmd /\ retry' = r /\ UNCHANGED <<ret, asynch, caches>>
Returns(n) ==
    /\ pc' = "idle"
    /\ ret' = n
    /\ caches' = TRUE
    /\ UNCHANGED retry

Returned(st) == phase = st /\ phase' = "command"

\* Mutant: the not-ready return forgets the data caches.
TestUnitReadyNoCaches ==
    \/ /\ pc = "tur" /\ Returned("good")
       /\ Goes("read", ReadRetry)
       /\ UNCHANGED rd
    \/ /\ pc = "tur" /\ Returned("failed")
       /\ Goes("tursense", retry)
       /\ UNCHANGED rd
    \/ /\ pc = "tursense" /\ \E st \in {"good", "failed"} : Returned(st)
       /\ IF retry = 0
          THEN pc' = "idle" /\ ret' = 0 /\ UNCHANGED <<retry, asynch, caches>>
          ELSE Goes("tur", retry - 1)
       /\ UNCHANGED rd

\* usb_test_unit_ready.  Its failure returns without usb_disable_asynch(0).
TestUnitReady ==
    \/ /\ pc = "tur" /\ Returned("good")
       /\ Goes("read", ReadRetry)
       /\ UNCHANGED rd
    \/ /\ pc = "tur" /\ Returned("failed")
       /\ Goes("tursense", retry)
       /\ UNCHANGED rd
    \/ /\ pc = "tursense" /\ \E st \in {"good", "failed"} : Returned(st)
       /\ IF retry = 0 THEN Returns(0) /\ UNCHANGED asynch ELSE Goes("tur", retry - 1)
       /\ UNCHANGED rd

\* The loop over READ(10): REQUEST SENSE after a failure, then a retry or the
\* number of blocks read so far.
ReadLoop ==
    \/ /\ pc = "read" /\ Returned("good")
       /\ rd' = [rd EXCEPT !.blks = @ - SmallBlks]
       /\ IF rd'.blks = 0
          THEN Returns(rd.cnt) /\ asynch' = TRUE
          ELSE Goes("read", ReadRetry)
    \/ /\ pc = "read" /\ Returned("failed")
       /\ Goes("readsense", retry)
       /\ UNCHANGED rd
    \/ /\ pc = "readsense" /\ \E st \in {"good", "failed"} : Returned(st)
       /\ IF retry = 0
          THEN Returns(rd.cnt - rd.blks) /\ asynch' = TRUE
          ELSE Goes("read", retry - 1)
       /\ UNCHANGED rd

Caller ==
    /\ TestUnitReady \/ ReadLoop
    /\ UNCHANGED <<scanvars, buf, short, reads, again, CBWTag, fifo, haltIn>>

-----------------------------------------------------------------------------

\* usb_stor_scan has cleared the tables and disabled asynchronous transfers.
Init ==
    /\ pc = "scan"
    /\ at = 1
    /\ retry = 0
    /\ inq = NoInquiry
    /\ usb_max_devs = 0
    /\ desc = [k \in Slots |-> [target |-> None, blksz |-> "zero"]]
    /\ pusb_dev = [k \in Slots |-> None]
    /\ privptr = [d \in Devs |-> None]
    /\ rd = None
    /\ buf = [i \in 0 .. Blocks - 1 |-> None]
    /\ ret = None
    /\ asynch = FALSE
    /\ caches = TRUE
    /\ phase = "command"
    /\ again = 0
    /\ CBWTag = 0
    /\ fifo = [d \in Devs |-> <<>>]
    /\ haltIn = [d \in Devs |-> FALSE]
    /\ short = FALSE
    /\ reads = 0

Call ==
    \E slot \in 0 .. usb_max_devs - 1, start \in 0 .. Blocks - 1 :
      \E cnt \in 1 .. Blocks - start : usb_stor_read(slot, start, cnt)

Driver == Scan \/ Transport \/ Caller

Next == Driver \/ Call

\* There is one thread and every transfer it waits for has a time limit.
Spec == Init /\ [][Next]_vars /\ WF_vars(Driver)

-----------------------------------------------------------------------------
(* Properties.                                                             *)

\* The variables have their types; the table of storage devices holds at most
\* USB_MAX_STOR_DEV entries and no retry counter runs below 0.
TypeOK ==
    /\ pc \in {"scan", "inquiry", "ready", "capacity", "idle", "tur", "tursense",
               "read", "readsense"}
    /\ at \in 1 .. Len(Bus) + 1
    /\ retry \in Nat
    /\ inq \in [unknown : BOOLEAN, removable : BOOLEAN]
    /\ usb_max_devs \in 0 .. USB_MAX_STOR_DEV
    /\ desc \in [Slots -> [target : Devs \cup {None},
                           blksz : {"zero", "true", "wrong"}]]
    /\ pusb_dev \in [Slots -> Devs \cup {None}]
    /\ privptr \in [Devs -> Slots \cup {None}]
    /\ buf \in [0 .. Blocks - 1 -> (Devs \X (0 .. Blocks - 1)) \cup {None}]
    /\ ret \in 0 .. Blocks \cup {None}
    /\ asynch \in BOOLEAN
    /\ caches \in BOOLEAN
    /\ phase \in {"command", "data", "status", "reset", "clear", "good", "failed"}
    /\ again \in 0 .. 1
    /\ CBWTag \in Nat
    /\ haltIn \in [Devs -> BOOLEAN]
    /\ short \in BOOLEAN

\* When usb_stor_read returns n, the first n blocks of the buffer are the blocks
\* asked for, of the device asked for: whatever stalled, failed, timed out, or
\* was left over in the stick from a command before.  Two exceptions: the stick
\* has passed a READ(10) of this call without sending all blocks (the residue is
\* not looked at), and a device whose READ CAPACITY failed (the size assumed
\* then is wrong).
ReadIsData ==
    pc = "idle" /\ ret \in Nat /\ ~short /\ desc[rd.slot].blksz # "wrong" =>
      \A i \in 0 .. ret - 1 : buf[i] = <<desc[rd.slot].target, rd.start + i>>

\* Every storage device counted by usb_stor_scan has a us_data of its own, the
\* one its privptr leads to, although devices that were skipped have used the
\* same slot before.
OwnSlot ==
    pc = "idle" =>
      \A k \in 0 .. usb_max_devs - 1 :
        /\ privptr[desc[k].target] = k
        /\ pusb_dev[k] = desc[k].target

\* usb_stor_read leaves with the data caches on, however it ends; and with
\* asynchronous transfers allowed, unless the device was not ready.
Restored == pc = "idle" => caches /\ (asynch \/ ret = 0)

\* Every scan and every usb_stor_read comes to an end, however the sticks behave.
UsbReturns == (pc # "idle") ~> (pc = "idle")

=============================================================================
