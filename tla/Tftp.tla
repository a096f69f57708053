-------------------------------- MODULE Tftp --------------------------------
(***************************************************************************)
(* Loading a file with TFTP: the client of net/tftp.c in the receive loop  *)
(* of net/net.c (module Net), with a server and a network that loses,      *)
(* duplicates, delays and reorders packets.                                *)
(*                                                                         *)
(* Every request opens a session of its own at the server.  Session s      *)
(* sends blocks of BlkSize[s] units: what its OACK acknowledges, or the    *)
(* default without one.  Its file has Blocks[s] blocks, all full but the   *)
(* last; the i-th is <<s, i>> in a packet and its units are <<s, j>> in    *)
(* memory, j their place in the file.  The file may be replaced between    *)
(* two sessions, and a mixture of two files is none.  Block numbers are    *)
(* taken modulo SequenceSize (2^16 in the code), addresses and sizes count *)
(* units.                                                                  *)
(***************************************************************************)
EXTENDS Net, Sequences

CONSTANTS
    Blocks,           \* Blocks[s]: blocks of the file session s serves
    BlkSize,          \* BlkSize[s]: the block size of session s
    LastLen,          \* LastLen[s]: units of the last block of its file
    TFTP_BLOCK_SIZE,  \* the block size without an OACK
    SequenceSize,     \* TFTP_SEQUENCE_SIZE
    MemUnits,         \* memory behind load_addr
    Ports,            \* values of TftpOurPort
    TIMEOUT_COUNT,    \* timeouts before tftp.c gives up
    TIMEOUT,          \* of tftp.c, in ticks (5 s)
    NoBody,           \* packets that carry no file data, memory never written
    MaxSessions       \* bound: sessions the server opens

ASSUME TftpAssumption ==
    /\ MaxSessions \in Nat
    /\ Blocks \in [1 .. MaxSessions -> Nat \ {0}]
    /\ BlkSize \in [1 .. MaxSessions -> Nat \ {0}]
    /\ LastLen \in [1 .. MaxSessions -> Nat]
    /\ \A s \in 1 .. MaxSessions : LastLen[s] < BlkSize[s]
    /\ TFTP_BLOCK_SIZE \in Nat \ {0}
    /\ SequenceSize \in Nat \ {0, 1}
    /\ MemUnits \in Nat
    /\ TIMEOUT_COUNT \in Nat
    /\ TIMEOUT \in Nat \ {0}

FileLen(s) == (Blocks[s] - 1) * BlkSize[s] + LastLen[s]

\* There is memory for every file; tftp.c does not look.
ASSUME FilesFit == \A s \in 1 .. MaxSessions : FileLen(s) <= MemUnits

\* A timeout of TFTP and the delay of a restart together are shorter than the
\* time ARP takes to give up (5 s + 10 s, 20 s).
ASSUME TimingAssumption == TIMEOUT + RESTART_DELAY < (ARP_TIMEOUT_COUNT - 1) * ARP_TIMEOUT

WELL_KNOWN_PORT == 0

Sessions == 1 .. MaxSessions
Bodies == Sessions \X (Nat \ {0})
Units == Sessions \X Nat
Slots == 0 .. MemUnits - 1

VARIABLES
    mem,        \* what the memory at load_addr holds, by unit
    tftp,       \* the static variables of tftp.c
    sess        \* the sessions of the server: the port of the client, the
                \* block to be acknowledged next, the attempt it belongs to

tftpvars == <<mem, tftp, sess>>
vars == <<netvars, tftpvars>>

-----------------------------------------------------------------------------
(* Packets.                                                                *)

\* A packet without file data.  A port of the client is an element of Ports,
\* a port of the server is a session or WELL_KNOWN_PORT.
Packet(k, s, d, n) ==
    [kind |-> k, src |-> s, dst |-> d, blk |-> n, body |-> NoBody]
Data(s, p, i) ==
    [kind |-> "DATA", src |-> s, dst |-> p, blk |-> i % SequenceSize,
     body |-> <<s, i>>]

LenOf(m) ==
    LET s == m.body[1]
    IN  IF m.body[2] = Blocks[s] THEN LastLen[s] ELSE BlkSize[s]

\* The k-th unit of the data of m.
UnitOf(m, k) == <<m.body[1], (m.body[2] - 1) * BlkSize[m.body[1]] + k>>

ToClient == {"OACK", "DATA", "ERROR"}

-----------------------------------------------------------------------------
(* tftp.c                                                                  *)

\* What TftpSend sends in state t: the request, or the acknowledgement of
\* TftpBlock.
TftpSend(t, known, flight) ==
    LET m == IF t.state = "RRQ"
             THEN Packet("RRQ", t.ourPort, t.serverPort, 0)
             ELSE Packet("ACK", t.ourPort, t.serverPort, t.block)
    IN  NetSendUDPPacket(m, known, flight)

\* NetLoop from the label restart: TftpStart takes some port of ours and sends
\* the request; the block size is the default again, TftpLastBlock and the wrap
\* offset keep their values.
\* A restart comes RESTART_DELAY after the attempt before ended, and packets do
\* not live that long: none is in flight.  Old sessions may still retransmit.
TftpStart(p) ==
    /\ Restart
    /\ NetSetTimeout(TIMEOUT, "tftp")
    /\ handler' = "tftp"
    /\ tftp' = [tftp EXCEPT !.state = "RRQ", !.serverPort = WELL_KNOWN_PORT,
                            !.ourPort = p, !.block = 0, !.count = 0,
                            !.blk = TFTP_BLOCK_SIZE]
    /\ ether' = FALSE
    /\ TftpSend(tftp', FALSE, {})
    /\ UNCHANGED <<mem, sess>>

\* Mutant: the handler takes packets of any session.
AcceptsAnySession(m) == handler = "tftp" /\ m.dst = tftp.ourPort

\* TftpHandler gets as far as looking at the kind of the packet.
Accepts(m) ==
    /\ handler = "tftp"
    /\ m.dst = tftp.ourPort
    /\ tftp.state = "RRQ" \/ m.src = tftp.serverPort

Unlocked == tftp.state \in {"RRQ", "OACK"}

\* The variables of tftp.c once the number of a DATA packet is looked at: a
\* number 0 counts as a wrap-around, a first block resets them.
DataSeen(m) ==
    IF Unlocked
    THEN [tftp EXCEPT !.state = "DATA", !.serverPort = m.src, !.block = m.blk,
                      !.last = 0, !.wrap = 0]
    ELSE [tftp EXCEPT !.block = m.blk,
                      !.wrap = IF m.blk = 0 THEN @ + tftp.blk * SequenceSize
                               ELSE @]

\* The assertion of TftpHandler fails.
NotFirstBlock(m) == Unlocked /\ m.blk # 1

SameBlock(m) == ~Unlocked /\ m.blk = tftp.last

\* The data of m are copied to where block t.block starts by the client's block
\* size; only the part that lies in the memory modelled is recorded.
store_block(t, m) ==
    LET offset == (t.block - 1) * t.blk + t.wrap
        newsize == offset + LenOf(m)
    IN  /\ mem' = [a \in Slots |-> IF a \in offset .. newsize - 1
                                   THEN UnitOf(m, a - offset) ELSE mem[a]]
        /\ size' = IF size < newsize THEN newsize ELSE size

-----------------------------------------------------------------------------
(* TftpHandler, called by eth_rx.                                          *)

\* A packet of the server reaches packetHandler.
Gets(m, flight) ==
    /\ Takes(m, flight)
    /\ m.kind \in ToClient
    /\ UNCHANGED sess

\* startAgainHandler, or one of the early returns of TftpHandler.
RxIgnored(m, flight) ==
    /\ Gets(m, flight)
    /\ ~Accepts(m)
    /\ net' = flight
    /\ UNCHANGED <<NetState, handler, timer, size, mem, tftp, ether, arp>>

\* OACK, in whatever state: back to STATE_OACK, take over the block size (of an
\* OACK without one: the session's is the default), acknowledge TftpBlock.
RxOack(m, flight) ==
    /\ Gets(m, flight)
    /\ m.kind = "OACK"
    /\ Accepts(m)
    /\ tftp' = [tftp EXCEPT !.state = "OACK", !.serverPort = m.src,
                            !.blk = BlkSize[m.src]]
    /\ TftpSend(tftp', ether, flight)
    /\ UNCHANGED <<NetState, handler, timer, size, mem, ether>>

RxNotFirst(m, flight) ==
    /\ Gets(m, flight)
    /\ m.kind = "DATA"
    /\ Accepts(m)
    /\ NotFirstBlock(m)
    /\ tftp' = DataSeen(m)
    /\ NetStartAgain(timer)
    /\ net' = flight
    /\ UNCHANGED <<size, mem, ether, arp>>

RxSame(m, flight) ==
    /\ Gets(m, flight)
    /\ m.kind = "DATA"
    /\ Accepts(m)
    /\ SameBlock(m)
    /\ tftp' = DataSeen(m)
    /\ net' = flight
    /\ UNCHANGED <<NetState, handler, timer, size, mem, ether, arp>>

\* A block is stored and acknowledged; a short one ends the transfer.
RxBlock(m, flight) ==
    /\ Gets(m, flight)
    /\ m.kind = "DATA"
    /\ Accepts(m)
    /\ ~NotFirstBlock(m)
    /\ ~SameBlock(m)
    /\ tftp' = [DataSeen(m) EXCEPT !.last = m.blk]
    /\ NetSetTimeout(TIMEOUT, "tftp")
    /\ store_block(DataSeen(m), m)
    /\ TftpSend(tftp', ether, flight)
    /\ NetState' = IF LenOf(m) < tftp.blk THEN "SUCCESS" ELSE NetState
    /\ UNCHANGED <<handler, ether>>

RxError(m, flight) ==
    /\ Gets(m, flight)
    /\ m.kind = "ERROR"
    /\ Accepts(m)
    /\ NetStartAgain(timer)
    /\ net' = flight
    /\ UNCHANGED <<size, mem, tftp, ether, arp>>

Receive(m, flight) ==
    \/ RxIgnored(m, flight)
    \/ RxOack(m, flight)
    \/ RxNotFirst(m, flight)
    \/ RxSame(m, flight)
    \/ RxBlock(m, flight)
    \/ RxError(m, flight)

-----------------------------------------------------------------------------
(* Timeouts.                                                               *)

\* Mutant: only timeouts of the request are counted.
TftpTimeoutCountRRQ ==
    /\ tftp' = [tftp EXCEPT !.count = IF tftp.state = "RRQ" THEN @ + 1 ELSE @]
    /\ IF tftp'.count > TIMEOUT_COUNT
       THEN NetStartAgain(NoTimer) /\ UNCHANGED <<arp, net>>
       ELSE /\ NetSetTimeout(TIMEOUT, "tftp")
            /\ TftpSend(tftp', ether, net)
            /\ UNCHANGED <<NetState, handler>>

TftpTimeout ==
    /\ tftp' = [tftp EXCEPT !.count = @ + 1]
    /\ IF tftp'.count > TIMEOUT_COUNT
       THEN NetStartAgain(NoTimer) /\ UNCHANGED <<arp, net>>
       ELSE /\ NetSetTimeout(TIMEOUT, "tftp")
            /\ TftpSend(tftp', ether, net)
            /\ UNCHANGED <<NetState, handler>>

CheckTimeout ==
    /\ pc = "time"
    /\ \/ NoTimeout /\ UNCHANGED tftp
       \/ TimeoutOf("tftp") /\ TftpTimeout
       \/ TimeoutOf("startAgain") /\ startAgainTimeout /\ UNCHANGED tftp
    /\ Switch
    /\ UNCHANGED <<mem, sess>>

-----------------------------------------------------------------------------
(* The server.                                                             *)

ServerStep == Outside /\ UNCHANGED <<mem, tftp>>

\* A request opens a session, which acknowledges the options (at = 0) or, when it
\* uses the default block size, sends the first block at once; or the server
\* reports an error and forgets it.
ServeRRQ(m) ==
    LET s == Len(sess) + 1
        Open(n) == sess' = Append(sess, [port |-> m.src, at |-> n,
                                         attempt |-> attempts])
    IN  /\ ServerStep
        /\ m \in net
        /\ m.kind = "RRQ"
        /\ s <= MaxSessions
        /\ \/ /\ Open(0)
              /\ net' = (net \ {m}) \cup {Packet("OACK", s, m.src, 0)}
           \/ /\ BlkSize[s] = TFTP_BLOCK_SIZE
              /\ Open(1)
              /\ net' = (net \ {m}) \cup {Data(s, m.src, 1)}
           \/ /\ Open(Blocks[s] + 1)
              /\ net' = (net \ {m}) \cup {Packet("ERROR", s, m.src, 0)}
        /\ UNCHANGED faults

\* The block a session waits to see acknowledged is: it goes on to the next
\* one, or is over.
ServeAck(m) ==
    LET s == m.dst
        next == sess[s].at + 1
    IN  /\ ServerStep
        /\ m \in net
        /\ m.kind = "ACK"
        /\ s \in 1 .. Len(sess)
        /\ sess[s].port = m.src
        /\ sess[s].at <= Blocks[s]
        /\ m.blk = sess[s].at % SequenceSize
        /\ sess' = [sess EXCEPT ![s].at = next]
        /\ net' = (net \ {m}) \cup
                  (IF next <= Blocks[s] THEN {Data(s, m.src, next)} ELSE {})
        /\ UNCHANGED faults

\* A session has waited too long for an acknowledgement.
Retransmit(s) ==
    /\ ServerStep
    /\ s \in 1 .. Len(sess)
    /\ sess[s].at <= Blocks[s]
    /\ MayFail
    /\ faults' = faults + 1
    /\ net' = net \cup {IF sess[s].at = 0
                        THEN Packet("OACK", s, sess[s].port, 0)
                        ELSE Data(s, sess[s].port, sess[s].at)}
    /\ UNCHANGED sess

-----------------------------------------------------------------------------

Init ==
    /\ NetInit
    /\ mem = [a \in Slots |-> NoBody]
    /\ tftp = [state |-> "RRQ", serverPort |-> WELL_KNOWN_PORT,
               ourPort |-> WELL_KNOWN_PORT, block |-> 0, last |-> 0, wrap |-> 0,
               count |-> 0, blk |-> TFTP_BLOCK_SIZE]
    /\ sess = <<>>

NetLoop ==
    \/ \E p \in Ports : TftpStart(p)
    \/ RxNothing /\ UNCHANGED tftpvars
    \/ ArpTimeoutCheck /\ UNCHANGED tftpvars
    \/ CheckTimeout

Deliver ==
    \E m \in net : \E flight \in {net, net \ {m}} :
      \/ RxArpReply(flight) /\ m = ArpRep /\ UNCHANGED tftpvars
      \/ Receive(m, flight)

Server ==
    \/ AnswerArp /\ UNCHANGED tftpvars
    \/ \E m \in net : ServeRRQ(m) \/ ServeAck(m)
    \/ \E s \in 1 .. MaxSessions : Retransmit(s)

Next ==
    \/ NetLoop \/ Deliver \/ Server
    \/ (CtrlC \/ Tick) /\ UNCHANGED tftpvars

\* NetLoop keeps running and time keeps passing; nothing is assumed of the
\* server, the network and the user.
Spec ==
    /\ Init /\ [][Next]_vars
    /\ WF_vars(NetLoop)
    /\ WF_vars(Tick /\ UNCHANGED tftpvars)

-----------------------------------------------------------------------------
(* Properties.                                                             *)

Packets ==
    {ArpReq, ArpRep} \cup
    [kind : {"RRQ", "ACK", "OACK", "DATA", "ERROR"},
     src : Ports \cup {WELL_KNOWN_PORT} \cup Sessions,
     dst : Ports \cup {WELL_KNOWN_PORT} \cup Sessions,
     blk : 0 .. SequenceSize - 1,
     body : Bodies \cup {NoBody}]

\* The variables have their types: no timer of NetLoop runs below zero, block
\* numbers stay within 16 bits and retries within their limits.
TypeOK ==
    /\ pc \in {"start", "rx", "arp", "time", "done"}
    /\ result \in {"none", "size", "abort", "fail"}
    /\ netretry \in BOOLEAN
    /\ NetState \in {"CONTINUE", "RESTART", "SUCCESS", "FAIL"}
    /\ handler \in {"tftp", "startAgain"}
    /\ timer.who \in {"none", "tftp", "startAgain"}
    /\ timer.left \in 0 .. TIMEOUT + RESTART_DELAY
    /\ size \in Nat
    /\ mem \in [Slots -> Units \cup {NoBody}]
    /\ tftp.state \in {"RRQ", "OACK", "DATA"}
    /\ tftp.ourPort \in Ports \cup {WELL_KNOWN_PORT}
    /\ tftp.serverPort \in Sessions \cup {WELL_KNOWN_PORT}
    /\ {tftp.block, tftp.last} \subseteq 0 .. SequenceSize - 1
    /\ tftp.wrap \in Nat
    /\ tftp.count \in 0 .. TIMEOUT_COUNT + 1
    /\ ether \in BOOLEAN
    /\ arp.pkt \in Packets \cup {NoPacket}
    /\ arp.left \in 0 .. ARP_TIMEOUT
    /\ arp.try \in 0 .. ARP_TIMEOUT_COUNT - 1
    /\ net \subseteq Packets
    /\ tftp.blk \in Nat \ {0}
    /\ sess \in Seq([port : Ports, at : Nat, attempt : Nat])

\* The client is bound to a session of an earlier attempt by a block, not by an
\* OACK, and cuts its data at the default block size while the session uses
\* another: the port of that attempt was drawn again, and the session, which has
\* got no answer, repeats its first block before the new one is heard.
\* (TftpStart resets TftpBlkSize, TftpHandler takes a first block of anyone.)
StaleSize ==
    /\ tftp.state # "RRQ"
    /\ sess[tftp.serverPort].attempt # attempts
    /\ tftp.blk # BlkSize[tftp.serverPort]

\* When NetLoop returns a size (net.c, NETLOOP_SUCCESS), the memory from
\* load_addr on holds, complete and in order, one file as one session served
\* it, and that size is its size: whatever was lost, duplicated, delayed or
\* reordered, and whatever earlier attempts left behind, their sessions and
\* block sizes included.  The one exception is StaleSize: there the blocks are
\* stored over one another and SUCCESS is reported all the same.
LoadedIsFile ==
    result = "size" /\ ~StaleSize =>
      \E s \in Sessions :
        /\ size = FileLen(s)
        /\ \A j \in 0 .. FileLen(s) - 1 : mem[j] = <<s, j>>

\* An acknowledgement on its way from the current port to the session the
\* client is bound to (tftp.c, TftpSend) covers blocks that are in memory, but
\* for StaleSize: the server never discards what a client that goes on does not
\* have.  (After a failure with netretry=no a timeout due in the same pass of
\* NetLoop may still acknowledge the block that was refused.)
AckedBlocksStored ==
    \A m \in net :
      /\ NetState # "FAIL" /\ ~StaleSize
      /\ m.kind = "ACK" /\ m.src = tftp.ourPort /\ m.dst = tftp.serverPort
      => \A j \in 0 .. m.blk * BlkSize[m.dst] - 1 :
           j < FileLen(m.dst) => mem[j] = <<m.dst, j>>

\* ARP does not get as far as giving up (net.c, ArpTimeoutCheck): each timeout
\* of TFTP sends the packet again and restarts the count, and the delay before
\* a restart is too short for the rest.  An absent server is given up only by
\* the count of tftp.c.
ArpNeverGivesUp == ArpExpired => arp.try + 1 < ARP_TIMEOUT_COUNT

\* Every attempt ends, with or without a server: NetLoop returns or starts
\* again (tftp.c counts its timeouts over the whole transfer).
AttemptEnds == (pc = "rx") ~> (pc \in {"start", "done"})

=============================================================================
