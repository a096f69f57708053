------------------------------ MODULE TftpProofs ------------------------------
(***************************************************************************)
(* Proofs about Tftp for every number of sessions, blocks and retries, and *)
(* whatever is lost, repeated, delayed or reordered.                       *)
(***************************************************************************)
EXTENDS Tftp, SequenceTheorems, TLAPS

-----------------------------------------------------------------------------
(* The inductive invariant: types, packets and time.                       *)

NetType ==
    /\ pc \in {"start", "rx", "arp", "time", "done"}
    /\ result \in {"none", "size", "abort", "fail"}
    /\ netretry \in BOOLEAN
    /\ NetState \in {"CONTINUE", "RESTART", "SUCCESS", "FAIL"}
    /\ handler \in {"tftp", "startAgain"}
    /\ ether \in BOOLEAN
    /\ size \in Nat
    /\ mem \in [Slots -> Units \cup {NoBody}]

\* A timer has no more to run than it was set to.
TimerType ==
    timer \in [who : {"none"}, left : {0}] \cup [who : {"tftp"}, left : 0 .. TIMEOUT] \cup
              [who : {"startAgain"}, left : 0 .. RESTART_DELAY]

ArpType ==
    arp \in [pkt : Packets \cup {NoPacket}, left : 0 .. ARP_TIMEOUT,
             try : 0 .. ARP_TIMEOUT_COUNT - 1]

TftpStates ==
    [state : {"RRQ", "OACK", "DATA"}, serverPort : Sessions \cup {WELL_KNOWN_PORT},
     ourPort : Ports \cup {WELL_KNOWN_PORT}, block : 0 .. SequenceSize - 1,
     last : 0 .. SequenceSize - 1, wrap : Nat, count : 0 .. TIMEOUT_COUNT + 1,
     blk : Nat \ {0}]
TftpType == tftp \in TftpStates

IsSess(ss) ==
    /\ ss \in Seq([port : Ports, at : Nat, attempt : Nat])
    /\ Len(ss) <= MaxSessions
    /\ \A s \in 1 .. Len(ss) : ss[s].at <= Blocks[s] + 1

SessType == IsSess(sess)
Counted == attempts \in Nat

\* The client asks, or has a session of its port.
Binding ==
    /\ tftp.state = "RRQ" => tftp.serverPort = WELL_KNOWN_PORT /\ tftp.block = 0
    /\ tftp.state # "RRQ" =>
         tftp.serverPort \in 1 .. Len(sess) /\ sess[tftp.serverPort].port = tftp.ourPort
    /\ pc # "start" => tftp.ourPort \in Ports

\* What is on its way, the packet that waits for ARP included.
Pending == net \cup ({arp.pkt} \ {NoPacket})

\* Acknowledgements come from the client as it is now, everything else that
\* reaches it from a session; a block in flight has been sent.
IsAck(m) ==
    /\ m.kind = "ACK" /\ m.blk \in 0 .. SequenceSize - 1 /\ tftp.state # "RRQ"
    /\ m = Packet("ACK", tftp.ourPort, tftp.serverPort, m.blk)
IsSign(m) ==
    /\ m.kind \in {"OACK", "ERROR"} /\ m.src \in 1 .. Len(sess)
    /\ m = Packet(m.kind, m.src, sess[m.src].port, 0)
IsData(m) ==
    /\ m.kind = "DATA" /\ m.src \in 1 .. Len(sess)
    /\ \E i \in 1 .. Blocks[m.src] :
         i <= sess[m.src].at /\ m = Data(m.src, sess[m.src].port, i)
IsRRQ(m) ==
    m.kind = "RRQ" /\ m.src \in Ports /\ m = Packet("RRQ", m.src, WELL_KNOWN_PORT, 0)
IsPacket(m) == m \in {ArpReq, ArpRep} \/ IsRRQ(m) \/ IsAck(m) \/ IsSign(m) \/ IsData(m)

Messages == \A m \in Pending : IsPacket(m)

\* Who runs the loop, why it ended, and that nothing waits for a known address.
Control ==
    /\ pc \in {"rx", "arp", "time"} => timer.who = IF handler = "tftp" THEN "tftp" ELSE "startAgain"
    /\ pc \in {"rx", "arp", "time"} /\ handler = "tftp" => tftp.count <= TIMEOUT_COUNT
    /\ timer.who = "startAgain" => netretry
    /\ NetState = "FAIL" => ~netretry /\ pc \notin {"start", "rx"}
    /\ pc = "rx" => NetState = "CONTINUE"
    /\ NetState = "RESTART" => pc = "start"
    /\ result = "size" => NetState = "SUCCESS"
    /\ result # "none" => pc = "done"
    /\ ether => arp.pkt = NoPacket

\* The time a packet has waited for ARP is bounded by what the timer has run.
Waited ==
    arp.pkt # NoPacket =>
      arp.try * ARP_TIMEOUT - arp.left <=
        CASE timer.who = "tftp" -> TIMEOUT - timer.left
          [] timer.who = "startAgain" -> TIMEOUT + RESTART_DELAY - timer.left
          [] timer.who = "none" -> TIMEOUT + RESTART_DELAY

IInv ==
    NetType /\ TimerType /\ ArpType /\ TftpType /\ SessType /\ Binding /\ Messages /\ Control
    /\ Waited

-----------------------------------------------------------------------------
(* The inductive invariant: blocks in memory.                              *)

\* No file has so many blocks that their numbers wrap around.
NoWrap == \A s \in Sessions : Blocks[s] < SequenceSize

\* The units of the first n blocks of the file of session s are in place.
Stored(mm, s, n) ==
    \A j \in Nat : j < n * BlkSize[s] /\ j < FileLen(s) => mm[j] = <<s, j>>

\* The client's block size is not that of the session it is bound to.
Mismatch == tftp.state # "RRQ" /\ tftp.blk # BlkSize[tftp.serverPort]

\* Only a session of an earlier attempt that has begun to send can be bound to the
\* client with another block size than its own: one of this attempt sends nothing
\* but its OACK before the client has answered that.
Sized ==
    /\ \A s \in 1 .. Len(sess) : sess[s].attempt <= attempts
    /\ tftp.state = "RRQ" =>
         /\ tftp.blk = TFTP_BLOCK_SIZE
         /\ \A s \in 1 .. Len(sess) :
              sess[s].attempt = attempts /\ BlkSize[s] # TFTP_BLOCK_SIZE =>
                sess[s].at = 0 \/ sess[s].at = Blocks[s] + 1
    /\ Mismatch =>
         /\ sess[tftp.serverPort].attempt # attempts /\ sess[tftp.serverPort].at # 0
         /\ \A m \in Pending : ~(m.kind = "OACK" /\ m.src = tftp.serverPort)

\* Before a session is chosen nothing has been acknowledged: what a session has
\* in flight is what it waits to see acknowledged.
Fresh ==
    tftp.state = "RRQ" =>
      /\ size = 0
      /\ \A m \in Pending :
           /\ m.kind = "OACK" => sess[m.src].at = 0
           /\ m.kind = "DATA" => m.body[2] = sess[m.src].at

Acks ==
    NetState # "FAIL" /\ ~Mismatch =>
      \A m \in Pending : m.kind = "ACK" => Stored(mem, tftp.serverPort, m.blk)

\* A client that goes on has what its session has seen acknowledged, and what it
\* may acknowledge again.
Going == handler = "tftp" /\ NetState # "FAIL" /\ tftp.state # "RRQ" /\ ~Mismatch
Bound ==
    LET s == tftp.serverPort
    IN  Going => /\ Stored(mem, s, sess[s].at - 1)
                 /\ Stored(mem, s, tftp.block)
                 /\ size <= FileLen(s)
                 /\ tftp.state = "DATA" => Stored(mem, s, tftp.last) /\ tftp.wrap = 0

Complete == \E s \in Sessions : size = FileLen(s) /\ Stored(mem, s, Blocks[s])

LoadInv ==
    Fresh /\ Sized /\ Acks /\ Bound /\ (NetState = "SUCCESS" /\ ~Mismatch => Complete)

-----------------------------------------------------------------------------
(* Constants and arithmetic.                                               *)

\* The constants are numbers, and ARP tries more than once.
LEMMA Bounds ==
  /\ ARP_TIMEOUT_COUNT \in Nat /\ ARP_TIMEOUT_COUNT > 1
  /\ ARP_TIMEOUT \in Nat \ {0} /\ RESTART_DELAY \in Nat \ {0}
  /\ TIMEOUT \in Nat \ {0} /\ TIMEOUT_COUNT \in Nat /\ MemUnits \in Nat
  /\ SequenceSize \in Nat \ {0, 1} /\ TFTP_BLOCK_SIZE \in Nat \ {0}
  /\ MaxSessions \in Nat /\ NetRetry \subseteq BOOLEAN
<1>1. /\ ARP_TIMEOUT_COUNT \in Nat \ {0} /\ ARP_TIMEOUT \in Nat \ {0}
      /\ RESTART_DELAY \in Nat \ {0}
  BY NetAssumption
<1>2. ARP_TIMEOUT_COUNT # 1
  <2>1. SUFFICES ASSUME ARP_TIMEOUT_COUNT = 1 PROVE FALSE
    OBVIOUS
  <2>2. (ARP_TIMEOUT_COUNT - 1) * ARP_TIMEOUT = 0
    BY <1>1, <2>1
  <2> QED
    BY <1>1, <2>2, RestartAssumption
<1> QED
  BY <1>1, <1>2, NetAssumption, TftpAssumption

\* Facts of arithmetic that are cited where many other facts are known.
LEMMA Counting ==
  ASSUME NEW a \in Nat, NEW b \in Nat, NEW c \in Nat
  PROVE  /\ a <= b => a + 1 <= b + 1
         /\ b <= a /\ a < b + c => a \in b .. b + c - 1
  OBVIOUS

\* Products are monotonic.
LEMMA Products ==
  ASSUME NEW a \in Nat, NEW b \in Nat, NEW c \in Nat
  PROVE  /\ a * c \in Nat /\ (a + 1) * c = a * c + c /\ 1 * c = c
         /\ a <= b => a * c <= b * c
<1>1. a * c \in Nat /\ (a + 1) * c = a * c + c /\ 1 * c = c
  OBVIOUS
<1>2. ASSUME a <= b PROVE a * c <= b * c
  <2>1. b - a \in Nat /\ b = a + (b - a)
    BY <1>2
  <2>2. (b - a) * c \in Nat
    BY <2>1
  <2>3. b * c = a * c + (b - a) * c
    BY <2>1
  <2> QED
    BY <1>1, <2>2, <2>3
<1> QED
  BY <1>1, <1>2

\* The files of the sessions have blocks, and fit the memory.
LEMMA BlocksType ==
  ASSUME NEW s \in Sessions
  PROVE  /\ Blocks[s] \in Nat \ {0} /\ BlkSize[s] \in Nat \ {0}
         /\ LastLen[s] \in Nat /\ LastLen[s] < BlkSize[s]
         /\ FileLen(s) \in Nat /\ FileLen(s) <= MemUnits
<1>1. /\ Blocks[s] \in Nat \ {0} /\ BlkSize[s] \in Nat \ {0}
      /\ LastLen[s] \in Nat /\ LastLen[s] < BlkSize[s]
  BY TftpAssumption DEF Sessions
<1>2. Blocks[s] - 1 \in Nat
  BY <1>1
<1>3. (Blocks[s] - 1) * BlkSize[s] \in Nat
  BY <1>1, <1>2, Products
<1>4. FileLen(s) \in Nat
  BY <1>1, <1>3 DEF FileLen
<1> QED
  BY <1>1, <1>4, FilesFit DEF Sessions

\* What is known of a session.
LEMMA SessFacts ==
  ASSUME NEW ss, IsSess(ss), NEW s \in 1 .. Len(ss)
  PROVE  /\ s \in Sessions /\ s \in Nat \ {0} /\ ss[s] \in [port : Ports, at : Nat, attempt : Nat]
         /\ ss[s].port \in Ports /\ ss[s].at \in Nat /\ ss[s].at <= Blocks[s] + 1
         /\ Len(ss) \in Nat /\ Blocks[s] \in Nat \ {0}
         /\ ss[s].attempt \in Nat
<1>1. ss \in Seq([port : Ports, at : Nat, attempt : Nat]) /\ Len(ss) <= MaxSessions
  BY DEF IsSess
<1>2. Len(ss) \in Nat
  BY <1>1
<1>3. s \in Sessions /\ s \in Nat \ {0}
  BY <1>1, <1>2, Bounds DEF Sessions
<1>4. ss[s] \in [port : Ports, at : Nat, attempt : Nat]
  BY <1>1, ElementOfSeq
<1>5. ss[s].port \in Ports /\ ss[s].at \in Nat /\ ss[s].attempt \in Nat
  BY <1>4
<1> QED
  BY <1>2, <1>3, <1>4, <1>5, BlocksType DEF IsSess

-----------------------------------------------------------------------------
(* Packets.                                                                *)

\* What is on its way is a packet.
LEMMA PacketType ==
  ASSUME TftpType, SessType, Binding, NEW m, IsPacket(m)
  PROVE  m \in Packets
<1> USE Bounds
<1>1. CASE m \in {ArpReq, ArpRep}
  BY <1>1 DEF Packets
<1>2. CASE IsRRQ(m)
  BY <1>2 DEF IsRRQ, Packets, Packet, WELL_KNOWN_PORT
<1>3. ASSUME NEW s \in 1 .. Len(sess)
      PROVE  s \in Sessions /\ sess[s].port \in Ports
  BY SessFacts DEF SessType
<1>4. CASE IsAck(m)
  <2>1. /\ m = Packet("ACK", tftp.ourPort, tftp.serverPort, m.blk)
        /\ m.blk \in 0 .. SequenceSize - 1
    BY <1>4 DEF IsAck
  <2>2. tftp.ourPort \in Ports \cup {WELL_KNOWN_PORT}
        /\ tftp.serverPort \in Sessions \cup {WELL_KNOWN_PORT}
    BY DEF TftpType, TftpStates
  <2> QED
    BY <2>1, <2>2 DEF Packets, Packet
<1>5. CASE IsSign(m)
  BY <1>3, <1>5 DEF IsSign, Packets, Packet
<1>6. CASE IsData(m)
  <2>1. PICK i \in 1 .. Blocks[m.src] : m = Data(m.src, sess[m.src].port, i)
    BY <1>6 DEF IsData
  <2>2. m.src \in Sessions /\ sess[m.src].port \in Ports
    BY <1>3, <1>6 DEF IsData
  <2>3. i \in Nat \ {0} /\ i % SequenceSize \in 0 .. SequenceSize - 1
    BY <2>2, BlocksType
  <2> QED
    BY <2>1, <2>2, <2>3 DEF Data, Packets, Bodies
<1> QED
  BY <1>1, <1>2, <1>4, <1>5, <1>6 DEF IsPacket

\* What was on its way stays what it is while the sessions go on and the client
\* stays bound.
LEMMA KeepPacket ==
  ASSUME NEW m, IsPacket(m),
         tftp.state # "RRQ" => /\ tftp'.state # "RRQ" /\ tftp'.ourPort = tftp.ourPort
                               /\ tftp'.serverPort = tftp.serverPort,
         \A s \in 1 .. Len(sess) :
           s \in 1 .. Len(sess') /\ sess'[s].port = sess[s].port /\ sess[s].at <= sess'[s].at,
         SessType, SessType'
  PROVE  IsPacket(m)'
<1>1. CASE m \in {ArpReq, ArpRep} \/ IsRRQ(m)
  BY <1>1 DEF IsPacket, IsRRQ
<1>2. CASE IsAck(m)
  BY <1>2 DEF IsPacket, IsAck
<1>3. CASE IsSign(m)
  BY <1>3 DEF IsPacket, IsSign
<1>4. CASE IsData(m)
  <2>1. m.kind = "DATA" /\ m.src \in 1 .. Len(sess)
    BY <1>4 DEF IsData
  <2>2. PICK i \in 1 .. Blocks[m.src] :
               i <= sess[m.src].at /\ m = Data(m.src, sess[m.src].port, i)
    BY <1>4 DEF IsData
  <2>3. /\ m.src \in 1 .. Len(sess') /\ sess'[m.src].port = sess[m.src].port
        /\ sess[m.src].at <= sess'[m.src].at
    BY <2>1
  <2>4. sess[m.src].at \in Nat /\ sess'[m.src].at \in Nat
    BY <2>1, <2>3, SessFacts DEF SessType
  <2>5. i <= sess'[m.src].at
    <3>1. i \in Nat
      BY <2>1, SessFacts DEF SessType
    <3> QED
      BY <2>2, <2>3, <2>4, <3>1
  <2>6. IsData(m)'
    BY <2>1, <2>2, <2>3, <2>5 DEF IsData
  <2> QED
    BY <2>6 DEF IsPacket
<1> QED
  BY <1>1, <1>2, <1>3, <1>4 DEF IsPacket

\* The packet TftpSend makes.
Sent ==
    IF tftp.state = "RRQ"
    THEN Packet("RRQ", tftp.ourPort, tftp.serverPort, 0)
    ELSE Packet("ACK", tftp.ourPort, tftp.serverPort, tftp.block)

\* What TftpSend leaves on its way.
LEMMA Sends ==
  ASSUME IInv, TftpType', SessType', Binding', pc' # "start", NEW known, known => ether,
         NEW flight \in SUBSET net, TftpSend(tftp', known, flight), timer'.who = "tftp",
         TimerType', \A m \in flight : IsPacket(m)', ether' = known
  PROVE  /\ ArpType' /\ Messages' /\ Waited' /\ (ether' => arp'.pkt = NoPacket)
         /\ Pending' \subseteq flight \cup {ArpReq, Sent'}
<1> USE Bounds
<1>0. PICK q : q = Sent'
  OBVIOUS
<1>1. NetSendUDPPacket(q, known, flight)
  BY <1>0 DEF TftpSend, Sent
<1>2. IsPacket(q)' /\ IsPacket(ArpReq)' /\ q \in Packets
  <2>1. CASE tftp'.state = "RRQ"
    <3>1. q = Packet("RRQ", tftp'.ourPort, WELL_KNOWN_PORT, 0) /\ tftp'.ourPort \in Ports
      BY <1>0, <2>1 DEF Sent, Binding
    <3>2. q \in Packets
      BY <3>1 DEF Packets, Packet, WELL_KNOWN_PORT
    <3> QED
      BY <3>1, <3>2 DEF IsPacket, IsRRQ, Packet
  <2>2. CASE tftp'.state # "RRQ"
    <3>1. /\ q = Packet("ACK", tftp'.ourPort, tftp'.serverPort, tftp'.block)
          /\ tftp'.block \in 0 .. SequenceSize - 1
          /\ tftp'.ourPort \in Ports \cup {WELL_KNOWN_PORT}
          /\ tftp'.serverPort \in Sessions \cup {WELL_KNOWN_PORT}
      BY <1>0, <2>2 DEF Sent, TftpType, TftpStates
    <3>2. q \in Packets
      BY <3>1 DEF Packets, Packet
    <3> QED
      BY <2>2, <3>1, <3>2 DEF IsPacket, IsAck, Packet
  <2> QED
    BY <2>1, <2>2 DEF IsPacket
<1>3. CASE known
  <2>1. net' = flight \cup {q} /\ arp' = arp /\ arp.pkt = NoPacket
    BY <1>1, <1>3 DEF NetSendUDPPacket, IInv, Control
  <2>2. Pending' \subseteq flight \cup {q}
    BY <2>1 DEF Pending
  <2>3. ArpType'
    BY <2>1 DEF IInv, ArpType
  <2>4. Messages'
    BY <1>2, <2>2 DEF Messages
  <2>5. arp'.pkt = NoPacket
    BY <2>1
  <2>6. Waited'
    BY <2>5 DEF Waited
  <2> QED
    BY <1>0, <2>2, <2>3, <2>4, <2>5, <2>6
<1>4. CASE ~known
  <2>1. net' = flight \cup {ArpReq} /\ arp' = [pkt |-> q, left |-> ARP_TIMEOUT, try |-> 1]
    BY <1>1, <1>4 DEF NetSendUDPPacket
  <2>2. Pending' \subseteq flight \cup {ArpReq, q}
    BY <2>1 DEF Pending
  <2>4. ArpType'
    BY <1>2, <2>1 DEF ArpType
  <2>5. Messages'
    BY <1>2, <2>2 DEF Messages
  <2>6. Waited'
    <3>1. arp'.try * ARP_TIMEOUT - arp'.left = 0
      BY <2>1, Products
    <3>2. timer'.left \in Nat /\ timer'.left <= TIMEOUT
      BY DEF TimerType
    <3> QED
      BY <3>1, <3>2 DEF Waited
  <2>7. ether' => arp'.pkt = NoPacket
    BY <1>4, Zenon
  <2> QED
    BY <1>0, <2>2, <2>4, <2>5, <2>6, <2>7
<1> QED
  BY <1>0, <1>3, <1>4

-----------------------------------------------------------------------------
(* Every step keeps the inductive invariant of types, packets and time.    *)

\* The initial state.
LEMMA InitIInv == Init => IInv
<1> SUFFICES ASSUME Init PROVE IInv
  OBVIOUS
<1> USE Bounds
<1>1. /\ pc = "start" /\ result = "none" /\ NetState = "CONTINUE" /\ handler = "startAgain"
      /\ timer = [who |-> "none", left |-> 0] /\ size = 0
      /\ arp = [pkt |-> NoPacket, left |-> 0, try |-> 0] /\ net = {}
      /\ mem = [a \in Slots |-> NoBody] /\ sess = <<>>
      /\ tftp = [state |-> "RRQ", serverPort |-> WELL_KNOWN_PORT,
                 ourPort |-> WELL_KNOWN_PORT, block |-> 0, last |-> 0, wrap |-> 0, count |-> 0,
                 blk |-> TFTP_BLOCK_SIZE]
  BY DEF Init, NetInit, NoTimer
<1>2. ether = FALSE /\ netretry \in NetRetry
  BY DEF Init, NetInit
<1>3. NetType
  <2>1. ether \in BOOLEAN /\ netretry \in BOOLEAN
    BY <1>2
  <2> QED
    BY <1>1, <2>1 DEF NetType
<1>4. TimerType /\ ArpType /\ TftpType
  BY <1>1 DEF TimerType, ArpType, TftpType, TftpStates, WELL_KNOWN_PORT
<1>5. SessType
  BY <1>1, EmptySeq DEF SessType, IsSess
<1>6. Binding /\ Messages /\ Waited
  BY <1>1 DEF Binding, Messages, Pending, Waited
<1>7. Control
  <2>1. ~ether
    BY <1>2
  <2> QED
    BY <1>1, <2>1 DEF Control
<1> QED
  BY <1>3, <1>4, <1>5, <1>6, <1>7 DEF IInv

\* A step of the loop, of ARP or of time that leaves the protocol alone.
LEMMA QuietIInv ==
  ASSUME IInv, UNCHANGED tftpvars, pc # "start", NetType', TimerType', ArpType', Control',
         Waited', Pending' \subseteq Pending \cup {ArpReq, ArpRep}
  PROVE  IInv'
<1>1. TftpType' /\ SessType' /\ Binding'
  BY DEF tftpvars, IInv, TftpType, TftpStates, SessType, Binding
<1>2. Messages'
  BY DEF tftpvars, IInv, Messages, IsPacket, IsRRQ, IsAck, IsSign, IsData
<1> QED
  BY <1>1, <1>2 DEF IInv

\* The types NetLoop uses when it goes on.
LEMMA NetTypes ==
  ASSUME IInv
  PROVE  /\ timer.left \in Nat /\ timer.who \in {"none", "tftp", "startAgain"}
         /\ timer.who = "tftp" => timer.left <= TIMEOUT
         /\ timer.who = "startAgain" => timer.left <= RESTART_DELAY
         /\ timer.who = "none" => timer.left = 0
         /\ timer = [who |-> timer.who, left |-> timer.left]
         /\ arp.left \in 0 .. ARP_TIMEOUT /\ arp.try \in 0 .. ARP_TIMEOUT_COUNT - 1
         /\ arp.try \in Nat /\ arp.try * ARP_TIMEOUT \in Nat
         /\ arp.pkt \in Packets \cup {NoPacket}
         /\ arp = [pkt |-> arp.pkt, left |-> arp.left, try |-> arp.try]
<1> USE Bounds
<1>1. /\ timer.left \in Nat /\ timer.who \in {"none", "tftp", "startAgain"}
      /\ timer.who = "tftp" => timer.left <= TIMEOUT
      /\ timer.who = "startAgain" => timer.left <= RESTART_DELAY
      /\ timer.who = "none" => timer.left = 0
      /\ timer = [who |-> timer.who, left |-> timer.left]
  BY DEF IInv, TimerType
<1>2. /\ arp.left \in 0 .. ARP_TIMEOUT /\ arp.try \in 0 .. ARP_TIMEOUT_COUNT - 1
      /\ arp.try \in Nat /\ arp.pkt \in Packets \cup {NoPacket}
      /\ arp = [pkt |-> arp.pkt, left |-> arp.left, try |-> arp.try]
  BY DEF IInv, ArpType
<1>3. arp.try * ARP_TIMEOUT \in Nat
  BY <1>2, Products
<1> QED
  BY <1>1, <1>2, <1>3

\* How long a packet has waited for ARP, by the timer that runs.
LEMMA Spent ==
  ASSUME IInv, arp.pkt # NoPacket
  PROVE  /\ timer.who = "tftp" => arp.try * ARP_TIMEOUT - arp.left <= TIMEOUT - timer.left
         /\ arp.try * ARP_TIMEOUT - arp.left <= TIMEOUT + RESTART_DELAY - timer.left
<1> USE Bounds, NetTypes
<1>1. PICK d : d = arp.try * ARP_TIMEOUT - arp.left
  OBVIOUS
<1>2. d <= CASE timer.who = "tftp" -> TIMEOUT - timer.left
            [] timer.who = "startAgain" -> TIMEOUT + RESTART_DELAY - timer.left
            [] timer.who = "none" -> TIMEOUT + RESTART_DELAY
  BY <1>1, Zenon DEF IInv, Waited
<1>3. d \in Int
  BY <1>1
<1>4. CASE timer.who = "tftp"
  BY <1>1, <1>2, <1>3, <1>4
<1>5. CASE timer.who = "startAgain"
  BY <1>1, <1>2, <1>3, <1>5
<1>6. CASE timer.who = "none"
  BY <1>1, <1>2, <1>3, <1>6
<1> QED
  BY <1>4, <1>5, <1>6

\* ARP does not get as far as giving up.
LEMMA NeverGivesUp == IInv => ArpNeverGivesUp
<1> SUFFICES ASSUME IInv, ArpExpired PROVE arp.try + 1 < ARP_TIMEOUT_COUNT
  BY DEF ArpNeverGivesUp
<1> USE Bounds, NetTypes
<1>1. arp.pkt # NoPacket /\ arp.left = 0
  BY DEF ArpExpired
<1>2. arp.try * ARP_TIMEOUT <= TIMEOUT + RESTART_DELAY
  BY <1>1, Spent DEF IInv
<1>3. SUFFICES ASSUME ARP_TIMEOUT_COUNT - 1 <= arp.try PROVE FALSE
  OBVIOUS
<1>4. ARP_TIMEOUT_COUNT - 1 \in Nat
  OBVIOUS
<1>5. (ARP_TIMEOUT_COUNT - 1) * ARP_TIMEOUT <= arp.try * ARP_TIMEOUT
        /\ (ARP_TIMEOUT_COUNT - 1) * ARP_TIMEOUT \in Nat
  BY <1>3, <1>4, Products
<1> QED
  BY <1>2, <1>5, TimingAssumption

\* The bound on the time waited, from its value d after the step.
LEMMA WaitedNext ==
  ASSUME TimerType', NEW d \in Int,
         arp'.pkt # NoPacket =>
           /\ d = arp'.try * ARP_TIMEOUT - arp'.left
           /\ timer'.who = "tftp" => d <= TIMEOUT - timer'.left
           /\ timer'.who # "tftp" => d <= TIMEOUT + RESTART_DELAY - timer'.left
  PROVE  Waited'
<1> USE Bounds
<1>1. SUFFICES ASSUME arp'.pkt # NoPacket
               PROVE  d <= CASE timer'.who = "tftp" -> TIMEOUT - timer'.left
                             [] timer'.who = "startAgain" -> TIMEOUT + RESTART_DELAY - timer'.left
                             [] timer'.who = "none" -> TIMEOUT + RESTART_DELAY
  BY Zenon DEF Waited
<1>2. timer'.who \in {"none", "tftp", "startAgain"} /\ (timer'.who = "none" => timer'.left = 0)
  BY DEF TimerType
<1>3. /\ timer'.who = "tftp" => d <= TIMEOUT - timer'.left
      /\ timer'.who # "tftp" => d <= TIMEOUT + RESTART_DELAY - timer'.left
  BY <1>1
<1>4. CASE timer'.who = "tftp"
  BY <1>3, <1>4
<1>5. CASE timer'.who = "startAgain"
  BY <1>3, <1>5
<1>6. CASE timer'.who = "none"
  BY <1>2, <1>3, <1>6
<1> QED
  BY <1>2, <1>4, <1>5, <1>6

\* ARP and the timer are left alone.
LEMMA SameTimes ==
  ASSUME IInv, timer' = timer, arp' = arp
  PROVE  TimerType' /\ ArpType' /\ Waited'
  BY DEF IInv, TimerType, ArpType, Waited

\* eth_rx finds nothing.
LEMMA RxNothingIInv == IInv /\ RxNothing /\ UNCHANGED tftpvars => IInv'
<1> SUFFICES ASSUME IInv, RxNothing, UNCHANGED tftpvars PROVE IInv'
  OBVIOUS
<1>1. pc = "rx" /\ pc' = "arp"
      /\ UNCHANGED <<result, netretry, NetState, handler, timer, size, ether, arp, net, mem, tftp>>
  BY DEF RxNothing, tftpvars
<1>2. NetType'
  BY <1>1 DEF IInv, NetType
<1>3. Control'
  BY <1>1 DEF IInv, Control
<1>4. Pending' = Pending
  BY <1>1 DEF Pending
<1> QED
  BY <1>1, <1>2, <1>3, <1>4, SameTimes, QuietIInv

\* The user interrupts.
LEMMA CtrlCIInv == IInv /\ CtrlC /\ UNCHANGED tftpvars => IInv'
<1> SUFFICES ASSUME IInv, CtrlC, UNCHANGED tftpvars PROVE IInv'
  OBVIOUS
<1>1. pc = "arp" /\ pc' = "done" /\ result' = "abort"
      /\ UNCHANGED <<netretry, NetState, handler, timer, size, ether, arp, net, mem, tftp>>
  BY DEF CtrlC, tftpvars
<1>2. NetType'
  BY <1>1 DEF IInv, NetType
<1>3. Control'
  BY <1>1 DEF IInv, Control
<1>4. Pending' = Pending
  BY <1>1 DEF Pending
<1> QED
  BY <1>1, <1>2, <1>3, <1>4, SameTimes, QuietIInv

\* An ARP request is answered.
LEMMA AnswerArpIInv == IInv /\ AnswerArp /\ UNCHANGED tftpvars => IInv'
<1> SUFFICES ASSUME IInv, AnswerArp, UNCHANGED tftpvars PROVE IInv'
  OBVIOUS
<1>1. pc = "rx" /\ net' = (net \ {ArpReq}) \cup {ArpRep}
      /\ UNCHANGED <<pc, result, netretry, NetState, handler, timer, size, ether, arp, mem, tftp>>
  BY DEF AnswerArp, Outside, loopvars, tftpvars
<1>2. NetType'
  BY <1>1 DEF IInv, NetType
<1>3. Control'
  BY <1>1 DEF IInv, Control
<1>4. Pending' \subseteq Pending \cup {ArpRep}
  BY <1>1 DEF Pending
<1> QED
  BY <1>1, <1>2, <1>3, <1>4, SameTimes, QuietIInv

\* A tick passes: what has waited for ARP has waited as much longer as the timer
\* has run.
LEMMA TickIInv == IInv /\ Tick /\ UNCHANGED tftpvars => IInv'
<1> SUFFICES ASSUME IInv, Tick, UNCHANGED tftpvars PROVE IInv'
  OBVIOUS
<1> USE Bounds, NetTypes
<1>1. /\ pc = "rx" /\ timer.who # "none" /\ timer.left # 0
      /\ UNCHANGED <<pc, result, netretry, NetState, handler, size, ether, net, mem, tftp>>
  BY DEF Tick, TimeExpired, tftpvars
<1>2. timer' = [who |-> timer.who, left |-> timer.left - 1]
  BY DEF Tick
<1>3. arp.pkt # NoPacket =>
        arp' = [pkt |-> arp.pkt, left |-> arp.left - 1, try |-> arp.try] /\ arp.left # 0
  BY DEF Tick, ArpExpired
<1>4. arp.pkt = NoPacket => arp' = arp
  BY DEF Tick
<1>5. TimerType'
  <2>1. CASE timer.who = "tftp"
    <3>1. timer.left - 1 \in 0 .. TIMEOUT
      BY <1>1, <2>1
    <3> QED
      BY <1>2, <2>1, <3>1 DEF TimerType
  <2>2. CASE timer.who = "startAgain"
    <3>1. timer.left - 1 \in 0 .. RESTART_DELAY
      BY <1>1, <2>2
    <3> QED
      BY <1>2, <2>2, <3>1 DEF TimerType
  <2> QED
    BY <1>1, <2>1, <2>2
<1>6. ArpType' /\ arp'.pkt = arp.pkt
  <2>1. CASE arp.pkt = NoPacket
    BY <1>4, <2>1 DEF IInv, ArpType
  <2>2. CASE arp.pkt # NoPacket
    <3>1. arp.left - 1 \in 0 .. ARP_TIMEOUT
      BY <1>3, <2>2
    <3> QED
      BY <1>3, <2>2, <3>1 DEF ArpType
  <2> QED
    BY <2>1, <2>2
<1>7. Waited'
  <2>1. PICK e \in Nat : e = arp.try * ARP_TIMEOUT
    OBVIOUS
  <2>2. CASE arp.pkt # NoPacket
    <3>1. arp'.try * ARP_TIMEOUT = e /\ arp'.left = arp.left - 1
      BY <1>3, <2>1, <2>2
    <3>2. /\ timer.who = "tftp" => e - arp.left <= TIMEOUT - timer.left
          /\ e - arp.left <= TIMEOUT + RESTART_DELAY - timer.left
      BY <2>1, <2>2, Spent
    <3>3. timer'.who = timer.who /\ timer'.left = timer.left - 1
      BY <1>2
    <3>4. e - (arp.left - 1) \in Int
      OBVIOUS
    <3>5. /\ timer'.who = "tftp" => e - (arp.left - 1) <= TIMEOUT - timer'.left
          /\ e - (arp.left - 1) <= TIMEOUT + RESTART_DELAY - timer'.left
      BY <3>2, <3>3
    <3> QED
      BY <1>5, <3>1, <3>4, <3>5, WaitedNext
  <2>3. CASE arp.pkt = NoPacket
    BY <1>6, <2>3 DEF Waited
  <2> QED
    BY <2>2, <2>3
<1>8. NetType'
  BY <1>1 DEF IInv, NetType
<1>9. Control'
  BY <1>1, <1>2, <1>6 DEF IInv, Control
<1>10. Pending' = Pending
  BY <1>1, <1>6 DEF Pending
<1> QED
  BY <1>1, <1>5, <1>6, <1>7, <1>8, <1>9, <1>10, QuietIInv

\* ARP asks again; it has been asking for less than it takes to give up.
LEMMA ArpTimeoutIInv == IInv /\ ArpTimeoutCheck /\ UNCHANGED tftpvars => IInv'
<1> SUFFICES ASSUME IInv, ArpTimeoutCheck, UNCHANGED tftpvars PROVE IInv'
  OBVIOUS
<1> USE Bounds, NetTypes
<1>1. pc = "arp" /\ pc' = "time" /\ UNCHANGED <<result, netretry, size, ether, mem, tftp>>
  BY DEF ArpTimeoutCheck, tftpvars
<1>2. UNCHANGED <<NetState, handler, timer>>
  BY NeverGivesUp DEF ArpTimeoutCheck, ArpNeverGivesUp
<1>3. NetType'
  BY <1>1, <1>2 DEF IInv, NetType
<1>4. CASE ~ArpExpired
  <2>1. UNCHANGED <<arp, net>>
    BY <1>4 DEF ArpTimeoutCheck
  <2>2. Pending' = Pending
    BY <2>1 DEF Pending
  <2>3. Control'
    BY <1>1, <1>2, <2>1 DEF IInv, Control
  <2> QED
    BY <1>1, <1>2, <1>3, <2>1, <2>2, <2>3, SameTimes, QuietIInv
<1>5. CASE ArpExpired
  <2>1. arp.try + 1 < ARP_TIMEOUT_COUNT
    BY <1>5, NeverGivesUp DEF ArpNeverGivesUp
  <2>2. /\ arp' = [pkt |-> arp.pkt, left |-> ARP_TIMEOUT, try |-> arp.try + 1]
        /\ net' = net \cup {ArpReq}
    <3>1. ~(arp.try + 1 >= ARP_TIMEOUT_COUNT)
      BY <2>1
    <3>2. /\ arp' = [arp EXCEPT !.try = @ + 1, !.left = ARP_TIMEOUT]
          /\ net' = net \cup {ArpReq}
      BY <1>5, <3>1 DEF ArpTimeoutCheck
    <3> QED
      BY <3>2
  <2>3. arp.left = 0 /\ arp.pkt # NoPacket
    BY <1>5 DEF ArpExpired
  <2>4. TimerType' /\ ArpType'
    BY <1>2, <2>1, <2>2 DEF IInv, TimerType, ArpType
  <2>5. Waited'
    <3>1. PICK e \in Nat : e = arp.try * ARP_TIMEOUT
      OBVIOUS
    <3>2. arp'.try * ARP_TIMEOUT = e + ARP_TIMEOUT /\ arp'.left = ARP_TIMEOUT
      BY <2>2, <3>1, Products
    <3>3. /\ timer.who = "tftp" => e <= TIMEOUT - timer.left
          /\ e <= TIMEOUT + RESTART_DELAY - timer.left
      BY <2>3, <3>1, Spent
    <3>4. e = arp'.try * ARP_TIMEOUT - arp'.left
      BY <3>2
    <3> QED
      BY <1>2, <2>4, <3>3, <3>4, WaitedNext
  <2>6. Pending' \subseteq Pending \cup {ArpReq}
    BY <2>2 DEF Pending
  <2>7. Control'
    <3>1. arp'.pkt = arp.pkt
      BY <2>2
    <3> QED
      BY <1>1, <1>2, <3>1 DEF IInv, Control
  <2> QED
    BY <1>1, <1>3, <2>4, <2>5, <2>6, <2>7, QuietIInv
<1> QED
  BY <1>4, <1>5

\* The address of the server arrives, and the waiting packet leaves.
LEMMA RxArpReplyIInv ==
  ASSUME IInv, NEW flight, RxArpReply(flight), UNCHANGED tftpvars
  PROVE  IInv'
<1> USE NetTypes
<1>1. /\ pc = "rx" /\ pc' = "arp" /\ flight \subseteq net
      /\ UNCHANGED <<result, netretry, NetState, handler, timer, size, mem, tftp>>
  BY DEF RxArpReply, Takes, tftpvars
<1>2. CASE arp.pkt = NoPacket
  <2>1. net' = flight /\ UNCHANGED <<ether, arp>>
    BY <1>2 DEF RxArpReply
  <2>2. NetType' /\ Control' /\ Pending' \subseteq Pending
    BY <1>1, <2>1 DEF IInv, NetType, Control, Pending
  <2> QED
    BY <1>1, <2>1, <2>2, SameTimes, QuietIInv
<1>3. CASE arp.pkt # NoPacket
  <2>1. /\ ether' = TRUE /\ net' = flight \cup {arp.pkt}
        /\ arp' = [pkt |-> NoPacket, left |-> arp.left, try |-> arp.try]
    BY <1>3 DEF RxArpReply
  <2>2. ether' \in BOOLEAN
    BY <2>1
  <2>3. NetType'
    BY <1>1, <2>2 DEF IInv, NetType
  <2>4. arp'.pkt = NoPacket /\ ArpType' /\ Waited' /\ TimerType'
    BY <1>1, <2>1 DEF IInv, ArpType, Waited, TimerType
  <2>5. Control'
    BY <1>1, <2>4 DEF IInv, Control
  <2>6. Pending' \subseteq Pending
    BY <1>1, <1>3, <2>1 DEF Pending
  <2> QED
    BY <1>1, <2>3, <2>4, <2>5, <2>6, QuietIInv
<1> QED
  BY <1>2, <1>3

\* NetStartAgain sets the delay before the restart; what waits for ARP has waited
\* no longer than a timeout of TFTP.
LEMMA StartAgain ==
  ASSUME IInv, NEW tm \in {timer, NoTimer}, NetStartAgain(tm), arp' = arp, timer.who = "tftp"
  PROVE  /\ TimerType' /\ ArpType' /\ Waited'
         /\ netretry => /\ timer'.who = "startAgain" /\ handler' = "startAgain"
                        /\ NetState' = NetState
         /\ ~netretry => /\ timer'.who \in {timer.who, "none"} /\ NetState' = "FAIL"
                         /\ handler' = handler /\ timer' = tm
<1> USE Bounds, NetTypes
<1>1. ArpType'
  BY DEF IInv, ArpType
<1>2. CASE netretry
  <2>1. /\ timer' = [who |-> "startAgain", left |-> RESTART_DELAY]
        /\ handler' = "startAgain" /\ NetState' = NetState
    BY <1>2 DEF NetStartAgain, NetSetTimeout
  <2>2. TimerType'
    BY <2>1 DEF TimerType
  <2>3. PICK d \in Int : d = arp.try * ARP_TIMEOUT - arp.left
    OBVIOUS
  <2>4. arp.pkt # NoPacket => d <= TIMEOUT - timer.left
    BY <2>3, Spent
  <2>5. arp.pkt # NoPacket => d <= TIMEOUT + RESTART_DELAY - timer'.left
    BY <2>1, <2>4
  <2>6. Waited'
    BY <2>1, <2>2, <2>3, <2>5, WaitedNext
  <2> QED
    BY <1>1, <1>2, <2>1, <2>2, <2>6
<1>3. CASE ~netretry
  <2>1. NetState' = "FAIL" /\ timer' = tm /\ handler' = handler
    BY <1>3 DEF NetStartAgain
  <2>2. CASE tm = timer
    <3>1. timer' = timer
      BY <2>1, <2>2
    <3>2. TimerType' /\ Waited'
      BY <3>1, SameTimes
    <3> QED
      BY <1>1, <1>3, <2>1, <3>1, <3>2
  <2>3. CASE tm = NoTimer
    <3>1. timer' = [who |-> "none", left |-> 0]
      BY <2>1, <2>3 DEF NoTimer
    <3>2. TimerType'
      BY <3>1 DEF TimerType
    <3>3. PICK d \in Int : d = arp.try * ARP_TIMEOUT - arp.left
      OBVIOUS
    <3>4. arp.pkt # NoPacket => d <= TIMEOUT + RESTART_DELAY - timer'.left
      BY <3>1, <3>3, Spent
    <3>5. Waited'
      BY <3>1, <3>2, <3>3, <3>4, WaitedNext
    <3> QED
      BY <1>1, <1>3, <2>1, <3>1, <3>2, <3>5
  <2> QED
    BY <2>2, <2>3
<1> QED
  BY <1>2, <1>3

\* A packet that TftpHandler looks at comes from a session of this port, from the
\* one it is bound to if there is one.
LEMMA Accepted ==
  ASSUME IInv, NEW m, NEW flight, Gets(m, flight), Accepts(m)
  PROVE  /\ pc = "rx" /\ pc' = "arp" /\ UNCHANGED <<result, netretry, sess>>
         /\ handler = "tftp" /\ timer.who = "tftp" /\ NetState = "CONTINUE"
         /\ flight \in SUBSET net /\ m \in Pending
         /\ m.src \in 1 .. Len(sess) /\ m.src \in Sessions
         /\ m.dst = tftp.ourPort /\ sess[m.src].port = tftp.ourPort
         /\ tftp.ourPort \in Ports
         /\ tftp.state # "RRQ" => m.src = tftp.serverPort
         /\ m.kind # "DATA" => IsSign(m)
         /\ m.kind = "DATA" => IsData(m)
<1>1. /\ pc = "rx" /\ pc' = "arp" /\ UNCHANGED <<result, netretry, sess>>
      /\ flight \in SUBSET net /\ m \in Pending /\ m.kind \in {"OACK", "DATA", "ERROR"}
  BY DEF Gets, Takes, ToClient, Pending
<1>2. /\ handler = "tftp" /\ m.dst = tftp.ourPort
      /\ tftp.state # "RRQ" => m.src = tftp.serverPort
  BY DEF Accepts
<1>3. timer.who = "tftp" /\ NetState = "CONTINUE" /\ tftp.ourPort \in Ports
  BY <1>1, <1>2 DEF IInv, Control, Binding
<1>4. IsSign(m) \/ IsData(m)
  BY <1>1 DEF IInv, Messages, IsPacket, IsRRQ, IsAck, ArpReq, ArpRep
<1>5. /\ m.kind # "DATA" => IsSign(m)
      /\ m.kind = "DATA" => IsData(m)
  BY <1>4 DEF IsSign, IsData
<1>6. m.src \in 1 .. Len(sess) /\ m.dst = sess[m.src].port
  <2>1. CASE IsSign(m)
    BY <2>1 DEF IsSign, Packet
  <2>2. CASE IsData(m)
    BY <2>2 DEF IsData, Data
  <2> QED
    BY <1>4, <2>1, <2>2
<1>7. m.src \in Sessions
  BY <1>6, SessFacts DEF IInv, SessType
<1> QED
  BY <1>1, <1>2, <1>3, <1>5, <1>6, <1>7

\* The client binds itself to the session of the packet, or stays bound to it.
LEMMA Bind ==
  ASSUME IInv, NEW m, NEW flight, Gets(m, flight), Accepts(m), tftp' \in TftpStates,
         tftp'.state # "RRQ", tftp'.serverPort = m.src, tftp'.ourPort = tftp.ourPort
  PROVE  /\ TftpType' /\ SessType' /\ Binding'
         /\ \A q \in Pending : IsPacket(q)'
<1>1. /\ sess' = sess /\ m.src \in 1 .. Len(sess) /\ sess[m.src].port = tftp.ourPort
      /\ tftp.state # "RRQ" => m.src = tftp.serverPort
      /\ tftp.ourPort \in Ports
  BY Accepted
<1>2. SessType /\ SessType'
  BY <1>1 DEF IInv, SessType
<1>3. Binding'
  BY <1>1 DEF Binding
<1>4. \A s \in 1 .. Len(sess) : sess[s].at <= sess'[s].at
  BY <1>1, <1>2, SessFacts DEF SessType
<1>5. ASSUME NEW q \in Pending PROVE IsPacket(q)'
  <2>1. IsPacket(q)
    BY DEF IInv, Messages
  <2> QED
    BY <1>1, <1>2, <1>4, <2>1, KeepPacket
<1> QED
  BY <1>2, <1>3, <1>5 DEF TftpType

\* startAgainHandler, or an early return of TftpHandler.
LEMMA RxIgnoredIInv ==
  ASSUME IInv, NEW m, NEW flight, RxIgnored(m, flight)
  PROVE  IInv'
<1>1. /\ pc = "rx" /\ pc' = "arp" /\ flight \subseteq net /\ net' = flight
      /\ UNCHANGED <<result, netretry, NetState, handler, timer, size, ether, arp>>
      /\ UNCHANGED tftpvars
  BY DEF RxIgnored, Gets, Takes, tftpvars
<1>2. NetType'
  BY <1>1 DEF IInv, NetType, tftpvars
<1>3. Control'
  BY <1>1 DEF IInv, Control, tftpvars
<1>4. Pending' \subseteq Pending
  BY <1>1 DEF Pending
<1> QED
  BY <1>1, <1>2, <1>3, <1>4, SameTimes, QuietIInv

\* The server reports an error.
LEMMA RxErrorIInv ==
  ASSUME IInv, NEW m, NEW flight, RxError(m, flight)
  PROVE  IInv'
<1>1. Gets(m, flight) /\ Accepts(m) /\ NetStartAgain(timer) /\ net' = flight
      /\ UNCHANGED <<size, mem, tftp, ether, arp>>
  BY DEF RxError
<1>2. /\ pc = "rx" /\ pc' = "arp" /\ flight \subseteq net /\ UNCHANGED <<result, netretry, sess>>
      /\ timer.who = "tftp" /\ handler = "tftp" /\ NetState = "CONTINUE"
  BY <1>1, Accepted
<1>3. /\ TimerType' /\ ArpType' /\ Waited'
      /\ netretry => timer'.who = "startAgain" /\ handler' = "startAgain" /\ NetState' = NetState
      /\ ~netretry => timer' = timer /\ NetState' = "FAIL" /\ handler' = handler
  BY <1>1, <1>2, StartAgain
<1>4. netretry \in BOOLEAN
  BY DEF IInv, NetType
<1>5. NetType'
  <2>1. NetState' \in {"CONTINUE", "FAIL"} /\ handler' \in {"tftp", "startAgain"}
    BY <1>2, <1>3
  <2> QED
    BY <1>1, <1>2, <2>1 DEF IInv, NetType
<1>6. Control'
  BY <1>1, <1>2, <1>3 DEF IInv, Control
<1>7. Pending' \subseteq Pending
  BY <1>1, <1>2 DEF Pending
<1>8. UNCHANGED tftpvars
  BY <1>1, <1>2 DEF tftpvars
<1> QED
  BY <1>2, <1>3, <1>5, <1>6, <1>7, <1>8, QuietIInv

\* A DATA packet that TftpHandler looks at carries a block its session has sent,
\* and binds the client to that session.
LEMMA DataFacts ==
  ASSUME IInv, NEW m, NEW flight, Gets(m, flight), Accepts(m), m.kind = "DATA"
  PROVE  /\ \E i \in 1 .. Blocks[m.src] :
              i <= sess[m.src].at /\ m.blk = i % SequenceSize /\ m.body = <<m.src, i>>
         /\ m.blk \in 0 .. SequenceSize - 1 /\ m.body \in Bodies /\ LenOf(m) \in Nat
         /\ DataSeen(m) \in TftpStates /\ DataSeen(m).state = "DATA"
         /\ DataSeen(m).serverPort = m.src /\ DataSeen(m).ourPort = tftp.ourPort
         /\ DataSeen(m).block = m.blk /\ DataSeen(m).count = tftp.count
         /\ DataSeen(m).blk = tftp.blk
         /\ DataSeen(m).wrap =
              IF Unlocked THEN 0
              ELSE IF m.blk = 0 THEN tftp.wrap + tftp.blk * SequenceSize ELSE tftp.wrap
<1> USE Bounds
<1>1. IsData(m) /\ m.src \in Sessions /\ (tftp.state # "RRQ" => m.src = tftp.serverPort)
  BY Accepted
<1>2. PICK i \in 1 .. Blocks[m.src] : i <= sess[m.src].at /\ m = Data(m.src, sess[m.src].port, i)
  BY <1>1 DEF IsData
<1>3. i \in Nat \ {0} /\ i % SequenceSize \in 0 .. SequenceSize - 1
  BY <1>1, <1>2, BlocksType
<1>4. m.blk = i % SequenceSize /\ m.body = <<m.src, i>>
  BY <1>2 DEF Data
<1>5. m.body \in Bodies
  BY <1>1, <1>3, <1>4 DEF Bodies
<1>6. LenOf(m) \in Nat
  BY <1>1, <1>4, BlocksType DEF LenOf
<1>7. tftp \in TftpStates
  BY DEF IInv, TftpType
<1>8. CASE Unlocked
  <2>1. DataSeen(m) = [tftp EXCEPT !.state = "DATA", !.serverPort = m.src, !.block = m.blk,
                                   !.last = 0, !.wrap = 0]
    BY <1>8 DEF DataSeen
  <2>2. m.blk \in 0 .. SequenceSize - 1
    BY <1>3, <1>4
  <2>3. DataSeen(m) \in TftpStates
    <3>1. DataSeen(m) = [state |-> "DATA", serverPort |-> m.src, ourPort |-> tftp.ourPort,
                         block |-> m.blk, last |-> 0, wrap |-> 0, count |-> tftp.count,
                         blk |-> tftp.blk]
      BY <1>7, <2>1 DEF TftpStates
    <3>2. 0 \in 0 .. SequenceSize - 1
      OBVIOUS
    <3> QED
      BY <1>1, <1>7, <2>2, <3>1, <3>2 DEF TftpStates
  <2>4. /\ DataSeen(m).state = "DATA" /\ DataSeen(m).serverPort = m.src
        /\ DataSeen(m).ourPort = tftp.ourPort /\ DataSeen(m).block = m.blk
        /\ DataSeen(m).count = tftp.count /\ DataSeen(m).wrap = 0
        /\ DataSeen(m).blk = tftp.blk
    BY <1>7, <2>1 DEF TftpStates
  <2> QED
    BY <1>2, <1>4, <1>5, <1>6, <1>8, <2>2, <2>3, <2>4
<1>9. CASE ~Unlocked
  <2>1. PICK w : w = IF m.blk = 0 THEN tftp.wrap + tftp.blk * SequenceSize ELSE tftp.wrap
    OBVIOUS
  <2>2. DataSeen(m) = [tftp EXCEPT !.block = m.blk, !.wrap = w]
    BY <1>9, <2>1 DEF DataSeen
  <2>3. m.blk \in 0 .. SequenceSize - 1 /\ w \in Nat
    <3>1. tftp.blk \in Nat /\ tftp.wrap \in Nat
      BY <1>7 DEF TftpStates
    <3>2. tftp.blk * SequenceSize \in Nat
      BY <3>1, Products
    <3> QED
      BY <1>3, <1>4, <2>1, <3>1, <3>2
  <2>4. tftp.state = "DATA" /\ tftp.serverPort = m.src
    BY <1>1, <1>7, <1>9 DEF Unlocked, TftpStates
  <2> QED
    BY <1>1, <1>2, <1>4, <1>5, <1>6, <1>7, <1>9, <2>1, <2>2, <2>3, <2>4 DEF TftpStates
<1> QED
  BY <1>8, <1>9

\* OACK: the client acknowledges what it has.
LEMMA RxOackIInv ==
  ASSUME IInv, NEW m, NEW flight, RxOack(m, flight)
  PROVE  IInv'
<1>1. /\ Gets(m, flight) /\ Accepts(m) /\ TftpSend(tftp', ether, flight)
      /\ tftp' = [tftp EXCEPT !.state = "OACK", !.serverPort = m.src,
                              !.blk = BlkSize[m.src]]
      /\ UNCHANGED <<NetState, handler, timer, size, mem, ether>>
  BY DEF RxOack
<1>2. /\ pc = "rx" /\ pc' = "arp" /\ flight \in SUBSET net /\ UNCHANGED <<result, netretry, sess>>
      /\ timer.who = "tftp" /\ m.src \in Sessions
  BY <1>1, Accepted
<1>3. /\ tftp' \in TftpStates /\ tftp'.state # "RRQ" /\ tftp'.serverPort = m.src
      /\ tftp'.ourPort = tftp.ourPort /\ tftp'.count = tftp.count
  BY <1>1, <1>2, BlocksType DEF IInv, TftpType, TftpStates
<1>4. TftpType' /\ SessType' /\ Binding' /\ \A q \in Pending : IsPacket(q)'
  BY <1>1, <1>3, Bind
<1>5. NetType' /\ TimerType'
  BY <1>1, <1>2 DEF IInv, NetType, TimerType
<1>6. ArpType' /\ Messages' /\ Waited' /\ (ether' => arp'.pkt = NoPacket)
  <2>1. \A q \in flight : IsPacket(q)'
    BY <1>2, <1>4 DEF Pending
  <2>2. timer'.who = "tftp" /\ pc' # "start" 
    BY <1>1, <1>2
  <2> QED
    BY <1>1, <1>2, <1>4, <1>5, <2>1, <2>2, Sends
<1>7. Control'
  BY <1>1, <1>2, <1>3, <1>6 DEF IInv, Control
<1> QED
  BY <1>4, <1>5, <1>6, <1>7 DEF IInv

\* A first block that is not block 1: NetLoop starts again.
LEMMA RxNotFirstIInv ==
  ASSUME IInv, NEW m, NEW flight, RxNotFirst(m, flight)
  PROVE  IInv'
<1>1. /\ Gets(m, flight) /\ Accepts(m) /\ m.kind = "DATA" /\ tftp' = DataSeen(m)
      /\ NetStartAgain(timer) /\ net' = flight /\ UNCHANGED <<size, mem, ether, arp>>
  BY DEF RxNotFirst
<1>2. /\ pc = "rx" /\ pc' = "arp" /\ flight \in SUBSET net /\ UNCHANGED <<result, netretry, sess>>
      /\ timer.who = "tftp" /\ handler = "tftp" /\ NetState = "CONTINUE"
  BY <1>1, Accepted
<1>3. /\ tftp' \in TftpStates /\ tftp'.state = "DATA" /\ tftp'.serverPort = m.src
      /\ tftp'.ourPort = tftp.ourPort /\ tftp'.count = tftp.count
  BY <1>1, DataFacts
<1>4. TftpType' /\ SessType' /\ Binding' /\ \A q \in Pending : IsPacket(q)'
  BY <1>1, <1>3, Bind
<1>5. /\ TimerType' /\ ArpType' /\ Waited'
      /\ netretry => timer'.who = "startAgain" /\ handler' = "startAgain" /\ NetState' = NetState
      /\ ~netretry => timer' = timer /\ NetState' = "FAIL" /\ handler' = handler
  BY <1>1, <1>2, StartAgain
<1>6. NetType'
  <2>1. NetState' \in {"CONTINUE", "FAIL"} /\ handler' \in {"tftp", "startAgain"}
    BY <1>2, <1>5 DEF IInv, NetType
  <2> QED
    BY <1>1, <1>2, <2>1 DEF IInv, NetType
<1>7. Control'
  <2>1. netretry \in BOOLEAN
    BY DEF IInv, NetType
  <2> QED
    BY <1>1, <1>2, <1>3, <1>5, <2>1 DEF IInv, Control
<1>8. Messages'
  BY <1>1, <1>2, <1>4 DEF Messages, Pending
<1> QED
  BY <1>4, <1>5, <1>6, <1>7, <1>8 DEF IInv

\* The block of the last time again.
LEMMA RxSameIInv ==
  ASSUME IInv, NEW m, NEW flight, RxSame(m, flight)
  PROVE  IInv'
<1>1. /\ Gets(m, flight) /\ Accepts(m) /\ m.kind = "DATA" /\ tftp' = DataSeen(m) /\ net' = flight
      /\ UNCHANGED <<NetState, handler, timer, size, mem, ether, arp>>
  BY DEF RxSame
<1>2. /\ pc = "rx" /\ pc' = "arp" /\ flight \in SUBSET net /\ UNCHANGED <<result, netretry, sess>>
  BY <1>1, Accepted
<1>3. /\ tftp' \in TftpStates /\ tftp'.state = "DATA" /\ tftp'.serverPort = m.src
      /\ tftp'.ourPort = tftp.ourPort /\ tftp'.count = tftp.count
  BY <1>1, DataFacts
<1>4. TftpType' /\ SessType' /\ Binding' /\ \A q \in Pending : IsPacket(q)'
  BY <1>1, <1>3, Bind
<1>5. TimerType' /\ ArpType' /\ Waited'
  BY <1>1, SameTimes
<1>6. NetType'
  BY <1>1, <1>2 DEF IInv, NetType
<1>7. Control'
  BY <1>1, <1>2, <1>3 DEF IInv, Control
<1>8. Messages'
  BY <1>1, <1>2, <1>4 DEF Messages, Pending
<1> QED
  BY <1>4, <1>5, <1>6, <1>7, <1>8 DEF IInv

\* What store_block does, with its offset and length named.
LEMMA StoreBlock ==
  ASSUME NEW t, NEW m, store_block(t, m), NEW o \in Nat, o = (t.block - 1) * t.blk + t.wrap,
         NEW len \in Nat, len = LenOf(m)
  PROVE  /\ mem' = [a \in Slots |-> IF a \in o .. o + len - 1 THEN UnitOf(m, a - o) ELSE mem[a]]
         /\ size' = IF size < o + len THEN o + len ELSE size
  BY DEF store_block

\* A block is stored and acknowledged.
LEMMA RxBlockIInv ==
  ASSUME IInv, NEW m, NEW flight, RxBlock(m, flight)
  PROVE  IInv'
<1> USE Bounds
<1>1. /\ Gets(m, flight) /\ Accepts(m) /\ m.kind = "DATA"
      /\ tftp' = [DataSeen(m) EXCEPT !.last = m.blk]
      /\ TftpSend(tftp', ether, flight) /\ UNCHANGED <<handler, ether>>
      /\ ~NotFirstBlock(m) /\ store_block(DataSeen(m), m)
  BY DEF RxBlock
<1>2. /\ pc = "rx" /\ pc' = "arp" /\ flight \in SUBSET net /\ UNCHANGED <<result, netretry, sess>>
      /\ handler = "tftp" /\ NetState = "CONTINUE"
  BY <1>1, Accepted
<1>3. /\ DataSeen(m) \in TftpStates /\ m.blk \in 0 .. SequenceSize - 1
      /\ m.body \in Bodies /\ LenOf(m) \in Nat
      /\ DataSeen(m).state = "DATA" /\ DataSeen(m).serverPort = m.src
      /\ DataSeen(m).ourPort = tftp.ourPort /\ DataSeen(m).count = tftp.count
      /\ DataSeen(m).block = m.blk /\ DataSeen(m).blk = tftp.blk
      /\ DataSeen(m).wrap =
           IF Unlocked THEN 0
           ELSE IF m.blk = 0 THEN tftp.wrap + tftp.blk * SequenceSize ELSE tftp.wrap
  BY <1>1, DataFacts
<1>4. /\ tftp' \in TftpStates /\ tftp'.state = "DATA" /\ tftp'.serverPort = m.src
      /\ tftp'.ourPort = tftp.ourPort /\ tftp'.count = tftp.count
  BY <1>1, <1>3 DEF TftpStates
<1>5. TftpType' /\ SessType' /\ Binding' /\ \A q \in Pending : IsPacket(q)'
  BY <1>1, <1>4, Bind
<1>6. timer' = [who |-> "tftp", left |-> TIMEOUT]
      /\ NetState' \in {"CONTINUE", "SUCCESS"}
  BY <1>2 DEF RxBlock, NetSetTimeout
<1>7. TimerType'
  BY <1>6 DEF TimerType
<1>8. mem' \in [Slots -> Units \cup {NoBody}] /\ size' \in Nat
  <2>1. PICK o : o = (DataSeen(m).block - 1) * DataSeen(m).blk + DataSeen(m).wrap
    OBVIOUS
  <2>2. PICK b \in Nat : b = tftp.blk
    BY DEF IInv, TftpType, TftpStates
  <2>3. o \in Nat
    <3>1. CASE Unlocked
      <4>1. m.blk - 1 = 0 /\ DataSeen(m).wrap = 0
        BY <1>1, <1>3, <3>1 DEF NotFirstBlock
      <4>2. o = 0 * b + 0
        BY <1>3, <2>1, <2>2, <4>1
      <4> QED
        BY <4>2
    <3>2. CASE ~Unlocked /\ m.blk # 0
      <4>1. tftp.wrap \in Nat /\ m.blk - 1 \in Nat
        BY <1>3, <3>2 DEF IInv, TftpType, TftpStates
      <4>2. (m.blk - 1) * b \in Nat
        BY <4>1, Products
      <4>3. o = (m.blk - 1) * b + tftp.wrap
        BY <1>3, <2>1, <2>2, <3>2
      <4> QED
        BY <4>1, <4>2, <4>3
    <3>3. CASE ~Unlocked /\ m.blk = 0
      <4>1. tftp.wrap \in Nat
        BY DEF IInv, TftpType, TftpStates
      <4>2. o = (0 - 1) * b + (tftp.wrap + b * SequenceSize)
        BY <1>3, <2>1, <2>2, <3>3
      <4>3. (0 - 1) * b = 0 - b
        OBVIOUS
      <4>4. PICK c \in Nat : SequenceSize = c + 1
        OBVIOUS
      <4>5. (c + 1) * b = c * b + b /\ c * b \in Nat
        BY <4>4, Products
      <4>6. b * SequenceSize = SequenceSize * b
        OBVIOUS
      <4>7. b * SequenceSize = c * b + b
        BY <4>4, <4>5, <4>6
      <4> QED
        BY <4>1, <4>2, <4>3, <4>5, <4>7
    <3> QED
      BY <3>1, <3>2, <3>3
  <2>4. o + LenOf(m) \in Nat
    BY <1>3, <2>3
  <2>5. /\ mem' = [a \in Slots |-> IF a \in o .. o + LenOf(m) - 1
                                   THEN UnitOf(m, a - o) ELSE mem[a]]
        /\ size' = IF size < o + LenOf(m) THEN o + LenOf(m) ELSE size
    BY <1>1, <1>3, <2>1, <2>3, StoreBlock
  <2>6. ASSUME NEW a \in o .. o + LenOf(m) - 1 PROVE UnitOf(m, a - o) \in Units
    <3>1. PICK s \in Sessions, i \in Nat \ {0} : m.body = <<s, i>>
      BY <1>3 DEF Bodies
    <3>2. i - 1 \in Nat /\ BlkSize[s] \in Nat /\ a - o \in Nat
      BY <2>3, <3>1, BlocksType
    <3>3. (i - 1) * BlkSize[s] \in Nat
      BY <3>2, Products
    <3>4. (i - 1) * BlkSize[s] + (a - o) \in Nat
      BY <3>2, <3>3
    <3> QED
      BY <3>1, <3>4 DEF UnitOf, Units
  <2>7. mem \in [Slots -> Units \cup {NoBody}] /\ size \in Nat
    BY DEF IInv, NetType
  <2> QED
    BY <2>4, <2>5, <2>6, <2>7
<1>9. NetType'
  BY <1>1, <1>2, <1>6, <1>8 DEF IInv, NetType
<1>10. ArpType' /\ Messages' /\ Waited' /\ (ether' => arp'.pkt = NoPacket)
  <2>1. \A q \in flight : IsPacket(q)'
    BY <1>2, <1>5 DEF Pending
  <2>2. timer'.who = "tftp" /\ pc' # "start" 
    BY <1>2, <1>6
  <2> QED
    BY <1>1, <1>2, <1>5, <1>7, <2>1, <2>2, Sends
<1>11. Control'
  BY <1>1, <1>2, <1>4, <1>6, <1>10 DEF IInv, Control
<1> QED
  BY <1>5, <1>7, <1>9, <1>10, <1>11 DEF IInv

\* NetLoop starts: nothing is in flight but what it asks.
LEMMA TftpStartIInv ==
  ASSUME IInv, NEW p \in Ports, TftpStart(p)
  PROVE  IInv'
<1> USE Bounds
<1>1. /\ pc = "start" /\ pc' = "rx" /\ NetState' = "CONTINUE" /\ size' = 0
      /\ handler' = "tftp" /\ UNCHANGED <<result, netretry, mem, sess>>
      /\ timer' = [who |-> "tftp", left |-> TIMEOUT]
      /\ tftp' = [tftp EXCEPT !.state = "RRQ", !.serverPort = WELL_KNOWN_PORT,
                              !.ourPort = p, !.block = 0, !.count = 0,
                              !.blk = TFTP_BLOCK_SIZE]
      /\ TftpSend(tftp', FALSE, {})
  BY DEF TftpStart, Restart, NetSetTimeout
<1>2. ether' = FALSE
  BY DEF TftpStart
<1>3. ether' \in BOOLEAN
  BY <1>2
<1>4. NetType'
  BY <1>1, <1>3 DEF IInv, NetType
<1>5. TimerType'
  BY <1>1 DEF TimerType
<1>6. tftp \in TftpStates
  BY DEF IInv, TftpType
<1>7. TftpType'
  <2>1. tftp' = [state |-> "RRQ", serverPort |-> WELL_KNOWN_PORT, ourPort |-> p, block |-> 0,
                 last |-> tftp.last, wrap |-> tftp.wrap, count |-> 0,
                 blk |-> TFTP_BLOCK_SIZE]
    BY <1>1, <1>6 DEF TftpStates
  <2>2. 0 \in 0 .. SequenceSize - 1 /\ 0 \in 0 .. TIMEOUT_COUNT + 1
    OBVIOUS
  <2> QED
    BY <1>6, <2>1, <2>2 DEF TftpType, TftpStates
<1>8. tftp'.state = "RRQ" /\ tftp'.serverPort = WELL_KNOWN_PORT /\ tftp'.ourPort = p
      /\ tftp'.block = 0 /\ tftp'.count = 0
  BY <1>1, <1>6 DEF TftpStates
<1>9. Binding' /\ SessType'
  BY <1>1, <1>8 DEF Binding, IInv, SessType
<1>10. ArpType' /\ Messages' /\ Waited' /\ (ether' => arp'.pkt = NoPacket)
  <2>1. timer'.who = "tftp" /\ pc' # "start" /\ {} \in SUBSET net
    BY <1>1
  <2>2. PICK known : known = FALSE
    OBVIOUS
  <2>3. (known => ether) /\ ether' = known /\ TftpSend(tftp', known, {})
    BY <1>1, <1>2, <2>2, Zenon
  <2> QED
    BY <1>5, <1>7, <1>9, <2>1, <2>3, Sends
<1>11. Control'
  BY <1>1, <1>8, <1>10 DEF IInv, Control
<1> QED
  BY <1>4, <1>5, <1>7, <1>9, <1>10, <1>11 DEF IInv

\* What the switch on NetState keeps.
LEMMA Switched ==
  ASSUME IInv, pc = "time", Switch, NetState' \in {"CONTINUE", "RESTART", "SUCCESS", "FAIL"}
  PROVE  /\ pc' \in {"rx", "start", "done"} /\ result' \in {"none", "size", "fail"}
         /\ (pc' = "rx" <=> NetState' = "CONTINUE")
         /\ (pc' = "start" <=> NetState' = "RESTART")
         /\ (result' = "size" => NetState' = "SUCCESS") /\ (result' # "none" => pc' = "done")
         /\ UNCHANGED <<netretry, size, ether>>
<1>1. result = "none"
  BY DEF IInv, Control, NetType
<1>2. UNCHANGED <<netretry, size, ether>>
  BY DEF Switch
<1>3. CASE NetState' = "CONTINUE"
  BY <1>1, <1>2, <1>3 DEF Switch
<1>4. CASE NetState' = "RESTART"
  BY <1>1, <1>2, <1>4 DEF Switch
<1>5. CASE NetState' = "SUCCESS"
  BY <1>1, <1>2, <1>5 DEF Switch
<1>6. CASE NetState' = "FAIL"
  BY <1>1, <1>2, <1>6 DEF Switch
<1> QED
  BY <1>3, <1>4, <1>5, <1>6

\* No timer has run out.
LEMMA NoTimeoutIInv ==
  ASSUME IInv, pc = "time", NoTimeout, UNCHANGED tftp, Switch, UNCHANGED <<mem, sess>>
  PROVE  IInv'
<1>1. UNCHANGED <<NetState, handler, timer, arp, net>> /\ UNCHANGED tftpvars
  BY DEF NoTimeout, tftpvars
<1>2. NetState' \in {"CONTINUE", "RESTART", "SUCCESS", "FAIL"}
  BY <1>1 DEF IInv, NetType
<1>3. /\ pc' \in {"rx", "start", "done"} /\ result' \in {"none", "size", "fail"}
      /\ (pc' = "rx" <=> NetState' = "CONTINUE") /\ (pc' = "start" <=> NetState' = "RESTART")
      /\ (result' = "size" => NetState' = "SUCCESS") /\ (result' # "none" => pc' = "done")
      /\ UNCHANGED <<netretry, size, ether>>
  BY <1>2, Switched
<1>4. NetType'
  BY <1>1, <1>2, <1>3 DEF IInv, NetType
<1>5. Control'
  BY <1>1, <1>3 DEF IInv, Control
<1>6. Pending' = Pending
  BY <1>1 DEF Pending
<1> QED
  BY <1>1, <1>4, <1>5, <1>6, SameTimes, QuietIInv

\* The delay before the restart is over.
LEMMA startAgainTimeoutIInv ==
  ASSUME IInv, pc = "time", TimeoutOf("startAgain"), startAgainTimeout, UNCHANGED tftp, Switch,
         UNCHANGED <<mem, sess>>
  PROVE  IInv'
<1> USE Bounds, NetTypes
<1>1. /\ NetState' = "RESTART" /\ timer' = [who |-> "none", left |-> 0]
      /\ UNCHANGED <<handler, arp, net>> /\ UNCHANGED tftpvars
  BY DEF startAgainTimeout, NoTimer, tftpvars
<1>2. timer.who = "startAgain" /\ timer.left = 0
  BY DEF TimeoutOf, TimeExpired
<1>3. /\ pc' = "start" /\ result' \in {"none", "fail"} /\ (result' # "none" => pc' = "done")
      /\ UNCHANGED <<netretry, size, ether>>
  BY <1>1, Switched
<1>4. NetType'
  BY <1>1, <1>3 DEF IInv, NetType
<1>5. Control'
  BY <1>1, <1>3 DEF IInv, Control
<1>6. TimerType' /\ ArpType'
  BY <1>1 DEF TimerType, IInv, ArpType
<1>7. Waited'
  <2>1. PICK d \in Int : d = arp.try * ARP_TIMEOUT - arp.left
    OBVIOUS
  <2>2. arp.pkt # NoPacket => d <= TIMEOUT + RESTART_DELAY - timer'.left
    BY <1>1, <1>2, <2>1, Spent
  <2> QED
    BY <1>1, <1>6, <2>1, <2>2, WaitedNext
<1>8. Pending' = Pending
  BY <1>1 DEF Pending
<1> QED
  BY <1>1, <1>4, <1>5, <1>6, <1>7, <1>8, QuietIInv

\* A timeout of TFTP: the packet is sent again, or NetLoop starts again.
LEMMA TftpTimeoutIInv ==
  ASSUME IInv, pc = "time", TimeoutOf("tftp"), TftpTimeout, Switch, UNCHANGED <<mem, sess>>
  PROVE  IInv'
<1> USE Bounds, NetTypes
<1>1. timer.who = "tftp" /\ timer.left = 0
  BY DEF TimeoutOf, TimeExpired
<1>2. handler = "tftp" /\ tftp.count <= TIMEOUT_COUNT
  <2>1. handler \in {"tftp", "startAgain"}
    BY DEF IInv, NetType
  <2> QED
    BY <1>1, <2>1 DEF IInv, Control
<1>3. tftp' = [tftp EXCEPT !.count = @ + 1] /\ tftp \in TftpStates
  BY DEF TftpTimeout, IInv, TftpType
<1>4. /\ tftp' \in TftpStates /\ tftp'.state = tftp.state /\ tftp'.serverPort = tftp.serverPort
      /\ tftp'.ourPort = tftp.ourPort /\ tftp'.block = tftp.block
      /\ tftp'.count = tftp.count + 1 /\ tftp.count \in Nat
  BY <1>2, <1>3 DEF TftpStates
<1>5. TftpType' /\ SessType' /\ Binding'
  BY <1>4 DEF TftpType, IInv, SessType, Binding
<1>6. \A q \in Pending : IsPacket(q)'
  BY <1>4 DEF IInv, Messages, IsPacket, IsRRQ, IsAck, IsSign, IsData
<1>7. CASE tftp'.count > TIMEOUT_COUNT
  <2>1. NetStartAgain(NoTimer) /\ UNCHANGED <<arp, net>>
    BY <1>7 DEF TftpTimeout
  <2>2. /\ TimerType' /\ ArpType' /\ Waited'
        /\ netretry => timer'.who = "startAgain" /\ handler' = "startAgain" /\ NetState' = NetState
        /\ ~netretry => timer' = NoTimer /\ NetState' = "FAIL" /\ handler' = handler
    BY <1>1, <2>1, StartAgain
  <2>3. netretry \in BOOLEAN /\ NetState \in {"CONTINUE", "RESTART", "SUCCESS", "FAIL"}
    BY DEF IInv, NetType
  <2>4. /\ NetState' \in {"CONTINUE", "RESTART", "SUCCESS", "FAIL"}
        /\ handler' \in {"tftp", "startAgain"}
    BY <1>2, <2>2, <2>3
  <2>5. /\ pc' \in {"rx", "start", "done"} /\ result' \in {"none", "size", "fail"}
        /\ (pc' = "rx" <=> NetState' = "CONTINUE") /\ (pc' = "start" <=> NetState' = "RESTART")
        /\ (result' = "size" => NetState' = "SUCCESS") /\ (result' # "none" => pc' = "done")
        /\ UNCHANGED <<netretry, size, ether>>
    BY <2>4, Switched
  <2>6. NetType'
    BY <2>4, <2>5 DEF IInv, NetType
  <2>7. Control'
    <3>1. netretry => Control'
      BY <2>1, <2>2, <2>5 DEF IInv, Control
    <3>2. ~netretry => Control'
      BY <2>1, <2>2, <2>5 DEF IInv, Control, NoTimer
    <3> QED
      BY <2>3, <3>1, <3>2
  <2>8. Messages'
    BY <1>6, <2>1 DEF Messages, Pending
  <2> QED
    BY <1>5, <2>2, <2>6, <2>7, <2>8 DEF IInv
<1>8. CASE ~(tftp'.count > TIMEOUT_COUNT)
  <2>1. /\ timer' = [who |-> "tftp", left |-> TIMEOUT] /\ TftpSend(tftp', ether, net)
        /\ UNCHANGED <<NetState, handler>>
    BY <1>8 DEF TftpTimeout, NetSetTimeout
  <2>2. NetState' \in {"CONTINUE", "RESTART", "SUCCESS", "FAIL"}
    BY <2>1 DEF IInv, NetType
  <2>3. /\ pc' \in {"rx", "start", "done"} /\ result' \in {"none", "size", "fail"}
        /\ (pc' = "rx" <=> NetState' = "CONTINUE") /\ (pc' = "start" <=> NetState' = "RESTART")
        /\ (result' = "size" => NetState' = "SUCCESS") /\ (result' # "none" => pc' = "done")
        /\ UNCHANGED <<netretry, size, ether>>
    BY <2>2, Switched
  <2>4. NetType' /\ TimerType'
    BY <2>1, <2>2, <2>3 DEF IInv, NetType, TimerType
  <2>5. ArpType' /\ Messages' /\ Waited' /\ (ether' => arp'.pkt = NoPacket)
    <3>1. \A q \in net : IsPacket(q)'
      BY <1>6 DEF Pending
    <3>2. timer'.who = "tftp" /\ pc' # "start" /\ net \in SUBSET net
      BY <1>1, <2>1, <2>3 DEF IInv, Control
    <3> QED
      BY <1>5, <2>1, <2>3, <2>4, <3>1, <3>2, Sends
  <2>6. Control'
    BY <1>2, <1>4, <1>8, <2>1, <2>3, <2>5 DEF IInv, Control
  <2> QED
    BY <1>5, <2>4, <2>5, <2>6 DEF IInv
<1> QED
  BY <1>7, <1>8

-----------------------------------------------------------------------------
(* The server.                                                             *)

\* A session is opened.
LEMMA Opened ==
  ASSUME NEW ss, IsSess(ss), NEW s, s = Len(ss) + 1, s <= MaxSessions,
         NEW p \in Ports, NEW n \in Nat, n <= Blocks[s] + 1, NEW c \in Nat
  PROVE  LET st == Append(ss, [port |-> p, at |-> n, attempt |-> c])
         IN  /\ IsSess(st) /\ s \in Sessions /\ Len(st) = s /\ st[s].port = p /\ st[s].at = n
             /\ st[s].attempt = c /\ s \in 1 .. Len(st)
             /\ \A j \in 1 .. Len(ss) : j \in 1 .. Len(st) /\ j # s /\ st[j] = ss[j]
<1> USE Bounds
<1>1. ss \in Seq([port : Ports, at : Nat, attempt : Nat]) /\ Len(ss) \in Nat
  BY DEF IsSess
<1>2. PICK r : r = [port |-> p, at |-> n, attempt |-> c]
  OBVIOUS
<1>3. r \in [port : Ports, at : Nat, attempt : Nat] /\ r.port = p /\ r.at = n
      /\ r.attempt = c
  BY <1>2
<1>4. PICK st : st = Append(ss, r)
  OBVIOUS
<1>5. /\ st \in Seq([port : Ports, at : Nat, attempt : Nat]) /\ Len(st) = Len(ss) + 1
      /\ \A j \in 1 .. Len(ss) : st[j] = ss[j]
      /\ st[Len(ss) + 1] = r
  BY <1>1, <1>3, <1>4, AppendProperties
<1>6. \A j \in 1 .. Len(st) : st[j].at <= Blocks[j] + 1
  <2>1. TAKE j \in 1 .. Len(st)
  <2>2. CASE j = s
    BY <1>3, <1>5, <2>2
  <2>3. CASE j # s
    <3>1. j \in 1 .. Len(ss)
      BY <1>1, <1>5, <2>3
    <3> QED
      BY <1>5, <3>1 DEF IsSess
  <2> QED
    BY <2>2, <2>3
<1>7. IsSess(st)
  BY <1>1, <1>5, <1>6 DEF IsSess
<1>8. s \in Sessions
  BY <1>1 DEF Sessions
<1>9. s \in 1 .. Len(st) /\ \A j \in 1 .. Len(ss) : j \in 1 .. Len(st) /\ j # s
  BY <1>1, <1>5
<1> QED
  BY <1>2, <1>3, <1>4, <1>5, <1>7, <1>8, <1>9

\* A session goes on.
LEMMA Advanced ==
  ASSUME NEW ss, IsSess(ss), NEW s \in 1 .. Len(ss), ss[s].at <= Blocks[s],
         NEW st \in Seq([port : Ports, at : Nat, attempt : Nat]), Len(st) = Len(ss),
         \A j \in 1 .. Len(ss) :
           /\ st[j].port = ss[j].port
           /\ st[j].at = IF j = s THEN ss[j].at + 1 ELSE ss[j].at
  PROVE  IsSess(st)
<1>1. \A j \in 1 .. Len(ss) : ss[j].at \in Nat /\ Blocks[j] \in Nat /\ ss[j].at <= Blocks[j] + 1
  BY SessFacts
<1>2. ASSUME NEW j \in 1 .. Len(st) PROVE st[j].at <= Blocks[j] + 1
  <2>1. /\ ss[j].at \in Nat /\ Blocks[j] \in Nat /\ ss[j].at <= Blocks[j] + 1
        /\ st[j].at = IF j = s THEN ss[j].at + 1 ELSE ss[j].at
        /\ j = s => ss[j].at <= Blocks[j]
    BY <1>1
  <2>2. CASE j = s
    <3>1. ss[j].at + 1 <= Blocks[j] + 1
      BY <2>1, <2>2, Counting
    <3> QED
      BY <2>1, <2>2, <3>1
  <2>3. CASE j # s
    BY <2>1, <2>3
  <2> QED
    BY <2>2, <2>3
<1> QED
  BY <1>2 DEF IsSess

\* Only the sessions go on and only their packets come in.
LEMMA ServerIInv ==
  ASSUME IInv, ServerStep, SessType',
         \A s \in 1 .. Len(sess) :
           s \in 1 .. Len(sess') /\ sess'[s].port = sess[s].port /\ sess[s].at <= sess'[s].at,
         NEW q, net' \subseteq net \cup {q}, q \in net \/ IsPacket(q)'
  PROVE  IInv'
<1>1. pc = "rx" /\ UNCHANGED <<pc, result, netretry, NetState, handler, timer, size, ether, arp>>
      /\ UNCHANGED <<mem, tftp>>
  BY DEF ServerStep, Outside, loopvars
<1>2. NetType' /\ TimerType' /\ ArpType' /\ TftpType' /\ Waited'
  BY <1>1 DEF IInv, NetType, TimerType, ArpType, TftpType, Waited
<1>3. Control'
  BY <1>1 DEF IInv, Control
<1>4. Binding'
  BY <1>1 DEF IInv, Binding
<1>5. Messages'
  <2>1. \A m \in Pending : IsPacket(m)'
    <3>1. TAKE m \in Pending
    <3>2. IsPacket(m) /\ SessType
      BY DEF IInv, Messages
    <3> QED
      BY <1>1, <3>2, KeepPacket
  <2>2. Pending' \subseteq Pending \cup {q}
    BY <1>1 DEF Pending
  <2>3. q \in Pending \/ IsPacket(q)'
    BY DEF Pending
  <2> QED
    BY <2>1, <2>2, <2>3 DEF Messages
<1> QED
  BY <1>2, <1>3, <1>4, <1>5 DEF IInv

\* A block a session has reached may be in flight.
LEMMA DataSent ==
  ASSUME NEW s \in 1 .. Len(sess'), NEW i \in 1 .. Blocks[s], i <= sess'[s].at,
         NEW q, q = Data(s, sess'[s].port, i)
  PROVE  IsPacket(q)'
  BY DEF IsPacket, IsData, Data

\* So may a packet without data.
LEMMA SignSent ==
  ASSUME NEW s \in 1 .. Len(sess'), NEW k \in {"OACK", "ERROR"},
         NEW q, q = Packet(k, s, sess'[s].port, 0)
  PROVE  IsPacket(q)'
  BY DEF IsPacket, IsSign, Packet

\* A request opens a session.
LEMMA ServeRRQIInv ==
  ASSUME IInv, Counted, NEW m, ServeRRQ(m)
  PROVE  IInv'
<1>1. PICK s : s = Len(sess) + 1
  OBVIOUS
<1>2. ServerStep /\ m \in net /\ m.kind = "RRQ" /\ s <= MaxSessions
  BY <1>1 DEF ServeRRQ
<1>3. SessType /\ IsSess(sess)
  BY DEF IInv, SessType
<1>4. m.src \in Ports
  BY <1>2 DEF IInv, Messages, Pending, IsPacket, IsRRQ, IsAck, IsSign, IsData, ArpReq, ArpRep
<1>5. Blocks[s] \in Nat \ {0}
  <2>1. s \in Sessions
    BY <1>1, <1>2, <1>3, Bounds DEF IsSess, Sessions
  <2> QED
    BY <2>1, BlocksType
<1>6. ASSUME NEW n \in Nat, n <= Blocks[s] + 1, NEW q,
             sess' = Append(sess, [port |-> m.src, at |-> n, attempt |-> attempts]),
             net' = (net \ {m}) \cup {q},
             \/ \E k \in {"OACK", "ERROR"} : q = Packet(k, s, m.src, 0)
             \/ n = 1 /\ q = Data(s, m.src, 1)
      PROVE  IInv'
  <2>1. /\ IsSess(sess') /\ sess'[s].port = m.src /\ sess'[s].at = n /\ s \in 1 .. Len(sess')
        /\ \A j \in 1 .. Len(sess) : j \in 1 .. Len(sess') /\ sess'[j] = sess[j]
    BY <1>1, <1>2, <1>3, <1>4, <1>6, Opened DEF Counted
  <2>2. SessType'
    BY <2>1 DEF SessType
  <2>3. \A j \in 1 .. Len(sess) :
          j \in 1 .. Len(sess') /\ sess'[j].port = sess[j].port /\ sess[j].at <= sess'[j].at
    <3>1. \A j \in 1 .. Len(sess) : sess[j].at \in Nat
      BY <1>3, SessFacts
    <3> QED
      BY <2>1, <3>1
  <2>4. IsPacket(q)'
    <3>1. CASE \E k \in {"OACK", "ERROR"} : q = Packet(k, s, m.src, 0)
      BY <2>1, <3>1, SignSent
    <3>2. CASE n = 1 /\ q = Data(s, m.src, 1)
      <4>1. 1 \in 1 .. Blocks[s] /\ 1 <= sess'[s].at
        BY <1>5, <2>1, <3>2
      <4> QED
        BY <2>1, <3>2, <4>1, DataSent
    <3> QED
      BY <1>6, <3>1, <3>2
  <2>5. net' \subseteq net \cup {q}
    BY <1>6
  <2> QED
    BY <1>2, <2>2, <2>3, <2>4, <2>5, ServerIInv
<1>7. CASE /\ sess' = Append(sess, [port |-> m.src, at |-> 0, attempt |-> attempts])
           /\ net' = (net \ {m}) \cup {Packet("OACK", s, m.src, 0)}
  BY <1>5, <1>6, <1>7
<1>8. CASE /\ BlkSize[s] = TFTP_BLOCK_SIZE
           /\ sess' = Append(sess, [port |-> m.src, at |-> 1, attempt |-> attempts])
           /\ net' = (net \ {m}) \cup {Data(s, m.src, 1)}
  <2>1. 1 <= Blocks[s] + 1
    BY <1>5
  <2>2. PICK q : q = Data(s, m.src, 1)
    OBVIOUS
  <2> QED
    BY <1>6, <1>8, <2>1, <2>2
<1>9. CASE /\ sess' = Append(sess, [port |-> m.src, at |-> Blocks[s] + 1, attempt |-> attempts])
           /\ net' = (net \ {m}) \cup {Packet("ERROR", s, m.src, 0)}
  <2>1. Blocks[s] + 1 \in Nat /\ Blocks[s] + 1 <= Blocks[s] + 1
    BY <1>5
  <2>2. PICK n \in Nat : n = Blocks[s] + 1
    BY <2>1
  <2> QED
    BY <1>6, <1>9, <2>1, <2>2
<1> QED
  BY <1>1, <1>7, <1>8, <1>9 DEF ServeRRQ

\* What ServeAck does to its session and to the network.
LEMMA AckServed ==
  ASSUME IInv, NEW m, ServeAck(m), NEW s, s = m.dst
  PROVE  /\ ServerStep /\ m \in net /\ m.kind = "ACK" /\ s \in 1 .. Len(sess)
         /\ sess[s].port = m.src /\ sess[s].at <= Blocks[s] /\ m.blk = sess[s].at % SequenceSize
         /\ SessType' /\ Len(sess') = Len(sess)
         /\ \A j \in 1 .. Len(sess) :
              /\ sess'[j].port = sess[j].port /\ sess'[j].attempt = sess[j].attempt
              /\ sess'[j].at = IF j = s THEN sess[j].at + 1 ELSE sess[j].at
         /\ net' = (net \ {m}) \cup
                   (IF sess'[s].at <= Blocks[s] THEN {Data(s, m.src, sess'[s].at)} ELSE {})
<1>1. /\ ServerStep /\ m \in net /\ m.kind = "ACK" /\ s \in 1 .. Len(sess)
      /\ sess[s].port = m.src /\ sess[s].at <= Blocks[s] /\ m.blk = sess[s].at % SequenceSize
      /\ sess' = [sess EXCEPT ![s].at = sess[s].at + 1]
      /\ net' = (net \ {m}) \cup
                (IF sess[s].at + 1 <= Blocks[s] THEN {Data(s, m.src, sess[s].at + 1)} ELSE {})
  BY DEF ServeAck
<1>2. IsSess(sess)
  BY DEF IInv, SessType
<1>3. PICK r : r = [sess[s] EXCEPT !.at = sess[s].at + 1]
  OBVIOUS
<1>4. sess' = [sess EXCEPT ![s] = r]
  BY <1>1, <1>3
<1>5. /\ IsSess(sess') /\ Len(sess') = Len(sess)
      /\ \A j \in 1 .. Len(sess) :
           /\ sess'[j].port = sess[j].port /\ sess'[j].attempt = sess[j].attempt
           /\ sess'[j].at = IF j = s THEN sess[j].at + 1 ELSE sess[j].at
  <2>1. s \in 1 .. Len(sess) /\ sess[s].at <= Blocks[s]
    BY <1>1
  <2>2. r \in [port : Ports, at : Nat, attempt : Nat] /\ r.port = sess[s].port
        /\ r.at = sess[s].at + 1 /\ r.attempt = sess[s].attempt
    BY <1>2, <1>3, <2>1, SessFacts
  <2>3. /\ sess' \in Seq([port : Ports, at : Nat, attempt : Nat]) /\ Len(sess') = Len(sess)
        /\ \A j \in 1 .. Len(sess) : sess'[j] = IF j = s THEN r ELSE sess[j]
    BY <1>2, <1>4, <2>1, <2>2, ExceptSeq DEF IsSess
  <2>4. \A j \in 1 .. Len(sess) :
          /\ sess'[j].port = sess[j].port /\ sess'[j].attempt = sess[j].attempt
          /\ sess'[j].at = IF j = s THEN sess[j].at + 1 ELSE sess[j].at
    BY <2>2, <2>3
  <2> QED
    BY <1>2, <2>1, <2>3, <2>4, Advanced
<1>6. sess'[s].at = sess[s].at + 1
  BY <1>1, <1>5
<1> QED
  BY <1>1, <1>5, <1>6 DEF SessType

\* An acknowledgement makes its session go on.
LEMMA ServeAckIInv ==
  ASSUME IInv, NEW m, ServeAck(m)
  PROVE  IInv'
<1>1. PICK s : s = m.dst
  OBVIOUS
<1>2. /\ ServerStep /\ m \in net /\ s \in 1 .. Len(sess)
      /\ sess[s].port = m.src /\ sess[s].at <= Blocks[s]
      /\ SessType' /\ Len(sess') = Len(sess)
      /\ \A j \in 1 .. Len(sess) :
           /\ sess'[j].port = sess[j].port /\ sess'[j].attempt = sess[j].attempt
           /\ sess'[j].at = IF j = s THEN sess[j].at + 1 ELSE sess[j].at
      /\ net' = (net \ {m}) \cup
                (IF sess'[s].at <= Blocks[s] THEN {Data(s, m.src, sess'[s].at)} ELSE {})
  BY <1>1, AckServed
<1>3. \A j \in 1 .. Len(sess) : sess[j].at \in Nat /\ Blocks[j] \in Nat
  BY SessFacts DEF IInv, SessType
<1>4. \A j \in 1 .. Len(sess) :
        j \in 1 .. Len(sess') /\ sess'[j].port = sess[j].port /\ sess[j].at <= sess'[j].at
  BY <1>2, <1>3
<1>5. CASE sess'[s].at <= Blocks[s]
  <2>1. PICK q : q = Data(s, sess'[s].port, sess'[s].at)
    OBVIOUS
  <2>2. net' \subseteq net \cup {q}
    BY <1>2, <1>5, <2>1
  <2>3. sess'[s].at \in 1 .. Blocks[s] /\ s \in 1 .. Len(sess') /\ sess'[s].at <= sess'[s].at
    BY <1>2, <1>3, <1>5
  <2>4. IsPacket(q)'
    BY <2>1, <2>3, DataSent
  <2> QED
    BY <1>2, <1>4, <2>2, <2>4, ServerIInv
<1>6. CASE ~(sess'[s].at <= Blocks[s])
  <2>1. net' \subseteq net \cup {m}
    BY <1>2, <1>6
  <2> QED
    BY <1>2, <1>4, <2>1, ServerIInv
<1> QED
  BY <1>5, <1>6

\* A session sends again what it waits to see acknowledged.
LEMMA RetransmitIInv ==
  ASSUME IInv, NEW s, Retransmit(s)
  PROVE  IInv'
<1>1. PICK q : q = IF sess[s].at = 0 THEN Packet("OACK", s, sess[s].port, 0)
                   ELSE Data(s, sess[s].port, sess[s].at)
  OBVIOUS
<1>2. /\ ServerStep /\ s \in 1 .. Len(sess) /\ sess[s].at <= Blocks[s] /\ sess' = sess
      /\ net' = net \cup {q}
  BY <1>1 DEF Retransmit
<1>3. SessType' /\ \A j \in 1 .. Len(sess) : sess[j].at \in Nat /\ Blocks[j] \in Nat
  BY <1>2, SessFacts DEF IInv, SessType
<1>4. \A j \in 1 .. Len(sess) :
        j \in 1 .. Len(sess') /\ sess'[j].port = sess[j].port /\ sess[j].at <= sess'[j].at
  BY <1>2, <1>3
<1>5. IsPacket(q)'
  <2>1. CASE sess[s].at = 0
    BY <1>1, <1>2, <2>1, SignSent
  <2>2. CASE sess[s].at # 0
    <3>1. sess'[s].at \in 1 .. Blocks[s] /\ s \in 1 .. Len(sess') /\ sess'[s].at <= sess'[s].at
      BY <1>2, <1>3, <2>2
    <3>2. q = Data(s, sess'[s].port, sess'[s].at)
      BY <1>1, <1>2, <2>2
    <3> QED
      BY <3>1, <3>2, DataSent
  <2> QED
    BY <2>1, <2>2
<1> QED
  BY <1>2, <1>3, <1>4, <1>5, ServerIInv

\* Attempts are counted.
LEMMA AttemptsNext == Counted /\ [Next]_vars => Counted'
<1> SUFFICES ASSUME Counted, [Next]_vars PROVE attempts' \in {attempts, attempts + 1}
  BY DEF Counted
<1>1. CASE NetLoop
  BY <1>1 DEF NetLoop, TftpStart, Restart, RxNothing, ArpTimeoutCheck, CheckTimeout, Switch
<1>2. CASE Deliver
  BY <1>2 DEF Deliver, RxArpReply, Receive, RxIgnored, RxOack, RxNotFirst, RxSame, RxBlock, RxError,
              Gets, Takes
<1>3. CASE Server
  BY <1>3 DEF Server, AnswerArp, ServeRRQ, ServeAck, Retransmit, ServerStep, Outside, loopvars
<1>4. CASE (CtrlC \/ Tick) /\ UNCHANGED tftpvars
  BY <1>4 DEF CtrlC, Tick
<1>5. CASE UNCHANGED vars
  BY <1>5 DEF vars, netvars, loopvars
<1> QED
  BY <1>1, <1>2, <1>3, <1>4, <1>5 DEF Next

\* Every step keeps the invariant.
LEMMA NextIInv == IInv /\ Counted /\ [Next]_vars => IInv' /\ Counted'
<1> SUFFICES ASSUME IInv, Counted, [Next]_vars PROVE IInv'
  BY AttemptsNext
<1>1. CASE NetLoop
  <2>1. CASE \E p \in Ports : TftpStart(p)
    BY <2>1, TftpStartIInv
  <2>2. CASE RxNothing /\ UNCHANGED tftpvars
    BY <2>2, RxNothingIInv
  <2>3. CASE ArpTimeoutCheck /\ UNCHANGED tftpvars
    BY <2>3, ArpTimeoutIInv
  <2>4. CASE CheckTimeout
    BY <2>4, NoTimeoutIInv, TftpTimeoutIInv, startAgainTimeoutIInv DEF CheckTimeout
  <2> QED
    BY <1>1, <2>1, <2>2, <2>3, <2>4 DEF NetLoop
<1>2. CASE Deliver
  <2>1. PICK m \in net, flight \in SUBSET net :
               (RxArpReply(flight) /\ UNCHANGED tftpvars) \/ Receive(m, flight)
    BY <1>2 DEF Deliver
  <2> QED
    BY <2>1, RxArpReplyIInv, RxIgnoredIInv, RxOackIInv, RxNotFirstIInv, RxSameIInv, RxBlockIInv,
       RxErrorIInv DEF Receive
<1>3. CASE Server
  BY <1>3, AnswerArpIInv, ServeRRQIInv, ServeAckIInv, RetransmitIInv DEF Server
<1>4. CASE (CtrlC \/ Tick) /\ UNCHANGED tftpvars
  BY <1>4, CtrlCIInv, TickIInv
<1>5. CASE UNCHANGED vars
  <2>1. UNCHANGED <<pc, result, netretry, NetState, handler, timer, size, ether, arp, net, mem,
                    tftp, sess>>
    BY <1>5 DEF vars, netvars, loopvars, tftpvars
  <2>2. NetType' /\ TimerType' /\ ArpType' /\ TftpType' /\ SessType' /\ Binding' /\ Waited'
    BY <2>1 DEF IInv, NetType, TimerType, ArpType, TftpType, SessType, Binding, Waited
  <2>3. Messages'
    BY <2>1 DEF IInv, Messages, Pending, IsPacket, IsRRQ, IsAck, IsSign, IsData
  <2>4. Control'
    BY <2>1 DEF IInv, Control
  <2> QED
    BY <2>2, <2>3, <2>4 DEF IInv
<1> QED
  BY <1>1, <1>2, <1>3, <1>4, <1>5 DEF Next

\* The invariant gives the types.
LEMMA IInvTypes == IInv => TypeOK
<1> SUFFICES ASSUME IInv PROVE TypeOK
  OBVIOUS
<1> USE Bounds
<1>1. /\ pc \in {"start", "rx", "arp", "time", "done"}
      /\ result \in {"none", "size", "abort", "fail"}
      /\ netretry \in BOOLEAN /\ NetState \in {"CONTINUE", "RESTART", "SUCCESS", "FAIL"}
      /\ handler \in {"tftp", "startAgain"} /\ ether \in BOOLEAN /\ size \in Nat
      /\ mem \in [Slots -> Units \cup {NoBody}]
  BY DEF IInv, NetType
<1>2. timer.who \in {"none", "tftp", "startAgain"} /\ timer.left \in 0 .. TIMEOUT + RESTART_DELAY
  BY NetTypes
<1>3. /\ arp.pkt \in Packets \cup {NoPacket} /\ arp.left \in 0 .. ARP_TIMEOUT
      /\ arp.try \in 0 .. ARP_TIMEOUT_COUNT - 1
  BY NetTypes
<1>4. /\ tftp.state \in {"RRQ", "OACK", "DATA"}
      /\ tftp.ourPort \in Ports \cup {WELL_KNOWN_PORT}
      /\ tftp.serverPort \in Sessions \cup {WELL_KNOWN_PORT}
      /\ {tftp.block, tftp.last} \subseteq 0 .. SequenceSize - 1
      /\ tftp.wrap \in Nat /\ tftp.count \in 0 .. TIMEOUT_COUNT + 1
      /\ tftp.blk \in Nat \ {0}
  BY DEF IInv, TftpType, TftpStates
<1>5. net \subseteq Packets
  <2>1. ASSUME NEW m \in net PROVE m \in Packets
    <3>1. IsPacket(m)
      BY DEF IInv, Messages, Pending
    <3> QED
      BY <3>1, PacketType DEF IInv
  <2> QED
    BY <2>1
<1>6. sess \in Seq([port : Ports, at : Nat, attempt : Nat])
  BY DEF IInv, SessType, IsSess
<1> QED
  BY <1>1, <1>2, <1>3, <1>4, <1>5, <1>6 DEF TypeOK

\* The variables of net.c and tftp.c always have their types: no timer runs below
\* zero, block numbers stay within their width, retries within their limits, and
\* only packets of the client and of its sessions are in flight.
THEOREM TypeCorrect == Spec => []TypeOK
<1>1. Init => IInv /\ Counted
  BY InitIInv DEF Init, NetInit, Counted
<1>2. IInv /\ Counted /\ [Next]_vars => IInv' /\ Counted'
  BY NextIInv
<1>3. IInv => TypeOK
  BY IInvTypes
<1> QED
  BY <1>1, <1>2, <1>3, PTL DEF Spec

\* ARP never gets as far as giving up (net.c, ArpTimeoutCheck): the timeouts of
\* tftp.c begin its count anew, and the delay of a restart is too short for the
\* rest.
THEOREM ArpGivesNotUp == Spec => []ArpNeverGivesUp
<1>1. Init => IInv /\ Counted
  BY InitIInv DEF Init, NetInit, Counted
<1>2. IInv /\ Counted /\ [Next]_vars => IInv' /\ Counted'
  BY NextIInv
<1>3. IInv => ArpNeverGivesUp
  BY NeverGivesUp
<1> QED
  BY <1>1, <1>2, <1>3, PTL DEF Spec

-----------------------------------------------------------------------------
(* Every step keeps the invariant of the blocks in memory.                 *)

\* The initial state.
LEMMA InitLoadInv == Init => LoadInv
<1> SUFFICES ASSUME Init PROVE LoadInv
  OBVIOUS
<1>1. /\ tftp.state = "RRQ" /\ tftp.blk = TFTP_BLOCK_SIZE /\ size = 0 /\ sess = <<>>
      /\ Pending = {} /\ NetState = "CONTINUE" /\ attempts = 0
  BY DEF Init, NetInit, Pending
<1> QED
  BY <1>1 DEF LoadInv, Fresh, Sized, Mismatch, Acks, Bound, Going

\* A step that leaves the client's data alone and sends nothing of its own.
LEMMA QuietLoad ==
  ASSUME LoadInv, UNCHANGED <<mem, size, sess, attempts>>,
         tftp'.state = tftp.state, tftp'.serverPort = tftp.serverPort,
         tftp'.block = tftp.block, tftp'.last = tftp.last, tftp'.wrap = tftp.wrap,
         tftp'.blk = tftp.blk,
         Pending' \subseteq Pending \cup {ArpReq, ArpRep},
         NetState' # "FAIL" => NetState # "FAIL",
         handler' = "tftp" => handler = "tftp",
         NetState' = "SUCCESS" => NetState = "SUCCESS"
  PROVE  LoadInv'
<1>1. Fresh'
  BY DEF LoadInv, Fresh, ArpReq, ArpRep
<1>2. Mismatch' <=> Mismatch
  BY DEF Mismatch
<1>3. Sized'
  BY <1>2 DEF LoadInv, Sized, ArpReq, ArpRep
<1>4. Acks'
  BY <1>2 DEF LoadInv, Acks, ArpReq, ArpRep
<1>5. Bound'
  BY <1>2 DEF LoadInv, Bound, Going
<1>6. NetState' = "SUCCESS" /\ ~Mismatch' => Complete'
  BY <1>2 DEF LoadInv, Complete
<1> QED
  BY <1>1, <1>3, <1>4, <1>5, <1>6 DEF LoadInv

\* NetLoop starts: nothing of an attempt before is in flight.
LEMMA TftpStartLoad ==
  ASSUME IInv, Counted, LoadInv, IInv', NEW p \in Ports, TftpStart(p)
  PROVE  LoadInv'
<1>1. /\ tftp'.state = "RRQ" /\ size' = 0 /\ NetState' = "CONTINUE"
      /\ tftp'.blk = TFTP_BLOCK_SIZE /\ sess' = sess /\ attempts' = attempts + 1
  BY DEF TftpStart, Restart, IInv, TftpType, TftpStates
<1>2. PICK q : q = Sent'
  OBVIOUS
<1>3. q.kind = "RRQ"
  BY <1>1, <1>2 DEF Sent, Packet
<1>4. Pending' \subseteq {ArpReq, q}
  <2>1. arp' = [pkt |-> q, left |-> ARP_TIMEOUT, try |-> 1] /\ net' = {ArpReq}
    <3>1. NetSendUDPPacket(q, FALSE, {})
      BY <1>2 DEF TftpStart, TftpSend, Sent
    <3> QED
      BY <3>1 DEF NetSendUDPPacket
  <2> QED
    BY <2>1 DEF Pending
<1>5. Fresh' /\ Acks'
  BY <1>1, <1>3, <1>4 DEF Fresh, Acks, ArpReq
<1>6. Bound'
  BY <1>1 DEF Bound, Going
<1>7. Sized'
  <2>1. ASSUME NEW s \in 1 .. Len(sess)
        PROVE  sess[s].attempt <= attempts + 1 /\ sess[s].attempt # attempts + 1
    <3>1. sess[s].attempt \in Nat /\ sess[s].attempt <= attempts /\ attempts \in Nat
      BY SessFacts DEF Counted, IInv, SessType, LoadInv, Sized
    <3> QED
      BY <3>1
  <2> QED
    BY <1>1, <2>1 DEF Sized, Mismatch
<1> QED
  BY <1>1, <1>5, <1>6, <1>7 DEF LoadInv

\* What TftpSend leaves on its way, besides what is in flight already.
LEMMA OnlySent ==
  ASSUME IInv, NEW flight, TftpSend(tftp', ether, flight), NEW q, q = Sent'
  PROVE  /\ Pending' \subseteq flight \cup {ArpReq, q}
         /\ tftp'.state # "RRQ" => q.kind = "ACK" /\ q.blk = tftp'.block
         /\ tftp'.state = "RRQ" => q.kind = "RRQ"
<1>1. NetSendUDPPacket(q, ether, flight)
  BY DEF TftpSend, Sent
<1>2. ether => arp.pkt = NoPacket
  BY DEF IInv, Control
<1>3. ASSUME ether PROVE Pending' \subseteq flight \cup {ArpReq, q}
  <2>1. net' = flight \cup {q} /\ arp' = arp /\ arp.pkt = NoPacket
    BY <1>1, <1>2, <1>3 DEF NetSendUDPPacket
  <2> QED
    BY <2>1 DEF Pending
<1>4. ASSUME ~ether PROVE Pending' \subseteq flight \cup {ArpReq, q}
  <2>1. arp' = [pkt |-> q, left |-> ARP_TIMEOUT, try |-> 1] /\ net' = flight \cup {ArpReq}
    BY <1>1, <1>4 DEF NetSendUDPPacket
  <2> QED
    BY <2>1 DEF Pending
<1>5. /\ tftp'.state # "RRQ" => q.kind = "ACK" /\ q.blk = tftp'.block
      /\ tftp'.state = "RRQ" => q.kind = "RRQ"
  BY DEF Sent, Packet
<1> QED
  BY <1>3, <1>4, <1>5

\* Before a session is chosen no acknowledgement is on its way, later only ones to
\* that session.
LEMMA AcksAre ==
  ASSUME IInv, NEW m \in Pending, m.kind = "ACK"
  PROVE  /\ tftp.state # "RRQ" /\ m.blk \in 0 .. SequenceSize - 1
         /\ m.src = tftp.ourPort /\ m.dst = tftp.serverPort
<1>1. IsAck(m)
  BY DEF IInv, Messages, IsPacket, IsRRQ, IsSign, IsData, ArpReq, ArpRep
<1> QED
  BY <1>1 DEF IsAck, Packet

\* Nothing is needed for no block.
LEMMA StoredNone ==
  ASSUME NEW mm, NEW s \in Sessions, NEW n \in {0, 0 - 1}
  PROVE  Stored(mm, s, n)
<1>1. PICK b \in Nat : b = BlkSize[s]
  BY BlocksType
<1>2. 0 * b = 0 /\ (0 - 1) * b = 0 - b
  OBVIOUS
<1>3. n * b <= 0 /\ n * b \in Int
  BY <1>2
<1>4. ASSUME NEW j \in Nat PROVE ~(j < n * b)
  BY <1>3
<1> QED
  BY <1>1, <1>4 DEF Stored

\* OACK: a client bound to no session binds itself to one that has seen nothing
\* acknowledged, and takes over its block size.
LEMMA RxOackLoad ==
  ASSUME IInv, LoadInv, NEW m, NEW flight, RxOack(m, flight)
  PROVE  LoadInv'
<1> USE Bounds
<1>1. /\ Gets(m, flight) /\ Accepts(m) /\ TftpSend(tftp', ether, flight) /\ m.kind = "OACK"
      /\ tftp' = [tftp EXCEPT !.state = "OACK", !.serverPort = m.src,
                              !.blk = BlkSize[m.src]]
      /\ UNCHANGED <<NetState, handler, size, mem>>
  BY DEF RxOack
<1>2. /\ flight \in SUBSET net /\ sess' = sess /\ handler = "tftp" /\ NetState = "CONTINUE"
      /\ m \in Pending /\ m.src \in 1 .. Len(sess) /\ m.src \in Sessions
      /\ tftp.state # "RRQ" => m.src = tftp.serverPort
  BY <1>1, Accepted
<1>3. /\ tftp'.state = "OACK" /\ tftp'.serverPort = m.src /\ tftp'.block = tftp.block
      /\ tftp'.blk = BlkSize[m.src]
  BY <1>1 DEF IInv, TftpType, TftpStates
<1>4. ~Mismatch /\ ~Mismatch'
  BY <1>1, <1>2, <1>3 DEF LoadInv, Sized, Mismatch
<1>5. /\ Stored(mem, m.src, sess[m.src].at - 1) /\ Stored(mem, m.src, tftp.block)
      /\ size <= FileLen(m.src)
  <2>1. CASE tftp.state = "RRQ"
    <3>1. size = 0 /\ sess[m.src].at = 0 /\ tftp.block = 0
      BY <1>1, <1>2, <2>1 DEF LoadInv, Fresh, IInv, Binding
    <3>2. FileLen(m.src) \in Nat
      BY <1>2, BlocksType
    <3>3. Stored(mem, m.src, 0 - 1) /\ Stored(mem, m.src, 0)
      BY <1>2, StoredNone
    <3> QED
      BY <3>1, <3>2, <3>3
  <2>2. CASE tftp.state # "RRQ"
    BY <1>2, <1>4, <2>2 DEF LoadInv, Bound, Going
  <2> QED
    BY <2>1, <2>2
<1>6. Fresh'
  BY <1>3 DEF Fresh
<1>7. Sized'
  <2>1. attempts' = attempts
    BY <1>1 DEF Gets, Takes
  <2> QED
    BY <1>2, <1>3, <1>4, <2>1 DEF LoadInv, Sized
<1>8. Acks'
  <2>1. PICK q : q = Sent'
    OBVIOUS
  <2>2. /\ Pending' \subseteq flight \cup {ArpReq, q} /\ q.blk = tftp.block
    BY <1>1, <1>3, <2>1, OnlySent
  <2>3. ASSUME NEW a \in Pending', a.kind = "ACK" PROVE Stored(mem', tftp'.serverPort, a.blk)
    <3>1. CASE a \in Pending
      BY <1>1, <1>2, <1>3, <1>4, <2>3, <3>1, AcksAre DEF LoadInv, Acks
    <3>2. CASE a = q
      BY <1>1, <1>3, <1>5, <2>2, <3>2
    <3>3. a # ArpReq
      BY <2>3 DEF ArpReq
    <3> QED
      BY <1>2, <2>2, <2>3, <3>1, <3>2, <3>3 DEF Pending
  <2> QED
    BY <2>3 DEF Acks
<1>9. Bound'
  BY <1>1, <1>2, <1>3, <1>5 DEF Bound
<1>10. NetState' # "SUCCESS"
  BY <1>1, <1>2
<1> QED
  BY <1>6, <1>7, <1>8, <1>9, <1>10 DEF LoadInv

\* A block binds the client to a session of an earlier attempt, or to one that uses
\* the client's block size.
LEMMA DataSized ==
  ASSUME IInv, LoadInv, NEW m, NEW flight, Gets(m, flight), Accepts(m), m.kind = "DATA",
         tftp'.state = "DATA", tftp'.serverPort = m.src, tftp'.blk = tftp.blk,
         \A q \in Pending' : q.kind = "OACK" => q \in Pending
  PROVE  Sized' /\ (tftp.state # "RRQ" => (Mismatch' <=> Mismatch))
<1>1. /\ sess' = sess /\ attempts' = attempts /\ m \in Pending /\ m.src \in 1 .. Len(sess)
      /\ tftp.state # "RRQ" => m.src = tftp.serverPort
  BY Accepted DEF Gets, Takes
<1>2. CASE tftp.state # "RRQ"
  <2>1. Mismatch' <=> Mismatch
    BY <1>1, <1>2 DEF Mismatch
  <2> QED
    BY <1>1, <1>2, <2>1 DEF LoadInv, Sized
<1>3. CASE tftp.state = "RRQ"
  <2>1. PICK i \in 1 .. Blocks[m.src] : m.body = <<m.src, i>>
    BY DataFacts
  <2>2. sess[m.src].at = i
    BY <1>1, <1>3, <2>1 DEF LoadInv, Fresh
  <2>3. Blocks[m.src] \in Nat
    BY <1>1, SessFacts DEF IInv, SessType
  <2>4. sess[m.src].at # 0 /\ sess[m.src].at # Blocks[m.src] + 1
    BY <2>2, <2>3
  <2>5. Mismatch' => sess[m.src].attempt # attempts
    BY <1>1, <1>3, <2>4 DEF Mismatch, LoadInv, Sized
  <2>6. ASSUME NEW q \in Pending', q.kind = "OACK", q.src = m.src PROVE FALSE
    BY <1>3, <2>4, <2>6 DEF LoadInv, Fresh
  <2> QED
    BY <1>1, <1>3, <2>4, <2>5, <2>6 DEF LoadInv, Sized
<1> QED
  BY <1>2, <1>3

\* A first block that is not block 1 acknowledges nothing.
LEMMA RxNotFirstLoad ==
  ASSUME IInv, LoadInv, NEW m, NEW flight, RxNotFirst(m, flight)
  PROVE  LoadInv'
<1>1. /\ Gets(m, flight) /\ Accepts(m) /\ m.kind = "DATA" /\ tftp' = DataSeen(m)
      /\ NetStartAgain(timer) /\ net' = flight /\ UNCHANGED <<size, mem, arp>>
  BY DEF RxNotFirst
<1>2. /\ flight \in SUBSET net /\ handler = "tftp" /\ NetState = "CONTINUE"
      /\ tftp.state # "RRQ" => m.src = tftp.serverPort
  BY <1>1, Accepted
<1>3. tftp'.state = "DATA" /\ tftp'.serverPort = m.src /\ tftp'.blk = tftp.blk
  BY <1>1, DataFacts
<1>4. (handler' = "startAgain" /\ NetState' = "CONTINUE") \/ NetState' = "FAIL"
  BY <1>1, <1>2 DEF NetStartAgain
<1>5. Pending' \subseteq Pending
  BY <1>1, <1>2 DEF Pending
<1>6. Sized' /\ (tftp.state # "RRQ" => (Mismatch' <=> Mismatch))
  BY <1>1, <1>3, <1>5, DataSized
<1>7. Acks'
  BY <1>1, <1>2, <1>3, <1>5, <1>6, AcksAre DEF LoadInv, Acks
<1>8. Fresh' /\ Bound' /\ NetState' # "SUCCESS"
  BY <1>3, <1>4 DEF Fresh, Bound, Going
<1> QED
  BY <1>6, <1>7, <1>8 DEF LoadInv

\* The number of a block tells which block it is.
LEMMA BlockNumber ==
  ASSUME IInv, NoWrap, NEW m, NEW flight, Gets(m, flight), Accepts(m), m.kind = "DATA"
  PROVE  /\ m.blk \in 1 .. Blocks[m.src] /\ m.blk <= sess[m.src].at
         /\ m.body = <<m.src, m.blk>> /\ DataSeen(m).wrap = (IF Unlocked THEN 0 ELSE tftp.wrap)
<1> USE Bounds
<1>1. PICK i \in 1 .. Blocks[m.src] :
             i <= sess[m.src].at /\ m.blk = i % SequenceSize /\ m.body = <<m.src, i>>
  BY DataFacts
<1>2. m.src \in Sessions /\ Blocks[m.src] \in Nat /\ Blocks[m.src] < SequenceSize
  BY Accepted, BlocksType DEF NoWrap
<1>3. i % SequenceSize = i
  BY <1>1, <1>2
<1>4. m.blk = i /\ m.blk # 0
  BY <1>1, <1>2, <1>3
<1>5. DataSeen(m).wrap =
        IF Unlocked THEN 0
        ELSE IF m.blk = 0 THEN tftp.wrap + tftp.blk * SequenceSize ELSE tftp.wrap
  BY DataFacts
<1> QED
  BY <1>1, <1>4, <1>5

\* The block of the last time is in memory.
LEMMA RxSameLoad ==
  ASSUME IInv, NoWrap, LoadInv, NEW m, NEW flight, RxSame(m, flight)
  PROVE  LoadInv'
<1>1. /\ Gets(m, flight) /\ Accepts(m) /\ m.kind = "DATA" /\ tftp' = DataSeen(m) /\ net' = flight
      /\ UNCHANGED <<NetState, handler, size, mem, arp>> /\ ~Unlocked /\ m.blk = tftp.last
  BY DEF RxSame, SameBlock
<1>2. /\ flight \in SUBSET net /\ handler = "tftp" /\ NetState = "CONTINUE" /\ sess' = sess
      /\ tftp.state # "RRQ" => m.src = tftp.serverPort
  BY <1>1, Accepted
<1>3. tftp.state = "DATA" /\ m.src = tftp.serverPort
  BY <1>1, <1>2 DEF IInv, TftpType, TftpStates, Unlocked
<1>4. /\ tftp'.state = "DATA" /\ tftp'.serverPort = tftp.serverPort /\ tftp'.wrap = tftp.wrap
      /\ tftp'.block = tftp.last /\ tftp'.blk = tftp.blk
  BY <1>1, <1>3, DataFacts, BlockNumber
<1>5. tftp'.last = tftp.last
  BY <1>1 DEF DataSeen, IInv, TftpType, TftpStates
<1>6. Pending' \subseteq Pending
  BY <1>1, <1>2 DEF Pending
<1>7. Sized' /\ (Mismatch' <=> Mismatch)
  BY <1>1, <1>3, <1>4, <1>6, DataSized
<1>8. Acks'
  BY <1>1, <1>4, <1>6, <1>7 DEF LoadInv, Acks
<1>9. Bound'
  BY <1>1, <1>2, <1>3, <1>4, <1>5, <1>7 DEF LoadInv, Bound, Going
<1>10. Fresh' /\ NetState' # "SUCCESS"
  BY <1>1, <1>2, <1>4 DEF Fresh
<1> QED
  BY <1>7, <1>8, <1>9, <1>10 DEF LoadInv

\* Up to block i a file has no more units than all of it, and has all of it only
\* with its last block.
LEMMA Sizes ==
  ASSUME NEW s \in Sessions, NEW i \in 1 .. Blocks[s], NEW b, b = BlkSize[s], NEW len,
         len = IF i = Blocks[s] THEN LastLen[s] ELSE b
  PROVE  /\ b \in Nat \ {0} /\ len \in Nat /\ (i - 1) * b \in Nat
         /\ FileLen(s) \in Nat /\ FileLen(s) <= MemUnits
         /\ (i - 1) * b + len <= FileLen(s)
         /\ i * b = (i - 1) * b + b
         /\ len < b => i = Blocks[s] /\ (i - 1) * b + len = FileLen(s)
         /\ len = b \/ (i - 1) * b + len = FileLen(s)
         /\ FileLen(s) <= Blocks[s] * b
<1> USE Bounds
<1>1. /\ Blocks[s] \in Nat /\ i \in Nat /\ i - 1 \in Nat /\ Blocks[s] - 1 \in Nat /\ len \in Nat
      /\ b \in Nat \ {0} /\ LastLen[s] \in Nat /\ LastLen[s] < b
      /\ FileLen(s) \in Nat /\ FileLen(s) <= MemUnits
  BY BlocksType
<1>2. (i - 1) * b \in Nat /\ (Blocks[s] - 1) * b \in Nat
  BY <1>1, Products
<1>3. FileLen(s) = (Blocks[s] - 1) * b + LastLen[s]
  BY DEF FileLen
<1>4. i * b = (i - 1) * b + b /\ i * b \in Nat
  <2>1. PICK j \in Nat : i = j + 1
    BY <1>1
  <2>2. (j + 1) * b = j * b + b /\ j * b \in Nat /\ (j + 1) - 1 = j
    BY <1>1, <2>1, Products
  <2> QED
    BY <1>1, <2>1, <2>2
<1>5. Blocks[s] * b = (Blocks[s] - 1) * b + b
  <2>1. PICK j \in Nat : Blocks[s] = j + 1
    BY <1>1
  <2>2. (j + 1) * b = j * b + b
    BY <1>1, Products
  <2>3. Blocks[s] - 1 = j
    BY <2>1
  <2> QED
    BY <2>1, <2>2, <2>3
<1>6. FileLen(s) <= Blocks[s] * b
  BY <1>1, <1>2, <1>3, <1>5
<1>7. CASE i = Blocks[s]
  BY <1>1, <1>2, <1>3, <1>4, <1>6, <1>7
<1>8. CASE i # Blocks[s]
  <2>1. len = b /\ i <= Blocks[s] - 1
    BY <1>1, <1>8
  <2>2. i * b <= (Blocks[s] - 1) * b
    BY <1>1, <2>1, Products
  <2> QED
    BY <1>1, <1>2, <1>3, <1>4, <1>6, <2>1, <2>2
<1> QED
  BY <1>7, <1>8

\* Storing a block of a file at its place keeps what is there of that file.
LEMMA StoreKeeps ==
  ASSUME NEW mm, NEW s \in Sessions, NEW i \in 1 .. Blocks[s], NEW b, b = BlkSize[s],
         NEW len, len = IF i = Blocks[s] THEN LastLen[s] ELSE b,
         NEW n \in Int, Stored(mm, s, n), NEW ms,
         ms = [a \in Slots |-> IF a \in (i - 1) * b .. (i - 1) * b + len - 1
                               THEN <<s, a>> ELSE mm[a]]
  PROVE  Stored(ms, s, n) /\ (i <= n + 1 => Stored(ms, s, i))
<1> USE Bounds
<1>1. PICK o \in Nat : o = (i - 1) * b
  BY Sizes
<1>2. /\ b \in Nat /\ len \in Nat /\ FileLen(s) \in Nat /\ FileLen(s) <= MemUnits
      /\ i * b = o + b /\ (len = b \/ o + len = FileLen(s)) /\ i \in Nat
  BY <1>1, Sizes, BlocksType
<1>3. ASSUME NEW j \in Nat, j < FileLen(s), mm[j] = <<s, j>> PROVE ms[j] = <<s, j>>
  <2>1. j \in Slots
    BY <1>2, <1>3 DEF Slots
  <2> QED
    BY <1>3, <2>1
<1>4. Stored(ms, s, n)
  <2>1. PICK e : e = n * BlkSize[s]
    OBVIOUS
  <2>2. ASSUME NEW j \in Nat, j < e, j < FileLen(s) PROVE ms[j] = <<s, j>>
    <3>1. mm[j] = <<s, j>>
      BY <2>1, <2>2 DEF Stored
    <3> QED
      BY <1>3, <2>2, <3>1
  <2> QED
    BY <2>1, <2>2 DEF Stored
<1>5. ASSUME i <= n + 1 PROVE Stored(ms, s, i)
  <2>1. PICK k \in Nat : n = k /\ i - 1 <= k /\ i - 1 \in Nat
    BY <1>2, <1>5
  <2>2. o <= k * b /\ k * b \in Nat
    BY <1>1, <1>2, <2>1, Products
  <2>3. ASSUME NEW j \in Nat, j < i * b, j < FileLen(s) PROVE ms[j] = <<s, j>>
    <3>1. CASE j < o
      <4>1. j < n * BlkSize[s]
        BY <1>1, <2>1, <2>2, <3>1
      <4>2. mm[j] = <<s, j>>
        BY <2>3, <4>1 DEF Stored
      <4> QED
        BY <1>3, <2>3, <4>2
    <3>2. CASE ~(j < o)
      <4>1. j < o + b
        BY <1>2, <2>3
      <4>2. j < o + len /\ j >= o /\ j < MemUnits
        BY <1>2, <2>3, <3>2, <4>1
      <4>3. j \in o .. o + len - 1
        BY <1>2, <4>2, Counting
      <4>4. j \in Slots
        BY <4>2 DEF Slots
      <4> QED
        BY <1>1, <4>3, <4>4
    <3> QED
      BY <3>1, <3>2
  <2> QED
    BY <2>3 DEF Stored
<1> QED
  BY <1>4, <1>5

\* A block that is new is stored in its place, behind blocks that are in memory, and
\* acknowledged; the last one completes the file.
LEMMA RxBlockLoad ==
  ASSUME IInv, NoWrap, LoadInv, NEW m, NEW flight, RxBlock(m, flight)
  PROVE  LoadInv'
<1> USE Bounds
<1>1. /\ Gets(m, flight) /\ Accepts(m) /\ m.kind = "DATA"
      /\ tftp' = [DataSeen(m) EXCEPT !.last = m.blk]
      /\ TftpSend(tftp', ether, flight) /\ handler' = handler
      /\ ~NotFirstBlock(m) /\ store_block(DataSeen(m), m)
      /\ NetState' = IF LenOf(m) < tftp.blk THEN "SUCCESS" ELSE NetState
  BY DEF RxBlock
<1>2. /\ flight \in SUBSET net /\ sess' = sess /\ handler = "tftp" /\ NetState = "CONTINUE"
      /\ m \in Pending /\ m.src \in 1 .. Len(sess)
      /\ tftp.state # "RRQ" => m.src = tftp.serverPort
  BY <1>1, Accepted
<1>3. PICK s, i : s = m.src /\ i = m.blk
  OBVIOUS
<1>4. /\ s \in Sessions /\ sess[s].at \in Nat /\ Blocks[s] \in Nat
      /\ sess[s].at <= Blocks[s] + 1
  BY <1>2, <1>3, SessFacts DEF IInv, SessType
<1>5. /\ i \in 1 .. Blocks[s] /\ i <= sess[s].at /\ m.body = <<s, i>>
      /\ DataSeen(m).wrap = IF Unlocked THEN 0 ELSE tftp.wrap
  BY <1>1, <1>3, BlockNumber
<1>6. /\ DataSeen(m) \in TftpStates /\ DataSeen(m).state = "DATA" /\ DataSeen(m).serverPort = s
      /\ DataSeen(m).block = i /\ DataSeen(m).blk = tftp.blk
  BY <1>1, <1>3, DataFacts
<1>7. /\ tftp'.state = "DATA" /\ tftp'.serverPort = s /\ tftp'.block = i /\ tftp'.last = i
      /\ tftp'.blk = tftp.blk /\ tftp'.wrap = DataSeen(m).wrap
  BY <1>1, <1>3, <1>6 DEF TftpStates
<1>8. PICK q : q = Sent'
  OBVIOUS
<1>9. /\ Pending' \subseteq flight \cup {ArpReq, q} /\ q.blk = i /\ q.kind = "ACK"
  BY <1>1, <1>7, <1>8, OnlySent
<1>10. Sized' /\ (tftp.state # "RRQ" => (Mismatch' <=> Mismatch))
  <2>1. \A r \in Pending' : r.kind = "OACK" => r \in Pending
    BY <1>2, <1>9 DEF Pending, ArpReq
  <2> QED
    BY <1>1, <1>3, <1>7, <2>1, DataSized
<1>11. Fresh'
  BY <1>7 DEF Fresh
<1>12. CASE Mismatch'
  BY <1>10, <1>11, <1>12 DEF LoadInv, Acks, Bound, Going
<1>13. CASE ~Mismatch'
  <2>1. PICK b, len : b = BlkSize[s] /\ len = LenOf(m)
    OBVIOUS
  <2>2. tftp.blk = b
    BY <1>7, <1>13, <2>1 DEF Mismatch
  <2>3. len = IF i = Blocks[s] THEN LastLen[s] ELSE b
    BY <1>5, <2>1 DEF LenOf
  <2>4. Stored(mem, s, sess[s].at - 1) /\ size \in Nat /\ size <= FileLen(s) /\ tftp'.wrap = 0
    <3>1. size \in Nat
      BY DEF IInv, NetType
    <3>2. CASE tftp.state = "RRQ"
      <4>1. size = 0 /\ m.body[2] = sess[s].at
        BY <1>1, <1>2, <1>3, <3>2 DEF LoadInv, Fresh
      <4>2. i = 1 /\ Unlocked
        BY <1>1, <1>3, <3>2 DEF NotFirstBlock, Unlocked
      <4>3. sess[s].at - 1 = 0
        BY <1>5, <4>1, <4>2
      <4>4. Stored(mem, s, 0)
        BY <1>4, StoredNone
      <4>5. FileLen(s) \in Nat
        BY <1>4, BlocksType
      <4> QED
        BY <1>5, <1>7, <3>1, <4>1, <4>2, <4>3, <4>4, <4>5
    <3>3. CASE tftp.state # "RRQ"
      <4>1. ~Mismatch
        BY <1>10, <1>13, <3>3
      <4>2. /\ Stored(mem, s, sess[s].at - 1) /\ size <= FileLen(s)
            /\ tftp.state = "DATA" => tftp.wrap = 0
        BY <1>2, <1>3, <3>3, <4>1 DEF LoadInv, Bound, Going
      <4>3. ~Unlocked => tftp.state = "DATA"
        BY DEF Unlocked, IInv, TftpType, TftpStates
      <4> QED
        BY <1>5, <1>7, <3>1, <4>2, <4>3
    <3> QED
      BY <3>2, <3>3
  <2>5. PICK o \in Nat : o = (i - 1) * b
    BY <1>4, <1>5, <2>1, <2>3, Sizes
  <2>6. /\ b \in Nat \ {0} /\ len \in Nat /\ FileLen(s) \in Nat /\ o + len <= FileLen(s)
        /\ len < b => i = Blocks[s] /\ o + len = FileLen(s)
    BY <1>4, <1>5, <2>1, <2>3, <2>5, Sizes
  <2>7. /\ mem' = [a \in Slots |-> IF a \in o .. o + len - 1 THEN <<s, a>> ELSE mem[a]]
        /\ size' = IF size < o + len THEN o + len ELSE size
    <3>1. (DataSeen(m).block - 1) * DataSeen(m).blk + DataSeen(m).wrap = o
      BY <1>6, <1>7, <2>2, <2>4, <2>5
    <3>2. ASSUME NEW a \in o .. o + len - 1 PROVE UnitOf(m, a - o) = <<s, a>>
      <4>1. o + (a - o) = a
        BY <2>6
      <4>2. UnitOf(m, a - o) = <<s, o + (a - o)>>
        BY <1>5, <2>1, <2>5 DEF UnitOf
      <4> QED
        BY <4>1, <4>2
    <3>3. /\ mem' = [a \in Slots |-> IF a \in o .. o + len - 1 THEN UnitOf(m, a - o) ELSE mem[a]]
          /\ size' = IF size < o + len THEN o + len ELSE size
      BY <1>1, <2>1, <2>6, <3>1, StoreBlock
    <3> QED
      BY <3>2, <3>3
  <2>8. size' <= FileLen(s) /\ (len < b => size' = FileLen(s))
    BY <2>4, <2>6, <2>7
  <2>9. ASSUME NEW n \in Int, Stored(mem, s, n)
        PROVE  Stored(mem', s, n) /\ (i <= n + 1 => Stored(mem', s, i))
    BY <1>4, <1>5, <2>1, <2>3, <2>5, <2>7, <2>9, StoreKeeps
  <2>10. Stored(mem', s, sess[s].at - 1) /\ Stored(mem', s, i)
    <3>1. sess[s].at - 1 \in Int /\ i <= (sess[s].at - 1) + 1
      BY <1>4, <1>5
    <3> QED
      BY <2>4, <2>9, <3>1
  <2>11. Acks'
    <3>1. ASSUME NEW a \in Pending', a.kind = "ACK" PROVE Stored(mem', tftp'.serverPort, a.blk)
      <4>1. CASE a \in Pending
        <5>1. tftp.state # "RRQ" /\ a.blk \in Int /\ tftp.serverPort = s
          BY <1>2, <1>3, <3>1, <4>1, AcksAre
        <5>2. Stored(mem, s, a.blk)
          BY <1>2, <1>10, <1>13, <3>1, <4>1, <5>1 DEF LoadInv, Acks
        <5> QED
          BY <1>7, <2>9, <5>1, <5>2
      <4>2. CASE a = q
        BY <1>7, <1>9, <2>10, <4>2
      <4>3. a # ArpReq
        BY <3>1 DEF ArpReq
      <4> QED
        BY <1>2, <1>9, <3>1, <4>1, <4>2, <4>3 DEF Pending
    <3> QED
      BY <3>1 DEF Acks
  <2>12. Bound'
    BY <1>2, <1>7, <2>4, <2>8, <2>10 DEF Bound
  <2>13. NetState' = "SUCCESS" => Complete'
    <3>1. SUFFICES ASSUME NetState' = "SUCCESS" PROVE Complete'
      OBVIOUS
    <3>2. len < b
      BY <1>1, <1>2, <2>1, <2>2, <3>1
    <3> QED
      BY <1>4, <2>6, <2>8, <2>10, <3>2 DEF Complete
  <2> QED
    BY <1>10, <1>11, <2>11, <2>12, <2>13 DEF LoadInv
<1> QED
  BY <1>12, <1>13

\* A timeout of TFTP acknowledges again what is in memory.
LEMMA TftpTimeoutLoad ==
  ASSUME IInv, LoadInv, pc = "time", TimeoutOf("tftp"), TftpTimeout, Switch, UNCHANGED <<mem, sess>>
  PROVE  LoadInv'
<1>1. size' = size /\ attempts' = attempts
  BY DEF Switch
<1>2. handler = "tftp"
  <2>1. timer.who = "tftp" /\ handler \in {"tftp", "startAgain"}
    BY DEF TimeoutOf, IInv, NetType
  <2> QED
    BY <2>1 DEF IInv, Control
<1>3. /\ tftp'.state = tftp.state /\ tftp'.serverPort = tftp.serverPort
      /\ tftp'.block = tftp.block /\ tftp'.last = tftp.last /\ tftp'.wrap = tftp.wrap
      /\ tftp'.blk = tftp.blk
  BY DEF TftpTimeout, IInv, TftpType, TftpStates
<1>4. CASE tftp'.count > TIMEOUT_COUNT
  <2>1. NetStartAgain(NoTimer) /\ UNCHANGED <<arp, net>>
    BY <1>4 DEF TftpTimeout
  <2>2. /\ NetState' # "FAIL" => NetState # "FAIL"
        /\ NetState' = "SUCCESS" => NetState = "SUCCESS"
    BY <2>1 DEF NetStartAgain
  <2>3. Pending' = Pending
    BY <2>1 DEF Pending
  <2> QED
    BY <1>1, <1>2, <1>3, <2>2, <2>3, QuietLoad
<1>5. CASE ~(tftp'.count > TIMEOUT_COUNT)
  <2>1. TftpSend(tftp', ether, net) /\ UNCHANGED <<NetState, handler>>
    BY <1>5 DEF TftpTimeout
  <2>2. PICK q : q = Sent'
    OBVIOUS
  <2>3. /\ Pending' \subseteq net \cup {ArpReq, q}
        /\ tftp.state # "RRQ" => q.kind = "ACK" /\ q.blk = tftp.block
        /\ tftp.state = "RRQ" => q.kind = "RRQ"
    BY <1>3, <2>1, <2>2, OnlySent
  <2>4. net \subseteq Pending
    BY DEF Pending
  <2>5. Fresh'
    BY <1>1, <1>3, <2>3, <2>4 DEF LoadInv, Fresh, ArpReq
  <2>6. Acks'
    <3>1. SUFFICES ASSUME NetState # "FAIL", ~Mismatch, NEW a \in Pending', a.kind = "ACK"
                   PROVE  Stored(mem, tftp.serverPort, a.blk)
      BY <1>3, <2>1 DEF Acks, Mismatch
    <3>2. CASE a \in net
      BY <2>4, <3>1, <3>2 DEF LoadInv, Acks
    <3>3. CASE a = q
      <4>1. tftp.state # "RRQ"
        BY <2>3, <3>1, <3>3
      <4>2. Stored(mem, tftp.serverPort, tftp.block)
        BY <1>2, <3>1, <4>1 DEF LoadInv, Bound, Going
      <4> QED
        BY <2>3, <3>3, <4>1, <4>2
    <3>4. a # ArpReq
      BY <3>1 DEF ArpReq
    <3> QED
      BY <2>3, <3>1, <3>2, <3>3, <3>4
  <2>7. Bound'
    BY <1>1, <1>3, <2>1 DEF LoadInv, Bound, Going, Mismatch
  <2>8. NetState' = "SUCCESS" /\ ~Mismatch' => Complete'
    BY <1>1, <1>3, <2>1 DEF LoadInv, Complete, Mismatch
  <2>9. Sized'
    <3>1. \A a \in Pending' : a.kind = "OACK" => a \in Pending
      BY <2>3, <2>4 DEF ArpReq
    <3>2. Mismatch' <=> Mismatch
      BY <1>3 DEF Mismatch
    <3> QED
      BY <1>1, <1>3, <3>1, <3>2 DEF LoadInv, Sized
  <2> QED
    BY <2>5, <2>6, <2>7, <2>8, <2>9 DEF LoadInv
<1> QED
  BY <1>4, <1>5

\* What a packet of the server says about its session.
LEMMA SignsAre ==
  ASSUME IInv, NEW m \in Pending, m.kind \in {"OACK", "DATA"}
  PROVE  m.src \in 1 .. Len(sess)
  BY DEF IInv, Messages, IsPacket, IsRRQ, IsAck, IsSign, IsData, ArpReq, ArpRep

\* Only a session the client is not bound to is opened or sends again.
LEMMA ServerLoad ==
  ASSUME IInv, LoadInv, ServerStep, NEW q, net' \subseteq net \cup {q},
         \A s \in 1 .. Len(sess) :
           sess'[s].at = sess[s].at /\ sess'[s].attempt = sess[s].attempt,
         \A s \in 1 .. Len(sess') : s \in 1 .. Len(sess) \/
           /\ sess'[s].attempt <= attempts
           /\ BlkSize[s] = TFTP_BLOCK_SIZE \/ sess'[s].at = 0 \/ sess'[s].at = Blocks[s] + 1,
         q.kind = "OACK" => sess'[q.src].at = 0,
         q.kind = "DATA" => q.body[2] = sess'[q.src].at, q.kind # "ACK"
  PROVE  LoadInv'
<1>1. UNCHANGED <<NetState, handler, size, arp, mem, tftp, attempts>>
  BY DEF ServerStep, Outside, loopvars
<1>2. Pending' \subseteq Pending \cup {q}
  BY <1>1 DEF Pending
<1>3. Fresh'
  <2>1. SUFFICES ASSUME tftp.state = "RRQ"
                 PROVE  /\ size = 0
                        /\ \A m \in Pending \cup {q} :
                             /\ m.kind = "OACK" => sess'[m.src].at = 0
                             /\ m.kind = "DATA" => m.body[2] = sess'[m.src].at
    BY <1>1, <1>2 DEF Fresh
  <2>2. ASSUME NEW m \in Pending, m.kind \in {"OACK", "DATA"}
        PROVE  sess'[m.src].at = sess[m.src].at
    BY <2>2, SignsAre
  <2> QED
    BY <2>1, <2>2 DEF LoadInv, Fresh
<1>4. Mismatch' <=> Mismatch
  BY <1>1 DEF Mismatch
<1>5. Mismatch => tftp.serverPort \in 1 .. Len(sess)
  BY DEF Mismatch, IInv, Binding
<1>6. Sized'
  <2>1. \A s \in 1 .. Len(sess') : sess'[s].attempt <= attempts
    BY DEF LoadInv, Sized
  <2>2. tftp.state = "RRQ" =>
          /\ tftp.blk = TFTP_BLOCK_SIZE
          /\ \A s \in 1 .. Len(sess') :
               sess'[s].attempt = attempts /\ BlkSize[s] # TFTP_BLOCK_SIZE =>
                 sess'[s].at = 0 \/ sess'[s].at = Blocks[s] + 1
    BY DEF LoadInv, Sized
  <2>3. ASSUME Mismatch
        PROVE  /\ sess'[tftp.serverPort].attempt # attempts /\ sess'[tftp.serverPort].at # 0
               /\ \A m \in Pending' : ~(m.kind = "OACK" /\ m.src = tftp.serverPort)
    <3>1. /\ sess[tftp.serverPort].attempt # attempts /\ sess[tftp.serverPort].at # 0
          /\ \A m \in Pending : ~(m.kind = "OACK" /\ m.src = tftp.serverPort)
      BY <2>3 DEF LoadInv, Sized
    <3>2. /\ sess'[tftp.serverPort].attempt # attempts /\ sess'[tftp.serverPort].at # 0
      BY <1>5, <2>3, <3>1
    <3>3. ~(q.kind = "OACK" /\ q.src = tftp.serverPort)
      BY <3>2
    <3> QED
      BY <1>2, <3>1, <3>2, <3>3
  <2> QED
    BY <1>1, <1>4, <2>1, <2>2, <2>3 DEF Sized
<1>7. Acks'
  BY <1>1, <1>2, <1>4 DEF LoadInv, Acks
<1>8. Bound'
  <2>1. Going => tftp.serverPort \in 1 .. Len(sess)
    BY DEF Going, IInv, Binding
  <2> QED
    BY <1>1, <1>4, <2>1 DEF LoadInv, Bound, Going
<1>9. NetState' = "SUCCESS" /\ ~Mismatch' => Complete'
  BY <1>1, <1>4 DEF LoadInv, Complete
<1> QED
  BY <1>3, <1>6, <1>7, <1>8, <1>9 DEF LoadInv

\* A request opens a session that has seen nothing acknowledged.
LEMMA ServeRRQLoad ==
  ASSUME IInv, Counted, LoadInv, NEW m, ServeRRQ(m)
  PROVE  LoadInv'
<1>1. PICK s : s = Len(sess) + 1
  OBVIOUS
<1>2. ServerStep /\ m \in net /\ m.kind = "RRQ" /\ s <= MaxSessions /\ IsSess(sess)
  BY <1>1 DEF ServeRRQ, IInv, SessType
<1>3. m.src \in Ports
  BY <1>2 DEF IInv, Messages, Pending, IsPacket, IsRRQ, IsAck, IsSign, IsData, ArpReq, ArpRep
<1>4. Blocks[s] \in Nat \ {0}
  <2>1. s \in Sessions
    BY <1>1, <1>2, Bounds DEF IsSess, Sessions
  <2> QED
    BY <2>1, BlocksType
<1>5. ASSUME NEW n \in Nat, n <= Blocks[s] + 1, NEW q,
             sess' = Append(sess, [port |-> m.src, at |-> n, attempt |-> attempts]),
             net' = (net \ {m}) \cup {q},
             \/ n = 0 /\ q = Packet("OACK", s, m.src, 0)
             \/ n = Blocks[s] + 1 /\ q = Packet("ERROR", s, m.src, 0)
             \/ BlkSize[s] = TFTP_BLOCK_SIZE /\ n = 1 /\ q = Data(s, m.src, 1)
      PROVE  LoadInv'
  <2>1. /\ sess'[s].at = n /\ sess'[s].attempt = attempts /\ Len(sess') = Len(sess) + 1
        /\ \A j \in 1 .. Len(sess) : sess'[j] = sess[j]
    BY <1>1, <1>2, <1>3, <1>5, Opened DEF Counted
  <2>2. /\ q.kind = "OACK" => sess'[q.src].at = 0
        /\ q.kind = "DATA" => q.body[2] = sess'[q.src].at
        /\ q.kind # "ACK"
    <3>1. CASE n = 0 /\ q = Packet("OACK", s, m.src, 0)
      BY <2>1, <3>1 DEF Packet
    <3>2. CASE n = Blocks[s] + 1 /\ q = Packet("ERROR", s, m.src, 0)
      BY <3>2 DEF Packet
    <3>3. CASE BlkSize[s] = TFTP_BLOCK_SIZE /\ n = 1 /\ q = Data(s, m.src, 1)
      BY <2>1, <3>3 DEF Data
    <3> QED
      BY <1>5, <3>1, <3>2, <3>3
  <2>3. net' \subseteq net \cup {q}
    BY <1>5
  <2>4. ASSUME NEW j \in 1 .. Len(sess'), j \notin 1 .. Len(sess)
        PROVE  /\ sess'[j].attempt <= attempts
               /\ BlkSize[j] = TFTP_BLOCK_SIZE \/ sess'[j].at = 0 \/ sess'[j].at = Blocks[j] + 1
    <3>1. Len(sess) \in Nat
      BY <1>2 DEF IsSess
    <3>2. j = s
      BY <1>1, <2>1, <2>4, <3>1
    <3>3. attempts <= attempts
      BY DEF Counted
    <3> QED
      BY <1>5, <2>1, <3>2, <3>3
  <2> QED
    BY <1>2, <2>1, <2>2, <2>3, <2>4, ServerLoad
<1>6. CASE /\ sess' = Append(sess, [port |-> m.src, at |-> 0, attempt |-> attempts])
           /\ net' = (net \ {m}) \cup {Packet("OACK", s, m.src, 0)}
  BY <1>4, <1>5, <1>6
<1>7. CASE /\ BlkSize[s] = TFTP_BLOCK_SIZE
           /\ sess' = Append(sess, [port |-> m.src, at |-> 1, attempt |-> attempts])
           /\ net' = (net \ {m}) \cup {Data(s, m.src, 1)}
  <2>1. 1 <= Blocks[s] + 1
    BY <1>4
  <2>2. PICK q : q = Data(s, m.src, 1)
    OBVIOUS
  <2> QED
    BY <1>5, <1>7, <2>1, <2>2
<1>8. CASE /\ sess' = Append(sess, [port |-> m.src, at |-> Blocks[s] + 1, attempt |-> attempts])
           /\ net' = (net \ {m}) \cup {Packet("ERROR", s, m.src, 0)}
  <2>1. Blocks[s] + 1 \in Nat /\ Blocks[s] + 1 <= Blocks[s] + 1
    BY <1>4
  <2>2. PICK n \in Nat : n = Blocks[s] + 1
    BY <2>1
  <2> QED
    BY <1>5, <1>8, <2>1, <2>2
<1> QED
  BY <1>1, <1>6, <1>7, <1>8 DEF ServeRRQ

\* A session sends again what it waits to see acknowledged.
LEMMA RetransmitLoad ==
  ASSUME IInv, LoadInv, NEW s, Retransmit(s)
  PROVE  LoadInv'
<1>1. PICK q : q = IF sess[s].at = 0 THEN Packet("OACK", s, sess[s].port, 0)
                   ELSE Data(s, sess[s].port, sess[s].at)
  OBVIOUS
<1>2. ServerStep /\ sess' = sess /\ net' = net \cup {q}
  BY <1>1 DEF Retransmit
<1>3. /\ q.kind = "OACK" => sess'[q.src].at = 0
      /\ q.kind = "DATA" => q.body[2] = sess'[q.src].at
      /\ q.kind # "ACK"
  <2>1. CASE sess[s].at = 0
    BY <1>1, <1>2, <2>1 DEF Packet
  <2>2. CASE sess[s].at # 0
    BY <1>1, <1>2, <2>2 DEF Data
  <2> QED
    BY <2>1, <2>2
<1> QED
  BY <1>2, <1>3, ServerLoad

\* An acknowledgement that makes a session go on covers blocks that are in memory.
LEMMA ServeAckLoad ==
  ASSUME IInv, NoWrap, LoadInv, NEW m, ServeAck(m)
  PROVE  LoadInv'
<1> USE Bounds
<1>1. PICK s : s = m.dst
  OBVIOUS
<1>2. /\ ServerStep /\ m \in net /\ m.kind = "ACK" /\ s \in 1 .. Len(sess)
      /\ sess[s].at <= Blocks[s] /\ m.blk = sess[s].at % SequenceSize
      /\ Len(sess') = Len(sess)
      /\ \A j \in 1 .. Len(sess) :
           /\ sess'[j].attempt = sess[j].attempt
           /\ sess'[j].at = IF j = s THEN sess[j].at + 1 ELSE sess[j].at
      /\ net' = (net \ {m}) \cup
                (IF sess'[s].at <= Blocks[s] THEN {Data(s, m.src, sess'[s].at)} ELSE {})
  BY <1>1, AckServed
<1>3. UNCHANGED <<NetState, handler, size, arp, mem, tftp, attempts>> /\ NetState = "CONTINUE"
  BY <1>2 DEF ServerStep, Outside, loopvars, IInv, Control
<1>4. m \in Pending
  BY <1>2 DEF Pending
<1>5. tftp.state # "RRQ" /\ tftp.serverPort = s
  BY <1>1, <1>2, <1>4, AcksAre
<1>6. sess[s].at \in Nat /\ Blocks[s] \in Nat /\ Blocks[s] < SequenceSize
  BY <1>2, SessFacts DEF IInv, SessType, NoWrap
<1>7. m.blk = sess[s].at
  <2>1. PICK n \in Nat : n = sess[s].at
    BY <1>6
  <2>2. n < SequenceSize
    BY <1>2, <1>6, <2>1
  <2>3. n % SequenceSize = n
    BY <2>2
  <2> QED
    BY <1>2, <2>1, <2>3
<1>8. ~Mismatch => Stored(mem, s, sess[s].at)
  BY <1>2, <1>3, <1>4, <1>5, <1>7 DEF LoadInv, Acks
<1>9. sess'[s].at - 1 = sess[s].at
  <2>1. sess'[s].at = sess[s].at + 1
    BY <1>2
  <2>2. PICK n \in Nat : n = sess[s].at
    BY <1>6
  <2>3. (n + 1) - 1 = n
    OBVIOUS
  <2> QED
    BY <2>1, <2>2, <2>3
<1>10. Mismatch' <=> Mismatch
  BY <1>3 DEF Mismatch
<1>11. Bound'
  BY <1>3, <1>5, <1>8, <1>9, <1>10 DEF LoadInv, Bound, Going
<1>12. PICK q : q = Data(s, m.src, sess'[s].at)
  OBVIOUS
<1>13. q.kind = "DATA" /\ Pending' \subseteq Pending \cup {q}
  BY <1>2, <1>3, <1>12 DEF Pending, Data
<1>14. Acks'
  BY <1>3, <1>10, <1>13 DEF LoadInv, Acks
<1>15. Sized'
  <2>1. sess'[s].at # 0
    BY <1>2, <1>6
  <2>2. /\ \A j \in 1 .. Len(sess') : sess'[j].attempt <= attempts
        /\ sess'[s].attempt = sess[s].attempt
    BY <1>2 DEF LoadInv, Sized
  <2>3. ASSUME Mismatch
        PROVE  /\ sess'[s].attempt # attempts
               /\ \A r \in Pending' : ~(r.kind = "OACK" /\ r.src = s)
    BY <1>5, <1>13, <2>2, <2>3 DEF LoadInv, Sized
  <2> QED
    BY <1>3, <1>5, <1>10, <2>1, <2>2, <2>3 DEF Sized
<1>16. Fresh' /\ NetState' # "SUCCESS"
  BY <1>3, <1>5 DEF Fresh
<1> QED
  BY <1>11, <1>14, <1>15, <1>16 DEF LoadInv

\* The steps of the loop, of ARP and of time that QuietLoad covers.
LEMMA LoopLoad ==
  ASSUME IInv, LoadInv, UNCHANGED tftpvars,
         RxNothing \/ ArpTimeoutCheck \/ AnswerArp \/ CtrlC \/ Tick
  PROVE  LoadInv'
<1>1. UNCHANGED <<mem, tftp, sess>>
  BY DEF tftpvars
<1>2. UNCHANGED <<size, NetState, handler, attempts>>
  <2>1. CASE RxNothing \/ AnswerArp \/ CtrlC \/ Tick
    BY <2>1 DEF RxNothing, AnswerArp, CtrlC, Tick, Outside, loopvars
  <2>2. CASE ArpTimeoutCheck
    BY <2>2, NeverGivesUp, NetTypes, Bounds DEF ArpTimeoutCheck, ArpNeverGivesUp
  <2> QED
    BY <2>1, <2>2
<1>3. Pending' \subseteq Pending \cup {ArpReq, ArpRep}
  <2>1. CASE RxNothing \/ CtrlC
    BY <2>1 DEF RxNothing, CtrlC, Pending
  <2>2. CASE AnswerArp
    BY <2>2 DEF AnswerArp, Outside, loopvars, Pending
  <2>3. CASE Tick
    <3>1. net' = net /\ arp'.pkt = arp.pkt
      BY <2>3, NetTypes DEF Tick
    <3> QED
      BY <3>1 DEF Pending
  <2>4. CASE ArpTimeoutCheck
    <3>1. net' \subseteq net \cup {ArpReq} /\ arp'.pkt = arp.pkt
      BY <2>4, NetTypes DEF ArpTimeoutCheck
    <3> QED
      BY <3>1 DEF Pending
  <2> QED
    BY <2>1, <2>2, <2>3, <2>4
<1> QED
  BY <1>1, <1>2, <1>3, QuietLoad

\* So are packets that change no data.
LEMMA DeliverLoad ==
  ASSUME IInv, LoadInv, NEW m, NEW flight,
         \/ RxArpReply(flight) /\ UNCHANGED tftpvars
         \/ RxIgnored(m, flight)
         \/ RxError(m, flight)
  PROVE  LoadInv'
<1>1. CASE RxArpReply(flight) /\ UNCHANGED tftpvars
  <2>1. UNCHANGED <<mem, tftp, sess, size, NetState, handler, attempts>> /\ flight \subseteq net
    BY <1>1 DEF RxArpReply, Takes, tftpvars
  <2>2. Pending' \subseteq Pending
    <3>1. CASE arp.pkt = NoPacket
      BY <1>1, <2>1, <3>1 DEF RxArpReply, Pending
    <3>2. CASE arp.pkt # NoPacket
      <4>1. net' = flight \cup {arp.pkt} /\ arp'.pkt = NoPacket
        BY <1>1, <3>2, NetTypes DEF RxArpReply
      <4> QED
        BY <2>1, <3>2, <4>1 DEF Pending
    <3> QED
      BY <3>1, <3>2
  <2> QED
    BY <2>1, <2>2, QuietLoad
<1>2. CASE RxIgnored(m, flight) \/ RxError(m, flight)
  <2>1. UNCHANGED <<mem, tftp, sess, size, arp, attempts>> /\ flight \subseteq net /\ net' = flight
    BY <1>2 DEF RxIgnored, RxError, Gets, Takes
  <2>2. /\ NetState' # "FAIL" => NetState # "FAIL"
        /\ handler' = "tftp" => handler = "tftp"
        /\ NetState' = "SUCCESS" => NetState = "SUCCESS"
    BY <1>2 DEF RxIgnored, RxError, NetStartAgain
  <2>3. Pending' \subseteq Pending
    BY <2>1 DEF Pending
  <2> QED
    BY <2>1, <2>2, <2>3, QuietLoad
<1> QED
  BY <1>1, <1>2

\* Every step keeps what is known of the memory.
LEMMA NextLoad ==
  ASSUME NoWrap, IInv, Counted, IInv', LoadInv, [Next]_vars
  PROVE  LoadInv'
<1>1. CASE NetLoop
  <2>1. CASE \E p \in Ports : TftpStart(p)
    BY <2>1, TftpStartLoad
  <2>2. CASE (RxNothing \/ ArpTimeoutCheck) /\ UNCHANGED tftpvars
    BY <2>2, LoopLoad
  <2>3. CASE CheckTimeout
    <3>1. pc = "time" /\ Switch /\ UNCHANGED <<mem, sess>> /\ UNCHANGED <<size, attempts>>
      BY <2>3 DEF CheckTimeout, Switch
    <3>2. CASE TimeoutOf("tftp") /\ TftpTimeout
      BY <3>1, <3>2, TftpTimeoutLoad
    <3>3. CASE /\ NoTimeout \/ (TimeoutOf("startAgain") /\ startAgainTimeout)
               /\ UNCHANGED tftp
      <4>1. UNCHANGED <<arp, net, handler>> /\ (NetState' = NetState \/ NetState' = "RESTART")
        BY <3>3 DEF NoTimeout, startAgainTimeout
      <4>2. Pending' = Pending
        BY <4>1 DEF Pending
      <4>3. NetState' # "FAIL" => NetState # "FAIL"
        <5>1. CASE TimeoutOf("startAgain") /\ startAgainTimeout
          BY <5>1 DEF TimeoutOf, IInv, Control
        <5>2. CASE NoTimeout
          BY <5>2 DEF NoTimeout
        <5> QED
          BY <3>3, <5>1, <5>2
      <4> QED
        BY <3>1, <3>3, <4>1, <4>2, <4>3, QuietLoad
    <3> QED
      BY <2>3, <3>2, <3>3 DEF CheckTimeout
  <2> QED
    BY <1>1, <2>1, <2>2, <2>3 DEF NetLoop
<1>2. CASE Deliver
  <2>1. PICK m \in net, flight \in SUBSET net :
               (RxArpReply(flight) /\ UNCHANGED tftpvars) \/ Receive(m, flight)
    BY <1>2 DEF Deliver
  <2> QED
    BY <2>1, DeliverLoad, RxOackLoad, RxNotFirstLoad, RxSameLoad, RxBlockLoad DEF Receive
<1>3. CASE Server
  BY <1>3, LoopLoad, ServeRRQLoad, ServeAckLoad, RetransmitLoad DEF Server
<1>4. CASE (CtrlC \/ Tick) /\ UNCHANGED tftpvars
  BY <1>4, LoopLoad
<1>5. CASE UNCHANGED vars
  <2>1. UNCHANGED <<NetState, handler, size, arp, net, mem, tftp, sess, attempts>>
    BY <1>5 DEF vars, netvars, loopvars, tftpvars
  <2>2. Pending' = Pending
    BY <2>1 DEF Pending
  <2> QED
    BY <2>1, <2>2, QuietLoad
<1> QED
  BY <1>1, <1>2, <1>3, <1>4, <1>5 DEF Next

\* Under NoWrap the whole invariant holds.
LEMMA LoadInvariance == ASSUME NoWrap PROVE Spec => [](IInv /\ LoadInv)
<1>1. Init => IInv /\ Counted /\ LoadInv
  BY InitIInv, InitLoadInv DEF Init, NetInit, Counted
<1>2. IInv /\ Counted /\ LoadInv /\ [Next]_vars => IInv' /\ Counted' /\ LoadInv'
  BY NextIInv, NextLoad
<1> QED
  BY <1>1, <1>2, PTL DEF Spec

\* A client with another block size than its session is bound to a session of an
\* earlier attempt.
LEMMA MismatchIsStale == LoadInv /\ ~StaleSize => ~Mismatch
  BY DEF LoadInv, Sized, StaleSize, Mismatch

\* A size NetLoop returns is that of a file, and the memory holds that file, one
\* session's, complete and in order: for every loss, repetition, delay and
\* reordering of packets, every block size the sessions agree on, and whatever
\* attempts before left behind, but for a session of theirs that binds the client
\* with its first block and another block size (StaleSize), as long as no file has
\* so many blocks that their numbers wrap around.
THEOREM LoadCorrect == ASSUME NoWrap PROVE Spec => []LoadedIsFile
<1>1. Spec => [](IInv /\ LoadInv)
  BY LoadInvariance
<1>2. IInv /\ LoadInv => LoadedIsFile
  <2>1. SUFFICES ASSUME IInv, LoadInv, result = "size", ~StaleSize PROVE LoadedIsFile
    BY DEF LoadedIsFile
  <2>2. Complete
    BY <2>1, MismatchIsStale DEF LoadInv, IInv, Control
  <2>3. PICK s \in Sessions : size = FileLen(s) /\ Stored(mem, s, Blocks[s])
    BY <2>2 DEF Complete
  <2>4. ASSUME NEW j \in 0 .. FileLen(s) - 1 PROVE mem[j] = <<s, j>>
    <3>1. PICK e \in Nat : e = Blocks[s] * BlkSize[s]
      BY BlocksType, Products
    <3>2. FileLen(s) \in Nat /\ FileLen(s) <= e
      <4>1. Blocks[s] \in 1 .. Blocks[s]
        BY BlocksType
      <4> QED
        BY <3>1, <4>1, Sizes
    <3>3. j \in Nat /\ j < e /\ j < FileLen(s)
      BY <3>2
    <3> QED
      BY <2>3, <3>1, <3>3 DEF Stored
  <2> QED
    BY <2>3, <2>4 DEF LoadedIsFile
<1> QED
  BY <1>1, <1>2, PTL

\* What the client acknowledges to its session is in memory (tftp.c, TftpSend), but
\* for StaleSize and as long as no file has so many blocks that their numbers wrap
\* around.
THEOREM AcksAreStored == ASSUME NoWrap PROVE Spec => []AckedBlocksStored
<1>1. Spec => [](IInv /\ LoadInv)
  BY LoadInvariance
<1>2. IInv /\ LoadInv => AckedBlocksStored
  <2>1. SUFFICES ASSUME IInv, LoadInv, NEW m \in net, NetState # "FAIL", ~StaleSize, m.kind = "ACK",
                        m.dst = tftp.serverPort
                 PROVE  \A j \in 0 .. m.blk * BlkSize[m.dst] - 1 :
                          j < FileLen(m.dst) => mem[j] = <<m.dst, j>>
    BY DEF AckedBlocksStored
  <2>2. Stored(mem, m.dst, m.blk)
    BY <2>1, MismatchIsStale DEF LoadInv, Acks, Pending
  <2>3. PICK e : e = m.blk * BlkSize[m.dst]
    OBVIOUS
  <2>4. \A j \in Nat : j < e /\ j < FileLen(m.dst) => mem[j] = <<m.dst, j>>
    BY <2>2, <2>3 DEF Stored
  <2>5. e \in Int
    <3>1. m \in Pending
      BY <2>1 DEF Pending
    <3>2. tftp.state # "RRQ" /\ m.blk \in 0 .. SequenceSize - 1
      BY <2>1, <3>1, AcksAre
    <3>3. m.dst \in Sessions
      BY <2>1, <3>2, SessFacts DEF IInv, Binding, SessType
    <3>4. m.blk \in Nat /\ BlkSize[m.dst] \in Nat
      BY <3>2, <3>3, BlocksType, Bounds
    <3> QED
      BY <2>3, <3>4, Products
  <2> QED
    BY <2>3, <2>4, <2>5
<1> QED
  BY <1>1, <1>2, PTL

=============================================================================
