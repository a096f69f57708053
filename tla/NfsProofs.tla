------------------------------ MODULE NfsProofs ------------------------------
(***************************************************************************)
(* Proofs about Nfs for every set of files and links, every server and     *)
(* every number of lost, repeated and late packets.                        *)
(***************************************************************************)
EXTENDS Nfs, TLAPS

States == {"PRCLOOKUP_MOUNT", "PRCLOOKUP_NFS", "MOUNT", "UMOUNT", "LOOKUP", "READ", "READLINK"}

-----------------------------------------------------------------------------
(* The inductive invariant.                                                *)

\* The variables of the loop are records of their types.
NetType ==
    /\ pc \in {"start", "rx", "arp", "time", "done"}
    /\ result \in {"none", "size", "abort", "fail"}
    /\ NetState \in {"CONTINUE", "RESTART", "SUCCESS", "FAIL"}
    /\ handler \in {"nfs", "startAgain"}
    /\ timer \in [who : {"none", "nfs", "startAgain"}, left : 0 .. NFS_TIMEOUT + RESTART_DELAY]
    /\ arp \in [pkt : {arp.pkt}, left : 0 .. ARP_TIMEOUT, try : 0 .. ARP_TIMEOUT_COUNT - 1]

\* Values of the variables of nfs.c; a handle and the path are what they are.
IsNfs(n) ==
    n \in [state : States, id : Nat, mountPort : Ports \cup {None},
           nfsPort : Ports \cup {None}, mounted : BOOLEAN, dirfh : {n.dirfh},
           filefh : {n.filefh}, offset : -1 .. MemUnits, path : {n.path},
           down : {"SUCCESS", "FAIL"}]

MemType ==
    /\ size \in 0 .. MemUnits
    /\ bootfile \in Wanted
    /\ mem \in [0 .. MemUnits - 1 -> (Names \X (0 .. MemUnits - 1)) \cup {None}]

\* A request a server can serve, and a reply, with an identifier up to id.
IsCall(m, id) ==
    /\ m.kind = "CALL"
    /\ m \in [kind : {"CALL"}, id : 0 .. id, proc : Procedures, port : {m.port}, arg : {m.arg}]
    /\ m.proc = "READ" => m.arg[1] \in Names /\ m.arg[2] \in Nat
IsReply(m, id) ==
    /\ m.kind = "REPLY"
    /\ m \in [kind : {"REPLY"}, id : 0 .. id, err : {"none", "link", "rpc", "nfs", "verifier"},
              val : {m.val}, len : Nat]
IsPacket(m, id) == m \in {ArpReq, ArpRep} \/ IsCall(m, id) \/ IsReply(m, id)

\* What is on its way, the packet that waits for ARP included.
Pending == net \cup ({arp.pkt} \ {NoPacket})

Messages == \A m \in Pending : IsPacket(m, nfs.id)

\* A packet with the current identifier is the request of the current state,
\* or an answer to it.
Current(m) ==
    /\ m.kind = "CALL" /\ m.id = nfs.id => m = Request(nfs, nfs.id)
    /\ m.kind = "REPLY" /\ m.id = nfs.id => m \in Replies(Request(nfs, nfs.id))
Asked == nfs.state # "UMOUNT" => \A m \in Pending : Current(m)

\* The path is a name; the one that is read is a name of the server.
PathInv ==
    /\ \/ nfs.state = "PRCLOOKUP_MOUNT" /\ pc = "start"
       \/ nfs.path = <<nfs.path[1], nfs.path[2]>>
    /\ nfs.state \in {"READ", "READLINK"} => nfs.path \in Names
    /\ nfs.state = "READLINK" => nfs.path \in DOMAIN Link

\* What was read lies in memory.
Read ==
    /\ nfs.state \notin {"READ", "UMOUNT"} => size = 0
    /\ nfs.state = "READ" =>
         /\ nfs.offset \in Nat /\ size = nfs.offset
         /\ nfs.offset > 0 => nfs.path \in DOMAIN FileLen /\ nfs.offset <= FileLen[nfs.path]
         /\ \A i \in 0 .. nfs.offset - 1 : mem[i] = <<nfs.path, i>>

Returned ==
    /\ nfs.down = "SUCCESS" => nfs.state = "UMOUNT"
    /\ pc # "done" => result = "none"
    /\ result = "size" => NetState = "SUCCESS"
    /\ NetState = "SUCCESS" /\ pc # "start" => nfs.down = "SUCCESS"

IInv ==
    NetType /\ IsNfs(nfs) /\ MemType /\ Messages /\ Asked /\ HandlesArePath /\ PathInv /\ Read
    /\ Returned

\* The links followed lead where the name given leads.
Followed ==
    pc # "start" /\ Proper[bootfile] =>
      nfs.path \in Names /\ Proper[nfs.path] /\ Resolved[nfs.path] = Resolved[bootfile]

\* What was read is in memory, and it is the whole file unless it was cut short.
Complete ==
    /\ \A i \in 0 .. size - 1 : mem[i] = <<nfs.path, i>>
    /\ cutShort \/ (nfs.path \in DOMAIN FileLen /\ size = FileLen[nfs.path])

LoadInv == Followed /\ (pc # "start" /\ nfs.down = "SUCCESS" => Complete)

\* The path buffer and the history variable.
BufType == longest \in Nat /\ cutShort \in BOOLEAN

-----------------------------------------------------------------------------
(* Constants, requests and replies.                                        *)

\* The constants are numbers, and ARP tries more than once.
LEMMA Bounds ==
  /\ ARP_TIMEOUT_COUNT \in Nat /\ ARP_TIMEOUT_COUNT > 1
  /\ ARP_TIMEOUT \in Nat \ {0} /\ RESTART_DELAY \in Nat \ {0}
  /\ NFS_TIMEOUT \in Nat \ {0} /\ MemUnits \in Nat /\ NFS_READ_SIZE \in Nat \ {0}
<1>1. /\ ARP_TIMEOUT_COUNT \in Nat \ {0} /\ ARP_TIMEOUT \in Nat \ {0}
      /\ RESTART_DELAY \in Nat \ {0}
  BY NetAssumption
<1>2. ARP_TIMEOUT_COUNT # 1
  <2>1. SUFFICES ASSUME ARP_TIMEOUT_COUNT = 1 PROVE FALSE
    OBVIOUS
  <2>2. ARP_TIMEOUT_COUNT - 1 = 0
    BY <2>1
  <2>3. (ARP_TIMEOUT_COUNT - 1) * ARP_TIMEOUT = 0
    BY <1>1, <2>2
  <2> QED
    BY <1>1, <2>3, RestartAssumption
<1> QED
  BY <1>1, <1>2, NfsAssumption

\* A reply to a request has its identifier.
LEMMA ReplyType ==
  ASSUME NEW k \in Nat, NEW m, IsCall(m, k), NEW r \in Replies(m)
  PROVE  IsReply(r, k) /\ r.id = m.id
<1>1. /\ m.id \in 0 .. k /\ m.proc \in Procedures
      /\ m.proc = "READ" => m.arg[1] \in Names /\ m.arg[2] \in Nat
  BY DEF IsCall
<1>2. ASSUME NEW e \in Errors, r = Reply(m.id, e[2], None, 0) PROVE IsReply(r, k) /\ r.id = m.id
  <2>1. e[2] \in {"rpc", "nfs", "verifier"}
    BY NfsAssumption
  <2> QED
    BY <1>1, <1>2, <2>1 DEF IsReply, Reply
<1>3. ASSUME NEW v, r = Reply(m.id, "none", v, 0) PROVE IsReply(r, k) /\ r.id = m.id
  BY <1>1, <1>3 DEF IsReply, Reply
<1>4. ASSUME r = Reply(m.id, "link", None, 0) PROVE IsReply(r, k) /\ r.id = m.id
  BY <1>1, <1>4 DEF IsReply, Reply
<1>5. ASSUME NEW f, NEW o, r \in ReadReplies(m.id, f, o) PROVE IsReply(r, k) /\ r.id = m.id
  <2>1. PICK l \in Nat : r = Reply(m.id, "none", <<f, o>>, l)
    BY <1>5, Bounds DEF ReadReplies
  <2> QED
    BY <1>1, <2>1 DEF IsReply, Reply
<1>6. m.proc = "READ" => m.arg[1] \in DOMAIN Link \/ m.arg[1] \in DOMAIN FileLen
  BY <1>1, NfsAssumption
<1>7. \/ \E e \in Errors : r = Reply(m.id, e[2], None, 0)
      \/ \E v : r = Reply(m.id, "none", v, 0)
      \/ r = Reply(m.id, "link", None, 0)
      \/ \E f, o : r \in ReadReplies(m.id, f, o)
  BY <1>1, <1>6 DEF Replies, Procedures
<1> QED
  BY <1>2, <1>3, <1>4, <1>5, <1>7

\* What a reply to the current request says.
LEMMA Answered ==
  ASSUME IInv, NEW m \in net, m.kind = "REPLY", m.id = nfs.id
  PROVE  /\ IsReply(m, nfs.id)
         /\ nfs.state \in {"PRCLOOKUP_MOUNT", "PRCLOOKUP_NFS"} /\ m.err = "none" =>
              m.val \in Ports \cup {None}
         /\ nfs.state = "MOUNT" /\ m.err = "none" => m.val = nfs.path[1]
         /\ nfs.state = "LOOKUP" /\ m.err = "none" =>
              m.val \in Names /\ m.val = <<nfs.dirfh, nfs.path[2]>>
         /\ nfs.state = "READLINK" /\ m.err = "none" => m.val = nfs.filefh
         /\ nfs.state = "READ" /\ m.err = "link" => nfs.filefh \in DOMAIN Link
         /\ nfs.state = "READ" /\ m.err = "verifier" => <<"READ", "verifier">> \in Errors
         /\ nfs.state = "READ" /\ m.err = "none" =>
              /\ nfs.filefh \in DOMAIN FileLen /\ m.val = <<nfs.filefh, nfs.offset>>
              /\ m.len # 0 => nfs.offset + m.len <= FileLen[nfs.filefh]
              /\ m.len = 0 => nfs.offset >= FileLen[nfs.filefh]
<1> DEFINE q == Request(nfs, nfs.id)
           s == nfs.state
<1>0. m \in Pending
  BY DEF Pending
<1>1. IsReply(m, nfs.id) /\ (s # "UMOUNT" => m \in Replies(q))
  BY <1>0 DEF IInv, Messages, IsPacket, IsCall, Asked, Current, ArpReq, ArpRep
<1>2. ASSUME NEW e \in Errors, m = Reply(q.id, e[2], None, 0)
      PROVE  m.err = e[2] /\ e[2] \in {"rpc", "nfs", "verifier"} /\ e = <<e[1], e[2]>>
  BY <1>2, NfsAssumption DEF Reply
<1>3. CASE s \in {"PRCLOOKUP_MOUNT", "PRCLOOKUP_NFS"}
  <2>1. q.proc = "GETPORT" /\ q.arg \in Ports
    BY <1>3 DEF Request, Call, Ports
  <2>2. m.err = "none" => m.val \in Ports \cup {None}
    BY <1>1, <1>2, <1>3, <2>1 DEF Replies, Reply
  <2> QED
    BY <1>1, <1>3, <2>2
<1>4. CASE s = "MOUNT"
  <2>1. q.proc = "MNT" /\ q.arg = nfs.path[1]
    BY <1>4 DEF Request, Call
  <2>2. m.err = "none" => m.val = nfs.path[1]
    BY <1>1, <1>2, <1>4, <2>1 DEF Replies, Reply
  <2> QED
    BY <1>1, <1>4, <2>2
<1>5. CASE s = "LOOKUP"
  <2>1. q.proc = "LOOKUP" /\ q.arg = <<nfs.dirfh, nfs.path[2]>>
    BY <1>5 DEF Request, Call
  <2>2. m.err = "none" => m.val = q.arg /\ q.arg \in Names
    BY <1>1, <1>2, <1>5, <2>1 DEF Replies, Reply
  <2> QED
    BY <1>1, <1>5, <2>1, <2>2
<1>6. CASE s = "READLINK"
  <2>1. q.proc = "READLINK" /\ q.arg = nfs.filefh
    BY <1>6 DEF Request, Call
  <2>2. m.err = "none" => m.val = nfs.filefh
    BY <1>1, <1>2, <1>6, <2>1 DEF Replies, Reply
  <2> QED
    BY <1>1, <1>6, <2>2
<1>7. CASE s = "READ"
  <2>1. q.proc = "READ" /\ q.arg[1] = nfs.filefh /\ q.arg[2] = nfs.offset /\ q.id = nfs.id
    BY <1>7 DEF Request, Call
  <2>2. nfs.filefh \in Names /\ nfs.offset \in Nat
    BY <1>7 DEF IInv, HandlesArePath, PathInv, Read
  <2>3. CASE \E e \in Errors : e[1] = "READ" /\ m = Reply(q.id, e[2], None, 0)
    BY <1>1, <1>2, <1>7, <2>3
  <2>4. CASE nfs.filefh \in DOMAIN Link /\ m = Reply(q.id, "link", None, 0)
    BY <1>1, <1>7, <2>4 DEF Reply
  <2>5. CASE nfs.filefh \in DOMAIN FileLen /\ m \in ReadReplies(nfs.id, nfs.filefh, nfs.offset)
    <3>1. FileLen[nfs.filefh] \in Nat
      BY <2>5, NfsAssumption
    <3>2. m.err = "none" /\ m.val = <<nfs.filefh, nfs.offset>>
      BY <2>5 DEF ReadReplies, Reply
    <3>3. CASE FileLen[nfs.filefh] - nfs.offset <= 0
      <4>1. m.len = 0
        BY <2>5, <3>3 DEF ReadReplies, Reply
      <4> QED
        BY <1>1, <1>7, <2>2, <2>5, <3>1, <3>2, <3>3, <4>1
    <3>4. CASE ~(FileLen[nfs.filefh] - nfs.offset <= 0)
      <4>1. m.len \in 1 .. NFS_READ_SIZE /\ m.len <= FileLen[nfs.filefh] - nfs.offset
        BY <2>5, <3>4 DEF ReadReplies, Reply
      <4> QED
        BY <1>1, <1>7, <2>2, <2>5, <3>1, <3>2, <4>1, Bounds
    <3> QED
      BY <3>3, <3>4
  <2>6. nfs.filefh \in DOMAIN Link \/ nfs.filefh \in DOMAIN FileLen
    BY <2>2, NfsAssumption
  <2> QED
    BY <1>1, <1>7, <2>1, <2>3, <2>4, <2>5, <2>6 DEF Replies
<1>8. CASE s = "UMOUNT"
  BY <1>1, <1>8
<1> QED
  BY <1>3, <1>4, <1>5, <1>6, <1>7, <1>8 DEF IInv, IsNfs, States

-----------------------------------------------------------------------------
(* Sending.                                                                *)

\* NfsSend leaves the request of the new state as the only packet with the new
\* identifier.
LEMMA Sends ==
  ASSUME IInv, NEW n, IsNfs(n), n.id = nfs.id, NEW known, NEW flight \in SUBSET net,
         n.state = "READ" => n.filefh \in Names /\ n.offset \in Nat, NfsSend(n, known, flight)
  PROVE  /\ Messages' /\ Asked' /\ IsNfs(nfs)'
         /\ arp' \in [pkt : {arp'.pkt}, left : 0 .. ARP_TIMEOUT, try : 0 .. ARP_TIMEOUT_COUNT - 1]
         /\ nfs'.state = n.state /\ nfs'.dirfh = n.dirfh /\ nfs'.filefh = n.filefh
         /\ nfs'.path = n.path /\ nfs'.offset = n.offset /\ nfs'.down = n.down
<1>0. nfs.id \in Nat /\ Messages /\ arp.try \in Nat
      /\ arp \in [pkt : {arp.pkt}, left : 0 .. ARP_TIMEOUT, try : 0 .. ARP_TIMEOUT_COUNT - 1]
  BY Bounds DEF IInv, IsNfs, NetType
<1>1. CASE n.state = "UMOUNT" /\ ~n.mounted
  <2>1. nfs' = n /\ net' = flight /\ arp' = arp
    BY <1>1 DEF NfsSend
  <2>2. Pending' \subseteq Pending
    BY <2>1 DEF Pending
  <2>3. Messages'
    BY <1>0, <2>1, <2>2 DEF Messages
  <2>4. Asked'
    BY <1>1, <2>1 DEF Asked
  <2> QED
    BY <1>0, <2>1, <2>3, <2>4
<1>2. CASE ~(n.state = "UMOUNT" /\ ~n.mounted)
  <2> DEFINE k == nfs.id + 1
             q == Request(n, k)
  <2>1. nfs' = [n EXCEPT !.id = @ + 1] /\ NetSendUDPPacket(q, known, flight)
    BY <1>2 DEF NfsSend
  <2>2. /\ nfs'.id = k /\ nfs'.state = n.state /\ nfs'.dirfh = n.dirfh /\ nfs'.filefh = n.filefh
        /\ nfs'.path = n.path /\ nfs'.offset = n.offset /\ nfs'.down = n.down
        /\ nfs'.mountPort = n.mountPort /\ nfs'.nfsPort = n.nfsPort
    BY <2>1 DEF IsNfs
  <2>3. IsNfs(nfs)'
    BY <1>0, <2>1, <2>2 DEF IsNfs
  <2>4. Pending' \subseteq Pending \cup {ArpReq, q}
    <3>1. CASE known
      BY <2>1, <3>1 DEF NetSendUDPPacket, Pending
    <3>2. CASE ~known
      <4>1. arp'.pkt = q /\ net' = flight \cup {ArpReq}
        BY <2>1, <3>2 DEF NetSendUDPPacket
      <4> QED
        BY <4>1 DEF Pending
    <3> QED
      BY <3>1, <3>2
  <2>5. arp' \in [pkt : {arp'.pkt}, left : 0 .. ARP_TIMEOUT, try : 0 .. ARP_TIMEOUT_COUNT - 1]
    BY <1>0, <2>1, Bounds DEF NetSendUDPPacket
  <2>6. IsCall(q, k) /\ q = Request(nfs', nfs'.id)
    <3>1. q = Request(nfs', nfs'.id)
      BY <2>2 DEF Request
    <3>2. q.kind = "CALL" /\ q.id = k /\ q.proc \in Procedures
          /\ q = Call(q.id, q.proc, q.port, q.arg)
      BY DEF Request, Call, IsNfs, States, Procedures
    <3>3. q.proc = "READ" => q.arg[1] \in Names /\ q.arg[2] \in Nat
      BY DEF Request, Call, IsNfs, States
    <3>4. q \in [kind : {"CALL"}, id : 0 .. k, proc : Procedures, port : {q.port}, arg : {q.arg}]
      BY <1>0, <3>2 DEF Call
    <3> QED
      BY <3>1, <3>2, <3>3, <3>4 DEF IsCall
  <2>7. ASSUME NEW m \in Pending
        PROVE  IsPacket(m, k) /\ (m.kind \in {"CALL", "REPLY"} => m.id # k)
    <3>1. IsPacket(m, nfs.id)
      BY <1>0 DEF Messages
    <3>2. CASE m \in {ArpReq, ArpRep}
      BY <3>2 DEF IsPacket, ArpReq, ArpRep
    <3>3. CASE IsCall(m, nfs.id)
      BY <1>0, <3>3 DEF IsPacket, IsCall
    <3>4. CASE IsReply(m, nfs.id)
      BY <1>0, <3>4 DEF IsPacket, IsReply
    <3> QED
      BY <3>1, <3>2, <3>3, <3>4 DEF IsPacket
  <2>8. Messages'
    BY <2>2, <2>4, <2>6, <2>7 DEF Messages, IsPacket
  <2>9. Asked'
    <3> SUFFICES ASSUME NEW m \in Pending' PROVE Current(m)'
      BY DEF Asked
    <3>1. CASE m \in Pending
      BY <2>2, <2>7, <3>1 DEF Current
    <3>2. CASE m = ArpReq
      BY <3>2 DEF Current, ArpReq
    <3>3. CASE m = q
      BY <2>6, <3>3 DEF Current, IsCall
    <3> QED
      BY <2>4, <3>1, <3>2, <3>3
  <2> QED
    BY <2>2, <2>3, <2>5, <2>8, <2>9
<1> QED
  BY <1>1, <1>2

\* A step that sends nothing and leaves nfs.c alone.
LEMMA QuietMessages ==
  ASSUME IInv, UNCHANGED nfs, Pending' \subseteq Pending \cup {ArpReq, ArpRep}
  PROVE  Messages' /\ Asked' /\ IsNfs(nfs)'
<1>1. Messages'
  BY DEF IInv, Messages, IsPacket
<1>2. Asked'
  <2>1. ASSUME NEW m \in {ArpReq, ArpRep} PROVE Current(m)'
    BY <2>1 DEF Current, ArpReq, ArpRep
  <2>2. ASSUME NEW m, Current(m) PROVE Current(m)'
    BY <2>2 DEF Current
  <2> QED
    BY <2>1, <2>2 DEF IInv, Asked
<1> QED
  BY <1>1, <1>2 DEF IInv

\* A step that touches neither nfs.c nor the memory.
LEMMA QuietIInv ==
  ASSUME IInv, UNCHANGED nfsvars, UNCHANGED size, pc # "start", NetType', Returned',
         Pending' \subseteq Pending \cup {ArpReq, ArpRep}
  PROVE  IInv'
<1>1. Messages' /\ Asked' /\ IsNfs(nfs)'
  BY QuietMessages DEF nfsvars
<1>2. MemType' /\ HandlesArePath' /\ PathInv' /\ Read'
  BY DEF IInv, MemType, HandlesArePath, PathInv, Read, nfsvars
<1> QED
  BY <1>1, <1>2 DEF IInv

\* A packet is taken out of the network.
LEMMA TakesFlight ==
  ASSUME NEW m, NEW flight, Takes(m, flight)
  PROVE  m \in net /\ flight \in SUBSET net /\ pc = "rx" /\ pc' = "arp" /\ UNCHANGED result
  BY DEF Takes

\* What NetStartAgain does to the handler and the timer.
LEMMA StartAgainType ==
  ASSUME IInv, NEW tm, tm \in {timer, NoTimer}, NetStartAgain(tm)
  PROVE  /\ NetState' \in {NetState, "FAIL"} /\ handler' \in {"nfs", "startAgain"}
         /\ timer' \in [who : {"none", "nfs", "startAgain"}, left : 0 .. NFS_TIMEOUT + RESTART_DELAY]
<1>1. /\ timer \in [who : {"none", "nfs", "startAgain"}, left : 0 .. NFS_TIMEOUT + RESTART_DELAY]
      /\ handler \in {"nfs", "startAgain"}
  BY DEF IInv, NetType
<1>2. CASE netretry
  BY <1>2, Bounds DEF NetStartAgain, NetSetTimeout
<1>3. CASE ~netretry
  BY <1>1, <1>3, Bounds DEF NetStartAgain, NoTimer
<1> QED
  BY <1>2, <1>3

-----------------------------------------------------------------------------
(* NetLoop, ARP, time and the user.                                        *)

\* NetLoop starts with nothing on its way.
LEMMA InitIInv == Init => IInv
<1> SUFFICES ASSUME Init PROVE IInv
  OBVIOUS
<1> USE Bounds
<1>1. NetType
  BY DEF Init, NetInit, NetType, NoTimer
<1>2. IsNfs(nfs)
  BY DEF Init, IsNfs, States
<1>3. MemType
  BY DEF Init, NetInit, MemType
<1>4. Pending = {}
  BY DEF Init, NetInit, Pending
<1>5. Messages /\ Asked
  BY <1>4 DEF Messages, Asked
<1>6. HandlesArePath /\ PathInv /\ Read /\ Returned
  BY DEF Init, NetInit, HandlesArePath, PathInv, Read, Returned
<1> QED
  BY <1>1, <1>2, <1>3, <1>5, <1>6 DEF IInv

\* NfsStart asks for the port of the mount service under a new identifier.
LEMMA NfsStartIInv == IInv /\ NfsStart => IInv'
<1> SUFFICES ASSUME IInv, NfsStart PROVE IInv'
  OBVIOUS
<1> DEFINE n == [nfs EXCEPT !.state = "PRCLOOKUP_MOUNT", !.down = "FAIL", !.path = bootfile]
<1>1. IsNfs(n) /\ n.id = nfs.id /\ n.state = "PRCLOOKUP_MOUNT" /\ n.down = "FAIL"
      /\ n.path = bootfile
  BY DEF IInv, IsNfs, States
<1>2. NfsSend(n, FALSE, net) /\ pc' = "rx" /\ result' = result /\ pc = "start"
      /\ NetState' = "CONTINUE" /\ size' = 0 /\ handler' = "nfs"
      /\ timer' = [who |-> "nfs", left |-> NFS_TIMEOUT] /\ UNCHANGED <<bootfile, mem>>
  BY DEF NfsStart, Restart, NetSetTimeout
<1> HIDE DEF n
<1>3. /\ Messages' /\ Asked' /\ IsNfs(nfs)' /\ nfs'.state = "PRCLOOKUP_MOUNT"
      /\ nfs'.path = bootfile /\ nfs'.down = "FAIL"
      /\ arp' \in [pkt : {arp'.pkt}, left : 0 .. ARP_TIMEOUT, try : 0 .. ARP_TIMEOUT_COUNT - 1]
  BY <1>1, <1>2, Sends
<1>4. NetType' /\ MemType'
  BY <1>2, <1>3, Bounds DEF IInv, NetType, MemType
<1>5. bootfile = <<bootfile[1], bootfile[2]>>
  BY NfsAssumption, PathsAssumption DEF IInv, MemType, Paths
<1>6. HandlesArePath' /\ PathInv' /\ Read' /\ Returned'
  BY <1>2, <1>3, <1>5 DEF IInv, HandlesArePath, PathInv, Read, Returned
<1> QED
  BY <1>3, <1>4, <1>6 DEF IInv

\* The steps of the loop around the handler, ARP and time.
LEMMA LoopIInv ==
  IInv /\ (RxNothing \/ ArpTimeoutCheck \/ CtrlC \/ Tick \/ AnswerArp \/ \E f : RxArpReply(f))
       /\ UNCHANGED nfsvars => IInv'
<1> SUFFICES ASSUME IInv, UNCHANGED nfsvars,
                    RxNothing \/ ArpTimeoutCheck \/ CtrlC \/ Tick \/ AnswerArp
                    \/ \E f : RxArpReply(f)
             PROVE  IInv'
  OBVIOUS
<1>0. nfs' = nfs
  BY DEF nfsvars
<1>1. CASE RxNothing
  <2>1. NetType' /\ Returned' /\ Pending' = Pending /\ pc # "start" /\ UNCHANGED size
    BY <1>0, <1>1 DEF RxNothing, IInv, NetType, Returned, Pending
  <2> QED
    BY <2>1, QuietIInv
<1>2. CASE ArpTimeoutCheck
  <2>1. pc = "arp" /\ pc' = "time" /\ UNCHANGED <<size, result>>
    BY <1>2 DEF ArpTimeoutCheck
  <2>2. CASE ~ArpExpired
    <3>1. UNCHANGED <<NetState, handler, timer, arp, net>>
      BY <1>2, <2>2 DEF ArpTimeoutCheck
    <3>2. NetType' /\ Returned' /\ Pending' = Pending
      BY <1>0, <2>1, <3>1 DEF IInv, NetType, Returned, Pending
    <3> QED
      BY <2>1, <3>2, QuietIInv
  <2>3. CASE ArpExpired /\ arp.try + 1 >= ARP_TIMEOUT_COUNT
    <3>1. arp' = [arp EXCEPT !.try = 0] /\ NetStartAgain(timer) /\ UNCHANGED net
      BY <1>2, <2>3 DEF ArpTimeoutCheck
    <3>2. /\ NetState' \in {NetState, "FAIL"} /\ handler' \in {"nfs", "startAgain"}
          /\ timer' \in [who : {"none", "nfs", "startAgain"}, left : 0 .. NFS_TIMEOUT + RESTART_DELAY]
      BY <3>1, StartAgainType
    <3>3. arp' \in [pkt : {arp'.pkt}, left : 0 .. ARP_TIMEOUT, try : 0 .. ARP_TIMEOUT_COUNT - 1]
          /\ arp'.pkt = arp.pkt
      BY <3>1, Bounds DEF IInv, NetType
    <3>4. NetType' /\ Returned' /\ Pending' = Pending
      BY <1>0, <2>1, <3>1, <3>2, <3>3 DEF IInv, NetType, Returned, Pending
    <3> QED
      BY <2>1, <3>4, QuietIInv
  <2>4. CASE ArpExpired /\ ~(arp.try + 1 >= ARP_TIMEOUT_COUNT)
    <3>1. /\ arp' = [arp EXCEPT !.try = @ + 1, !.left = ARP_TIMEOUT]
          /\ net' = net \cup {ArpReq} /\ UNCHANGED <<NetState, handler, timer>>
      BY <1>2, <2>4 DEF ArpTimeoutCheck
    <3>2. arp' \in [pkt : {arp'.pkt}, left : 0 .. ARP_TIMEOUT, try : 0 .. ARP_TIMEOUT_COUNT - 1]
          /\ arp'.pkt = arp.pkt
      <4>1. arp \in [pkt : {arp.pkt}, left : 0 .. ARP_TIMEOUT, try : 0 .. ARP_TIMEOUT_COUNT - 1]
        BY DEF IInv, NetType
      <4>2. arp.try + 1 \in 0 .. ARP_TIMEOUT_COUNT - 1 /\ ARP_TIMEOUT \in 0 .. ARP_TIMEOUT
        BY <2>4, <4>1, Bounds
      <4> QED
        BY <3>1, <4>1, <4>2
    <3>3. NetType' /\ Returned' /\ Pending' \subseteq Pending \cup {ArpReq, ArpRep}
      BY <1>0, <2>1, <3>1, <3>2 DEF IInv, NetType, Returned, Pending
    <3> QED
      BY <2>1, <3>3, QuietIInv
  <2> QED
    BY <2>2, <2>3, <2>4
<1>3. CASE CtrlC
  <2>1. NetType' /\ Returned' /\ Pending' = Pending /\ pc # "start" /\ UNCHANGED size
    BY <1>0, <1>3 DEF CtrlC, IInv, NetType, Returned, Pending
  <2> QED
    BY <2>1, QuietIInv
<1>4. CASE Tick
  <2>1. /\ timer' \in [who : {"none", "nfs", "startAgain"}, left : 0 .. NFS_TIMEOUT + RESTART_DELAY]
        /\ arp' \in [pkt : {arp'.pkt}, left : 0 .. ARP_TIMEOUT, try : 0 .. ARP_TIMEOUT_COUNT - 1]
        /\ arp'.pkt = arp.pkt
    BY <1>4, Bounds DEF Tick, TimeExpired, ArpExpired, IInv, NetType
  <2>2. NetType' /\ Returned' /\ Pending' = Pending /\ pc # "start" /\ UNCHANGED size
    BY <1>0, <1>4, <2>1 DEF Tick, IInv, NetType, Returned, Pending
  <2> QED
    BY <2>2, QuietIInv
<1>5. CASE AnswerArp
  <2>1. pc = "rx" /\ UNCHANGED loopvars /\ net' = (net \ {ArpReq}) \cup {ArpRep}
    BY <1>5 DEF AnswerArp, Outside
  <2>2. NetType' /\ Returned' /\ UNCHANGED size
        /\ Pending' \subseteq Pending \cup {ArpReq, ArpRep}
    BY <1>0, <2>1 DEF loopvars, IInv, NetType, Returned, Pending
  <2> QED
    BY <2>1, <2>2, QuietIInv
<1>6. ASSUME NEW f, RxArpReply(f) PROVE IInv'
  <2>1. f \in SUBSET net /\ pc = "rx" /\ pc' = "arp" /\ UNCHANGED <<result, NetState, handler, timer, size>>
    BY <1>6, TakesFlight DEF RxArpReply
  <2>2. /\ arp' \in [pkt : {arp'.pkt}, left : 0 .. ARP_TIMEOUT, try : 0 .. ARP_TIMEOUT_COUNT - 1]
        /\ arp'.pkt \in {arp.pkt, NoPacket}
    BY <1>6 DEF RxArpReply, IInv, NetType
  <2>3. net' \subseteq Pending
    BY <1>6, <2>1 DEF RxArpReply, Pending
  <2>4. NetType' /\ Returned' /\ Pending' \subseteq Pending
    BY <1>0, <2>1, <2>2, <2>3 DEF IInv, NetType, Returned, Pending
  <2> QED
    BY <2>1, <2>4, QuietIInv
<1> QED
  BY <1>1, <1>2, <1>3, <1>4, <1>5, <1>6

\* The timeout and the switch on NetState.
LEMMA CheckTimeoutIInv == IInv /\ CheckTimeout => IInv'
<1> SUFFICES ASSUME IInv, CheckTimeout PROVE IInv'
  OBVIOUS
<1>0. pc = "time" /\ UNCHANGED nfsvars /\ nfs' = nfs /\ size' = size /\ Switch
  BY DEF CheckTimeout, nfsvars, Switch
<1>1. /\ UNCHANGED <<handler, arp, net>> /\ NetState' \in {NetState, "FAIL", "RESTART"}
      /\ timer' \in {timer, NoTimer}
  BY DEF CheckTimeout, NoTimeout, NfsTimeout, startAgainTimeout
<1>2. NetState' \in {"CONTINUE", "RESTART", "SUCCESS", "FAIL"}
  BY <1>1 DEF IInv, NetType
<1>3. \/ pc' \in {"rx", "start"} /\ result' = result
      \/ pc' = "done" /\ result' = "size" /\ NetState' = "SUCCESS"
      \/ pc' = "done" /\ result' = "fail"
  BY <1>0, <1>2 DEF Switch
<1>4. NetType'
  BY <1>1, <1>2, <1>3, Bounds DEF IInv, NetType, NoTimer
<1>5. Returned' /\ Pending' = Pending
  BY <1>0, <1>1, <1>2, <1>3 DEF IInv, Returned, Pending
<1> QED
  BY <1>0, <1>4, <1>5, QuietIInv

\* The command is given again.
LEMMA CommandIInv == ASSUME IInv, NEW name \in Wanted, Command(name) PROVE IInv'
<1>1. /\ UNCHANGED <<NetState, handler, timer, size, arp, net, nfs, mem>> /\ pc = "done"
      /\ pc' = "start" /\ result' = "none" /\ bootfile' = name
  BY DEF Command
<1>2. Pending' = Pending
  BY <1>1 DEF Pending
<1>3. Messages' /\ Asked' /\ IsNfs(nfs)'
  BY <1>1, <1>2, QuietMessages
<1>4. NetType' /\ MemType'
  BY <1>1 DEF IInv, NetType, MemType
<1>5. HandlesArePath' /\ PathInv' /\ Read' /\ Returned'
  BY <1>1 DEF IInv, HandlesArePath, PathInv, Read, Returned
<1> QED
  BY <1>3, <1>4, <1>5 DEF IInv

\* A service answers a request it gets.
LEMMA ServeIInv == ASSUME IInv, NEW m \in net, Serve(m) PROVE IInv'
<1>1. /\ pc = "rx" /\ UNCHANGED loopvars /\ UNCHANGED nfsvars /\ m.kind = "CALL"
      /\ \E r \in Replies(m) : net' \subseteq net \cup {r}
  BY DEF Serve, Outside
<1>2. PICK r \in Replies(m) : net' \subseteq net \cup {r}
  BY <1>1
<1>3. m \in Pending /\ Pending' \subseteq Pending \cup {r}
  BY <1>1, <1>2 DEF Pending, loopvars
<1>4. IsCall(m, nfs.id) /\ nfs.id \in Nat
  BY <1>1, <1>3 DEF IInv, Messages, IsPacket, IsReply, ArpReq, ArpRep, IsNfs
<1>5. IsReply(r, nfs.id) /\ r.id = m.id
  BY <1>4, ReplyType
<1>6. Messages'
  BY <1>1, <1>3, <1>5 DEF IInv, Messages, IsPacket, nfsvars
<1>7. Asked'
  <2>1. ASSUME nfs.state # "UMOUNT" PROVE Current(r)
    <3>1. m.id = nfs.id => m = Request(nfs, nfs.id)
      BY <1>1, <1>3, <2>1 DEF IInv, Asked, Current
    <3>2. r.kind = "REPLY"
      BY <1>5 DEF IsReply
    <3>3. r.id = nfs.id => r \in Replies(Request(nfs, nfs.id))
      BY <1>2, <1>5, <3>1
    <3> QED
      BY <3>2, <3>3 DEF Current
  <2>2. ASSUME NEW x, Current(x) PROVE Current(x)'
    BY <1>1, <2>2 DEF Current, nfsvars
  <2> QED
    BY <1>1, <1>3, <2>1, <2>2 DEF IInv, Asked, nfsvars
<1>8. NetType' /\ IsNfs(nfs)' /\ MemType'
  BY <1>1 DEF IInv, NetType, MemType, loopvars, nfsvars
<1>9. HandlesArePath' /\ PathInv' /\ Read' /\ Returned'
  BY <1>1 DEF IInv, HandlesArePath, PathInv, Read, Returned, loopvars, nfsvars
<1> QED
  BY <1>6, <1>7, <1>8, <1>9 DEF IInv

-----------------------------------------------------------------------------
(* NfsHandler.                                                             *)

\* A handler that answers with the request of its next state, n.
LEMMA RxSends ==
  ASSUME IInv, NEW m, NEW flight, Takes(m, flight), UNCHANGED <<bootfile, NetState, handler>>,
         timer' \in {timer, [who |-> "nfs", left |-> NFS_TIMEOUT]},
         NEW n, IsNfs(n), n.id = nfs.id, NfsSend(n, ether, flight),
         n.state = "READ" => n.filefh \in Names /\ n.offset \in Nat,
         n.down = "SUCCESS" => n.state = "UMOUNT", nfs.down = "SUCCESS" => n.down = "SUCCESS"
  PROVE  /\ NetType' /\ Messages' /\ Asked' /\ IsNfs(nfs)' /\ Returned' /\ pc' = "arp"
         /\ nfs'.state = n.state /\ nfs'.dirfh = n.dirfh /\ nfs'.filefh = n.filefh
         /\ nfs'.path = n.path /\ nfs'.offset = n.offset /\ nfs'.down = n.down
<1>1. pc = "rx" /\ pc' = "arp" /\ result' = result /\ flight \in SUBSET net
  BY TakesFlight
<1>2. /\ Messages' /\ Asked' /\ IsNfs(nfs)'
      /\ arp' \in [pkt : {arp'.pkt}, left : 0 .. ARP_TIMEOUT, try : 0 .. ARP_TIMEOUT_COUNT - 1]
      /\ nfs'.state = n.state /\ nfs'.dirfh = n.dirfh /\ nfs'.filefh = n.filefh
      /\ nfs'.path = n.path /\ nfs'.offset = n.offset /\ nfs'.down = n.down
  BY <1>1, Sends
<1>3. NetType'
  BY <1>1, <1>2, Bounds DEF IInv, NetType
<1>4. Returned'
  BY <1>1, <1>2 DEF IInv, Returned
<1> QED
  BY <1>1, <1>2, <1>3, <1>4

\* The same, when nothing is stored.
LEMMA RxSendsIInv ==
  ASSUME IInv, NEW m, NEW flight, Takes(m, flight),
         UNCHANGED <<bootfile, NetState, handler, mem, size>>,
         timer' \in {timer, [who |-> "nfs", left |-> NFS_TIMEOUT]},
         NEW n, IsNfs(n), n.id = nfs.id, NfsSend(n, ether, flight),
         n.path = <<n.path[1], n.path[2]>>,
         n.state \in {"LOOKUP", "READ", "READLINK"} => n.dirfh = n.path[1],
         n.state \in {"READ", "READLINK"} => n.filefh = n.path /\ n.path \in Names,
         n.state = "READLINK" => n.path \in DOMAIN Link,
         n.state = "READ" => n.offset = 0,
         n.state # "UMOUNT" => size = 0,
         n.down = "SUCCESS" => n.state = "UMOUNT", nfs.down = "SUCCESS" => n.down = "SUCCESS"
  PROVE  IInv'
<1>1. /\ NetType' /\ Messages' /\ Asked' /\ IsNfs(nfs)' /\ Returned' /\ pc' = "arp"
      /\ nfs'.state = n.state /\ nfs'.dirfh = n.dirfh /\ nfs'.filefh = n.filefh
      /\ nfs'.path = n.path /\ nfs'.offset = n.offset /\ nfs'.down = n.down
  BY RxSends
<1>2. MemType'
  BY DEF IInv, MemType
<1>3. HandlesArePath' /\ PathInv'
  BY <1>1 DEF HandlesArePath, PathInv
<1>4. Read'
  BY <1>1 DEF Read
<1> QED
  BY <1>1, <1>2, <1>3, <1>4 DEF IInv

\* What NfsHandler finds.
LEMMA HandlesFacts ==
  ASSUME IInv, NEW st \in States \ {"UMOUNT"}, NEW m, NEW flight, Handles(st, m, flight)
  PROVE  /\ m \in net /\ m.kind = "REPLY" /\ Takes(m, flight) /\ UNCHANGED bootfile
         /\ nfs.state = st /\ nfs.down = "FAIL" /\ pc = "rx"
         /\ nfs.path = <<nfs.path[1], nfs.path[2]>>
         /\ st # "READ" => size = 0
         /\ IsReply(m, nfs.id)
<1>1. m.kind = "REPLY" /\ Takes(m, flight) /\ UNCHANGED bootfile /\ nfs.state = st
  BY DEF Handles, Gets
<1>2. m \in net /\ pc = "rx"
  BY <1>1, TakesFlight
<1>3. nfs.down = "FAIL"
  BY <1>1 DEF IInv, Returned, IsNfs
<1>4. nfs.path = <<nfs.path[1], nfs.path[2]>> /\ (st # "READ" => size = 0)
  BY <1>1, <1>2 DEF IInv, PathInv, Read
<1>5. IsReply(m, nfs.id)
  BY <1>1, <1>2 DEF IInv, Messages, IsPacket, IsCall, Pending, ArpReq, ArpRep
<1> QED
  BY <1>1, <1>2, <1>3, <1>4, <1>5

\* A failure, or the end of the file, leads to the unmount.
LEMMA FailedIInv ==
  ASSUME IInv, NEW st \in States \ {"UMOUNT"}, NEW m, NEW flight, Handles(st, m, flight),
         UNCHANGED <<NetState, handler, mem, size>>,
         timer' \in {timer, [who |-> "nfs", left |-> NFS_TIMEOUT]}, NEW n,
         n = Failed \/ n = [Failed EXCEPT !.down = "SUCCESS"], NfsSend(n, ether, flight)
  PROVE  IInv'
<1>1. /\ Takes(m, flight) /\ UNCHANGED bootfile /\ nfs.down = "FAIL"
      /\ nfs.path = <<nfs.path[1], nfs.path[2]>>
  BY HandlesFacts
<1>2. IsNfs(n) /\ n.id = nfs.id /\ n.state = "UMOUNT" /\ n.path = nfs.path
  <2>1. IsNfs(nfs)
    BY DEF IInv
  <2>2. CASE n = Failed
    BY <2>1, <2>2 DEF Failed, IsNfs, States
  <2>3. CASE n = [Failed EXCEPT !.down = "SUCCESS"]
    BY <2>1, <2>3 DEF Failed, IsNfs, States
  <2> QED
    BY <2>2, <2>3
<1> QED
  BY <1>1, <1>2, RxSendsIInv

\* The port mapper has answered.
LEMMA RxPortmapIInv == ASSUME IInv, NEW m, NEW flight, RxPortmap(m, flight) PROVE IInv'
<1>0. UNCHANGED <<NetState, handler, timer, size, mem>>
  BY DEF RxPortmap
<1>1. CASE Handles("PRCLOOKUP_MOUNT", m, flight)
  <2> DEFINE n == [nfs EXCEPT !.state = "PRCLOOKUP_NFS",
                              !.mountPort = IF RpcFails(m) THEN @ ELSE m.val]
  <2>1. /\ m \in net /\ m.kind = "REPLY" /\ Takes(m, flight) /\ UNCHANGED bootfile /\ size = 0
        /\ nfs.state = "PRCLOOKUP_MOUNT" /\ nfs.down = "FAIL"
        /\ nfs.path = <<nfs.path[1], nfs.path[2]>>
    BY <1>1, HandlesFacts DEF States
  <2>2. NfsSend(n, ether, flight)
    BY <1>1, <2>1 DEF RxPortmap, Handles
  <2>3. ~RpcFails(m) => m.val \in Ports \cup {None}
    BY <2>1, Answered DEF RpcFails
  <2>4. IsNfs(n) /\ n.id = nfs.id /\ n.path = nfs.path /\ n.state = "PRCLOOKUP_NFS"
        /\ n.down = nfs.down
    BY <2>3 DEF IInv, IsNfs, States
  <2> HIDE DEF n
  <2> QED
    BY <1>0, <2>1, <2>2, <2>4, RxSendsIInv
<1>2. CASE Handles("PRCLOOKUP_NFS", m, flight)
  <2> DEFINE n == [nfs EXCEPT !.state = "MOUNT", !.nfsPort = IF RpcFails(m) THEN @ ELSE m.val]
  <2>1. /\ m \in net /\ m.kind = "REPLY" /\ Takes(m, flight) /\ UNCHANGED bootfile /\ size = 0
        /\ nfs.state = "PRCLOOKUP_NFS" /\ nfs.down = "FAIL"
        /\ nfs.path = <<nfs.path[1], nfs.path[2]>>
    BY <1>2, HandlesFacts DEF States
  <2>2. NfsSend(n, ether, flight)
    BY <1>2, <2>1 DEF RxPortmap, Handles
  <2>3. ~RpcFails(m) => m.val \in Ports \cup {None}
    BY <2>1, Answered DEF RpcFails
  <2>4. IsNfs(n) /\ n.id = nfs.id /\ n.path = nfs.path /\ n.state = "MOUNT" /\ n.down = nfs.down
    BY <2>3 DEF IInv, IsNfs, States
  <2> HIDE DEF n
  <2> QED
    BY <1>0, <2>1, <2>2, <2>4, RxSendsIInv
<1> QED
  BY <1>1, <1>2 DEF RxPortmap

\* The directory is mounted: its handle is that of the path.
LEMMA RxMountIInv == ASSUME IInv, NEW m, NEW flight, RxMount(m, flight) PROVE IInv'
<1>0. UNCHANGED <<NetState, handler, timer, size, mem>> /\ Handles("MOUNT", m, flight)
  BY DEF RxMount
<1>1. /\ m \in net /\ m.kind = "REPLY" /\ Takes(m, flight) /\ UNCHANGED bootfile /\ size = 0
      /\ nfs.state = "MOUNT" /\ nfs.down = "FAIL" /\ nfs.path = <<nfs.path[1], nfs.path[2]>>
  BY <1>0, HandlesFacts DEF States
<1>2. CASE RpcFails(m)
  <2>1. NfsSend(Failed, ether, flight)
    BY <1>2 DEF RxMount
  <2> QED
    BY <1>0, <2>1, FailedIInv DEF States
<1>3. CASE ~RpcFails(m)
  <2> DEFINE n == [nfs EXCEPT !.state = "LOOKUP", !.mounted = TRUE, !.dirfh = m.val]
  <2>1. NfsSend(n, ether, flight)
    BY <1>3 DEF RxMount
  <2>2. m.val = nfs.path[1]
    BY <1>1, <1>3, Answered DEF RpcFails
  <2>3. IsNfs(n) /\ n.id = nfs.id /\ n.path = nfs.path /\ n.state = "LOOKUP" /\ n.down = nfs.down
        /\ n.dirfh = m.val
    BY DEF IInv, IsNfs, States
  <2> HIDE DEF n
  <2> QED
    BY <1>0, <1>1, <2>1, <2>2, <2>3, RxSendsIInv
<1> QED
  BY <1>2, <1>3

\* The file is found: its handle is the path.
LEMMA RxLookupIInv == ASSUME IInv, NEW m, NEW flight, RxLookup(m, flight) PROVE IInv'
<1>0. UNCHANGED <<NetState, handler, timer, size, mem>> /\ Handles("LOOKUP", m, flight)
  BY DEF RxLookup
<1>1. /\ m \in net /\ m.kind = "REPLY" /\ Takes(m, flight) /\ UNCHANGED bootfile /\ size = 0
      /\ nfs.state = "LOOKUP" /\ nfs.down = "FAIL" /\ nfs.path = <<nfs.path[1], nfs.path[2]>>
  BY <1>0, HandlesFacts DEF States
<1>2. CASE RpcFails(m)
  <2>1. NfsSend(Failed, ether, flight)
    BY <1>2 DEF RxLookup
  <2> QED
    BY <1>0, <2>1, FailedIInv DEF States
<1>3. CASE ~RpcFails(m)
  <2> DEFINE n == [nfs EXCEPT !.state = "READ", !.filefh = m.val, !.offset = 0]
  <2>1. NfsSend(n, ether, flight)
    BY <1>3 DEF RxLookup
  <2>2. m.val \in Names /\ m.val = <<nfs.dirfh, nfs.path[2]>>
    BY <1>1, <1>3, Answered DEF RpcFails
  <2>3. nfs.dirfh = nfs.path[1]
    BY <1>1 DEF IInv, HandlesArePath
  <2>4. m.val = nfs.path
    BY <1>1, <2>2, <2>3
  <2>5. IsNfs(n) /\ n.id = nfs.id /\ n.path = nfs.path /\ n.state = "READ" /\ n.down = nfs.down
        /\ n.dirfh = nfs.dirfh /\ n.filefh = m.val /\ n.offset = 0
    <3>1. IsNfs(nfs) /\ 0 \in -1 .. MemUnits
      BY Bounds DEF IInv
    <3> QED
      BY <3>1 DEF IsNfs, States
  <2> HIDE DEF n
  <2> QED
    BY <1>0, <1>1, <2>1, <2>2, <2>3, <2>4, <2>5, RxSendsIInv
<1> QED
  BY <1>2, <1>3

\* A link leads to a path.
LEMMA LinkPathsType ==
  ASSUME NEW n \in DOMAIN Link, NEW p \in LinkPaths(n)
  PROVE  p \in Paths
<1>1. p = Link[n] \/ (n \in Relative /\ p \in Garbled[n])
  BY DEF LinkPaths
<1>2. Link[n] \in Names
  BY NfsAssumption
<1> QED
  BY <1>1, <1>2 DEF Paths

\* A link is followed: the path is replaced, and the mount begins anew.
LEMMA RxReadlinkIInv == ASSUME IInv, NEW m, NEW flight, RxReadlink(m, flight) PROVE IInv'
<1>0. UNCHANGED <<NetState, handler, timer, size, mem>> /\ Handles("READLINK", m, flight)
  BY DEF RxReadlink
<1>1. /\ m \in net /\ m.kind = "REPLY" /\ Takes(m, flight) /\ UNCHANGED bootfile /\ size = 0
      /\ nfs.state = "READLINK" /\ nfs.down = "FAIL"
  BY <1>0, HandlesFacts DEF States
<1>2. CASE RpcFails(m)
  <2>1. NfsSend(Failed, ether, flight)
    BY <1>2 DEF RxReadlink
  <2> QED
    BY <1>0, <2>1, FailedIInv DEF States
<1>3. CASE ~RpcFails(m)
  <2>1. PICK p \in LinkPaths(m.val) :
               NfsSend([nfs EXCEPT !.state = "MOUNT", !.path = p], ether, flight) /\ Holds(p)
    BY <1>3 DEF RxReadlink
  <2> DEFINE n == [nfs EXCEPT !.state = "MOUNT", !.path = p]
  <2>2. m.val \in DOMAIN Link
    BY <1>1, <1>3, Answered DEF RpcFails, IInv, HandlesArePath, PathInv
  <2>3. p = <<p[1], p[2]>>
    <3>1. p \in Paths
      BY <2>1, <2>2, LinkPathsType
    <3> QED
      BY <3>1, PathsAssumption
  <2>4. IsNfs(n) /\ n.id = nfs.id /\ n.path = p /\ n.state = "MOUNT" /\ n.down = nfs.down
    BY DEF IInv, IsNfs, States
  <2>5. NfsSend(n, ether, flight)
    BY <2>1
  <2> HIDE DEF n
  <2> QED
    BY <1>0, <1>1, <2>3, <2>4, <2>5, RxSendsIInv
<1> QED
  BY <1>2, <1>3

\* The units of a read go behind those read before.
LEMMA StoredIInv ==
  ASSUME IInv, NEW m, NEW flight, Handles("READ", m, flight), ReadResult(m) = "data",
         UNCHANGED <<NetState, handler>>, timer' \in {timer, [who |-> "nfs", left |-> NFS_TIMEOUT]},
         store_block(m), NfsSend([nfs EXCEPT !.offset = @ + m.len], ether, flight)
  PROVE  IInv'
<1> DEFINE n == [nfs EXCEPT !.offset = @ + m.len]
           f == nfs.path
           o == nfs.offset
<1>1. /\ m \in net /\ m.kind = "REPLY" /\ Takes(m, flight) /\ UNCHANGED bootfile
      /\ nfs.state = "READ" /\ nfs.down = "FAIL" /\ f = <<f[1], f[2]>> /\ IsReply(m, nfs.id)
  BY HandlesFacts DEF States
<1>2. m.id = nfs.id /\ m.err = "none" /\ m.len # 0 /\ m.len \in Nat
  BY <1>1 DEF ReadResult, IsReply
<1>3. nfs.filefh = f /\ f \in Names /\ nfs.dirfh = f[1] /\ o \in Nat /\ size = o
      /\ \A i \in 0 .. o - 1 : mem[i] = <<f, i>>
  BY <1>1 DEF IInv, HandlesArePath, PathInv, Read
<1>4. f \in DOMAIN FileLen /\ m.val = <<f, o>> /\ o + m.len <= FileLen[f]
  BY <1>1, <1>2, <1>3, Answered
<1>5. FileLen[f] \in Nat /\ FileLen[f] <= MemUnits
  BY <1>4, NfsAssumption, FilesFit
<1>6. IsNfs(n) /\ n.id = nfs.id /\ n.path = f /\ n.state = "READ" /\ n.down = "FAIL"
      /\ n.dirfh = f[1] /\ n.filefh = f /\ n.offset = o + m.len
  <2>1. o + m.len \in -1 .. MemUnits
    BY <1>2, <1>3, <1>4, <1>5, Bounds
  <2> QED
    BY <1>1, <1>3, <2>1 DEF IInv, IsNfs
<1>7. NfsSend(n, ether, flight)
  OBVIOUS
<1>8. /\ size' = o + m.len
      /\ mem' = [i \in DOMAIN mem |-> IF i \in o .. o + m.len - 1 THEN <<f, o + i - o>> ELSE mem[i]]
  BY <1>2, <1>3, <1>4 DEF store_block
<1> HIDE DEF n
<1>9. /\ NetType' /\ Messages' /\ Asked' /\ IsNfs(nfs)' /\ Returned' /\ pc' = "arp"
      /\ nfs'.state = "READ" /\ nfs'.dirfh = f[1] /\ nfs'.filefh = f
      /\ nfs'.path = f /\ nfs'.offset = o + m.len
  <2>1. n.offset \in Nat
    BY <1>2, <1>3, <1>6
  <2> QED
    BY <1>1, <1>3, <1>6, <1>7, <2>1, RxSends
<1> HIDE DEF f, o
<1>10. mem \in [0 .. MemUnits - 1 -> (Names \X (0 .. MemUnits - 1)) \cup {None}]
       /\ bootfile \in Wanted
  BY DEF IInv, MemType
<1>11. ASSUME NEW i \in 0 .. MemUnits - 1
       PROVE  /\ i \in o .. o + m.len - 1 => mem'[i] = <<f, i>>
              /\ i \notin o .. o + m.len - 1 => mem'[i] = mem[i]
  <2>1. o + i - o = i
    BY <1>3, Bounds
  <2> QED
    BY <1>8, <1>10, <2>1
<1>12. MemType'
  <2>1. size' \in 0 .. MemUnits
    BY <1>2, <1>3, <1>4, <1>5, <1>8, Bounds
  <2>2. ASSUME NEW i \in 0 .. MemUnits - 1
        PROVE  mem'[i] \in (Names \X (0 .. MemUnits - 1)) \cup {None}
    <3>1. CASE i \in o .. o + m.len - 1
      <4>1. mem'[i] = <<f, i>> /\ f \in Names
        BY <1>3, <1>11, <3>1
      <4> QED
        BY <4>1
    <3>2. CASE i \notin o .. o + m.len - 1
      BY <1>10, <1>11, <3>2
    <3> QED
      BY <3>1, <3>2
  <2>3. mem' \in [0 .. MemUnits - 1 -> (Names \X (0 .. MemUnits - 1)) \cup {None}]
    BY <1>8, <1>10, <2>2
  <2> QED
    BY <1>1, <1>10, <2>1, <2>3 DEF MemType
<1>13. ASSUME NEW i \in 0 .. o + m.len - 1 PROVE mem'[i] = <<f, i>>
  <2>1. i \in 0 .. MemUnits - 1
    BY <1>2, <1>3, <1>4, <1>5, Bounds
  <2>2. i \in 0 .. o - 1 \/ i \in o .. o + m.len - 1
    BY <1>2, <1>3
  <2>3. i \in 0 .. o - 1 => i \notin o .. o + m.len - 1
    BY <1>3
  <2> QED
    BY <1>3, <1>11, <2>1, <2>2, <2>3
<1>14. Read'
  <2>1. o + m.len \in Nat
    BY <1>2, <1>3
  <2> QED
    <3>1. ASSUME NEW i \in 0 .. nfs'.offset - 1 PROVE mem'[i] = <<nfs'.path, i>>
      <4>1. i \in 0 .. o + m.len - 1
        BY <1>2, <1>3, <1>9
      <4>2. mem'[i] = <<f, i>>
        BY <1>13, <4>1
      <4> QED
        BY <1>9, <4>2
    <3> QED
      BY <1>4, <1>8, <1>9, <2>1, <3>1 DEF Read
<1>15. HandlesArePath' /\ PathInv'
  BY <1>1, <1>3, <1>9 DEF HandlesArePath, PathInv, f
<1> QED
  BY <1>9, <1>12, <1>14, <1>15 DEF IInv

\* A read has been answered.
LEMMA RxReadIInv == ASSUME IInv, NEW m, NEW flight, RxRead(m, flight) PROVE IInv'
<1>0. /\ UNCHANGED <<NetState, handler>> /\ Handles("READ", m, flight)
      /\ timer' \in {timer, [who |-> "nfs", left |-> NFS_TIMEOUT]}
  BY DEF RxRead, NetSetTimeout
<1>1. /\ m \in net /\ m.kind = "REPLY" /\ Takes(m, flight) /\ UNCHANGED bootfile
      /\ nfs.state = "READ" /\ nfs.down = "FAIL" /\ nfs.path = <<nfs.path[1], nfs.path[2]>>
      /\ IsReply(m, nfs.id)
  BY <1>0, HandlesFacts DEF States
<1>2. ReadResult(m) \in {"data", "link", "end", "error"}
  BY <1>1 DEF ReadResult, IsReply
<1>3. CASE ReadResult(m) = "data"
  BY <1>0, <1>3, StoredIInv DEF RxRead
<1>4. CASE ReadResult(m) = "link"
  <2> DEFINE n == [nfs EXCEPT !.state = "READLINK"]
  <2>1. NfsSend(n, ether, flight) /\ UNCHANGED <<mem, size>>
    BY <1>4 DEF RxRead
  <2>2. m.id = nfs.id /\ m.err = "link"
    BY <1>1, <1>4 DEF ReadResult, IsReply
  <2>3. nfs.filefh \in DOMAIN Link /\ nfs.filefh = nfs.path /\ nfs.path \in Names
        /\ nfs.dirfh = nfs.path[1]
    BY <1>1, <2>2, Answered DEF IInv, HandlesArePath, PathInv
  <2>4. size = 0
    BY <1>1, <2>3, NfsAssumption DEF IInv, Read
  <2>5. IsNfs(n) /\ n.id = nfs.id /\ n.path = nfs.path /\ n.state = "READLINK"
        /\ n.down = "FAIL" /\ n.dirfh = nfs.dirfh /\ n.filefh = nfs.filefh
    BY <1>1 DEF IInv, IsNfs, States
  <2> HIDE DEF n
  <2> QED
    BY <1>0, <1>1, <2>1, <2>3, <2>4, <2>5, RxSendsIInv
<1>5. CASE ReadResult(m) = "end"
  <2>1. NfsSend([Failed EXCEPT !.down = "SUCCESS"], ether, flight) /\ UNCHANGED <<mem, size>>
    BY <1>5 DEF RxRead
  <2> QED
    BY <1>0, <2>1, FailedIInv DEF States
<1>6. CASE ReadResult(m) = "error"
  <2>1. NfsSend(Failed, ether, flight) /\ UNCHANGED <<mem, size>>
    BY <1>6 DEF RxRead
  <2> QED
    BY <1>0, <2>1, FailedIInv DEF States
<1> QED
  BY <1>2, <1>3, <1>4, <1>5, <1>6

\* The unmount has been answered.
LEMMA RxUmountIInv == ASSUME IInv, NEW m, NEW flight, RxUmount(m, flight) PROVE IInv'
<1>1. /\ Takes(m, flight) /\ nfs.state = "UMOUNT" /\ net' = flight
      /\ UNCHANGED <<handler, timer, size, ether, arp, mem, bootfile>>
  BY DEF RxUmount, Handles, Gets
<1>2. pc = "rx" /\ pc' = "arp" /\ result' = result /\ Pending' \subseteq Pending
  BY <1>1, TakesFlight DEF Pending
<1>3. nfs.down \in {"SUCCESS", "FAIL"} /\ IsNfs(nfs)
  BY DEF IInv, IsNfs
<1>4. /\ IsNfs(nfs)' /\ nfs'.state = "UMOUNT" /\ nfs'.id = nfs.id /\ nfs'.path = nfs.path
      /\ nfs'.down = nfs.down /\ NetState' \in {"FAIL", nfs.down}
  <2>1. CASE m.id # nfs.id \/ m.err \in {"rpc", "verifier"}
    <3>1. NetState' = "FAIL" /\ nfs' = nfs
      BY <2>1 DEF RxUmount
    <3> QED
      BY <1>1, <1>3, <3>1
  <2>2. CASE ~(m.id # nfs.id \/ m.err \in {"rpc", "verifier"})
    <3>1. NetState' = nfs.down /\ nfs' = [nfs EXCEPT !.mounted = FALSE, !.dirfh = None]
      BY <2>2 DEF RxUmount
    <3> QED
      BY <1>1, <1>3, <3>1 DEF IsNfs
  <2> QED
    BY <2>1, <2>2
<1>5. Messages' /\ Asked'
  BY <1>2, <1>4 DEF IInv, Messages, Asked
<1>6. NetType' /\ MemType'
  BY <1>1, <1>2, <1>3, <1>4 DEF IInv, NetType, MemType
<1>7. HandlesArePath' /\ PathInv' /\ Read' /\ Returned'
  BY <1>1, <1>2, <1>4 DEF IInv, HandlesArePath, PathInv, Read, Returned
<1> QED
  BY <1>4, <1>5, <1>6, <1>7 DEF IInv

\* The handler that ignores everything.
LEMMA RxIgnoredIInv == ASSUME IInv, NEW m, NEW flight, RxIgnored(m, flight) PROVE IInv'
<1>1. /\ Takes(m, flight) /\ net' = flight
      /\ UNCHANGED <<NetState, handler, timer, size, arp, nfs, longest, mem, cutShort, bootfile>>
  BY DEF RxIgnored, Gets
<1>2. pc = "rx" /\ pc' = "arp" /\ result' = result /\ Pending' \subseteq Pending
  BY <1>1, TakesFlight DEF Pending
<1>3. NetType' /\ Returned'
  BY <1>1, <1>2 DEF IInv, NetType, Returned
<1> QED
  BY <1>1, <1>2, <1>3, QuietIInv DEF nfsvars

-----------------------------------------------------------------------------
(* The theorems.                                                           *)

\* NfsHandler keeps the invariant.
LEMMA ReceiveIInv == ASSUME IInv, NEW m, NEW flight, Receive(m, flight) PROVE IInv'
  BY RxIgnoredIInv, RxPortmapIInv, RxMountIInv, RxLookupIInv, RxReadlinkIInv, RxReadIInv,
     RxUmountIInv DEF Receive

\* Every step keeps the invariant.
LEMMA NextIInv == IInv /\ [Next]_vars => IInv'
<1> SUFFICES ASSUME IInv, [Next]_vars PROVE IInv'
  OBVIOUS
<1>1. CASE NetLoop
  BY <1>1, NfsStartIInv, LoopIInv, CheckTimeoutIInv DEF NetLoop
<1>2. CASE Deliver
  <2>1. PICK m \in net, flight \in SUBSET net :
               (RxArpReply(flight) /\ UNCHANGED nfsvars) \/ Receive(m, flight)
    BY <1>2 DEF Deliver
  <2> QED
    BY <2>1, LoopIInv, ReceiveIInv
<1>3. CASE Server
  BY <1>3, LoopIInv, ServeIInv DEF Server
<1>4. CASE User
  BY <1>4, LoopIInv, CommandIInv DEF User
<1>5. CASE Tick /\ UNCHANGED nfsvars
  BY <1>5, LoopIInv
<1>6. CASE UNCHANGED vars
  <2>1. NetType' /\ IsNfs(nfs)' /\ MemType' /\ Messages' /\ Asked'
    BY <1>6 DEF vars, netvars, loopvars, nfsvars, IInv, NetType, MemType, Messages, Asked,
           Pending,
                Current
  <2>2. HandlesArePath' /\ PathInv' /\ Read' /\ Returned'
    BY <1>6 DEF vars, netvars, loopvars, nfsvars, IInv, HandlesArePath, PathInv, Read, Returned
  <2> QED
    BY <2>1, <2>2 DEF IInv
<1> QED
  BY <1>1, <1>2, <1>3, <1>4, <1>5, <1>6 DEF Next

\* The inductive invariant holds in every state: requests, replies and handles
\* belong together, whatever is lost, repeated or late.
THEOREM Invariance == Spec => []IInv
  BY InitIInv, NextIInv, PTL DEF Spec

\* A path of the buffer has a length.
LEMMA HoldsType ==
  ASSUME BufType, NEW p \in Paths, Holds(p)
  PROVE  longest' \in Nat
<1>1. PathLen[p] \in Nat
  BY PathsAssumption
<1> QED
  BY <1>1 DEF BufType, Holds

\* Every step keeps the types of the path buffer and of the history.
LEMMA NextBufType == IInv /\ BufType /\ [Next]_vars => BufType'
<1> SUFFICES ASSUME IInv, BufType, [Next]_vars PROVE BufType'
  OBVIOUS
<1>1. CASE NfsStart
  <2>1. bootfile \in Paths
    BY NfsAssumption DEF IInv, MemType, Paths
  <2>2. longest' \in Nat
    BY <1>1, <2>1, HoldsType DEF NfsStart
  <2>3. cutShort' \in BOOLEAN
    BY <1>1 DEF NfsStart
  <2> QED
    BY <2>2, <2>3 DEF BufType
<1>2. ASSUME NEW m, NEW flight, RxReadlink(m, flight) PROVE BufType'
  <2>1. cutShort' = cutShort
    BY <1>2 DEF RxReadlink
  <2>2. CASE RpcFails(m)
    BY <1>2, <2>1, <2>2 DEF RxReadlink, BufType
  <2>3. CASE ~RpcFails(m)
    <3>1. PICK p \in LinkPaths(m.val) : Holds(p)
      BY <1>2, <2>3 DEF RxReadlink
    <3>2. m \in net /\ m.kind = "REPLY" /\ nfs.state = "READLINK"
      BY <1>2, HandlesFacts DEF RxReadlink, States
    <3>3. m.val \in DOMAIN Link
      BY <2>3, <3>2, Answered DEF RpcFails, IInv, HandlesArePath, PathInv
    <3>4. p \in Paths
      BY <3>1, <3>3, LinkPathsType
    <3>5. longest' \in Nat
      BY <3>1, <3>4, HoldsType
    <3> QED
      BY <2>1, <3>5 DEF BufType
  <2> QED
    BY <2>2, <2>3
<1>3. ASSUME NEW m, NEW flight, RxRead(m, flight) PROVE BufType'
  <2>1. longest' = longest /\ cutShort' \in {TRUE, cutShort}
    BY <1>3 DEF RxRead
  <2> QED
    BY <2>1 DEF BufType
<1>4. ASSUME NEW m, NEW flight,
             RxIgnored(m, flight) \/ RxPortmap(m, flight) \/ RxMount(m, flight)
             \/ RxLookup(m, flight) \/ RxUmount(m, flight)
      PROVE  BufType'
  <2>1. UNCHANGED <<longest, cutShort>>
    BY <1>4 DEF RxIgnored, RxPortmap, RxMount, RxLookup, RxUmount
  <2> QED
    BY <2>1 DEF BufType
<1>5. CASE UNCHANGED <<longest, cutShort>>
  BY <1>5 DEF BufType
<1>6. CASE Deliver
  <2>1. PICK m \in net, flight \in SUBSET net : UNCHANGED nfsvars \/ Receive(m, flight)
    BY <1>6 DEF Deliver
  <2>2. CASE UNCHANGED nfsvars
    BY <1>5, <2>2 DEF nfsvars
  <2>3. CASE Receive(m, flight)
    BY <1>2, <1>3, <1>4, <2>3 DEF Receive
  <2> QED
    BY <2>1, <2>2, <2>3
<1>7. CASE UNCHANGED nfsvars \/ UNCHANGED vars \/ CheckTimeout \/ Server \/ User
  <2>1. UNCHANGED <<longest, cutShort>>
    BY <1>7 DEF nfsvars, vars, CheckTimeout, Server, Serve, User, Command
  <2> QED
    BY <1>5, <2>1
<1> QED
  BY <1>1, <1>6, <1>7 DEF Next, NetLoop

\* No variable of the loop or of nfs.c leaves its type, for every server and
\* every set of files that fit the memory.
THEOREM TypeCorrect == Spec => []TypeOK
<1>1. IInv /\ BufType => TypeOK
  <2> SUFFICES ASSUME IInv, BufType PROVE TypeOK
    OBVIOUS
  <2>1. /\ timer.who \in {"none", "nfs", "startAgain"}
        /\ timer.left \in 0 .. NFS_TIMEOUT + RESTART_DELAY
        /\ arp.left \in 0 .. ARP_TIMEOUT /\ arp.try \in 0 .. ARP_TIMEOUT_COUNT - 1
    BY DEF IInv, NetType
  <2>2. /\ nfs.state \in States /\ nfs.id \in Nat /\ nfs.offset \in -1 .. MemUnits
        /\ {nfs.mountPort, nfs.nfsPort} \subseteq Ports \cup {None}
        /\ nfs.down \in {"SUCCESS", "FAIL"}
    BY DEF IInv, IsNfs
  <2>3. nfs.mounted \in BOOLEAN
    BY DEF IInv, IsNfs
  <2>4. longest \in Nat
    BY DEF BufType
  <2>5. cutShort \in BOOLEAN
    BY DEF BufType
  <2> QED
    BY <2>1, <2>2, <2>3, <2>4, <2>5 DEF IInv, NetType, MemType, TypeOK, States
<1>2. Init => BufType
  <2>1. Init => longest = 0
    BY DEF Init
  <2>2. Init => cutShort = FALSE
    BY DEF Init
  <2>3. longest = 0 => longest \in Nat
    OBVIOUS
  <2>4. cutShort = FALSE => cutShort \in BOOLEAN
    OBVIOUS
  <2> QED
    BY <2>1, <2>2, <2>3, <2>4 DEF BufType
<1>3. IInv /\ BufType /\ [Next]_vars => BufType'
  BY NextBufType
<1> QED
  BY <1>1, <1>2, <1>3, Invariance, PTL DEF Spec

\* The handles nfs.c reads with are those of the path it holds: no late or
\* repeated answer ever supplies one.
THEOREM HandlesMatch == Spec => []HandlesArePath
<1>1. IInv => HandlesArePath
  BY DEF IInv
<1> QED
  BY <1>1, Invariance, PTL

\* Once the download counts as a success nothing is written any more.
THEOREM SettledStays == Spec => NoLateWrite
<1> DEFINE A == nfs.down = "SUCCESS" /\ nfs'.down = "SUCCESS" => UNCHANGED <<mem, size>>
<1>1. IInv /\ [Next]_vars => [A]_vars
  <2> SUFFICES ASSUME IInv, Next, nfs.down = "SUCCESS", nfs'.down = "SUCCESS"
               PROVE  UNCHANGED <<mem, size>>
    OBVIOUS
  <2>0. nfs.state = "UMOUNT"
    BY DEF IInv, Returned
  <2>1. CASE NfsStart
    <3> DEFINE n == [nfs EXCEPT !.state = "PRCLOOKUP_MOUNT", !.down = "FAIL", !.path = bootfile]
    <3>1. IsNfs(n) /\ n.id = nfs.id /\ n.down = "FAIL" /\ n.state # "READ"
      BY DEF IInv, IsNfs, States
    <3>2. NfsSend(n, FALSE, net)
      BY <2>1 DEF NfsStart
    <3>3. nfs'.down = n.down
      <4> HIDE DEF n
      <4> QED
        BY <3>1, <3>2, Sends
    <3> QED
      BY <3>1, <3>3
  <2>2. CASE ((RxNothing \/ ArpTimeoutCheck) /\ UNCHANGED nfsvars) \/ CheckTimeout
    BY <2>2 DEF RxNothing, ArpTimeoutCheck, CheckTimeout, Switch, nfsvars
  <2>3. CASE Deliver
    <3>1. PICK m \in net, flight \in SUBSET net :
                 (RxArpReply(flight) /\ UNCHANGED nfsvars) \/ Receive(m, flight)
      BY <2>3 DEF Deliver
    <3>2. CASE RxArpReply(flight) /\ UNCHANGED nfsvars
      BY <3>2 DEF RxArpReply, nfsvars
    <3>3. CASE RxIgnored(m, flight) \/ RxUmount(m, flight)
      BY <3>3 DEF RxIgnored, RxUmount
    <3>4. ~(RxPortmap(m, flight) \/ RxMount(m, flight) \/ RxLookup(m, flight)
            \/ RxReadlink(m, flight) \/ RxRead(m, flight))
      BY <2>0 DEF RxPortmap, RxMount, RxLookup, RxReadlink, RxRead, Handles
    <3> QED
      BY <3>1, <3>2, <3>3, <3>4 DEF Receive
  <2>4. CASE Server
    BY <2>4 DEF Server, AnswerArp, Serve, Outside, loopvars, nfsvars
  <2>5. CASE User
    BY <2>5 DEF User, CtrlC, Command, nfsvars
  <2>6. CASE Tick /\ UNCHANGED nfsvars
    BY <2>6 DEF Tick, nfsvars
  <2> QED
    BY <2>1, <2>2, <2>3, <2>4, <2>5, <2>6 DEF Next, NetLoop
<1> QED
  BY <1>1, Invariance, PTL DEF Spec, NoLateWrite

-----------------------------------------------------------------------------
(* Links.                                                                  *)

\* Sets of names that hold the target of every link they hold, and what every
\* such set with n in it has.
Closed(S) == S \subseteq Names /\ \A x \in S \cap DOMAIN Link : Link[x] \in S
Reach(n) == {x \in Names : \A S \in SUBSET Names : Closed(S) /\ n \in S => x \in S}

\* From a link one reaches the link and what its target reaches; from a file
\* only the file.
LEMMA ReachOf ==
  ASSUME NEW n \in Names
  PROVE  /\ n \in DOMAIN Link => Link[n] \in Names /\ Reach(n) = {n} \cup Reach(Link[n])
         /\ n \notin DOMAIN Link => Reach(n) = {n}
<1>1. ASSUME n \in DOMAIN Link PROVE Link[n] \in Names /\ Reach(n) = {n} \cup Reach(Link[n])
  <2>1. Link[n] \in Names
    BY <1>1, NfsAssumption
  <2>2. ASSUME NEW x \in Reach(n), x # n PROVE x \in Reach(Link[n])
    <3> SUFFICES ASSUME NEW S \in SUBSET Names, Closed(S), Link[n] \in S PROVE x \in S
      BY DEF Reach
    <3>1. Closed(S \cup {n}) /\ S \cup {n} \in SUBSET Names
      BY <1>1 DEF Closed
    <3> QED
      BY <2>2, <3>1 DEF Reach
  <2>3. ASSUME NEW x \in Reach(Link[n]) PROVE x \in Reach(n)
    <3> SUFFICES ASSUME NEW S \in SUBSET Names, Closed(S), n \in S PROVE x \in S
      BY DEF Reach
    <3>1. Link[n] \in S
      BY <1>1 DEF Closed
    <3> QED
      BY <3>1 DEF Reach
  <2>4. n \in Reach(n)
    BY DEF Reach
  <2> QED
    BY <2>1, <2>2, <2>3, <2>4
<1>2. ASSUME n \notin DOMAIN Link PROVE Reach(n) = {n}
  <2>1. Closed({n}) /\ {n} \in SUBSET Names
    BY <1>2 DEF Closed
  <2> QED
    BY <2>1 DEF Reach
<1> QED
  BY <1>1, <1>2

\* The definition of Resolved can be met, links in a circle or not.
LEMMA ResolvedDef ==
  /\ Resolved = [n \in Names |-> IF n \in DOMAIN Link THEN Resolved[Link[n]] ELSE n]
  /\ \A n \in Names : Resolved[n] = IF n \in DOMAIN Link THEN Resolved[Link[n]] ELSE n
<1> DEFINE Ends(n) == {x \in Reach(n) : x \notin DOMAIN Link}
           g == [n \in Names |-> CHOOSE x : x \in Ends(n)]
           R(f) == f = [n \in Names |-> IF n \in DOMAIN Link THEN f[Link[n]] ELSE n]
<1>1. ASSUME NEW n \in Names PROVE g[n] = IF n \in DOMAIN Link THEN g[Link[n]] ELSE n
  <2>1. CASE n \in DOMAIN Link
    <3>1. Link[n] \in Names /\ Ends(n) = Ends(Link[n])
      BY <2>1, ReachOf
    <3> HIDE DEF Ends
    <3> QED
      BY <2>1, <3>1
  <2>2. CASE n \notin DOMAIN Link
    <3>1. Ends(n) = {n}
      BY <2>2, ReachOf
    <3> HIDE DEF Ends
    <3> QED
      BY <2>2, <3>1
  <2> QED
    BY <2>1, <2>2
<1>2. R(g)
  <2> HIDE DEF g
  <2>1. g = [n \in Names |-> g[n]]
    BY DEF g
  <2> QED
    BY <1>1, <2>1
<1>3. Resolved = CHOOSE f : R(f)
  BY DEF Resolved
<1> HIDE DEF R, g
<1>4. R(Resolved)
  BY <1>2, <1>3
<1> QED
  BY <1>4 DEF R

\* A link whose text is terminated where it ends, whatever the buffer held.
Fits(n) == n \in Relative => PathLen[n] = PathLen[Link[n]]

\* And so can that of Proper.
LEMMA ProperDef ==
  \A n \in Names : Proper[n] = (n \in DOMAIN Link => Fits(n) /\ Proper[Link[n]])
<1> DEFINE g == [n \in Names |-> \A x \in Reach(n) : Fits(x)]
           R(f) == f = [n \in Names |-> n \in DOMAIN Link => Fits(n) /\ f[Link[n]]]
<1>1. ASSUME NEW n \in Names
      PROVE  g[n] = (n \in DOMAIN Link => Fits(n) /\ g[Link[n]])
  <2>1. CASE n \in DOMAIN Link
    <3>1. Link[n] \in Names /\ Reach(n) = {n} \cup Reach(Link[n])
      BY <2>1, ReachOf
    <3> QED
      BY <2>1, <3>1
  <2>2. CASE n \notin DOMAIN Link
    <3>1. Reach(n) = {n} /\ Fits(n)
      BY <2>2, ReachOf, NfsAssumption DEF Fits
    <3> QED
      BY <2>2, <3>1
  <2> QED
    BY <2>1, <2>2
<1>2. R(g)
  <2> HIDE DEF g
  <2>1. g = [n \in Names |-> g[n]]
    BY DEF g
  <2> QED
    BY <1>1, <2>1
<1>3. Proper = CHOOSE f : R(f)
  BY DEF Proper, Fits
<1> HIDE DEF R, g
<1>4. R(Proper)
  BY <1>2, <1>3
<1> QED
  BY <1>4 DEF R

-----------------------------------------------------------------------------
(* What was loaded.                                                        *)

\* What NfsSend keeps of the variables it is given.
LEMMA SendKeeps ==
  ASSUME IInv, NEW n, DOMAIN n = DOMAIN nfs, NEW known, NEW flight, NfsSend(n, known, flight)
  PROVE  nfs'.path = n.path /\ nfs'.down = n.down
<1>1. "path" \in DOMAIN n /\ "down" \in DOMAIN n
  BY DEF IInv, IsNfs
<1> QED
  BY <1>1 DEF NfsSend

\* Steps that change neither path nor memory.
LEMMA KeepsLoad ==
  ASSUME LoadInv, pc # "start", UNCHANGED <<bootfile, mem, size, cutShort>>,
         nfs'.path = nfs.path, nfs'.down = nfs.down \/ nfs'.down = "FAIL"
  PROVE  LoadInv'
  BY DEF LoadInv, Followed, Complete

\* The answers that bring no data: the ports, the handles and all failures.
LEMMA RxKeepsLoad ==
  ASSUME IInv, LoadInv, NEW m, NEW flight,
         RxIgnored(m, flight) \/ RxPortmap(m, flight) \/ RxMount(m, flight)
         \/ RxLookup(m, flight) \/ RxUmount(m, flight)
  PROVE  LoadInv'
<1>1. Takes(m, flight) /\ UNCHANGED <<bootfile, mem, size, cutShort>> /\ pc = "rx"
  BY DEF RxIgnored, RxPortmap, RxMount, RxLookup, RxUmount, Handles, Gets, Takes
<1>2. {"path", "down"} \subseteq DOMAIN nfs
  BY DEF IInv, IsNfs
<1>3. ASSUME NEW n, DOMAIN n = DOMAIN nfs, NfsSend(n, ether, flight), n.path = nfs.path,
             n.down = nfs.down
      PROVE  LoadInv'
  BY <1>1, <1>3, SendKeeps, KeepsLoad
<1>4. CASE RxIgnored(m, flight)
  BY <1>1, <1>4, KeepsLoad DEF RxIgnored
<1>5. CASE RxPortmap(m, flight)
  <2> DEFINE n1 == [nfs EXCEPT !.state = "PRCLOOKUP_NFS",
                               !.mountPort = IF RpcFails(m) THEN @ ELSE m.val]
             n2 == [nfs EXCEPT !.state = "MOUNT", !.nfsPort = IF RpcFails(m) THEN @ ELSE m.val]
  <2>1. NfsSend(n1, ether, flight) \/ NfsSend(n2, ether, flight)
    BY <1>5 DEF RxPortmap
  <2>2. DOMAIN n1 = DOMAIN nfs /\ n1.path = nfs.path /\ n1.down = nfs.down
    BY <1>2
  <2>3. DOMAIN n2 = DOMAIN nfs /\ n2.path = nfs.path /\ n2.down = nfs.down
    BY <1>2
  <2> HIDE DEF n1, n2
  <2> QED
    BY <1>3, <2>1, <2>2, <2>3
<1>6. CASE RxMount(m, flight)
  <2> DEFINE n == IF RpcFails(m) THEN Failed
                  ELSE [nfs EXCEPT !.state = "LOOKUP", !.mounted = TRUE, !.dirfh = m.val]
  <2>1. NfsSend(n, ether, flight)
    BY <1>6 DEF RxMount
  <2>2. DOMAIN n = DOMAIN nfs /\ n.path = nfs.path /\ n.down = nfs.down
    BY <1>2 DEF Failed
  <2> HIDE DEF n
  <2> QED
    BY <1>3, <2>1, <2>2
<1>7. CASE RxLookup(m, flight)
  <2> DEFINE n == IF RpcFails(m) THEN Failed
                  ELSE [nfs EXCEPT !.state = "READ", !.filefh = m.val, !.offset = 0]
  <2>1. NfsSend(n, ether, flight)
    BY <1>7 DEF RxLookup
  <2>2. DOMAIN n = DOMAIN nfs /\ n.path = nfs.path /\ n.down = nfs.down
    BY <1>2 DEF Failed
  <2> HIDE DEF n
  <2> QED
    BY <1>3, <2>1, <2>2
<1>8. CASE RxUmount(m, flight)
  <2>1. nfs'.path = nfs.path /\ nfs'.down = nfs.down
    BY <1>2, <1>8 DEF RxUmount
  <2> QED
    BY <1>1, <2>1, KeepsLoad
<1> QED
  BY <1>4, <1>5, <1>6, <1>7, <1>8

\* A link is followed to its target, unless the text of the link is garbled.
LEMMA RxReadlinkLoad ==
  ASSUME IInv, LoadInv, NEW m, NEW flight, RxReadlink(m, flight)
  PROVE  LoadInv'
<1>0. /\ m \in net /\ m.kind = "REPLY" /\ Takes(m, flight) /\ pc = "rx" /\ pc' = "arp"
      /\ UNCHANGED <<bootfile, mem, size, cutShort>> /\ nfs.state = "READLINK" /\ nfs.down = "FAIL"
  BY HandlesFacts, TakesFlight DEF RxReadlink, States
<1>1. {"path", "down"} \subseteq DOMAIN nfs
  BY DEF IInv, IsNfs
<1>2. CASE RpcFails(m)
  <2>1. NfsSend(Failed, ether, flight)
    BY <1>2 DEF RxReadlink
  <2>2. DOMAIN Failed = DOMAIN nfs /\ Failed.path = nfs.path /\ Failed.down = nfs.down
    BY <1>1 DEF Failed
  <2> QED
    BY <1>0, <2>1, <2>2, SendKeeps, KeepsLoad
<1>3. CASE ~RpcFails(m)
  <2>1. PICK p \in LinkPaths(m.val) :
               NfsSend([nfs EXCEPT !.state = "MOUNT", !.path = p], ether, flight) /\ Holds(p)
    BY <1>3 DEF RxReadlink
  <2> DEFINE n == [nfs EXCEPT !.state = "MOUNT", !.path = p]
  <2>2. DOMAIN n = DOMAIN nfs /\ n.path = p /\ n.down = nfs.down
    BY <1>1
  <2>3. NfsSend(n, ether, flight)
    BY <2>1
  <2> HIDE DEF n
  <2>4. nfs'.path = p /\ nfs'.down = "FAIL"
    BY <1>0, <2>2, <2>3, SendKeeps
  <2>5. m.val = nfs.path /\ nfs.path \in DOMAIN Link /\ nfs.path \in Names
    BY <1>0, <1>3, Answered DEF RpcFails, IInv, HandlesArePath, PathInv
  <2>6. ASSUME Proper[bootfile]
        PROVE  p \in Names /\ Proper[p] /\ Resolved[p] = Resolved[bootfile]
    <3>1. Proper[nfs.path] /\ Resolved[nfs.path] = Resolved[bootfile]
      BY <1>0, <2>6 DEF LoadInv, Followed
    <3>2. Fits(nfs.path) /\ Proper[Link[nfs.path]]
      BY <2>5, <3>1, ProperDef
    <3>3. p = Link[nfs.path]
      BY <2>1, <2>5, <3>2 DEF LinkPaths, Fits
    <3>3a. p \in Names
      BY <2>5, <3>3, NfsAssumption
    <3>4. Resolved[nfs.path] = Resolved[p]
      BY <2>5, <3>3, ResolvedDef
    <3> QED
      BY <3>1, <3>2, <3>3, <3>3a, <3>4
  <2> QED
    BY <1>0, <2>4, <2>6 DEF LoadInv, Followed
<1> QED
  BY <1>2, <1>3

\* A read ends at the end of the file.
LEMMA RxReadLoad ==
  ASSUME IInv, LoadInv, NEW m, NEW flight, RxRead(m, flight)
  PROVE  LoadInv'
<1>0. /\ m \in net /\ m.kind = "REPLY" /\ Takes(m, flight) /\ pc = "rx" /\ pc' = "arp"
      /\ UNCHANGED bootfile /\ nfs.state = "READ" /\ nfs.down = "FAIL" /\ IsReply(m, nfs.id)
  BY HandlesFacts, TakesFlight DEF RxRead, States
<1>1. {"path", "down"} \subseteq DOMAIN nfs
  BY DEF IInv, IsNfs
<1>2. ReadResult(m) \in {"data", "link", "end", "error"}
  BY <1>0 DEF ReadResult, IsReply
<1>3. ASSUME NEW n, DOMAIN n = DOMAIN nfs, NfsSend(n, ether, flight), n.path = nfs.path,
             n.down = nfs.down
      PROVE  LoadInv'
  <2>1. nfs'.path = nfs.path /\ nfs'.down = "FAIL"
    BY <1>0, <1>3, SendKeeps
  <2> QED
    BY <1>0, <2>1 DEF LoadInv, Followed
<1>4. CASE ReadResult(m) = "data"
  <2> DEFINE n == [nfs EXCEPT !.offset = @ + m.len]
  <2>1. NfsSend(n, ether, flight)
    BY <1>4 DEF RxRead
  <2>2. DOMAIN n = DOMAIN nfs /\ n.path = nfs.path /\ n.down = nfs.down
    BY <1>1
  <2> HIDE DEF n
  <2> QED
    BY <1>3, <2>1, <2>2
<1>5. CASE ReadResult(m) = "link"
  <2> DEFINE n == [nfs EXCEPT !.state = "READLINK"]
  <2>1. NfsSend(n, ether, flight)
    BY <1>5 DEF RxRead
  <2>2. DOMAIN n = DOMAIN nfs /\ n.path = nfs.path /\ n.down = nfs.down
    BY <1>1
  <2> HIDE DEF n
  <2> QED
    BY <1>3, <2>1, <2>2
<1>6. CASE ReadResult(m) = "error"
  <2>1. NfsSend(Failed, ether, flight)
    BY <1>6 DEF RxRead
  <2>2. DOMAIN Failed = DOMAIN nfs /\ Failed.path = nfs.path /\ Failed.down = nfs.down
    BY <1>1 DEF Failed
  <2> QED
    BY <1>3, <2>1, <2>2
<1>7. CASE ReadResult(m) = "end"
  <2> DEFINE n == [Failed EXCEPT !.down = "SUCCESS"]
             f == nfs.path
  <2>1. NfsSend(n, ether, flight) /\ UNCHANGED <<mem, size>>
    BY <1>7 DEF RxRead
  <2>2. DOMAIN n = DOMAIN nfs /\ n.path = f
    BY <1>1 DEF Failed
  <2>3. nfs'.path = f
    <3> HIDE DEF n
    <3> QED
      BY <2>1, <2>2, SendKeeps
  <2>4. m.id = nfs.id /\ ((m.err = "none" /\ m.len = 0) \/ m.err = "verifier")
    BY <1>0, <1>7 DEF ReadResult, IsReply
  <2>5. nfs.filefh = f /\ f \in Names /\ nfs.offset \in Nat /\ size = nfs.offset
        /\ (nfs.offset > 0 => nfs.offset <= FileLen[f])
        /\ \A i \in 0 .. nfs.offset - 1 : mem[i] = <<f, i>>
    BY <1>0 DEF IInv, HandlesArePath, PathInv, Read
  <2>6. CASE m.err = "verifier"
    <3>1. cutShort'
      BY <1>7, <2>6 DEF RxRead
    <3> QED
      BY <1>0, <2>1, <2>3, <2>5, <3>1 DEF LoadInv, Followed, Complete
  <2>7. CASE m.err = "none" /\ m.len = 0
    <3>1. f \in DOMAIN FileLen /\ nfs.offset >= FileLen[f]
      BY <1>0, <2>4, <2>5, <2>7, Answered
    <3>2. FileLen[f] \in Nat
      BY <3>1, NfsAssumption
    <3>3. nfs.offset = FileLen[f]
      BY <2>5, <3>1, <3>2
    <3> QED
      BY <1>0, <2>1, <2>3, <2>5, <3>1, <3>3 DEF LoadInv, Followed, Complete
  <2> QED
    BY <2>4, <2>6, <2>7
<1> QED
  BY <1>2, <1>4, <1>5, <1>6, <1>7

\* Every step keeps what was loaded.
LEMMA NextLoad == IInv /\ LoadInv /\ [Next]_vars => LoadInv'
<1> SUFFICES ASSUME IInv, LoadInv, [Next]_vars PROVE LoadInv'
  OBVIOUS
<1>1. CASE NfsStart
  <2> DEFINE n == [nfs EXCEPT !.state = "PRCLOOKUP_MOUNT", !.down = "FAIL", !.path = bootfile]
  <2>1. DOMAIN n = DOMAIN nfs /\ n.path = bootfile /\ n.down = "FAIL"
    BY DEF IInv, IsNfs
  <2>2. NfsSend(n, FALSE, net) /\ UNCHANGED bootfile
    BY <1>1 DEF NfsStart
  <2> HIDE DEF n
  <2>3. nfs'.path = bootfile /\ nfs'.down = "FAIL"
    BY <2>1, <2>2, SendKeeps
  <2>4. bootfile \in Names
    BY NfsAssumption DEF IInv, MemType
  <2> QED
    BY <2>2, <2>3, <2>4 DEF LoadInv, Followed
<1>2. CASE ((RxNothing \/ ArpTimeoutCheck \/ CtrlC \/ Tick) /\ UNCHANGED nfsvars) \/ CheckTimeout
  <2>1. UNCHANGED nfsvars /\ UNCHANGED size /\ pc # "start"
    BY <1>2 DEF RxNothing, ArpTimeoutCheck, CheckTimeout, CtrlC, Tick, Switch
  <2> QED
    BY <2>1, KeepsLoad DEF nfsvars
<1>3. CASE Deliver
  <2>1. PICK m \in net, flight \in SUBSET net :
               (RxArpReply(flight) /\ UNCHANGED nfsvars) \/ Receive(m, flight)
    BY <1>3 DEF Deliver
  <2>2. CASE RxArpReply(flight) /\ UNCHANGED nfsvars
    BY <2>2, KeepsLoad DEF RxArpReply, Takes, nfsvars
  <2>3. CASE Receive(m, flight)
    BY <2>3, RxKeepsLoad, RxReadlinkLoad, RxReadLoad DEF Receive
  <2> QED
    BY <2>1, <2>2, <2>3
<1>4. CASE Server
  <2>1. UNCHANGED nfsvars /\ UNCHANGED size /\ pc = "rx"
    BY <1>4 DEF Server, AnswerArp, Serve, Outside, loopvars
  <2> QED
    BY <2>1, KeepsLoad DEF nfsvars
<1>5. ASSUME NEW name, Command(name) PROVE LoadInv'
  BY <1>5 DEF Command, LoadInv, Followed
<1>6. CASE UNCHANGED vars
  BY <1>6 DEF vars, netvars, loopvars, nfsvars, LoadInv, Followed, Complete
<1> QED
  BY <1>1, <1>2, <1>3, <1>4, <1>5, <1>6 DEF Next, NetLoop, User

\* When NetLoop returns a size, memory holds that many units of the file whose
\* path the client holds, all of it unless a refused verifier was taken for the
\* end, and that path is where the name given leads unless a relative link of
\* another length lies on the way: for every tree of files and links that fit,
\* every server, and whatever is lost, repeated, late or left over.
THEOREM LoadCorrect == Spec => []LoadedIsFile
<1>1. Init => LoadInv
  BY DEF Init, NetInit, LoadInv, Followed
<1>2. IInv /\ LoadInv => LoadedIsFile
  <2> SUFFICES ASSUME IInv, LoadInv, result = "size" PROVE LoadedIsFile
    BY DEF LoadedIsFile
  <2>1. pc = "done" /\ nfs.down = "SUCCESS"
    BY DEF IInv, Returned
  <2> QED
    BY <2>1 DEF LoadInv, Followed, Complete, LoadedIsFile
<1> QED
  BY <1>1, <1>2, Invariance, NextLoad, PTL DEF Spec

=============================================================================
