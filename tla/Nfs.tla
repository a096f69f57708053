--------------------------------- MODULE Nfs ---------------------------------
(***************************************************************************)
(* Loading a file with NFS: the client of net/nfs.c in the receive loop of *)
(* net/net.c (module Net), with a server and a network that loses,         *)
(* duplicates, delays and reorders packets.  The client asks the port      *)
(* mapper for two ports, mounts the directory, looks the file up, reads it *)
(* until a read returns nothing, and unmounts.  It sends nothing twice; a  *)
(* symbolic link sends it back to the mount.                               *)
(*                                                                         *)
(* A name is a path as it is spelt: a pair of a directory and a base name. *)
(* The handle of a file is its name.  Files are read in units; unit i of   *)
(* file f is <<f, i>>.  All loads use the same port of ours, so that       *)
(* answers to an earlier load reach the handler.                           *)
(***************************************************************************)
EXTENDS Net

CONSTANTS
    Names,        \* the names the server knows
    FileLen,      \* FileLen[f]: units of the file f
    Link,         \* Link[n]: the name the symbolic link n stands for
    Relative,     \* the links whose text does not begin with a slash
    Garbled,      \* Garbled[n]: what the name a relative link n stands for becomes
                  \* with one stray character behind it
    PathLen,      \* PathLen[n]: the length of the path n, in characters
    Wanted,       \* names the command nfs is given
    NFS_READ_SIZE,\* in units
    MemUnits,     \* memory behind load_addr, in units
    NFS_TIMEOUT,  \* in ticks (60 s)
    Errors,       \* errors a service reports, with the procedure called
    None          \* no port, no handle, memory never written

Procedures == {"GETPORT", "MNT", "UMNTALL", "LOOKUP", "READ", "READLINK"}

ASSUME NfsAssumption ==
    /\ DOMAIN FileLen = Names \ DOMAIN Link
    /\ \A f \in DOMAIN FileLen : FileLen[f] \in Nat
    /\ \A n \in DOMAIN Link : Link[n] \in Names
    /\ Relative \subseteq DOMAIN Link
    /\ DOMAIN Garbled = Relative
    /\ Wanted \subseteq Names
    /\ NFS_READ_SIZE \in Nat \ {0}
    /\ MemUnits \in Nat
    /\ NFS_TIMEOUT \in Nat \ {0}
    /\ Errors \subseteq Procedures \X {"rpc", "nfs", "verifier"}

\* The paths the buffer may come to hold: names, and names with a stray character.
Paths == Names \cup UNION {Garbled[n] : n \in Relative}

\* Paths are pairs, and have a length.
ASSUME PathsAssumption ==
    /\ \A p \in Paths : p = <<p[1], p[2]>> /\ PathLen[p] \in Nat
    /\ \A n \in Relative : \A p \in Garbled[n] : PathLen[p] = PathLen[Link[n]] + 1

\* There is memory for every file; nfs.c does not look.
ASSUME FilesFit == \A f \in DOMAIN FileLen : FileLen[f] <= MemUnits

VARIABLES
    nfs,        \* the static variables of nfs.c
    longest,    \* nfs_path_buff: the length of the longest path it has held
    bootfile,   \* BootFile
    mem,        \* what the memory at load_addr holds, by unit
    cutShort    \* history: a refused verifier has ended the reads of this load

nfsvars == <<nfs, longest, bootfile, mem, cutShort>>
vars == <<netvars, nfsvars>>

SUNRPC_PORT == "portmap"
MountPort == "mountd"
NfsPort == "nfsd"
Ports == {SUNRPC_PORT, MountPort, NfsPort}

-----------------------------------------------------------------------------
(* Requests.                                                               *)

Call(id, proc, port, arg) ==
    [kind |-> "CALL", id |-> id, proc |-> proc, port |-> port, arg |-> arg]

\* The request of the state n is in, with identifier id.
Request(n, id) ==
    CASE n.state = "PRCLOOKUP_MOUNT" -> Call(id, "GETPORT", SUNRPC_PORT, MountPort)
      [] n.state = "PRCLOOKUP_NFS"   -> Call(id, "GETPORT", SUNRPC_PORT, NfsPort)
      [] n.state = "MOUNT"    -> Call(id, "MNT", n.mountPort, n.path[1])
      [] n.state = "UMOUNT"   -> Call(id, "UMNTALL", n.mountPort, None)
      [] n.state = "LOOKUP"   -> Call(id, "LOOKUP", n.nfsPort, <<n.dirfh, n.path[2]>>)
      [] n.state = "READ"     -> Call(id, "READ", n.nfsPort, <<n.filefh, n.offset>>)
      [] n.state = "READLINK" -> Call(id, "READLINK", n.nfsPort, n.filefh)

\* NfsSend once the variables of nfs.c are n.  Nothing is sent to unmount what
\* is not mounted, and rpc_id stays what it is.
NfsSend(n, known, flight) ==
    IF n.state = "UMOUNT" /\ ~n.mounted
    THEN nfs' = n /\ net' = flight /\ UNCHANGED arp
    ELSE /\ nfs' = [n EXCEPT !.id = @ + 1]
         /\ NetSendUDPPacket(Request(n, n.id + 1), known, flight)

\* The buffer comes to hold the path p; what lies behind it stays.
Holds(p) == longest' = IF longest < PathLen[p] THEN PathLen[p] ELSE longest

\* NetLoop from the label restart: NfsStart.
NfsStart ==
    /\ Restart
    /\ NetSetTimeout(NFS_TIMEOUT, "nfs")
    /\ handler' = "nfs"
    /\ ether' = FALSE
    /\ NfsSend([nfs EXCEPT !.state = "PRCLOOKUP_MOUNT", !.down = "FAIL",
                           !.path = bootfile], FALSE, net)
    /\ Holds(bootfile)
    /\ cutShort' = FALSE
    /\ UNCHANGED <<bootfile, mem>>

\* The user gives the command nfs again, perhaps with another name.
Command(name) ==
    /\ pc = "done"
    /\ MayStart
    /\ pc' = "start"
    /\ result' = "none"
    /\ bootfile' = name
    /\ UNCHANGED <<netretry, NetState, handler, timer, size, ether, arp, net,
                   attempts, faults, nfs, longest, mem, cutShort>>

-----------------------------------------------------------------------------
(* NfsHandler, called by eth_rx.                                           *)

Gets(m, flight) ==
    /\ Takes(m, flight)
    /\ m.kind = "REPLY"
    /\ UNCHANGED bootfile

\* startAgainHandler.
RxIgnored(m, flight) ==
    /\ Gets(m, flight)
    /\ handler = "startAgain"
    /\ net' = flight
    /\ UNCHANGED <<NetState, handler, timer, size, ether, arp, nfs, longest, mem, cutShort>>

\* NfsHandler in state st.
Handles(st, m, flight) ==
    /\ Gets(m, flight)
    /\ handler = "nfs"
    /\ nfs.state = st

\* Mutant: the identifier of a reply is not compared.
RpcFailsAnyId(m) == m.err # "none"

\* A reply is refused: it is not the answer to the last request, or an error.
RpcFails(m) == m.id # nfs.id \/ m.err # "none"

\* Whatever the reply is, the client goes on; a port it has not learnt keeps its
\* old value.
RxPortmap(m, flight) ==
    /\ \/ /\ Handles("PRCLOOKUP_MOUNT", m, flight)
          /\ NfsSend([nfs EXCEPT !.state = "PRCLOOKUP_NFS",
                                 !.mountPort = IF RpcFails(m) THEN @ ELSE m.val],
                     ether, flight)
       \/ /\ Handles("PRCLOOKUP_NFS", m, flight)
          /\ NfsSend([nfs EXCEPT !.state = "MOUNT",
                                 !.nfsPort = IF RpcFails(m) THEN @ ELSE m.val],
                     ether, flight)
    /\ UNCHANGED <<NetState, handler, timer, size, ether, longest, mem, cutShort>>

\* Every failure ends in the unmount.
Failed == [nfs EXCEPT !.state = "UMOUNT"]

RxMount(m, flight) ==
    /\ Handles("MOUNT", m, flight)
    /\ NfsSend(IF RpcFails(m) THEN Failed
               ELSE [nfs EXCEPT !.state = "LOOKUP", !.mounted = TRUE, !.dirfh = m.val],
               ether, flight)
    /\ UNCHANGED <<NetState, handler, timer, size, ether, longest, mem, cutShort>>

RxLookup(m, flight) ==
    /\ Handles("LOOKUP", m, flight)
    /\ NfsSend(IF RpcFails(m) THEN Failed
               ELSE [nfs EXCEPT !.state = "READ", !.filefh = m.val, !.offset = 0],
               ether, flight)
    /\ UNCHANGED <<NetState, handler, timer, size, ether, longest, mem, cutShort>>

\* What the path may become when link n is followed.  The text of a relative link
\* is terminated one byte too late: the byte between is what nfs_path_buff holds
\* there, which is of the present path or of any longer one before, also of an
\* earlier load.  Behind the longest path it has held there is nothing.
LinkPaths(n) ==
    LET l == PathLen[Link[n]]
        now == PathLen[nfs.path]
    IN  (IF n \in Relative /\ l < now THEN {} ELSE {Link[n]})
        \cup (IF n \in Relative /\ l # now /\ l < longest THEN Garbled[n] ELSE {})

RxReadlink(m, flight) ==
    /\ Handles("READLINK", m, flight)
    /\ IF RpcFails(m)
       THEN NfsSend(Failed, ether, flight) /\ UNCHANGED longest
       ELSE \E p \in LinkPaths(m.val) :
              /\ NfsSend([nfs EXCEPT !.state = "MOUNT", !.path = p], ether, flight)
              /\ Holds(p)
    /\ UNCHANGED <<NetState, handler, timer, size, ether, mem, cutShort>>

store_block(m) ==
    /\ mem' = [i \in DOMAIN mem |->
                 IF i \in nfs.offset .. nfs.offset + m.len - 1
                 THEN <<m.val[1], m.val[2] + i - nfs.offset>>
                 ELSE mem[i]]
    /\ size' = IF size < nfs.offset + m.len THEN nfs.offset + m.len ELSE size

\* Mutant: the identifier of an answer to READ is not compared.
ReadResultAnyId(m) ==
    CASE m.err \in {"rpc", "nfs"} -> "error"
      [] m.err = "link" -> "link"
      [] m.err = "verifier" -> "end"
      [] m.err = "none" -> IF m.len = 0 THEN "end" ELSE "data"

\* What nfs_read_reply returns: the length of the data, the error of a link (or
\* a directory), or another.  A refused verifier alone returns a length of 0.
ReadResult(m) ==
    CASE m.id # nfs.id -> "error"
      [] m.id = nfs.id /\ m.err \in {"rpc", "nfs"} -> "error"
      [] m.id = nfs.id /\ m.err = "link" -> "link"
      [] m.id = nfs.id /\ m.err = "verifier" -> "end"
      [] m.id = nfs.id /\ m.err = "none" -> IF m.len = 0 THEN "end" ELSE "data"

\* Mutant: a short read is taken for the end of the file, and reading goes on.
RxReadShortEnds(m, flight) ==
    /\ Handles("READ", m, flight)
    /\ NetSetTimeout(NFS_TIMEOUT, "nfs")
    /\ CASE ReadResult(m) = "data" ->
              /\ store_block(m)
              /\ NfsSend([nfs EXCEPT !.offset = @ + m.len,
                                     !.down = IF m.len < NFS_READ_SIZE THEN "SUCCESS"
                                              ELSE @], ether, flight)
         [] ReadResult(m) = "link" ->
              /\ NfsSend([nfs EXCEPT !.state = "READLINK"], ether, flight)
              /\ UNCHANGED <<mem, size>>
         [] ReadResult(m) = "end" ->
              /\ NfsSend([Failed EXCEPT !.down = "SUCCESS"], ether, flight)
              /\ UNCHANGED <<mem, size>>
         [] ReadResult(m) = "error" ->
              /\ NfsSend(Failed, ether, flight)
              /\ UNCHANGED <<mem, size>>
    /\ cutShort' = IF ReadResult(m) = "end" /\ m.err = "verifier" THEN TRUE ELSE cutShort
    /\ UNCHANGED <<NetState, handler, ether, longest>>

\* Each answer restarts the timeout.  A read that returns nothing ends the
\* download, which has succeeded once the unmount has.
RxRead(m, flight) ==
    /\ Handles("READ", m, flight)
    /\ NetSetTimeout(NFS_TIMEOUT, "nfs")
    /\ CASE ReadResult(m) = "data" ->
              /\ store_block(m)
              /\ NfsSend([nfs EXCEPT !.offset = @ + m.len], ether, flight)
         [] ReadResult(m) = "link" ->
              /\ NfsSend([nfs EXCEPT !.state = "READLINK"], ether, flight)
              /\ UNCHANGED <<mem, size>>
         [] ReadResult(m) = "end" ->
              /\ NfsSend([Failed EXCEPT !.down = "SUCCESS"], ether, flight)
              /\ UNCHANGED <<mem, size>>
         [] ReadResult(m) = "error" ->
              /\ NfsSend(Failed, ether, flight)
              /\ UNCHANGED <<mem, size>>
    /\ cutShort' = IF ReadResult(m) = "end" /\ m.err = "verifier" THEN TRUE ELSE cutShort
    /\ UNCHANGED <<NetState, handler, ether, longest>>

\* The status of the unmount itself is not looked at.
RxUmount(m, flight) ==
    /\ Handles("UMOUNT", m, flight)
    /\ IF m.id # nfs.id \/ m.err \in {"rpc", "verifier"}
       THEN NetState' = "FAIL" /\ UNCHANGED nfs
       ELSE /\ NetState' = nfs.down
            /\ nfs' = [nfs EXCEPT !.mounted = FALSE, !.dirfh = None]
    /\ net' = flight
    /\ UNCHANGED <<handler, timer, size, ether, arp, longest, mem, cutShort>>

Receive(m, flight) ==
    \/ RxIgnored(m, flight)
    \/ RxPortmap(m, flight)
    \/ RxMount(m, flight)
    \/ RxLookup(m, flight)
    \/ RxReadlink(m, flight)
    \/ RxRead(m, flight)
    \/ RxUmount(m, flight)

\* Mutant: a timeout sends the request again, for ever.
NfsTimeoutRetries ==
    /\ NetSetTimeout(NFS_TIMEOUT, "nfs")
    /\ UNCHANGED <<NetState, handler, arp, net>>

NfsTimeout ==
    /\ NetState' = "FAIL"
    /\ timer' = NoTimer
    /\ UNCHANGED <<handler, arp, net>>

CheckTimeout ==
    /\ pc = "time"
    /\ \/ NoTimeout
       \/ TimeoutOf("nfs") /\ NfsTimeout
       \/ TimeoutOf("startAgain") /\ startAgainTimeout
    /\ Switch
    /\ UNCHANGED nfsvars

-----------------------------------------------------------------------------
(* The server.                                                             *)

Reply(id, err, val, len) ==
    [kind |-> "REPLY", id |-> id, err |-> err, val |-> val, len |-> len]

\* What a read of file f at unit off may return: some of what is asked for, and
\* nothing at the end only.
ReadReplies(id, f, off) ==
    LET left == FileLen[f] - off
    IN  IF left <= 0
        THEN {Reply(id, "none", <<f, off>>, 0)}
        ELSE {Reply(id, "none", <<f, off>>, k) :
                k \in {j \in 1 .. NFS_READ_SIZE : j <= left}}

\* The replies of a service to a request that reaches its port.  The port mapper
\* offers no port for a service that is not there.  For READLINK the link itself
\* stands for its text.
Replies(m) ==
    LET ok(v) == {Reply(m.id, "none", v, 0)}
    IN  (CASE m.proc = "GETPORT" -> ok(m.arg) \cup ok(None)
           [] m.proc = "MNT" -> IF \E n \in Names : n[1] = m.arg THEN ok(m.arg) ELSE {}
           [] m.proc = "UMNTALL" -> ok(None)
           [] m.proc = "LOOKUP" -> IF m.arg \in Names THEN ok(m.arg) ELSE {}
           [] m.proc = "READ" /\ m.arg[1] \in DOMAIN Link ->
                {Reply(m.id, "link", None, 0)}
           [] m.proc = "READ" /\ m.arg[1] \in DOMAIN FileLen ->
                ReadReplies(m.id, m.arg[1], m.arg[2])
           [] m.proc = "READLINK" -> ok(m.arg))
        \cup {Reply(m.id, e[2], None, 0) : e \in {x \in Errors : x[1] = m.proc}}

PortOf(proc) ==
    CASE proc = "GETPORT" -> SUNRPC_PORT
      [] proc \in {"MNT", "UMNTALL"} -> MountPort
      [] proc \in {"LOOKUP", "READ", "READLINK"} -> NfsPort

\* A request is served; or served, and delivered again later.
Serve(m) ==
    /\ Outside
    /\ m \in net
    /\ m.kind = "CALL"
    /\ m.port = PortOf(m.proc)
    /\ \E r \in Replies(m) :
         \/ net' = (net \ {m}) \cup {r} /\ UNCHANGED faults
         \/ net' = net \cup {r} /\ MayFail /\ faults' = faults + 1
    /\ UNCHANGED nfsvars

-----------------------------------------------------------------------------

Init ==
    /\ NetInit
    /\ nfs = [state |-> "PRCLOOKUP_MOUNT", id |-> 0, mountPort |-> None,
              nfsPort |-> None, mounted |-> FALSE, dirfh |-> None, filefh |-> None,
              offset |-> -1, path |-> None, down |-> "FAIL"]
    /\ longest = 0
    /\ bootfile \in Wanted
    /\ mem = [i \in 0 .. MemUnits - 1 |-> None]
    /\ cutShort = FALSE

NetLoop ==
    \/ NfsStart
    \/ RxNothing /\ UNCHANGED nfsvars
    \/ ArpTimeoutCheck /\ UNCHANGED nfsvars
    \/ CheckTimeout

Deliver ==
    \E m \in net : \E flight \in {net, net \ {m}} :
      \/ RxArpReply(flight) /\ m = ArpRep /\ UNCHANGED nfsvars
      \/ Receive(m, flight)

Server ==
    \/ AnswerArp /\ UNCHANGED nfsvars
    \/ \E m \in net : Serve(m)

User ==
    \/ CtrlC /\ UNCHANGED nfsvars
    \/ \E name \in Wanted : Command(name)

Next == NetLoop \/ Deliver \/ Server \/ User \/ (Tick /\ UNCHANGED nfsvars)

\* NetLoop keeps running and time keeps passing; nothing is assumed of the
\* server, the network and the user.
Spec ==
    /\ Init /\ [][Next]_vars
    /\ WF_vars(NetLoop)
    /\ WF_vars(Tick /\ UNCHANGED nfsvars)

-----------------------------------------------------------------------------
(* Properties.                                                             *)

\* The variables have their types; no timer runs below zero and no read is asked
\* for beyond the end of what was read before.
TypeOK ==
    /\ pc \in {"start", "rx", "arp", "time", "done"}
    /\ result \in {"none", "size", "abort", "fail"}
    /\ NetState \in {"CONTINUE", "RESTART", "SUCCESS", "FAIL"}
    /\ handler \in {"nfs", "startAgain"}
    /\ timer.who \in {"none", "nfs", "startAgain"}
    /\ timer.left \in 0 .. NFS_TIMEOUT + RESTART_DELAY
    /\ arp.left \in 0 .. ARP_TIMEOUT
    /\ arp.try \in 0 .. ARP_TIMEOUT_COUNT - 1
    /\ size \in 0 .. MemUnits
    /\ nfs.state \in {"PRCLOOKUP_MOUNT", "PRCLOOKUP_NFS", "MOUNT", "UMOUNT",
                      "LOOKUP", "READ", "READLINK"}
    /\ nfs.id \in Nat
    /\ {nfs.mountPort, nfs.nfsPort} \subseteq Ports \cup {None}
    /\ nfs.mounted \in BOOLEAN
    /\ nfs.offset \in -1 .. MemUnits
    /\ nfs.down \in {"SUCCESS", "FAIL"}
    /\ longest \in Nat
    /\ cutShort \in BOOLEAN
    /\ bootfile \in Wanted
    /\ mem \in [0 .. MemUnits - 1 -> (Names \X (0 .. MemUnits - 1)) \cup {None}]

\* The file a name leads to, and whether every link on the way is absolute or as
\* long as what it stands for.
Resolved[n \in Names] == IF n \in DOMAIN Link THEN Resolved[Link[n]] ELSE n
Proper[n \in Names] ==
    n \in DOMAIN Link =>
      (n \in Relative => PathLen[n] = PathLen[Link[n]]) /\ Proper[Link[n]]

\* When NetLoop returns a size, the memory from load_addr on holds, in order, that
\* many units of the one file whose path the client holds, and all of it unless a
\* refused verifier was taken for its end; and that path is where the name given
\* leads, unless a relative link of another length lies on the way: whatever was
\* lost, duplicated or late, and whatever an earlier load left behind (nfs.c,
\* nfs_read_reply and nfs_readlink_reply).
LoadedIsFile ==
    result = "size" =>
      /\ \A i \in 0 .. size - 1 : mem[i] = <<nfs.path, i>>
      /\ \/ cutShort
         \/ nfs.path \in DOMAIN FileLen /\ size = FileLen[nfs.path]
      /\ Proper[bootfile] => Resolved[nfs.path] = Resolved[bootfile]

\* While the client reads (nfs.c, STATE_READ_REQ and STATE_READLINK_REQ) its
\* handles are those of the path it holds: no late or duplicated answer to an
\* earlier request has supplied one.
HandlesArePath ==
    /\ nfs.state \in {"LOOKUP", "READ", "READLINK"} => nfs.dirfh = nfs.path[1]
    /\ nfs.state \in {"READ", "READLINK"} => nfs.filefh = nfs.path

\* Once the download counts as a success (NfsDownloadState), nothing is written
\* to memory any more and the size stays: a late read cannot spoil the file
\* while the unmount is under way, or after it.
NoLateWrite ==
    [][nfs.down = "SUCCESS" /\ nfs'.down = "SUCCESS" => UNCHANGED <<mem, size>>]_vars

\* Every load ends, with or without a server: NetLoop returns or starts again
\* (provided the links have no cycle; nothing in nfs.c counts them).
LoadEnds == (pc = "rx") ~> (pc \in {"start", "done"})

=============================================================================
