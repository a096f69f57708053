--------------------------------- MODULE Net ---------------------------------
(***************************************************************************)
(* The receive loop of net/net.c, as far as every protocol shares it:      *)
(* NetLoop with its timeout and its restarts, and ARP.  A module of one    *)
(* protocol EXTENDS this one and adds packetHandler and timeHandler.       *)
(*                                                                         *)
(* Time is counted in ticks: a timer holds the ticks it still has to run.  *)
(* Packets are records with a field kind.  A packet that is lost stays in  *)
(* net and is never taken: no step waits for its absence, and no fairness  *)
(* is assumed of its delivery.                                             *)
(***************************************************************************)
EXTENDS Integers

CONSTANTS
    ARP_TIMEOUT_COUNT,\* timeouts before net.c gives up
    ARP_TIMEOUT,      \* in ticks (5 s)
    RESTART_DELAY,    \* of NetStartAgain, in ticks (10 s)
    NetRetry,         \* whether netretry is something else than "no"
    NoPacket,         \* no packet is waiting for ARP
    MaxAttempts,      \* bound: passes through the label restart
    MaxFaults,        \* bound: packets delivered twice, and retransmissions
    MaxBoth           \* bound: the sum of both

ASSUME NetAssumption ==
    /\ ARP_TIMEOUT_COUNT \in Nat \ {0}
    /\ ARP_TIMEOUT \in Nat \ {0}
    /\ RESTART_DELAY \in Nat \ {0}
    /\ NetRetry \subseteq BOOLEAN
    /\ MaxAttempts \in Nat \ {0}
    /\ {MaxFaults, MaxBoth} \subseteq Nat

\* The delay before a restart is shorter than the time ARP takes to give up once
\* more (10 s, 20 s): giving up sets the delay anew, and would put the restart
\* off for ever.  A CONFIG_NET_RETRY_COUNT below 4 breaks this.
ASSUME RestartAssumption == RESTART_DELAY < (ARP_TIMEOUT_COUNT - 1) * ARP_TIMEOUT

VARIABLES
    pc,         \* NetLoop: "start", "rx", "arp", "time", "done"
    result,     \* what NetLoop returned: "size", "abort", "fail"; or "none"
    netretry,   \* the environment variable netretry is not "no"
    NetState,
    handler,    \* packetHandler: of the protocol, or "startAgain"
    timer,      \* timeHandler and the ticks left
    size,       \* NetBootFileXferSize
    ether,      \* NetServerEther is known
    arp,        \* the waiting packet, its timer and NetArpWaitTry
    net,        \* packets in flight
    attempts, faults

loopvars == <<pc, result, netretry, NetState, handler, timer, size, ether, arp,
              attempts>>
netvars == <<loopvars, net, faults>>

MayStart == attempts < MaxAttempts /\ attempts + faults < MaxBoth
MayFail == faults < MaxFaults /\ attempts + faults < MaxBoth

ArpReq == [kind |-> "ARPREQ"]
ArpRep == [kind |-> "ARPREP"]

-----------------------------------------------------------------------------
(* Timers, restart and sending.                                            *)

NoTimer == [who |-> "none", left |-> 0]
NetSetTimeout(iv, h) == timer' = [who |-> h, left |-> iv]

\* What NetStartAgain does to NetState, packetHandler and timeHandler.  With
\* netretry=no the timer stays what it is by then (tm), and so does the handler.
NetStartAgain(tm) ==
    IF netretry
    THEN /\ NetSetTimeout(RESTART_DELAY, "startAgain")
         /\ handler' = "startAgain"
         /\ UNCHANGED NetState
    ELSE /\ NetState' = "FAIL"
         /\ timer' = tm
         /\ UNCHANGED handler

\* Mutant: a packet put aside while another one waits does not count anew.
NetSendUDPPacketKeepTry(m, known, flight) ==
    IF known
    THEN net' = flight \cup {m} /\ UNCHANGED arp
    ELSE /\ arp' = [pkt |-> m, left |-> ARP_TIMEOUT,
                    try |-> IF arp.pkt = NoPacket THEN 1 ELSE arp.try]
         /\ net' = flight \cup {ArpReq}

\* Send m, or put it aside, in place of one that waits already, and ask for the
\* server's address.  flight: the packets in flight besides.
NetSendUDPPacket(m, known, flight) ==
    IF known
    THEN net' = flight \cup {m} /\ UNCHANGED arp
    ELSE /\ arp' = [pkt |-> m, left |-> ARP_TIMEOUT, try |-> 1]
         /\ net' = flight \cup {ArpReq}

\* Mutant: a restart does not reset NetBootFileXferSize.
RestartKeepSize ==
    /\ pc = "start"
    /\ MayStart
    /\ attempts' = attempts + 1
    /\ pc' = "rx"
    /\ NetState' = "CONTINUE"
    /\ UNCHANGED <<result, netretry, faults, size>>

\* NetLoop from the label restart, but for the start function of the protocol.
\* (A network that is not configured only ends NetLoop and is left out.)
Restart ==
    /\ pc = "start"
    /\ MayStart
    /\ attempts' = attempts + 1
    /\ pc' = "rx"
    /\ NetState' = "CONTINUE"
    /\ size' = 0
    /\ UNCHANGED <<result, netretry, faults>>

-----------------------------------------------------------------------------
(* One pass of the loop: one packet is taken (eth_rx), then come ctrlc, the *)
(* ARP timer, the timeout and the switch on NetState.  Passes that find no *)
(* packet and no expired timer change nothing and are left out.            *)

\* m leaves the network, or stays in it as a duplicate; flight is what remains.
Takes(m, flight) ==
    /\ pc = "rx"
    /\ m \in net
    /\ pc' = "arp"
    /\ \/ flight = net \ {m} /\ UNCHANGED faults
       \/ flight = net /\ MayFail /\ faults' = faults + 1
    /\ UNCHANGED <<result, netretry, attempts>>

\* NetReceive: the address asked for; the waiting packet leaves.
RxArpReply(flight) ==
    /\ Takes(ArpRep, flight)
    /\ IF arp.pkt = NoPacket
       THEN net' = flight /\ UNCHANGED <<ether, arp>>
       ELSE /\ ether' = TRUE
            /\ net' = flight \cup {arp.pkt}
            /\ arp' = [arp EXCEPT !.pkt = NoPacket]
    /\ UNCHANGED <<NetState, handler, timer, size>>

TimeExpired == timer.who # "none" /\ timer.left = 0
ArpExpired == arp.pkt # NoPacket /\ arp.left = 0

RxNothing ==
    /\ pc = "rx"
    /\ TimeExpired \/ ArpExpired
    /\ pc' = "arp"
    /\ UNCHANGED <<result, netretry, NetState, handler, timer, size, ether, arp,
                   net, attempts, faults>>

\* ctrlc() is asked after eth_rx.  An abort in one of the passes left out only
\* ends NetLoop.
CtrlC ==
    /\ pc = "arp"
    /\ pc' = "done"
    /\ result' = "abort"
    /\ UNCHANGED <<netretry, NetState, handler, timer, size, ether, arp, net,
                   attempts, faults>>

\* When ARP gives up its timer is not restarted and the packet keeps waiting.
ArpTimeoutCheck ==
    /\ pc = "arp"
    /\ pc' = "time"
    /\ IF ~ArpExpired
       THEN UNCHANGED <<NetState, handler, timer, arp, net>>
       ELSE IF arp.try + 1 >= ARP_TIMEOUT_COUNT
       THEN /\ arp' = [arp EXCEPT !.try = 0]
            /\ NetStartAgain(timer)
            /\ UNCHANGED net
       ELSE /\ arp' = [arp EXCEPT !.try = @ + 1, !.left = ARP_TIMEOUT]
            /\ net' = net \cup {ArpReq}
            /\ UNCHANGED <<NetState, handler, timer>>
    /\ UNCHANGED <<result, netretry, size, ether, attempts, faults>>

startAgainTimeout ==
    /\ NetState' = "RESTART"
    /\ timer' = NoTimer
    /\ UNCHANGED <<handler, arp, net>>

\* The switch on NetState: where NetLoop goes on, and what it returns.
Switch ==
    /\ CASE NetState' = "CONTINUE" -> pc' = "rx" /\ UNCHANGED result
         [] NetState' = "RESTART"  -> pc' = "start" /\ UNCHANGED result
         [] NetState' = "SUCCESS"  -> pc' = "done" /\ result' = "size"
         [] NetState' = "FAIL"     -> pc' = "done" /\ result' = "fail"
    /\ UNCHANGED <<netretry, size, ether, attempts, faults>>

\* timeHandler is taken down, then run, when its time is up.
NoTimeout == ~TimeExpired /\ UNCHANGED <<NetState, handler, timer, arp, net>>
TimeoutOf(h) == TimeExpired /\ timer.who = h

-----------------------------------------------------------------------------
(* The other end and time.  The steps of NetLoop between two packets read  *)
(* nothing that these change, so they act at "rx" only.                    *)

Outside == pc = "rx" /\ UNCHANGED loopvars

\* An ARP request is answered.  (NetReceive ignores the answer when no packet
\* waits; a request that old is not answered here.)
AnswerArp ==
    /\ Outside
    /\ arp.pkt # NoPacket
    /\ ArpReq \in net
    /\ net' = (net \ {ArpReq}) \cup {ArpRep}
    /\ UNCHANGED faults

\* Mutant: time passes while an expired timer is not looked at.
TickOverdue ==
    /\ pc = "rx"
    /\ timer.who # "none"
    /\ timer' = [timer EXCEPT !.left = @ - 1]
    /\ arp' = [arp EXCEPT !.left = IF arp.pkt = NoPacket THEN @ ELSE @ - 1]
    /\ UNCHANGED <<pc, result, netretry, NetState, handler, size, ether, net,
                   attempts, faults>>

\* The loop polls much faster than its timers run: none is overdue by a tick.
Tick ==
    /\ pc = "rx"
    /\ ~TimeExpired
    /\ ~ArpExpired
    /\ timer.who # "none"
    /\ timer' = [timer EXCEPT !.left = @ - 1]
    /\ arp' = [arp EXCEPT !.left = IF arp.pkt = NoPacket THEN @ ELSE @ - 1]
    /\ UNCHANGED <<pc, result, netretry, NetState, handler, size, ether, net,
                   attempts, faults>>

NetInit ==
    /\ pc = "start"
    /\ result = "none"
    /\ netretry \in NetRetry
    /\ NetState = "CONTINUE"
    /\ handler = "startAgain"
    /\ timer = NoTimer
    /\ size = 0
    /\ ether = FALSE
    /\ arp = [pkt |-> NoPacket, left |-> 0, try |-> 0]
    /\ net = {}
    /\ attempts = 0
    /\ faults = 0

=============================================================================
