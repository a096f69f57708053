----------------------------- MODULE FlashStore -----------------------------
(***************************************************************************)
(* What spi_write promises its callers (the environment, the u-boot update *)
(* and the SPI commands): a request replaces its erase sectors one after   *)
(* the other in ascending order, each as a whole, and a power loss spoils  *)
(* at most the sector that was next.                                       *)
(***************************************************************************)
EXTENDS Integers

CONSTANTS EraseSize, DeviceSize, Buffers, Cell

VARIABLES store,     \* the contents of the device
          active,    \* a request is being served
          goal,      \* the contents it is to leave behind
          frontier,  \* the first address of the next sector to replace
          end,       \* one past the last address of the request
          reply      \* what the caller was told of the last request

storeVars == <<store, active, goal, frontier, end, reply>>

StoreAddr == 0 .. DeviceSize - 1
NextSector(a) == frontier <= a /\ a < frontier + EraseSize

\* No request in progress.
Rest == ~active' /\ goal' = store' /\ frontier' = 0 /\ end' = 0

StoreInit == ~active /\ goal = store /\ frontier = 0 /\ end = 0 /\ reply = "none"

\* A request that is empty or out of range.
Refuse ==
    /\ ~active
    /\ reply' = "refused"
    /\ UNCHANGED <<store, active, goal, frontier, end>>

\* A request for n bytes of b at f is accepted.
Start(f, n, b) ==
    /\ ~active
    /\ n >= 1
    /\ f + n <= DeviceSize
    /\ active'
    /\ end' = f + n
    /\ frontier' = (f \div EraseSize) * EraseSize
    /\ goal' = [a \in StoreAddr |-> IF f <= a /\ a < f + n THEN b[a - f] ELSE store[a]]
    /\ reply' = "none"
    /\ UNCHANGED store

\* The next sector is replaced.
Replace ==
    /\ active
    /\ frontier < end
    /\ frontier' = frontier + EraseSize
    /\ store' = [a \in StoreAddr |-> IF NextSector(a) THEN goal[a] ELSE store[a]]
    /\ UNCHANGED <<active, goal, end, reply>>

\* The request is complete.
Finish ==
    /\ active
    /\ frontier >= end
    /\ Rest
    /\ reply' = "done"
    /\ UNCHANGED store

\* A power loss abandons the request unanswered and may spoil the next sector.
Crash ==
    /\ active
    /\ Rest
    /\ store' \in [StoreAddr -> Cell]
    /\ \A a \in StoreAddr : ~NextSector(a) \/ frontier >= end => store'[a] = store[a]
    /\ UNCHANGED reply

StoreNext ==
    \/ \E f \in StoreAddr, n \in 1 .. DeviceSize, b \in Buffers : Start(f, n, b)
    \/ Refuse \/ Replace \/ Finish \/ Crash

StoreSpec == StoreInit /\ [][StoreNext]_storeVars
=============================================================================
