---- MODULE MCSpiFlash ----
(***************************************************************************)
(* SpiFlash for TLC.  The bytes of the buffers change with period 3 so     *)
(* that a byte programmed at the wrong place differs from the right one.   *)
(***************************************************************************)
EXTENDS SpiFlash

MCBits == {1, 2}
Pattern(i) == <<{}, {1}, {2}>>[(i % 3) + 1]
MCBuffers == {[i \in 0 .. DeviceSize - 1 |-> Pattern(i)]}
MCInitMems == {[a \in Addr |-> {1}]}
====
