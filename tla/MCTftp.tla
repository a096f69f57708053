------------------------------- MODULE MCTftp -------------------------------
(* Constants of the TLC runs of Tftp.                                      *)
EXTENDS Tftp

CONSTANTS p1, p2

MCPorts == {p1, p2}
MCOnePort == {p1}

\* Two sessions that serve files of different lengths: the first in blocks of
\* three units, agreed on by OACK, the second in blocks of the default two.
MCBlocks == <<3, 1>>
MCBlkSize == <<3, 2>>
MCLastLen == <<1, 1>>

\* A file whose third block has number 0 when numbers are taken modulo 3.
MCBlocksWrap == <<4>>
MCBlkSizeWrap == <<2>>
MCLastLenWrap == <<1>>

=============================================================================
