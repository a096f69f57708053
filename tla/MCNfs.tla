-------------------------------- MODULE MCNfs --------------------------------
(* Constants of the TLC run of Nfs.                                        *)
EXTENDS Nfs

CONSTANTS d, e

\* An absolute link to a file in another directory, and a relative one that is
\* shorter than the path it makes.  With a stray character behind it that path is
\* the one of another file.
MCAbsolute == <<d, "absolute">>
MCShort == <<e, "x">>
MCFile == <<e, "file">>
MCOther == <<e, "files">>

MCNames == {MCAbsolute, MCShort, MCFile, MCOther}
MCFileLen == [f \in {MCFile, MCOther} |-> IF f = MCFile THEN 2 ELSE 1]
MCLinks == [n \in {MCAbsolute, MCShort} |-> MCFile]
MCRelative == {MCShort}
MCGarbled == [n \in MCRelative |-> {MCOther}]
MCPathLen == [p \in MCNames |->
                CASE p = MCShort -> 2
                  [] p = MCFile -> 5
                  [] p = MCOther -> 6
                  [] p = MCAbsolute -> 9]
MCWanted == {MCAbsolute, MCShort}

\* A lookup and the verifier of a read may be refused; other refusals are of late
\* answers in this instance.
MCErrors == {<<"LOOKUP", "nfs">>, <<"READ", "verifier">>}

=============================================================================
