---- MODULE MCSwUpdate ----
(***************************************************************************)
(* SwUpdate for TLC.  v1 and v2 are images for this box (id "own"), v3 is  *)
(* one for another box, v5 one whose size field goes beyond the image area,*)
(* the others fail one check each.                                         *)
(***************************************************************************)
EXTENDS SwUpdate

CONSTANTS v0, v1, v2, v3, v4, v5

FileOf(ver, id, size) ==
    [ver |-> ver, id |-> id, size |-> size, crcOk |-> TRUE, flagOk |-> TRUE, shaOk |-> TRUE]

Good1   == FileOf(v1, "own", 2)
Good2   == FileOf(v2, "own", 1)
Foreign == FileOf(v3, "other", 2)
BadCrc  == [FileOf(v4, "own", 2) EXCEPT !.crcOk = FALSE]
BadFlag == [FileOf(v4, "own", 2) EXCEPT !.flagOk = FALSE]
BadSha  == [FileOf(v4, "own", 2) EXCEPT !.shaOk = FALSE]
Long    == FileOf(v5, "own", 4)
TooLarge == FileOf(v4, "own", 5)

MCIds == {"own", "other"}
MCFactoryInfo == [ver |-> v0, id |-> "own"]

StickOf(fs1, sh1, fs2, sh2, file) ==
    [fs1 |-> fs1, sh1 |-> sh1, fs2 |-> fs2, sh2 |-> sh2, file |-> file]

MCFiles == {Good1, Good2, Foreign, Long, BadCrc, BadFlag, BadSha}
MCSticks ==
    {StickOf("fat", "none", "none", "none", f) : f \in MCFiles \ {Good2}} \cup
    {StickOf("fat", "good", "none", "none", Good1),
     StickOf("fat", "bad", "none", "none", Good1),
     StickOf("ext2", "none", "ext2", "good", NoFile),
     StickOf("fat", "none", "ext2", "bad", Good2)}

\* A file whose size field is larger than the device.
LargeFiles == {TooLarge}
LargeSticks == {StickOf("fat", "none", "none", "none", TooLarge)}
====
