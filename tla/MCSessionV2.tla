---------------------------- MODULE MCSessionV2 ----------------------------
(* Small instances of SessionV2: files of two chunks, one chunk a page, two *)
(* attempts, and one path to update next to an extra, a type conflict or a  *)
(* new file.                                                                *)
EXTENDS SessionV2

MCPaths == {1, 2}
MCVersions == {1, 2, 3}
MCSize == [v \in Versions |-> 2]
MCPermission == [c \in Conns |-> "full"]
FileOf(v) == File(v, v)
MCInitialTrees == {<<FileOf(1), Dir>>}
MCLocalTrees == {<<FileOf(2), None>>}
MCEditEntries == {FileOf(3)}
Opt(d, c, n) == [delete |-> d, checksum |-> c, dryRun |-> n]
MCClientJobs == [push : BOOLEAN, options : {Opt(TRUE, FALSE, FALSE)}]
=============================================================================
