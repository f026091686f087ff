----------------------------- MODULE MCServerV2 -----------------------------
(* A small instance of ServerV2: a Link with full and one with read         *)
(* permission, a path for files of two chunks and a second one; two         *)
(* versions of two chunks and one of none, one chunk a page.                *)
EXTENDS ServerV2

CONSTANTS writer, reader

MCConns == {writer, reader}
MCPermission == [x \in Conns |-> IF x = writer THEN "full" ELSE "read"]
MCPaths == {1, 2}
MCVersions == {1, 2, 3}
MCSize == [v \in Versions |-> IF v = 3 THEN 0 ELSE 2]

FileOf(v) == File(v, v)
MCManifests == {<<FileOf(1), Dir>>, <<FileOf(3), FileOf(1)>>, <<FileOf(3), None>>}
MCOptions == {[delete |-> FALSE, checksum |-> FALSE, dryRun |-> FALSE],
              [delete |-> TRUE,  checksum |-> TRUE,  dryRun |-> FALSE],
              [delete |-> TRUE,  checksum |-> FALSE, dryRun |-> TRUE]}
MCJobs == [push : BOOLEAN, options : MCOptions, manifest : MCManifests]
MCInitialTrees == {<<None, None>>, <<FileOf(2), FileOf(2)>>}
MCEditEntries == {FileOf(2)}
=============================================================================
