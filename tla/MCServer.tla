------------------------------ MODULE MCServer ------------------------------
(* A small instance of Server: a Link with full and one with read           *)
(* permission, two paths, three versions of which two have the same size.   *)
(* Every kind of plan occurs: create, update, both type conflicts, removal, *)
(* skip and the empty plan.                                                 *)
EXTENDS Server

CONSTANTS writer, reader

MCConns == {writer, reader}
MCPermission == [x \in Conns |-> IF x = writer THEN "full" ELSE "read"]
MCPaths == {1, 2}
MCVersions == {1, 2, 3}
MCSize == [v \in Versions |-> IF v = 3 THEN 2 ELSE 1]

FileOf(v) == File(v, v)
MCManifests == {<<FileOf(1), Dir>>, <<FileOf(3), FileOf(2)>>, <<Dir, None>>,
                <<FileOf(1), None>>}
MCOptions == {[delete |-> FALSE, checksum |-> FALSE, dryRun |-> FALSE],
              [delete |-> TRUE,  checksum |-> FALSE, dryRun |-> FALSE],
              [delete |-> TRUE,  checksum |-> TRUE,  dryRun |-> FALSE],
              [delete |-> TRUE,  checksum |-> FALSE, dryRun |-> TRUE]}
MCJobs == [push : BOOLEAN, options : MCOptions, manifest : MCManifests]
MCInitialTrees == {<<None, None>>, <<FileOf(2), FileOf(2)>>, <<Dir, FileOf(1)>>}
MCEditEntries == {None, FileOf(2)}
=============================================================================
