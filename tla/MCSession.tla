----------------------------- MODULE MCSession -----------------------------
(* Small instances of Session: two paths, two attempts.  In both directions *)
(* the directories give plans with an update, an extra and a type conflict; *)
(* a push also has plans with two new files, a pull one with a directory to *)
(* make.                                                                    *)
EXTENDS Session

MCPaths == {1, 2}
MCVersions == {1, 2, 3}
MCSize == [v \in Versions |-> 1]
MCPermission == [c \in Conns |-> "full"]
FileOf(v) == File(v, v)
MCInitialTrees == {<<FileOf(1), None>>, <<Dir, FileOf(1)>>}
MCLocalTrees == {<<FileOf(2), FileOf(2)>>, <<None, FileOf(2)>>}
MCEditEntries == {FileOf(3)}
Opt(d, c, n) == [delete |-> d, checksum |-> c, dryRun |-> n]
MCClientJobs ==
    [push : BOOLEAN, options : {Opt(TRUE, FALSE, FALSE), Opt(FALSE, TRUE, FALSE),
                                Opt(TRUE, FALSE, TRUE)}]
=============================================================================
