---------------------------- MODULE MCSyncPlan ----------------------------
(* All pairs of directories over five names: "a", "a-b", a staging file in   *)
(* "a", "a/c" and "a/c/e".                                                  *)
EXTENDS SyncPlan

MCPaths == 1 .. 5
MCParent == <<0, 0, 1, 1, 4>>
MCTemps == {3}
Made == Object("file", 1, 1)            \* the source's version
Same == Object("file", 1, 2)            \* other bytes, same metadata
Old  == Object("file", 2, 2)
Trees(kinds) == {m \in [Paths -> kinds] : WellFormed(m)}
MCSources == Trees({None, Dir, Protected, Made})
MCDestinations == Trees({None, Dir, Protected, Same, Old})
MCOptions == {[delete |-> FALSE, checksum |-> FALSE], [delete |-> TRUE, checksum |-> FALSE],
              [delete |-> TRUE, checksum |-> TRUE]}
=============================================================================
