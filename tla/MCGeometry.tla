---------------------------- MODULE MCGeometry ----------------------------
(* A small instance of Geometry and Wire: files of no chunk to three pages  *)
(* and two shards; every limit of the codec is a small number, and the       *)
(* manifests are sorted or not, reserved or not, under a listed directory or *)
(* not, with and without a hash, some beyond a limit.                        *)
EXTENDS Geometry

Entry(p, k, s, n, h) ==
    [path |-> p, kind |-> k, size |-> s, mtime |-> 0, ns |-> n, hash |-> h]
MCWithin == {<<4, 2>>}
MCFields == (0 .. 3) \cup {6, 8}
MCManifests ==
    {<<>>,
     <<Entry(1, "file", 2, 1, NoHash)>>,
     <<Entry(2, "directory", 0, 0, NoHash), Entry(4, "file", 3, 0, 1)>>,
     <<Entry(4, "file", 1, 0, NoHash)>>,
     <<Entry(2, "file", 0, 0, NoHash), Entry(1, "directory", 0, 0, NoHash)>>,
     <<Entry(3, "protected", 0, 1, NoHash)>>,
     <<Entry(3, "file", 1, 0, NoHash)>>,
     <<Entry(1, "directory", 1, 0, NoHash)>>,
     <<Entry(1, "file", 12, 0, NoHash)>>,
     <<Entry(1, "file", 1, 2, 2)>>}
=============================================================================
