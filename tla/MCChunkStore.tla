---------------------------- MODULE MCChunkStore ----------------------------
(* Process p1 has limits, p2 and p3 have none and are interchangeable; a    *)
(* transfer of two chunks and one of a single chunk.                        *)
EXTENDS ChunkStore, TLC

CONSTANTS p1, p2, p3, big, small

MCLength == (big :> {1, 2}) @@ (small :> {1})
MCSymmetry == Permutations({p2, p3})
=============================================================================
