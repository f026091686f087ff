----------------------------- MODULE MCDurable -----------------------------
(* Small instances of Durable: two files two directories below the root, as *)
(* a chunk below its transfer and its shard; two contents.                  *)
EXTENDS Durable
CONSTANTS a, b, v1, v2
MCNames == {a, b}
MCVersions == {v1, v2}
=============================================================================
