------------------------------- MODULE Cache -------------------------------
(***************************************************************************)
(* What the chunk cache promises an engine (chunks.rs, `Store'): a         *)
(* transfer has at most one owner; while it has one, its verified chunks   *)
(* grow one at a time and shrink only when the owner clears them; a        *)
(* transfer without owner may be evicted chunk by chunk; damage from       *)
(* outside is always possible, and never makes a chunk count as verified.  *)
(***************************************************************************)
CONSTANTS
    Procs,          \* processes that open the cache
    Keys,           \* transfers: peer, direction, root, path, size, hash
    ChunksOf,       \* the chunks of each transfer
    None

VARIABLES
    owner,          \* the process whose Store is open on a transfer
    verified        \* the chunks of a transfer with the right size and hash

vars == <<owner, verified>>

Init ==
    /\ owner = [k \in Keys |-> None]
    /\ verified = [k \in Keys |-> {}]

Acquire(p, k) ==
    /\ owner[k] = None
    /\ owner' = [owner EXCEPT ![k] = p]
    /\ UNCHANGED verified

Release(k) ==
    /\ owner[k] # None
    /\ owner' = [owner EXCEPT ![k] = None]
    /\ UNCHANGED verified

Receive(k, i) ==
    /\ owner[k] # None
    /\ verified' = [verified EXCEPT ![k] = @ \cup {i}]
    /\ UNCHANGED owner

(* Clearing by the owner, eviction when there is none, or damage.          *)
Lose(k, i) ==
    /\ i \in verified[k]
    /\ verified' = [verified EXCEPT ![k] = @ \ {i}]
    /\ UNCHANGED owner

Next ==
    \E k \in Keys :
        \/ \E p \in Procs : Acquire(p, k)
        \/ Release(k)
        \/ \E i \in ChunksOf[k] : Receive(k, i) \/ Lose(k, i)

Spec == Init /\ [][Next]_vars
=============================================================================
