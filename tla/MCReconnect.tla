---------------------------- MODULE MCReconnect ----------------------------
(* Policies around every limit: retries off, few retries, pauses that reach *)
(* the cap or not, budgets shorter and longer than the pauses, and values   *)
(* the configuration must refuse.                                           *)
EXTENDS Reconnect

MCPolicies ==
    [attempts : 0 .. 3, delay : 0 .. 2, maxDelay : {1, 3, 8}, maxElapsed : {0, 1, 4, 9}]
    \cup {[attempts |-> 33, delay |-> 1, maxDelay |-> 1, maxElapsed |-> 1]}
=============================================================================
