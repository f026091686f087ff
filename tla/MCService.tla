----------------------------- MODULE MCService -----------------------------
(* Three Links, one of which may not identify; two served at a time.        *)
EXTENDS Service

CONSTANTS first, second, stranger

MCLinks == {first, second, stranger}
MCPermitted == {first, second}
=============================================================================
