----------------------------- MODULE MCStartup -----------------------------
(* Two processes in ~/.rsSync and configurations that differ in rules,      *)
(* version and cache; the last two are refused.                             *)
EXTENDS Startup

Ordered(c, rules) == [c EXCEPT !.permits = rules]
Cached(c, rel, dir, transfers) ==
    [c EXCEPT !.resume = {[chunkSize |-> 4, bytes |-> 8, transfers |-> transfers,
                           relative |-> rel, directory |-> dir]}]
V2(c) == [c EXCEPT !.protocol = 2]

MCDirectory == <<"home", "rsSync">>
MCConfigs ==
    {Ordered(Default, <<Rule(Others, Full), Rule("a", Read), Rule("a", Deny)>>),
     Cached(Ordered(Default, <<Rule(Others, Read), Rule(Others, Full), Rule("b", Full)>>),
            TRUE, <<"transfers">>, 2),
     [Cached(V2(Default), TRUE, <<"transfers">>, 2) EXCEPT !.attempts = 2],
     Cached(V2(Default), FALSE, <<"var">>, 1),
     Cached(V2(Default), FALSE, <<"var">>, 0),
     [V2(Default) EXCEPT !.permits = <<Rule("a", Full)>>]}
MCSymmetry == Permutations(Procs)

Given(kind, dry, implicit, tree) ==
    [kind |-> kind, dryRun |-> dry, implicit |-> implicit, tree |-> tree]
MCCommands ==
    {Given("identity", FALSE, TRUE, <<>>),
     Given("serve", FALSE, FALSE, <<"srv">>), Given("serve", FALSE, TRUE, <<"home">>),
     Given("client", FALSE, TRUE, <<"home">>), Given("client", TRUE, TRUE, <<"srv">>),
     Given("client", FALSE, FALSE, <<"var", "data">>)}
=============================================================================
