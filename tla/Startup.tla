------------------------------ MODULE Startup ------------------------------
(***************************************************************************)
(* How commands start in one configuration directory (config.rs, `run' of  *)
(* main.rs, `identity' and `cache' of transport.rs): the first run makes a *)
(* minimal configuration and an identity, later ones read what is there.   *)
(* Several processes start, run and die at any time and the user edits the *)
(* configuration; every access to a file is a step.                        *)
(***************************************************************************)
EXTENDS Integers, Sequences, SequencesExt, FiniteSetsExt

CONSTANTS
    Procs, Commands,        \* processes and the commands they are given
    Configs,                \* what the user may write into config.yaml
    Peers,                  \* identities the permissions are asked for
    ConfigDirectory,        \* path of the directory
    ChunkSizes,             \* sizes Description::count accepts
    MaxAttempts,            \* limit of Policy::validate
    MaxEntries,             \* limit of sync.rs
    NoConfig

ASSUME StartupNumbers == MaxAttempts \in Nat /\ MaxEntries \in Nat
ASSUME StartupActors ==
    IsFiniteSet(Procs) /\ \A c \in Commands : c.kind \in {"identity", "serve", "client"}
\* The rules of a configuration are a list.
ASSUME StartupConfigs ==
    /\ "others" \notin Peers
    /\ \A c \in Configs : Len(c.permits) \in Nat /\ DOMAIN c.permits = 1 .. Len(c.permits)

Full == "full"
Read == "read"
Deny == "deny"
Others == "others"

\* Defaults of the fields that are not in the file.
Default ==
    [permits |-> <<>>, timeout |-> 600, announce |-> 600, protocol |-> 1,
     resume |-> {}, attempts |-> 0]
Rule(who, grant) == {[who |-> who, grant |-> grant]}
MinimalConfig == [Default EXCEPT !.permits = <<Rule(Others, Deny)>>]

WithoutResume(c) == c.protocol \in {1, 2}           \* mutation
ProtocolIsUsable(c) ==
    c.protocol \in {1, 2} /\ (c.protocol = 2 => c.resume # {})
ValidConfig(c) ==
    /\ \A k \in DOMAIN c.permits :
          \E w \in Peers \cup {Others}, g \in {Full, Read, Deny} : c.permits[k] = Rule(w, g)
    /\ c.timeout > 0 /\ c.announce > 0
    /\ c.attempts <= MaxAttempts /\ (c.attempts > 0 => c.protocol = 2)
    /\ ProtocolIsUsable(c)
    /\ \A r \in c.resume :
          r.chunkSize \in ChunkSizes /\ r.bytes > 0 /\ r.transfers \in 1 .. MaxEntries - 1

\* The loop of `permission': the first rule for the peer returns, the first
\* rule for others is remembered.
FallbackReturns(peer, found, r) ==                  \* mutation
    IF found.grant # {} THEN found
    ELSE IF r.who \in {Others, peer} THEN [found EXCEPT !.grant = {r.grant}] ELSE found
AskRule(peer, found, r) ==
    IF found.grant # {} THEN found
    ELSE IF r.who = Others
         THEN IF found.fallback = {} THEN [found EXCEPT !.fallback = {r.grant}] ELSE found
    ELSE IF r.who = peer THEN [found EXCEPT !.grant = {r.grant}] ELSE found
RuleAt(c, k) == CHOOSE r \in c.permits[k] : TRUE
Permission(c, peer) ==
    LET After[k \in Nat] == IF k = 0 THEN [grant |-> {}, fallback |-> {}]
                            ELSE AskRule(peer, After[k - 1], RuleAt(c, k))
        found == After[Len(c.permits)]
    IN  CHOOSE g \in {Full, Read, Deny} :
            {g} = IF found.grant # {} THEN found.grant
                  ELSE IF found.fallback # {} THEN found.fallback ELSE {Deny}

CachePath(r) == IF r.relative THEN ConfigDirectory \o r.directory ELSE r.directory
InsideTree(path, tree) == IsPrefix(tree, path)      \* mutation
Overlaps(path, tree) == IsPrefix(tree, path) \/ IsPrefix(path, tree)

-----------------------------------------------------------------------------
VARIABLES
    config,     \* config.yaml, or NoConfig
    identity,   \* the key in the identity file; 0 when there is no file
    made,       \* keys generated so far
    proc        \* each process: where it stands and what it has read

files == <<config, identity>>
vars == <<config, identity, made, proc>>

Idle == [pc |-> "idle", command |-> CHOOSE c \in Commands : TRUE,
         config |-> NoConfig, identity |-> 0, asked |-> 0]

Init ==
    /\ config \in Configs \cup {NoConfig} /\ identity = 0 /\ made = 0
    /\ proc = [p \in Procs |-> Idle]

Goes(p, pc) ==
    proc' = [proc EXCEPT ![p] = IF pc = "failed" THEN [Idle EXCEPT !.pc = pc]
                                ELSE [@ EXCEPT !.pc = pc]]

Command(p, c) ==
    /\ proc[p].pc = "idle"
    /\ proc' = [proc EXCEPT ![p] = [Idle EXCEPT !.pc = "load", !.command = c]]
    /\ UNCHANGED <<config, identity, made>>

Initializes(c) == c.implicit /\ ~c.dryRun
FindConfig(p) ==
    /\ proc[p].pc = "load"
    /\ Goes(p, IF Initializes(proc[p].command) /\ config = NoConfig THEN "persist" ELSE "read")
    /\ UNCHANGED <<config, identity, made>>

\* A temporary file takes the name unless somebody has made it meanwhile.
PersistReplacing(p) ==                              \* mutation
    /\ proc[p].pc = "persist"
    /\ config' = MinimalConfig
    /\ Goes(p, "read")
    /\ UNCHANGED <<identity, made>>
PersistConfig(p) ==
    /\ proc[p].pc = "persist"
    /\ config' = IF config = NoConfig THEN MinimalConfig ELSE config
    /\ Goes(p, "read")
    /\ UNCHANGED <<identity, made>>

ReadConfig(p) ==
    /\ proc[p].pc = "read"
    /\ IF config # NoConfig /\ ValidConfig(config)
       THEN proc' = [proc EXCEPT ![p].pc = "find", ![p].config = config]
       ELSE Goes(p, "failed")
    /\ UNCHANGED <<config, identity, made>>

\* Every command asks for the identity twice before it does anything else.
AskedAgain(p, key) ==                               \* mutation
    proc' = [proc EXCEPT ![p].identity = key, ![p].asked = @ + 1,
                         ![p].pc = IF proc[p].asked < 2 THEN "find" ELSE "check"]
Asked(p, key) ==
    proc' = [proc EXCEPT ![p].identity = key, ![p].asked = @ + 1,
                         ![p].pc = IF proc[p].asked = 0 THEN "find" ELSE "check"]

FindWritable(p) ==                                  \* mutation
    /\ proc[p].pc = "find"
    /\ Goes(p, IF identity # 0 THEN "open" ELSE "make")
    /\ UNCHANGED <<config, identity, made>>
FindIdentity(p) ==
    /\ proc[p].pc = "find"
    /\ Goes(p, IF identity # 0 THEN "open"
               ELSE IF proc[p].command.dryRun THEN "failed" ELSE "make")
    /\ UNCHANGED <<config, identity, made>>

OpenIdentity(p) ==
    /\ proc[p].pc = "open"
    /\ Asked(p, identity)
    /\ UNCHANGED <<config, identity, made>>

\* `to_file' of the Reticulum library replaces whatever has the name.
MakeIdentity(p) ==
    /\ proc[p].pc = "make"
    /\ made' = made + 1 /\ identity' = made + 1
    /\ Asked(p, made + 1)
    /\ UNCHANGED config

\* `serve' prepares a cache when one is configured, a client when it speaks
\* version 2.
UsesCache(p) ==
    LET c == proc[p].command IN
    c.kind = "serve" \/ (c.kind = "client" /\ proc[p].config.protocol = 2)
CheckCache(p) ==
    /\ proc[p].pc = "check"
    /\ Goes(p, IF UsesCache(p) /\ \E r \in proc[p].config.resume :
                                     Overlaps(CachePath(r), proc[p].command.tree)
               THEN "failed" ELSE "running")
    /\ UNCHANGED <<config, identity, made>>

\* A command ends, or its process is killed, anywhere.
Exit(p) ==
    /\ proc[p].pc # "idle"
    /\ proc' = [proc EXCEPT ![p] = Idle]
    /\ UNCHANGED <<config, identity, made>>

\* The user writes or deletes config.yaml; nobody deletes the identity.
EditConfig ==
    /\ \E c \in Configs \cup {NoConfig} : config' = c
    /\ UNCHANGED <<identity, made, proc>>

Step(p) ==
    \/ FindConfig(p) \/ PersistConfig(p) \/ ReadConfig(p)
    \/ FindIdentity(p) \/ OpenIdentity(p) \/ MakeIdentity(p) \/ CheckCache(p)
Next ==
    \/ \E p \in Procs : Step(p) \/ Exit(p)
    \/ \E p \in Procs, c \in Commands : Command(p, c)
    \/ EditConfig
Spec == Init /\ [][Next]_vars

-----------------------------------------------------------------------------
(* Properties.                                                             *)

Running(p) == proc[p].pc = "running"

\* Types; only processes that found no identity at the same time make more
\* than one.
StartupTypeOK ==
    /\ config \in Configs \cup {NoConfig, MinimalConfig}
    /\ identity \in 0 .. made /\ made <= Cardinality(Procs)
    /\ \A p \in Procs :
          /\ proc[p].pc \in {"idle", "load", "persist", "read", "find", "open", "make",
                             "check", "running", "failed"}
          /\ proc[p].config \in Configs \cup {NoConfig, MinimalConfig}
          /\ proc[p].identity \in 0 .. made /\ proc[p].asked \in 0 .. 2

\* README.md:13 "An explicitly selected directory must already contain
\* `config.yaml`": the program writes a configuration only for the implicit
\* directory, and never over one the user has written since it looked.
OnlyMissingConfigIsMade ==
    [][\A p \in Procs : Step(p) /\ config' # config =>
          config = NoConfig /\ config' = MinimalConfig /\ proc[p].command.implicit]_vars

\* README.md:15 "Dry-run requires existing configuration and identity and
\* creates neither", whatever other processes do meanwhile.
DryRunMakesNothing ==
    [][\A p \in Procs : Step(p) /\ proc[p].command.dryRun => UNCHANGED files]_vars

\* README.md:51 "the first matching address wins. `others` is used only if no
\* specific address matches, regardless of its position. If repeated, the
\* first `others` rule wins": what the loop grants a peer is the first rule
\* of the peer, else the first for others, else nothing.
GrantsFirstMatch ==
    \A p \in Procs : Running(p) =>
        LET c == proc[p].config
            For(w) == {k \in DOMAIN c.permits : \E r \in c.permits[k] : r.who = w}
            Granted(k, g) == c.permits[k] \in {Rule(w, g) : w \in Peers \cup {Others}}
        IN  \A q \in Peers : LET g == Permission(c, q) IN
                IF For(q) # {} THEN Granted(Min(For(q)), g)
                ELSE IF For(Others) # {} THEN Granted(Min(For(Others)), g) ELSE g = Deny

\* A running command that speaks version 2 has a cache to unwrap, whose
\* directory neither holds its tree nor lies in it, and which admits a
\* transfer.
Version2HasACache ==
    \A p \in Procs : Running(p) /\ proc[p].config.protocol = 2 =>
        /\ proc[p].config.resume # {}
        /\ proc[p].command.kind # "identity" =>
              \A r \in proc[p].config.resume :
                  /\ ~IsPrefix(CachePath(r), proc[p].command.tree)
                  /\ ~IsPrefix(proc[p].command.tree, CachePath(r))
                  /\ r.bytes > 0 /\ r.transfers > 0

\* Types, and a running command has the permissions and the cache that its
\* configuration says.
StartupInvariant == StartupTypeOK /\ GrantsFirstMatch /\ Version2HasACache

\* What is made is the configuration and identity that were missing, and by
\* a command that may.
OnlyMissingIsMade == OnlyMissingConfigIsMade /\ DryRunMakesNothing
=============================================================================
