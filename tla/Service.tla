------------------------------ MODULE Service ------------------------------
(***************************************************************************)
(* The serving adapter (transport.rs, `Service' and `serve_on'): both      *)
(* protocol engines behind one lock, fed by Links that open, identify,     *)
(* send packets, advertise Resources, make requests, close and fall        *)
(* silent.  An engine is reduced to what the adapter can tell of its       *)
(* session: the Link that owns it, the size of the file it waits for, the  *)
(* file it holds and the time since its last activity; module Server is    *)
(* the version-1 engine in full.                                           *)
(*                                                                         *)
(* The link manager is a library: its Links, their identities, the         *)
(* Resources in transit and the queue of closed Links are modelled from    *)
(* how the adapter uses them.                                              *)
(***************************************************************************)
EXTENDS Integers, FiniteSets, Sequences

CONSTANTS
    Links,          \* Link ids; each is opened at most once
    Permitted,      \* Links whose identity has some permission
    Sizes,          \* sizes of files
    MaxLinks,       \* Links admitted at a time
    Resume,         \* whether version 2 is configured
    Timeout,        \* ticks of silence a session survives
    Queue,          \* capacity of the completion channel
    NoOwner

ASSUME ServiceLinks == IsFiniteSet(Links) /\ Permitted \subseteq Links
ASSUME ServiceNumbers ==
    /\ Sizes \subseteq Nat \ {0} /\ Timeout \in Nat
    /\ MaxLinks \in Nat /\ Queue \in Nat
ASSUME ResumeFlag == Resume \in BOOLEAN

Versions == {1, 2}
Completion == [link : Links, size : Sizes]
Owner == [link : Links, pending : Sizes \cup {0}, received : Sizes \cup {0},
          idle : 0 .. Timeout + 1]
ASSUME NoOwnerAssumption == NoOwner \notin Owner

VARIABLES
    fresh,      \* Link ids not used yet
    live,       \* Links the manager serves
    known,      \* Links with an identity the gate let pass
    version,    \* Service.versions: protocol of a Link, 0 for none
    owner,      \* the session of each engine
    arriving,   \* Resources in transit
    incoming,   \* completions not yet handed to an engine
    closing     \* closed Links whose notice is still queued

vars == <<fresh, live, known, version, owner, arriving, incoming, closing>>

ServiceTypeOK ==
    /\ fresh \subseteq Links /\ live \subseteq Links \ fresh
    /\ known \subseteq live /\ closing \subseteq Links \ (live \cup fresh)
    /\ version \in [Links -> Versions \cup {0}]
    /\ owner \in [Versions -> Owner \cup {NoOwner}]
    /\ arriving \subseteq Completion
    /\ incoming \in Seq(Completion)

Init ==
    /\ fresh = Links /\ live = {} /\ known = {} /\ closing = {}
    /\ version = [l \in Links |-> 0]
    /\ owner = [v \in Versions |-> NoOwner]
    /\ arriving = {} /\ incoming = <<>>

Active(v) == owner[v] # NoOwner
Owns(l, v) == IF Active(v) THEN owner[v].link = l ELSE FALSE
Other(v) == 3 - v

----------------------------------------------------------------------------
(***************************************************************************)
(* Operations on the pair of engines.                                      *)
(***************************************************************************)
\* A completion goes to version 2 if its Link is pinned to it, else to
\* version 1.
Route(f) == IF version[f.link] = 2 THEN 2 ELSE 1

\* receive: an engine without a file keeps a completion that fits the pending
\* one; all that fit have its size, so it does not matter which is first.
UsefulAnySize(v, f) == Route(f) = v /\ Owns(f.link, v) /\ owner[v].pending # 0 \* mutation
Useful(v, f) ==
    Route(f) = v /\ Owns(f.link, v) /\ f.size = owner[v].pending

UsefulAt(v) == {k \in 1 .. Len(incoming) : Useful(v, incoming[k])}
Drained ==
    [v \in Versions |->
        IF Active(v) /\ UsefulAt(v) # {} /\ owner[v].received = 0
          THEN [owner[v] EXCEPT !.received = incoming[CHOOSE k \in UsefulAt(v) : TRUE].size]
          ELSE owner[v]]

\* disconnect: what the Link owns ends, in either engine.
DroppedAny(o, l) == [v \in Versions |-> NoOwner]                \* mutation
Dropped(o, l) ==
    [v \in Versions |-> IF o[v] # NoOwner /\ Owns(l, v) THEN NoOwner ELSE o[v]]

\* touch: the lease of what the Link owns is renewed.
Touched(o, l) ==
    [v \in Versions |->
        IF o[v] # NoOwner /\ Owns(l, v) THEN [o[v] EXCEPT !.idle = 0] ELSE o[v]]

\* accepts_file; only version 2 looks at whether a file is already held.
AcceptsFile(o, f) ==
    \E v \in Versions :
        /\ Owns(f.link, v) /\ o[v].pending = f.size
        /\ v = 2 => o[v].received = 0

----------------------------------------------------------------------------
(***************************************************************************)
(* The link manager.                                                       *)
(***************************************************************************)
ForgetKeepingIdentity(S) ==                                     \* mutation
    /\ live' = live \ S /\ UNCHANGED known
    /\ closing' = closing \cup (live \cap S)
    /\ arriving' = {f \in arriving : f.link \notin S}
Forget(S) ==
    /\ live' = live \ S /\ known' = known \ S
    /\ closing' = closing \cup (live \cap S)
    /\ arriving' = {f \in arriving : f.link \notin S}

LinkRequest(l) ==
    /\ l \in fresh /\ Cardinality(live) < MaxLinks
    /\ fresh' = fresh \ {l} /\ live' = live \cup {l}
    /\ UNCHANGED <<known, version, owner, arriving, incoming, closing>>

\* The gate lets only permitted identities pass.
Identify(l) ==
    /\ l \in live \cap Permitted /\ known' = known \cup {l}
    /\ UNCHANGED <<fresh, live, version, owner, arriving, incoming, closing>>

\* The peer closes the Link, or the manager gives it up.
LinkCloses(l) ==
    /\ l \in live /\ Forget({l})
    /\ UNCHANGED <<fresh, version, owner, incoming>>

\* A Resource is complete and verified; a full channel makes it wait.
Complete(f) ==
    /\ f \in arriving /\ Len(incoming) < Queue
    /\ arriving' = arriving \ {f} /\ incoming' = Append(incoming, f)
    /\ UNCHANGED <<fresh, live, known, version, owner, closing>>

ResourceFails(f) ==
    /\ f \in arriving /\ arriving' = arriving \ {f}
    /\ UNCHANGED <<fresh, live, known, version, owner, incoming, closing>>

----------------------------------------------------------------------------
(***************************************************************************)
(* The adapter.                                                            *)
(***************************************************************************)
\* admit, for a data packet: completions are handed over first, whoever
\* sent the packet; only an authorized Link renews its lease.
Packet(l) ==
    /\ l \in live
    /\ owner' = IF l \in known THEN Touched(Drained, l) ELSE Drained
    /\ incoming' = <<>>
    /\ UNCHANGED <<fresh, live, known, version, arriving, closing>>

\* admit, for the advertisement of a Resource that is not a request.
Advertise(f) ==
    /\ f.link \in known
    /\ owner' = Touched(Drained, f.link) /\ incoming' = <<>>
    /\ arriving' = IF AcceptsFile(Drained, f) THEN arriving \cup {f} ELSE arriving
    /\ UNCHANGED <<fresh, live, known, version, closing>>

\* An error reply ends what the Link owns.
Fail(o, l) == owner' = Dropped(o, l)

\* request, up to the engines: an unidentified Link and a Link that changes
\* its protocol are refused before any state changes.
Unidentified(l) ==
    /\ l \in live \ known
    /\ Fail(owner, l)
    /\ UNCHANGED <<fresh, live, known, version, arriving, incoming, closing>>

\* Also a request on a path that is no protocol's.
WrongProtocol(l) ==
    /\ l \in known /\ Fail(owner, l)
    /\ UNCHANGED <<fresh, live, known, version, arriving, incoming, closing>>

Pins(l, v) == l \in known /\ version[l] \in {0, v}

\* Past that point the Link is pinned and completions are handed over.
Pinned(l, v) ==
    /\ Pins(l, v)
    /\ version' = [version EXCEPT ![l] = v] /\ incoming' = <<>>
    /\ UNCHANGED <<fresh, live, known, arriving, closing>>

ReachableAlways(v) == v = 2 => Resume                           \* mutation
Reachable(v) == ~Active(Other(v)) /\ (v = 2 => Resume)

\* A session right after a request: file pending, file held, no silence.
At(l, pending, received) ==
    [link |-> l, pending |-> pending, received |-> received, idle |-> 0]

\* START opens a session if the engine has none.
Start(l, v) ==
    /\ Pinned(l, v) /\ Reachable(v) /\ ~Active(v)
    /\ owner' = [Drained EXCEPT ![v] = At(l, 0, 0)]

\* A request of the owner that succeeds: a push begins or commits a file, or
\* the session goes on, or FINISH ends it.
Begin(l, v, size) ==
    /\ Pinned(l, v) /\ Reachable(v) /\ Owns(l, v) /\ Drained[v].pending = 0
    /\ owner' = [Drained EXCEPT ![v] = At(l, size, @.received)]
Commit(l, v) ==
    /\ Pinned(l, v) /\ Reachable(v) /\ Owns(l, v) /\ Drained[v].received # 0
    /\ owner' = [Drained EXCEPT ![v] = At(l, 0, 0)]
Proceed(l, v) ==
    /\ Pinned(l, v) /\ Reachable(v) /\ Owns(l, v)
    /\ owner' = [Drained EXCEPT ![v] = At(l, @.pending, @.received)]
Finish(l, v) ==
    /\ Pinned(l, v) /\ Reachable(v) /\ Owns(l, v)
    /\ owner' = [Drained EXCEPT ![v] = NoOwner]

\* Busy, version 2 not configured, a message that does not decode, or any
\* error of the engine.
Refuse(l, v) == Pinned(l, v) /\ Fail(Drained, l)

Request(l) ==
    \/ Unidentified(l)
    \/ WrongProtocol(l)
    \/ \E v \in Versions :
          \/ Start(l, v)
          \/ \E size \in Sizes : Begin(l, v, size)
          \/ Commit(l, v)
          \/ Proceed(l, v)
          \/ Finish(l, v)
          \/ Refuse(l, v)

\* The maintenance timer: completions, then the leases.  Both engines are
\* expired, and the Link of one of them is closed.
Expired(v) == IF Active(v) THEN owner[v].idle > Timeout ELSE FALSE
ExpiredLinkOfFirst == IF Expired(1) THEN {owner[1].link} ELSE {} \* mutation
ExpiredLink == IF Expired(1) THEN {owner[1].link}
               ELSE IF Expired(2) THEN {owner[2].link} ELSE {}
Maintain ==
    /\ owner' = [v \in Versions |-> IF Expired(v) THEN NoOwner ELSE Drained[v]]
    /\ incoming' = <<>>
    /\ Forget(ExpiredLink)
    /\ UNCHANGED <<fresh, version>>

\* The notice of a closed Link.
ClosedKeepingSession(l) ==                                      \* mutation
    /\ l \in closing /\ closing' = closing \ {l}
    /\ version' = [version EXCEPT ![l] = 0]
    /\ UNCHANGED <<fresh, live, known, owner, arriving, incoming>>
ClosedKeepingVersion(l) ==                                      \* mutation
    /\ l \in closing /\ closing' = closing \ {l}
    /\ owner' = Dropped(owner, l)
    /\ UNCHANGED <<fresh, live, known, version, arriving, incoming>>
Closed(l) ==
    /\ l \in closing /\ closing' = closing \ {l}
    /\ owner' = Dropped(owner, l)
    /\ version' = [version EXCEPT ![l] = 0]
    /\ UNCHANGED <<fresh, live, known, arriving, incoming>>

\* Time passes for whoever is active.
Tick ==
    /\ \E v \in Versions : IF Active(v) THEN owner[v].idle <= Timeout ELSE FALSE
    /\ owner' = [v \in Versions |->
                   IF Active(v) THEN [owner[v] EXCEPT !.idle = IF @ > Timeout THEN @ ELSE @ + 1]
                                ELSE NoOwner]
    /\ UNCHANGED <<fresh, live, known, version, arriving, incoming, closing>>

Next ==
    \/ \E l \in Links :
         LinkRequest(l) \/ Identify(l) \/ LinkCloses(l) \/ Packet(l) \/ Request(l) \/ Closed(l)
    \/ \E f \in Completion : Complete(f) \/ ResourceFails(f) \/ Advertise(f)
    \/ Maintain
    \/ Tick

Spec == Init /\ [][Next]_vars

----------------------------------------------------------------------------
(***************************************************************************)
(* Properties.                                                             *)
(***************************************************************************)
\* The two protocol engines never own the export at the same time.
OneOwner == ~(Active(1) /\ Active(2))

\* A session belongs to a Link that is pinned to its engine, and that is
\* still served or whose notice is still to come: no session is orphaned.
OwnerIsServed ==
    \A v \in Versions : Active(v) =>
        /\ version[owner[v].link] = v
        /\ owner[v].link \in known \cup closing

\* The protocol of a Link is remembered only while the Link can matter.
NoForgottenPins ==
    \A l \in Links : version[l] # 0 => l \in known \cup closing

\* Whatever stays in the channel and whatever order it is drained in, an
\* engine holds a file only while one of that size is pending.
HeldFileIsPending ==
    \A v \in Versions :
        Active(v) => owner[v].received \in {0, owner[v].pending}

\* Only one Link is closed when leases run out, and that is enough: every
\* session that expires has its Link closed with it.
ExpiredLinksClose ==
    [][Maintain => \A v \in Versions :
          Expired(v) => owner[v].link \in closing' /\ owner[v].link \notin live']_vars

\* A request that fails, of any Link and in any protocol, ends no session
\* of another Link.
OthersUndisturbed ==
    [][\A l \in Links : Request(l) => \A v \in Versions :
          Active(v) /\ ~Owns(l, v) =>
              owner'[v] # NoOwner /\ owner'[v].link = owner[v].link]_vars

\* Types, one owner that is served, no pin and no file left over.
ServiceInvariant ==
    /\ ServiceTypeOK
    /\ OneOwner /\ OwnerIsServed /\ NoForgottenPins /\ HeldFileIsPending
=============================================================================
