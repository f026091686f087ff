---------------------------- MODULE ServiceProofs ----------------------------
(***************************************************************************)
(* Proofs about the serving adapter, for every set of Links, every         *)
(* permission, size, lease and queue.                                      *)
(***************************************************************************)
EXTENDS Service, TLAPS

\* x is what engine v may hold: nothing, or a session of a Link pinned to v
\* that is served or about to be noticed as closed, with a file only while
\* one of that size is pending.
EngineOK(v, x, ver, served) ==
    x # NoOwner =>
        /\ x \in Owner
        /\ x.received \in {0, x.pending}
        /\ ver[x.link] = v
        /\ x.link \in served

Served == known \cup closing

\* The inductive invariant.
IInv ==
    /\ ServiceTypeOK
    /\ \A v \in Versions : EngineOK(v, owner[v], version, Served)
    /\ OneOwner
    /\ NoForgottenPins

\* y may stand in for x after a step that starts no session: it is the same
\* Link's session, or nothing.
Kept(y, x) == y # NoOwner => x # NoOwner /\ y \in Owner /\ y.link = x.link
                             /\ y.received \in {0, y.pending}

(***************************************************************************)
(* Updates of one session.                                                 *)
(***************************************************************************)
\* Handing over a completion sets the file held and nothing else.
LEMMA SetReceived ==
    ASSUME NEW x \in Owner, NEW n \in Sizes \cup {0}
    PROVE  LET y == [x EXCEPT !.received = n]
           IN  y \in Owner /\ y.link = x.link /\ y.pending = x.pending /\ y.received = n
BY DEF Owner

\* Renewing or spending a lease changes nothing but the lease.
LEMMA SetIdle ==
    ASSUME NEW x \in Owner, NEW n \in 0 .. Timeout + 1
    PROVE  LET y == [x EXCEPT !.idle = n]
           IN  y \in Owner /\ y.link = x.link /\ y.pending = x.pending
               /\ y.received = x.received
BY DEF Owner

\* A session right after a request is a session.
LEMMA AtType ==
    ASSUME NEW l \in Links, NEW p \in Sizes \cup {0}, NEW n \in Sizes \cup {0}
    PROVE  /\ At(l, p, n) \in Owner /\ At(l, p, n).link = l
           /\ At(l, p, n).pending = p /\ At(l, p, n).received = n
BY ServiceNumbers DEF At, Owner

\* Draining the channel keeps every session, its Link and its pending file,
\* and gives it at most a file of the pending size.
LEMMA DrainedKeeps ==
    ASSUME IInv, NEW v \in Versions
    PROVE  /\ Kept(Drained[v], owner[v])
           /\ owner[v] # NoOwner => Drained[v] # NoOwner /\ Drained[v].pending = owner[v].pending
<1>1. CASE Active(v) /\ UsefulAt(v) # {} /\ owner[v].received = 0
  <2> DEFINE k == CHOOSE k \in UsefulAt(v) : TRUE
  <2>1. k \in UsefulAt(v)
    BY <1>1
  <2>2. k \in 1 .. Len(incoming) /\ incoming[k].size = owner[v].pending
    BY <2>1 DEF UsefulAt, Useful
  <2>3. incoming[k] \in Completion
    <3> HIDE DEF k
    <3> QED BY <2>2 DEF IInv, ServiceTypeOK
  <2>4. owner[v] \in Owner /\ owner[v] # NoOwner
    BY <1>1 DEF IInv, EngineOK, Active
  <2>5. Drained[v] = [owner[v] EXCEPT !.received = incoming[k].size]
    BY <1>1 DEF Drained
  <2> HIDE DEF k
  <2>6. incoming[k].size \in Sizes \cup {0}
    BY <2>3 DEF Completion
  <2> HIDE DEF Drained
  <2>7. /\ Drained[v] \in Owner /\ Drained[v].link = owner[v].link
        /\ Drained[v].pending = owner[v].pending
        /\ Drained[v].received = incoming[k].size
    BY <2>4, <2>5, <2>6, SetReceived
  <2>8. Drained[v] # NoOwner
    BY <2>7, NoOwnerAssumption
  <2> QED
    BY <2>2, <2>4, <2>7, <2>8 DEF Kept
<1>2. CASE ~(Active(v) /\ UsefulAt(v) # {} /\ owner[v].received = 0)
  <2>1. Drained[v] = owner[v]
    BY <1>2 DEF Drained
  <2> QED
    BY <2>1 DEF IInv, EngineOK, Kept
<1> QED
  BY <1>1, <1>2

\* disconnect keeps every session of other Links and leaves none of l's.
LEMMA DroppedKeeps ==
    ASSUME IInv, NEW l \in Links, NEW o, NEW v \in Versions,
           Kept(o[v], owner[v])
    PROVE  /\ Kept(Dropped(o, l)[v], owner[v])
           /\ Dropped(o, l)[v] # NoOwner => owner[v].link # l
BY DEF Dropped, Owns, Active, Kept

\* touch keeps every session.
LEMMA TouchedKeeps ==
    ASSUME IInv, NEW l \in Links, NEW o, NEW v \in Versions,
           Kept(o[v], owner[v])
    PROVE  Kept(Touched(o, l)[v], owner[v])
<1>1. CASE o[v] # NoOwner /\ Owns(l, v)
  <2>1. Touched(o, l)[v] = [o[v] EXCEPT !.idle = 0]
    BY <1>1 DEF Touched
  <2>2. o[v] \in Owner
    BY <1>1 DEF Kept
  <2>3. 0 \in 0 .. Timeout + 1
    BY ServiceNumbers
  <2>4. /\ Touched(o, l)[v] \in Owner /\ Touched(o, l)[v].link = o[v].link
        /\ Touched(o, l)[v].pending = o[v].pending
        /\ Touched(o, l)[v].received = o[v].received
    BY <2>1, <2>2, <2>3, SetIdle
  <2> QED
    BY <1>1, <2>4 DEF Kept
<1>2. CASE ~(o[v] # NoOwner /\ Owns(l, v))
  BY <1>2 DEF Touched
<1> QED
  BY <1>1, <1>2

(***************************************************************************)
(* Steps.                                                                  *)
(***************************************************************************)
\* ServiceTypeOK without the engines.
Frame ==
    /\ fresh \subseteq Links /\ live \subseteq Links \ fresh
    /\ known \subseteq live /\ closing \subseteq Links \ (live \cup fresh)
    /\ version \in [Links -> Versions \cup {0}]
    /\ arriving \subseteq Completion
    /\ incoming \in Seq(Completion)

\* A step that starts no session preserves the invariant if the sessions it
\* keeps belong to Links that stay pinned and served.
LEMMA KeptStep ==
    ASSUME IInv, Frame', NoForgottenPins',
           owner' = [v \in Versions |-> owner'[v]],
           \A v \in Versions : Kept(owner'[v], owner[v]),
           \A v \in Versions : owner'[v] # NoOwner =>
               version'[owner[v].link] = version[owner[v].link] /\ owner[v].link \in Served'
    PROVE  IInv'
<1>1. \A v \in Versions : owner'[v] \in Owner \cup {NoOwner}
  BY DEF Kept
<1>2. owner' \in [Versions -> Owner \cup {NoOwner}]
  BY <1>1
<1>3. ServiceTypeOK'
  BY <1>2 DEF Frame, ServiceTypeOK
<1>4. \A v \in Versions : EngineOK(v, owner'[v], version', Served')
  BY DEF IInv, EngineOK, Kept
<1>5. OneOwner'
  BY DEF IInv, OneOwner, Active, Kept, Versions
<1> QED
  BY <1>3, <1>4, <1>5 DEF IInv

\* Every session stands in for itself.
LEMMA KeptSame ==
    ASSUME IInv, NEW v \in Versions
    PROVE  Kept(owner[v], owner[v])
BY DEF IInv, EngineOK, Kept

\* Links opening and identifying themselves, Resources ending.
LEMMA ManagerInv ==
    ASSUME IInv,
           \/ \E l \in Links : LinkRequest(l) \/ Identify(l)
           \/ \E f \in Completion : Complete(f) \/ ResourceFails(f)
    PROVE  IInv'
<1>1. owner' = owner /\ version' = version /\ closing' = closing /\ known \subseteq known'
  BY DEF LinkRequest, Identify, Complete, ResourceFails
<1>2. Frame'
  <2>1. CASE \E l \in Links : LinkRequest(l) \/ Identify(l)
    BY <2>1 DEF LinkRequest, Identify, IInv, ServiceTypeOK, Frame
  <2>2. CASE \E f \in Completion : Complete(f) \/ ResourceFails(f)
    <3>1. PICK f \in Completion : Complete(f) \/ ResourceFails(f)
      BY <2>2
    <3>2. incoming' = Append(incoming, f) \/ incoming' = incoming
      BY <3>1 DEF Complete, ResourceFails
    <3>3. incoming' \in Seq(Completion)
      BY <3>2 DEF IInv, ServiceTypeOK
    <3>4. /\ arriving' \subseteq arriving
          /\ UNCHANGED <<fresh, live, known, version, closing>>
      BY <3>1 DEF Complete, ResourceFails
    <3> QED
      BY <3>3, <3>4 DEF IInv, ServiceTypeOK, Frame
  <2> QED
    BY <2>1, <2>2
<1>3. NoForgottenPins'
  BY <1>1 DEF IInv, NoForgottenPins
<1>4. owner' = [v \in Versions |-> owner'[v]]
  BY <1>1 DEF IInv, ServiceTypeOK
<1>5. \A v \in Versions : Kept(owner'[v], owner[v])
  BY <1>1, KeptSame
<1>6. \A v \in Versions : owner'[v] # NoOwner => owner[v].link \in Served'
  BY <1>1 DEF IInv, EngineOK, Served
<1> QED
  BY <1>1, <1>2, <1>3, <1>4, <1>5, <1>6, KeptStep

\* A Link that closes keeps its session until its notice is handled.
LEMMA LinkClosesInv ==
    ASSUME IInv, NEW l \in Links, LinkCloses(l)
    PROVE  IInv'
<1>1. owner' = owner /\ version' = version /\ Served \subseteq Served'
  BY DEF LinkCloses, Forget, Served, IInv, ServiceTypeOK
<1>2. Frame'
  BY DEF LinkCloses, Forget, IInv, ServiceTypeOK, Frame
<1>3. NoForgottenPins'
  BY <1>1 DEF IInv, NoForgottenPins, Served
<1>4. owner' = [v \in Versions |-> owner'[v]]
  BY <1>1 DEF IInv, ServiceTypeOK
<1>5. \A v \in Versions : Kept(owner'[v], owner[v])
  BY <1>1, KeptSame
<1>6. \A v \in Versions : owner'[v] # NoOwner => owner[v].link \in Served'
  BY <1>1 DEF IInv, EngineOK
<1> QED
  BY <1>1, <1>2, <1>3, <1>4, <1>5, <1>6, KeptStep

\* Packets and advertisements hand completions over and renew leases.
LEMMA AdmitInv ==
    ASSUME IInv,
           \/ \E l \in Links : Packet(l)
           \/ \E f \in Completion : Advertise(f)
    PROVE  IInv'
<1>1. version' = version /\ Served' = Served /\ incoming' = <<>>
  BY DEF Packet, Advertise, Served
<1>2. Frame'
  <2>1. CASE \E l \in Links : Packet(l)
    BY <2>1 DEF Packet, IInv, ServiceTypeOK, Frame
  <2>2. CASE \E f \in Completion : Advertise(f)
    BY <2>2 DEF Advertise, IInv, ServiceTypeOK, Frame
  <2> QED
    BY <2>1, <2>2
<1>3. NoForgottenPins'
  BY <1>1 DEF IInv, NoForgottenPins, Served
<1>4. PICK l \in Links : owner' = Drained \/ owner' = Touched(Drained, l)
  BY DEF Packet, Advertise, Completion
<1>5. owner' = [v \in Versions |-> owner'[v]]
  BY <1>4 DEF Drained, Touched
<1>6. \A v \in Versions : Kept(owner'[v], owner[v])
  BY <1>4, DrainedKeeps, TouchedKeeps
<1>7. \A v \in Versions : owner'[v] # NoOwner => owner[v].link \in Served'
  BY <1>1, <1>6 DEF IInv, EngineOK, Kept
<1> QED
  BY <1>1, <1>2, <1>3, <1>5, <1>6, <1>7, KeptStep

\* A refused request ends the sessions of its Link, whatever refused it.
LEMMA FailureInv ==
    ASSUME IInv, NEW l \in Links,
           \/ Unidentified(l)
           \/ WrongProtocol(l)
           \/ \E v \in Versions : Refuse(l, v)
    PROVE  IInv'
<1>1. Served' = Served /\ \A m \in Links \ {l} : version'[m] = version[m]
  BY DEF Unidentified, WrongProtocol, Refuse, Pinned, Served, IInv, ServiceTypeOK
<1>2. Frame'
  <2>1. CASE Unidentified(l) \/ WrongProtocol(l)
    BY <2>1 DEF Unidentified, WrongProtocol, IInv, ServiceTypeOK, Frame
  <2>2. CASE \E v \in Versions : Refuse(l, v)
    BY <2>2 DEF Refuse, Pinned, IInv, ServiceTypeOK, Frame
  <2> QED
    BY <2>1, <2>2
<1>3. NoForgottenPins'
  <2>1. CASE Unidentified(l) \/ WrongProtocol(l)
    BY <2>1 DEF Unidentified, WrongProtocol, IInv, NoForgottenPins
  <2>2. CASE \E v \in Versions : Refuse(l, v)
    BY <2>2 DEF Refuse, Pinned, Pins, IInv, ServiceTypeOK, NoForgottenPins
  <2> QED
    BY <2>1, <2>2
<1>4. PICK o : owner' = Dropped(o, l) /\ (o = owner \/ o = Drained)
  BY DEF Unidentified, WrongProtocol, Refuse, Fail
<1>5. \A v \in Versions : Kept(o[v], owner[v])
  BY <1>4, KeptSame, DrainedKeeps
<1>6. owner' = [v \in Versions |-> owner'[v]]
  BY <1>4 DEF Dropped
<1>7. \A v \in Versions : Kept(owner'[v], owner[v])
                          /\ (owner'[v] # NoOwner => owner[v].link # l)
  BY <1>4, <1>5, DroppedKeeps
<1>8. \A v \in Versions : owner'[v] # NoOwner =>
          owner[v].link \in Served /\ owner[v].link \in Links
  BY <1>7 DEF IInv, EngineOK, Kept, Owner
<1> QED
  BY <1>1, <1>2, <1>3, <1>6, <1>7, <1>8, KeptStep

\* What pinning a Link changes: its protocol, and the channel is empty.
LEMMA PinnedFrame ==
    ASSUME IInv, NEW l \in Links, NEW v \in Versions, Pinned(l, v)
    PROVE  /\ Frame' /\ NoForgottenPins' /\ Served' = Served
           /\ l \in known /\ version' = [version EXCEPT ![l] = v] /\ version[l] \in {0, v}
<1>1. l \in known /\ version' = [version EXCEPT ![l] = v] /\ version[l] \in {0, v}
      /\ incoming' = <<>> /\ UNCHANGED <<fresh, live, known, arriving, closing>>
  BY DEF Pinned, Pins
<1>2. Frame'
  BY <1>1 DEF IInv, ServiceTypeOK, Frame
<1>3. NoForgottenPins'
  BY <1>1 DEF IInv, ServiceTypeOK, NoForgottenPins
<1> QED
  BY <1>1, <1>2, <1>3 DEF Served

\* START of a session while neither engine has one.
LEMMA StartInv ==
    ASSUME IInv, NEW l \in Links, NEW v \in Versions, Start(l, v)
    PROVE  IInv'
<1>1. Pinned(l, v) /\ Other(v) \in Versions /\ \A w \in Versions : owner[w] = NoOwner
  BY DEF Start, Reachable, Other, Versions, Active
<1>2. /\ Frame' /\ NoForgottenPins' /\ Served' = Served /\ l \in Served
      /\ version'[l] = v
  <2>1. /\ Frame' /\ NoForgottenPins' /\ Served' = Served
        /\ l \in known /\ version' = [version EXCEPT ![l] = v]
    BY <1>1, PinnedFrame
  <2>2. version \in [Links -> Versions \cup {0}]
    BY DEF IInv, ServiceTypeOK
  <2> QED
    BY <2>1, <2>2 DEF Served
<1>3. \A w \in Versions : Drained[w] = NoOwner
  <2> TAKE w \in Versions
  <2>1. Kept(Drained[w], owner[w])
    BY DrainedKeeps
  <2> QED
    BY <1>1, <2>1 DEF Kept
<1>4. owner' = [w \in Versions |-> IF w = v THEN At(l, 0, 0) ELSE NoOwner]
  <2>1. DOMAIN Drained = Versions /\ owner' = [Drained EXCEPT ![v] = At(l, 0, 0)]
    BY DEF Start, Drained
  <2> QED
    BY <1>3, <2>1
<1>5. /\ At(l, 0, 0) \in Owner /\ At(l, 0, 0).link = l
      /\ At(l, 0, 0).received = 0
  BY AtType
<1>6. ServiceTypeOK'
  BY <1>2, <1>4, <1>5 DEF Frame, ServiceTypeOK
<1>7. \A w \in Versions : EngineOK(w, owner'[w], version', Served')
  BY <1>2, <1>4, <1>5 DEF EngineOK
<1>8. OneOwner'
  BY <1>4 DEF OneOwner, Active, Versions
<1> QED
  BY <1>2, <1>6, <1>7, <1>8 DEF IInv

\* A request of the owner keeps or ends its session.
LEMMA ProgressInv ==
    ASSUME IInv, NEW l \in Links, NEW v \in Versions,
           \/ \E size \in Sizes : Begin(l, v, size)
           \/ Commit(l, v)
           \/ Proceed(l, v)
           \/ Finish(l, v)
    PROVE  IInv'
<1>1. Pinned(l, v) /\ Reachable(v) /\ Owns(l, v)
  BY DEF Begin, Commit, Proceed, Finish
<1>2. owner[v] # NoOwner /\ owner[v].link = l
  BY <1>1 DEF Owns, Active
<1>3. \A w \in Versions \ {v} : owner[w] = NoOwner /\ Drained[w] = NoOwner
  <2>1. \A w \in Versions \ {v} : owner[w] = NoOwner
    BY <1>1 DEF Reachable, Other, Active, Versions
  <2> QED
    BY <2>1, DrainedKeeps DEF Kept
<1>4. /\ Drained[v] \in Owner /\ Drained[v].received \in {0, Drained[v].pending}
  BY <1>2, DrainedKeeps DEF Kept
<1>5. /\ Drained[v].pending \in Sizes \cup {0} /\ Drained[v].received \in Sizes \cup {0}
  BY <1>4 DEF Owner
<1>6. PICK x : /\ owner' = [Drained EXCEPT ![v] = x]
               /\ \/ x = NoOwner
                  \/ \E p \in Sizes \cup {0}, n \in Sizes \cup {0} :
                        x = At(l, p, n) /\ n \in {0, p}
  <2>1. CASE \E size \in Sizes : Begin(l, v, size)
    <3>1. PICK size \in Sizes : Begin(l, v, size)
      BY <2>1
    <3>2. Drained[v].received = 0
      BY <1>4, <3>1 DEF Begin
    <3>3. owner' = [Drained EXCEPT ![v] = At(l, size, Drained[v].received)]
      BY <3>1 DEF Begin
    <3> QED
      BY <3>2, <3>3
  <2>2. CASE Commit(l, v)
    BY <2>2 DEF Commit
  <2>3. CASE Proceed(l, v)
    BY <2>3, <1>4, <1>5 DEF Proceed
  <2>4. CASE Finish(l, v)
    BY <2>4 DEF Finish
  <2> QED
    BY <2>1, <2>2, <2>3, <2>4
<1>7. owner' = [w \in Versions |-> IF w = v THEN x ELSE NoOwner]
  BY <1>3, <1>6 DEF Drained
<1>8. Kept(x, owner[v])
  BY <1>2, <1>6, AtType DEF Kept
<1>9. \A w \in Versions : Kept(owner'[w], owner[w])
  BY <1>3, <1>7, <1>8 DEF Kept
<1>10. /\ Frame' /\ NoForgottenPins' /\ Served' = Served
       /\ version'[l] = v /\ version[l] = v /\ l \in Served
  BY <1>1, <1>2, PinnedFrame DEF IInv, EngineOK, ServiceTypeOK
<1>11. \A w \in Versions : owner'[w] # NoOwner =>
          version'[owner[w].link] = version[owner[w].link] /\ owner[w].link \in Served'
  BY <1>2, <1>7, <1>10
<1>12. owner' = [w \in Versions |-> owner'[w]]
  BY <1>7
<1> QED
  BY <1>9, <1>10, <1>11, <1>12, KeptStep

\* The maintenance timer ends sessions, and the Link it closes is noticed.
LEMMA MaintainInv ==
    ASSUME IInv, Maintain
    PROVE  IInv'
<1>1. version' = version /\ incoming' = <<>> /\ Served \subseteq Served' /\ fresh' = fresh
  BY DEF Maintain, Forget, Served, IInv, ServiceTypeOK
<1>2. Frame'
  BY <1>1 DEF Maintain, Forget, IInv, ServiceTypeOK, Frame
<1>3. NoForgottenPins'
  BY <1>1 DEF IInv, NoForgottenPins, Served
<1>4. \A v \in Versions : owner'[v] = NoOwner \/ owner'[v] = Drained[v]
  BY DEF Maintain
<1>5. \A v \in Versions : Kept(owner'[v], owner[v])
  BY <1>4, DrainedKeeps DEF Kept
<1>6. \A v \in Versions : owner'[v] # NoOwner => owner[v].link \in Served'
  BY <1>1, <1>5 DEF IInv, EngineOK, Kept
<1>7. owner' = [v \in Versions |-> owner'[v]]
  BY DEF Maintain
<1> QED
  BY <1>1, <1>2, <1>3, <1>5, <1>6, <1>7, KeptStep

\* The notice of a closed Link ends its session before its pin is forgotten.
LEMMA ClosedInv ==
    ASSUME IInv, NEW l \in Links, Closed(l)
    PROVE  IInv'
<1>1. /\ version' = [version EXCEPT ![l] = 0] /\ closing' = closing \ {l}
      /\ owner' = Dropped(owner, l) /\ UNCHANGED <<fresh, live, known, arriving, incoming>>
  BY DEF Closed
<1>2. Frame'
  BY <1>1 DEF IInv, ServiceTypeOK, Frame
<1>3. NoForgottenPins'
  BY <1>1 DEF IInv, ServiceTypeOK, NoForgottenPins
<1>4. \A v \in Versions : Kept(owner'[v], owner[v])
                          /\ (owner'[v] # NoOwner => owner[v].link # l)
  BY <1>1, KeptSame, DroppedKeeps
<1>5. \A v \in Versions : owner'[v] # NoOwner =>
          owner[v].link \in Served /\ owner[v].link \in Links
  BY <1>4 DEF IInv, EngineOK, Kept, Owner
<1>6. \A v \in Versions : owner'[v] # NoOwner =>
          version'[owner[v].link] = version[owner[v].link] /\ owner[v].link \in Served'
  BY <1>1, <1>4, <1>5 DEF Served, IInv, ServiceTypeOK
<1>7. owner' = [v \in Versions |-> owner'[v]]
  BY <1>1 DEF Dropped
<1> QED
  BY <1>2, <1>3, <1>4, <1>6, <1>7, KeptStep

\* Time spends leases and nothing else.
LEMMA TickInv ==
    ASSUME IInv, Tick
    PROVE  IInv'
<1>1. /\ version' = version /\ Served' = Served
      /\ UNCHANGED <<fresh, live, known, version, arriving, incoming, closing>>
  BY DEF Tick, Served
<1>2. Frame' /\ NoForgottenPins'
  BY <1>1 DEF IInv, ServiceTypeOK, Frame, NoForgottenPins
<1>3. owner' = [v \in Versions |-> owner'[v]]
  BY DEF Tick
<1>4. ASSUME NEW v \in Versions
      PROVE  Kept(owner'[v], owner[v])
  <2>1. CASE owner[v] = NoOwner
    BY <2>1 DEF Tick, Active, Kept
  <2>2. CASE owner[v] # NoOwner
    <3> DEFINE n == IF owner[v].idle > Timeout THEN owner[v].idle ELSE owner[v].idle + 1
    <3>1. owner[v] \in Owner /\ owner[v].received \in {0, owner[v].pending}
      BY <2>2 DEF IInv, EngineOK
    <3>2. n \in 0 .. Timeout + 1
      BY <3>1, ServiceNumbers DEF Owner
    <3>3. owner'[v] = [owner[v] EXCEPT !.idle = n]
      BY <2>2 DEF Tick, Active
    <3> HIDE DEF n
    <3>4. /\ owner'[v] \in Owner /\ owner'[v].link = owner[v].link
          /\ owner'[v].pending = owner[v].pending
          /\ owner'[v].received = owner[v].received
      BY <3>1, <3>2, <3>3, SetIdle
    <3> QED
      BY <2>2, <3>1, <3>4 DEF Kept
  <2> QED
    BY <2>1, <2>2
<1>5. \A v \in Versions : owner'[v] # NoOwner => owner[v].link \in Served'
  BY <1>1, <1>4 DEF IInv, EngineOK, Kept
<1> QED
  BY <1>1, <1>2, <1>3, <1>4, <1>5, KeptStep

\* A new service has no Link, no session and no pin.
LEMMA InitInv == Init => IInv
BY DEF Init, IInv, ServiceTypeOK, EngineOK, OneOwner, NoForgottenPins, Active, Versions

\* Every step preserves the invariant.
LEMMA NextInv == IInv /\ [Next]_vars => IInv'
<1> SUFFICES ASSUME IInv, [Next]_vars PROVE IInv'
  OBVIOUS
<1>1. ASSUME NEW l \in Links, Request(l) PROVE IInv'
  BY <1>1, FailureInv, StartInv, ProgressInv DEF Request
<1>2. ASSUME NEW l \in Links,
             LinkRequest(l) \/ Identify(l) \/ LinkCloses(l) \/ Packet(l) \/ Closed(l)
      PROVE  IInv'
  BY <1>2, ManagerInv, LinkClosesInv, AdmitInv, ClosedInv
<1>3. ASSUME NEW f \in Completion, Complete(f) \/ ResourceFails(f) \/ Advertise(f)
      PROVE  IInv'
  BY <1>3, ManagerInv, AdmitInv
<1>4. CASE UNCHANGED vars
  BY <1>4 DEF vars, IInv, ServiceTypeOK, EngineOK, Served, OneOwner, NoForgottenPins, Active
<1> QED
  BY <1>1, <1>2, <1>3, <1>4, MaintainInv, TickInv DEF Next

(***************************************************************************)
(* Theorems.                                                               *)
(***************************************************************************)
\* The inductive invariant holds throughout.
THEOREM ServiceInvariance == Spec => []IInv
BY InitInv, NextInv, PTL DEF Spec

\* The state of the adapter is well typed, whatever Links do.
THEOREM ServiceTypeCorrect == Spec => []ServiceTypeOK
<1>1. IInv => ServiceTypeOK
  BY DEF IInv
<1> QED
  BY <1>1, ServiceInvariance, PTL

\* Versions 1 and 2 never own the export at the same time, with any number
\* of Links racing to start sessions in both.
THEOREM ExportHasOneOwner == Spec => []OneOwner
<1>1. IInv => OneOwner
  BY DEF IInv
<1> QED
  BY <1>1, ServiceInvariance, PTL

\* No session is orphaned: its Link is pinned to its engine and is served,
\* or the notice that will end the session is queued.
THEOREM NoOrphans == Spec => []OwnerIsServed
<1>1. IInv => OwnerIsServed
  BY DEF IInv, EngineOK, OwnerIsServed, Served, Active
<1> QED
  BY <1>1, ServiceInvariance, PTL

\* The map of pinned protocols does not outgrow the Links that matter.
THEOREM PinsAreReleased == Spec => []NoForgottenPins
<1>1. IInv => NoForgottenPins
  BY DEF IInv
<1> QED
  BY <1>1, ServiceInvariance, PTL

\* A completion left over from an earlier transfer or session is never kept
\* for a file of another size.
THEOREM HeldFilesMatch == Spec => []HeldFileIsPending
<1>1. IInv => HeldFileIsPending
  BY DEF IInv, EngineOK, HeldFileIsPending, Active
<1> QED
  BY <1>1, ServiceInvariance, PTL

\* One Link is closed per round of the maintenance timer, and that closes
\* the Link of every session whose lease ran out.
THEOREM ExpiryClosesLinks == Spec => ExpiredLinksClose
<1> DEFINE A == Maintain => \A v \in Versions :
          Expired(v) => owner[v].link \in closing' /\ owner[v].link \notin live'
<1>1. IInv /\ [Next]_vars => [A]_vars
  <2> SUFFICES ASSUME IInv, Maintain, NEW v \in Versions, Expired(v)
               PROVE  owner[v].link \in closing' /\ owner[v].link \notin live'
    OBVIOUS
  <2>1. owner[v] # NoOwner /\ owner[v].link \in live \cup closing
    BY DEF Expired, Active, IInv, EngineOK, Served, ServiceTypeOK
  <2>2. ExpiredLink = {owner[v].link}
    BY <2>1 DEF ExpiredLink, Expired, Active, IInv, OneOwner, Versions
  <2> QED
    BY <2>1, <2>2 DEF Maintain, Forget, IInv, ServiceTypeOK
<1>2. Spec => [][A]_vars
  BY <1>1, ServiceInvariance, PTL DEF Spec
<1> QED
  BY <1>2 DEF ExpiredLinksClose

\* What a request makes of the session of another Link.
LEMMA OtherSession ==
    ASSUME IInv, NEW l \in Links, NEW w \in Versions, Active(w), ~Owns(l, w),
           Request(l)
    PROVE  owner'[w] # NoOwner /\ owner'[w].link = owner[w].link
<1> DEFINE Same(x) == x # NoOwner /\ x.link = owner[w].link
<1>1. owner[w] # NoOwner /\ owner[w].link # l
  BY DEF Active, Owns
<1>2. Same(Drained[w])
  BY <1>1, DrainedKeeps DEF Kept
<1>3. Drained = [v \in Versions |-> Drained[v]]
  BY DEF Drained
<1>4. ASSUME NEW o, Same(o[w]), Fail(o, l)  PROVE Same(owner'[w])
  BY <1>1, <1>4 DEF Fail, Dropped, Owns
<1>5. CASE Unidentified(l) \/ WrongProtocol(l)
  BY <1>1, <1>4, <1>5 DEF Unidentified, WrongProtocol
<1>6. ASSUME NEW v \in Versions, NEW x, owner' = [Drained EXCEPT ![v] = x], w # v
      PROVE  Same(owner'[w])
  BY <1>2, <1>3, <1>6
<1>7. ASSUME NEW v \in Versions, Start(l, v)  PROVE Same(owner'[w])
  <2>1. w # v
    BY <1>7 DEF Start
  <2> QED
    BY <1>6, <1>7, <2>1 DEF Start
<1>8. ASSUME NEW v \in Versions, Owns(l, v),
             \/ \E size \in Sizes : Begin(l, v, size)
             \/ Commit(l, v) \/ Proceed(l, v) \/ Finish(l, v)
      PROVE  Same(owner'[w])
  <2>1. w # v
    BY <1>8
  <2> QED
    BY <1>6, <1>8, <2>1 DEF Begin, Commit, Proceed, Finish
<1>9. ASSUME NEW v \in Versions, Refuse(l, v)  PROVE Same(owner'[w])
  BY <1>2, <1>4, <1>9 DEF Refuse
<1>10. CASE \E v \in Versions : \/ \E size \in Sizes : Begin(l, v, size)
                                \/ Commit(l, v) \/ Proceed(l, v) \/ Finish(l, v)
  BY <1>8, <1>10 DEF Begin, Commit, Proceed, Finish
<1> QED
  BY <1>5, <1>7, <1>9, <1>10 DEF Request

\* A request, failed or not, leaves every session of another Link alive and
\* with its owner.
THEOREM RequestsStayApart == Spec => OthersUndisturbed
<1> DEFINE A == \A l \in Links : Request(l) => \A v \in Versions :
          Active(v) /\ ~Owns(l, v) =>
              owner'[v] # NoOwner /\ owner'[v].link = owner[v].link
<1>1. IInv /\ [Next]_vars => [A]_vars
  BY OtherSession
<1>2. Spec => [][A]_vars
  BY <1>1, ServiceInvariance, PTL DEF Spec
<1> QED
  BY <1>2 DEF OthersUndisturbed

\* ServiceInvariant, the run's property: all of the above together.
THEOREM ServiceAlwaysSafe == Spec => []ServiceInvariant
<1>1. IInv => ServiceInvariant
  BY DEF IInv, EngineOK, Served, ServiceInvariant, OwnerIsServed, HeldFileIsPending, Active
<1> QED
  BY <1>1, ServiceInvariance, PTL
=============================================================================
