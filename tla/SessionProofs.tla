---------------------------- MODULE SessionProofs ----------------------------
(***************************************************************************)
(* Proofs about a version-1 command end to end, for every set of Links,    *)
(* paths, versions, trees, jobs and edits: what the network loses or       *)
(* delays, whoever crashes, and however attempts follow one another.       *)
(***************************************************************************)
EXTENDS Session, ServerProofs

(***************************************************************************)
(* The inductive invariant.                                                *)
(***************************************************************************)
Faithful(t) == \A p \in Paths : t[p].ver = t[p].data

\* What a message carries.
Carries(m) ==
    /\ m.conn \in Conns /\ m.kind \in {"request", "reply", "resource", "close"}
    /\ m.kind = "request" => m.op \in {"start", "begin", "commit", "get", "verified", "finish"}
    /\ m.kind = "request" /\ m.op = "start" => m.manifest \in Trees /\ Faithful(m.manifest)
    /\ m.kind = "request" /\ m.op \notin {"start", "finish"} => m.file \in Paths
    /\ m.kind = "reply" /\ m.op = "manifest" => m.manifest \in Trees /\ Faithful(m.manifest)
    /\ m.kind = "resource" => m.op \in {"push", "pull"}
    /\ m.kind = "resource" /\ m.op = "push" => client.push /\ m.file \in Paths /\ m.data \in Versions

\* Messages that make the server work for the sender of m.
Works(m) == m.kind = "request" \/ (m.kind = "resource" /\ m.op = "push")

\* Types, and what follows from the server's own invariant.
Typed ==
    /\ ServerInvariant
    /\ local \in Trees /\ client \in ClientRecord
    /\ up \subseteq Conns /\ edits \in 0 .. MaxEdits
    /\ \A m \in net : Carries(m)
    /\ Faithful(tree) /\ Faithful(local) /\ Faithful(client.scan) /\ Faithful(client.remote)

\* A session is on a living Link and does what the command is for, from
\* faithful manifests; the Resource it holds is of the file it is for.
Sessions ==
    Active =>
        /\ session.conn \in up
        /\ session.push = client.push /\ session.options = client.options
        /\ Faithful(session.source) /\ Faithful(session.destination)
        /\ session.received # NoFile =>
              session.received.data = session.source[session.received.id].ver

\* Links are used in order; a START is the first message of its Link, and
\* a file is sent for the session that asked for it.
Links ==
    /\ \A m \in net : m.conn <= client.conn
    /\ \A c \in up : c <= client.conn
    /\ \A m \in net : m.kind = "request" /\ m.op = "start" =>
          /\ ~Owns(m.conn)
          /\ \A n \in net : n.conn = m.conn => n = m \/ n.kind = "close"
    /\ \A m \in net : m.kind = "resource" /\ m.op = "push" /\ Owns(m.conn) =>
          m.data = session.source[m.file].ver

\* Messages of the attempt at hand.
Current == {m \in net : m.conn = client.conn}
InFile == {"begin", "send", "commit", "get", "receive", "verified"}
Query ==
    IF client.pc = "start" THEN Msg("request", client.conn, "start", NoPath, client.scan, 0)
    ELSE IF client.pc = "send"
      THEN Msg("resource", client.conn, "push", client.file, Blank, client.data)
    ELSE IF client.pc = "finish" THEN Ask(client.conn, "finish", NoPath)
    ELSE Ask(client.conn, client.pc, client.file)
Good ==
    IF client.pc = "start" THEN "manifest" ELSE IF client.pc = "send" THEN "proof"
    ELSE IF client.pc = "get" THEN "file" ELSE "ok"

\* One question at a time: on the Link of the attempt is the question or
\* what it brought.
OneQuestion ==
    Running =>
        /\ client.pc \in {"plan", "next"} => Current = {}
        /\ Query \in net => Current = {Query}
        /\ \A m \in Current : m = Query \/ m.kind = "reply"
                              \/ (m.kind = "resource" /\ m.op = "pull" /\ client.pc \in {"get", "receive"})
        /\ client.pc = "receive" => \A m \in Current : m.kind = "resource"
        /\ \A m, n \in Current : m.kind = n.kind => m = n

\* Where the client is in its file.
Position ==
    /\ client.conn = 0 => client.pc = "idle"
    /\ Running =>
        /\ client.pc \in InFile => client.file \in PlannedFiles \ client.done
        /\ client.pc \in {"begin", "send", "commit"} => client.push
        /\ client.pc \in {"get", "receive", "verified"} => ~client.push
        /\ client.pc \in {"begin", "send", "commit", "verified"} =>
              client.data = Source[client.file].ver
        /\ client.pc \in InFile \cup {"next"} => ~client.options.dryRun
        /\ client.done \subseteq PlannedFiles
        /\ client.pc = "start" => client.remote = Blank
        /\ client.pc \in {"start", "plan"} => client.done = {}
        /\ client.pc = "finish" /\ ~client.options.dryRun => PlannedFiles \subseteq client.done
        /\ ~client.push => \A m \in Current : m.kind = "resource" => m.data = Source[client.file].ver

\* The session of the attempt, before and after the question was served.
Before ==
    /\ session.done = client.done
    /\ session.pending = IF client.pc \in {"send", "commit", "receive", "verified"}
                         THEN client.file ELSE NoPath
After ==
    CASE client.pc \in {"begin", "get", "send", "receive"} ->
            session.done = client.done /\ session.pending = client.file
      [] client.pc \in {"commit", "verified"} ->
            session.done = client.done \cup {client.file} /\ session.pending = NoPath
      [] OTHER -> FALSE
InStep ==
    Owns(client.conn) /\ Running =>
        /\ client.push => session.stale \subseteq client.foreign
        /\ client.pc = "start" =>
              /\ session.done = {} /\ session.pending = NoPath
              /\ client.scan = IF client.push THEN session.source ELSE session.destination
              /\ \A m \in Answer("manifest") :
                    m.manifest = IF client.push THEN session.destination ELSE session.source
        /\ client.pc # "start" =>
              /\ session.source = Source /\ session.destination = Target
              /\ client.pc \in {"plan", "next"} \/ Query \in net => Before
              /\ Before \/ After
              /\ Answer(Good) # {} => After

\* A session of an earlier attempt that the attempt at hand has outlived
\* gets no more work.
Settled ==
    \/ client.pc \notin {"idle", "start", "failed"}
    \/ client.pc = "start" /\ Answer("manifest") # {}
Strays ==
    /\ Settled /\ Active /\ (session.conn # client.conn \/ client.pc = "success") =>
          \A m \in net : m.conn = session.conn => ~Works(m)
    /\ client.pc = "success" => ~Owns(client.conn) /\ \A m \in Current : ~Works(m)

\* The client's directory, apart from what was edited.
Scanned ==
    IF client.pc \notin {"start", "plan"} /\ ~client.options.dryRun
    THEN PlanDirs(Source) ELSE {}
Accounted ==
    Running =>
        IF client.push THEN \A p \in Paths \ client.stale : local[p] = client.scan[p]
        ELSE \A p \in Paths \ client.foreign :
                Alike(local[p], IF p \in client.done THEN Source[p]
                                ELSE IF p \in Scanned THEN Dir ELSE Target[p])

\* A finished attempt has synchronized.
Synchronized(t) ==
    \A p \in Paths \ client.foreign :
        IF Source[p].kind # "none" \/ client.options.delete
          THEN Alike(t[p], Source[p]) ELSE Alike(t[p], Target[p])
Done ==
    ~client.options.dryRun =>
        /\ client.pc = "finish" /\ client.push /\ Answer("ok") # {} => Synchronized(tree)
        /\ client.pc = "success" => Synchronized(Destination)

\* All of it; every step of the command, the server and the network keeps it.
IInv ==
    Typed /\ Sessions /\ Links /\ OneQuestion /\ Position /\ InStep /\ Strays /\ Accounted /\ Done

(***************************************************************************)
(* The client's record.                                                    *)
(***************************************************************************)
\* u belongs to the same attempt as c: what a step within an attempt keeps.
SameAttempt(u, c) ==
    /\ u \in ClientRecord
    /\ u.conn = c.conn /\ u.push = c.push /\ u.options = c.options /\ u.scan = c.scan
    /\ u.stale = c.stale /\ u.foreign = c.foreign

\* Moving the program counter leaves every other field.
LEMMA SetPc ==
    ASSUME NEW c \in ClientRecord, NEW x \in Awaiting \cup Ended \cup {"idle", "plan", "next"}
    PROVE  LET u == [c EXCEPT !.pc = x]
           IN  /\ SameAttempt(u, c) /\ u.pc = x /\ u.remote = c.remote
               /\ u.file = c.file /\ u.data = c.data /\ u.done = c.done
BY DEF ClientRecord, SameAttempt

\* Noting the manifest of the server leaves every other field.
LEMMA SetRemote ==
    ASSUME NEW c \in ClientRecord, NEW x \in Trees
    PROVE  LET u == [c EXCEPT !.remote = x]
           IN  /\ SameAttempt(u, c) /\ u.pc = c.pc /\ u.remote = x
               /\ u.file = c.file /\ u.data = c.data /\ u.done = c.done
BY DEF ClientRecord, SameAttempt

\* Turning to a file leaves every other field.
LEMMA SetFile ==
    ASSUME NEW c \in ClientRecord, NEW x \in Paths \cup {NoPath}
    PROVE  LET u == [c EXCEPT !.file = x]
           IN  /\ SameAttempt(u, c) /\ u.pc = c.pc /\ u.remote = c.remote
               /\ u.file = x /\ u.data = c.data /\ u.done = c.done
BY DEF ClientRecord, SameAttempt

\* Holding a file's bytes leaves every other field.
LEMMA SetData ==
    ASSUME NEW c \in ClientRecord, NEW x \in Versions \cup {0}
    PROVE  LET u == [c EXCEPT !.data = x]
           IN  /\ SameAttempt(u, c) /\ u.pc = c.pc /\ u.remote = c.remote
               /\ u.file = c.file /\ u.data = x /\ u.done = c.done
BY DEF ClientRecord, SameAttempt

\* Counting a file as done leaves every other field.
LEMMA SetDoneFiles ==
    ASSUME NEW c \in ClientRecord, NEW x \in SUBSET Paths
    PROVE  LET u == [c EXCEPT !.done = x]
           IN  /\ SameAttempt(u, c) /\ u.pc = c.pc /\ u.remote = c.remote
               /\ u.file = c.file /\ u.data = c.data /\ u.done = x
BY DEF ClientRecord, SameAttempt

\* What a step within an attempt makes of the fields it may set.
Moved(pc, remote, file, data, done) ==
    /\ SameAttempt(client', client)
    /\ client'.pc = pc /\ client'.remote = remote /\ client'.file = file
    /\ client'.data = data /\ client'.done = done

\* The client only goes on to another place.
LEMMA MovesOn ==
    ASSUME client \in ClientRecord,
           NEW x \in Awaiting \cup Ended \cup {"idle", "plan", "next"},
           client' = [client EXCEPT !.pc = x]
    PROVE  Moved(x, client.remote, client.file, client.data, client.done)
BY SetPc DEF Moved

\* The client goes on with the manifest of the server.
LEMMA MovesWithRemote ==
    ASSUME client \in ClientRecord, NEW t \in Trees,
           client' = [client EXCEPT !.pc = "plan", !.remote = t]
    PROVE  Moved("plan", t, client.file, client.data, client.done)
<1> DEFINE a == [client EXCEPT !.pc = "plan"]
<1> DEFINE b == [a EXCEPT !.remote = t]
<1>1. /\ SameAttempt(a, client) /\ a.pc = "plan" /\ a.remote = client.remote /\ a.file = client.file
      /\ a.data = client.data /\ a.done = client.done
  BY SetPc DEF Awaiting
<1>2. /\ SameAttempt(b, client) /\ b.pc = "plan" /\ b.remote = t /\ b.file = client.file
      /\ b.data = client.data /\ b.done = client.done
  <2> HIDE DEF a
  <2> QED BY <1>1, SetRemote DEF SameAttempt
<1> QED
  BY <1>2 DEF Moved

\* The client goes on to a file.
LEMMA MovesToFile ==
    ASSUME client \in ClientRecord, NEW x \in {"begin", "get"}, NEW f \in Paths,
           client' = [client EXCEPT !.pc = x, !.file = f]
    PROVE  Moved(x, client.remote, f, client.data, client.done)
<1> DEFINE a == [client EXCEPT !.pc = x]
<1> DEFINE b == [a EXCEPT !.file = f]
<1>1. /\ SameAttempt(a, client) /\ a.pc = x /\ a.remote = client.remote /\ a.file = client.file
      /\ a.data = client.data /\ a.done = client.done
  BY SetPc DEF Awaiting
<1>2. /\ SameAttempt(b, client) /\ b.pc = x /\ b.remote = client.remote /\ b.file = f
      /\ b.data = client.data /\ b.done = client.done
  <2> HIDE DEF a
  <2> QED BY <1>1, SetFile DEF SameAttempt
<1> QED
  BY <1>2 DEF Moved

\* The client goes on to a file whose bytes it has.
LEMMA MovesToData ==
    ASSUME client \in ClientRecord, NEW f \in Paths, NEW d \in Versions \cup {0},
           client' = [client EXCEPT !.pc = "begin", !.file = f, !.data = d]
    PROVE  Moved("begin", client.remote, f, d, client.done)
<1> DEFINE a == [client EXCEPT !.pc = "begin"]
<1> DEFINE b == [a EXCEPT !.file = f]
<1> DEFINE c == [b EXCEPT !.data = d]
<1>1. /\ SameAttempt(a, client) /\ a.pc = "begin" /\ a.remote = client.remote /\ a.file = client.file
      /\ a.data = client.data /\ a.done = client.done
  BY SetPc DEF Awaiting
<1>2. /\ SameAttempt(b, client) /\ b.pc = "begin" /\ b.remote = client.remote /\ b.file = f
      /\ b.data = client.data /\ b.done = client.done
  <2> HIDE DEF a
  <2> QED BY <1>1, SetFile DEF SameAttempt
<1>3. /\ SameAttempt(c, client) /\ c.pc = "begin" /\ c.remote = client.remote /\ c.file = f
      /\ c.data = d /\ c.done = client.done
  <2> HIDE DEF a, b
  <2> QED BY <1>2, SetData DEF SameAttempt
<1> QED
  BY <1>3 DEF Moved

\* The client goes on with the bytes it received.
LEMMA MovesWithData ==
    ASSUME client \in ClientRecord, NEW d \in Versions \cup {0},
           client' = [client EXCEPT !.pc = "verified", !.data = d]
    PROVE  Moved("verified", client.remote, client.file, d, client.done)
<1> DEFINE a == [client EXCEPT !.pc = "verified"]
<1> DEFINE b == [a EXCEPT !.data = d]
<1>1. /\ SameAttempt(a, client) /\ a.pc = "verified" /\ a.remote = client.remote /\ a.file = client.file
      /\ a.data = client.data /\ a.done = client.done
  BY SetPc DEF Awaiting
<1>2. /\ SameAttempt(b, client) /\ b.pc = "verified" /\ b.remote = client.remote /\ b.file = client.file
      /\ b.data = d /\ b.done = client.done
  <2> HIDE DEF a
  <2> QED BY <1>1, SetData DEF SameAttempt
<1> QED
  BY <1>2 DEF Moved

\* The client counts its file as done.
LEMMA MovesPastFile ==
    ASSUME client \in ClientRecord, client.file \in Paths,
           client' = [client EXCEPT !.pc = "next", !.done = client.done \cup {client.file}]
    PROVE  Moved("next", client.remote, client.file, client.data, client.done \cup {client.file})
<1> DEFINE a == [client EXCEPT !.pc = "next"]
<1> DEFINE b == [a EXCEPT !.done = client.done \cup {client.file}]
<1>0. client.done \cup {client.file} \in SUBSET Paths
  BY DEF ClientRecord
<1>1. /\ SameAttempt(a, client) /\ a.pc = "next" /\ a.remote = client.remote /\ a.file = client.file
      /\ a.data = client.data /\ a.done = client.done
  BY SetPc DEF Awaiting
<1>2. /\ SameAttempt(b, client) /\ b.pc = "next" /\ b.remote = client.remote /\ b.file = client.file
      /\ b.data = client.data /\ b.done = client.done \cup {client.file}
  <2> HIDE DEF a
  <2> QED BY <1>1, <1>0, SetDoneFiles DEF SameAttempt
<1> QED
  BY <1>2 DEF Moved

\* The record of a fresh attempt.
LEMMA OpenedClient ==
    ASSUME client \in ClientRecord, NEW c \in Conns, NEW t \in Trees,
           client' = [client EXCEPT !.pc = "start", !.conn = c, !.scan = t,
                                    !.remote = Blank, !.file = NoPath, !.data = 0,
                                    !.done = {}, !.stale = {}, !.foreign = {}]
    PROVE  /\ client' \in ClientRecord
           /\ client'.pc = "start" /\ client'.conn = c /\ client'.push = client.push
           /\ client'.options = client.options /\ client'.scan = t /\ client'.remote = Blank
           /\ client'.done = {} /\ client'.stale = {} /\ client'.foreign = {}
<1>1. Blank \in Trees
  BY EntryTypes DEF Blank, Trees
<1> QED
  BY <1>1 DEF ClientRecord, Awaiting

(***************************************************************************)
(* What serving a request does.                                            *)
(***************************************************************************)
\* The job a START names.
JobOf(m) == [push |-> client.push, options |-> client.options, manifest |-> m.manifest]

\* A request is refused and nothing happens ...
Ignores(r) == r \in {"error", "busy"} /\ UNCHANGED <<tree, session>>
\* ... or it opens a session ...
Opens(m, r) ==
    /\ m.op = "start" /\ r = "manifest" /\ ~Active
    /\ session' = NewSession(m.conn, JobOf(m)) /\ UNCHANGED tree
\* ... or it ends its own, in failure or at FINISH ...
Ends(m, r) ==
    /\ Owns(m.conn) /\ session' = NoSession
    /\ r \in {"error", "busy"} \/ (m.op = "finish" /\ r = "ok")
\* ... or it takes its session one step along the plan.
Advances(m, r) ==
    /\ Owns(m.conn) /\ SameJob(session', session) /\ session'.stale = session.stale
    /\ \/ /\ m.op = "begin" /\ r = "ok"
          /\ session'.pending = m.file /\ session'.done = session.done
          /\ session'.received = session.received
       \/ /\ m.op = "commit" /\ r = "ok"
          /\ session'.pending = NoPath /\ session'.done = session.done \cup {m.file}
          /\ session'.received = NoFile
       \/ /\ m.op = "get" /\ r = "file" /\ ~session.push /\ m.file \notin session.stale
          /\ session'.pending = m.file /\ session'.done = session.done
          /\ session'.received = session.received /\ UNCHANGED tree
       \/ /\ m.op = "verified" /\ r = "ok"
          /\ session'.pending = NoPath /\ session'.done = session.done \cup {m.file}
          /\ session'.received = session.received /\ UNCHANGED tree

\* A refusal ends the session of its Link or does nothing.
LEMMA RefuseServes ==
    ASSUME NEW m, NEW r, Refuse(m.conn, r)
    PROVE  Ignores(r) \/ Ends(m, r)
BY DEF Refuse, Abort, Ignores, Ends

\* START opens a session only when there is none.
LEMMA StartServes ==
    ASSUME NEW m, NEW r, m.op = "start", Start(m.conn, JobOf(m), r)
    PROVE  Ignores(r) \/ Opens(m, r) \/ Ends(m, r)
BY RefuseServes DEF Start, Abort, Ignores, Opens, Ends

\* BEGIN makes its file pending.
LEMMA BeginServes ==
    ASSUME TypeOK, NEW m, m.op = "begin", m.file \in Paths, NEW r, Begin(m.conn, m.file, r)
    PROVE  Ignores(r) \/ Ends(m, r) \/ Advances(m, r)
<1>1. CASE Refuse(m.conn, r)
  BY <1>1, RefuseServes
<1>2. CASE r = "error" /\ CanBegin(m.conn, m.file) /\ Abort(m.conn)
  BY <1>2 DEF Abort, Ends, CanBegin, MayTransfer, MayRequest
<1>3. CASE /\ r = "ok" /\ CanBegin(m.conn, m.file)
           /\ session' = [session EXCEPT !.prepared = TRUE, !.pending = m.file, !.idle = 0]
  <2>1. Owns(m.conn) /\ session \in SessionRecord
    BY <1>3 DEF TypeOK, CanBegin, MayTransfer, MayRequest, Owns, Active
  <2> QED
    BY <1>3, <2>1, BegunSession DEF Advances
<1> QED
  BY <1>1, <1>2, <1>3 DEF Begin

\* COMMIT counts its file as done.
LEMMA CommitServes ==
    ASSUME TypeOK, NEW m, m.op = "commit", m.file \in Paths, NEW r,
           Commit(m.conn, m.file, m.file, r)
    PROVE  Ignores(r) \/ Ends(m, r) \/ Advances(m, r)
<1>1. CASE Refuse(m.conn, r)
  BY <1>1, RefuseServes
<1>2. CASE r = "error" /\ CanCommit(m.conn, m.file, m.file) /\ Abort(m.conn)
  BY <1>2 DEF Abort, Ends, CanCommit, MayTransfer, MayRequest
<1>3. CASE /\ r = "ok" /\ CanCommit(m.conn, m.file, m.file)
           /\ session' = Committed(session, m.file)
  <2>1. Owns(m.conn) /\ session \in SessionRecord
    BY <1>3 DEF TypeOK, CanCommit, MayTransfer, MayRequest, Owns, Active
  <2> QED
    BY <1>3, <2>1, CommittedSession DEF Advances, Committed
<1> QED
  BY <1>1, <1>2, <1>3 DEF Commit

\* GET makes its file pending.
LEMMA GetServes ==
    ASSUME TypeOK, NEW m, m.op = "get", m.file \in Paths, NEW r, Get(m.conn, m.file, r)
    PROVE  Ignores(r) \/ Ends(m, r) \/ Advances(m, r)
<1>1. CASE Refuse(m.conn, r)
  BY <1>1, RefuseServes
<1>2. CASE /\ r = "file" /\ CanGet(m.conn, m.file) /\ m.file \notin session.stale
           /\ session' = [session EXCEPT !.pending = m.file, !.idle = 0] /\ tree' = tree
  <2>1. Owns(m.conn) /\ session \in SessionRecord /\ ~session.push
    BY <1>2 DEF TypeOK, CanGet, MayTransfer, MayRequest, Owns, Active, RequireFile
  <2> QED
    BY <1>2, <2>1, GottenSession DEF Advances
<1> QED
  BY <1>1, <1>2 DEF Get

\* VERIFIED counts its file as done.
LEMMA VerifiedServes ==
    ASSUME TypeOK, NEW m, m.op = "verified", m.file \in Paths, NEW r,
           Verified(m.conn, m.file, r)
    PROVE  Ignores(r) \/ Ends(m, r) \/ Advances(m, r)
<1>1. CASE Refuse(m.conn, r)
  BY <1>1, RefuseServes
<1>2. CASE /\ r = "ok" /\ MayTransfer(m.conn) /\ tree' = tree
           /\ session' = [session EXCEPT !.pending = NoPath, !.done = @ \cup {m.file}, !.idle = 0]
  <2>1. Owns(m.conn) /\ session \in SessionRecord
    BY <1>2 DEF TypeOK, MayTransfer, MayRequest, Owns, Active
  <2> QED
    BY <1>2, <2>1, VerifiedSession DEF Advances
<1> QED
  BY <1>1, <1>2 DEF Verified

\* FINISH ends its session.
LEMMA FinishServes ==
    ASSUME NEW m, m.op = "finish", NEW r, Finish(m.conn, r)
    PROVE  Ignores(r) \/ Ends(m, r)
BY RefuseServes DEF Finish, Abort, Ends, MayTransfer, MayRequest

\* Requests the codec knows.
Ops == {"start", "begin", "commit", "get", "verified", "finish"}

\* Whatever the request, it does one of the four.
LEMMA Serves ==
    ASSUME TypeOK, NEW m, m.op \in Ops,
           m.op \notin {"start", "finish"} => m.file \in Paths,
           NEW r, Dispatch(m, r)
    PROVE  Ignores(r) \/ Opens(m, r) \/ Ends(m, r) \/ Advances(m, r)
<1>1. CASE m.op = "start"
  BY <1>1, StartServes DEF Dispatch, JobOf
<1>2. CASE m.op = "begin"
  BY <1>2, BeginServes DEF Dispatch
<1>3. CASE m.op = "commit"
  BY <1>3, CommitServes DEF Dispatch
<1>4. CASE m.op = "get"
  BY <1>4, GetServes DEF Dispatch
<1>5. CASE m.op = "verified"
  BY <1>5, VerifiedServes DEF Dispatch
<1>6. CASE m.op = "finish"
  BY <1>6, FinishServes DEF Dispatch
<1> QED
  BY <1>1, <1>2, <1>3, <1>4, <1>5, <1>6 DEF Ops

\* Requests keep the server's own invariant.
LEMMA DispatchInv ==
    ASSUME ServerInvariant, client \in ClientRecord, NEW m, m.conn \in Conns, m.op \in Ops,
           m.op = "start" => m.manifest \in Trees,
           m.op \notin {"start", "finish"} => m.file \in Paths,
           NEW r, Dispatch(m, r)
    PROVE  ServerInvariant'
<1>1. CASE m.op = "start"
  <2>1. JobOf(m) \in AnyJob
    BY <1>1 DEF JobOf, AnyJob, ClientRecord
  <2> QED
    BY <1>1, <2>1, StartInv DEF Dispatch, JobOf
<1>2. CASE m.op = "begin"
  BY <1>2, BeginInv DEF Dispatch
<1>3. CASE m.op = "commit"
  BY <1>3, CommitInv, IdsArePaths DEF Dispatch
<1>4. CASE m.op = "get"
  BY <1>4, GetVerifiedInv DEF Dispatch
<1>5. CASE m.op = "verified"
  BY <1>5, GetVerifiedInv DEF Dispatch
<1>6. CASE m.op = "finish"
  BY <1>6, FinishInv DEF Dispatch
<1> QED
  BY <1>1, <1>2, <1>3, <1>4, <1>5, <1>6 DEF Ops

\* Requests keep the export faithful: what they put there is a directory, or
\* the received bytes of the version they are labelled with.
LEMMA DispatchFaithful ==
    ASSUME TypeOK, Faithful(tree),
           Active /\ session.received # NoFile =>
              session.received.data = session.source[session.received.id].ver,
           NEW m, m.op \in Ops, m.op \notin {"start", "finish"} => m.file \in Paths,
           NEW r, Dispatch(m, r)
    PROVE  Faithful(tree')
<1> SUFFICES ASSUME NEW p \in Changed
             PROVE  tree'[p].ver = tree'[p].data
  BY DEF Faithful, Changed
<1>0. \A v : File(v, v).ver = File(v, v).data /\ None.ver = None.data /\ Dir.ver = Dir.data
  BY DEF File, None, Dir
<1>1. CASE m.op \in {"start", "get", "verified"}
  BY <1>1 DEF Dispatch, Start, Get, Verified, Refuse, Changed
<1>2. CASE m.op = "begin"
  <2>1. Begin(m.conn, m.file, r) /\ p \in Paths
    BY <1>2 DEF Dispatch, Changed
  <2>2. tree'[p] \in {None, Dir}
    BY <2>1, PreparedChanges, PrepareFailsChanges DEF Begin, Refuse, Changed
  <2> QED
    BY <1>0, <2>2
<1>3. CASE m.op = "commit"
  <2>1. Commit(m.conn, m.file, m.file, r) /\ p \in Paths
    BY <1>3 DEF Dispatch, Changed
  <2>2. CanCommit(m.conn, m.file, m.file)
    BY <2>1 DEF Commit, Refuse, Changed
  <2>3. session.received.data = session.source[m.file].ver
    BY <2>2 DEF CanCommit, MayTransfer, MayRequest, Owns
  <2>4. \/ tree' = Put(tree, {m.file}, File(session.source[m.file].ver, session.received.data))
        \/ \E D : tree' = Put(tree, D, None)
        \/ tree' = tree
    BY <2>1 DEF Commit, Refuse, InstallPartial
  <2> QED
    BY <1>0, <2>1, <2>3, <2>4 DEF Put, Changed
<1>4. CASE m.op = "finish"
  <2>1. tree'[p] \in {None, Dir}
    BY <1>4, FinishIsPlanned DEF Dispatch, Changed
  <2> QED
    BY <1>0, <2>1
<1> QED
  BY <1>1, <1>2, <1>3, <1>4 DEF Ops

(***************************************************************************)
(* Steps in which nothing is sent and no work is done: messages are lost,  *)
(* Links close, leases run, the server restarts.                           *)
(***************************************************************************)
\* The session is gone, or it is the same up to its lease.
Rests ==
    \/ session' = NoSession
    \/ /\ Active /\ SameJob(session', session) /\ session'.conn \in up'
       /\ session'.pending = session.pending /\ session'.received = session.received
       /\ session'.done = session.done /\ session'.stale = session.stale

Lessens ==
    /\ net' \subseteq net /\ up' \subseteq up /\ Rests
    /\ UNCHANGED <<tree, rooted, local, client, edits>>

\* Such a step leaves everything as it was, or less of it.
LEMMA LessensInv ==
    ASSUME IInv, Lessens, ServerInvariant'
    PROVE  IInv'
<1> USE DEF Lessens
<1>1. Typed'
  BY DEF IInv, Typed, Carries, Faithful
<1>2. Sessions'
  BY DEF IInv, Sessions, Rests, Active, SameJob
<1>3. Links'
  BY DEF IInv, Links, Rests, Active, Owns, SameJob
<1>4. Current' \subseteq Current /\ Query' = Query
  BY DEF Current, Query, Msg, Ask
<1>5. OneQuestion'
  BY <1>4 DEF IInv, OneQuestion, Running, Current
<1>6. Source' = Source /\ Target' = Target /\ PlannedFiles' = PlannedFiles
  BY DEF Source, Target, PlannedFiles
<1>7. Position'
  BY <1>4, <1>6 DEF IInv, Position, Running
<1>8. InStep'
  <2> SUFFICES ASSUME Owns(client.conn)', Running'
               PROVE  InStep'
    BY DEF InStep
  <2>1. Owns(client.conn) /\ Running /\ SameJob(session', session)
        /\ session'.pending = session.pending /\ session'.done = session.done
        /\ session'.stale = session.stale
    BY DEF Rests, Owns, Active, SameJob, Running
  <2>2. (Before <=> Before') /\ (After <=> After') /\ Good' = Good
    BY <2>1 DEF Before, After, Good
  <2>3. \A x : Answer(x)' \subseteq Answer(x)
    BY DEF Answer
  <2> QED
    BY <1>4, <1>6, <2>1, <2>2, <2>3 DEF IInv, InStep, SameJob
<1>9. Strays'
  BY <1>4 DEF IInv, Strays, Settled, Answer, Rests, Active, Owns, SameJob, Works, Current
<1>10. Accounted'
  BY <1>6 DEF IInv, Accounted, Running, Scanned
<1>11. Done'
  BY <1>6 DEF IInv, Done, Synchronized, Answer, Destination
<1> QED
  BY <1>1, <1>2, <1>3, <1>5, <1>7, <1>8, <1>9, <1>10, <1>11 DEF IInv

\* A step that leaves the session, on its Link, or ends it.
LEMMA KeptOrEnded ==
    ASSUME IInv, UNCHANGED <<tree, rooted, local, client, edits>>,
           net' \subseteq net, up' \subseteq up,
           \/ session' = NoSession
           \/ session' = session /\ (Active => session.conn \in up')
    PROVE  IInv'
<1>1. TypeOK /\ ServerInvariant
  BY DEF IInv, Typed, ServerInvariant
<1>2. ServerInvariant'
  <2>1. CASE session' = NoSession
    <3>1. TypeOK'
      BY <1>1, <2>1 DEF TypeOK
    <3> QED
      BY <2>1, <3>1, ReleaseInv
  <2>2. CASE session' = session
    BY <1>1, <2>2, StutterInv DEF vars
  <2> QED
    BY <2>1, <2>2
<1>3. Rests
  BY <1>1 DEF TypeOK, Rests, Active, SameJob
<1> QED
  BY <1>2, <1>3, LessensInv DEF Lessens

\* A message is lost.
LEMMA LoseInv ==
    ASSUME IInv, Lose
    PROVE  IInv'
BY KeptOrEnded DEF Lose, Unclient, Unserver, IInv, Sessions

\* A Link closes and takes its session with it.
LEMMA ServeCloseInv ==
    ASSUME IInv, ServeClose
    PROVE  IInv'
<1>1. PICK m \in net : /\ Release(m.conn) /\ up' = up \ {m.conn} /\ net' = Unserved(m.conn)
                       /\ Unclient /\ UNCHANGED <<tree, rooted>>
  BY DEF ServeClose
<1>2. net' \subseteq net /\ up' \subseteq up
  BY <1>1 DEF Unserved
<1>3. session' = NoSession \/ (session' = session /\ (Active => session.conn \in up'))
  BY <1>1 DEF Release, Owns, IInv, Sessions
<1> QED
  BY <1>1, <1>2, <1>3, KeptOrEnded DEF Unclient

\* The lease of a silent Link runs out.
LEMMA LeaseExpiresInv ==
    ASSUME IInv, LeaseExpires
    PROVE  IInv'
<1>1. net' \subseteq net /\ up' \subseteq up /\ session' = NoSession
  BY DEF LeaseExpires, Expire, Unserved
<1> QED
  BY <1>1, KeptOrEnded DEF LeaseExpires, Expire, Unclient

\* The server restarts with neither Links nor a session.
LEMMA RestartInv ==
    ASSUME IInv, Restart
    PROVE  IInv'
<1>1. net' \subseteq net /\ up' \subseteq up /\ session' = NoSession
  BY DEF Restart
<1> QED
  BY <1>1, KeptOrEnded DEF Restart, Unclient

\* The lease counts silence, and traffic renews it.
LEMMA LeaseInv ==
    ASSUME IInv, ServerTick \/ Traffic
    PROVE  IInv'
<1>1. /\ Tick \/ (Touch(client.conn) /\ client.conn \in Conns)
      /\ UNCHANGED <<up, net>> /\ Unclient
  BY DEF ServerTick, Traffic, IInv, Typed
<1>2. session \in SessionRecord /\ Active /\ UNCHANGED <<tree, rooted>>
  BY <1>1 DEF Tick, Touch, Owns, Active, IInv, Typed, ServerInvariant, TypeOK
<1>3. ServerInvariant'
  BY <1>1, OtherActionsInv DEF IInv, Typed
<1>4. PICK x \in 0 .. Lease + 1 : session' = [session EXCEPT !.idle = x]
  BY <1>1, <1>2, LeaseAssumption DEF Touch, Tick, SessionRecord
<1>5. Rests
  BY <1>1, <1>2, <1>4, SetIdle DEF Rests, SameJob, IInv, Sessions
<1> QED
  BY <1>1, <1>2, <1>3, <1>5, LessensInv DEF Lessens, Unclient

(***************************************************************************)
(* An attempt ends in failure.                                             *)
(***************************************************************************)
\* The fields of a message.
LEMMA MsgFields ==
    ASSUME NEW k, NEW c, NEW op, NEW f, NEW t, NEW d
    PROVE  LET m == Msg(k, c, op, f, t, d)
           IN  /\ m.kind = k /\ m.conn = c /\ m.op = op /\ m.file = f
               /\ m.manifest = t /\ m.data = d
BY DEF Msg

\* The message that closes the Link of the attempt.
CloseMsg == Msg("close", client.conn, "close", NoPath, Blank, 0)

\* Links are numbers.
LEMMA LinkOrder == \A c \in Conns : c <= c /\ c # 0 /\ c \in Nat
BY LinksAreAttempts

\* A running attempt has a Link.
LEMMA RunningHasLink ==
    ASSUME IInv, Running
    PROVE  client.conn \in Conns
BY DEF IInv, Typed, Position, Running, ClientRecord

\* An attempt that closes its Link, for whatever reason, leaves types, the
\* session and the order of the Links as they are.
LEMMA Closes ==
    ASSUME IInv, Running, SameAttempt(client', client), client'.remote = client.remote,
           Unserver, net' \subseteq net \cup {CloseMsg}, local' \in Trees, Faithful(local'),
           UNCHANGED edits
    PROVE  Typed' /\ Sessions' /\ Links' /\ client'.conn # 0
<1> USE DEF Unserver
<1>0. client.conn \in Conns
  BY RunningHasLink
<1>1. /\ client' \in ClientRecord /\ client'.conn = client.conn
      /\ client'.push = client.push /\ client'.options = client.options
      /\ client'.scan = client.scan /\ client'.remote = client.remote
  BY DEF SameAttempt
<1>2. CloseMsg.kind = "close" /\ CloseMsg.conn = client.conn
  BY MsgFields DEF CloseMsg
<1> HIDE DEF CloseMsg
<1>3. ASSUME NEW m \in net' PROVE Carries(m)'
  <2>1. CASE m \in net
    BY <1>1, <2>1 DEF IInv, Typed, Carries
  <2>2. CASE m = CloseMsg
    BY <1>0, <1>2, <2>2 DEF Carries
  <2> QED
    BY <2>1, <2>2
<1>4. Typed'
  <2>1. ServerInvariant'
    BY StutterInv DEF IInv, Typed, vars
  <2> QED
    BY <1>1, <1>3, <2>1 DEF IInv, Typed, Faithful
<1>5. Sessions'
  BY <1>1 DEF IInv, Sessions, Active
<1>6. Links'
  <2>0. \A m \in net' : m \in net \/ (m.kind = "close" /\ m.conn = client.conn)
    BY <1>2
  <2>1. /\ \A m \in net' : m.conn <= client'.conn
        /\ \A c \in up' : c <= client'.conn
    <3>1. client.conn <= client.conn
      BY <1>0, LinkOrder
    <3> QED
      BY <1>1, <2>0, <3>1 DEF IInv, Links
  <2>2. \A m \in net' : m.kind = "request" /\ m.op = "start" =>
            /\ ~Owns(m.conn)'
            /\ \A n \in net' : n.conn = m.conn => n = m \/ n.kind = "close"
    BY <2>0 DEF IInv, Links, Owns, Active
  <2>3. \A m \in net' : m.kind = "resource" /\ m.op = "push" /\ Owns(m.conn)' =>
            m.data = session'.source[m.file].ver
    BY <2>0 DEF IInv, Links, Owns, Active
  <2> QED
    BY <2>1, <2>2, <2>3 DEF Links
<1> QED
  BY <1>0, <1>1, <1>4, <1>5, <1>6, LinkOrder

\* The client gives up, whatever it leaves of its own directory.
LEMMA GivenUp ==
    ASSUME IInv, Running, client' = [client EXCEPT !.pc = "failed"], Unserver,
           net' \subseteq net \cup {CloseMsg}, local' \in Trees, Faithful(local'),
           UNCHANGED edits
    PROVE  IInv'
<1>1. SameAttempt(client', client) /\ client'.pc = "failed" /\ client'.remote = client.remote
  BY MovesOn DEF IInv, Typed, Ended, Moved
<1>2. ~Running'
  BY <1>1 DEF Running, Ended
<1>3. Typed' /\ Sessions' /\ Links' /\ client'.conn # 0
  BY <1>1, Closes
<1>4. OneQuestion' /\ InStep' /\ Accounted' /\ Position'
  BY <1>2, <1>3 DEF OneQuestion, InStep, Accounted, Position
<1>5. Strays' /\ Done'
  BY <1>1 DEF Strays, Settled, Done
<1> QED
  BY <1>3, <1>4, <1>5 DEF IInv

\* Trees a broken step may leave are faithful.
LEMMA PreparePartialFaithful ==
    ASSUME NEW t \in Trees, Faithful(t), NEW src, NEW dst,
           NEW u \in PreparePartial(t, src, dst)
    PROVE  Faithful(u)
<1> SUFFICES ASSUME NEW p \in Paths, u[p] # t[p] PROVE u[p].ver = u[p].data
  BY DEF Faithful
<1>1. u[p] \in {None, Dir}
  BY PreparePartialChanges
<1> QED
  BY <1>1 DEF None, Dir

\* The same for a change of some paths.
LEMMA PutFaithful ==
    ASSUME NEW t \in Trees, Faithful(t), NEW D, NEW e, e.ver = e.data
    PROVE  Faithful(Put(t, D, e))
BY DEF Faithful, Put

\* The entries the client puts in place.
LEMMA FaithfulEntries ==
    /\ None.ver = None.data /\ Dir.ver = Dir.data
    /\ \A v : File(v, v).ver = File(v, v).data
BY DEF None, Dir, File

\* An error, or a crash, ends the attempt.
LEMMA FailInv ==
    ASSUME IInv, Fail \/ Crash
    PROVE  IInv'
<1>1. net' \subseteq net \cup {CloseMsg}
  BY DEF Fail, Crash, GiveUp, Closing, Unread, CloseMsg
<1>2. local' \in Trees /\ Faithful(local') /\ UNCHANGED edits
  BY DEF Fail, Crash, GiveUp, IInv, Typed
<1> QED
  BY <1>1, <1>2, GivenUp DEF Fail, Crash, GiveUp

\* The preparation, an installation or the removal breaks off.
LEMMA BreaksInv ==
    ASSUME IInv, NEW dir \in Trees, Faithful(dir), Running, GiveUp(dir)
    PROVE  IInv'
<1>1. net' \subseteq net \cup {CloseMsg}
  BY DEF GiveUp, Closing, Unread, CloseMsg
<1> QED
  BY <1>1, GivenUp DEF GiveUp

\* The preparation breaks off.
LEMMA PrepareBreaksInv ==
    ASSUME IInv, PrepareBreaks
    PROVE  IInv'
<1>1. PICK dir \in PreparePartial(local, Source, Target) : GiveUp(dir)
  BY DEF PrepareBreaks
<1>2. dir \in Trees /\ Faithful(dir)
  BY PreparePartialType, PreparePartialFaithful DEF IInv, Typed
<1>3. Running
  BY DEF PrepareBreaks, Running, Ended
<1> QED
  BY <1>1, <1>2, <1>3, BreaksInv

\* The files of the plan have a version.
LEMMA PlannedVersion ==
    ASSUME Typed, NEW f \in PlannedFiles
    PROVE  /\ f \in Paths /\ Source[f].kind = "file" /\ Source[f].ver \in Versions
           /\ Source[f].data = Source[f].ver
<1>1. Source \in Trees /\ Faithful(Source)
  BY DEF Typed, Source, ClientRecord
<1> QED
  BY <1>1, FileVersion DEF PlannedFiles, PlanFiles, Trees, Faithful

\* An installation breaks off.
LEMMA InstallBreaksInv ==
    ASSUME IInv, InstallBreaks
    PROVE  IInv'
<1>1. PICK dir \in InstallPartial(local, Source, Target, client.file, client.data) : GiveUp(dir)
  BY DEF InstallBreaks
<1>2. client.pc = "verified" /\ Running
  BY DEF InstallBreaks, Running, Ended
<1>3. /\ client.file \in PlannedFiles /\ client.data = Source[client.file].ver
      /\ Typed /\ local \in Trees /\ Faithful(local)
  BY <1>2 DEF IInv, Position, InFile, Typed
<1>4. Source[client.file].ver \in Versions
  BY <1>3, PlannedVersion
<1>5. dir \in Trees
  BY <1>1, <1>3, <1>4, InstallPartialType
<1>6. Faithful(dir)
  <2>1. \/ dir = local
        \/ dir = Put(local, {client.file}, File(Source[client.file].ver, client.data))
        \/ \E D : dir = Put(local, D, None)
    BY <1>1 DEF InstallPartial
  <2> QED
    BY <1>3, <2>1, PutFaithful, FaithfulEntries
<1> QED
  BY <1>1, <1>2, <1>5, <1>6, BreaksInv

\* The removal of extras breaks off.
LEMMA RemovalBreaksInv ==
    ASSUME IInv, RemovalBreaks
    PROVE  IInv'
<1>1. PICK dir \in RemovePartial(local, Target, Extras) : GiveUp(dir)
  BY DEF RemovalBreaks
<1>2. Running
  BY DEF RemovalBreaks, Running, Ended
<1>3. local \in Trees /\ Faithful(local)
  BY DEF IInv, Typed
<1>4. dir \in Trees
  BY <1>1, <1>3, RemovePartialType
<1>5. Faithful(dir)
  <2>1. dir = local \/ \E D : dir = Put(local, D, None)
    BY <1>1 DEF RemovePartial
  <2> QED
    BY <1>3, <2>1, PutFaithful, FaithfulEntries
<1> QED
  BY <1>1, <1>2, <1>4, <1>5, BreaksInv

(***************************************************************************)
(* A step within an attempt.                                               *)
(***************************************************************************)
\* The question of the attempt goes over its Link.
LEMMA QueryFields ==
    /\ Query.conn = client.conn
    /\ Query.kind = IF client.pc = "send" THEN "resource" ELSE "request"
    /\ client.pc \notin {"start", "send", "finish"} =>
          Query.op = client.pc /\ Query.file = client.file
    /\ client.pc = "start" => Query.op = "start" /\ Query.manifest = client.scan
    /\ client.pc = "send" =>
          Query.op = "push" /\ Query.file = client.file /\ Query.data = client.data
    /\ client.pc = "finish" => Query.op = "finish"
BY DEF Query, Ask, Msg

\* The same of the next state.
LEMMA NextQueryFields ==
    /\ Query'.conn = client'.conn
    /\ Query'.kind = IF client'.pc = "send" THEN "resource" ELSE "request"
    /\ client'.pc \notin {"start", "send", "finish"} =>
          Query'.op = client'.pc /\ Query'.file = client'.file
    /\ client'.pc = "start" => Query'.op = "start" /\ Query'.manifest = client'.scan
    /\ client'.pc = "send" =>
          Query'.op = "push" /\ Query'.file = client'.file /\ Query'.data = client'.data
    /\ client'.pc = "finish" => Query'.op = "finish"
BY DEF Query, Ask, Msg

\* What the messages, the session and the plan of the attempt have to do
\* with each other carries over to the rest of the invariant.
LEMMA StepsOn ==
    ASSUME IInv, Running, Settled, Unserver, UNCHANGED edits,
           SameAttempt(client', client), Running',
           client'.pc # "start",
           client'.remote \in Trees, Faithful(client'.remote),
           local' \in Trees, Faithful(local'),
           net' \subseteq net \cup {Query'},
           client'.pc \in {"plan", "next", "receive"} => Query' \notin net',
           client'.pc = "finish" => Current' = {Query'},
           OneQuestion', Position', InStep', Accounted'
    PROVE  IInv'
<1> USE DEF Unserver
<1>0. /\ client' \in ClientRecord /\ client'.conn = client.conn /\ client'.push = client.push
      /\ client'.options = client.options /\ client'.scan = client.scan
      /\ client.conn \in Conns
      /\ client'.pc \in InFile \cup {"finish", "plan", "next"}
  BY RunningHasLink DEF SameAttempt, ClientRecord, Running, Awaiting, Ended, InFile
<1>1. \A m \in net' : m \in net \/ m = Query'
  OBVIOUS
<1>2. /\ Source' \in Trees /\ Faithful(Source')
      /\ \A f \in PlannedFiles' : f \in Paths /\ Source'[f].ver \in Versions
  <2>1. Source' \in Trees /\ Faithful(Source')
    BY <1>0 DEF Source, IInv, Typed, ClientRecord
  <2> QED
    BY <2>1, FileVersion DEF PlannedFiles, PlanFiles, Trees
<1>3. Query' \in net' => Carries(Query)'
  <2> SUFFICES ASSUME Query' \in net' PROVE Carries(Query)'
    OBVIOUS
  <2>1. client'.pc \in (InFile \ {"receive"}) \cup {"finish"}
    BY <1>0 DEF InFile
  <2>2. CASE client'.pc = "finish"
    BY <1>0, <2>2, NextQueryFields DEF Carries
  <2>3. CASE client'.pc \in InFile \ {"receive"}
    <3>1. client'.file \in Paths
      BY <1>2, <2>3 DEF Position
    <3>2. client'.pc = "send" => client'.push /\ client'.data \in Versions
      BY <1>2, <2>3 DEF Position
    <3> QED
      BY <1>0, <2>3, <3>1, <3>2, NextQueryFields DEF Carries, InFile
  <2> QED
    BY <2>1, <2>2, <2>3
<1>4. Typed'
  <2>1. ServerInvariant'
    BY StutterInv DEF IInv, Typed, vars
  <2>2. ASSUME NEW m \in net' PROVE Carries(m)'
    <3>1. CASE m \in net
      BY <1>0, <3>1 DEF IInv, Typed, Carries
    <3> QED
      BY <1>1, <1>3, <2>2, <3>1
  <2> QED
    BY <1>0, <2>1, <2>2 DEF IInv, Typed, Faithful
<1>5. Sessions'
  BY <1>0 DEF IInv, Sessions, Active
<1>6. Links'
  <2>1. Query'.conn = client.conn /\ client.conn <= client.conn
        /\ (Query' \in net' => ~(Query'.kind = "request" /\ Query'.op = "start"))
    <3>1. client.conn <= client.conn
      BY <1>0, LinkOrder
    <3>2. CASE client'.pc \in {"send", "finish"}
      BY <1>0, <3>1, <3>2, NextQueryFields
    <3>3. CASE client'.pc \notin {"send", "finish", "start"}
      BY <1>0, <3>1, <3>3, NextQueryFields
    <3> QED
      BY <3>2, <3>3
  <2>2. /\ \A m \in net' : m.conn <= client'.conn
        /\ \A c \in up' : c <= client'.conn
    BY <1>0, <1>1, <2>1 DEF IInv, Links
  <2>3. ASSUME NEW m \in net', m.kind = "request", m.op = "start"
        PROVE  /\ ~Owns(m.conn)'
               /\ \A n \in net' : n.conn = m.conn => n = m \/ n.kind = "close"
    <3>1. m \in net
      BY <1>1, <2>1, <2>3
    <3>2. m.conn # client.conn
      <4>1. CASE m.conn = client.conn
        <5>1. m \in Current /\ m = Query
          BY <3>1, <4>1, <2>3 DEF Current, IInv, OneQuestion
        <5>2. client.pc = "start"
          BY <5>1, <2>3, QueryFields DEF Running, Awaiting, Ended, InFile, IInv, Typed, ClientRecord
        <5>3. Answer("manifest") # {}
          BY <5>2 DEF Settled
        <5>4. Current = {Query}
          BY <3>1, <5>1 DEF IInv, OneQuestion
        <5> QED
          BY <2>3, <5>1, <5>3, <5>4 DEF Answer, Current
      <4> QED
        BY <4>1
    <3> QED
      BY <1>1, <2>1, <2>3, <3>1, <3>2 DEF IInv, Links, Owns, Active
  <2>4. ASSUME NEW m \in net', m.kind = "resource", m.op = "push", Owns(m.conn)'
        PROVE  m.data = session'.source[m.file].ver
    <3>1. CASE m \in net
      BY <2>4, <3>1 DEF IInv, Links, Owns, Active
    <3>2. CASE m = Query'
      <4>1. client'.pc = "send" /\ Owns(client.conn)'
        BY <1>0, <2>4, <3>2, NextQueryFields
      <4>2. session'.source = Source'
        BY <1>0, <4>1 DEF InStep
      <4>3. client'.data = Source'[client'.file].ver
        BY <4>1 DEF Position
      <4> QED
        BY <3>2, <4>1, <4>2, <4>3, NextQueryFields
    <3> QED
      BY <1>1, <3>1, <3>2
  <2> QED
    BY <2>2, <2>3, <2>4 DEF Links
<1>7. Strays'
  <2>1. client'.pc # "success"
    BY <1>0 DEF InFile
  <2>2. ASSUME Active', session'.conn # client'.conn, NEW m \in net', m.conn = session'.conn
        PROVE  ~Works(m)
    <3>1. m \in net
      BY <1>0, <1>1, <2>2, NextQueryFields
    <3> QED
      BY <1>0, <2>2, <3>1 DEF IInv, Strays, Active
  <2> QED
    BY <2>1, <2>2 DEF Strays, Works
<1>8. Done'
  <2>1. CASE client'.pc = "finish"
    <3>1. Answer("ok")' = {}
      BY <2>1, NextQueryFields DEF Answer, Current
    <3> QED
      BY <2>1, <3>1 DEF Done
  <2>2. CASE client'.pc # "finish"
    BY <1>0, <2>2 DEF Done, InFile
  <2> QED
    BY <2>1, <2>2
<1> QED
  BY <1>4, <1>5, <1>6, <1>7, <1>8 DEF IInv

\* An answer is all there is on the Link of the attempt, but for the file
\* that comes with the answer to GET.
LEMMA AnswerIsAlone ==
    ASSUME IInv, Running, NEW x, NEW m \in Answer(x)
    PROVE  /\ m \in Current /\ m.kind = "reply" /\ Query \notin net
           /\ \A n \in Current \ {m} : n.kind = "resource" /\ client.pc = "get"
<1>1. m \in Current /\ m.kind = "reply"
  BY DEF Answer, Current
<1>2. m # Query
  BY <1>1, QueryFields
<1>3. Query \notin net
  BY <1>1, <1>2 DEF IInv, OneQuestion
<1> QED
  BY <1>1, <1>3 DEF IInv, OneQuestion, Current

\* Nothing is on its way, and nothing was asked.
LEMMA Silence ==
    ASSUME \A n \in net' : n.conn # client.conn, client'.conn = client.conn,
           client'.pc \in {"plan", "next"}
    PROVE  OneQuestion' /\ Current' = {} /\ Query' \notin net' /\ \A x : Answer(x)' = {}
<1>1. Current' = {} /\ \A x : Answer(x)' = {}
  BY DEF Current, Answer
<1>2. Query' \notin net'
  BY NextQueryFields
<1> QED
  BY <1>1, <1>2 DEF OneQuestion

\* A question was asked, and nothing else is on its way.
LEMMA Question ==
    ASSUME NEW N, \A n \in N : n.conn # client.conn, client'.conn = client.conn,
           client'.pc \in (Awaiting \ {"receive"}), net' = N \cup {Query'}
    PROVE  OneQuestion' /\ Current' = {Query'} /\ \A x : Answer(x)' = {}
<1>1. Current' = {Query'}
  BY NextQueryFields DEF Current
<1>2. \A x : Answer(x)' = {}
  BY <1>1, NextQueryFields DEF Answer, Current
<1>3. client'.pc \notin {"plan", "next", "receive"}
  BY DEF Awaiting
<1> QED
  BY <1>1, <1>2, <1>3 DEF OneQuestion

\* The plan is made once.
LEMMA PlanStays ==
    ASSUME SameAttempt(client', client), client'.remote = client.remote
    PROVE  Source' = Source /\ Target' = Target /\ PlannedFiles' = PlannedFiles
           /\ Extras' = Extras
BY DEF SameAttempt, Source, Target, PlannedFiles, Extras

\* The session that answered, or is about to be asked, is where the client
\* takes it to be.
LEMMA StaysInStep ==
    ASSUME IInv, Running, client.pc # "start", SameAttempt(client', client),
           client'.remote = client.remote, client'.pc # "start", UNCHANGED session, Running',
           Owns(client.conn) =>
              /\ \A x : Answer(x)' = {}
              /\ Before' \/ (After' /\ client'.pc \notin {"plan", "next"} /\ Query' \notin net')
    PROVE  InStep'
<1> SUFFICES ASSUME Owns(client.conn)' PROVE InStep'
  BY DEF InStep, SameAttempt
<1>1. /\ client'.conn = client.conn /\ client'.push = client.push
      /\ client'.foreign = client.foreign
  BY DEF SameAttempt
<1>2. Owns(client.conn)
  BY <1>1 DEF Owns, Active
<1>3. Source' = Source /\ Target' = Target
  BY PlanStays
<1> QED
  BY <1>1, <1>2, <1>3 DEF IInv, InStep

\* After the answer to a question the session has taken its step.
LEMMA AnsweredSession ==
    ASSUME IInv, Running, client.pc # "start", Owns(client.conn), Answer(Good) # {}
    PROVE  After
BY DEF IInv, InStep

\* The manifest of the server arrives.
LEMMA ReadManifestInv ==
    ASSUME IInv, ReadManifest
    PROVE  IInv'
<1>1. PICK m \in Answer("manifest") :
         /\ net' = net \ {m}
         /\ client' = [client EXCEPT !.pc = "plan", !.remote = m.manifest]
  BY DEF ReadManifest
<1>2. client.pc = "start" /\ Running /\ UNCHANGED <<session, local, edits>> /\ Unserver
  BY DEF ReadManifest, Running, Ended, Unserver
<1>3. /\ m \in net /\ m.kind = "reply" /\ m.op = "manifest"
      /\ m.manifest \in Trees /\ Faithful(m.manifest)
  BY <1>1 DEF Answer, IInv, Typed, Carries
<1>4. Moved("plan", m.manifest, client.file, client.data, client.done)
  BY <1>1, <1>3, MovesWithRemote DEF IInv, Typed
<1>5. /\ SameAttempt(client', client) /\ client'.pc = "plan" /\ client'.remote = m.manifest
      /\ client'.done = client.done /\ client'.conn = client.conn /\ client'.push = client.push
      /\ client'.scan = client.scan /\ client'.options = client.options
      /\ client'.stale = client.stale /\ client'.foreign = client.foreign
  BY <1>4 DEF Moved, SameAttempt
<1>6. \A n \in net' : n.conn # client.conn
  BY <1>1, <1>2, AnswerIsAlone DEF Current
<1>7. OneQuestion' /\ Current' = {} /\ Query' \notin net' /\ \A x : Answer(x)' = {}
  BY <1>5, <1>6, Silence
<1>8. client.remote = Blank /\ client.done = {}
  BY <1>2 DEF IInv, Position
<1>9. Running' /\ Settled
  BY <1>1, <1>2, <1>5 DEF Running, Ended, Settled
<1>10. Position'
  <2>1. client'.conn # 0
    BY <1>2, <1>5, RunningHasLink, LinkOrder
  <2> QED
    BY <1>5, <1>7, <1>8, <2>1 DEF Position, InFile
<1>11. InStep'
  <2> SUFFICES ASSUME Owns(client.conn)' PROVE InStep'
    BY DEF InStep
  <2>1. Owns(client.conn)
    BY <1>2, <1>5 DEF Owns, Active
  <2>2. /\ session.done = {} /\ session.pending = NoPath
        /\ client.push => session.stale \subseteq client.foreign
        /\ client.scan = IF client.push THEN session.source ELSE session.destination
        /\ m.manifest = IF client.push THEN session.destination ELSE session.source
    BY <1>1, <1>2, <2>1 DEF IInv, InStep
  <2>3. session'.source = Source' /\ session'.destination = Target'
    BY <1>2, <1>5, <2>2 DEF Source, Target
  <2>4. Before'
    BY <1>2, <1>5, <1>8, <2>2 DEF Before
  <2> QED
    BY <1>2, <1>5, <1>7, <2>2, <2>3, <2>4 DEF InStep
<1>12. Accounted'
  <2>1. Running
    BY <1>2
  <2>2. CASE client.push
    BY <1>2, <1>5, <2>1, <2>2 DEF IInv, Accounted
  <2>3. CASE ~client.push
    <3>1. Target' = Target /\ Scanned = {} /\ Scanned' = {}
      BY <1>2, <1>5, <2>3 DEF Target, Scanned
    <3> QED
      BY <1>2, <1>5, <1>8, <2>1, <2>3, <3>1 DEF IInv, Accounted
  <2> QED
    BY <2>2, <2>3
<1>13. net' \subseteq net \cup {Query'} /\ local' \in Trees /\ Faithful(local')
  BY <1>1, <1>2 DEF IInv, Typed
<1> QED
  BY <1>2, <1>3, <1>5, <1>7, <1>9, <1>10, <1>11, <1>12, <1>13, StepsOn

\* A push that edits nothing of its own keeps its account of the source.
LEMMA PushAccounted ==
    ASSUME IInv, Running, client.push, SameAttempt(client', client), UNCHANGED local
    PROVE  Accounted'
BY DEF IInv, Accounted, SameAttempt

\* A pull that writes nothing and finishes no file keeps its account.
LEMMA PullAccounted ==
    ASSUME IInv, Running, ~client.push, SameAttempt(client', client),
           client'.remote = client.remote, client'.done = client.done,
           UNCHANGED local, Scanned' = Scanned
    PROVE  Accounted'
<1>1. Source' = Source /\ Target' = Target
  BY PlanStays
<1> QED
  BY <1>1 DEF IInv, Accounted, SameAttempt

\* The parts of the account that moving on to or within a file leaves.
LEMMA FileAccounted ==
    ASSUME IInv, Running, SameAttempt(client', client), client'.remote = client.remote,
           client'.done = client.done, UNCHANGED local,
           client.pc \notin {"start", "plan"}, client'.pc \notin {"start", "plan"}
    PROVE  Accounted'
<1>1. Scanned' = Scanned
  BY PlanStays DEF Scanned, SameAttempt
<1> QED
  BY <1>1, PushAccounted, PullAccounted

\* The plan is made, and a pull makes its directories.
LEMMA MakePlanInv ==
    ASSUME IInv, MakePlan
    PROVE  IInv'
<1>1. /\ client.pc = "plan" /\ Running /\ Settled /\ Unserver /\ UNCHANGED <<session, edits>>
      /\ local' = LocalAfterPlan /\ client \in ClientRecord
  BY DEF MakePlan, Running, Ended, Settled, Unserver, IInv, Typed
<1>2. \/ /\ client.options.dryRun /\ client' = [client EXCEPT !.pc = "finish"]
         /\ net' = net \cup {Ask(client.conn, "finish", NoPath)}
      \/ /\ ~client.options.dryRun /\ client' = [client EXCEPT !.pc = "next"] /\ net' = net
  BY DEF MakePlan, AskFinish
<1>3. /\ SameAttempt(client', client) /\ client'.remote = client.remote
      /\ client'.done = client.done
      /\ client'.pc = IF client.options.dryRun THEN "finish" ELSE "next"
  BY <1>1, <1>2, MovesOn DEF Moved, Awaiting
<1>4. /\ client'.conn = client.conn /\ client'.push = client.push
      /\ client'.options = client.options /\ client'.scan = client.scan
      /\ client'.foreign = client.foreign
  BY <1>3 DEF SameAttempt
<1>5. \A n \in net : n.conn # client.conn
  BY <1>1 DEF IInv, OneQuestion, Current
<1>6. client.options.dryRun => Query' = Ask(client.conn, "finish", NoPath)
  BY <1>3, <1>4 DEF Query
<1>7. /\ OneQuestion' /\ \A x : Answer(x)' = {}
      /\ ~client.options.dryRun => Current' = {} /\ Query' \notin net'
      /\ client.options.dryRun => Current' = {Query'}
      /\ net' \subseteq net \cup {Query'}
  <2>1. CASE client.options.dryRun
    <3>1. client'.pc \in Awaiting \ {"receive"} /\ net' = net \cup {Query'}
      BY <1>2, <1>3, <1>6, <2>1 DEF Awaiting
    <3> QED
      BY <1>4, <1>5, <2>1, <3>1, Question
  <2>2. CASE ~client.options.dryRun
    BY <1>2, <1>3, <1>4, <1>5, <2>2, Silence
  <2> QED
    BY <2>1, <2>2
<1>8. client.done = {} /\ client.conn # 0 /\ Running'
  BY <1>1, <1>3, RunningHasLink, LinkOrder DEF IInv, Position, Running, Ended
<1>9. Source' = Source /\ Target' = Target /\ PlannedFiles' = PlannedFiles
  BY <1>3, PlanStays
<1>10. Position'
  <2>1. \A m \in Current' : m.kind # "resource"
    BY <1>3, <1>7, NextQueryFields
  <2> QED
    BY <1>3, <1>4, <1>8, <2>1 DEF Position, InFile
<1>11. InStep'
  <2>1. Owns(client.conn) => Before
    BY <1>1 DEF IInv, InStep
  <2>2. Before => Before'
    BY <1>1, <1>3 DEF Before
  <2> QED
    BY <1>1, <1>3, <1>7, <1>8, <2>1, <2>2, StaysInStep
<1>12. local' \in Trees /\ Faithful(local')
  <2>1. local \in Trees /\ Faithful(local)
    BY DEF IInv, Typed
  <2> QED
    BY <1>1, <2>1, PutType, EntryTypes, PutFaithful, FaithfulEntries
       DEF LocalAfterPlan, PreparedLocal
<1>13. Accounted'
  <2>1. CASE client.push
    BY <1>1, <1>3, <2>1, PushAccounted DEF LocalAfterPlan
  <2>2. CASE ~client.push /\ client.options.dryRun
    <3>1. Scanned' = Scanned
      BY <1>1, <1>3, <1>4, <2>2 DEF Scanned
    <3> QED
      BY <1>1, <1>3, <2>2, <3>1, PullAccounted DEF LocalAfterPlan
  <2>3. CASE ~client.push /\ ~client.options.dryRun
    <3>1. Scanned' = PlanDirs(Source)
      BY <1>3, <1>4, <1>9, <2>3 DEF Scanned
    <3>2. \A p \in Paths \ client.foreign : Alike(local[p], Target[p])
      BY <1>1, <1>8, <2>3 DEF IInv, Accounted, Scanned
    <3>3. local' = Put(local, PlanDirs(Source), Dir)
      BY <1>1, <2>3 DEF LocalAfterPlan, PreparedLocal
    <3>4. \A p \in Paths \ client.foreign :
            Alike(local'[p], IF p \in PlanDirs(Source) THEN Dir ELSE Target[p])
      BY <3>2, <3>3 DEF Put, Alike
    <3> QED
      BY <1>3, <1>4, <1>8, <1>9, <2>3, <3>1, <3>4 DEF Accounted
  <2> QED
    BY <2>1, <2>2, <2>3
<1>14. client'.remote \in Trees /\ Faithful(client'.remote)
  BY <1>3 DEF IInv, Typed, ClientRecord
<1> QED
  BY <1>1, <1>3, <1>7, <1>8, <1>10, <1>11, <1>12, <1>13, <1>14, StepsOn

\* The state of an attempt that is in a file or about to be: what its next
\* question needs.
LEMMA AsksOn ==
    ASSUME IInv, Running, client.pc \notin {"start", "plan"}, Unserver, UNCHANGED <<local, edits>>,
           NEW N \in SUBSET net, \A n \in N : n.conn # client.conn,
           SameAttempt(client', client), client'.remote = client.remote,
           client'.done = client.done,
           client'.pc \in (Awaiting \ {"start", "receive"}), net' = N \cup {Query'},
           Owns(client.conn) => Before', Position'
    PROVE  IInv'
<1>1. OneQuestion' /\ Current' = {Query'} /\ \A x : Answer(x)' = {}
  BY Question DEF SameAttempt
<1>2. UNCHANGED session /\ Running' /\ Settled /\ net' \subseteq net \cup {Query'}
      /\ client'.pc \notin {"start", "plan", "next", "receive"}
  BY DEF Unserver, Running, Awaiting, Ended, Settled
<1>3. InStep'
  BY <1>1, <1>2, StaysInStep
<1>4. Accounted'
  BY <1>2, FileAccounted
<1>5. /\ local' \in Trees /\ Faithful(local')
      /\ client'.remote \in Trees /\ Faithful(client'.remote)
  BY DEF IInv, Typed, ClientRecord
<1> QED
  BY <1>1, <1>2, <1>3, <1>4, <1>5, StepsOn

\* What the other messages of the attempt are when an answer has arrived.
LEMMA OthersElsewhere ==
    ASSUME IInv, Running, client.pc # "get", NEW x, NEW m \in Answer(x)
    PROVE  \A n \in net \ {m} : n.conn # client.conn
BY AnswerIsAlone DEF Current

\* The position of a client that has asked something about a file.
LEMMA FilePosition ==
    ASSUME IInv, Running, SameAttempt(client', client), client'.remote = client.remote,
           client'.done = client.done, client'.pc \in InFile \ {"receive"},
           client.pc \in InFile \cup {"next"},
           client'.file \in PlannedFiles \ client.done,
           client'.pc \in {"begin", "send", "commit"} <=> client.push,
           client'.pc # "get" => client'.data = Source[client'.file].ver,
           Current' = {Query'}
    PROVE  Position'
<1>1. /\ client'.conn = client.conn /\ client'.push = client.push
      /\ client'.options = client.options
  BY DEF SameAttempt
<1>2. client'.conn # 0
  BY <1>1, RunningHasLink, LinkOrder
<1>3. Source' = Source /\ PlannedFiles' = PlannedFiles
  BY PlanStays
<1>4. ~client.options.dryRun /\ client.done \subseteq PlannedFiles
  BY DEF IInv, Position
<1>5. ~client'.push => \A m \in Current' : m.kind # "resource"
  BY <1>1, NextQueryFields
<1>6. client'.pc \notin {"start", "plan", "finish", "receive"}
  BY DEF InFile
<1> QED
  BY <1>1, <1>2, <1>3, <1>4, <1>5, <1>6 DEF Position, InFile

\* A push asks to begin its next file, holding the bytes it scanned.
LEMMA AskBeginInv ==
    ASSUME IInv, AskBegin
    PROVE  IInv'
<1>1. /\ client.pc = "next" /\ client.push /\ Running /\ Unserver /\ client \in ClientRecord
      /\ UNCHANGED <<session, local, edits>>
  BY DEF AskBegin, Running, Ended, Unserver, IInv, Typed
<1>2. PICK f \in Paths :
         /\ IsNext(f) /\ f \notin client.stale
         /\ client' = [client EXCEPT !.pc = "begin", !.file = f, !.data = local[f].data]
         /\ net' = net \cup {Ask(client.conn, "begin", f)}
  BY DEF AskBegin, Snapshot
<1>3. /\ local[f] = client.scan[f] /\ local[f].data = local[f].ver
      /\ f \in PlannedFiles \ client.done
  BY <1>1, <1>2 DEF IInv, Accounted, Typed, Faithful, IsNext
<1>4. local[f].data = Source[f].ver /\ Source[f].ver \in Versions
  BY <1>1, <1>3, PlannedVersion DEF Source, IInv
<1>5. Moved("begin", client.remote, f, local[f].data, client.done)
  BY <1>1, <1>2, <1>4, MovesToData
<1>6. /\ SameAttempt(client', client) /\ client'.pc = "begin" /\ client'.remote = client.remote
      /\ client'.file = f /\ client'.data = Source[f].ver /\ client'.done = client.done
      /\ client'.conn = client.conn
  BY <1>4, <1>5 DEF Moved, SameAttempt
<1>7. \A n \in net : n.conn # client.conn
  BY <1>1 DEF IInv, OneQuestion, Current
<1>8. net' = net \cup {Query'} /\ client'.pc \in Awaiting \ {"start", "receive"}
  BY <1>2, <1>6 DEF Query, Awaiting
<1>9. Current' = {Query'}
  BY <1>6, <1>7, <1>8, Question
<1>10. Position'
  BY <1>1, <1>3, <1>6, <1>9, FilePosition DEF InFile
<1>11. Owns(client.conn) => Before'
  <2>1. Owns(client.conn) => Before
    BY <1>1 DEF IInv, InStep
  <2> QED
    BY <1>1, <1>6, <2>1 DEF Before
<1> QED
  BY <1>1, <1>6, <1>7, <1>8, <1>10, <1>11, AsksOn

\* A pull asks for its next file.
LEMMA AskGetInv ==
    ASSUME IInv, AskGet
    PROVE  IInv'
<1>1. /\ client.pc = "next" /\ ~client.push /\ Running /\ Unserver /\ client \in ClientRecord
      /\ UNCHANGED <<session, local, edits>>
  BY DEF AskGet, Running, Ended, Unserver, IInv, Typed
<1>2. PICK f \in Paths :
         /\ f \in PlannedFiles \ client.done
         /\ client' = [client EXCEPT !.pc = "get", !.file = f]
         /\ net' = net \cup {Ask(client.conn, "get", f)}
  BY DEF AskGet, IsNext
<1>3. Moved("get", client.remote, f, client.data, client.done)
  BY <1>1, <1>2, MovesToFile
<1>4. /\ SameAttempt(client', client) /\ client'.pc = "get" /\ client'.remote = client.remote
      /\ client'.file = f /\ client'.done = client.done /\ client'.conn = client.conn
  BY <1>3 DEF Moved, SameAttempt
<1>5. \A n \in net : n.conn # client.conn
  BY <1>1 DEF IInv, OneQuestion, Current
<1>6. net' = net \cup {Query'} /\ client'.pc \in Awaiting \ {"start", "receive"}
  BY <1>2, <1>4 DEF Query, Awaiting
<1>7. Current' = {Query'}
  BY <1>4, <1>5, <1>6, Question
<1>8. Position'
  BY <1>1, <1>2, <1>4, <1>7, FilePosition DEF InFile
<1>9. Owns(client.conn) => Before'
  <2>1. Owns(client.conn) => Before
    BY <1>1 DEF IInv, InStep
  <2> QED
    BY <1>1, <1>4, <2>1 DEF Before
<1> QED
  BY <1>1, <1>4, <1>5, <1>6, <1>8, <1>9, AsksOn

\* BEGIN was acknowledged: the file is sent.
LEMMA SendFileInv ==
    ASSUME IInv, SendFile
    PROVE  IInv'
<1>1. /\ client.pc = "begin" /\ Running /\ Unserver /\ client \in ClientRecord
      /\ UNCHANGED <<session, local, edits>> /\ client' = [client EXCEPT !.pc = "send"]
  BY DEF SendFile, Running, Ended, Unserver, IInv, Typed
<1>2. PICK m \in Answer("ok") :
        net' = (net \ {m}) \cup {Msg("resource", client.conn, "push", client.file, Blank,
                                     client.data)}
  BY DEF SendFile
<1>3. /\ SameAttempt(client', client) /\ client'.pc = "send" /\ client'.remote = client.remote
      /\ client'.file = client.file /\ client'.data = client.data
      /\ client'.done = client.done /\ client'.conn = client.conn
  BY <1>1, MovesOn DEF Moved, Awaiting, SameAttempt
<1>4. /\ client.push /\ client.file \in PlannedFiles \ client.done
      /\ client.data = Source[client.file].ver
  BY <1>1 DEF IInv, Position, InFile
<1>5. \A n \in net \ {m} : n.conn # client.conn
  BY <1>1, OthersElsewhere
<1>6. net' = (net \ {m}) \cup {Query'} /\ client'.pc \in Awaiting \ {"start", "receive"}
  BY <1>2, <1>3 DEF Query, Awaiting
<1>7. Current' = {Query'}
  BY <1>3, <1>5, <1>6, Question
<1>8. Position'
  BY <1>1, <1>3, <1>4, <1>7, FilePosition DEF InFile
<1>9. Owns(client.conn) => Before'
  <2>1. Owns(client.conn) => After
    BY <1>1, <1>2, AnsweredSession DEF Good
  <2> QED
    BY <1>1, <1>3, <2>1 DEF Before, After
<1> QED
  BY <1>1, <1>3, <1>5, <1>6, <1>8, <1>9, AsksOn

\* The file was received: its COMMIT is asked.
LEMMA AskCommitInv ==
    ASSUME IInv, AskCommit
    PROVE  IInv'
<1>1. /\ client.pc = "send" /\ Running /\ Unserver /\ client \in ClientRecord
      /\ UNCHANGED <<session, local, edits>> /\ client' = [client EXCEPT !.pc = "commit"]
  BY DEF AskCommit, Running, Ended, Unserver, IInv, Typed
<1>2. PICK m \in Answer("proof") :
        net' = (net \ {m}) \cup {Ask(client.conn, "commit", client.file)}
  BY DEF AskCommit
<1>3. /\ SameAttempt(client', client) /\ client'.pc = "commit" /\ client'.remote = client.remote
      /\ client'.file = client.file /\ client'.data = client.data
      /\ client'.done = client.done /\ client'.conn = client.conn
  BY <1>1, MovesOn DEF Moved, Awaiting, SameAttempt
<1>4. /\ client.push /\ client.file \in PlannedFiles \ client.done
      /\ client.data = Source[client.file].ver
  BY <1>1 DEF IInv, Position, InFile
<1>5. \A n \in net \ {m} : n.conn # client.conn
  BY <1>1, OthersElsewhere
<1>6. net' = (net \ {m}) \cup {Query'} /\ client'.pc \in Awaiting \ {"start", "receive"}
  BY <1>2, <1>3 DEF Query, Awaiting
<1>7. Current' = {Query'}
  BY <1>3, <1>5, <1>6, Question
<1>8. Position'
  BY <1>1, <1>3, <1>4, <1>7, FilePosition DEF InFile
<1>9. Owns(client.conn) => Before'
  <2>1. Owns(client.conn) => After
    BY <1>1, <1>2, AnsweredSession DEF Good
  <2> QED
    BY <1>1, <1>3, <2>1 DEF Before, After
<1> QED
  BY <1>1, <1>3, <1>5, <1>6, <1>8, <1>9, AsksOn

\* The file has arrived: it is reported.
LEMMA ReceiveFileInv ==
    ASSUME IInv, ReceiveFile
    PROVE  IInv'
<1>1. /\ client.pc = "receive" /\ Running /\ Unserver /\ client \in ClientRecord
      /\ UNCHANGED <<session, local, edits>>
  BY DEF ReceiveFile, Running, Ended, Unserver, IInv, Typed
<1>2. PICK m \in net :
         /\ m.kind = "resource" /\ m.conn = client.conn
         /\ client' = [client EXCEPT !.pc = "verified", !.data = m.data]
         /\ net' = (net \ {m}) \cup {Ask(client.conn, "verified", client.file)}
  BY DEF ReceiveFile
<1>3. /\ ~client.push /\ client.file \in PlannedFiles \ client.done
      /\ m.data = Source[client.file].ver
  BY <1>1, <1>2 DEF IInv, Position, InFile, Current
<1>4. m.data \in Versions
  BY <1>3, PlannedVersion DEF IInv
<1>5. Moved("verified", client.remote, client.file, m.data, client.done)
  BY <1>1, <1>2, <1>4, MovesWithData
<1>6. /\ SameAttempt(client', client) /\ client'.pc = "verified"
      /\ client'.remote = client.remote /\ client'.file = client.file
      /\ client'.data = m.data /\ client'.done = client.done /\ client'.conn = client.conn
  BY <1>5 DEF Moved, SameAttempt
<1>7. \A n \in net \ {m} : n.conn # client.conn
  BY <1>1, <1>2 DEF IInv, OneQuestion, Current
<1>8. net' = (net \ {m}) \cup {Query'} /\ client'.pc \in Awaiting \ {"start", "receive"}
  BY <1>2, <1>6 DEF Query, Awaiting
<1>9. Current' = {Query'}
  BY <1>6, <1>7, <1>8, Question
<1>10. Position'
  BY <1>1, <1>3, <1>6, <1>9, FilePosition DEF InFile
<1>11. Owns(client.conn) => Before'
  <2>1. Owns(client.conn) => Before \/ After
    BY <1>1 DEF IInv, InStep
  <2> QED
    BY <1>1, <1>6, <2>1 DEF Before, After
<1> QED
  BY <1>1, <1>6, <1>7, <1>8, <1>10, <1>11, AsksOn

\* Every file is done: FINISH is asked.
LEMMA AllSentInv ==
    ASSUME IInv, AllSent
    PROVE  IInv'
<1>1. /\ client.pc = "next" /\ Running /\ Unserver /\ client \in ClientRecord
      /\ UNCHANGED <<session, local, edits>> /\ PlannedFiles \subseteq client.done
      /\ client' = [client EXCEPT !.pc = "finish"]
      /\ net' = net \cup {Ask(client.conn, "finish", NoPath)}
  BY DEF AllSent, AskFinish, Running, Ended, Unserver, IInv, Typed
<1>2. /\ SameAttempt(client', client) /\ client'.pc = "finish" /\ client'.remote = client.remote
      /\ client'.done = client.done /\ client'.conn = client.conn
      /\ client'.push = client.push /\ client'.options = client.options
  BY <1>1, MovesOn DEF Moved, Awaiting, SameAttempt
<1>3. \A n \in net : n.conn # client.conn
  BY <1>1 DEF IInv, OneQuestion, Current
<1>4. net' = net \cup {Query'} /\ client'.pc \in Awaiting \ {"start", "receive"}
  BY <1>1, <1>2 DEF Query, Awaiting
<1>5. Current' = {Query'}
  BY <1>2, <1>3, <1>4, Question
<1>6. Position'
  <2>1. client'.conn # 0
    BY <1>1, <1>2, RunningHasLink, LinkOrder
  <2>2. PlannedFiles' = PlannedFiles /\ client.done \subseteq PlannedFiles
    BY <1>1, <1>2, PlanStays DEF IInv, Position
  <2>3. \A m \in Current' : m.kind # "resource"
    BY <1>2, <1>5, NextQueryFields
  <2> QED
    BY <1>1, <1>2, <2>1, <2>2, <2>3 DEF Position, InFile
<1>7. Owns(client.conn) => Before'
  <2>1. Owns(client.conn) => Before
    BY <1>1 DEF IInv, InStep
  <2> QED
    BY <1>1, <1>2, <2>1 DEF Before
<1> QED
  BY <1>1, <1>2, <1>3, <1>4, <1>6, <1>7, AsksOn

\* A file is done on both sides: the client turns to the next one.
LEMMA PastFile ==
    ASSUME IInv, Running, client.pc \in {"commit", "verified"}, Unserver, UNCHANGED edits,
           client' = [client EXCEPT !.pc = "next", !.done = client.done \cup {client.file}],
           NEW m \in Answer("ok"), net' = net \ {m},
           local' \in Trees, Faithful(local'), Accounted'
    PROVE  IInv'
<1>1. client.file \in PlannedFiles \ client.done /\ client.file \in Paths
  BY DEF IInv, Position, InFile, PlannedFiles, PlanFiles
<1>2. Moved("next", client.remote, client.file, client.data, client.done \cup {client.file})
  BY <1>1, MovesPastFile DEF IInv, Typed
<1>3. /\ SameAttempt(client', client) /\ client'.pc = "next" /\ client'.remote = client.remote
      /\ client'.done = client.done \cup {client.file} /\ client'.conn = client.conn
      /\ client'.options = client.options /\ client'.push = client.push
  BY <1>2 DEF Moved, SameAttempt
<1>4. \A n \in net' : n.conn # client.conn
  BY OthersElsewhere
<1>5. OneQuestion' /\ Current' = {} /\ Query' \notin net' /\ \A x : Answer(x)' = {}
  BY <1>3, <1>4, Silence
<1>6. Running' /\ Settled /\ client'.conn # 0
  BY <1>3, RunningHasLink, LinkOrder DEF Running, Ended, Settled
<1>7. Position'
  <2>1. PlannedFiles' = PlannedFiles
    BY <1>3, PlanStays
  <2>2. client.done \subseteq PlannedFiles /\ ~client.options.dryRun
    BY DEF IInv, Position, InFile
  <2> QED
    BY <1>1, <1>3, <1>5, <1>6, <2>1, <2>2 DEF Position, InFile
<1>8. InStep'
  <2>1. UNCHANGED session
    BY DEF Unserver
  <2>2. Owns(client.conn) => Before'
    <3>1. Owns(client.conn) => After
      BY AnsweredSession DEF Good
    <3> QED
      BY <1>3, <2>1, <3>1 DEF Before, After
  <2> QED
    BY <1>3, <1>5, <1>6, <2>1, <2>2, StaysInStep
<1>9. client'.remote \in Trees /\ Faithful(client'.remote)
  BY <1>3 DEF IInv, Typed, ClientRecord
<1> QED
  BY <1>3, <1>5, <1>6, <1>7, <1>8, <1>9, StepsOn

\* COMMIT was acknowledged.
LEMMA ReadCommittedInv ==
    ASSUME IInv, ReadCommitted
    PROVE  IInv'
<1>1. /\ client.pc = "commit" /\ Running /\ Unserver /\ UNCHANGED <<local, edits>>
      /\ client' = [client EXCEPT !.pc = "next", !.done = client.done \cup {client.file}]
  BY DEF ReadCommitted, Running, Ended
<1>2. PICK m \in Answer("ok") : net' = net \ {m}
  BY DEF ReadCommitted
<1>3. client.push /\ client.file \in Paths
  BY <1>1 DEF IInv, Position, InFile, PlannedFiles, PlanFiles
<1>4. SameAttempt(client', client)
  BY <1>1, <1>3, MovesPastFile DEF IInv, Typed, Moved
<1>5. Accounted' /\ local' \in Trees /\ Faithful(local')
  BY <1>1, <1>3, <1>4, PushAccounted DEF IInv, Typed
<1> QED
  BY <1>1, <1>2, <1>5, PastFile

\* VERIFIED was acknowledged: the file is installed.
LEMMA InstallInv ==
    ASSUME IInv, Install
    PROVE  IInv'
<1>1. /\ client.pc = "verified" /\ Running /\ Unserver /\ UNCHANGED edits
      /\ client' = [client EXCEPT !.pc = "next", !.done = client.done \cup {client.file}]
      /\ local' = Put(local, {client.file}, File(Source[client.file].ver, client.data))
  BY DEF Install, Running, Ended
<1>2. PICK m \in Answer("ok") : net' = net \ {m}
  BY DEF Install
<1>3. /\ ~client.push /\ client.file \in PlannedFiles /\ client.data = Source[client.file].ver
      /\ ~client.options.dryRun
  BY <1>1 DEF IInv, Position, InFile
<1>4. client.file \in Paths /\ Source[client.file].kind = "file"
      /\ Source[client.file].ver \in Versions
  BY <1>3, PlannedVersion DEF IInv
<1>5. /\ SameAttempt(client', client) /\ client'.remote = client.remote
      /\ client'.done = client.done \cup {client.file} /\ client'.pc = "next"
      /\ client'.push = client.push /\ client'.foreign = client.foreign
  BY <1>1, <1>4, MovesPastFile DEF IInv, Typed, Moved, SameAttempt
<1>6. local' \in Trees /\ Faithful(local')
  BY <1>1, <1>3, <1>4, PutType, EntryTypes, PutFaithful, FaithfulEntries DEF IInv, Typed
<1>7. Accounted'
  <2>1. Source' = Source /\ Target' = Target
    BY <1>5, PlanStays
  <2>2. Scanned' = Scanned
    BY <1>1, <1>5, <2>1 DEF Scanned, SameAttempt
  <2>3. ASSUME NEW p \in Paths \ client.foreign
        PROVE  Alike(local'[p], IF p \in client'.done THEN Source[p]
                                ELSE IF p \in Scanned THEN Dir ELSE Target[p])
    <3>1. CASE p = client.file
      <4>1. local'[p] = File(Source[p].ver, client.data) /\ p \in client'.done
        BY <1>1, <1>5, <3>1 DEF Put
      <4> QED
        BY <1>4, <3>1, <4>1 DEF Alike, File
    <3>2. CASE p # client.file
      <4>1. local'[p] = local[p] /\ (p \in client'.done <=> p \in client.done)
        BY <1>1, <1>5, <3>2 DEF Put
      <4> QED
        BY <1>1, <1>3, <4>1 DEF IInv, Accounted
    <3> QED
      BY <3>1, <3>2
  <2> QED
    BY <1>3, <1>5, <2>1, <2>2, <2>3 DEF Accounted
<1> QED
  BY <1>1, <1>2, <1>6, <1>7, PastFile

\* GET was acknowledged: its file is on its way, or lost.
LEMMA ReadGetInv ==
    ASSUME IInv, ReadGet
    PROVE  IInv'
<1>1. /\ client.pc = "get" /\ Running /\ Unserver /\ client \in ClientRecord
      /\ UNCHANGED <<session, local, edits>> /\ client' = [client EXCEPT !.pc = "receive"]
  BY DEF ReadGet, Running, Ended, Unserver, IInv, Typed
<1>2. PICK m \in Answer("file") : net' = net \ {m}
  BY DEF ReadGet
<1>3. /\ SameAttempt(client', client) /\ client'.pc = "receive"
      /\ client'.remote = client.remote /\ client'.file = client.file
      /\ client'.data = client.data /\ client'.done = client.done
      /\ client'.conn = client.conn /\ client'.push = client.push
      /\ client'.options = client.options
  BY <1>1, MovesOn DEF Moved, Awaiting, SameAttempt
<1>4. Current' \subseteq Current \ {m}
  BY <1>2, <1>3 DEF Current
<1>5. /\ \A n \in Current' : n.kind = "resource"
      /\ \A n \in Current' : n.op = "pull"
  <2>1. \A n \in Current' : n.kind = "resource"
    BY <1>1, <1>2, <1>4, AnswerIsAlone
  <2>2. \A n \in Current : n.kind = "resource" => n.op = "pull"
    BY <1>1, QueryFields DEF IInv, OneQuestion
  <2> QED
    BY <1>4, <2>1, <2>2
<1>6. Query' \notin net'
  <2>1. Query' \in net' => Query' \in Current'
    BY NextQueryFields DEF Current
  <2>2. Query'.kind # "resource"
    BY <1>3, NextQueryFields
  <2> QED
    BY <1>5, <2>1, <2>2
<1>7. OneQuestion'
  BY <1>1, <1>3, <1>4, <1>5, <1>6 DEF IInv, OneQuestion
<1>8. \A x : Answer(x)' = {}
  BY <1>5 DEF Answer, Current
<1>9. Running' /\ Settled /\ client'.conn # 0
  BY <1>1, <1>3, RunningHasLink, LinkOrder DEF Running, Ended, Settled
<1>10. Position'
  <2>1. PlannedFiles' = PlannedFiles /\ Source' = Source
    BY <1>3, PlanStays
  <2>2. /\ client.file \in PlannedFiles \ client.done /\ ~client.push
        /\ ~client.options.dryRun /\ client.done \subseteq PlannedFiles
        /\ \A n \in Current : n.kind = "resource" => n.data = Source[client.file].ver
    BY <1>1 DEF IInv, Position, InFile
  <2> QED
    BY <1>3, <1>4, <1>9, <2>1, <2>2 DEF Position, InFile
<1>11. InStep'
  <2>1. Owns(client.conn) => After'
    <3>1. Owns(client.conn) => After
      BY <1>1, <1>2, AnsweredSession DEF Good
    <3> QED
      BY <1>1, <1>3, <3>1 DEF After
  <2> QED
    BY <1>1, <1>3, <1>6, <1>8, <1>9, <2>1, StaysInStep
<1>12. Accounted'
  BY <1>1, <1>3, FileAccounted
<1>13. /\ local' \in Trees /\ Faithful(local') /\ net' \subseteq net \cup {Query'}
       /\ client'.remote \in Trees /\ Faithful(client'.remote)
  BY <1>1, <1>2, <1>3 DEF IInv, Typed, ClientRecord
<1> QED
  BY <1>1, <1>3, <1>6, <1>7, <1>9, <1>10, <1>11, <1>12, <1>13, StepsOn

\* What removing the extras leaves of a path nobody edited, once the files
\* are installed and the directories made.
LEMMA PulledPath ==
    ASSUME Accounted, client.scan \in Trees, client.remote \in Trees,
           client.done = PlannedFiles, client.pc = "finish", ~client.push,
           ~client.options.dryRun, NEW p \in Paths \ client.foreign
    PROVE  LET t == Put(local, Extras, None)
           IN  IF Source[p].kind # "none" \/ client.options.delete
                 THEN Alike(t[p], Source[p]) ELSE Alike(t[p], Target[p])
<1> DEFINE t == Put(local, Extras, None)
<1>1. Running
  BY DEF Running, Ended
<1>2. /\ Alike(local[p], IF p \in client.done THEN Source[p]
                         ELSE IF p \in PlanDirs(Source) THEN Dir ELSE Target[p])
      /\ client.done = PlannedFiles
  <2>1. Scanned = PlanDirs(Source)
    BY DEF Scanned
  <2> QED
    BY <1>1, <2>1 DEF Accounted
<1>3. Source[p] \in Entries /\ Target[p] \in Entries
  BY DEF Source, Target, Trees
<1>4. t[p] = IF p \in Extras THEN None ELSE local[p]
  BY DEF Put
<1> HIDE DEF t
<1>5. CASE Source[p].kind = "file"
  <2>1. p \notin Extras /\ p \notin PlanDirs(Source)
    BY <1>5 DEF Extras, PlanRemovals, PlanDirs
  <2>2. CASE p \in client.done
    BY <1>2, <1>4, <1>5, <2>1, <2>2 DEF t
  <2>3. CASE p \notin client.done
    <3>1. Source[p].kind = Target[p].kind /\ Source[p].ver = Target[p].ver
      BY <1>2, <1>5, <2>3 DEF PlannedFiles, PlanFiles, SameFile
    <3> QED
      BY <1>2, <1>4, <1>5, <2>1, <2>3, <3>1 DEF Alike, t
  <2> QED
    BY <2>2, <2>3
<1>6. CASE Source[p].kind = "dir"
  <2>1. p \notin Extras /\ p \in PlanDirs(Source) /\ p \notin PlannedFiles
    BY <1>6 DEF Extras, PlanRemovals, PlanDirs, PlannedFiles, PlanFiles
  <2>2. Source[p] = Dir
    BY <1>3, <1>6 DEF Entries, None, Dir, File
  <2> QED
    BY <1>2, <1>4, <1>6, <2>1, <2>2 DEF t
<1>7. CASE Source[p].kind = "none"
  <2>1. p \notin PlanDirs(Source) /\ p \notin PlannedFiles /\ Source[p] = None
    BY <1>3, <1>7 DEF PlanDirs, PlannedFiles, PlanFiles, Entries, None, Dir, File
  <2>2. Alike(local[p], Target[p])
    BY <1>2, <2>1
  <2>3. CASE p \in Extras
    BY <1>4, <1>7, <2>1, <2>3 DEF Extras, PlanRemovals, Alike, t
  <2>4. CASE p \notin Extras
    <3>1. ~client.options.delete \/ Target[p] = None
      BY <1>3, <1>7, <2>4 DEF Extras, PlanRemovals, Entries, None, Dir, File
    <3> QED
      BY <1>4, <1>7, <2>1, <2>2, <2>4, <3>1 DEF t
  <2> QED
    BY <2>3, <2>4
<1> QED
  BY <1>3, <1>5, <1>6, <1>7 DEF Entries, None, Dir, File, t

\* FINISH was acknowledged: the attempt has synchronized.
LEMMA SucceedInv ==
    ASSUME IInv, Succeed
    PROVE  IInv'
<1>1. /\ client.pc = "finish" /\ Running /\ Settled /\ Unserver /\ UNCHANGED edits
      /\ client' = [client EXCEPT !.pc = "success"] /\ net' = Closing
      /\ client \in ClientRecord
  BY DEF Succeed, Running, Ended, Settled, Unserver, IInv, Typed
<1>2. PICK m \in Answer("ok") : TRUE
  BY DEF Succeed
<1>3. local' = IF client.push \/ client.options.dryRun THEN local
               ELSE Put(local, Extras, None)
  BY DEF Succeed
<1>4. /\ SameAttempt(client', client) /\ client'.pc = "success"
      /\ client'.remote = client.remote /\ client'.conn = client.conn
      /\ client'.push = client.push /\ client'.options = client.options
      /\ client'.foreign = client.foreign
  BY <1>1, MovesOn DEF Moved, Ended, SameAttempt
<1>5. net' \subseteq net \cup {CloseMsg}
  BY <1>1 DEF Closing, Unread, CloseMsg
<1>6. local' \in Trees /\ Faithful(local')
  BY <1>3, PutType, EntryTypes, PutFaithful, FaithfulEntries DEF IInv, Typed
<1>7. Typed' /\ Sessions' /\ Links' /\ client'.conn # 0
  BY <1>1, <1>4, <1>5, <1>6, Closes
<1>8. ~Running'
  BY <1>4 DEF Running, Ended
<1>9. OneQuestion' /\ InStep' /\ Accounted' /\ Position'
  BY <1>7, <1>8 DEF OneQuestion, InStep, Accounted, Position
<1>10. CloseMsg.kind = "close" /\ CloseMsg.conn = client.conn
  BY MsgFields DEF CloseMsg
<1>11. Strays'
  <2>1. ~Owns(client.conn)
    BY <1>1, <1>2, AnsweredSession DEF Good, After
  <2>2. \A n \in Current' : ~Works(n)
    <3>1. \A n \in Current : ~Works(n)
      BY <1>1, <1>2, AnswerIsAlone DEF Works
    <3>2. \A n \in Current' : n \in Current \/ n = CloseMsg
      BY <1>4, <1>5 DEF Current
    <3> QED
      BY <1>10, <3>1, <3>2 DEF Works
  <2>3. ASSUME Active', NEW n \in net', n.conn = session'.conn
        PROVE  ~Works(n)
    <3>1. Active /\ session' = session /\ session.conn # client.conn
      BY <1>1, <2>1, <2>3 DEF Unserver, Active, Owns
    <3>2. n \in net
      BY <1>5, <1>10, <2>3, <3>1
    <3> QED
      BY <1>1, <2>3, <3>1, <3>2 DEF IInv, Strays
  <2>4. ~Owns(client.conn)'
    BY <1>1, <1>4, <2>1 DEF Unserver, Owns, Active
  <2> QED
    BY <2>2, <2>3, <2>4 DEF Strays, Works
<1>12. Done'
  <2> SUFFICES ASSUME ~client.options.dryRun PROVE Synchronized(Destination)'
    BY <1>4 DEF Done
  <2>1. Source' = Source /\ Target' = Target
    BY <1>4, PlanStays
  <2>2. CASE client.push
    <3>1. Synchronized(tree)
      BY <1>1, <1>2, <2>2 DEF IInv, Done
    <3> QED
      BY <1>1, <1>4, <2>1, <2>2, <3>1 DEF Synchronized, Destination, Unserver
  <2>3. CASE ~client.push
    <3>1. /\ Accounted /\ client.scan \in Trees /\ client.remote \in Trees
          /\ client.done = PlannedFiles
      BY <1>1 DEF IInv, Typed, ClientRecord, Position
    <3> QED
      BY <1>1, <1>3, <1>4, <2>1, <2>3, <3>1, PulledPath DEF Synchronized, Destination
  <2> QED
    BY <2>2, <2>3
<1> QED
  BY <1>7, <1>9, <1>11, <1>12 DEF IInv

(***************************************************************************)
(* A fresh attempt, and edits.                                             *)
(***************************************************************************)
\* An attempt starts on a Link no message and no session is on.
LEMMA OpenInv ==
    ASSUME IInv, Open
    PROVE  IInv'
<1> DEFINE c == client.conn + 1
<1> DEFINE start == Msg("request", c, "start", NoPath, local, 0)
<1>1. /\ c \in Conns /\ up' = up \cup {c} /\ net' = net \cup {start}
      /\ UNCHANGED <<tree, rooted, session, local, edits>>
      /\ client \in ClientRecord /\ local \in Trees /\ Faithful(local)
  BY DEF Open, IInv, Typed
<1>2. /\ client' \in ClientRecord
      /\ client'.pc = "start" /\ client'.conn = c /\ client'.push = client.push
      /\ client'.options = client.options /\ client'.scan = local /\ client'.remote = Blank
      /\ client'.done = {} /\ client'.stale = {} /\ client'.foreign = {}
  <2>1. client' = [client EXCEPT !.pc = "start", !.conn = c, !.scan = local,
                                 !.remote = Blank, !.file = NoPath, !.data = 0,
                                 !.done = {}, !.stale = {}, !.foreign = {}]
    BY DEF Open
  <2> QED
    BY <1>1, <2>1, OpenedClient
<1>3. /\ start.kind = "request" /\ start.conn = c /\ start.op = "start"
      /\ start.manifest = local
  BY MsgFields
<1>4. start = Query'
  BY <1>2 DEF Query
<1>5. client.conn \in Nat /\ c # 0 /\ client.conn < c /\ c <= c
  <2>1. client.conn \in Nat
    BY <1>1, LinkOrder DEF ClientRecord
  <2> QED
    BY <2>1
<1> HIDE DEF start, c
<1>6. /\ \A m \in net : m.conn # c /\ m.conn <= c
      /\ \A d \in up : d <= c
      /\ c \notin up
  <2>1. \A m \in net : m.conn \in Nat /\ m.conn <= client.conn
    BY LinkOrder DEF IInv, Typed, Carries, Links
  <2>2. \A d \in up : d \in Nat /\ d <= client.conn
    BY LinkOrder DEF IInv, Typed, Links
  <2>3. c \in Nat
    BY <1>1, LinkOrder
  <2> QED
    BY <1>5, <2>1, <2>2, <2>3
<1>7. Active' => session'.conn # c
  BY <1>1, <1>6 DEF IInv, Sessions, Active
<1>8. Typed'
  <2>1. ServerInvariant'
    BY <1>1, StutterInv DEF IInv, Typed, vars
  <2>2. Faithful(Blank)
    BY DEF Faithful, Blank, None
  <2>3. ASSUME NEW m \in net' PROVE Carries(m)'
    <3>1. CASE m \in net
      BY <1>2, <3>1 DEF IInv, Typed, Carries
    <3>2. CASE m = start
      BY <1>1, <1>3, <3>2 DEF Carries
    <3> QED
      BY <1>1, <3>1, <3>2
  <2>4. Faithful(local)' /\ Faithful(client.scan)' /\ Faithful(client.remote)'
    BY <1>1, <1>2, <2>2 DEF Faithful
  <2> QED
    BY <1>1, <1>2, <2>1, <2>3, <2>4 DEF IInv, Typed, Faithful
<1>9. Sessions'
  BY <1>1, <1>2 DEF IInv, Sessions, Active
<1>10. Links'
  <2>1. \A m \in net' : m \in net \/ m = start
    BY <1>1
  <2>2. /\ \A m \in net' : m.conn <= client'.conn
        /\ \A d \in up' : d <= client'.conn
    BY <1>1, <1>2, <1>3, <1>5, <1>6
  <2>3. \A m \in net' : m.kind = "request" /\ m.op = "start" =>
            /\ ~Owns(m.conn)'
            /\ \A n \in net' : n.conn = m.conn => n = m \/ n.kind = "close"
    BY <1>1, <1>3, <1>6, <1>7, <2>1 DEF IInv, Links, Owns, Active
  <2>4. \A m \in net' : m.kind = "resource" /\ m.op = "push" /\ Owns(m.conn)' =>
            m.data = session'.source[m.file].ver
    BY <1>1, <1>3, <2>1 DEF IInv, Links, Owns, Active
  <2> QED
    BY <2>2, <2>3, <2>4 DEF Links
<1>11. Current' = {Query'}
  BY <1>1, <1>2, <1>3, <1>4, <1>6 DEF Current
<1>12. OneQuestion'
  BY <1>2, <1>11 DEF OneQuestion
<1>13. Position'
  <2>1. \A m \in Current' : m.kind # "resource"
    BY <1>3, <1>4, <1>11
  <2> QED
    BY <1>2, <1>5, <2>1 DEF Position, InFile
<1>14. InStep'
  BY <1>2, <1>7 DEF InStep, Owns
<1>15. Strays'
  <2>1. Answer("manifest")' = {}
    BY <1>3, <1>4, <1>11 DEF Answer, Current
  <2> QED
    BY <1>2, <2>1 DEF Strays, Settled
<1>16. Accounted'
  <2>1. client'.push => \A p \in Paths : local'[p] = client'.scan[p]
    BY <1>1, <1>2
  <2>2. ~client'.push => Target' = local' /\ Scanned' = {}
    BY <1>1, <1>2 DEF Target, Scanned
  <2> QED
    BY <1>2, <2>1, <2>2 DEF Accounted, Alike
<1>17. Done'
  BY <1>2 DEF Done
<1> QED
  BY <1>8, <1>9, <1>10, <1>12, <1>13, <1>14, <1>15, <1>16, <1>17 DEF IInv

\* Noting edits leaves the attempt where it is.
SameBut(u, c) ==
    /\ u \in ClientRecord /\ u.pc = c.pc /\ u.conn = c.conn /\ u.push = c.push
    /\ u.options = c.options /\ u.scan = c.scan /\ u.remote = c.remote /\ u.file = c.file
    /\ u.data = c.data /\ u.done = c.done

\* An edit of the destination is noted.
LEMMA SetForeign ==
    ASSUME NEW c \in ClientRecord, NEW D \in SUBSET Paths
    PROVE  LET u == [c EXCEPT !.foreign = D]
           IN  SameBut(u, c) /\ u.foreign = D /\ u.stale = c.stale
BY DEF ClientRecord, SameBut

\* An edit of the source is noted.
LEMMA SetStaleSource ==
    ASSUME NEW c \in ClientRecord, NEW D \in SUBSET Paths
    PROVE  LET u == [c EXCEPT !.stale = D]
           IN  SameBut(u, c) /\ u.stale = D /\ u.foreign = c.foreign
BY DEF ClientRecord, SameBut

\* What depends on the attempt and the messages only.
LEMMA SameAttemptInv ==
    ASSUME IInv, SameBut(client', client), UNCHANGED <<up, net>>,
           session' = session \/ SameJob(session', session),
           Active' <=> Active,
           Active => /\ session'.done = session.done /\ session'.pending = session.pending
                     /\ session'.received = session.received
                     /\ client.push /\ session.stale \subseteq client.foreign =>
                           session'.stale \subseteq client'.foreign
    PROVE  Sessions' /\ Links' /\ OneQuestion' /\ Position' /\ InStep' /\ Strays'
<1> USE DEF SameBut
<1>1. /\ Source' = Source /\ Target' = Target /\ PlannedFiles' = PlannedFiles
      /\ Query' = Query /\ Current' = Current /\ (Running' <=> Running) /\ Good' = Good
  BY DEF Source, Target, PlannedFiles, Query, Ask, Msg, Current, Running, Good
<1>2. \A x : Answer(x)' = Answer(x)
  BY DEF Answer
<1>3. Active => /\ session'.conn = session.conn /\ session'.push = session.push
                /\ session'.options = session.options /\ session'.source = session.source
                /\ session'.destination = session.destination
  BY DEF SameJob
<1>4. Sessions'
  BY <1>3 DEF IInv, Sessions
<1>5. \A d : Owns(d)' <=> Owns(d)
  BY <1>3 DEF Owns
<1>6. Links'
  BY <1>3, <1>5 DEF IInv, Links, Owns
<1>7. OneQuestion'
  BY <1>1 DEF IInv, OneQuestion
<1>8. Position'
  BY <1>1 DEF IInv, Position
<1>9. InStep'
  <2> SUFFICES ASSUME Owns(client.conn), Running PROVE InStep'
    BY <1>1, <1>5 DEF InStep
  <2>1. Active /\ (Before <=> Before') /\ (After <=> After')
    BY DEF Owns, Before, After
  <2> QED
    BY <1>1, <1>2, <1>3, <2>1 DEF IInv, InStep
<1>10. Strays'
  BY <1>1, <1>2, <1>3, <1>5 DEF IInv, Strays, Settled
<1> QED
  BY <1>4, <1>6, <1>7, <1>8, <1>9, <1>10

\* The export is edited.
LEMMA EditExportInv ==
    ASSUME IInv, EditExport
    PROVE  IInv'
<1>1. PICK p \in Paths, e \in EditEntries :
         /\ Edit(p, e)
         /\ client' = IF client.push THEN [client EXCEPT !.foreign = client.foreign \cup {p}]
                                     ELSE client
  BY DEF EditExport
<1>2. /\ UNCHANGED <<local, up, net>> /\ edits' = edits + 1 /\ edits < MaxEdits
      /\ client \in ClientRecord /\ edits \in 0 .. MaxEdits
  BY DEF EditExport, IInv, Typed
<1>3. /\ SameBut(client', client) /\ client'.stale = client.stale
      /\ client'.foreign = IF client.push THEN client.foreign \cup {p} ELSE client.foreign
  <2>1. client.foreign \cup {p} \in SUBSET Paths
    BY <1>2 DEF ClientRecord
  <2> QED
    BY <1>1, <1>2, <2>1, SetForeign DEF SameBut
<1>4. tree' = Put(tree, {p}, e) /\ e.ver = e.data /\ tree \in Trees /\ Faithful(tree)
  BY <1>1, VersionsAreContents DEF Edit, IInv, Typed, ServerInvariant, TypeOK
<1>5. ServerInvariant'
  BY <1>1, OtherActionsInv DEF IInv, Typed
<1>6. Faithful(tree')
  BY <1>4, PutFaithful
<1>7. edits' \in 0 .. MaxEdits
  BY <1>2, JobsAssumption
<1>8. Typed'
  BY <1>2, <1>3, <1>5, <1>6, <1>7 DEF IInv, Typed, Carries, Faithful, SameBut
<1>9. /\ session' = session \/ SameJob(session', session)
      /\ Active' <=> Active
      /\ Active => /\ session'.done = session.done /\ session'.pending = session.pending
                   /\ session'.received = session.received
                   /\ session'.stale = session.stale \cup {p}
  <2>1. CASE ~Active
    BY <1>1, <2>1 DEF Edit, Active
  <2>2. CASE Active
    <3>1. session \in SessionRecord /\ session.stale \cup {p} \in SUBSET Paths
      BY <2>2 DEF Active, IInv, Typed, ServerInvariant, TypeOK, SessionRecord
    <3>2. session' = [session EXCEPT !.stale = session.stale \cup {p}]
      BY <1>1, <2>2 DEF Edit
    <3>3. /\ SameJob(session', session) /\ session'.received = session.received
          /\ session'.pending = session.pending /\ session'.done = session.done
          /\ session'.stale = session.stale \cup {p}
      BY <3>1, <3>2, SetStale
    <3> QED
      BY <2>2, <3>3, NoSessionAssumption DEF Active, SameJob
  <2> QED
    BY <2>1, <2>2
<1>10. Sessions' /\ Links' /\ OneQuestion' /\ Position' /\ InStep' /\ Strays'
  BY <1>2, <1>3, <1>9, SameAttemptInv
<1>11. Accounted'
  <2>1. Source' = Source /\ Target' = Target /\ Scanned' = Scanned /\ (Running' <=> Running)
    BY <1>3 DEF SameBut, Source, Target, Scanned, Running
  <2> QED
    BY <1>2, <1>3, <2>1 DEF SameBut, IInv, Accounted
<1>12. Done'
  <2>1. Source' = Source /\ Target' = Target /\ \A x : Answer(x)' = Answer(x)
    BY <1>2, <1>3 DEF SameBut, Source, Target, Answer
  <2>2. client.push /\ Synchronized(tree) => Synchronized(tree)'
    BY <1>3, <1>4, <2>1 DEF SameBut, Synchronized, Put
  <2>3. ~client.push /\ Synchronized(local) => Synchronized(local)'
    BY <1>2, <1>3, <2>1 DEF SameBut, Synchronized
  <2> QED
    BY <1>3, <2>1, <2>2, <2>3 DEF SameBut, IInv, Done, Destination
<1> QED
  BY <1>8, <1>10, <1>11, <1>12 DEF IInv

\* The client's directory is edited.
LEMMA EditLocalInv ==
    ASSUME IInv, EditLocal
    PROVE  IInv'
<1>1. PICK p \in Paths, e \in EditEntries :
         /\ local' = Put(local, {p}, e)
         /\ client' = IF client.push THEN [client EXCEPT !.stale = client.stale \cup {p}]
                                     ELSE [client EXCEPT !.foreign = client.foreign \cup {p}]
  BY DEF EditLocal
<1>2. /\ UNCHANGED <<tree, rooted, session, up, net>> /\ edits' = edits + 1 /\ edits < MaxEdits
      /\ client \in ClientRecord /\ edits \in 0 .. MaxEdits /\ local \in Trees
      /\ Faithful(local)
  BY DEF EditLocal, Unserver, IInv, Typed
<1>3. /\ SameBut(client', client)
      /\ client'.stale = IF client.push THEN client.stale \cup {p} ELSE client.stale
      /\ client'.foreign = IF client.push THEN client.foreign ELSE client.foreign \cup {p}
  <2>1. client.foreign \cup {p} \in SUBSET Paths /\ client.stale \cup {p} \in SUBSET Paths
    BY <1>2 DEF ClientRecord
  <2> QED
    BY <1>1, <1>2, <2>1, SetForeign, SetStaleSource
<1>4. local' \in Trees /\ Faithful(local')
  BY <1>1, <1>2, VersionsAreContents, TreesAssumption, PutType, PutFaithful
<1>5. ServerInvariant'
  BY <1>2, StutterInv DEF IInv, Typed, vars
<1>6. edits' \in 0 .. MaxEdits
  BY <1>2, JobsAssumption
<1>7. Typed'
  BY <1>2, <1>3, <1>4, <1>5, <1>6 DEF IInv, Typed, Carries, Faithful, SameBut
<1>8. session.stale \subseteq client.foreign => session'.stale \subseteq client'.foreign
  BY <1>2, <1>3
<1>9. Sessions' /\ Links' /\ OneQuestion' /\ Position' /\ InStep' /\ Strays'
  BY <1>2, <1>3, <1>8, SameAttemptInv DEF Active
<1>10. Accounted'
  <2>1. Source' = Source /\ Target' = Target /\ Scanned' = Scanned /\ (Running' <=> Running)
    BY <1>3 DEF SameBut, Source, Target, Scanned, Running
  <2>2. \A q \in Paths \ {p} : local'[q] = local[q]
    BY <1>1 DEF Put
  <2> QED
    BY <1>3, <2>1, <2>2 DEF SameBut, IInv, Accounted
<1>11. Done'
  <2>1. Source' = Source /\ Target' = Target /\ \A x : Answer(x)' = Answer(x)
    BY <1>2, <1>3 DEF SameBut, Source, Target, Answer
  <2>2. client.push /\ Synchronized(tree) => Synchronized(tree)'
    BY <1>2, <1>3, <2>1 DEF SameBut, Synchronized
  <2>3. ~client.push /\ Synchronized(local) => Synchronized(local)'
    BY <1>1, <1>3, <2>1 DEF SameBut, Synchronized, Put
  <2> QED
    BY <1>3, <2>1, <2>2, <2>3 DEF SameBut, IInv, Done, Destination
<1> QED
  BY <1>7, <1>9, <1>10, <1>11 DEF IInv

(***************************************************************************)
(* Requests are served.                                                    *)
(***************************************************************************)
ReplyFor(m, r) ==
    Msg("reply", m.conn, r, NoPath, IF r = "manifest" THEN tree ELSE Blank, 0)
FileFor(m) == Msg("resource", m.conn, "pull", m.file, Blank, tree[m.file].data)

\* Message m is served with reply r.
Handled(m, r) ==
    /\ m \in net /\ m.kind = "request" /\ m.conn \in up /\ Dispatch(m, r)
    /\ net' = (net \ {m}) \cup {ReplyFor(m, r)} \cup (IF r = "file" THEN {FileFor(m)} ELSE {})
    /\ UNCHANGED <<local, client, edits, up>>

\* What is sent in answer.
LEMMA AnswerFields ==
    ASSUME NEW m, NEW r
    PROVE  /\ ReplyFor(m, r).kind = "reply" /\ ReplyFor(m, r).conn = m.conn
           /\ ReplyFor(m, r).op = r /\ (r = "manifest" => ReplyFor(m, r).manifest = tree)
           /\ FileFor(m).kind = "resource" /\ FileFor(m).conn = m.conn
           /\ FileFor(m).op = "pull" /\ FileFor(m).data = tree[m.file].data
BY DEF ReplyFor, FileFor, Msg

\* What is known of a request, and of what it does.
LEMMA HandledFacts ==
    ASSUME IInv, NEW m, NEW r, Handled(m, r)
    PROVE  /\ m.conn \in Conns /\ m.op \in Ops /\ Works(m)
           /\ m.op = "start" => m.manifest \in Trees /\ Faithful(m.manifest)
           /\ m.op \notin {"start", "finish"} => m.file \in Paths
           /\ Ignores(r) \/ Opens(m, r) \/ Ends(m, r) \/ Advances(m, r)
           /\ \A n \in net' : n \in net \/ n = ReplyFor(m, r) \/ (r = "file" /\ n = FileFor(m))
           /\ m \notin net'
<1>1. /\ m.conn \in Conns /\ m.op \in Ops /\ Works(m)
      /\ m.op = "start" => m.manifest \in Trees /\ Faithful(m.manifest)
      /\ m.op \notin {"start", "finish"} => m.file \in Paths
  BY DEF Handled, IInv, Typed, Carries, Ops, Works
<1>2. Ignores(r) \/ Opens(m, r) \/ Ends(m, r) \/ Advances(m, r)
  BY <1>1, Serves DEF Handled, IInv, Typed, ServerInvariant
<1>3. /\ \A n \in net' : n \in net \/ n = ReplyFor(m, r) \/ (r = "file" /\ n = FileFor(m))
      /\ m \notin net'
  BY AnswerFields DEF Handled
<1> QED
  BY <1>1, <1>2, <1>3

\* The record START makes.
LEMMA OpenedSession ==
    ASSUME NEW m, NEW r, Opens(m, r)
    PROVE  /\ session'.conn = m.conn /\ session'.push = client.push
           /\ session'.options = client.options
           /\ session'.source = IF client.push THEN m.manifest ELSE tree
           /\ session'.destination = IF client.push THEN tree ELSE m.manifest
           /\ session'.pending = NoPath /\ session'.received = NoFile
           /\ session'.done = {} /\ session'.stale = {}
BY DEF Opens, NewSession, JobOf

\* Types and the work of sessions.
LEMMA HandledTyped ==
    ASSUME IInv, NEW m, NEW r, Handled(m, r)
    PROVE  Typed' /\ Sessions'
<1>1. /\ m.conn \in Conns /\ m.op \in Ops
      /\ m.op = "start" => m.manifest \in Trees /\ Faithful(m.manifest)
      /\ m.op \notin {"start", "finish"} => m.file \in Paths
      /\ Ignores(r) \/ Opens(m, r) \/ Ends(m, r) \/ Advances(m, r)
      /\ \A n \in net' : n \in net \/ n = ReplyFor(m, r) \/ (r = "file" /\ n = FileFor(m))
  BY HandledFacts
<1>2. /\ ServerInvariant /\ client \in ClientRecord /\ TypeOK /\ tree \in Trees
      /\ Faithful(tree) /\ Dispatch(m, r) /\ m.conn \in up
      /\ UNCHANGED <<local, client, edits, up>>
  BY DEF IInv, Typed, ServerInvariant, TypeOK, Handled
<1>3. ServerInvariant'
  BY <1>1, <1>2, DispatchInv
<1>4. Faithful(tree')
  BY <1>1, <1>2, DispatchFaithful DEF IInv, Sessions
<1>5. ASSUME NEW n \in net' PROVE Carries(n)'
  <2>1. CASE n \in net
    BY <1>2, <2>1 DEF IInv, Typed, Carries
  <2>2. CASE n = ReplyFor(m, r)
    BY <1>1, <1>2, <2>2, AnswerFields DEF Carries
  <2>3. CASE n = FileFor(m)
    BY <1>1, <1>2, <2>3, AnswerFields DEF Carries
  <2> QED
    BY <1>1, <2>1, <2>2, <2>3
<1>6. Typed'
  BY <1>2, <1>3, <1>4, <1>5 DEF IInv, Typed, Faithful
<1>7. Sessions'
  <2>1. CASE Ignores(r)
    BY <1>2, <2>1 DEF Ignores, IInv, Sessions, Active
  <2>2. CASE Ends(m, r)
    BY <2>2 DEF Ends, Sessions, Active
  <2>3. CASE Opens(m, r)
    <3>1. m.op = "start"
      BY <2>3 DEF Opens
    <3> QED
      BY <1>1, <1>2, <2>3, <3>1, OpenedSession DEF Sessions, Faithful
  <2>4. CASE Advances(m, r)
    <3>1. /\ Active /\ SameJob(session', session)
          /\ session'.received \in {session.received, NoFile}
      BY <2>4 DEF Advances, Owns
    <3> QED
      BY <1>2, <3>1 DEF IInv, Sessions, SameJob, Faithful
  <2> QED
    BY <1>1, <2>1, <2>2, <2>3, <2>4
<1> QED
  BY <1>6, <1>7

\* The order of the Links.
LEMMA HandledLinks ==
    ASSUME IInv, NEW m, NEW r, Handled(m, r)
    PROVE  Links'
<1>1. /\ m \in net /\ m.kind = "request" /\ m.conn \in up
      /\ UNCHANGED <<client, up>> /\ m \notin net'
      /\ Ignores(r) \/ Opens(m, r) \/ Ends(m, r) \/ Advances(m, r)
      /\ \A n \in net' : n \in net \/ n = ReplyFor(m, r) \/ (r = "file" /\ n = FileFor(m))
  BY HandledFacts DEF Handled
<1>2. \A n \in net' : n \in net \/ (n.conn = m.conn /\ ( \/ n.kind = "reply"
                                                         \/ n.kind = "resource" /\ n.op = "pull"))
  <2>1. /\ ReplyFor(m, r).kind = "reply" /\ ReplyFor(m, r).conn = m.conn
        /\ FileFor(m).kind = "resource" /\ FileFor(m).conn = m.conn /\ FileFor(m).op = "pull"
    BY AnswerFields
  <2> QED
    BY <1>1, <2>1
<1>3. /\ \A n \in net' : n.conn <= client'.conn
      /\ \A c \in up' : c <= client'.conn
  BY <1>1, <1>2 DEF IInv, Links
<1>4. Active' => \/ Active /\ session'.conn = session.conn /\ session'.source = session.source
                 \/ ~Active /\ session'.conn = m.conn /\ m.op = "start"
  <2>1. CASE Ignores(r)
    BY <2>1 DEF Ignores, Active
  <2>2. CASE Ends(m, r)
    BY <2>2 DEF Ends, Active
  <2>3. CASE Opens(m, r)
    BY <2>3, OpenedSession DEF Opens
  <2>4. CASE Advances(m, r)
    BY <2>4 DEF Advances, Owns, SameJob
  <2> QED
    BY <1>1, <2>1, <2>2, <2>3, <2>4
<1>5. ASSUME NEW n \in net', n.kind = "request", n.op = "start"
      PROVE  /\ ~Owns(n.conn)'
             /\ \A k \in net' : k.conn = n.conn => k = n \/ k.kind = "close"
  <2>1. n \in net /\ n # m
    BY <1>1, <1>2, <1>5
  <2>2. n.conn # m.conn
    BY <1>1, <1>5, <2>1 DEF IInv, Links
  <2> QED
    BY <1>2, <1>4, <1>5, <2>1, <2>2 DEF IInv, Links, Owns
<1>6. ASSUME NEW n \in net', n.kind = "resource", n.op = "push", Owns(n.conn)'
      PROVE  n.data = session'.source[n.file].ver
  <2>1. n \in net
    BY <1>2, <1>6
  <2>2. CASE Active /\ session'.conn = session.conn /\ session'.source = session.source
    BY <1>6, <2>1, <2>2 DEF IInv, Links, Owns
  <2>3. CASE session'.conn = m.conn /\ m.op = "start"
    <3>1. n.conn = m.conn
      BY <1>6, <2>3 DEF Owns
    <3> QED
      BY <1>1, <1>6, <2>1, <2>3, <3>1 DEF IInv, Links
  <2> QED
    BY <1>4, <1>6, <2>2, <2>3 DEF Owns
<1> QED
  BY <1>3, <1>5, <1>6 DEF Links

\* Served on another Link, a request does nothing to the session of the
\* attempt, nor to the export while that session is alive.
LEMMA OtherLink ==
    ASSUME IInv, NEW m, NEW r, Handled(m, r), m.conn # client.conn
    PROVE  /\ Current' = Current /\ Query' = Query /\ \A x : Answer(x)' = Answer(x)
           /\ (Query \in net' <=> Query \in net)
           /\ Owns(client.conn)' => Owns(client.conn) /\ UNCHANGED <<session, tree>>
<1>1. /\ UNCHANGED client
      /\ Ignores(r) \/ Opens(m, r) \/ Ends(m, r) \/ Advances(m, r)
  BY HandledFacts DEF Handled
<1>2. \A n : n.conn = client.conn => (n \in net <=> n \in net')
  BY AnswerFields DEF Handled
<1>3. Query' = Query /\ Query.conn = client.conn
  BY <1>1, QueryFields DEF Query, Ask, Msg
<1>4. Current' = Current /\ \A x : Answer(x)' = Answer(x)
  BY <1>1, <1>2 DEF Current, Answer
<1>5. Owns(client.conn)' => Owns(client.conn) /\ UNCHANGED <<session, tree>>
  BY <1>1, OpenedSession DEF Ignores, Ends, Advances, SameJob, Owns, Active
<1> QED
  BY <1>2, <1>3, <1>4, <1>5

\* The attempt does not notice what is served on other Links, nor does an
\* attempt that has ended.
LEMMA HandledElsewhere ==
    ASSUME IInv, NEW m, NEW r, Handled(m, r), m.conn # client.conn \/ ~Running
    PROVE  OneQuestion' /\ Position' /\ InStep'
<1>1. UNCHANGED client /\ (Running' <=> Running)
  BY DEF Handled, Running
<1>2. CASE ~Running
  BY <1>1, <1>2 DEF OneQuestion, Position, InStep, IInv
<1>3. CASE m.conn # client.conn
  <2>1. /\ Current' = Current /\ Query' = Query /\ \A x : Answer(x)' = Answer(x)
        /\ (Query' \in net' <=> Query \in net)
        /\ Owns(client.conn)' => Owns(client.conn) /\ UNCHANGED <<session, tree>>
    BY <1>3, OtherLink
  <2>2. Source' = Source /\ Target' = Target /\ PlannedFiles' = PlannedFiles /\ Good' = Good
    BY <1>1 DEF Source, Target, PlannedFiles, Good
  <2>3. OneQuestion'
    BY <1>1, <2>1 DEF IInv, OneQuestion
  <2>4. Position'
    BY <1>1, <2>1, <2>2 DEF IInv, Position
  <2>5. InStep'
    <3> SUFFICES ASSUME Owns(client.conn)', Running PROVE InStep'
      BY <1>1 DEF InStep
    <3>1. (Before <=> Before') /\ (After <=> After')
      BY <1>1, <2>1 DEF Before, After
    <3> QED
      BY <1>1, <2>1, <2>2, <3>1 DEF IInv, InStep
  <2> QED
    BY <2>3, <2>4, <2>5
<1> QED
  BY <1>2, <1>3

\* A request on the Link of a running attempt is its question.
LEMMA AtHand ==
    ASSUME IInv, NEW m, NEW r, Handled(m, r), m.conn = client.conn, Running
    PROVE  /\ m = Query /\ Query \in net
           /\ client.pc \in {"start", "begin", "commit", "get", "verified", "finish"}
           /\ m.op = client.pc
           /\ client.pc \notin {"start", "finish"} => m.file = client.file
           /\ client.pc = "start" => m.manifest = client.scan
           /\ Query' = Query /\ Query' \notin net'
           /\ \A n \in Current' : n = ReplyFor(m, r) \/ (r = "file" /\ n = FileFor(m))
<1>1. /\ m \in Current /\ m.kind = "request" /\ UNCHANGED client /\ m \notin net'
      /\ \A n \in net' : n \in net \/ n = ReplyFor(m, r) \/ (r = "file" /\ n = FileFor(m))
  BY HandledFacts DEF Handled, Current
<1>2. m = Query /\ Query \in net /\ Current = {Query}
  BY <1>1 DEF IInv, OneQuestion, Current
<1>3. client.pc \notin {"plan", "next", "receive", "send"}
  BY <1>1, <1>2, QueryFields DEF IInv, OneQuestion
<1>4. client.pc \in {"start", "begin", "commit", "get", "verified", "finish"}
  BY <1>3 DEF IInv, Typed, ClientRecord, Running, Awaiting, Ended
<1>5. Query' = Query
  BY <1>1 DEF Query, Ask, Msg
<1>6. \A n \in Current' : n = ReplyFor(m, r) \/ (r = "file" /\ n = FileFor(m))
  BY <1>1, <1>2 DEF Current
<1> QED
  BY <1>1, <1>2, <1>4, <1>5, <1>6, QueryFields

\* The file a pull is sent is the one its session scanned.
LEMMA FileIsScanned ==
    ASSUME IInv, NEW m, NEW r, Handled(m, r), m.conn = client.conn, Running, r = "file"
    PROVE  client.pc = "get" /\ tree[m.file].data = Source[client.file].ver
<1>1. Advances(m, r) /\ m.op \in Ops /\ m.op = "get" /\ m.file \in Paths
  BY HandledFacts DEF Ignores, Opens, Ends, Advances
<1>2. client.pc = "get" /\ m.file = client.file
  BY <1>1, AtHand
<1>3. Owns(client.conn) /\ Active /\ ~session.push /\ m.file \notin session.stale
  BY <1>1, <1>2 DEF Advances, Owns
<1>4. Alike(tree[m.file], session.source[m.file])
  BY <1>1, <1>3 DEF IInv, Typed, ServerInvariant, ExportAccounted, Expected
<1>5. session.source = Source /\ tree[m.file].ver = tree[m.file].data
  BY <1>1, <1>2, <1>3 DEF IInv, InStep, Typed, Faithful
<1> QED
  BY <1>2, <1>4, <1>5 DEF Alike

\* The question of the attempt is answered: the session takes the step the
\* client is told of.
LEMMA HandledAtHand ==
    ASSUME IInv, NEW m, NEW r, Handled(m, r), m.conn = client.conn, Running
    PROVE  OneQuestion' /\ Position' /\ InStep'
<1>1. /\ m = Query /\ Query \in net
      /\ client.pc \in {"start", "begin", "commit", "get", "verified", "finish"}
      /\ m.op = client.pc
      /\ client.pc \notin {"start", "finish"} => m.file = client.file
      /\ client.pc = "start" => m.manifest = client.scan
      /\ Query' = Query /\ Query' \notin net'
      /\ \A n \in Current' : n = ReplyFor(m, r) \/ (r = "file" /\ n = FileFor(m))
  BY AtHand
<1>2. UNCHANGED client /\ (Running' <=> Running)
  BY DEF Handled, Running
<1>3. /\ ReplyFor(m, r).kind = "reply" /\ ReplyFor(m, r).op = r
      /\ r = "manifest" => ReplyFor(m, r).manifest = tree
      /\ FileFor(m).kind = "resource" /\ FileFor(m).op = "pull"
      /\ FileFor(m).data = tree[m.file].data
  BY AnswerFields
<1>4. r = "file" => client.pc = "get" /\ FileFor(m).data = Source[client.file].ver
  BY <1>3, FileIsScanned
<1>5. OneQuestion'
  BY <1>1, <1>2, <1>3, <1>4 DEF OneQuestion
<1>6. Source' = Source /\ Target' = Target /\ PlannedFiles' = PlannedFiles /\ Good' = Good
  BY <1>2 DEF Source, Target, PlannedFiles, Good
<1>7. Position'
  BY <1>1, <1>2, <1>3, <1>4, <1>6 DEF IInv, Position
<1>8. \A x, n : n \in Answer(x)' => n = ReplyFor(m, r) /\ x = r
  BY <1>1, <1>2, <1>3 DEF Answer, Current
<1>9. InStep'
  <2> SUFFICES ASSUME Owns(client.conn)' PROVE InStep'
    BY <1>2 DEF InStep
  <2>1. CASE Ignores(r)
    <3>1. Owns(client.conn) /\ UNCHANGED session
      BY <1>2, <2>1 DEF Ignores, Owns, Active
    <3>2. r \notin {"manifest", Good}
      BY <2>1 DEF Ignores, Good
    <3>3. (Before <=> Before') /\ (After <=> After')
      BY <1>2, <3>1 DEF Before, After
    <3>4. Answer("manifest")' = {} /\ Answer(Good)' = {}
      BY <1>6, <1>8, <3>2
    <3> QED
      BY <1>1, <1>2, <1>6, <3>1, <3>3, <3>4 DEF IInv, InStep
  <2>2. CASE Ends(m, r)
    BY <2>2 DEF Ends, Owns, Active
  <2>3. CASE Opens(m, r)
    <3>1. client.pc = "start" /\ m.manifest = client.scan
      BY <1>1, <2>3 DEF Opens
    <3>2. \A n \in Answer("manifest")' : n.manifest = tree
      BY <1>3, <1>8
    <3> QED
      BY <1>2, <2>3, <3>1, <3>2, OpenedSession DEF InStep
  <2>4. CASE Advances(m, r)
    <3>1. /\ Owns(client.conn) /\ SameJob(session', session)
          /\ session'.stale = session.stale
          /\ client.pc \in {"begin", "get"} =>
                session'.pending = client.file /\ session'.done = session.done
          /\ client.pc \in {"commit", "verified"} =>
                session'.pending = NoPath /\ session'.done = session.done \cup {client.file}
          /\ client.pc \in {"begin", "get", "commit", "verified"}
      BY <1>1, <2>4 DEF Advances
    <3>2. session.done = client.done
      BY <1>1, <3>1 DEF IInv, InStep, Before
    <3>3. After'
      BY <1>2, <3>1, <3>2 DEF After
    <3>4. session'.source = session.source /\ session'.destination = session.destination
      BY <3>1 DEF SameJob
    <3> QED
      BY <1>1, <1>2, <1>6, <3>1, <3>3, <3>4 DEF IInv, InStep
  <2> QED
    BY <2>1, <2>2, <2>3, <2>4, HandledFacts
<1> QED
  BY <1>5, <1>7, <1>9

\* A session that is not the attempt's gets no work.
LEMMA HandledStrays ==
    ASSUME IInv, NEW m, NEW r, Handled(m, r)
    PROVE  Strays'
<1>1. /\ UNCHANGED client /\ m \in net /\ m.kind = "request" /\ Works(m) /\ m \notin net'
      /\ Ignores(r) \/ Opens(m, r) \/ Ends(m, r) \/ Advances(m, r)
      /\ \A n \in net' : n \in net \/ n = ReplyFor(m, r) \/ (r = "file" /\ n = FileFor(m))
  BY HandledFacts DEF Handled
<1>2. \A n \in net' : Works(n) => n \in net
  BY <1>1, AnswerFields DEF Works
<1>3. ASSUME Active', session'.conn = client.conn => client.pc = "success", Settled',
             NEW n \in net', n.conn = session'.conn
      PROVE  ~Works(n)
  <2>1. CASE Opens(m, r)
    <3>1. session'.conn = m.conn /\ m.op = "start"
      BY <2>1, OpenedSession DEF Opens
    <3>2. \A k \in net : k.conn = m.conn => k = m \/ k.kind = "close"
      BY <1>1, <3>1 DEF IInv, Links
    <3> QED
      BY <1>1, <1>2, <1>3, <3>1, <3>2 DEF Works
  <2>2. CASE ~Opens(m, r)
    <3>1. Active /\ session'.conn = session.conn
      BY <1>1, <1>3, <2>2 DEF Ignores, Ends, Advances, SameJob, Owns, Active
    <3>2. Settled
      <4>1. CASE client.pc = "start" /\ m.conn = client.conn
        <5>1. \A k \in Answer("manifest")' : k = ReplyFor(m, r)
          <6>1. Running
            BY <4>1 DEF Running, Ended
          <6> QED
            BY <1>1, <4>1, <6>1, AtHand, AnswerFields DEF Answer, Current
        <5>2. r # "manifest"
          BY <1>1, <2>2 DEF Ignores, Ends, Advances
        <5>3. Answer("manifest")' = {}
          BY <5>1, <5>2, AnswerFields DEF Answer
        <5> QED
          BY <1>1, <1>3, <4>1, <5>3 DEF Settled
      <4>2. CASE m.conn # client.conn
        BY <1>1, <1>3, <4>2, OtherLink DEF Settled
      <4>3. CASE client.pc # "start"
        BY <1>1, <1>3, <4>3 DEF Settled
      <4> QED
        BY <4>1, <4>2, <4>3
    <3>3. ~Works(n) \/ n \in net
      BY <1>2
    <3> QED
      BY <1>3, <3>1, <3>2, <3>3 DEF IInv, Strays
  <2> QED
    BY <2>1, <2>2
<1>4. ASSUME client.pc = "success"
      PROVE  ~Owns(client.conn)' /\ \A n \in Current' : ~Works(n)
  <2>1. ~Owns(client.conn) /\ \A n \in Current : ~Works(n)
    BY <1>4 DEF IInv, Strays
  <2>2. m.conn # client.conn
    BY <1>1, <2>1 DEF Current
  <2>3. ~Owns(client.conn)'
    BY <2>1, <2>2, OtherLink
  <2> QED
    BY <1>1, <1>2, <2>1, <2>3 DEF Current
<1> QED
  BY <1>1, <1>3, <1>4 DEF Strays, Works

\* The export is written only for the session it belongs to.
LEMMA WritesForOwner ==
    ASSUME IInv, NEW m, NEW r, Handled(m, r), tree' # tree
    PROVE  Owns(m.conn) /\ ~Ignores(r) /\ ~Opens(m, r)
BY HandledFacts DEF Ignores, Opens, Ends, Advances

\* Nobody's work touches the export once the attempt at hand waits for the
\* answer to FINISH on another Link, or has succeeded.
LEMMA OnlyOwnFinishWrites ==
    ASSUME IInv, NEW m, NEW r, Handled(m, r),
           (client.pc = "finish" /\ m.conn # client.conn) \/ client.pc = "success"
    PROVE  UNCHANGED tree
<1> SUFFICES ASSUME tree' # tree PROVE FALSE
  OBVIOUS
<1>1. Owns(m.conn) /\ m \in net /\ Works(m)
  BY WritesForOwner, HandledFacts DEF Handled
<1>2. Settled /\ Active /\ m.conn = session.conn
  BY <1>1 DEF Settled, Owns
<1> QED
  BY <1>1, <1>2 DEF IInv, Strays

\* The acknowledged FINISH of the attempt leaves the export synchronized.
LEMMA FinishHandled ==
    ASSUME IInv, NEW m, Handled(m, "ok"), m.conn = client.conn, client.pc = "finish",
           client.push, ~client.options.dryRun
    PROVE  Synchronized(tree')
<1>1. Running
  BY DEF Running, Ended
<1>2. m.op = "finish" /\ m = Query /\ Query \in net
  BY <1>1, AtHand
<1>3. Finish(m.conn, "ok") /\ m.conn \in Conns
  BY <1>2, HandledFacts DEF Handled, Dispatch
<1>4. Owns(client.conn)
  BY <1>3 DEF Finish, Refuse, MayRequest, MayTransfer
<1>5. /\ session.source = Source /\ session.destination = Target
      /\ session.stale \subseteq client.foreign
      /\ session.push /\ session.options = client.options
  BY <1>1, <1>4 DEF IInv, InStep, Sessions, Owns
<1>6. TypeOK /\ ExportAccounted /\ session.done \subseteq FilesOf(session)
  BY <1>4 DEF IInv, Typed, ServerInvariant, ProgressWithinPlan, Owns
<1> SUFFICES ASSUME NEW p \in Paths \ client.foreign
             PROVE  IF Source[p].kind # "none" \/ client.options.delete
                      THEN Alike(tree'[p], Source[p]) ELSE Alike(tree'[p], Target[p])
  BY DEF Synchronized
<1>7. p \in Paths \ session.stale
  BY <1>5
<1>8. Owns(m.conn) /\ ~session.options.dryRun
  BY <1>4, <1>5
<1>9. IF session.source[p].kind # "none" \/ session.options.delete
        THEN Alike(tree'[p], session.source[p])
        ELSE Alike(tree'[p], session.destination[p])
  BY <1>3, <1>5, <1>6, <1>7, <1>8, FinishedPath
<1> QED
  BY <1>5, <1>9

\* A finished attempt stays synchronized, and becomes so at FINISH.
LEMMA HandledDone ==
    ASSUME IInv, NEW m, NEW r, Handled(m, r)
    PROVE  Done'
<1>1. UNCHANGED <<client, local>>
  BY DEF Handled
<1>2. Source' = Source /\ Target' = Target
  BY <1>1 DEF Source, Target
<1> SUFFICES ASSUME ~client.options.dryRun PROVE Done'
  BY <1>1 DEF Done
<1>3. CASE client.pc = "success"
  <2>1. UNCHANGED tree /\ Synchronized(Destination)
    BY <1>3, OnlyOwnFinishWrites DEF IInv, Done
  <2>2. Destination' = Destination
    BY <1>1, <2>1 DEF Destination
  <2> QED
    BY <1>1, <1>2, <1>3, <2>1, <2>2 DEF Done, Synchronized
<1>4. CASE client.pc = "finish" /\ client.push
  <2> SUFFICES ASSUME Answer("ok")' # {} PROVE Synchronized(tree)'
    BY <1>1, <1>4 DEF Done
  <2>1. CASE m.conn # client.conn
    <3>1. UNCHANGED tree /\ Answer("ok") # {}
      BY <1>4, <2>1, OnlyOwnFinishWrites, OtherLink
    <3>2. Synchronized(tree)
      BY <1>4, <3>1 DEF IInv, Done
    <3> QED
      BY <1>1, <1>2, <3>1, <3>2 DEF Synchronized
  <2>2. CASE m.conn = client.conn
    <3>1. Running
      BY <1>4 DEF Running, Ended
    <3>2. r = "ok"
      <4>1. PICK n \in Current' : n.kind = "reply" /\ n.op = "ok"
        BY DEF Answer, Current
      <4>2. n = ReplyFor(m, r) \/ n = FileFor(m)
        BY <2>2, <3>1, <4>1, AtHand
      <4> QED
        BY <4>1, <4>2, AnswerFields
    <3>3. Synchronized(tree')
      BY <1>4, <2>2, <3>2, FinishHandled
    <3> QED
      BY <1>1, <1>2, <3>3 DEF Synchronized
  <2> QED
    BY <2>1, <2>2
<1> QED
  BY <1>1, <1>3, <1>4 DEF Done

\* A request is served.
LEMMA ServeRequestInv ==
    ASSUME IInv, ServeRequest
    PROVE  IInv'
<1>1. PICK m \in net, r \in Replies : Handled(m, r)
  BY DEF ServeRequest, Handled, ReplyFor, FileFor, Unclient
<1>2. Typed' /\ Sessions' /\ Links' /\ Strays' /\ Done'
  BY <1>1, HandledTyped, HandledLinks, HandledStrays, HandledDone
<1>3. OneQuestion' /\ Position' /\ InStep'
  BY <1>1, HandledElsewhere, HandledAtHand
<1>4. Accounted'
  BY <1>1 DEF Handled, IInv, Accounted, Running, Scanned, Source, Target
<1> QED
  BY <1>2, <1>3, <1>4 DEF IInv

\* The proof a Resource is answered with.
ProofFor(m) == Msg("reply", m.conn, "proof", NoPath, Blank, 0)

\* A Resource on the Link of a running attempt is the file it sends.
LEMMA ResourceAtHand ==
    ASSUME IInv, NEW m \in net, m.kind = "resource", m.op = "push",
           m.conn = client.conn, Running
    PROVE  client.pc = "send" /\ m = Query /\ Query \in net /\ Current = {m}
<1>1. m \in Current
  BY DEF Current
<1>2. m = Query
  BY <1>1 DEF IInv, OneQuestion
<1> QED
  BY <1>2, QueryFields DEF IInv, OneQuestion

\* A Resource is kept for the session that asked for it.
LEMMA ServeResourceInv ==
    ASSUME IInv, ServeResource
    PROVE  IInv'
<1>1. PICK m \in net :
         /\ m.kind = "resource" /\ m.op = "push" /\ m.conn \in up
         /\ Receive(m.conn, [id |-> m.file, data |-> m.data, meta |-> FALSE])
         /\ net' = (net \ {m}) \cup {ProofFor(m)}
         /\ UNCHANGED <<local, client, edits, up>>
  BY DEF ServeResource, Unclient, ProofFor
<1> DEFINE f == [id |-> m.file, data |-> m.data, meta |-> FALSE]
<1>2. m.conn \in Conns /\ m.file \in Paths /\ m.data \in Versions
  BY <1>1 DEF IInv, Typed, Carries
<1>3. f \in ReceivedFile /\ f.id = m.file /\ f.data = m.data
  BY <1>2, IdsArePaths DEF ReceivedFile
<1>4. /\ Active /\ session.conn = m.conn /\ session \in SessionRecord
      /\ session' = [session EXCEPT !.received = f] /\ UNCHANGED <<tree, rooted>>
  BY <1>1 DEF Receive, AcceptsFile, Owns, Active, IInv, Typed, ServerInvariant, TypeOK
<1>5. ServerInvariant'
  <2>1. Receive(m.conn, f)
    BY <1>1
  <2> HIDE DEF f
  <2> QED
    BY <1>2, <1>3, <2>1, OtherActionsInv DEF IInv, Typed
<1>6. /\ SameJob(session', session) /\ session'.received = f /\ Active'
      /\ session'.pending = session.pending /\ session'.done = session.done
      /\ session'.stale = session.stale
  <2> HIDE DEF f
  <2> QED
    BY <1>3, <1>4, SetReceived, NoSessionAssumption DEF SameJob, Active
<1>7. f.data = session.source[f.id].ver
  BY <1>1, <1>3, <1>4 DEF IInv, Links, Owns
<1> HIDE DEF f
<1>8. ProofFor(m).kind = "reply" /\ ProofFor(m).conn = m.conn /\ ProofFor(m).op = "proof"
  BY DEF ProofFor, Msg
<1>9. \A n \in net' : (n \in net /\ n # m)
                      \/ (n.kind = "reply" /\ n.conn = m.conn /\ n.op = "proof")
  BY <1>1, <1>8
<1>10. ASSUME NEW n \in net' PROVE Carries(n)'
  <2>1. CASE n \in net
    BY <1>1, <2>1 DEF IInv, Typed, Carries
  <2>2. CASE n = ProofFor(m)
    BY <1>2, <1>8, <2>2 DEF Carries
  <2> QED
    BY <1>1, <2>1, <2>2
<1>11. Typed'
  BY <1>1, <1>4, <1>5, <1>10 DEF IInv, Typed, Faithful
<1>12. Sessions'
  BY <1>1, <1>4, <1>6, <1>7 DEF IInv, Sessions, SameJob, Faithful
<1>13. \A c : Owns(c)' <=> Owns(c)
  BY <1>4, <1>6 DEF Owns, SameJob
<1>14. Links'
  <2>1. /\ \A n \in net' : n.conn <= client'.conn
        /\ \A c \in up' : c <= client'.conn
    BY <1>1, <1>9 DEF IInv, Links
  <2>2. \A n \in net' : n.kind = "request" /\ n.op = "start" =>
            /\ ~Owns(n.conn)'
            /\ \A k \in net' : k.conn = n.conn => k = n \/ k.kind = "close"
    BY <1>1, <1>9, <1>13 DEF IInv, Links
  <2>3. \A n \in net' : n.kind = "resource" /\ n.op = "push" /\ Owns(n.conn)' =>
            n.data = session'.source[n.file].ver
    BY <1>6, <1>9, <1>13 DEF IInv, Links, SameJob
  <2> QED
    BY <2>1, <2>2, <2>3 DEF Links
<1>15. Source' = Source /\ Target' = Target /\ PlannedFiles' = PlannedFiles /\ Good' = Good
       /\ (Running' <=> Running) /\ Query' = Query
  BY <1>1 DEF Source, Target, PlannedFiles, Good, Running, Query, Msg, Ask
<1>16. \A n \in Current' : n \in Current \/ (n.kind = "reply" /\ n.op = "proof")
  BY <1>1, <1>9 DEF Current
<1>17. \A x : Answer(x)' = IF x = "proof" THEN Answer(x)' ELSE Answer(x)
  BY <1>1, <1>8 DEF Answer
<1>18. m.conn # client.conn => Current' = Current /\ (Query \in net' <=> Query \in net)
  BY <1>1, <1>8, QueryFields DEF Current
<1>19. m.conn = client.conn /\ Running =>
         /\ client.pc = "send" /\ m = Query /\ Query \notin net' /\ Query \in net
         /\ \A n \in Current' : n = ProofFor(m)
  BY <1>1, <1>8, ResourceAtHand DEF Current
<1>20. OneQuestion'
  <2>1. CASE m.conn # client.conn
    BY <1>1, <1>15, <1>18, <2>1 DEF IInv, OneQuestion
  <2>2. CASE m.conn = client.conn
    BY <1>1, <1>8, <1>15, <1>19, <2>2 DEF OneQuestion
  <2> QED
    BY <2>1, <2>2
<1>21. Position'
  <2>1. \A n \in Current' : n.kind = "resource" => n \in Current
    BY <1>16
  <2> QED
    BY <1>1, <1>15, <2>1 DEF IInv, Position
<1>22. InStep'
  <2> SUFFICES ASSUME Owns(client.conn), Running PROVE InStep'
    BY <1>1, <1>13, <1>15 DEF InStep
  <2>1. m.conn = client.conn
    BY <1>4 DEF Owns
  <2>2. (Before <=> Before') /\ (After <=> After')
    BY <1>1, <1>6 DEF Before, After
  <2>3. client.pc = "send" /\ Before /\ Before'
    BY <1>19, <2>1, <2>2 DEF IInv, InStep
  <2>4. After'
    BY <1>1, <2>2, <2>3 DEF Before, After
  <2> QED
    BY <1>1, <1>6, <1>15, <1>19, <2>1, <2>3, <2>4 DEF IInv, InStep, SameJob
<1>23. Strays'
  <2>1. \A n \in net' : Works(n) => n \in net
    BY <1>9 DEF Works
  <2>2. Settled' => Settled
    BY <1>1, <1>17 DEF Settled
  <2>3. session'.conn = session.conn
    BY <1>6 DEF SameJob
  <2> QED
    BY <1>1, <1>4, <1>13, <2>1, <2>2, <2>3 DEF IInv, Strays, Works, Current
<1>24. Accounted'
  BY <1>1, <1>15 DEF IInv, Accounted, Scanned
<1>25. Done'
  BY <1>1, <1>4, <1>15, <1>17 DEF IInv, Done, Synchronized, Destination
<1> QED
  BY <1>11, <1>12, <1>14, <1>20, <1>21, <1>22, <1>23, <1>24, <1>25 DEF IInv

(***************************************************************************)
(* The theorems.                                                           *)
(***************************************************************************)
\* A command that starts has no Link, and nobody has anything of another.
LEMMA SessionInitInv == SessionInit => IInv
<1> SUFFICES ASSUME SessionInit PROVE IInv
  OBVIOUS
<1>1. PICK job \in ClientJobs :
        client = [pc |-> "idle", conn |-> 0, push |-> job.push,
                  options |-> job.options, scan |-> Blank, remote |-> Blank,
                  file |-> NoPath, data |-> 0, done |-> {}, stale |-> {},
                  foreign |-> {}]
  BY DEF SessionInit
<1>2. Blank \in Trees /\ Faithful(Blank)
  BY EntryTypes DEF Blank, Trees, Faithful, None
<1>3. job.push \in BOOLEAN /\ job.options \in OptionSet
  BY JobsAssumption
<1>4. /\ client \in ClientRecord /\ client.pc = "idle" /\ client.conn = 0
      /\ client.scan = Blank /\ client.remote = Blank
  BY <1>1, <1>2, <1>3 DEF ClientRecord
<1>5. ServerInvariant /\ ~Active
  BY InitInv DEF SessionInit, Init, Active
<1>6. Faithful(tree) /\ Faithful(local) /\ local \in Trees
  BY VersionsAreContents, JobsAssumption DEF SessionInit, Init, Faithful
<1>7. net = {} /\ up = {} /\ edits \in 0 .. MaxEdits
  BY JobsAssumption DEF SessionInit
<1>8. Typed
  BY <1>2, <1>4, <1>5, <1>6, <1>7 DEF Typed
<1>9. ~Running /\ ~Settled
  BY <1>4 DEF Running, Settled
<1> QED
  BY <1>4, <1>5, <1>7, <1>8, <1>9
     DEF IInv, Sessions, Links, OneQuestion, Position, InStep, Strays, Accounted, Done, Owns

\* A step of the client keeps the invariant.
LEMMA ClientInv ==
    ASSUME IInv, Client
    PROVE  IInv'
BY ReadManifestInv, MakePlanInv, PrepareBreaksInv, AskBeginInv, SendFileInv, AskCommitInv,
   ReadCommittedInv, AskGetInv, ReadGetInv, ReceiveFileInv, InstallInv, InstallBreaksInv,
   AllSentInv, SucceedInv, RemovalBreaksInv
   DEF Client

\* A step that changes nothing keeps it too.
LEMMA SessionStutterInv ==
    ASSUME IInv, UNCHANGED svars
    PROVE  IInv'
BY KeptOrEnded DEF svars, IInv, Sessions

\* Every step keeps it.
LEMMA SessionNextInv ==
    ASSUME IInv, [SessionNext]_svars
    PROVE  IInv'
BY OpenInv, ClientInv, FailInv, ServeRequestInv, ServeResourceInv, ServeCloseInv, LeaseInv,
   LeaseExpiresInv, RestartInv, LoseInv, EditExportInv, EditLocalInv, SessionStutterInv
   DEF SessionNext, Serve

\* The inductive invariant holds of every behaviour.
THEOREM SessionInduction == SessionSpec => []IInv
<1>1. IInv /\ [SessionNext]_svars => IInv'
  BY SessionNextInv
<1> QED
  BY <1>1, SessionInitInv, PTL DEF SessionSpec

\* Peers that are both alive work from one plan, the server at most one file
\* ahead (engine.rs:63-291 and `synchronize').
LEMMA InStepMeansAgreed == ASSUME IInv PROVE PeersAgree
<1> SUFFICES ASSUME Owns(client.conn), Running, client.pc # "start"
             PROVE  /\ session.source = Source /\ session.destination = Target
                    /\ client.done \subseteq session.done
                    /\ session.done \subseteq client.done \cup {client.file}
                    /\ session.pending \in {NoPath, client.file}
  BY DEF PeersAgree
<1>1. session.source = Source /\ session.destination = Target /\ (Before \/ After)
  BY DEF IInv, InStep
<1>2. CASE Before
  BY <1>1, <1>2 DEF Before
<1>3. CASE After
  BY <1>1, <1>3 DEF After
<1> QED
  BY <1>1, <1>2, <1>3

\* SessionInvariant, the run's invariant: types, a living Link under every
\* session, and one plan on both sides, whatever is lost, delayed or killed.
THEOREM SessionAlwaysInvariant == SessionSpec => []SessionInvariant
<1>1. IInv => SessionInvariant
  <2> SUFFICES ASSUME IInv PROVE SessionInvariant
    OBVIOUS
  <2>1. SessionTypeOK
    BY DEF IInv, Typed, ServerInvariant, Carries, SessionTypeOK
  <2>2. SessionHasLink
    BY DEF IInv, Sessions, SessionHasLink
  <2> QED
    BY <2>1, <2>2, InStepMeansAgreed DEF SessionInvariant
<1> QED
  BY <1>1, SessionInduction, PTL

\* FilesAreFaithful: no file ever carries the metadata of one version and
\* the bytes of another, on either side, however sources are edited while
\* they are sent.
THEOREM FilesAlwaysFaithful == SessionSpec => []FilesAreFaithful
<1>1. IInv => FilesAreFaithful
  BY DEF IInv, Typed, Faithful, FilesAreFaithful
<1> QED
  BY <1>1, SessionInduction, PTL

\* SuccessMeansSynchronized: a command that reports success has left the
\* destination as the source it scanned.
THEOREM SuccessSynchronizes == SessionSpec => []SuccessMeansSynchronized
<1>1. IInv => SuccessMeansSynchronized
  BY DEF IInv, Done, Synchronized, SuccessMeansSynchronized
<1> QED
  BY <1>1, SessionInduction, PTL

(***************************************************************************)
(* The command implements module Mirror.                                   *)
(***************************************************************************)
\* A change of path p, from t[p] to u[p], that a session with goal g may make
\* when the files in done are in place.
Writes(t, u, g, done, p) ==
    \/ /\ p \in PlanDirs(g.source) /\ CanMake(t, g.source, g.target, p)
       /\ u[p] \in {None, Dir}
    \/ /\ p \in PlanFiles(g.source, g.target, g.options) \ done
       /\ Installable(t[p], g.target[p])
       /\ u[p] = g.source[p] \/ (p \in PlanConflicts(g.source, g.target) /\ u[p] = None)
    \/ /\ p \in PlanRemovals(g.source, g.target, g.options)
       /\ CheckEntry(t[p], g.target[p]) /\ u[p] = None
       /\ done = PlanFiles(g.source, g.target, g.options)

\* Both modules speak of the same plan.
LEMMA SamePlanning ==
    /\ M!None = None /\ M!Dir = Dir /\ M!Trees = Trees /\ M!Goal = [source : Trees, target : Trees, options : OptionSet]
    /\ \A s, d, o : M!PlanFiles(s, d, o) = PlanFiles(s, d, o)
    /\ \A s, d, o : M!PlanRemovals(s, d, o) = PlanRemovals(s, d, o)
    /\ \A s, d : M!PlanConflicts(s, d) = PlanConflicts(s, d)
    /\ \A s : M!PlanDirs(s) = PlanDirs(s)
    /\ \A t, s, d, p : M!CanMake(t, s, d, p) <=> CanMake(t, s, d, p)
    /\ \A e, f : (M!Installable(e, f) <=> Installable(e, f)) /\ (M!CheckEntry(e, f) <=> CheckEntry(e, f))
    /\ \A t, D, e : M!Put(t, D, e) = Put(t, D, e)
<1>1. /\ M!None = None /\ M!Dir = Dir /\ M!Entries = Entries
  BY DEF M!None, None, M!Dir, Dir, M!Entries, Entries, M!File, File
<1>2. M!Trees = Trees /\ M!Goal = [source : Trees, target : Trees, options : OptionSet]
  BY <1>1 DEF M!Trees, Trees, M!Goal, M!OptionSet, OptionSet
<1>3. /\ \A s, d, o : M!PlanFiles(s, d, o) = PlanFiles(s, d, o)
      /\ \A s, d, o : M!PlanRemovals(s, d, o) = PlanRemovals(s, d, o)
      /\ \A s, d : M!PlanConflicts(s, d) = PlanConflicts(s, d)
      /\ \A s : M!PlanDirs(s) = PlanDirs(s)
  BY DEF M!PlanFiles, PlanFiles, M!SameFile, SameFile, M!PlanRemovals, PlanRemovals,
         M!PlanConflicts, PlanConflicts, M!PlanDirs, PlanDirs
<1>4. \A e, f : (M!Installable(e, f) <=> Installable(e, f)) /\ (M!CheckEntry(e, f) <=> CheckEntry(e, f))
  BY DEF M!Installable, Installable, M!CheckEntry, CheckEntry
<1>5. \A t, s, d, p : M!CanMake(t, s, d, p) <=> CanMake(t, s, d, p)
  BY <1>3, <1>4 DEF M!CanMake, CanMake
<1>6. \A t, D, e : M!Put(t, D, e) = Put(t, D, e)
  BY DEF M!Put, Put
<1> QED
  BY <1>1, <1>2, <1>3, <1>4, <1>5, <1>6

\* A session's step: what it changes it may change, and it goes on, with one
\* more file perhaps, or ends.
LEMMA AdvanceMaps ==
    ASSUME NEW g, SessionGoal = g, g # NoGoal, UNCHANGED edits,
           \A p \in Paths : Destination'[p] # Destination[p] =>
              Writes(Destination, Destination', g, Installed, p),
           \/ SessionGoal' = NoGoal
           \/ SessionGoal' = g /\ Installed' = Installed
           \/ /\ SessionGoal' = g
              /\ \E f \in PlanFiles(g.source, g.target, g.options) :
                    Installed' = Installed \cup {f} /\ g.source[f] = Destination'[f]
    PROVE  M!MirrorNext
<1>1. ASSUME NEW p \in Paths, Destination'[p] # Destination[p]
      PROVE  M!Made(p) \/ M!Replaced(p) \/ M!Removed(p)
  <2>1. Writes(Destination, Destination', g, Installed, p)
    BY <1>1
  <2> QED
    BY <2>1, SamePlanning DEF Writes, M!Made, M!Replaced, M!Removed, M!Files, M!Extra
<1>2. SessionGoal' = NoGoal => Installed' = {}
  BY DEF Installed
<1>3. M!Advance
  BY <1>1, <1>2, SamePlanning DEF M!Advance, M!Files
<1> QED
  BY <1>3 DEF M!MirrorNext

\* A session begins.
LEMMA AdoptMaps ==
    ASSUME SessionGoal = NoGoal, UNCHANGED edits, Destination' = Destination,
           SessionGoal' \in [source : Trees, target : Trees, options : OptionSet],
           Installed' = {}
    PROVE  M!MirrorNext
BY SamePlanning DEF M!Adopt, M!MirrorNext

\* An outside process edits the destination, or what is none of it.
LEMMA EditMaps ==
    ASSUME NEW p \in Paths, NEW e \in EditEntries, Destination \in Trees,
           Destination' = Put(Destination, {p}, e) \/ Destination' = Destination,
           edits' = edits + 1, SessionGoal' = SessionGoal, Installed' = Installed
    PROVE  M!MirrorNext
<1>1. \E x \in Entries : Destination' = Put(Destination, {p}, x)
  <2>1. CASE Destination' = Put(Destination, {p}, e)
    BY <2>1, TreesAssumption
  <2>2. CASE Destination' = Destination
    <3>1. Destination = Put(Destination, {p}, Destination[p]) /\ Destination[p] \in Entries
      BY DEF Put, Trees
    <3> QED
      BY <2>2, <3>1
  <2> QED
    BY <2>1, <2>2
<1>2. M!Entries = Entries
  BY DEF M!Entries, Entries, M!None, None, M!Dir, Dir, M!File, File
<1>3. M!Edited
  BY <1>1, <1>2, SamePlanning DEF M!Edited
<1> QED
  BY <1>3 DEF M!MirrorNext

\* Nothing the mirror speaks of changes.
LEMMA StutterMaps ==
    ASSUME SessionGoal' = SessionGoal, Installed' = Installed, Destination' = Destination,
           UNCHANGED edits
    PROVE  UNCHANGED M!mvars
BY DEF M!mvars

\* The goal of a push is that of the session on the server.
PushGoal == [source |-> session.source, target |-> session.destination,
             options |-> session.options]

\* What is asked of a session here, in either version: it works for the command.
ForCommand == TypeOK /\ (Active => session.options = client.options)

\* With a session, the goal of a push is that session's.
LEMMA GoalOfPush ==
    ASSUME ForCommand, client.push, ~client.options.dryRun, Active
    PROVE  /\ SessionGoal = PushGoal /\ PushGoal # NoGoal
           /\ PushGoal \in [source : Trees, target : Trees, options : OptionSet]
           /\ PushGoal.source = session.source /\ PushGoal.target = session.destination
           /\ PushGoal.options = session.options
           /\ Installed = session.done /\ Destination = tree
<1>1. session \in SessionRecord
  BY DEF ForCommand, TypeOK, Active
<1>2. PushGoal \in [source : Trees, target : Trees, options : OptionSet]
  BY <1>1 DEF PushGoal, SessionRecord
<1>3. PushGoal # NoGoal
  BY <1>2, NoGoalAssumption
<1>4. SessionGoal = PushGoal
  BY DEF SessionGoal, PushGoal
<1> QED
  BY <1>2, <1>3, <1>4 DEF PushGoal, Installed, Destination

\* There is none without a session, nor in a dry run.
LEMMA NoGoalOfPush ==
    ASSUME client.push, client.options.dryRun \/ ~Active
    PROVE  SessionGoal = NoGoal /\ Installed = {} /\ Destination = tree
BY DEF SessionGoal, Installed, Destination

\* A session may write what it does to the export.
MayWrite ==
    \A p \in Paths : tree'[p] # tree[p] =>
        /\ ~session.options.dryRun
        /\ Writes(tree, tree', PushGoal, session.done, p)

\* The session begins ...
Begins == ~Active /\ Active' /\ session'.done = {} /\ UNCHANGED tree
\* ... goes on with its plan ...
GoesOn ==
    /\ Active /\ Active' /\ MayWrite
    /\ session'.source = session.source /\ session'.destination = session.destination
    /\ session'.options = session.options
    /\ \/ session'.done = session.done
       \/ \E f \in FilesOf(session) :
            session'.done = session.done \cup {f} /\ session.source[f] = tree'[f]
\* ... or ends.
IsOver == Active /\ ~Active' /\ MayWrite

\* Whichever it does, the mirror does it too.
LEMMA PushSessionMaps ==
    ASSUME ForCommand, ForCommand', client.push, UNCHANGED <<client, edits>>,
           (UNCHANGED <<session, tree>>) \/ Begins \/ GoesOn \/ IsOver
    PROVE  M!MirrorNext \/ UNCHANGED M!mvars
<1>1. /\ client' = client /\ edits' = edits
      /\ tree \in Trees /\ tree' \in Trees
  BY DEF ForCommand, TypeOK
<1>2. CASE client.options.dryRun
  <2>1. Active => session.options.dryRun
    BY <1>2 DEF ForCommand
  <2>2. \A p \in Paths : tree'[p] = tree[p]
    BY <2>1 DEF Begins, GoesOn, IsOver, MayWrite
  <2>3. tree' = tree
    BY <1>1, <2>2 DEF Trees
  <2>4. /\ SessionGoal = NoGoal /\ Installed = {} /\ Destination = tree
        /\ SessionGoal' = NoGoal /\ Installed' = {} /\ Destination' = tree'
    BY <1>1, <1>2 DEF SessionGoal, Installed, Destination
  <2> QED
    BY <1>1, <2>3, <2>4, StutterMaps
<1>3. CASE ~client.options.dryRun /\ UNCHANGED <<session, tree>>
  BY <1>1, <1>3, StutterMaps DEF SessionGoal, Installed, Destination, Active
<1>4. CASE ~client.options.dryRun /\ Begins
  <2>1. SessionGoal = NoGoal /\ Destination = tree
    BY <1>4, NoGoalOfPush DEF Begins
  <2>2. Active' /\ session' \in SessionRecord
    BY <1>1, <1>4 DEF Begins, ForCommand, TypeOK, Active
  <2>3. SessionGoal' = [source |-> session'.source, target |-> session'.destination,
                        options |-> session'.options]
    BY <1>1, <1>4, <2>2 DEF SessionGoal
  <2>4. SessionGoal' \in [source : Trees, target : Trees, options : OptionSet]
    BY <2>2, <2>3 DEF SessionRecord
  <2>5. SessionGoal' # NoGoal
    BY <2>4, NoGoalAssumption
  <2>6. Installed' = {} /\ Destination' = tree
    BY <1>1, <1>4, <2>5 DEF Installed, Destination, Begins
  <2> QED
    BY <1>1, <2>1, <2>4, <2>6, AdoptMaps
<1>5. CASE ~client.options.dryRun /\ GoesOn
  <2>1. /\ SessionGoal = PushGoal /\ PushGoal # NoGoal
        /\ PushGoal.source = session.source /\ PushGoal.target = session.destination
        /\ PushGoal.options = session.options
        /\ Installed = session.done /\ Destination = tree
    BY <1>1, <1>5, GoalOfPush DEF GoesOn
  <2>2. SessionGoal' = PushGoal
    BY <1>1, <1>5 DEF SessionGoal, PushGoal, GoesOn
  <2>3. Installed' = session'.done /\ Destination' = tree'
    BY <1>1, <1>5, <2>1, <2>2 DEF Installed, Destination
  <2>4. \A p \in Paths : Destination'[p] # Destination[p] =>
            Writes(Destination, Destination', PushGoal, Installed, p)
    BY <1>5, <2>1, <2>3 DEF GoesOn, MayWrite
  <2>5. \/ Installed' = Installed
        \/ \E f \in PlanFiles(PushGoal.source, PushGoal.target, PushGoal.options) :
             Installed' = Installed \cup {f} /\ PushGoal.source[f] = Destination'[f]
    BY <1>5, <2>1, <2>3 DEF GoesOn, FilesOf
  <2> HIDE DEF PushGoal
  <2> QED
    BY <1>1, <2>1, <2>2, <2>4, <2>5, AdvanceMaps
<1>6. CASE ~client.options.dryRun /\ IsOver
  <2>1. SessionGoal = PushGoal /\ PushGoal # NoGoal /\ Installed = session.done /\ Destination = tree
    BY <1>1, <1>6, GoalOfPush DEF IsOver
  <2>2. SessionGoal' = NoGoal /\ Destination' = tree'
    BY <1>1, <1>6 DEF SessionGoal, IsOver, Destination
  <2>3. \A p \in Paths : Destination'[p] # Destination[p] =>
            Writes(Destination, Destination', PushGoal, Installed, p)
    BY <1>6, <2>1, <2>2 DEF IsOver, MayWrite
  <2> QED
    BY <1>1, <2>1, <2>2, <2>3, AdvanceMaps
<1> QED
  BY <1>2, <1>3, <1>4, <1>5, <1>6

\* So it does when the session only rests, or is dropped.
LEMMA SessionRestsMaps ==
    ASSUME ForCommand, ForCommand', client.push, UNCHANGED <<tree, client, edits>>,
           \/ session' \in {session, NoSession}
           \/ Active /\ SameJob(session', session) /\ session'.done = session.done
    PROVE  M!MirrorNext \/ UNCHANGED M!mvars
<1>1. CASE session' = session
  BY <1>1, PushSessionMaps
<1>2. CASE session' = NoSession /\ Active
  BY <1>2, PushSessionMaps DEF IsOver, MayWrite, Active
<1>3. CASE Active /\ SameJob(session', session) /\ session'.done = session.done
  <2>1. GoesOn
    BY <1>3, NoSessionAssumption DEF GoesOn, SameJob, MayWrite, Active
  <2> QED
    BY <2>1, PushSessionMaps
<1> QED
  BY <1>1, <1>2, <1>3 DEF Active

\* A session of version 1 works for the command.
LEMMA SessionIsForCommand == ASSUME IInv PROVE ForCommand
BY DEF IInv, Typed, ServerInvariant, Sessions, ForCommand

\* A pull does not notice what the server does.
LEMMA PullServerMaps ==
    ASSUME ~client.push, UNCHANGED <<client, local, edits>>
    PROVE  UNCHANGED M!mvars
<1>1. Source' = Source /\ Target' = Target /\ (Running' <=> Running)
  BY DEF Source, Target, Running
<1>2. SessionGoal' = SessionGoal /\ Destination' = Destination
  BY <1>1 DEF SessionGoal, Destination
<1>3. Installed' = Installed
  BY <1>2 DEF Installed
<1> QED
  BY <1>2, <1>3, StutterMaps

\* What BEGIN writes: planned directories.
LEMMA BeginWrites ==
    ASSUME Typed, Active, NEW c, NEW i, NEW r, Begin(c, i, r)
    PROVE  MayWrite
<1>1. SUFFICES ASSUME NEW p \in Paths, tree'[p] # tree[p]
               PROVE  ~session.options.dryRun /\ Writes(tree, tree', PushGoal, session.done, p)
  BY DEF MayWrite
<1>2. TypeOK /\ p \in Changed
  BY <1>1 DEF Typed, ServerInvariant, Changed
<1>3. CanBegin(c, i) /\ ((tree' = PreparedTree /\ (session.prepared \/ CanPrepare)) \/ PrepareFails)
  BY <1>1 DEF Begin, Refuse
<1>4. /\ p \in PlanDirs(session.source) /\ tree'[p] \in {None, Dir}
      /\ CanMake(tree, session.source, session.destination, p)
  BY <1>1, <1>2, <1>3, PreparedChanges, PrepareFailsChanges
<1> QED
  BY <1>3, <1>4 DEF Writes, PushGoal, CanBegin, MayTransfer

\* A planned file arrives as the source has it.
LEMMA ArrivedEntry ==
    ASSUME NEW s \in Trees, Faithful(s), NEW p \in Paths, s[p].kind = "file", NEW d, d = s[p].ver
    PROVE  File(s[p].ver, d) = s[p]
<1>1. PICK v \in Versions, w \in Versions : s[p] = File(v, w)
  BY DEF Trees, Entries, None, Dir
<1> QED
  BY <1>1 DEF Faithful, File

\* What COMMIT writes: the planned file, or nothing where a conflicting
\* object was.
LEMMA CommitWrites ==
    ASSUME Typed, Sessions, Active, NEW c, NEW i \in Paths, NEW r, Commit(c, i, i, r)
    PROVE  /\ MayWrite
           /\ r = "ok" /\ session' # NoSession => tree'[i] = session.source[i]
<1>1. TypeOK /\ session \in SessionRecord /\ tree \in Trees
  BY DEF Typed, ServerInvariant, TypeOK, Active
<1>2. CASE ~CanCommit(c, i, i)
  BY <1>2 DEF Commit, Refuse, MayWrite, Abort
<1>3. CASE CanCommit(c, i, i)
  <2>1. /\ ~session.options.dryRun /\ i \in FilesOf(session) \ session.done
        /\ session.received # NoFile /\ session.received.id = i
    BY <1>3 DEF CanCommit, MayTransfer, RequireFile
  <2>2. session.source[i].kind = "file"
    BY <2>1 DEF FilesOf, PlanFiles
  <2>3. File(session.source[i].ver, session.received.data) = session.source[i]
    BY <1>1, <2>1, <2>2, ArrivedEntry DEF Sessions, SessionRecord
  <2>4. CASE UNCHANGED tree /\ r = "error"
    BY <2>4 DEF MayWrite
  <2>5. CASE /\ Installable(tree[i], session.destination[i])
             /\ tree' = Put(tree, {i}, session.source[i])
    <3>1. \A p \in Paths : tree'[p] # tree[p] => p = i
      BY <2>5 DEF Put
    <3>2. tree'[i] = session.source[i]
      BY <2>5 DEF Put
    <3> QED
      BY <2>1, <2>5, <3>1, <3>2 DEF MayWrite, Writes, PushGoal, FilesOf
  <2>6. CASE /\ Installable(tree[i], session.destination[i]) /\ r = "error"
             /\ i \in PlanConflicts(session.source, session.destination)
             /\ tree' = Put(tree, {i}, None)
    <3>1. \A p \in Paths : tree'[p] # tree[p] => p = i
      BY <2>6 DEF Put
    <3>2. tree'[i] = None
      BY <2>6 DEF Put
    <3> QED
      BY <2>1, <2>6, <3>1, <3>2 DEF MayWrite, Writes, PushGoal, FilesOf
  <2> QED
    BY <1>3, <2>3, <2>4, <2>5, <2>6 DEF Commit, InstallPartial
<1> QED
  BY <1>2, <1>3

\* What FINISH writes: planned directories, and extras removed at the end.
LEMMA FinishWrites ==
    ASSUME TypeOK, session.done \subseteq FilesOf(session), Active, NEW c, NEW r, Finish(c, r)
    PROVE  MayWrite
<1>1. SUFFICES ASSUME NEW p \in Paths, tree'[p] # tree[p]
               PROVE  ~session.options.dryRun /\ Writes(tree, tree', PushGoal, session.done, p)
  BY DEF MayWrite
<1>2. p \in Changed /\ tree' # tree
  BY <1>1 DEF Changed
<1>3. /\ ~session.options.dryRun /\ AllDone(session) /\ PlannedChange(p)
      /\ tree'[p] \in {None, Dir} /\ session.source[p].kind # "file"
      /\ p \in PlanDirs(session.source) \/ tree'[p] = None
  BY <1>2, FinishIsPlanned
<1>4. session.done = FilesOf(session)
  BY <1>2, <1>3, AllDoneMeansAll
<1>5. p \notin FilesOf(session) /\ ~(p \in PlanDirs(session.source) /\ p \in RemovalsOf(session))
  BY <1>3 DEF FilesOf, PlanFiles, PlanDirs, RemovalsOf, PlanRemovals
<1> QED
  BY <1>3, <1>4, <1>5 DEF PlannedChange, Writes, PushGoal, FilesOf, RemovalsOf

\* What a request of any kind writes, the mirror allows.
LEMMA RequestWrites ==
    ASSUME IInv, NEW m, NEW r, Handled(m, r), Active
    PROVE  MayWrite
<1>1. /\ Typed /\ Sessions /\ m.op \in Ops /\ Dispatch(m, r)
      /\ m.op \notin {"start", "finish"} => m.file \in Paths
  BY HandledFacts DEF IInv, Handled
<1>2. CASE m.op \in {"start", "get", "verified"}
  BY <1>1, <1>2 DEF Dispatch, Start, Get, Verified, Refuse, MayWrite
<1>3. CASE m.op = "begin"
  BY <1>1, <1>3, BeginWrites DEF Dispatch
<1>4. CASE m.op = "commit"
  BY <1>1, <1>4, CommitWrites DEF Dispatch
<1>5. CASE m.op = "finish"
  <2>1. session.done \subseteq FilesOf(session) /\ TypeOK
    BY <1>1 DEF Typed, ServerInvariant, ProgressWithinPlan
  <2> QED
    BY <1>1, <1>5, <2>1, FinishWrites DEF Dispatch
<1> QED
  BY <1>1, <1>2, <1>3, <1>4, <1>5 DEF Ops

\* A request of a push maps to a step of the mirror or to none.
LEMMA RequestMaps ==
    ASSUME IInv, IInv', NEW m, NEW r, Handled(m, r), client.push
    PROVE  M!MirrorNext \/ UNCHANGED M!mvars
<1>1. /\ UNCHANGED <<client, edits>> /\ Typed /\ Sessions /\ TypeOK
      /\ Dispatch(m, r) /\ m.conn \in Conns
      /\ m.op = "start" => m.manifest \in Trees
      /\ m.op \notin {"start", "finish"} => m.file \in Paths
      /\ Ignores(r) \/ Opens(m, r) \/ Ends(m, r) \/ Advances(m, r)
      /\ ForCommand /\ ForCommand'
  BY HandledFacts, SessionIsForCommand DEF Handled, IInv, Typed, ServerInvariant, ForCommand, Sessions
<1>2. CASE Ignores(r)
  BY <1>1, <1>2, PushSessionMaps DEF Ignores
<1>3. CASE Opens(m, r)
  <2>1. JobOf(m) \in AnyJob
    BY <1>1, <1>3 DEF Opens, JobOf, AnyJob, Typed, ClientRecord
  <2>2. session' \in SessionRecord
    BY <1>1, <1>3, <2>1, NewSessionType DEF Opens
  <2>3. Begins
    BY <1>3, <2>2, OpenedSession, NoSessionAssumption DEF Begins, Opens, Active
  <2> QED
    BY <1>1, <2>3, PushSessionMaps
<1>4. CASE Ends(m, r)
  <2>1. IsOver
    BY <1>4, RequestWrites DEF IsOver, Ends, Owns, Active
  <2> QED
    BY <1>1, <2>1, PushSessionMaps
<1>5. CASE Advances(m, r)
  <2>1. /\ Active /\ Active' /\ MayWrite /\ session.push
        /\ session'.source = session.source /\ session'.destination = session.destination
        /\ session'.options = session.options
    BY <1>1, <1>5, RequestWrites, NoSessionAssumption DEF Advances, Owns, SameJob, Active, Sessions
  <2>2. CASE m.op = "begin"
    <3>1. session'.done = session.done
      BY <1>5, <2>2 DEF Advances
    <3> QED
      BY <1>1, <2>1, <3>1, PushSessionMaps DEF GoesOn
  <2>3. CASE m.op = "commit"
    <3>1. Commit(m.conn, m.file, m.file, r) /\ r = "ok" /\ m.file \in Paths
      BY <1>1, <1>5, <2>3 DEF Dispatch, Advances
    <3>2. session'.done = session.done \cup {m.file}
      BY <1>5, <2>3 DEF Advances
    <3>3. m.file \in FilesOf(session)
      BY <3>1 DEF Commit, CanCommit, RequireFile, Refuse
    <3>4. tree'[m.file] = session.source[m.file]
      BY <1>1, <2>1, <3>1, CommitWrites DEF Active
    <3> QED
      BY <1>1, <2>1, <3>2, <3>3, <3>4, PushSessionMaps DEF GoesOn
  <2>4. CASE m.op = "verified"
    <3>1. Verified(m.conn, m.file, r) /\ r = "ok"
      BY <1>1, <1>5, <2>4 DEF Dispatch, Advances
    <3> QED
      BY <2>1, <3>1 DEF Verified, RequireFile, Refuse
  <2> QED
    BY <1>5, <2>1, <2>2, <2>3, <2>4 DEF Advances
<1> QED
  BY <1>1, <1>2, <1>3, <1>4, <1>5

\* So does whatever else the server does.
LEMMA ServerMaps ==
    ASSUME IInv, IInv', client.push,
           ServeResource \/ ServeClose \/ ServerTick \/ Traffic \/ LeaseExpires \/ Restart \/ Lose
    PROVE  M!MirrorNext \/ UNCHANGED M!mvars
<1>1. UNCHANGED <<tree, client, edits>> /\ session' \in SessionRecord \cup {NoSession}
      /\ session \in SessionRecord \cup {NoSession} /\ ForCommand /\ ForCommand'
  BY DEF IInv, ForCommand, Sessions, Typed, ServerInvariant, TypeOK, ServeResource, Receive, ServeClose, ServerTick, Tick,
         Traffic, Touch, LeaseExpires, Expire, Restart, Lose, Unclient, Unserver
<1>2. CASE ServeClose \/ LeaseExpires \/ Restart \/ Lose
  <2>1. session' = session \/ session' = NoSession
    BY <1>2 DEF ServeClose, Release, LeaseExpires, Expire, Restart, Lose, Unserver
  <2> QED
    BY <1>1, <2>1, SessionRestsMaps
<1>3. CASE ServeResource \/ ServerTick \/ Traffic
  <2>1. Active /\ session \in SessionRecord
    BY <1>1, <1>3 DEF ServeResource, Receive, AcceptsFile, ServerTick, Tick, Traffic, Touch, Owns,
                      Active
  <2>2. SameJob(session', session) /\ session'.done = session.done
    <3>1. CASE ServeResource
      <4>1. PICK m \in net : /\ m.kind = "resource" /\ m.op = "push"
                             /\ Receive(m.conn, [id |-> m.file, data |-> m.data, meta |-> FALSE])
        BY <3>1 DEF ServeResource
      <4> DEFINE f == [id |-> m.file, data |-> m.data, meta |-> FALSE]
      <4>2. f \in ReceivedFile
        BY <4>1, IdsArePaths DEF IInv, Typed, Carries, ReceivedFile
      <4>3. session' = [session EXCEPT !.received = f]
        BY <4>1 DEF Receive
      <4> HIDE DEF f
      <4> QED
        BY <2>1, <4>2, <4>3, SetReceived
    <3>2. CASE ServerTick \/ Traffic
      <4>1. PICK x \in 0 .. Lease + 1 : session' = [session EXCEPT !.idle = x]
        BY <2>1, <3>2, LeaseAssumption DEF ServerTick, Tick, Traffic, Touch, SessionRecord
      <4> QED
        BY <2>1, <4>1, SetIdle
    <3> QED
      BY <1>3, <3>1, <3>2
  <2> QED
    BY <1>1, <2>1, <2>2, SessionRestsMaps
<1> QED
  BY <1>2, <1>3

\* The goal of a pull is the plan of the attempt at hand.
PullGoal == [source |-> Source, target |-> Target, options |-> client.options]
Working == Running /\ client.pc # "start"

\* What is asked of a client here, in either version: it holds manifests.
HoldsManifests ==
    /\ local \in Trees /\ client.scan \in Trees /\ client.remote \in Trees
    /\ client.options \in OptionSet

\* The goal of a pull is that of its plan.
LEMMA GoalOfPull ==
    ASSUME HoldsManifests, ~client.push, ~client.options.dryRun, Working
    PROVE  /\ SessionGoal = PullGoal /\ PullGoal # NoGoal
           /\ PullGoal \in [source : Trees, target : Trees, options : OptionSet]
           /\ PullGoal.source = Source /\ PullGoal.target = Target
           /\ PullGoal.options = client.options
           /\ Installed = client.done /\ Destination = local
<1>1. PullGoal \in [source : Trees, target : Trees, options : OptionSet]
  BY DEF PullGoal, Source, Target, HoldsManifests
<1>2. PullGoal # NoGoal
  BY <1>1, NoGoalAssumption
<1>3. SessionGoal = PullGoal
  BY DEF SessionGoal, PullGoal, Working
<1> QED
  BY <1>1, <1>2, <1>3 DEF PullGoal, Installed, Destination

\* The client may write what it does to its directory.
MayWriteLocal ==
    \A p \in Paths : local'[p] # local[p] =>
        ~client.options.dryRun /\ Writes(local, local', PullGoal, client.done, p)

\* It takes up the plan ...
TakesUp ==
    /\ ~Working /\ Working' /\ client'.done = {} /\ UNCHANGED local
\* ... goes on with it ...
CarriesOn ==
    /\ Working /\ Working' /\ MayWriteLocal /\ client'.remote = client.remote
    /\ \/ client'.done = client.done
       \/ \E f \in PlannedFiles :
            client'.done = client.done \cup {f} /\ Source[f] = local'[f]
\* ... or leaves it.
LeavesOff == Working /\ ~Working' /\ MayWriteLocal
\* Or it is not at work.
Waits == ~Working /\ ~Working' /\ UNCHANGED local

\* Whichever it does, the mirror does it too.
LEMMA PullClientMaps ==
    ASSUME HoldsManifests, HoldsManifests', ~client.push, ~client'.push,
           client'.options = client.options, Waits \/ client'.scan = client.scan,
           Waits \/ TakesUp \/ CarriesOn \/ LeavesOff, UNCHANGED edits
    PROVE  M!MirrorNext \/ UNCHANGED M!mvars
<1>1. edits' = edits /\ local \in Trees /\ local' \in Trees
  BY DEF HoldsManifests
<1>2. Destination = local /\ Destination' = local'
  BY DEF Destination
<1>3. CASE client.options.dryRun
  <2>1. \A p \in Paths : local'[p] = local[p]
    BY <1>3 DEF Waits, TakesUp, CarriesOn, LeavesOff, MayWriteLocal
  <2>2. local' = local
    BY <1>1, <2>1 DEF Trees
  <2>3. SessionGoal = NoGoal /\ SessionGoal' = NoGoal
    BY <1>3 DEF SessionGoal
  <2>4. Installed = {} /\ Installed' = {}
    BY <2>3 DEF Installed
  <2> QED
    BY <1>1, <1>2, <2>2, <2>3, <2>4, StutterMaps
<1>4. CASE ~client.options.dryRun /\ Waits
  <2>1. SessionGoal = NoGoal /\ SessionGoal' = NoGoal
    BY <1>4 DEF SessionGoal, Waits, Working
  <2>2. Installed = {} /\ Installed' = {}
    BY <2>1 DEF Installed
  <2> QED
    BY <1>1, <1>2, <1>4, <2>1, <2>2, StutterMaps DEF Waits
<1>5. CASE ~client.options.dryRun /\ TakesUp
  <2>1. SessionGoal = NoGoal
    BY <1>5 DEF SessionGoal, TakesUp, Working
  <2>2. SessionGoal' = [source |-> Source', target |-> Target', options |-> client'.options]
    BY <1>5 DEF SessionGoal, TakesUp, Working
  <2>3. SessionGoal' \in [source : Trees, target : Trees, options : OptionSet]
    BY <1>5, <2>2 DEF Source, Target, HoldsManifests
  <2>4. SessionGoal' # NoGoal
    BY <2>3, NoGoalAssumption
  <2>5. Installed' = {}
    BY <1>5, <2>4 DEF Installed, TakesUp
  <2> QED
    BY <1>1, <1>2, <1>5, <2>1, <2>3, <2>5, AdoptMaps DEF TakesUp
<1>6. CASE ~client.options.dryRun /\ CarriesOn
  <2>1. /\ SessionGoal = PullGoal /\ PullGoal # NoGoal
        /\ PullGoal.source = Source /\ PullGoal.target = Target
        /\ PullGoal.options = client.options
        /\ Installed = client.done /\ Destination = local
    BY <1>1, <1>6, GoalOfPull DEF CarriesOn
  <2>2. client'.scan = client.scan /\ client'.remote = client.remote
    BY <1>6 DEF CarriesOn, Waits
  <2>3. Source' = Source /\ Target' = Target
    BY <2>2 DEF Source, Target
  <2>4. SessionGoal' = PullGoal
    BY <1>6, <2>3 DEF SessionGoal, PullGoal, CarriesOn, Working
  <2>5. Installed' = client'.done
    BY <2>1, <2>4 DEF Installed
  <2>6. \A p \in Paths : Destination'[p] # Destination[p] =>
            Writes(Destination, Destination', PullGoal, Installed, p)
    BY <1>2, <1>6, <2>1 DEF CarriesOn, MayWriteLocal
  <2>7. \/ Installed' = Installed
        \/ \E f \in PlanFiles(PullGoal.source, PullGoal.target, PullGoal.options) :
             Installed' = Installed \cup {f} /\ PullGoal.source[f] = Destination'[f]
    BY <1>2, <1>6, <2>1, <2>5 DEF CarriesOn, PlannedFiles
  <2> HIDE DEF PullGoal
  <2> QED
    BY <1>1, <2>1, <2>4, <2>6, <2>7, AdvanceMaps
<1>7. CASE ~client.options.dryRun /\ LeavesOff
  <2>1. SessionGoal = PullGoal /\ PullGoal # NoGoal /\ Installed = client.done
    BY <1>1, <1>7, GoalOfPull DEF LeavesOff
  <2>2. SessionGoal' = NoGoal
    BY <1>7 DEF SessionGoal, LeavesOff, Working
  <2>3. \A p \in Paths : Destination'[p] # Destination[p] =>
            Writes(Destination, Destination', PullGoal, Installed, p)
    BY <1>2, <1>7, <2>1 DEF LeavesOff, MayWriteLocal
  <2> QED
    BY <1>1, <2>1, <2>2, <2>3, AdvanceMaps
<1> QED
  BY <1>3, <1>4, <1>5, <1>6, <1>7

\* A push does not notice what its client does.
LEMMA PushClientMaps ==
    ASSUME client.push, client'.push, client'.options = client.options,
           UNCHANGED <<tree, session, edits>>
    PROVE  UNCHANGED M!mvars
<1>1. SessionGoal' = SessionGoal /\ Destination' = Destination
  BY DEF SessionGoal, Destination, Active
<1>2. Installed' = Installed
  BY <1>1 DEF Installed
<1> QED
  BY <1>1, <1>2, StutterMaps

\* The direction and the options of a command are never changed.
LEMMA JobStays ==
    ASSUME client \in ClientRecord, Open \/ Client \/ Fail \/ Crash
    PROVE  client'.push = client.push /\ client'.options = client.options
<1>1. CASE Open
  BY <1>1 DEF Open, ClientRecord
<1>2. CASE Fail \/ Crash \/ PrepareBreaks \/ InstallBreaks \/ RemovalBreaks
  BY <1>2 DEF Fail, Crash, PrepareBreaks, InstallBreaks, RemovalBreaks, GiveUp, ClientRecord
<1>3. CASE ReadManifest \/ MakePlan \/ AskBegin \/ SendFile \/ AskCommit \/ ReadCommitted
  BY <1>3 DEF ReadManifest, MakePlan, AskFinish, AskBegin, SendFile, AskCommit, ReadCommitted,
              ClientRecord
<1>4. CASE AskGet \/ ReadGet \/ ReceiveFile \/ Install \/ AllSent \/ Succeed
  BY <1>4 DEF AskGet, ReadGet, ReceiveFile, Install, AllSent, AskFinish, Succeed, ClientRecord
<1> QED
  BY <1>1, <1>2, <1>3, <1>4 DEF Client

\* What the preparation of a pull makes, in part or in full.
LEMMA PullPrepareWrites ==
    ASSUME HoldsManifests, ~client.options.dryRun,
           \/ local' \in PreparePartial(local, Source, Target)
           \/ Preparable(local, Source, Target) /\ local' = PreparedLocal
    PROVE  MayWriteLocal
<1>1. SUFFICES ASSUME NEW p \in Paths, local'[p] # local[p]
               PROVE  Writes(local, local', PullGoal, client.done, p)
  BY DEF MayWriteLocal
<1>2. /\ p \in PlanDirs(Source) /\ CanMake(local, Source, Target, p)
      /\ local'[p] \in {None, Dir}
  <2>1. CASE local' \in PreparePartial(local, Source, Target)
    BY <1>1, <2>1, PreparePartialChanges DEF HoldsManifests
  <2>2. CASE Preparable(local, Source, Target) /\ local' = PreparedLocal
    BY <1>1, <2>2 DEF Preparable, PreparedLocal, Put
  <2> QED
    BY <2>1, <2>2
<1> QED
  BY <1>2 DEF Writes, PullGoal

\* What an installation writes: its file, or nothing where a conflicting
\* object was.
LEMMA PullInstallWrites ==
    ASSUME ~client.options.dryRun, client.file \in PlannedFiles \ client.done,
           Installable(local[client.file], Target[client.file]),
           NEW e, local' = Put(local, {client.file}, e),
           \/ e = Source[client.file]
           \/ e = None /\ client.file \in PlanConflicts(Source, Target)
    PROVE  MayWriteLocal
<1>1. client.file \in Paths
  BY DEF PlannedFiles, PlanFiles
<1>2. local'[client.file] = e /\ \A p \in Paths : local'[p] # local[p] => p = client.file
  BY <1>1 DEF Put
<1>3. Writes(local, local', PullGoal, client.done, client.file)
  BY <1>2 DEF Writes, PullGoal, PlannedFiles
<1> QED
  BY <1>2, <1>3 DEF MayWriteLocal

\* What is removed at the end: extras that checked, after every file arrived.
LEMMA PullRemovalWrites ==
    ASSUME ~client.options.dryRun, client.done = PlannedFiles,
           local' = local \/ Removable(local, Target, Extras),
           local' = local \/ \E D \in SUBSET Extras : local' = Put(local, D, None)
    PROVE  MayWriteLocal
<1>1. SUFFICES ASSUME NEW p \in Paths, local'[p] # local[p]
               PROVE  Writes(local, local', PullGoal, client.done, p)
  BY DEF MayWriteLocal
<1>2. p \in Extras /\ local'[p] = None /\ CheckEntry(local[p], Target[p])
  BY <1>1 DEF Put, Removable
<1> QED
  BY <1>2 DEF Writes, PullGoal, Extras, PlannedFiles

\* A step that writes nothing keeps the client at its work.
LEMMA OnlyMoves ==
    ASSUME UNCHANGED local, Working, client'.remote = client.remote,
           client'.done = client.done, client'.pc \notin Ended \cup {"idle", "start"}
    PROVE  CarriesOn
BY DEF CarriesOn, MayWriteLocal, Working, Running

\* The steps of a pulling client map to steps of the mirror or to none.
LEMMA PullActionsMap ==
    ASSUME IInv, IInv', ~client.push, Open \/ Client \/ Fail \/ Crash
    PROVE  M!MirrorNext \/ UNCHANGED M!mvars
<1>1. /\ client \in ClientRecord /\ Typed /\ Position /\ local \in Trees
      /\ HoldsManifests /\ HoldsManifests'
  BY DEF IInv, Typed, HoldsManifests, ClientRecord
<1>2. ~client'.push /\ client'.options = client.options
  BY <1>1, JobStays
<1>3. UNCHANGED edits
  BY DEF Open, Client, Fail, Crash, PrepareBreaks, InstallBreaks, RemovalBreaks, GiveUp,
         ReadManifest, MakePlan, AskBegin, SendFile, AskCommit, ReadCommitted, AskGet, ReadGet,
         ReceiveFile, Install, AllSent, Succeed
<1>4. CASE Open
  <2>1. UNCHANGED local /\ client.pc \in {"idle", "failed"} /\ client'.pc = "start"
    BY <1>1, <1>4 DEF Open, ClientRecord
  <2> QED
    BY <1>1, <1>2, <1>3, <2>1, PullClientMaps DEF Waits, Working, Running, Ended
<1>5. ASSUME SameAttempt(client', client), TakesUp \/ CarriesOn \/ LeavesOff
      PROVE  M!MirrorNext \/ UNCHANGED M!mvars
  BY <1>1, <1>2, <1>3, <1>5, PullClientMaps DEF SameAttempt
<1>6. ASSUME client' = [client EXCEPT !.pc = "failed"], Running, MayWriteLocal,
             ~Working => UNCHANGED local
      PROVE  M!MirrorNext \/ UNCHANGED M!mvars
  <2>1. SameAttempt(client', client) /\ client'.pc = "failed"
    BY <1>1, <1>6, MovesOn DEF Moved, Ended
  <2>2. ~Working'
    BY <2>1 DEF Working, Running, Ended
  <2> QED
    BY <1>1, <1>2, <1>3, <1>6, <2>1, <2>2, PullClientMaps DEF LeavesOff, Waits, SameAttempt
<1>7. CASE Fail \/ Crash
  BY <1>6, <1>7 DEF Fail, Crash, GiveUp, MayWriteLocal
<1>8. CASE PrepareBreaks
  <2>1. /\ client.pc = "plan" /\ ~client.options.dryRun
        /\ client' = [client EXCEPT !.pc = "failed"]
        /\ local' \in PreparePartial(local, Source, Target)
    BY <1>8 DEF PrepareBreaks, GiveUp
  <2> QED
    BY <1>1, <1>6, <2>1, PullPrepareWrites DEF Working, Running, Ended
<1>9. ASSUME client.pc = "verified"
      PROVE  /\ ~client.options.dryRun /\ client.file \in PlannedFiles \ client.done
             /\ client.file \in Paths
             /\ File(Source[client.file].ver, client.data) = Source[client.file]
  <2>1. /\ ~client.options.dryRun /\ client.file \in PlannedFiles \ client.done
        /\ client.data = Source[client.file].ver
    BY <1>1, <1>9 DEF Position, InFile, Running, Ended
  <2>2. Source \in Trees /\ Faithful(Source)
    BY <1>1 DEF Source, Typed, ClientRecord
  <2>3. client.file \in Paths /\ Source[client.file].kind = "file"
    BY <2>1 DEF PlannedFiles, PlanFiles
  <2> QED
    BY <2>1, <2>2, <2>3, ArrivedEntry
<1>10. CASE InstallBreaks
  <2>1. /\ client.pc = "verified" /\ client' = [client EXCEPT !.pc = "failed"]
        /\ local' \in InstallPartial(local, Source, Target, client.file, client.data)
    BY <1>10 DEF InstallBreaks, GiveUp
  <2>2. \/ local' = local
        \/ /\ Installable(local[client.file], Target[client.file])
           /\ \E e : /\ local' = Put(local, {client.file}, e)
                     /\ \/ e = Source[client.file]
                        \/ e = None /\ client.file \in PlanConflicts(Source, Target)
    BY <1>9, <2>1 DEF InstallPartial
  <2>3. MayWriteLocal
    <3>1. CASE local' = local
      BY <3>1 DEF MayWriteLocal
    <3> QED
      BY <1>1, <1>9, <2>1, <2>2, <3>1, PullInstallWrites
  <2> QED
    BY <1>6, <2>1, <2>3 DEF Working, Running, Ended
<1>11. ASSUME client.pc = "finish", ~client.options.dryRun
       PROVE  client.done = PlannedFiles
  BY <1>1, <1>11 DEF Position, Running, Ended
<1>12. CASE RemovalBreaks
  <2>1. /\ client.pc = "finish" /\ client' = [client EXCEPT !.pc = "failed"]
        /\ ~client.options.dryRun
        /\ local' \in RemovePartial(local, Target, Extras)
    BY <1>12 DEF RemovalBreaks, GiveUp
  <2>2. MayWriteLocal
    <3>1. \/ local' = local
          \/ Removable(local, Target, Extras) /\ \E D \in SUBSET Extras : local' = Put(local, D, None)
      BY <2>1, RemoveIsPut
    <3> QED
      BY <1>1, <1>11, <2>1, <3>1, PullRemovalWrites
  <2> QED
    BY <1>6, <2>1, <2>2 DEF Working, Running, Ended
<1>13. CASE ReadManifest
  <2>1. PICK m \in Answer("manifest") :
           client' = [client EXCEPT !.pc = "plan", !.remote = m.manifest]
    BY <1>13 DEF ReadManifest
  <2>2. m.manifest \in Trees /\ client.pc = "start" /\ UNCHANGED local
    BY <1>1, <1>13, <2>1 DEF Answer, Typed, Carries, ReadManifest
  <2>3. SameAttempt(client', client) /\ client'.pc = "plan" /\ client'.done = client.done
    BY <1>1, <2>1, <2>2, MovesWithRemote DEF Moved
  <2>4. client.done = {}
    BY <1>1, <2>2 DEF Position, Running, Ended
  <2>5. TakesUp
    BY <2>2, <2>3, <2>4 DEF TakesUp, Working, Running, Ended
  <2> QED
    BY <1>5, <2>3, <2>5
<1>14. CASE MakePlan
  <2>1. /\ client.pc = "plan" /\ local' = LocalAfterPlan
        /\ \/ client.options.dryRun /\ client' = [client EXCEPT !.pc = "finish"]
           \/ /\ ~client.options.dryRun /\ client' = [client EXCEPT !.pc = "next"]
              /\ Preparable(local, Source, Target)
    BY <1>14 DEF MakePlan, AskFinish
  <2>2. /\ SameAttempt(client', client) /\ client'.pc \in {"finish", "next"}
        /\ client'.remote = client.remote /\ client'.done = client.done
    BY <1>1, <2>1, MovesOn DEF Moved, Awaiting
  <2>3. MayWriteLocal
    <3>1. CASE client.options.dryRun
      BY <2>1, <3>1 DEF LocalAfterPlan, MayWriteLocal
    <3>2. CASE ~client.options.dryRun
      BY <1>1, <2>1, <3>2, PullPrepareWrites DEF LocalAfterPlan
    <3> QED
      BY <3>1, <3>2
  <2>4. CarriesOn
    BY <2>1, <2>2, <2>3 DEF CarriesOn, Working, Running, Ended
  <2> QED
    BY <1>5, <2>2, <2>4
<1>15. CASE AskBegin \/ SendFile \/ AskCommit \/ ReadCommitted
  BY <1>1, <1>15 DEF AskBegin, SendFile, AskCommit, ReadCommitted, Position, Running, Ended
<1>16. CASE AskGet
  <2>1. PICK f \in Paths : client' = [client EXCEPT !.pc = "get", !.file = f]
    BY <1>16 DEF AskGet
  <2>2. /\ SameAttempt(client', client) /\ client'.pc = "get" /\ client'.remote = client.remote
        /\ client'.done = client.done
    BY <1>1, <2>1, MovesToFile DEF Moved
  <2>3. UNCHANGED local /\ Working
    BY <1>16 DEF AskGet, Working, Running, Ended
  <2>4. CarriesOn
    BY <2>2, <2>3, OnlyMoves DEF Ended
  <2> QED
    BY <1>5, <2>2, <2>4
<1>17. CASE ReadGet \/ AllSent
  <2>1. /\ \E x \in {"receive", "finish"} : client' = [client EXCEPT !.pc = x]
        /\ UNCHANGED local /\ Working
    BY <1>17 DEF ReadGet, AllSent, AskFinish, Working, Running, Ended
  <2>2. PICK x \in {"receive", "finish"} : client' = [client EXCEPT !.pc = x]
    BY <2>1
  <2>3. /\ SameAttempt(client', client) /\ client'.pc = x /\ client'.remote = client.remote
        /\ client'.done = client.done
    BY <1>1, <2>2, MovesOn DEF Moved, Awaiting
  <2>4. CarriesOn
    BY <2>1, <2>3, OnlyMoves DEF Ended
  <2> QED
    BY <1>5, <2>3, <2>4
<1>18. CASE ReceiveFile
  <2>1. PICK m \in net : /\ Size[m.data] = Size[Source[client.file].ver]
                         /\ client' = [client EXCEPT !.pc = "verified", !.data = m.data]
    BY <1>18 DEF ReceiveFile
  <2>2. UNCHANGED local /\ Working
    BY <1>18 DEF ReceiveFile, Working, Running, Ended
  <2>3. client' \in ClientRecord
    BY DEF IInv, Typed
  <2>4. /\ SameAttempt(client', client) /\ client'.pc = "verified"
        /\ client'.remote = client.remote /\ client'.done = client.done
    BY <1>1, <2>1, <2>3 DEF SameAttempt, ClientRecord
  <2>5. CarriesOn
    BY <2>2, <2>4, OnlyMoves DEF Ended
  <2> QED
    BY <1>5, <2>4, <2>5
<1>19. CASE Install
  <2>1. /\ client.pc = "verified"
        /\ Installable(local[client.file], Target[client.file])
        /\ local' = Put(local, {client.file}, File(Source[client.file].ver, client.data))
        /\ client' = [client EXCEPT !.pc = "next", !.done = client.done \cup {client.file}]
    BY <1>19 DEF Install
  <2>2. /\ SameAttempt(client', client) /\ client'.pc = "next" /\ client'.remote = client.remote
        /\ client'.done = client.done \cup {client.file}
    BY <1>1, <1>9, <2>1, MovesPastFile DEF Moved
  <2>3. MayWriteLocal
    BY <1>1, <1>9, <2>1, PullInstallWrites
  <2>4. client.file \in PlannedFiles /\ Source[client.file] = local'[client.file]
    BY <1>9, <2>1 DEF Put
  <2>5. CarriesOn
    BY <2>1, <2>2, <2>3, <2>4 DEF CarriesOn, Working, Running, Ended
  <2> QED
    BY <1>5, <2>2, <2>5
<1>20. CASE Succeed
  <2>1. /\ client.pc = "finish" /\ client' = [client EXCEPT !.pc = "success"]
        /\ \/ local' = local
           \/ /\ ~client.options.dryRun /\ Removable(local, Target, Extras)
              /\ local' = Put(local, Extras, None)
    BY <1>20 DEF Succeed
  <2>2. SameAttempt(client', client) /\ client'.pc = "success"
    BY <1>1, <2>1, MovesOn DEF Moved, Ended
  <2>3. MayWriteLocal
    <3>1. CASE local' = local
      BY <3>1 DEF MayWriteLocal
    <3> QED
      BY <1>1, <1>11, <2>1, <3>1, PullRemovalWrites
  <2>4. LeavesOff
    BY <2>1, <2>2, <2>3 DEF LeavesOff, Working, Running, Ended
  <2> QED
    BY <1>5, <2>2, <2>4
<1> QED
  BY <1>4, <1>7, <1>8, <1>10, <1>12, <1>13, <1>14, <1>15, <1>16, <1>17, <1>18, <1>19, <1>20
     DEF Client

\* What an edit leaves of the command the mirror speaks of.
SameCommand ==
    /\ client'.pc = client.pc /\ client'.push = client.push /\ client'.options = client.options
    /\ client'.scan = client.scan /\ client'.remote = client.remote /\ client'.done = client.done

\* An edit of either directory maps to an edit of the mirror.
LEMMA EditOfOneMaps ==
    ASSUME TypeOK, HoldsManifests, SameCommand, edits' = edits + 1,
           NEW p \in Paths, NEW e \in EditEntries,
           \/ Edit(p, e) /\ UNCHANGED local
           \/ local' = Put(local, {p}, e) /\ UNCHANGED <<tree, session>>
    PROVE  M!MirrorNext
<1>1. tree \in Trees /\ local \in Trees /\ session \in SessionRecord \cup {NoSession}
  BY DEF TypeOK, HoldsManifests
<1>2. Destination \in Trees
      /\ (Destination' = Put(Destination, {p}, e) \/ Destination' = Destination)
  BY <1>1 DEF Destination, Edit, SameCommand
<1>3. /\ (Active' <=> Active)
      /\ Active => /\ session'.source = session.source /\ session'.destination = session.destination
                   /\ session'.options = session.options /\ session'.done = session.done
  <2>1. CASE session' = session
    BY <2>1 DEF Active
  <2>2. CASE Active /\ session' = [session EXCEPT !.stale = session.stale \cup {p}]
    <3>1. session \in SessionRecord /\ session.stale \cup {p} \in SUBSET Paths
      BY <1>1, <2>2 DEF Active, SessionRecord
    <3> QED
      BY <2>2, <3>1, SetStale, NoSessionAssumption DEF SameJob, Active
  <2> QED
    BY <2>1, <2>2 DEF Edit
<1>4. SessionGoal' = SessionGoal /\ Installed' = Installed
  <2>1. Source' = Source /\ Target' = Target /\ (Running' <=> Running)
    BY DEF SameCommand, Source, Target, Running
  <2>2. SessionGoal' = SessionGoal
    BY <1>3, <2>1 DEF SessionGoal, SameCommand
  <2>3. client.push /\ SessionGoal # NoGoal => Active
    BY DEF SessionGoal
  <2> QED
    BY <1>3, <2>2, <2>3 DEF Installed, SameCommand
<1> QED
  BY <1>2, <1>4, EditMaps

\* Edits of either directory map to edits of the mirror.
LEMMA EditsMap ==
    ASSUME IInv, IInv', EditExport \/ EditLocal
    PROVE  M!MirrorNext
<1>1. client \in ClientRecord /\ TypeOK /\ HoldsManifests /\ edits' = edits + 1
  BY DEF IInv, Typed, ServerInvariant, ClientRecord, HoldsManifests, EditExport, EditLocal
<1>2. PICK p \in Paths, e \in EditEntries :
         \/ /\ Edit(p, e) /\ UNCHANGED local
            /\ client' = IF client.push THEN [client EXCEPT !.foreign = @ \cup {p}] ELSE client
         \/ /\ local' = Put(local, {p}, e) /\ UNCHANGED <<tree, session>>
            /\ client' = IF client.push THEN [client EXCEPT !.stale = @ \cup {p}]
                                        ELSE [client EXCEPT !.foreign = @ \cup {p}]
  BY DEF EditExport, EditLocal, Unserver
<1>3. SameBut(client', client)
  <2>1. client.foreign \cup {p} \in SUBSET Paths /\ client.stale \cup {p} \in SUBSET Paths
    BY <1>1 DEF ClientRecord
  <2>2. \/ client' = client
        \/ client' = [client EXCEPT !.foreign = client.foreign \cup {p}]
        \/ client' = [client EXCEPT !.stale = client.stale \cup {p}]
    BY <1>2
  <2>3. CASE client' = client
    BY <1>1, <2>3 DEF SameBut
  <2>4. CASE client' = [client EXCEPT !.foreign = client.foreign \cup {p}]
    BY <1>1, <2>1, <2>4, SetForeign
  <2>5. CASE client' = [client EXCEPT !.stale = client.stale \cup {p}]
    BY <1>1, <2>1, <2>5, SetStaleSource
  <2> QED
    BY <2>2, <2>3, <2>4, <2>5
<1> QED
  BY <1>1, <1>2, <1>3, EditOfOneMaps DEF SameBut, SameCommand

\* A command that starts maps to a mirror without a goal.
LEMMA MirrorInitMaps == ASSUME SessionInit PROVE M!MirrorInit
<1>1. tree \in Trees /\ local \in Trees /\ session = NoSession /\ edits = 0
  BY TreesAssumption, JobsAssumption DEF SessionInit, Init
<1>2. client.pc = "idle"
  BY DEF SessionInit
<1>3. SessionGoal = NoGoal
  BY <1>1, <1>2 DEF SessionGoal, Active, Running
<1> QED
  BY <1>1, <1>3, SamePlanning DEF M!MirrorInit, Destination, Installed

\* Every step maps to a step of the mirror or to none.
LEMMA MirrorNextMaps ==
    ASSUME IInv, IInv', [SessionNext]_svars
    PROVE  [M!MirrorNext]_(M!mvars)
<1>1. CASE UNCHANGED svars
  <2>1. SessionGoal' = SessionGoal /\ Destination' = Destination /\ edits' = edits
    BY <1>1 DEF svars, SessionGoal, Destination, Source, Target, Running, Active
  <2>2. Installed' = Installed
    BY <1>1, <2>1 DEF svars, Installed
  <2> QED
    BY <2>1, <2>2, StutterMaps
<1>2. CASE Open \/ Client \/ Fail \/ Crash
  <2>1. CASE client.push
    <3>1. client'.push /\ client'.options = client.options
      BY <1>2, <2>1, JobStays DEF IInv, Typed
    <3>2. UNCHANGED <<tree, session, edits>>
      BY <1>2 DEF Open, Client, Fail, Crash, PrepareBreaks, InstallBreaks, RemovalBreaks, GiveUp,
                  ReadManifest, MakePlan, AskBegin, SendFile, AskCommit, ReadCommitted, AskGet,
                  ReadGet, ReceiveFile, Install, AllSent, Succeed, Unserver, IInv
    <3> QED
      BY <2>1, <3>1, <3>2, PushClientMaps
  <2>2. CASE ~client.push
    BY <1>2, <2>2, PullActionsMap
  <2> QED
    BY <2>1, <2>2
<1>3. CASE Serve \/ ServerTick \/ Traffic \/ LeaseExpires \/ Restart \/ Lose
  <2>1. CASE ~client.push
    <3>1. UNCHANGED <<client, local, edits>>
      BY <1>3 DEF Serve, ServeRequest, ServeResource, ServeClose, ServerTick, Traffic,
                  LeaseExpires, Restart, Lose, Unclient
    <3> QED
      BY <2>1, <3>1, PullServerMaps
  <2>2. CASE client.push /\ ServeRequest
    <3>1. PICK m \in net, r \in Replies : Handled(m, r)
      BY <2>2 DEF ServeRequest, Handled, ReplyFor, FileFor, Unclient
    <3> QED
      BY <2>2, <3>1, RequestMaps
  <2>3. CASE client.push /\ ~ServeRequest
    BY <1>3, <2>3, ServerMaps DEF Serve
  <2> QED
    BY <2>1, <2>2, <2>3
<1>4. CASE EditExport \/ EditLocal
  BY <1>4, EditsMap
<1> QED
  BY <1>1, <1>2, <1>3, <1>4 DEF SessionNext

\* MirrorsSource, the run's property: whatever is lost, whoever is killed and
\* however often a command is tried again, the destination follows module
\* Mirror (engine.rs, sync.rs and fs.rs together).
THEOREM SessionMirrors == SessionSpec => MirrorsSource
<1>1. IInv /\ IInv' /\ [SessionNext]_svars => [M!MirrorNext]_(M!mvars)
  BY MirrorNextMaps
<1> QED
  BY <1>1, MirrorInitMaps, SessionInduction, PTL DEF SessionSpec, MirrorsSource, M!MirrorSpec
=============================================================================
