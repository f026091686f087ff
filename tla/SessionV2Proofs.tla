--------------------------- MODULE SessionV2Proofs ---------------------------
(***************************************************************************)
(* Proofs about a version-2 command end to end, for every set of Links,    *)
(* paths, versions, page lengths, trees, jobs, edits and losses: whatever  *)
(* the network loses or delays, whoever crashes, whatever is in the cache  *)
(* or vanishes from it, and however attempts follow one another.           *)
(***************************************************************************)
EXTENDS SessionV2, SessionProofs

(***************************************************************************)
(* The inductive invariant.                                                *)
(***************************************************************************)
ChunkPlaces == {"begin", "send", "commit", "get", "receive", "verified"}
FilePlaces == ChunkPlaces \cup {"describe", "page", "hashes", "file"}
V2Places == FilePlaces \cup Ended \cup {"idle", "start", "plan", "next", "finish"}

V2ClientRecord ==
    [pc : V2Places, conn : Conns \cup {0},
     push : BOOLEAN, options : OptionSet, scan : Trees, remote : Trees,
     file : Paths \cup {NoPath}, data : Versions \cup {0}, done : SUBSET Paths,
     stale : SUBSET Paths, foreign : SUBSET Paths]
PartRecord == [hash : Content, next : Nat, missing : SUBSET Nat, chunk : Nat]

MoveOps == {"hashes", "hashesGet", "chunkBegin", "chunkGet", "chunkCommit", "chunkVerified"}
FileOps == MoveOps \cup {"description", "describe", "fileCommit", "fileVerified"}

\* What a message carries.
V2Carries(m) ==
    /\ m.conn \in Conns /\ m.kind \in {"request", "reply", "resource", "close"}
    /\ m.kind = "request" => m.op \in FileOps \cup {"start", "finish"}
    /\ m.kind = "request" /\ m.op = "start" => m.manifest \in Trees /\ Faithful(m.manifest)
    /\ m.kind = "request" /\ m.op \in FileOps => m.file \in Paths
    /\ m.kind = "request" /\ m.op = "description" => m.data \in Versions
    /\ m.kind = "request" /\ m.op \in MoveOps => \E j \in m.chunks : j \in Nat /\ m.chunks = {j}
    /\ m.kind = "reply" /\ m.op = "manifest" => m.manifest \in Trees /\ Faithful(m.manifest)
    /\ m.kind = "reply" /\ m.op = "missing" => m.chunks \subseteq Nat
    /\ m.kind = "resource" => m.op = IF client.push THEN "push" ELSE "pull"
    /\ m.kind = "resource" /\ m.op = "push" => m.file \in Paths /\ m.data \in Versions

CachedTyped ==
    \A x \in cached : /\ x[1] \in Paths /\ x[2] \in Versions /\ x[3] \in Chunks(x[2])
                      /\ x = Chunk(x[1], x[2], x[3])

\* Types, and what follows from the server's own invariant.
V2Typed ==
    /\ V2IInv /\ local \in Trees /\ client \in V2ClientRecord /\ part \in PartRecord
    /\ CachedTyped /\ losses \in 0 .. MaxLosses
    /\ up \subseteq Conns /\ edits \in 0 .. MaxEdits
    /\ \A m \in net : V2Carries(m)
    /\ Faithful(tree) /\ Faithful(local) /\ Faithful(client.scan) /\ Faithful(client.remote)

\* A session is on a living Link and does what the command is for, from
\* faithful manifests; its transfer moves the scanned version, and the store
\* it has open is what the cache holds.
InStore ==
    /\ transfer.stored = StoredOf(transfer.file, transfer.hash)
    /\ \A j \in transfer.missing : transfer.hashes[j] = transfer.hash
V2Sessions ==
    Active =>
        /\ session.conn \in up
        /\ session.push = client.push /\ session.options = client.options
        /\ Faithful(session.source) /\ Faithful(session.destination)
        /\ transfer # NoTransfer =>
              /\ transfer.hash = session.source[transfer.file].ver
              /\ session.push => InStore

\* Links are used in order and have one piece of work at a time; a START is
\* the first message of its Link, and a description is the session's.
V2Links ==
    /\ \A m \in net : m.conn <= client.conn
    /\ \A c \in up : c <= client.conn
    /\ \A m, n \in net : Works(m) /\ Works(n) /\ n.conn = m.conn => n = m
    /\ \A m \in net : m.kind = "request" /\ m.op = "start" =>
          /\ ~Owns(m.conn)
          /\ \A n \in net : n.conn = m.conn => n = m \/ n.kind = "close"
    /\ \A m \in net : m.kind = "request" /\ m.op = "description" /\ Owns(m.conn) =>
          m.data = session.source[m.file].ver

\* What a client waits an answer to, and the answer that takes it on.
QueryOf(c, p) ==
    CASE c.pc = "start" -> Msg("request", c.conn, "start", NoPath, c.scan, 0)
      [] c.pc = "describe" ->
            IF c.push THEN Msg("request", c.conn, "description", c.file, Blank, p.hash)
            ELSE Ask(c.conn, "describe", c.file)
      [] c.pc = "hashes" ->
            Name(Ask(c.conn, IF c.push THEN "hashes" ELSE "hashesGet", c.file), {p.next})
      [] c.pc = "begin" -> Name(Ask(c.conn, "chunkBegin", c.file), {p.chunk})
      [] c.pc = "get" -> Name(Ask(c.conn, "chunkGet", c.file), {p.chunk})
      [] c.pc = "send" ->
            Name(Msg("resource", c.conn, "push", c.file, Blank, p.hash), {p.chunk})
      [] c.pc = "commit" -> Name(Ask(c.conn, "chunkCommit", c.file), {p.chunk})
      [] c.pc = "verified" -> Name(Ask(c.conn, "chunkVerified", c.file), {p.chunk})
      [] c.pc = "file" ->
            Name(Ask(c.conn, IF c.push THEN "fileCommit" ELSE "fileVerified", c.file), {})
      [] OTHER -> Ask(c.conn, "finish", NoPath)
V2Query == QueryOf(client, part)
V2Good ==
    CASE client.pc = "start" -> "manifest"
      [] client.pc = "describe" -> IF client.push THEN "ok" ELSE "description"
      [] client.pc = "hashes" -> IF client.push THEN "missing" ELSE "hashes"
      [] client.pc = "send" -> "proof"
      [] client.pc = "get" -> "file"
      [] OTHER -> "ok"
Pulled == {m \in Current : m.kind = "resource" /\ m.op = "pull"}

\* One question at a time: on the Link of the attempt is the question or
\* what it brought.
V2Question ==
    Running =>
        /\ client.pc \in {"plan", "next", "page", "receive"} => V2Query \notin net
        /\ client.pc \in {"plan", "next", "page"} => Current = {}
        /\ V2Query \in net => Current = {V2Query}
        /\ \A m \in Current : m = V2Query \/ m.kind = "reply"
                              \/ (m \in Pulled /\ client.pc \in {"get", "receive"})
        /\ client.pc = "receive" => \A m \in Current : m.kind = "resource"
        /\ \A m, n \in Current : m.kind = n.kind => m = n

\* Where the client is in its file, and what it has been told of it.
V2Place ==
    /\ client.conn = 0 => client.pc = "idle"
    /\ client.pc \notin FilePlaces => part = NoPart
    /\ Running =>
        /\ client.pc \in FilePlaces =>
              /\ client.file \in PlannedFiles \ client.done
              /\ part.hash = IF client.pc = "describe" /\ ~client.push THEN 0
                             ELSE Source[client.file].ver
        /\ client.pc = "describe" => part.missing = {}
        /\ client.pc \in FilePlaces \ {"describe"} /\ ~client.push =>
              part.missing \subseteq Chunks(part.hash)
        /\ client.pc \in {"begin", "send", "commit"} => client.push
        /\ client.pc \in {"get", "receive", "verified"} => ~client.push
        /\ client.pc \in ChunkPlaces => part.chunk \in part.missing
        /\ client.pc \in FilePlaces \cup {"next"} => ~client.options.dryRun
        /\ client.done \subseteq PlannedFiles
        /\ client.pc = "start" => client.remote = Blank
        /\ client.pc \in {"start", "plan"} => client.done = {}
        /\ client.pc = "finish" /\ ~client.options.dryRun => PlannedFiles \subseteq client.done
        /\ client.pc = "describe" =>
              \A m \in Answer("description") : m.data = Source[client.file].ver
        /\ \A m \in Pulled : m.chunks = {part.chunk} /\ m.data = part.hash /\ m.file = client.file

\* The session of the attempt, before and after the question was served.
ServesChunk(pending) ==
    /\ transfer # NoTransfer
    /\ transfer.file = client.file /\ transfer.hash = Source[client.file].ver
    /\ transfer.pending = pending
V2Before ==
    /\ session.done = client.done
    /\ client.pc \notin FilePlaces \ {"describe"} => transfer = NoTransfer
    /\ client.pc \in FilePlaces \ {"describe"} =>
          ServesChunk(IF client.pc \in {"send", "commit", "receive", "verified"}
                      THEN part.chunk ELSE 0)
V2After ==
    \/ /\ client.pc \in {"describe", "hashes", "commit", "verified"}
       /\ session.done = client.done /\ ServesChunk(0)
    \/ /\ client.pc \in {"begin", "get", "send", "receive"}
       /\ session.done = client.done /\ ServesChunk(part.chunk)
    \/ /\ client.pc = "file"
       /\ session.done = client.done \cup {client.file} /\ transfer = NoTransfer
V2InStep ==
    Owns(client.conn) /\ Running =>
        /\ client.push => session.stale \subseteq client.foreign
        /\ client.pc = "start" =>
              /\ session.done = {} /\ transfer = NoTransfer
              /\ client.scan = IF client.push THEN session.source ELSE session.destination
              /\ \A m \in Answer("manifest") :
                    m.manifest = IF client.push THEN session.destination ELSE session.source
        /\ client.pc # "start" =>
              /\ session.source = Source /\ session.destination = Target
              /\ client.pc \in {"plan", "next", "page"} \/ V2Query \in net => V2Before
              /\ V2Before \/ V2After
              /\ Answer(V2Good) # {} \/ Pulled # {} => V2After

\* A session of an earlier attempt that the attempt at hand has outlived
\* gets no more work.
V2Settled ==
    \/ client.pc \notin {"idle", "start", "failed"}
    \/ client.pc = "start" /\ Answer("manifest") # {}
    \/ \E m \in Current : m.kind = "resource"
V2Strays ==
    /\ V2Settled /\ Active /\ (session.conn # client.conn \/ client.pc = "success") =>
          \A m \in net : m.conn = session.conn => ~Works(m)
    /\ client.pc = "success" => ~Owns(client.conn) /\ \A m \in Current : ~Works(m)

\* Of the chunks the client still misses, of those it was told it misses and
\* of those asked for or on their way, the receiver has none.
Unfetched == part.missing \ (IF client.pc \in {"commit", "verified"} THEN {part.chunk} ELSE {})
Uncached(S) == \A j \in S : Chunk(client.file, part.hash, j) \notin cached
V2Uncached ==
    /\ OnlyMissingSent
    /\ Running => Uncached(Unfetched)
    /\ Running /\ client.pc = "hashes" /\ client.push =>
          \A m \in Answer("missing") : Uncached(m.chunks)
    /\ \A m \in Current :
          m.kind = "request" /\ m.op = "chunkGet" /\ Owns(m.conn) /\ transfer # NoTransfer
              /\ m.file = transfer.file =>
            \A j \in m.chunks : Chunk(m.file, transfer.hash, j) \notin cached

\* All of it; every step of the command, the server, the network and the
\* cache keeps it.
CommandInv ==
    /\ V2Typed /\ V2Sessions /\ V2Links /\ V2Question /\ V2Place /\ V2InStep /\ V2Strays
    /\ Accounted /\ Done /\ V2Uncached

(***************************************************************************)
(* The client's record.                                                    *)
(***************************************************************************)
\* u belongs to the same attempt as c: what a step within an attempt keeps.
V2SameAttempt(u, c) ==
    /\ u \in V2ClientRecord
    /\ u.conn = c.conn /\ u.push = c.push /\ u.options = c.options /\ u.scan = c.scan
    /\ u.stale = c.stale /\ u.foreign = c.foreign

\* Moving the program counter leaves every other field.
LEMMA V2SetPc ==
    ASSUME NEW c \in V2ClientRecord, NEW x \in V2Places
    PROVE  LET u == [c EXCEPT !.pc = x]
           IN  /\ V2SameAttempt(u, c) /\ u.pc = x /\ u.remote = c.remote
               /\ u.file = c.file /\ u.data = c.data /\ u.done = c.done
BY DEF V2ClientRecord, V2SameAttempt

\* Noting the manifest of the server leaves every other field.
LEMMA V2SetRemote ==
    ASSUME NEW c \in V2ClientRecord, NEW x \in Trees
    PROVE  LET u == [c EXCEPT !.remote = x]
           IN  /\ V2SameAttempt(u, c) /\ u.pc = c.pc /\ u.remote = x
               /\ u.file = c.file /\ u.data = c.data /\ u.done = c.done
BY DEF V2ClientRecord, V2SameAttempt

\* Turning to a file leaves every other field.
LEMMA V2SetFile ==
    ASSUME NEW c \in V2ClientRecord, NEW x \in Paths \cup {NoPath}
    PROVE  LET u == [c EXCEPT !.file = x]
           IN  /\ V2SameAttempt(u, c) /\ u.pc = c.pc /\ u.remote = c.remote
               /\ u.file = x /\ u.data = c.data /\ u.done = c.done
BY DEF V2ClientRecord, V2SameAttempt

\* Noting the version of a file leaves every other field.
LEMMA V2SetData ==
    ASSUME NEW c \in V2ClientRecord, NEW x \in Versions \cup {0}
    PROVE  LET u == [c EXCEPT !.data = x]
           IN  /\ V2SameAttempt(u, c) /\ u.pc = c.pc /\ u.remote = c.remote
               /\ u.file = c.file /\ u.data = x /\ u.done = c.done
BY DEF V2ClientRecord, V2SameAttempt

\* Counting a file as done leaves every other field.
LEMMA V2SetDoneFiles ==
    ASSUME NEW c \in V2ClientRecord, NEW x \in SUBSET Paths
    PROVE  LET u == [c EXCEPT !.done = x]
           IN  /\ V2SameAttempt(u, c) /\ u.pc = c.pc /\ u.remote = c.remote
               /\ u.file = c.file /\ u.data = c.data /\ u.done = x
BY DEF V2ClientRecord, V2SameAttempt

\* What a step within an attempt makes of the fields it may set.
V2Moved(pc, remote, file, done) ==
    /\ V2SameAttempt(client', client)
    /\ client'.pc = pc /\ client'.remote = remote /\ client'.file = file
    /\ client'.done = done

\* The client only goes on to another place.
LEMMA V2MovesOn ==
    ASSUME client \in V2ClientRecord, NEW x \in V2Places,
           client' = [client EXCEPT !.pc = x]
    PROVE  V2Moved(x, client.remote, client.file, client.done)
BY V2SetPc DEF V2Moved

\* The client goes on with the manifest of the server.
LEMMA V2MovesWithRemote ==
    ASSUME client \in V2ClientRecord, NEW t \in Trees,
           client' = [client EXCEPT !.pc = "plan", !.remote = t]
    PROVE  V2Moved("plan", t, client.file, client.done)
<1> DEFINE a == [client EXCEPT !.pc = "plan"]
<1> DEFINE b == [a EXCEPT !.remote = t]
<1>1. /\ V2SameAttempt(a, client) /\ a.pc = "plan" /\ a.remote = client.remote
      /\ a.file = client.file /\ a.done = client.done
  BY V2SetPc DEF V2Places
<1>2. /\ V2SameAttempt(b, client) /\ b.pc = "plan" /\ b.remote = t
      /\ b.file = client.file /\ b.done = client.done
  <2> HIDE DEF a
  <2> QED BY <1>1, V2SetRemote DEF V2SameAttempt
<1> QED
  BY <1>2 DEF V2Moved

\* The client goes on to a file.
LEMMA V2MovesToFile ==
    ASSUME client \in V2ClientRecord, NEW f \in Paths, NEW d \in Versions \cup {0},
           client' = [client EXCEPT !.pc = "describe", !.file = f, !.data = d]
    PROVE  V2Moved("describe", client.remote, f, client.done) /\ client'.data = d
<1> DEFINE a == [client EXCEPT !.pc = "describe"]
<1> DEFINE b == [a EXCEPT !.file = f]
<1> DEFINE c == [b EXCEPT !.data = d]
<1>1. /\ V2SameAttempt(a, client) /\ a.pc = "describe" /\ a.remote = client.remote
      /\ a.file = client.file /\ a.done = client.done
  BY V2SetPc DEF V2Places, FilePlaces
<1>2. /\ V2SameAttempt(b, client) /\ b.pc = "describe" /\ b.remote = client.remote
      /\ b.file = f /\ b.done = client.done
  <2> HIDE DEF a
  <2> QED BY <1>1, V2SetFile DEF V2SameAttempt
<1>3. /\ V2SameAttempt(c, client) /\ c.pc = "describe" /\ c.remote = client.remote
      /\ c.file = f /\ c.data = d /\ c.done = client.done
  <2> HIDE DEF a, b
  <2> QED BY <1>2, V2SetData DEF V2SameAttempt
<1> QED
  BY <1>3 DEF V2Moved

\* The client counts its file as done.
LEMMA V2MovesPastFile ==
    ASSUME client \in V2ClientRecord, client.file \in Paths, client' = FileDone(client)
    PROVE  V2Moved("next", client.remote, client.file, client.done \cup {client.file})
<1> DEFINE a == [client EXCEPT !.pc = "next"]
<1> DEFINE b == [a EXCEPT !.done = client.done \cup {client.file}]
<1>0. client.done \cup {client.file} \in SUBSET Paths
  BY DEF V2ClientRecord
<1>1. /\ V2SameAttempt(a, client) /\ a.pc = "next" /\ a.remote = client.remote
      /\ a.file = client.file /\ a.done = client.done
  BY V2SetPc DEF V2Places
<1>2. /\ V2SameAttempt(b, client) /\ b.pc = "next" /\ b.remote = client.remote
      /\ b.file = client.file /\ b.done = client.done \cup {client.file}
  <2> HIDE DEF a
  <2> QED BY <1>1, <1>0, V2SetDoneFiles DEF V2SameAttempt
<1>3. client' = b
  BY DEF FileDone
<1> QED
  BY <1>2, <1>3 DEF V2Moved

\* The plan is made once.
LEMMA V2PlanStays ==
    ASSUME V2SameAttempt(client', client), client'.remote = client.remote
    PROVE  Source' = Source /\ Target' = Target /\ PlannedFiles' = PlannedFiles
           /\ Extras' = Extras
BY DEF V2SameAttempt, Source, Target, PlannedFiles, Extras

\* The fields of a message that names chunks, or none.
LEMMA ChunkMsgFields ==
    ASSUME NEW k, NEW c, NEW op, NEW f, NEW t, NEW d
    PROVE  LET m == Msg(k, c, op, f, t, d)
           IN  /\ m.kind = k /\ m.conn = c /\ m.op = op /\ m.file = f
               /\ m.manifest = t /\ m.data = d /\ m.chunks = {}
               /\ \A S : /\ Name(m, S).kind = k /\ Name(m, S).conn = c /\ Name(m, S).op = op
                         /\ Name(m, S).file = f /\ Name(m, S).manifest = t
                         /\ Name(m, S).data = d /\ Name(m, S).chunks = S
BY DEF Msg, Name

\* What the question of an attempt says: it goes over the Link.
Says(q, c, p) ==
    /\ q.conn = c.conn
    /\ q.kind = IF c.pc = "send" THEN "resource" ELSE "request"
    /\ c.pc = "start" => q.op = "start" /\ q.manifest = c.scan
    /\ c.pc = "describe" =>
          /\ q.op = IF c.push THEN "description" ELSE "describe"
          /\ q.file = c.file
          /\ c.push => q.data = p.hash
    /\ c.pc = "hashes" =>
          /\ q.op = IF c.push THEN "hashes" ELSE "hashesGet"
          /\ q.file = c.file /\ q.chunks = {p.next}
    /\ c.pc \in {"begin", "get", "send", "commit", "verified"} =>
          q.file = c.file /\ q.chunks = {p.chunk}
    /\ c.pc = "begin" => q.op = "chunkBegin"
    /\ c.pc = "get" => q.op = "chunkGet"
    /\ c.pc = "send" => q.op = "push" /\ q.data = p.hash
    /\ c.pc = "commit" => q.op = "chunkCommit"
    /\ c.pc = "verified" => q.op = "chunkVerified"
    /\ c.pc = "file" =>
          /\ q.op = IF c.push THEN "fileCommit" ELSE "fileVerified"
          /\ q.file = c.file
    /\ c.pc \notin FilePlaces \cup {"start"} \/ c.pc \in {"page", "receive"} =>
          q.op = "finish"

\* Which is what it does.
LEMMA QuestionSays ==
    ASSUME NEW c, NEW p
    PROVE  Says(QueryOf(c, p), c, p)
<1> DEFINE q == QueryOf(c, p)
<1>1. CASE c.pc = "start"
  BY <1>1, ChunkMsgFields DEF QueryOf, Says, FilePlaces, ChunkPlaces
<1>2. CASE c.pc = "describe"
  BY <1>2, ChunkMsgFields DEF QueryOf, Says, FilePlaces, ChunkPlaces, Ask
<1>3. CASE c.pc = "hashes"
  BY <1>3, ChunkMsgFields DEF QueryOf, Says, FilePlaces, ChunkPlaces, Ask
<1>4. CASE c.pc \in {"begin", "get", "commit", "verified"}
  BY <1>4, ChunkMsgFields DEF QueryOf, Says, FilePlaces, ChunkPlaces, Ask
<1>5. CASE c.pc = "send"
  BY <1>5, ChunkMsgFields DEF QueryOf, Says, FilePlaces, ChunkPlaces
<1>6. CASE c.pc = "file"
  BY <1>6, ChunkMsgFields DEF QueryOf, Says, FilePlaces, ChunkPlaces, Ask
<1>7. CASE c.pc \notin (FilePlaces \ {"page", "receive"}) \cup {"start"}
  <2>1. q = Ask(c.conn, "finish", NoPath)
    BY <1>7 DEF QueryOf, Says, FilePlaces, ChunkPlaces
  <2> QED
    BY <1>7, <2>1, ChunkMsgFields DEF Says, FilePlaces, ChunkPlaces, Ask
<1> QED
  BY <1>1, <1>2, <1>3, <1>4, <1>5, <1>6, <1>7 DEF FilePlaces, ChunkPlaces

\* So does that of the attempt at hand, before and after a step.
LEMMA V2QuerySays == Says(V2Query, client, part) /\ Says(V2Query', client', part')
BY QuestionSays DEF V2Query

(***************************************************************************)
(* Steps in which nothing is sent and no work is done: messages and cached *)
(* chunks are lost, Links close, leases run, the server restarts.          *)
(***************************************************************************)
\* The transfer is the same but for what is stored, which is what is cached.
SameTransfer ==
    IF transfer = NoTransfer THEN transfer' = NoTransfer
    ELSE /\ transfer' # NoTransfer
         /\ transfer'.file = transfer.file /\ transfer'.hash = transfer.hash
         /\ transfer'.hashes = transfer.hashes /\ transfer'.missing = transfer.missing
         /\ transfer'.pending = transfer.pending
         /\ session.push => transfer'.stored = StoredOf(transfer.file, transfer.hash)'

\* The session is gone with its transfer, or both are the same, up to the
\* lease and to what is stored.
V2Rests ==
    \/ session' = NoSession /\ transfer' = NoTransfer
    \/ /\ Active /\ SameJob(session', session) /\ session'.conn \in up'
       /\ session'.done = session.done /\ session'.stale = session.stale /\ SameTransfer

V2Lessens ==
    /\ net' \subseteq net /\ up' \subseteq up /\ cached' \subseteq cached /\ V2Rests
    /\ UNCHANGED <<tree, rooted, local, client, edits, part>>

\* Such a step leaves everything as it was, or less of it.
LEMMA V2LessensInv ==
    ASSUME CommandInv, V2Lessens, V2IInv', losses' \in 0 .. MaxLosses
    PROVE  CommandInv'
<1> USE DEF V2Lessens
<1>1. V2Typed'
  BY DEF CommandInv, V2Typed, V2Carries, CachedTyped, Faithful
<1>2. V2Sessions'
  BY DEF CommandInv, V2Sessions, InStore, V2Rests, SameTransfer, Active, SameJob
<1>3. V2Links'
  BY DEF CommandInv, V2Links, V2Rests, Active, Owns, SameJob
<1>4. Current' \subseteq Current /\ V2Query' = V2Query /\ Pulled' \subseteq Pulled
      /\ \A x : Answer(x)' \subseteq Answer(x)
  BY DEF Current, V2Query, Pulled, Answer
<1>5. V2Question'
  <2> SUFFICES ASSUME Running' PROVE V2Question'
    BY DEF V2Question
  <2>1. V2Question /\ Running
    BY DEF CommandInv, Running
  <2>2. ASSUME V2Query' \in net' PROVE Current' = {V2Query'}
    <3>1. V2Query \in net /\ V2Query' \in Current'
      BY <1>4, <2>2, V2QuerySays DEF Says, Current
    <3>2. Current = {V2Query}
      BY <2>1, <3>1 DEF V2Question
    <3> QED
      BY <1>4, <3>1, <3>2
  <2>3. \A m \in Current : m \in Pulled /\ m \in Current' => m \in Pulled'
    BY DEF Pulled
  <2> QED
    BY <1>4, <2>1, <2>2, <2>3 DEF V2Question
<1>6. Source' = Source /\ Target' = Target /\ PlannedFiles' = PlannedFiles
  BY DEF Source, Target, PlannedFiles
<1>7. V2Place'
  BY <1>4, <1>6 DEF CommandInv, V2Place, Running
<1>8. V2InStep'
  <2> SUFFICES ASSUME Owns(client.conn)', Running'
               PROVE  V2InStep'
    BY DEF V2InStep
  <2>1. Owns(client.conn) /\ Running /\ SameJob(session', session)
        /\ session'.done = session.done /\ session'.stale = session.stale /\ SameTransfer
    BY DEF V2Rests, Owns, Active, SameJob, Running
  <2>2. \A x : ServesChunk(x)' <=> ServesChunk(x)
    BY <1>6, <2>1 DEF SameTransfer, ServesChunk
  <2>3. transfer' = NoTransfer <=> transfer = NoTransfer
    BY <2>1 DEF SameTransfer
  <2>4. (V2Before <=> V2Before') /\ (V2After <=> V2After') /\ V2Good' = V2Good
    BY <2>1, <2>2, <2>3 DEF V2Before, V2After, V2Good
  <2> QED
    BY <1>4, <1>6, <2>1, <2>3, <2>4 DEF CommandInv, V2InStep, SameJob
<1>9. V2Strays'
  BY <1>4 DEF CommandInv, V2Strays, V2Settled, V2Rests, Active, Owns, SameJob, Works, Current
<1>10. Accounted'
  BY <1>6 DEF CommandInv, Accounted, Running, Scanned
<1>11. Done'
  BY <1>4, <1>6 DEF CommandInv, Done, Synchronized, Destination
<1>12. V2Uncached'
  <2>1. OnlyMissingSent'
    BY DEF CommandInv, V2Uncached, OnlyMissingSent, CachedChunks
  <2>2. \A S : Uncached(S) => Uncached(S)'
    BY DEF Uncached, Chunk
  <2>3. Running' => Uncached(Unfetched)'
    BY <2>2 DEF CommandInv, V2Uncached, Running, Unfetched
  <2>4. Running' /\ client'.pc = "hashes" /\ client'.push =>
           \A m \in Answer("missing")' : Uncached(m.chunks)'
    BY <1>4, <2>2 DEF CommandInv, V2Uncached, Running
  <2>5. \A m \in Current' :
          m.kind = "request" /\ m.op = "chunkGet" /\ Owns(m.conn)' /\ transfer' # NoTransfer
              /\ m.file = transfer'.file =>
            \A j \in m.chunks : Chunk(m.file, transfer'.hash, j) \notin cached'
    <3> SUFFICES ASSUME NEW m \in Current', m.kind = "request", m.op = "chunkGet",
                        Owns(m.conn)', transfer' # NoTransfer, m.file = transfer'.file,
                        NEW j \in m.chunks
                 PROVE  Chunk(m.file, transfer'.hash, j) \notin cached'
      OBVIOUS
    <3>1. /\ m \in Current /\ Owns(m.conn) /\ transfer # NoTransfer
          /\ transfer'.file = transfer.file /\ transfer'.hash = transfer.hash
      BY <1>4 DEF V2Rests, SameTransfer, Owns, Active, SameJob
    <3>2. Chunk(m.file, transfer.hash, j) \notin cached
      BY <3>1 DEF CommandInv, V2Uncached
    <3> QED
      BY <3>1, <3>2
  <2> QED
    BY <2>1, <2>3, <2>4, <2>5 DEF V2Uncached
<1> QED
  BY <1>1, <1>2, <1>3, <1>5, <1>7, <1>8, <1>9, <1>10, <1>11, <1>12 DEF CommandInv

\* What the server does by itself, or ends, its own invariant survives.
LEMMA V2KeptOrEnded ==
    ASSUME CommandInv, UNCHANGED <<tree, rooted, local, client, edits, part, cached, losses>>,
           net' \subseteq net, up' \subseteq up,
           \/ session' = NoSession /\ transfer' = NoTransfer
           \/ session' = session /\ transfer' = transfer /\ (Active => session.conn \in up')
    PROVE  CommandInv'
<1>1. TypeOK /\ V2IInv /\ losses' \in 0 .. MaxLosses
  BY DEF CommandInv, V2Typed, V2IInv
<1>2. V2IInv'
  <2>1. CASE session' = NoSession /\ transfer' = NoTransfer
    <3>1. TypeOK'
      BY <1>1, <2>1 DEF TypeOK
    <3> QED
      BY <2>1, <3>1, EndInv
  <2>2. CASE session' = session /\ transfer' = transfer
    BY <1>1, <2>2, V2StutterInv DEF v2vars
  <2> QED
    BY <2>1, <2>2
<1>3. V2Rests
  <2>1. CASE session' = session /\ transfer' = transfer /\ Active
    <3>1. SameTransfer
      BY <2>1 DEF SameTransfer, CommandInv, V2Sessions, InStore, StoredOf, CachedChunks
    <3> QED
      BY <1>1, <2>1, <3>1 DEF TypeOK, V2Rests, Active, SameJob
  <2>2. CASE session' = session /\ transfer' = transfer /\ ~Active
    BY <1>1, <2>2 DEF V2IInv, TransferIsPending, V2Rests, Active
  <2> QED
    BY <2>1, <2>2 DEF V2Rests
<1> QED
  BY <1>1, <1>2, <1>3, V2LessensInv DEF V2Lessens

\* A message is lost.
LEMMA V2LoseInv ==
    ASSUME CommandInv, Shared(Lose)
    PROVE  CommandInv'
<1>1. /\ net' \subseteq net
      /\ UNCHANGED <<tree, rooted, session, up, local, client, edits, transfer, part, cached, losses>>
  BY DEF Shared, Lose, Unclient, Unserver, unpart
<1> QED
  BY <1>1, V2KeptOrEnded DEF CommandInv, V2Sessions

\* A Link closes and takes its session and its transfer with it.
LEMMA V2ServeCloseInv ==
    ASSUME CommandInv, Dropping(ServeClose)
    PROVE  CommandInv'
<1>1. PICK m \in net : /\ Release(m.conn) /\ up' = up \ {m.conn} /\ net' = Unserved(m.conn)
                       /\ Unclient /\ UNCHANGED <<tree, rooted>>
  BY DEF ServeClose, Dropping
<1>2. net' \subseteq net /\ up' \subseteq up
  BY <1>1 DEF Unserved
<1>3. /\ transfer' = IF session' = NoSession THEN NoTransfer ELSE transfer
      /\ UNCHANGED <<part, cached, losses>>
  BY DEF Dropping
<1>4. \/ session' = NoSession /\ transfer' = NoTransfer
      \/ session' = session /\ transfer' = transfer /\ (Active => session.conn \in up')
  BY <1>1, <1>3 DEF Release, Owns, CommandInv, V2Sessions
<1> QED
  BY <1>1, <1>2, <1>3, <1>4, V2KeptOrEnded DEF Unclient

\* The lease of a silent Link runs out, or the server restarts.
LEMMA V2EndsInv ==
    ASSUME CommandInv, V2LeaseExpires \/ Dropping(Restart)
    PROVE  CommandInv'
<1>1. LeaseExpires \/ Restart
  BY DEF V2LeaseExpires, Dropping
<1>2. /\ net' \subseteq net /\ up' \subseteq up /\ session' = NoSession
      /\ UNCHANGED <<tree, rooted, local, client, edits>>
  BY <1>1 DEF LeaseExpires, Expire, Unserved, Restart, Unclient
<1>3. transfer' = NoTransfer /\ UNCHANGED <<part, cached, losses>>
  BY <1>2 DEF V2LeaseExpires, Dropping
<1> QED
  BY <1>2, <1>3, V2KeptOrEnded

\* The lease counts silence, and traffic renews it.
LEMMA V2LeaseInv ==
    ASSUME CommandInv, V2Tick \/ Shared(Traffic)
    PROVE  CommandInv'
<1>1. /\ Tick \/ (Touch(client.conn) /\ client.conn \in Conns)
      /\ UNCHANGED <<up, net, local, client, edits, transfer, part, cached, losses>>
  BY DEF V2Tick, Shared, ServerTick, Traffic, CommandInv, V2Typed, Unclient, unpart
<1>2. session \in SessionRecord /\ Active /\ UNCHANGED <<tree, rooted>>
  BY <1>1 DEF Tick, Touch, Owns, Active, CommandInv, V2Typed, V2IInv, TypeOK
<1>3. V2IInv'
  BY <1>1, IdleInv DEF CommandInv, V2Typed
<1>4. PICK x \in 0 .. Lease + 1 : session' = [session EXCEPT !.idle = x]
  BY <1>1, <1>2, LeaseAssumption DEF Touch, Tick, SessionRecord
<1>5. SameTransfer
  BY <1>1, <1>2 DEF SameTransfer, CommandInv, V2Sessions, InStore, StoredOf, CachedChunks
<1>6. V2Rests
  BY <1>1, <1>2, <1>4, <1>5, SetIdle DEF V2Rests, SameJob, CommandInv, V2Sessions
<1> QED
  BY <1>1, <1>2, <1>3, <1>6, V2LessensInv DEF V2Lessens, CommandInv, V2Typed

\* A chunk is lost: the store that is open has it no more.
LEMMA LoseChunkInv ==
    ASSUME CommandInv, LoseChunk
    PROVE  CommandInv'
<1>1. PICK x \in cached :
         /\ cached' = cached \ {x}
         /\ transfer' = IF transfer # NoTransfer /\ client.push
                             /\ transfer.file = x[1] /\ transfer.hash = x[2]
                          THEN [transfer EXCEPT !.stored[x[3]] = 0] ELSE transfer
  BY DEF LoseChunk
<1>2. /\ losses' \in 0 .. MaxLosses
      /\ UNCHANGED <<tree, rooted, session, local, client, up, net, edits, part>>
  BY JobsAssumption, LossesAssumption DEF LoseChunk, CommandInv, V2Typed
<1> DEFINE f == transfer.file
           d == transfer.hash
           j == x[3]
           u == [transfer EXCEPT !.stored[j] = 0]
<1>0. x[1] \in Paths /\ x[2] \in Versions /\ j \in Chunks(x[2]) /\ x = Chunk(x[1], x[2], j)
  BY DEF CommandInv, V2Typed, CachedTyped
<1>3. CASE ~Active
  <2>1. transfer = NoTransfer /\ transfer' = NoTransfer /\ session' = NoSession
    BY <1>1, <1>2, <1>3 DEF CommandInv, V2Typed, V2IInv, TransferIsPending, Active
  <2>2. V2IInv'
    BY <1>2, <2>1, V2StutterInv DEF CommandInv, V2Typed, v2vars
  <2> QED
    BY <1>1, <1>2, <2>1, <2>2, V2LessensInv DEF V2Lessens, V2Rests
<1>4. CASE transfer # NoTransfer /\ client.push /\ f = x[1] /\ d = x[2]
  <2>1. /\ Active /\ session \in SessionRecord /\ session.push /\ transfer \in TransferRecord
        /\ transfer.stored = StoredOf(f, d)
        /\ \A k \in transfer.missing : transfer.hashes[k] = d
        /\ transfer.hash \in Versions
    <3>1. Active /\ transfer \in TransferRecord
      BY <1>4 DEF CommandInv, V2Typed, V2IInv, TransferIsPending, TransferIsGood, GoodTransfer
    <3> QED
      BY <1>4, <3>1, ActiveSession
      DEF CommandInv, V2Typed, V2IInv, V2Sessions, InStore, TransferRecord
  <2>2. transfer.stored[j] = d /\ d # 0
    BY <1>0, <1>4, <2>1, VersionsAssumption DEF StoredOf, CachedChunks
  <2>3. DamageStored(j)
    BY <1>0, <1>1, <1>2, <1>4, <2>1, <2>2 DEF DamageStored, vars
  <2>4. V2IInv'
    BY <2>3, DamageStoredInv DEF CommandInv, V2Typed
  <2>5. /\ transfer' = u /\ u # NoTransfer
        /\ u.file = f /\ u.hash = d /\ u.hashes = transfer.hashes
        /\ u.missing = transfer.missing /\ u.pending = transfer.pending
        /\ u.stored = [transfer.stored EXCEPT ![j] = 0]
    <3>1. transfer' = u
      BY <1>1, <1>4
    <3>2. u # NoTransfer
      <4>1. transfer.stored \in [Chunks(d) -> Content]
        BY <1>4 DEF CommandInv, V2Typed, V2IInv, TransferIsGood, GoodTransfer
      <4>2. [transfer.stored EXCEPT ![j] = 0] \in [Chunks(d) -> Content]
        BY <4>1 DEF Content
      <4>3. [transfer.stored EXCEPT ![j] = 0] \in UNION {[Chunks(v) -> Content] : v \in Versions}
        BY <2>1, <4>2
      <4>4. u \in TransferRecord
        BY <2>1, <4>3 DEF TransferRecord
      <4> QED
        BY <4>4, NoTransferAssumption
    <3> QED
      BY <2>1, <3>1, <3>2 DEF TransferRecord
  <2>6. u.stored = StoredOf(f, d)'
    <3>1. \A k \in Chunks(d) : Chunk(f, d, k) \in cached' <=> Chunk(f, d, k) \in cached /\ k # j
      BY <1>0, <1>1, <1>4 DEF Chunk
    <3>2. u.stored = [k \in Chunks(d) |-> IF Chunk(f, d, k) \in cached' THEN d ELSE 0]
      BY <2>1, <2>5, <3>1 DEF StoredOf, CachedChunks
    <3> QED
      BY <2>5, <3>2 DEF StoredOf, CachedChunks, Chunk, Chunks
  <2>7. SameTransfer
    BY <1>2, <1>4, <2>5, <2>6 DEF SameTransfer, StoredOf, CachedChunks
  <2>8. V2Rests
    BY <1>2, <2>1, <2>7 DEF V2Rests, SameJob, CommandInv, V2Sessions
  <2> QED
    BY <1>1, <1>2, <2>4, <2>8, V2LessensInv DEF V2Lessens
<1>5. CASE Active /\ ~(transfer # NoTransfer /\ client.push /\ f = x[1] /\ d = x[2])
  <2>1. transfer' = transfer
    BY <1>1, <1>5
  <2>2. V2IInv'
    BY <1>2, <2>1, V2StutterInv DEF CommandInv, V2Typed, v2vars
  <2>3. SameTransfer
    <3>1. ASSUME transfer # NoTransfer, session.push
          PROVE  transfer.stored = StoredOf(f, d)'
      <4>1. client.push /\ transfer.stored = StoredOf(f, d)
        BY <1>5, <3>1 DEF CommandInv, V2Sessions, InStore
      <4>2. \A k : Chunk(f, d, k) \in cached <=> Chunk(f, d, k) \in cached'
        BY <1>0, <1>1, <1>5, <3>1, <4>1 DEF Chunk
      <4> QED
        BY <2>1, <4>1, <4>2 DEF StoredOf, CachedChunks
    <3> QED
      BY <2>1, <3>1 DEF SameTransfer
  <2>4. V2Rests
    BY <1>2, <1>5, <2>3, ActiveSession
    DEF V2Rests, SameJob, CommandInv, V2Typed, V2IInv, V2Sessions
  <2> QED
    BY <1>1, <1>2, <2>2, <2>4, V2LessensInv DEF V2Lessens
<1>6. transfer # NoTransfer => Active
  BY DEF CommandInv, V2Typed, V2IInv, TransferIsPending
<1> QED
  BY <1>3, <1>4, <1>5, <1>6

(***************************************************************************)
(* An attempt ends in failure, or starts.                                  *)
(***************************************************************************)
\* A running attempt has a Link.
LEMMA V2RunningHasLink ==
    ASSUME CommandInv, Running
    PROVE  client.conn \in Conns
BY DEF CommandInv, V2Typed, V2Place, Running, V2ClientRecord

\* A place nobody is at.
LEMMA NoPartType == NoPart \in PartRecord /\ NoPart.hash = 0 /\ NoPart.missing = {}
                    /\ NoPart.chunk = 0 /\ NoPart.next = 0
BY DEF NoPart, PartRecord, Content

\* An attempt that closes its Link, for whatever reason, leaves types, the
\* session, the order of the Links and what is on its way as they are.
LEMMA V2Closes ==
    ASSUME CommandInv, Running, V2SameAttempt(client', client), client'.remote = client.remote,
           Unserver, net' \subseteq net \cup {CloseMsg}, local' \in Trees, Faithful(local'),
           part' = NoPart, UNCHANGED <<edits, transfer, cached, losses>>, ~Running'
    PROVE  V2Typed' /\ V2Sessions' /\ V2Links' /\ V2Uncached' /\ client'.conn # 0
<1> USE DEF Unserver
<1>0. client.conn \in Conns
  BY V2RunningHasLink
<1>1. /\ client' \in V2ClientRecord /\ client'.conn = client.conn
      /\ client'.push = client.push /\ client'.options = client.options
      /\ client'.scan = client.scan /\ client'.remote = client.remote
  BY DEF V2SameAttempt
<1>2. CloseMsg.kind = "close" /\ CloseMsg.conn = client.conn
  BY MsgFields DEF CloseMsg
<1> HIDE DEF CloseMsg
<1>3. ASSUME NEW m \in net' PROVE V2Carries(m)'
  <2>1. CASE m \in net
    BY <1>1, <2>1 DEF CommandInv, V2Typed, V2Carries
  <2>2. CASE m = CloseMsg
    BY <1>0, <1>2, <2>2 DEF V2Carries
  <2> QED
    BY <2>1, <2>2
<1>4. V2Typed'
  <2>1. V2IInv'
    BY V2StutterInv DEF CommandInv, V2Typed, v2vars
  <2> QED
    BY <1>1, <1>3, <2>1, NoPartType DEF CommandInv, V2Typed, CachedTyped, Faithful
<1>5. V2Sessions'
  BY <1>1 DEF CommandInv, V2Sessions, Active, InStore, StoredOf, CachedChunks
<1>6. \A m \in net' : m \in net \/ (m.kind = "close" /\ m.conn = client.conn)
  BY <1>2
<1>7. V2Links'
  <2>1. /\ \A m \in net' : m.conn <= client'.conn
        /\ \A c \in up' : c <= client'.conn
    <3>1. client.conn <= client.conn
      BY <1>0, LinkOrder
    <3> QED
      BY <1>1, <1>6, <3>1 DEF CommandInv, V2Links
  <2>2. \A m \in net' : m.kind = "request" /\ m.op = "start" =>
            /\ ~Owns(m.conn)'
            /\ \A n \in net' : n.conn = m.conn => n = m \/ n.kind = "close"
    BY <1>6 DEF CommandInv, V2Links, Owns, Active
  <2>3. \A m, n \in net' : Works(m) /\ Works(n) /\ n.conn = m.conn => n = m
    BY <1>6 DEF CommandInv, V2Links, Works
  <2>4. \A m \in net' : m.kind = "request" /\ m.op = "description" /\ Owns(m.conn)' =>
            m.data = session'.source[m.file].ver
    BY <1>6 DEF CommandInv, V2Links, Owns, Active
  <2> QED
    BY <2>1, <2>2, <2>3, <2>4 DEF V2Links, Works
<1>8. V2Uncached'
  <2>1. OnlyMissingSent'
    BY <1>1, <1>6 DEF CommandInv, V2Uncached, OnlyMissingSent, CachedChunks
  <2>2. \A m \in Current' : m.kind = "request" => m \in Current
    BY <1>1, <1>6 DEF Current
  <2> QED
    BY <2>1, <2>2 DEF CommandInv, V2Uncached, Owns, Active, Chunk
<1> QED
  BY <1>0, <1>1, <1>4, <1>5, <1>7, <1>8, LinkOrder

\* The client gives up, whatever it leaves of its own directory.
LEMMA V2GivenUp ==
    ASSUME CommandInv, Running, client' = [client EXCEPT !.pc = "failed"], Unserver,
           net' \subseteq net \cup {CloseMsg}, local' \in Trees, Faithful(local'),
           part' = NoPart, UNCHANGED <<edits, transfer, cached, losses>>
    PROVE  CommandInv'
<1>1. V2SameAttempt(client', client) /\ client'.pc = "failed" /\ client'.remote = client.remote
  BY V2MovesOn DEF CommandInv, V2Typed, V2Places, Ended, V2Moved
<1>2. ~Running'
  BY <1>1 DEF Running, Ended
<1>3. V2Typed' /\ V2Sessions' /\ V2Links' /\ V2Uncached' /\ client'.conn # 0
  BY <1>1, <1>2, V2Closes
<1>4. V2Question' /\ V2InStep' /\ Accounted' /\ V2Place'
  BY <1>2, <1>3 DEF V2Question, V2InStep, Accounted, V2Place
<1>5. Done'
  BY <1>1 DEF Done
<1>6. V2Strays'
  <2> SUFFICES ASSUME V2Settled', Active', session'.conn # client'.conn,
                      NEW m \in net', m.conn = session'.conn
               PROVE  ~Works(m)
    BY <1>1 DEF V2Strays, Works
  <2>1. CloseMsg.kind = "close" /\ CloseMsg.conn = client.conn /\ client'.conn = client.conn
    BY <1>1, MsgFields DEF CloseMsg, V2SameAttempt
  <2>2. PICK n \in Current' : n.kind = "resource"
    BY <1>1 DEF V2Settled
  <2>3. n \in Current
    BY <2>1, <2>2 DEF Current
  <2>4. client.pc # "start"
    BY <2>2, <2>3, V2QuerySays DEF CommandInv, V2Question, Says
  <2>5. V2Settled
    BY <2>4 DEF V2Settled, Running, Ended
  <2>6. m \in net
    BY <2>1
  <2> QED
    BY <2>1, <2>5, <2>6 DEF CommandInv, V2Strays, Active, Unserver
<1> QED
  BY <1>3, <1>4, <1>5, <1>6 DEF CommandInv

\* An error, or a crash, ends the attempt.
LEMMA V2FailInv ==
    ASSUME CommandInv, V2Fail \/ Leaves(Crash)
    PROVE  CommandInv'
<1>0. (Fail \/ Crash) /\ part' = NoPart /\ UNCHANGED <<transfer, cached, losses>>
  BY DEF V2Fail, Leaves
<1>1. net' \subseteq net \cup {CloseMsg}
  BY <1>0 DEF Fail, Crash, GiveUp, Closing, Unread, CloseMsg
<1>2. local' \in Trees /\ Faithful(local') /\ UNCHANGED edits
  BY <1>0 DEF Fail, Crash, GiveUp, CommandInv, V2Typed
<1> QED
  BY <1>0, <1>1, <1>2, V2GivenUp DEF Fail, Crash, GiveUp

\* The preparation, an installation or the removal breaks off.
LEMMA V2BreaksInv ==
    ASSUME CommandInv, NEW dir \in Trees, Faithful(dir), Running, GiveUp(dir),
           part' = NoPart, UNCHANGED <<transfer, cached, losses>>
    PROVE  CommandInv'
<1>1. net' \subseteq net \cup {CloseMsg}
  BY DEF GiveUp, Closing, Unread, CloseMsg
<1> QED
  BY <1>1, V2GivenUp DEF GiveUp

\* The preparation breaks off.
LEMMA V2PrepareBreaksInv ==
    ASSUME CommandInv, Leaves(PrepareBreaks)
    PROVE  CommandInv'
<1>1. PICK dir \in PreparePartial(local, Source, Target) : GiveUp(dir)
  BY DEF Leaves, PrepareBreaks
<1>2. dir \in Trees /\ Faithful(dir)
  BY PreparePartialType, PreparePartialFaithful DEF CommandInv, V2Typed
<1>3. Running /\ part' = NoPart /\ UNCHANGED <<transfer, cached, losses>>
  BY DEF Leaves, PrepareBreaks, Running, Ended
<1> QED
  BY <1>1, <1>2, <1>3, V2BreaksInv

\* The files of the plan have a version.
LEMMA V2PlannedVersion ==
    ASSUME V2Typed, NEW f \in PlannedFiles
    PROVE  /\ f \in Paths /\ Source[f].kind = "file" /\ Source[f].ver \in Versions
           /\ Source[f].data = Source[f].ver
<1>1. Source \in Trees /\ Faithful(Source)
  BY DEF V2Typed, Source, V2ClientRecord
<1> QED
  BY <1>1, FileVersion DEF PlannedFiles, PlanFiles, Trees, Faithful

\* An installation breaks off.
LEMMA InstallAssembledBreaksInv ==
    ASSUME CommandInv, InstallAssembledBreaks
    PROVE  CommandInv'
<1>1. PICK dir \in InstallPartial(local, Source, Target, client.file, part.hash) : GiveUp(dir)
  BY DEF InstallAssembledBreaks
<1>2. /\ client.pc = "file" /\ Running
      /\ part' = NoPart /\ UNCHANGED <<transfer, cached, losses>>
  BY DEF InstallAssembledBreaks, Running, Ended
<1>3. /\ client.file \in PlannedFiles /\ part.hash = Source[client.file].ver
      /\ V2Typed /\ local \in Trees /\ Faithful(local)
  BY <1>2 DEF CommandInv, V2Place, FilePlaces, V2Typed
<1>4. Source[client.file].ver \in Versions
  BY <1>3, V2PlannedVersion
<1>5. dir \in Trees
  BY <1>1, <1>3, <1>4, InstallPartialType
<1>6. Faithful(dir)
  <2>1. \/ dir = local
        \/ dir = Put(local, {client.file}, File(Source[client.file].ver, part.hash))
        \/ \E D : dir = Put(local, D, None)
    BY <1>1 DEF InstallPartial
  <2> QED
    BY <1>3, <2>1, PutFaithful, FaithfulEntries
<1> QED
  BY <1>1, <1>2, <1>5, <1>6, V2BreaksInv

\* The removal of extras breaks off.
LEMMA V2RemovalBreaksInv ==
    ASSUME CommandInv, Leaves(RemovalBreaks)
    PROVE  CommandInv'
<1>1. PICK dir \in RemovePartial(local, Target, Extras) : GiveUp(dir)
  BY DEF Leaves, RemovalBreaks
<1>2. Running /\ part' = NoPart /\ UNCHANGED <<transfer, cached, losses>>
  BY DEF Leaves, RemovalBreaks, Running, Ended
<1>3. local \in Trees /\ Faithful(local)
  BY DEF CommandInv, V2Typed
<1>4. dir \in Trees
  BY <1>1, <1>3, RemovePartialType
<1>5. Faithful(dir)
  <2>1. dir = local \/ \E D : dir = Put(local, D, None)
    BY <1>1 DEF RemovePartial
  <2> QED
    BY <1>3, <2>1, PutFaithful, FaithfulEntries
<1> QED
  BY <1>1, <1>2, <1>4, <1>5, V2BreaksInv

\* The record of a fresh attempt.
LEMMA V2OpenedClient ==
    ASSUME client \in V2ClientRecord, NEW c \in Conns, NEW t \in Trees,
           client' = [client EXCEPT !.pc = "start", !.conn = c, !.scan = t,
                                    !.remote = Blank, !.file = NoPath, !.data = 0,
                                    !.done = {}, !.stale = {}, !.foreign = {}]
    PROVE  /\ client' \in V2ClientRecord
           /\ client'.pc = "start" /\ client'.conn = c /\ client'.push = client.push
           /\ client'.options = client.options /\ client'.scan = t /\ client'.remote = Blank
           /\ client'.done = {} /\ client'.stale = {} /\ client'.foreign = {}
<1>1. Blank \in Trees
  BY EntryTypes DEF Blank, Trees
<1> QED
  BY <1>1 DEF V2ClientRecord, V2Places

\* An attempt starts on a Link no message and no session is on.
LEMMA V2OpenInv ==
    ASSUME CommandInv, Shared(Open)
    PROVE  CommandInv'
<1> DEFINE c == client.conn + 1
<1> DEFINE start == Msg("request", c, "start", NoPath, local, 0)
<1>1. /\ c \in Conns /\ up' = up \cup {c} /\ net' = net \cup {start}
      /\ UNCHANGED <<tree, rooted, session, local, edits, transfer, part, cached, losses>>
      /\ client \in V2ClientRecord /\ local \in Trees /\ Faithful(local)
      /\ part = NoPart
  BY DEF Shared, unpart, Open, CommandInv, V2Typed, V2Place, FilePlaces, ChunkPlaces
<1>2. /\ client' \in V2ClientRecord
      /\ client'.pc = "start" /\ client'.conn = c /\ client'.push = client.push
      /\ client'.options = client.options /\ client'.scan = local /\ client'.remote = Blank
      /\ client'.done = {} /\ client'.stale = {} /\ client'.foreign = {}
  <2>1. client' = [client EXCEPT !.pc = "start", !.conn = c, !.scan = local,
                                 !.remote = Blank, !.file = NoPath, !.data = 0,
                                 !.done = {}, !.stale = {}, !.foreign = {}]
    BY DEF Shared, Open
  <2> QED
    BY <1>1, <2>1, V2OpenedClient
<1>3. /\ start.kind = "request" /\ start.conn = c /\ start.op = "start"
      /\ start.manifest = local
  BY MsgFields
<1>4. start = V2Query'
  BY <1>2 DEF V2Query, QueryOf
<1>5. client.conn \in Nat /\ c # 0 /\ client.conn < c /\ c <= c
  <2>1. client.conn \in Nat
    BY <1>1, LinkOrder DEF V2ClientRecord
  <2> QED
    BY <2>1
<1> HIDE DEF start, c
<1>6. /\ \A m \in net : m.conn # c /\ m.conn <= c
      /\ \A d \in up : d <= c
      /\ c \notin up
  <2>1. \A m \in net : m.conn \in Nat /\ m.conn <= client.conn
    BY LinkOrder DEF CommandInv, V2Typed, V2Carries, V2Links
  <2>2. \A d \in up : d \in Nat /\ d <= client.conn
    BY LinkOrder DEF CommandInv, V2Typed, V2Links
  <2>3. c \in Nat
    BY <1>1, LinkOrder
  <2> QED
    BY <1>5, <2>1, <2>2, <2>3
<1>7. Active' => session'.conn # c
  BY <1>1, <1>6 DEF CommandInv, V2Sessions, Active
<1>8. V2Typed'
  <2>1. V2IInv'
    BY <1>1, V2StutterInv DEF CommandInv, V2Typed, v2vars
  <2>2. Faithful(Blank)
    BY DEF Faithful, Blank, None
  <2>3. ASSUME NEW m \in net' PROVE V2Carries(m)'
    <3>1. CASE m \in net
      BY <1>2, <3>1 DEF CommandInv, V2Typed, V2Carries
    <3>2. CASE m = start
      BY <1>1, <1>3, <3>2 DEF V2Carries, FileOps, MoveOps
    <3> QED
      BY <1>1, <3>1, <3>2
  <2>4. Faithful(local)' /\ Faithful(client.scan)' /\ Faithful(client.remote)'
    BY <1>1, <1>2, <2>2 DEF Faithful
  <2> QED
    BY <1>1, <1>2, <2>1, <2>3, <2>4 DEF CommandInv, V2Typed, CachedTyped, Faithful
<1>9. V2Sessions'
  BY <1>1, <1>2 DEF CommandInv, V2Sessions, Active, InStore, StoredOf, CachedChunks
<1>10. V2Links'
  <2>1. \A m \in net' : m \in net \/ m = start
    BY <1>1
  <2>2. /\ \A m \in net' : m.conn <= client'.conn
        /\ \A d \in up' : d <= client'.conn
    BY <1>1, <1>2, <1>3, <1>5, <1>6
  <2>3. \A m \in net' : m.kind = "request" /\ m.op = "start" =>
            /\ ~Owns(m.conn)'
            /\ \A n \in net' : n.conn = m.conn => n = m \/ n.kind = "close"
    BY <1>1, <1>3, <1>6, <1>7, <2>1 DEF CommandInv, V2Links, Owns, Active
  <2>4. \A m, n \in net' : Works(m) /\ Works(n) /\ n.conn = m.conn => n = m
    BY <1>3, <1>6, <2>1 DEF CommandInv, V2Links
  <2>5. \A m \in net' : m.kind = "request" /\ m.op = "description" /\ Owns(m.conn)' =>
            m.data = session'.source[m.file].ver
    BY <1>1, <1>3, <2>1 DEF CommandInv, V2Links, Owns, Active
  <2> QED
    BY <2>2, <2>3, <2>4, <2>5 DEF V2Links, Works
<1>11. Current' = {V2Query'} /\ Pulled' = {} /\ \A x : Answer(x)' = {}
  BY <1>1, <1>2, <1>3, <1>4, <1>6 DEF Current, Pulled, Answer
<1>12. V2Question'
  BY <1>2, <1>11 DEF V2Question
<1>13. V2Place'
  <2>1. client'.pc \notin FilePlaces \cup {"next", "finish"} /\ client'.conn # 0
    BY <1>2, <1>5 DEF FilePlaces, ChunkPlaces
  <2> QED
    BY <1>1, <1>2, <1>11, <2>1 DEF V2Place, FilePlaces, ChunkPlaces
<1>14. V2InStep'
  BY <1>2, <1>7 DEF V2InStep, Owns
<1>15. V2Strays'
  BY <1>2, <1>3, <1>4, <1>11 DEF V2Strays, V2Settled
<1>16. Accounted'
  <2>1. client'.push => \A p \in Paths : local'[p] = client'.scan[p]
    BY <1>1, <1>2
  <2>2. ~client'.push => Target' = local' /\ Scanned' = {}
    BY <1>1, <1>2 DEF Target, Scanned
  <2> QED
    BY <1>2, <2>1, <2>2 DEF Accounted, Alike
<1>17. Done'
  BY <1>2 DEF Done
<1>18. V2Uncached'
  <2>1. \A m \in net' : m.conn = client'.conn => m = start
    BY <1>1, <1>2, <1>6
  <2>2. OnlyMissingSent'
    BY <1>3, <2>1 DEF OnlyMissingSent
  <2>3. Unfetched' = {}
    BY <1>1, <1>2, NoPartType DEF Unfetched
  <2>4. \A m \in Current' : m.op # "chunkGet"
    BY <1>3, <1>4, <1>11
  <2> QED
    BY <1>2, <2>2, <2>3, <2>4 DEF V2Uncached, Uncached
<1> QED
  BY <1>8, <1>9, <1>10, <1>12, <1>13, <1>14, <1>15, <1>16, <1>17, <1>18 DEF CommandInv

(***************************************************************************)
(* A step within an attempt.                                               *)
(***************************************************************************)
\* What the messages, the session and the plan of the attempt have to do
\* with each other carries over to the rest of the invariant.
LEMMA V2StepsOn ==
    ASSUME CommandInv, Running, V2Settled, Unserver, UNCHANGED <<edits, losses, transfer>>,
           V2SameAttempt(client', client), Running', client'.pc # "start",
           client'.remote \in Trees, Faithful(client'.remote),
           local' \in Trees, Faithful(local'), part' \in PartRecord,
           net' \subseteq net \cup {V2Query'},
           client'.pc = "finish" => Current' = {V2Query'},
           cached' = cached \/ (~client.push /\ CachedTyped'),
           V2Question', V2Place', V2InStep', Accounted', V2Uncached'
    PROVE  CommandInv'
<1> USE DEF Unserver
<1>0. /\ client' \in V2ClientRecord /\ client'.conn = client.conn /\ client'.push = client.push
      /\ client'.options = client.options /\ client'.scan = client.scan
      /\ client.conn \in Conns
      /\ client'.pc \in FilePlaces \cup {"finish", "plan", "next"}
  BY V2RunningHasLink DEF V2SameAttempt, V2ClientRecord, Running, V2Places, Ended
<1>1. \A m \in net' : m \in net \/ m = V2Query'
  OBVIOUS
<1>2. /\ Source' \in Trees /\ Faithful(Source')
      /\ \A f \in PlannedFiles' : f \in Paths /\ Source'[f].ver \in Versions
  <2>1. Source' \in Trees /\ Faithful(Source')
    BY <1>0 DEF Source, CommandInv, V2Typed, V2ClientRecord
  <2> QED
    BY <2>1, FileVersion DEF PlannedFiles, PlanFiles, Trees
<1>q. V2Query'.conn = client.conn /\ Says(V2Query', client', part')
  BY <1>0, V2QuerySays DEF Says
<1>3. V2Query' \in net' => V2Carries(V2Query)'
  <2> SUFFICES ASSUME V2Query' \in net' PROVE V2Carries(V2Query)'
    OBVIOUS
  <2> USE DEF V2Carries, FileOps, MoveOps
  <2>1. client'.pc \in (FilePlaces \ {"receive", "page"}) \cup {"finish"}
    BY <1>0 DEF V2Question
  <2>2. CASE client'.pc = "finish"
    BY <1>0, <1>q, <2>2 DEF Says, FilePlaces, ChunkPlaces
  <2>3. CASE client'.pc \in FilePlaces \ {"receive", "page"}
    <3>1. client'.file \in Paths /\ Source'[client'.file].ver \in Versions
      BY <1>2, <2>3 DEF V2Place
    <3>2. client'.pc = "send" => client'.push /\ part'.hash \in Versions
      BY <2>3, <3>1 DEF V2Place, FilePlaces, ChunkPlaces
    <3>3. client'.pc = "describe" /\ client'.push => part'.hash \in Versions
      BY <2>3, <3>1 DEF V2Place, FilePlaces, ChunkPlaces
    <3>4. part'.next \in Nat /\ part'.chunk \in Nat
      BY DEF PartRecord
    <3>5. CASE client'.pc = "describe"
      BY <1>0, <1>q, <3>1, <3>3, <3>5 DEF Says
    <3>6. CASE client'.pc = "hashes"
      BY <1>0, <1>q, <3>1, <3>4, <3>6 DEF Says
    <3>7. CASE client'.pc \in {"begin", "get", "commit", "verified"}
      BY <1>0, <1>q, <3>1, <3>4, <3>7 DEF Says
    <3>8. CASE client'.pc = "send"
      BY <1>0, <1>q, <3>1, <3>2, <3>8 DEF Says
    <3>9. CASE client'.pc = "file"
      BY <1>0, <1>q, <3>1, <3>9 DEF Says
    <3> QED
      BY <2>3, <3>5, <3>6, <3>7, <3>8, <3>9 DEF FilePlaces, ChunkPlaces
  <2> QED
    BY <2>1, <2>2, <2>3
<1>4. V2Typed'
  <2>1. V2IInv'
    BY V2StutterInv DEF CommandInv, V2Typed, v2vars
  <2>2. ASSUME NEW m \in net' PROVE V2Carries(m)'
    <3>1. CASE m \in net
      BY <1>0, <3>1 DEF CommandInv, V2Typed, V2Carries
    <3> QED
      BY <1>1, <1>3, <2>2, <3>1
  <2>3. CachedTyped'
    BY DEF CommandInv, V2Typed, CachedTyped
  <2> QED
    BY <1>0, <2>1, <2>2, <2>3 DEF CommandInv, V2Typed, Faithful
<1>5. V2Sessions'
  BY <1>0 DEF CommandInv, V2Sessions, Active, InStore, StoredOf, CachedChunks
<1>6. V2Links'
  <2>1. client.conn <= client.conn
    BY <1>0, LinkOrder
  <2>2. /\ \A m \in net' : m.conn <= client'.conn
        /\ \A c \in up' : c <= client'.conn
    BY <1>0, <1>1, <1>q, <2>1 DEF CommandInv, V2Links
  <2>3. ASSUME NEW m \in net', m.kind = "request", m.op = "start"
        PROVE  /\ ~Owns(m.conn)'
               /\ \A n \in net' : n.conn = m.conn => n = m \/ n.kind = "close"
    <3>1. m # V2Query'
      BY <1>0, <1>q, <2>3 DEF Says, FilePlaces, ChunkPlaces
    <3>2. m \in net
      BY <1>1, <2>3, <3>1
    <3>3. m.conn # client.conn
      <4>1. CASE m.conn = client.conn
        <5>1. m \in Current /\ m = V2Query
          BY <3>2, <4>1, <2>3 DEF Current, CommandInv, V2Question, Pulled
        <5>2. client.pc = "start"
          <6>1. client.pc \in V2Places
            BY DEF CommandInv, V2Typed, V2ClientRecord
          <6> QED
            BY <5>1, <6>1, <2>3, V2QuerySays
            DEF Says, Running, V2Places, Ended, FilePlaces, ChunkPlaces
        <5>3. Current = {V2Query}
          BY <3>2, <5>1 DEF CommandInv, V2Question
        <5>4. \E n \in Current : n.kind # "request"
          BY <5>2 DEF V2Settled, Answer, Current
        <5> QED
          BY <2>3, <5>1, <5>3, <5>4
      <4> QED
        BY <4>1
    <3> QED
      BY <1>1, <1>q, <2>3, <3>2, <3>3 DEF CommandInv, V2Links, Owns, Active
  <2>4. ASSUME NEW m \in net', NEW n \in net', Works(m), Works(n), n.conn = m.conn
        PROVE  n = m
    <3>1. CASE m.conn = client.conn /\ V2Query' \in net'
      BY <1>0, <2>4, <3>1 DEF V2Question, Current
    <3>2. CASE ~(m.conn = client.conn /\ V2Query' \in net')
      BY <1>1, <1>q, <2>4, <3>2 DEF CommandInv, V2Links
    <3> QED
      BY <3>1, <3>2
  <2>5. ASSUME NEW m \in net', m.kind = "request", m.op = "description", Owns(m.conn)'
        PROVE  m.data = session'.source[m.file].ver
    <3>1. CASE m \in net
      BY <2>5, <3>1 DEF CommandInv, V2Links, Owns, Active
    <3>2. CASE m = V2Query'
      <4>1. client'.pc = "describe" /\ client'.push /\ Owns(client.conn)'
        BY <1>0, <1>q, <2>5, <3>2 DEF Says, FilePlaces, ChunkPlaces
      <4>2. session'.source = Source'
        BY <1>0, <4>1 DEF V2InStep
      <4>3. part'.hash = Source'[client'.file].ver
        BY <4>1 DEF V2Place, FilePlaces
      <4> QED
        BY <1>q, <3>2, <4>1, <4>2, <4>3 DEF Says
    <3> QED
      BY <1>1, <3>1, <3>2
  <2> QED
    BY <2>2, <2>3, <2>4, <2>5 DEF V2Links, Works
<1>7. V2Strays'
  <2>1. client'.pc # "success"
    BY <1>0 DEF FilePlaces, ChunkPlaces
  <2>2. ASSUME Active', session'.conn # client'.conn, NEW m \in net', m.conn = session'.conn
        PROVE  ~Works(m)
    <3>1. m \in net
      BY <1>0, <1>1, <1>q, <2>2
    <3> QED
      BY <1>0, <2>2, <3>1 DEF CommandInv, V2Strays, Active
  <2> QED
    BY <2>1, <2>2 DEF V2Strays, Works
<1>8. Done'
  <2>1. CASE client'.pc = "finish"
    <3>1. Answer("ok")' = {}
      BY <1>q, <2>1 DEF Says, Answer, Current
    <3> QED
      BY <2>1, <3>1 DEF Done
  <2>2. CASE client'.pc # "finish"
    BY <1>0, <2>2 DEF Done, FilePlaces, ChunkPlaces
  <2> QED
    BY <2>1, <2>2
<1> QED
  BY <1>4, <1>5, <1>6, <1>7, <1>8 DEF CommandInv

\* An answer is all there is on the Link of the attempt, but for the chunk
\* that comes with the answer to CHUNK-GET.
LEMMA V2AnswerIsAlone ==
    ASSUME CommandInv, Running, NEW x, NEW m \in Answer(x)
    PROVE  /\ m \in Current /\ m.kind = "reply" /\ V2Query \notin net
           /\ \A n \in Current \ {m} : n \in Pulled /\ client.pc = "get"
<1>1. m \in Current /\ m.kind = "reply"
  BY DEF Answer, Current
<1>2. m # V2Query
  BY <1>1, V2QuerySays DEF Says
<1>3. V2Query \notin net
  BY <1>1, <1>2 DEF CommandInv, V2Question
<1> QED
  BY <1>1, <1>3 DEF CommandInv, V2Question, Current

\* What the other messages of the attempt are when an answer has arrived.
LEMMA V2OthersElsewhere ==
    ASSUME CommandInv, Running, client.pc # "get", NEW x, NEW m \in Answer(x)
    PROVE  \A n \in net \ {m} : n.conn # client.conn
BY V2AnswerIsAlone DEF Current

\* Nothing is on its way, and nothing was asked.
LEMMA V2Silence ==
    ASSUME \A n \in net' : n.conn # client.conn, client'.conn = client.conn,
           client'.pc \in {"plan", "next", "page"}
    PROVE  /\ V2Question' /\ Current' = {} /\ V2Query' \notin net'
           /\ Pulled' = {} /\ \A x : Answer(x)' = {}
<1>1. Current' = {} /\ Pulled' = {} /\ \A x : Answer(x)' = {}
  BY DEF Current, Answer, Pulled
<1>2. V2Query' \notin net'
  BY V2QuerySays DEF Says
<1> QED
  BY <1>1, <1>2 DEF V2Question

\* A question was asked, and nothing else is on its way.
LEMMA V2Asked ==
    ASSUME NEW N, \A n \in N : n.conn # client.conn, client'.conn = client.conn,
           client'.pc \notin {"plan", "next", "page", "receive"}, net' = N \cup {V2Query'}
    PROVE  /\ V2Question' /\ Current' = {V2Query'}
           /\ Pulled' = {} /\ \A x : Answer(x)' = {}
<1>0. V2Query'.conn = client.conn /\ V2Query'.kind # "reply"
      /\ (V2Query'.kind = "resource" => V2Query'.op = "push")
  BY V2QuerySays DEF Says
<1>1. Current' = {V2Query'}
  BY <1>0 DEF Current
<1>2. Pulled' = {} /\ \A x : Answer(x)' = {}
  BY <1>0, <1>1 DEF Answer, Current, Pulled
<1> QED
  BY <1>1, <1>2 DEF V2Question

\* The session that answered, or is about to be asked, is where the client
\* takes it to be.
LEMMA V2StaysInStep ==
    ASSUME CommandInv, Running, client.pc # "start", V2SameAttempt(client', client),
           client'.remote = client.remote, client'.pc # "start",
           UNCHANGED session, Running',
           Owns(client.conn) =>
              \/ V2Before' /\ (\A x : Answer(x)' = {}) /\ Pulled' = {}
              \/ V2After' /\ client'.pc \notin {"plan", "next", "page"} /\ V2Query' \notin net'
    PROVE  V2InStep'
<1> SUFFICES ASSUME Owns(client.conn)' PROVE V2InStep'
  BY DEF V2InStep, V2SameAttempt
<1>1. /\ client'.conn = client.conn /\ client'.push = client.push
      /\ client'.foreign = client.foreign
  BY DEF V2SameAttempt
<1>2. Owns(client.conn)
  BY <1>1 DEF Owns, Active
<1>3. Source' = Source /\ Target' = Target
  BY V2PlanStays
<1> QED
  BY <1>1, <1>2, <1>3 DEF CommandInv, V2InStep

\* After the answer to a question the session has taken its step.
LEMMA V2AnsweredSession ==
    ASSUME CommandInv, Running, client.pc # "start", Owns(client.conn),
           Answer(V2Good) # {} \/ Pulled # {}
    PROVE  V2After
BY DEF CommandInv, V2InStep

\* The account of an attempt that writes nothing and finishes no file.
LEMMA V2FileAccounted ==
    ASSUME CommandInv, Running, V2SameAttempt(client', client),
           client'.remote = client.remote, client'.done = client.done, UNCHANGED local,
           Scanned' = Scanned
    PROVE  Accounted'
<1>1. Source' = Source /\ Target' = Target
  BY V2PlanStays
<1> QED
  BY <1>1 DEF CommandInv, Accounted, V2SameAttempt

\* That of a push that may have finished one.
LEMMA V2PushAccounted ==
    ASSUME CommandInv, Running, client.push, V2SameAttempt(client', client), UNCHANGED local
    PROVE  Accounted'
BY DEF CommandInv, Accounted, V2SameAttempt

\* A client that asks, or turns to its page, asks for nothing the receiver has.
LEMMA V2UncachedOn ==
    ASSUME Current' \subseteq {V2Query'}, V2Place', Running', client' \in V2ClientRecord,
           Owns(client.conn)' /\ V2Query' \in net' => V2Before', Uncached(Unfetched)'
    PROVE  V2Uncached'
<1>q. Says(V2Query', client', part') /\ client'.pc \in V2Places \ (Ended \cup {"idle"})
  BY V2QuerySays DEF V2ClientRecord, Running
<1>1. ASSUME client'.pc \in {"send", "get"}
      PROVE  Chunk(client'.file, part'.hash, part'.chunk) \notin cached'
  <2>1. part'.chunk \in Unfetched'
    BY <1>1 DEF V2Place, ChunkPlaces, Unfetched
  <2> QED
    BY <2>1 DEF Uncached, Chunk
<1>2. OnlyMissingSent'
  <2> SUFFICES ASSUME NEW m \in net', m.kind = "resource", m.conn = client'.conn
               PROVE  m.chunks \cap CachedChunks(m.file, m.data)' = {}
    BY DEF OnlyMissingSent, CachedChunks
  <2>1. m = V2Query'
    BY DEF Current
  <2>2. client'.pc = "send"
    BY <1>q, <2>1 DEF Says
  <2>3. m.chunks = {part'.chunk} /\ m.file = client'.file /\ m.data = part'.hash
    BY <1>q, <2>1, <2>2 DEF Says
  <2> QED
    BY <1>1, <2>2, <2>3 DEF CachedChunks, Chunk
<1>3. \A x : Answer(x)' = {}
  BY <1>q DEF Says, Answer, Current
<1>4. ASSUME NEW m \in Current', m.kind = "request", m.op = "chunkGet", Owns(m.conn)',
             NEW j \in m.chunks
      PROVE  Chunk(m.file, transfer'.hash, j) \notin cached'
  <2>1. m = V2Query' /\ m \in net'
    BY <1>4 DEF Current
  <2>2. client'.pc = "get"
    BY <1>q, <1>4, <2>1 DEF Says, V2Places, FilePlaces, ChunkPlaces
  <2>3. m.chunks = {part'.chunk} /\ m.file = client'.file /\ m.conn = client'.conn
    BY <1>q, <2>1, <2>2 DEF Says
  <2>4. V2Before'
    BY <1>4, <2>1, <2>3
  <2>5. transfer'.hash = Source'[client'.file].ver
    BY <2>2, <2>4 DEF V2Before, ServesChunk, FilePlaces, ChunkPlaces
  <2>6. part'.hash = Source'[client'.file].ver
    BY <2>2 DEF V2Place, FilePlaces, ChunkPlaces
  <2> QED
    BY <1>1, <1>4, <2>2, <2>3, <2>5, <2>6
<1> QED
  BY <1>2, <1>3, <1>4 DEF V2Uncached, Chunk

\* Where a client is that has moved on to or within a file.
LEMMA V2PlaceInFile ==
    ASSUME CommandInv, Running, V2SameAttempt(client', client), client'.remote = client.remote,
           client'.done = client.done, client'.pc \in FilePlaces,
           client.pc \in FilePlaces \cup {"next"},
           client'.file \in PlannedFiles \ client.done,
           part'.hash = IF client'.pc = "describe" /\ ~client.push THEN 0
                        ELSE Source[client'.file].ver,
           client'.pc = "describe" => part'.missing = {},
           client'.pc # "describe" /\ ~client.push => part'.missing \subseteq Chunks(part'.hash),
           client'.pc \in {"begin", "send", "commit"} => client.push,
           client'.pc \in {"get", "receive", "verified"} => ~client.push,
           client'.pc \in ChunkPlaces => part'.chunk \in part'.missing,
           Answer("description")' = {},
           \A m \in Pulled' : m.chunks = {part'.chunk} /\ m.data = part'.hash
                              /\ m.file = client'.file
    PROVE  V2Place'
<1>1. Source' = Source /\ PlannedFiles' = PlannedFiles
  BY V2PlanStays
<1>2. client'.conn = client.conn /\ client'.push = client.push /\ client'.options = client.options
  BY DEF V2SameAttempt
<1>3. client.conn # 0
  BY DEF CommandInv, V2Place, Running
<1>4. client'.pc \notin {"start", "plan", "finish", "next", "idle"}
  BY DEF FilePlaces, ChunkPlaces
<1>5. ~client.options.dryRun /\ client.done \subseteq PlannedFiles
  BY DEF CommandInv, V2Place
<1>6. Chunks(part.hash)' = Chunks(part'.hash)
  BY DEF Chunks
<1> QED
  BY <1>1, <1>2, <1>3, <1>4, <1>5, <1>6 DEF V2Place

\* A client that moves on to or within a file, with a question or back to
\* its page, keeps the invariant.
LEMMA V2InFile ==
    ASSUME CommandInv, Running, client.pc \in FilePlaces \cup {"next"},
           Unserver, UNCHANGED <<local, edits, losses, transfer>>,
           NEW N \in SUBSET net, \A n \in N : n.conn # client.conn,
           \/ client'.pc \in FilePlaces \ {"page", "receive"} /\ net' = N \cup {V2Query'}
           \/ client'.pc = "page" /\ net' = N,
           V2SameAttempt(client', client), client'.remote = client.remote,
           client'.done = client.done, part' \in PartRecord,
           cached' = cached \/ (~client.push /\ CachedTyped'),
           client'.file \in PlannedFiles \ client.done,
           part'.hash = IF client'.pc = "describe" /\ ~client.push THEN 0
                        ELSE Source[client'.file].ver,
           client'.pc = "describe" => part'.missing = {},
           client'.pc # "describe" /\ ~client.push => part'.missing \subseteq Chunks(part'.hash),
           client'.pc \in {"begin", "send", "commit"} => client.push,
           client'.pc \in {"get", "verified"} => ~client.push,
           client'.pc \in ChunkPlaces => part'.chunk \in part'.missing,
           Owns(client.conn) => V2Before', Uncached(Unfetched)'
    PROVE  CommandInv'
<1>1. /\ client' \in V2ClientRecord /\ client'.conn = client.conn
      /\ client'.pc \in FilePlaces \ {"receive"} /\ V2Settled
      /\ client.pc # "start" /\ client'.pc # "start" /\ client'.pc # "finish" /\ Running'
  BY DEF V2SameAttempt, FilePlaces, ChunkPlaces, V2Settled, Running, Ended
<1>2. /\ V2Question' /\ Current' \subseteq {V2Query'} /\ Pulled' = {}
      /\ \A x : Answer(x)' = {}
  <2>1. CASE client'.pc \in FilePlaces \ {"page", "receive"} /\ net' = N \cup {V2Query'}
    BY <1>1, <2>1, V2Asked DEF FilePlaces, ChunkPlaces
  <2>2. CASE client'.pc = "page" /\ net' = N
    BY <1>1, <2>2, V2Silence
  <2> QED
    BY <2>1, <2>2
<1>3. V2Place'
  BY <1>1, <1>2, V2PlaceInFile
<1>4. V2InStep'
  BY <1>1, <1>2, V2StaysInStep DEF Unserver
<1>5. V2Uncached'
  <2>1. Owns(client.conn)' => Owns(client.conn)
    BY <1>1 DEF Owns, Active, Unserver
  <2> QED
    BY <1>1, <1>2, <1>3, <2>1, V2UncachedOn
<1>6. Accounted'
  <2>1. Scanned' = Scanned
    BY <1>1, V2PlanStays DEF Scanned, V2SameAttempt, FilePlaces, ChunkPlaces
  <2> QED
    BY <2>1, V2FileAccounted
<1>7. client.remote \in Trees /\ Faithful(client.remote) /\ local \in Trees /\ Faithful(local)
  BY DEF CommandInv, V2Typed, V2ClientRecord
<1>8. net' \subseteq net \cup {V2Query'}
  OBVIOUS
<1> QED
  BY <1>1, <1>2, <1>3, <1>4, <1>5, <1>6, <1>7, <1>8, V2StepsOn DEF Faithful

(***************************************************************************)
(* The steps of the client in a file.                                      *)
(***************************************************************************)
\* What a client in a file knows of it, once it is described.
LEMMA V2FileFacts ==
    ASSUME CommandInv, Running, client.pc \in FilePlaces
    PROVE  /\ client \in V2ClientRecord /\ part \in PartRecord
           /\ client.file \in PlannedFiles \ client.done
           /\ client.file \in Paths /\ Source[client.file].ver \in Versions
           /\ Size[Source[client.file].ver] \in Nat
           /\ client.pc # "describe" \/ client.push => part.hash = Source[client.file].ver
           /\ client.pc = "describe" => part.missing = {}
           /\ client.pc # "describe" /\ ~client.push => part.missing \subseteq Chunks(part.hash)
<1>1. V2Typed /\ client \in V2ClientRecord /\ part \in PartRecord
  BY DEF CommandInv, V2Typed
<1>2. client.file \in PlannedFiles \ client.done
  BY DEF CommandInv, V2Place
<1>3. client.file \in Paths /\ Source[client.file].ver \in Versions
  BY <1>1, <1>2, V2PlannedVersion
<1> QED
  BY <1>1, <1>2, <1>3, VersionsAssumption DEF CommandInv, V2Place

\* The next file is described, or its description is asked for.
LEMMA AskDescriptionInv ==
    ASSUME CommandInv, AskDescription
    PROVE  CommandInv'
<1>1. PICK f \in Paths :
         /\ IsNext(f) /\ (client.push => Snapshot(f))
         /\ client' = [client EXCEPT !.pc = "describe", !.file = f,
                                     !.data = IF client.push THEN local[f].data ELSE 0]
         /\ net' = net \cup
               {IF client.push
                  THEN Msg("request", client.conn, "description", f, Blank, local[f].data)
                  ELSE Ask(client.conn, "describe", f)}
         /\ part' = [NoPart EXCEPT !.hash = client'.data]
  BY DEF AskDescription
<1>2. /\ client.pc = "next" /\ Running
      /\ UNCHANGED <<local, edits, cached, losses, tree, rooted, session, up, transfer>>
  BY DEF AskDescription, Unmoved, Running, Ended
<1>3. f \in PlannedFiles \ client.done /\ V2Typed
  BY <1>1 DEF IsNext, CommandInv
<1>4. Source[f].ver \in Versions /\ Source[f].data = Source[f].ver
  BY <1>3, V2PlannedVersion
<1>5. client.push => local[f].data = Source[f].ver
  BY <1>1, <1>2, <1>3, <1>4 DEF CommandInv, Accounted, Snapshot, Source
<1> DEFINE d == IF client.push THEN local[f].data ELSE 0
<1>6. d \in Versions \cup {0} /\ d = IF client.push THEN Source[f].ver ELSE 0
  BY <1>4, <1>5
<1>7. V2Moved("describe", client.remote, f, client.done) /\ client'.data = d
  <2>1. client' = [client EXCEPT !.pc = "describe", !.file = f, !.data = d]
    BY <1>1
  <2> HIDE DEF d
  <2> QED BY <1>3, <1>6, <2>1, V2MovesToFile DEF V2Typed
<1>8. /\ V2SameAttempt(client', client) /\ client'.conn = client.conn /\ client'.push = client.push
      /\ client'.pc = "describe" /\ client'.file = f
  BY <1>7 DEF V2Moved, V2SameAttempt
<1>9. /\ part'.hash = d /\ part'.missing = {} /\ part' \in PartRecord
  BY <1>1, <1>6, <1>7 DEF NoPart, PartRecord, Content
<1>10. net' = net \cup {V2Query'}
  BY <1>1, <1>8, <1>9 DEF V2Query, QueryOf
<1>11. \A n \in net : n.conn # client.conn
  BY <1>2 DEF CommandInv, V2Question, Current
<1>12. Owns(client.conn) => V2Before'
  <2> SUFFICES ASSUME Owns(client.conn) PROVE V2Before'
    OBVIOUS
  <2>1. V2Before
    BY <1>2 DEF CommandInv, V2InStep
  <2> QED
    BY <1>2, <1>7, <1>8, <2>1 DEF V2Before, V2Moved, FilePlaces, ChunkPlaces
<1>13. Uncached(Unfetched)'
  BY <1>8, <1>9 DEF Uncached, Unfetched
<1> QED
  BY <1>2, <1>3, <1>6, <1>7, <1>8, <1>9, <1>10, <1>11, <1>12, <1>13, V2InFile
  DEF V2Moved, Unserver, FilePlaces, ChunkPlaces

\* A session that answered a question in a file is before the next one.
LEMMA V2BeforeNext ==
    ASSUME V2After, UNCHANGED <<session, transfer>>, V2SameAttempt(client', client),
           client'.remote = client.remote, client'.file = client.file, client'.done = client.done,
           \/ client.pc \in {"describe", "hashes", "commit", "verified"} /\ client'.pc = "page"
           \/ client.pc = "begin" /\ client'.pc = "send" /\ part'.chunk = part.chunk
           \/ client.pc = "send" /\ client'.pc = "commit" /\ part'.chunk = part.chunk
           \/ client.pc = "receive" /\ client'.pc = "verified" /\ part'.chunk = part.chunk
    PROVE  V2Before'
<1>1. Source' = Source
  BY V2PlanStays
<1> QED
  BY <1>1 DEF V2Before, V2After, ServesChunk, FilePlaces, ChunkPlaces

\* The same session is before the question it is asked from the page.
LEMMA V2BeforeQuestion ==
    ASSUME CommandInv, Running, Owns(client.conn), client.pc = "page",
           UNCHANGED <<session, transfer>>,
           V2SameAttempt(client', client), client'.remote = client.remote,
           client'.file = client.file, client'.done = client.done,
           client'.pc \in {"hashes", "begin", "get", "file"}
    PROVE  V2Before'
<1>1. Source' = Source
  BY V2PlanStays
<1>2. V2Before
  BY DEF CommandInv, V2InStep
<1> QED
  BY <1>1, <1>2 DEF V2Before, ServesChunk, FilePlaces, ChunkPlaces

\* The description was taken, or has arrived.
LEMMA ReadDescribedInv ==
    ASSUME CommandInv, ReadDescribed
    PROVE  CommandInv'
<1>1. PICK m \in Answer(IF client.push THEN "ok" ELSE "description") :
         /\ net' = net \ {m}
         /\ IF client.push THEN UNCHANGED part
            ELSE part' = [part EXCEPT !.hash = m.data]
  BY DEF ReadDescribed
<1>2. /\ client.pc = "describe" /\ Running /\ client' = [client EXCEPT !.pc = "page"]
      /\ UNCHANGED <<local, edits, cached, losses, tree, rooted, session, up, transfer>>
  BY DEF ReadDescribed, Unmoved, Running, Ended
<1>3. /\ client \in V2ClientRecord /\ part \in PartRecord
      /\ client.file \in PlannedFiles \ client.done /\ Source[client.file].ver \in Versions
      /\ client.push => part.hash = Source[client.file].ver
      /\ part.missing = {}
  BY <1>2, V2FileFacts DEF FilePlaces
<1>4. V2Moved("page", client.remote, client.file, client.done)
  BY <1>2, <1>3, V2MovesOn DEF V2Places, FilePlaces
<1>5. /\ V2SameAttempt(client', client) /\ client'.pc = "page" /\ client'.remote = client.remote
      /\ client'.file = client.file /\ client'.done = client.done
  BY <1>4 DEF V2Moved
<1>6. part' \in PartRecord /\ part'.hash = Source[client.file].ver /\ part'.missing = {}
  <2>1. ~client.push => m.data = Source[client.file].ver
    BY <1>1, <1>2 DEF CommandInv, V2Place
  <2> QED
    BY <1>1, <1>3, <2>1 DEF PartRecord, Content
<1>7. \A n \in net' : n.conn # client.conn
  BY <1>1, <1>2, V2OthersElsewhere
<1>8. Owns(client.conn) => V2Before'
  <2> SUFFICES ASSUME Owns(client.conn) PROVE V2Before'
    OBVIOUS
  <2>1. V2After
    BY <1>1, <1>2, V2AnsweredSession DEF V2Good
  <2> QED
    BY <1>2, <1>5, <2>1, V2BeforeNext
<1>9. Uncached(Unfetched)'
  BY <1>6 DEF Uncached, Unfetched
<1>10. net' \in SUBSET net
  BY <1>1
<1> QED
  BY <1>2, <1>3, <1>5, <1>6, <1>7, <1>8, <1>9, <1>10, V2InFile
  DEF Unserver, FilePlaces, ChunkPlaces

\* A page is asked for, or announced.
LEMMA AskPageInv ==
    ASSUME CommandInv, AskPage
    PROVE  CommandInv'
<1>1. /\ client.pc = "page" /\ Running /\ client' = [client EXCEPT !.pc = "hashes"]
      /\ part' = part /\ part.missing = {}
      /\ net' = net \cup {AskPart(IF client.push THEN "hashes" ELSE "hashesGet", {part.next})}
      /\ UNCHANGED <<local, edits, cached, losses, tree, rooted, session, up, transfer>>
  BY DEF AskPage, AtPage, Unmoved, Running, Ended
<1>2. /\ client \in V2ClientRecord /\ part \in PartRecord
      /\ client.file \in PlannedFiles \ client.done
      /\ part.hash = Source[client.file].ver
  BY <1>1, V2FileFacts DEF FilePlaces
<1>3. V2Moved("hashes", client.remote, client.file, client.done)
  BY <1>1, <1>2, V2MovesOn DEF V2Places, FilePlaces
<1>4. /\ V2SameAttempt(client', client) /\ client'.pc = "hashes" /\ client'.remote = client.remote
      /\ client'.file = client.file /\ client'.done = client.done
      /\ client'.conn = client.conn /\ client'.push = client.push
  BY <1>3 DEF V2Moved, V2SameAttempt
<1>5. net' = net \cup {V2Query'}
  BY <1>1, <1>4 DEF V2Query, QueryOf, AskPart
<1>6. \A n \in net : n.conn # client.conn
  BY <1>1 DEF CommandInv, V2Question, Current
<1>7. Owns(client.conn) => V2Before'
  BY <1>1, <1>4, V2BeforeQuestion
<1>8. Uncached(Unfetched)'
  BY <1>1 DEF Uncached, Unfetched
<1> QED
  BY <1>1, <1>2, <1>4, <1>5, <1>6, <1>7, <1>8, V2InFile
  DEF Unserver, FilePlaces, ChunkPlaces

\* The next page ends within the file.
LEMMA PageWithinFile ==
    ASSUME NEW p \in PartRecord, p.hash \in Versions
    PROVE  /\ NextPage(p) \in Nat
           /\ p.next + 1 .. NextPage(p) \subseteq Chunks(p.hash) /\ Chunks(p.hash) \subseteq Nat
<1>1. p.next \in Nat /\ Size[p.hash] \in Nat /\ PageChunks \in Nat
  BY VersionsAssumption, PageAssumption DEF PartRecord
<1> QED
  BY <1>1 DEF NextPage, Chunks

\* The page was compared: what is missing of it is known.
LEMMA ReadPageInv ==
    ASSUME CommandInv, ReadPage
    PROVE  CommandInv'
<1>1. PICK m \in Answer(IF client.push THEN "missing" ELSE "hashes") :
         /\ net' = net \ {m}
         /\ part' = [part EXCEPT
               !.next = NextPage(part),
               !.missing = IF client.push THEN m.chunks
                           ELSE MissingOf(client.file, part.next + 1 .. NextPage(part))]
  BY DEF ReadPage
<1>2. /\ client.pc = "hashes" /\ Running /\ client' = [client EXCEPT !.pc = "page"]
      /\ UNCHANGED <<local, edits, cached, losses, tree, rooted, session, up, transfer>>
  BY DEF ReadPage, Unmoved, Running, Ended
<1>3. /\ client \in V2ClientRecord /\ part \in PartRecord
      /\ client.file \in PlannedFiles \ client.done
      /\ part.hash = Source[client.file].ver /\ part.hash \in Versions
  BY <1>2, V2FileFacts DEF FilePlaces
<1>4. V2Moved("page", client.remote, client.file, client.done)
  BY <1>2, <1>3, V2MovesOn DEF V2Places, FilePlaces
<1>5. /\ V2SameAttempt(client', client) /\ client'.pc = "page" /\ client'.remote = client.remote
      /\ client'.file = client.file /\ client'.done = client.done
  BY <1>4 DEF V2Moved
<1> DEFINE S == IF client.push THEN m.chunks
                ELSE MissingOf(client.file, part.next + 1 .. NextPage(part))
<1>6. /\ NextPage(part) \in Nat /\ S \in SUBSET Nat
      /\ ~client.push => S \subseteq Chunks(part.hash)
  <2>1. client.push => m.chunks \subseteq Nat
    BY <1>1 DEF CommandInv, V2Typed, V2Carries, Answer
  <2> QED
    BY <1>3, <2>1, PageWithinFile DEF MissingOf
<1>7. part' \in PartRecord /\ part'.hash = part.hash /\ part'.missing = S
  <2>1. part' = [part EXCEPT !.next = NextPage(part), !.missing = S]
    BY <1>1
  <2> HIDE DEF S
  <2> QED BY <1>3, <1>6, <2>1 DEF PartRecord
<1>8. \A n \in net' : n.conn # client.conn
  BY <1>1, <1>2, V2OthersElsewhere
<1>9. Owns(client.conn) => V2Before'
  <2> SUFFICES ASSUME Owns(client.conn) PROVE V2Before'
    OBVIOUS
  <2>1. V2After
    BY <1>1, <1>2, V2AnsweredSession DEF V2Good
  <2> QED
    BY <1>2, <1>5, <2>1, V2BeforeNext
<1>10. Uncached(Unfetched)'
  <2>1. Unfetched' = S
    BY <1>5, <1>7 DEF Unfetched
  <2>2. \A j \in S : Chunk(client.file, part.hash, j) \notin cached
    <3>1. CASE client.push
      BY <1>1, <1>2, <3>1 DEF CommandInv, V2Uncached, Uncached
    <3>2. CASE ~client.push
      BY <1>6, <3>2 DEF MissingOf, CachedChunks
    <3> QED
      BY <3>1, <3>2
  <2> QED
    BY <1>2, <1>5, <1>7, <2>1, <2>2 DEF Uncached, Chunk
<1>11. net' \in SUBSET net
  BY <1>1
<1> QED
  BY <1>2, <1>3, <1>5, <1>6, <1>7, <1>8, <1>9, <1>10, <1>11, V2InFile
  DEF Unserver, FilePlaces, ChunkPlaces

\* The next missing chunk is announced, or asked for.
LEMMA AskChunkInv ==
    ASSUME CommandInv, AskChunk
    PROVE  CommandInv'
<1>1. PICK j \in part.missing :
         /\ part' = [part EXCEPT !.chunk = j]
         /\ net' = net \cup {AskPart(IF client.push THEN "chunkBegin" ELSE "chunkGet", {j})}
  BY DEF AskChunk
<1> DEFINE x == IF client.push THEN "begin" ELSE "get"
<1>2. /\ client.pc = "page" /\ Running /\ client' = [client EXCEPT !.pc = x]
      /\ UNCHANGED <<local, edits, cached, losses, tree, rooted, session, up, transfer>>
  BY DEF AskChunk, Unmoved, Running, Ended
<1>3. /\ client \in V2ClientRecord /\ part \in PartRecord
      /\ client.file \in PlannedFiles \ client.done
      /\ part.hash = Source[client.file].ver
      /\ ~client.push => part.missing \subseteq Chunks(part.hash)
  BY <1>2, V2FileFacts DEF FilePlaces
<1>4. V2Moved(x, client.remote, client.file, client.done)
  BY <1>2, <1>3, V2MovesOn DEF V2Places, FilePlaces, ChunkPlaces
<1>5. /\ V2SameAttempt(client', client) /\ client'.pc = x /\ client'.remote = client.remote
      /\ client'.file = client.file /\ client'.done = client.done
      /\ client'.conn = client.conn /\ client'.push = client.push
  BY <1>4 DEF V2Moved, V2SameAttempt
<1>6. /\ part' \in PartRecord /\ part'.hash = part.hash /\ part'.missing = part.missing
      /\ part'.chunk = j
  BY <1>1, <1>3 DEF PartRecord
<1>7. net' = net \cup {V2Query'}
  BY <1>1, <1>5, <1>6 DEF V2Query, QueryOf, AskPart
<1>8. \A n \in net : n.conn # client.conn
  BY <1>2 DEF CommandInv, V2Question, Current
<1>9. Owns(client.conn) => V2Before'
  BY <1>2, <1>5, V2BeforeQuestion
<1>10. Uncached(Unfetched)'
  <2>1. Unfetched' = part.missing /\ Unfetched = part.missing
    BY <1>2, <1>5, <1>6 DEF Unfetched
  <2> QED
    BY <1>2, <1>5, <1>6, <2>1 DEF CommandInv, V2Uncached, Uncached, Chunk
<1>11. /\ client'.pc \in FilePlaces \ {"page", "receive", "describe"}
       /\ client'.pc \notin {"send", "commit", "verified"}
       /\ client'.pc = "begin" => client.push
       /\ client'.pc = "get" => ~client.push
  BY <1>5 DEF FilePlaces, ChunkPlaces
<1> HIDE DEF x
<1> QED
  BY <1>1, <1>2, <1>3, <1>5, <1>6, <1>7, <1>8, <1>9, <1>10, <1>11, V2InFile
  DEF Unserver, FilePlaces

\* CHUNK-BEGIN was acknowledged: the chunk is sent.
LEMMA SendChunkInv ==
    ASSUME CommandInv, SendChunk
    PROVE  CommandInv'
<1>1. PICK m \in Answer("ok") :
         net' = (net \ {m}) \cup {Name(Msg("resource", client.conn, "push", client.file,
                                           Blank, part.hash), {part.chunk})}
  BY DEF SendChunk
<1>2. /\ client.pc = "begin" /\ Running /\ client' = [client EXCEPT !.pc = "send"]
      /\ UNCHANGED <<local, edits, cached, losses, tree, rooted, session, up, transfer, part>>
  BY DEF SendChunk, Unmoved, Running, Ended
<1>3. /\ client \in V2ClientRecord /\ part \in PartRecord
      /\ client.file \in PlannedFiles \ client.done
      /\ part.hash = Source[client.file].ver
      /\ client.push /\ part.chunk \in part.missing
  BY <1>2, V2FileFacts DEF FilePlaces, ChunkPlaces, CommandInv, V2Place
<1>4. V2Moved("send", client.remote, client.file, client.done)
  BY <1>2, <1>3, V2MovesOn DEF V2Places, FilePlaces, ChunkPlaces
<1>5. /\ V2SameAttempt(client', client) /\ client'.pc = "send" /\ client'.remote = client.remote
      /\ client'.file = client.file /\ client'.done = client.done
      /\ client'.conn = client.conn /\ client'.push = client.push
  BY <1>4 DEF V2Moved, V2SameAttempt
<1> DEFINE N == net \ {m}
<1>6. net' = N \cup {V2Query'}
  BY <1>1, <1>2, <1>5 DEF V2Query, QueryOf
<1>7. \A n \in N : n.conn # client.conn
  BY <1>2, V2OthersElsewhere
<1>8. Owns(client.conn) => V2Before'
  <2> SUFFICES ASSUME Owns(client.conn) PROVE V2Before'
    OBVIOUS
  <2>1. V2After
    BY <1>1, <1>2, V2AnsweredSession DEF V2Good
  <2> QED
    BY <1>2, <1>5, <2>1, V2BeforeNext
<1>9. Uncached(Unfetched)'
  BY <1>2, <1>5 DEF CommandInv, V2Uncached, Uncached, Unfetched, Chunk
<1> QED
  BY <1>2, <1>3, <1>5, <1>6, <1>7, <1>8, <1>9, V2InFile
  DEF Unserver, FilePlaces, ChunkPlaces

\* The chunk was received: its CHUNK-COMMIT is asked.
LEMMA AskChunkCommitInv ==
    ASSUME CommandInv, AskChunkCommit
    PROVE  CommandInv'
<1>1. PICK m \in Answer("proof") :
         net' = (net \ {m}) \cup {AskPart("chunkCommit", {part.chunk})}
  BY DEF AskChunkCommit
<1>2. /\ client.pc = "send" /\ Running /\ client' = [client EXCEPT !.pc = "commit"]
      /\ UNCHANGED <<local, edits, cached, losses, tree, rooted, session, up, transfer, part>>
  BY DEF AskChunkCommit, Unmoved, Running, Ended
<1>3. /\ client \in V2ClientRecord /\ part \in PartRecord
      /\ client.file \in PlannedFiles \ client.done
      /\ part.hash = Source[client.file].ver
      /\ client.push /\ part.chunk \in part.missing
  BY <1>2, V2FileFacts DEF FilePlaces, ChunkPlaces, CommandInv, V2Place
<1>4. V2Moved("commit", client.remote, client.file, client.done)
  BY <1>2, <1>3, V2MovesOn DEF V2Places, FilePlaces, ChunkPlaces
<1>5. /\ V2SameAttempt(client', client) /\ client'.pc = "commit" /\ client'.remote = client.remote
      /\ client'.file = client.file /\ client'.done = client.done
      /\ client'.conn = client.conn /\ client'.push = client.push
  BY <1>4 DEF V2Moved, V2SameAttempt
<1> DEFINE N == net \ {m}
<1>6. net' = N \cup {V2Query'}
  BY <1>1, <1>2, <1>5 DEF V2Query, QueryOf, AskPart
<1>7. \A n \in N : n.conn # client.conn
  BY <1>2, V2OthersElsewhere
<1>8. Owns(client.conn) => V2Before'
  <2> SUFFICES ASSUME Owns(client.conn) PROVE V2Before'
    OBVIOUS
  <2>1. V2After
    BY <1>1, <1>2, V2AnsweredSession DEF V2Good
  <2> QED
    BY <1>2, <1>5, <2>1, V2BeforeNext
<1>9. Uncached(Unfetched)'
  BY <1>2, <1>5 DEF CommandInv, V2Uncached, Uncached, Unfetched, Chunk
<1> QED
  BY <1>2, <1>3, <1>5, <1>6, <1>7, <1>8, <1>9, V2InFile
  DEF Unserver, FilePlaces, ChunkPlaces

\* The chunk is stored at the receiver, and acknowledged: the client returns
\* to the page.
LEMMA ReadChunkDoneInv ==
    ASSUME CommandInv, ReadChunkCommitted \/ ReadChunkVerified
    PROVE  CommandInv'
<1>1. PICK m \in Answer("ok") : net' = net \ {m}
  BY DEF ReadChunkCommitted, ReadChunkVerified
<1>2. /\ client.pc \in {"commit", "verified"} /\ Running
      /\ client' = [client EXCEPT !.pc = "page"]
      /\ part' = [part EXCEPT !.missing = @ \ {part.chunk}, !.chunk = 0]
      /\ UNCHANGED <<local, edits, cached, losses, tree, rooted, session, up, transfer>>
  BY DEF ReadChunkCommitted, ReadChunkVerified, ChunkDone, Unmoved, Running, Ended
<1>3. /\ client \in V2ClientRecord /\ part \in PartRecord
      /\ client.file \in PlannedFiles \ client.done
      /\ part.hash = Source[client.file].ver
      /\ ~client.push => part.missing \subseteq Chunks(part.hash)
  BY <1>2, V2FileFacts DEF FilePlaces, ChunkPlaces
<1>4. V2Moved("page", client.remote, client.file, client.done)
  BY <1>2, <1>3, V2MovesOn DEF V2Places, FilePlaces
<1>5. /\ V2SameAttempt(client', client) /\ client'.pc = "page" /\ client'.remote = client.remote
      /\ client'.file = client.file /\ client'.done = client.done
  BY <1>4 DEF V2Moved
<1>6. /\ part' \in PartRecord /\ part'.hash = part.hash
      /\ part'.missing = part.missing \ {part.chunk}
  BY <1>2, <1>3 DEF PartRecord
<1>7. \A n \in net' : n.conn # client.conn
  BY <1>1, <1>2, V2OthersElsewhere
<1>8. Owns(client.conn) => V2Before'
  <2> SUFFICES ASSUME Owns(client.conn) PROVE V2Before'
    OBVIOUS
  <2>1. V2After
    BY <1>1, <1>2, V2AnsweredSession DEF V2Good
  <2> QED
    BY <1>2, <1>5, <2>1, V2BeforeNext
<1>9. Uncached(Unfetched)'
  <2>1. Unfetched' = Unfetched
    BY <1>2, <1>5, <1>6 DEF Unfetched
  <2> QED
    BY <1>2, <1>5, <1>6, <2>1 DEF CommandInv, V2Uncached, Uncached, Chunk
<1>10. net' \in SUBSET net
  BY <1>1
<1> QED
  BY <1>2, <1>3, <1>5, <1>6, <1>7, <1>8, <1>9, <1>10, V2InFile
  DEF Unserver, FilePlaces, ChunkPlaces

\* CHUNK-GET was answered: the chunk is on its way, or has arrived.
LEMMA ReadChunkGetInv ==
    ASSUME CommandInv, ReadChunkGet
    PROVE  CommandInv'
<1>1. PICK m \in Answer("file") : net' = net \ {m}
  BY DEF ReadChunkGet
<1>2. /\ client.pc = "get" /\ Running /\ client' = [client EXCEPT !.pc = "receive"]
      /\ UNCHANGED <<local, edits, cached, losses, tree, rooted, session, up, transfer, part>>
  BY DEF ReadChunkGet, Unmoved, Running, Ended
<1>3. /\ client \in V2ClientRecord /\ part \in PartRecord
      /\ client.file \in PlannedFiles \ client.done
      /\ part.hash = Source[client.file].ver
      /\ ~client.push /\ part.chunk \in part.missing
      /\ part.missing \subseteq Chunks(part.hash)
  BY <1>2, V2FileFacts DEF FilePlaces, ChunkPlaces, CommandInv, V2Place
<1>4. V2Moved("receive", client.remote, client.file, client.done)
  BY <1>2, <1>3, V2MovesOn DEF V2Places, FilePlaces, ChunkPlaces
<1>5. /\ V2SameAttempt(client', client) /\ client'.pc = "receive"
      /\ client'.remote = client.remote /\ client'.file = client.file
      /\ client'.done = client.done /\ client'.conn = client.conn /\ client'.push = client.push
  BY <1>4 DEF V2Moved, V2SameAttempt
<1>6. Current' = Current \ {m} /\ Pulled' = Pulled /\ Current' \subseteq Pulled
  <2>1. Current' = Current \ {m}
    BY <1>1, <1>5 DEF Current
  <2>2. m.kind = "reply" /\ Current \ {m} \subseteq Pulled
    BY <1>1, <1>2, V2AnswerIsAlone
  <2> QED
    BY <2>1, <2>2 DEF Pulled
<1>7. V2Query' \notin net' /\ \A x : Answer(x)' = {}
  <2>1. V2Query'.kind = "request" /\ V2Query'.conn = client'.conn
    BY <1>5, V2QuerySays DEF Says
  <2>2. \A n \in Current' : n.kind = "resource"
    BY <1>6 DEF Pulled
  <2> QED
    BY <2>1, <2>2 DEF Current, Answer
<1>8. V2Question'
  <2>1. \A n, o \in Current' : n.kind = "resource" /\ n \in Pulled' /\ (n.kind = o.kind => n = o)
    BY <1>2, <1>6 DEF Pulled, CommandInv, V2Question
  <2> QED
    BY <1>5, <1>7, <2>1 DEF V2Question
<1>9. V2Place'
  <2>1. \A n \in Pulled' : n.chunks = {part'.chunk} /\ n.data = part'.hash
                           /\ n.file = client'.file
    BY <1>2, <1>5, <1>6 DEF CommandInv, V2Place
  <2> QED
    BY <1>2, <1>3, <1>5, <1>7, <2>1, V2PlaceInFile DEF FilePlaces, ChunkPlaces
<1>10. V2InStep'
  <2>1. ASSUME Owns(client.conn) PROVE V2After'
    <3>1. V2After
      BY <1>1, <1>2, <2>1, V2AnsweredSession DEF V2Good
    <3>2. Source' = Source
      BY <1>5, V2PlanStays
    <3> QED
      BY <1>2, <1>5, <3>1, <3>2 DEF V2After, ServesChunk
  <2>2. Running'
    BY <1>5 DEF Running, Ended
  <2> QED
    BY <1>2, <1>5, <1>7, <2>1, <2>2, V2StaysInStep
<1>11. V2Uncached'
  <2>1. OnlyMissingSent'
    BY <1>1, <1>2, <1>5 DEF CommandInv, V2Uncached, OnlyMissingSent, CachedChunks, Chunk
  <2>2. Uncached(Unfetched)'
    BY <1>2, <1>5 DEF CommandInv, V2Uncached, Uncached, Unfetched, Chunk
  <2>3. \A n \in Current' : n.kind # "request"
    BY <1>6 DEF Pulled
  <2> QED
    BY <1>5, <2>1, <2>2, <2>3 DEF V2Uncached
<1>12. Accounted'
  <2>1. Scanned' = Scanned
    BY <1>2, <1>5, V2PlanStays DEF Scanned, V2SameAttempt
  <2> QED
    BY <1>2, <1>5, <2>1, V2FileAccounted
<1>13. /\ V2Settled /\ Running' /\ client'.pc # "start" /\ client'.pc # "finish"
       /\ client.remote \in Trees /\ Faithful(client.remote) /\ local \in Trees /\ Faithful(local)
  BY <1>2, <1>5 DEF V2Settled, Running, Ended, CommandInv, V2Typed, V2ClientRecord
<1> QED
  BY <1>1, <1>2, <1>3, <1>5, <1>8, <1>9, <1>10, <1>11, <1>12, <1>13, V2StepsOn
  DEF Unserver, Faithful

\* The chunk has arrived: it is stored, and acknowledged.
LEMMA ReceivePulledChunkInv ==
    ASSUME CommandInv, ReceivePulledChunk
    PROVE  CommandInv'
<1>1. PICK m \in net :
         /\ m.kind = "resource" /\ m.conn = client.conn /\ m.op = "pull"
         /\ net' = (net \ {m}) \cup {AskPart("chunkVerified", {part.chunk})}
  BY DEF ReceivePulledChunk
<1>2. /\ client.pc = "receive" /\ Running /\ client' = [client EXCEPT !.pc = "verified"]
      /\ cached' = cached \cup {Chunk(client.file, part.hash, part.chunk)}
      /\ UNCHANGED <<local, edits, losses, tree, rooted, session, up, transfer, part>>
  BY DEF ReceivePulledChunk, Running, Ended
<1>3. /\ client \in V2ClientRecord /\ part \in PartRecord
      /\ client.file \in PlannedFiles \ client.done
      /\ part.hash = Source[client.file].ver
      /\ ~client.push /\ part.chunk \in part.missing
      /\ part.missing \subseteq Chunks(part.hash)
      /\ client.file \in Paths /\ part.hash \in Versions
  BY <1>2, V2FileFacts DEF FilePlaces, ChunkPlaces, CommandInv, V2Place
<1>4. V2Moved("verified", client.remote, client.file, client.done)
  BY <1>2, <1>3, V2MovesOn DEF V2Places, FilePlaces, ChunkPlaces
<1>5. /\ V2SameAttempt(client', client) /\ client'.pc = "verified"
      /\ client'.remote = client.remote /\ client'.file = client.file
      /\ client'.done = client.done /\ client'.conn = client.conn /\ client'.push = client.push
  BY <1>4 DEF V2Moved, V2SameAttempt
<1> DEFINE N == net \ {m}
<1>6. net' = N \cup {V2Query'}
  BY <1>1, <1>2, <1>5 DEF V2Query, QueryOf, AskPart
<1>7. m \in Pulled /\ \A n \in N : n.conn # client.conn
  BY <1>1, <1>2 DEF CommandInv, V2Question, Current, Pulled
<1>8. Owns(client.conn) => V2Before'
  <2> SUFFICES ASSUME Owns(client.conn) PROVE V2Before'
    OBVIOUS
  <2>1. V2After
    BY <1>2, <1>7, V2AnsweredSession
  <2> QED
    BY <1>2, <1>5, <2>1, V2BeforeNext
<1>9. CachedTyped'
  <2>1. CachedTyped
    BY DEF CommandInv, V2Typed
  <2> QED
    BY <1>2, <1>3, <2>1 DEF CachedTyped, Chunk, Chunks
<1>10. Uncached(Unfetched)'
  <2>1. Unfetched' = part.missing \ {part.chunk} /\ Unfetched = part.missing
    BY <1>2, <1>5 DEF Unfetched
  <2>2. \A j \in part.missing \ {part.chunk} :
           Chunk(client.file, part.hash, j) # Chunk(client.file, part.hash, part.chunk)
    BY DEF Chunk
  <2>3. \A j \in part.missing : Chunk(client.file, part.hash, j) \notin cached
    BY <1>2, <2>1 DEF CommandInv, V2Uncached, Uncached
  <2> QED
    BY <1>2, <1>5, <2>1, <2>2, <2>3 DEF Uncached, Chunk
<1> QED
  BY <1>2, <1>3, <1>5, <1>6, <1>7, <1>8, <1>9, <1>10, V2InFile
  DEF Unserver, FilePlaces, ChunkPlaces

\* The last page is through: the file is to be put in place.
LEMMA AskFileDoneInv ==
    ASSUME CommandInv, AskFileDone
    PROVE  CommandInv'
<1>2. /\ client.pc = "page" /\ part.missing = {} /\ Running
      /\ client' = [client EXCEPT !.pc = "file"]
      /\ net' = net \cup {AskPart(IF client.push THEN "fileCommit" ELSE "fileVerified", {})}
      /\ UNCHANGED <<local, edits, cached, losses, tree, rooted, session, up, transfer, part>>
  BY DEF AskFileDone, AtPage, Unmoved, Running, Ended
<1>3. /\ client \in V2ClientRecord /\ part \in PartRecord
      /\ client.file \in PlannedFiles \ client.done
      /\ part.hash = Source[client.file].ver
      /\ ~client.push => part.missing \subseteq Chunks(part.hash)
  BY <1>2, V2FileFacts DEF FilePlaces
<1>4. V2Moved("file", client.remote, client.file, client.done)
  BY <1>2, <1>3, V2MovesOn DEF V2Places, FilePlaces, ChunkPlaces
<1>5. /\ V2SameAttempt(client', client) /\ client'.pc = "file" /\ client'.remote = client.remote
      /\ client'.file = client.file /\ client'.done = client.done
      /\ client'.conn = client.conn /\ client'.push = client.push
  BY <1>4 DEF V2Moved, V2SameAttempt
<1>7. net' = net \cup {V2Query'}
  BY <1>2, <1>5 DEF V2Query, QueryOf, AskPart
<1>8. \A n \in net : n.conn # client.conn
  BY <1>2 DEF CommandInv, V2Question, Current
<1>9. Owns(client.conn) => V2Before'
  BY <1>2, <1>5, V2BeforeQuestion
<1>10. Uncached(Unfetched)'
  BY <1>2, <1>5 DEF Unfetched, Uncached
<1> QED
  BY <1>2, <1>3, <1>5, <1>7, <1>8, <1>9, <1>10, V2InFile
  DEF Unserver, FilePlaces, ChunkPlaces

\* A file is done on both sides: the client turns to the next one, and only a
\* pull has cleared anything of its cache.
LEMMA V2PastFile ==
    ASSUME CommandInv, client.pc = "file", Unserver, UNCHANGED <<edits, losses, transfer>>,
           client' = FileDone(client), part' = NoPart,
           NEW m \in Answer("ok"), net' = net \ {m},
           cached' = cached \/ (~client.push /\ CachedTyped'),
           local' \in Trees, Faithful(local'), Accounted'
    PROVE  CommandInv'
<1>0. Running /\ client.pc \in FilePlaces /\ client.pc # "start"
  BY DEF Running, Ended, FilePlaces
<1>1. client.file \in PlannedFiles \ client.done /\ client.file \in Paths
      /\ client \in V2ClientRecord
  BY <1>0, V2FileFacts
<1>2. V2Moved("next", client.remote, client.file, client.done \cup {client.file})
  BY <1>1, V2MovesPastFile
<1>3. /\ V2SameAttempt(client', client) /\ client'.pc = "next" /\ client'.remote = client.remote
      /\ client'.done = client.done \cup {client.file} /\ client'.conn = client.conn
      /\ client'.options = client.options /\ client'.push = client.push
      /\ client' \in V2ClientRecord
  BY <1>2 DEF V2Moved, V2SameAttempt
<1>4. \A n \in net' : n.conn # client.conn
  BY <1>0, V2OthersElsewhere
<1>5. /\ V2Question' /\ Current' = {} /\ V2Query' \notin net' /\ Pulled' = {}
      /\ \A x : Answer(x)' = {}
  BY <1>3, <1>4, V2Silence
<1>6. Running' /\ V2Settled /\ client'.conn # 0 /\ client'.pc \notin FilePlaces
  BY <1>0, <1>3 DEF Running, Ended, V2Settled, CommandInv, V2Place, FilePlaces, ChunkPlaces
<1>7. V2Place'
  <2>1. PlannedFiles' = PlannedFiles
    BY <1>3, V2PlanStays
  <2>2. client.done \subseteq PlannedFiles /\ ~client.options.dryRun
    BY <1>0 DEF CommandInv, V2Place
  <2>3. client'.pc \notin ChunkPlaces /\ NoPart' = NoPart
    BY <1>3 DEF ChunkPlaces, NoPart
  <2> QED
    BY <1>1, <1>3, <1>5, <1>6, <2>1, <2>2, <2>3 DEF V2Place
<1>8. V2InStep'
  <2>1. UNCHANGED session
    BY DEF Unserver
  <2>2. Owns(client.conn) => V2Before'
    <3>1. Owns(client.conn) => V2After
      BY <1>0, V2AnsweredSession DEF V2Good
    <3> QED
      BY <1>3, <1>6, <2>1, <3>1 DEF V2Before, V2After
  <2> QED
    BY <1>0, <1>3, <1>5, <1>6, <2>1, <2>2, V2StaysInStep
<1>9. client'.remote \in Trees /\ Faithful(client'.remote)
  BY <1>3 DEF CommandInv, V2Typed, V2ClientRecord
<1>10. V2Uncached'
  <2>1. Uncached(Unfetched)'
    BY NoPartType DEF Uncached, Unfetched
  <2> QED
    BY <1>3, <1>5, <1>6, <1>7, <2>1, V2UncachedOn
<1> QED
  BY <1>0, <1>3, <1>5, <1>6, <1>7, <1>8, <1>9, <1>10, NoPartType, V2StepsOn

\* FILE-COMMIT was acknowledged.
LEMMA ReadFileCommittedInv ==
    ASSUME CommandInv, ReadFileCommitted
    PROVE  CommandInv'
<1>1. /\ client.pc = "file" /\ client.push /\ Running /\ client' = FileDone(client)
      /\ part' = NoPart
      /\ UNCHANGED <<local, edits, cached, losses, tree, rooted, session, up, transfer>>
  BY DEF ReadFileCommitted, Unmoved, Running, Ended
<1>2. PICK m \in Answer("ok") : net' = net \ {m}
  BY DEF ReadFileCommitted
<1>3. client \in V2ClientRecord /\ client.file \in Paths
  BY <1>1, V2FileFacts DEF FilePlaces
<1>4. V2SameAttempt(client', client)
  BY <1>1, <1>3, V2MovesPastFile DEF V2Moved
<1>5. Accounted' /\ local \in Trees /\ Faithful(local)
  BY <1>1, <1>4, V2PushAccounted DEF CommandInv, V2Typed
<1> QED
  BY <1>1, <1>2, <1>5, V2PastFile DEF Unserver, Faithful

\* FILE-VERIFIED was acknowledged: the assembled file is installed, and its
\* chunks are cleared.
LEMMA InstallAssembledInv ==
    ASSUME CommandInv, InstallAssembled
    PROVE  CommandInv'
<1>1. /\ client.pc = "file" /\ ~client.push /\ Running /\ client' = FileDone(client)
      /\ local' = Put(local, {client.file}, File(Source[client.file].ver, part.hash))
      /\ part' = NoPart /\ cached' \subseteq cached
      /\ UNCHANGED <<edits, losses, tree, rooted, session, up, transfer>>
  BY DEF InstallAssembled, Clears, Running, Ended
<1>2. PICK m \in Answer("ok") : net' = net \ {m}
  BY DEF InstallAssembled
<1>3. /\ client \in V2ClientRecord /\ client.file \in PlannedFiles
      /\ part.hash = Source[client.file].ver /\ ~client.options.dryRun
  BY <1>1, V2FileFacts DEF FilePlaces, CommandInv, V2Place
<1>4. client.file \in Paths /\ Source[client.file].kind = "file"
      /\ Source[client.file].ver \in Versions
  BY <1>3, V2PlannedVersion DEF CommandInv
<1>5. /\ V2SameAttempt(client', client) /\ client'.remote = client.remote
      /\ client'.done = client.done \cup {client.file} /\ client'.pc = "next"
      /\ client'.push = client.push /\ client'.foreign = client.foreign
  BY <1>1, <1>3, <1>4, V2MovesPastFile DEF V2Moved, V2SameAttempt
<1>6. local' \in Trees /\ Faithful(local')
  BY <1>1, <1>3, <1>4, PutType, EntryTypes, PutFaithful, FaithfulEntries DEF CommandInv, V2Typed
<1>7. Accounted'
  <2>1. Source' = Source /\ Target' = Target
    BY <1>5, V2PlanStays
  <2>2. Scanned' = Scanned
    BY <1>1, <1>5, <2>1 DEF Scanned, V2SameAttempt
  <2>3. ASSUME NEW p \in Paths \ client.foreign
        PROVE  Alike(local'[p], IF p \in client'.done THEN Source[p]
                                ELSE IF p \in Scanned THEN Dir ELSE Target[p])
    <3>1. CASE p = client.file
      <4>1. local'[p] = File(Source[p].ver, part.hash) /\ p \in client'.done
        BY <1>1, <1>5, <3>1 DEF Put
      <4> QED
        BY <1>4, <3>1, <4>1 DEF Alike, File
    <3>2. CASE p # client.file
      <4>1. local'[p] = local[p] /\ (p \in client'.done <=> p \in client.done)
        BY <1>1, <1>5, <3>2 DEF Put
      <4> QED
        BY <1>1, <1>3, <4>1 DEF CommandInv, Accounted
    <3> QED
      BY <3>1, <3>2
  <2> QED
    BY <1>1, <1>3, <1>5, <2>1, <2>2, <2>3 DEF Accounted
<1>8. CachedTyped'
  BY <1>1 DEF CommandInv, V2Typed, CachedTyped, Chunk, Chunks
<1> QED
  BY <1>1, <1>2, <1>6, <1>7, <1>8, V2PastFile DEF Unserver

(***************************************************************************)
(* The steps of the client between its files.                              *)
(***************************************************************************)
\* Between its files the client misses nothing, whatever it asks.
LEMMA V2BetweenFiles ==
    ASSUME Current' \subseteq {V2Query'}, V2Place', Running', client' \in V2ClientRecord,
           client'.pc \in {"plan", "next", "finish"},
           Owns(client.conn)' /\ V2Query' \in net' => V2Before'
    PROVE  V2Uncached'
<1>1. part' = NoPart
  <2>1. client'.pc \notin FilePlaces /\ NoPart' = NoPart
    BY DEF FilePlaces, ChunkPlaces, NoPart
  <2> QED
    BY <2>1 DEF V2Place
<1>2. Uncached(Unfetched)'
  BY <1>1, NoPartType DEF Uncached, Unfetched
<1> QED
  BY <1>2, V2UncachedOn

\* The manifest of the server arrives.
LEMMA V2ReadManifestInv ==
    ASSUME CommandInv, Shared(ReadManifest)
    PROVE  CommandInv'
<1>1. PICK m \in Answer("manifest") :
         /\ net' = net \ {m}
         /\ client' = [client EXCEPT !.pc = "plan", !.remote = m.manifest]
  BY DEF ReadManifest, Shared
<1>2. /\ client.pc = "start" /\ Running
      /\ UNCHANGED <<session, local, edits, losses, transfer, part, cached>> /\ Unserver
  BY DEF ReadManifest, Running, Ended, Unserver, Shared, unpart
<1>3. /\ m \in net /\ m.kind = "reply" /\ m.op = "manifest"
      /\ m.manifest \in Trees /\ Faithful(m.manifest)
  BY <1>1 DEF Answer, CommandInv, V2Typed, V2Carries
<1>4. V2Moved("plan", m.manifest, client.file, client.done)
  BY <1>1, <1>3, V2MovesWithRemote DEF CommandInv, V2Typed
<1>5. /\ V2SameAttempt(client', client) /\ client'.pc = "plan" /\ client'.remote = m.manifest
      /\ client'.done = client.done /\ client'.conn = client.conn /\ client'.push = client.push
      /\ client'.scan = client.scan /\ client'.options = client.options
      /\ client'.stale = client.stale /\ client'.foreign = client.foreign
      /\ client' \in V2ClientRecord
  BY <1>4 DEF V2Moved, V2SameAttempt
<1>6. \A n \in net' : n.conn # client.conn
  BY <1>1, <1>2, V2OthersElsewhere
<1>7. /\ V2Question' /\ Current' = {} /\ V2Query' \notin net' /\ Pulled' = {}
      /\ \A x : Answer(x)' = {}
  BY <1>5, <1>6, V2Silence
<1>8. client.remote = Blank /\ client.done = {} /\ part = NoPart
  BY <1>2 DEF CommandInv, V2Place, FilePlaces, ChunkPlaces
<1>9. Running' /\ V2Settled /\ client'.pc \notin FilePlaces
  BY <1>1, <1>2, <1>5 DEF Running, Ended, V2Settled, FilePlaces, ChunkPlaces
<1>10. V2Place'
  <2>1. client'.conn # 0 /\ client'.pc \notin ChunkPlaces /\ NoPart' = NoPart
    BY <1>2, <1>5 DEF CommandInv, V2Place, ChunkPlaces, NoPart
  <2> QED
    BY <1>2, <1>5, <1>7, <1>8, <1>9, <2>1 DEF V2Place
<1>11. V2InStep'
  <2> SUFFICES ASSUME Owns(client.conn)' PROVE V2InStep'
    BY DEF V2InStep
  <2>1. Owns(client.conn)
    BY <1>2, <1>5 DEF Owns, Active
  <2>2. /\ session.done = {} /\ transfer = NoTransfer
        /\ client.push => session.stale \subseteq client.foreign
        /\ client.scan = IF client.push THEN session.source ELSE session.destination
        /\ m.manifest = IF client.push THEN session.destination ELSE session.source
    BY <1>1, <1>2, <2>1 DEF CommandInv, V2InStep
  <2>3. session'.source = Source' /\ session'.destination = Target'
    BY <1>2, <1>5, <2>2 DEF Source, Target
  <2>4. V2Before'
    BY <1>2, <1>5, <1>8, <1>9, <2>2 DEF V2Before
  <2> QED
    BY <1>2, <1>5, <1>7, <2>2, <2>3, <2>4 DEF V2InStep
<1>12. Accounted'
  <2>1. Running
    BY <1>2
  <2>2. CASE client.push
    BY <1>2, <1>5, <2>1, <2>2 DEF CommandInv, Accounted
  <2>3. CASE ~client.push
    <3>1. Target' = Target /\ Scanned = {} /\ Scanned' = {}
      BY <1>2, <1>5, <2>3 DEF Target, Scanned
    <3> QED
      BY <1>2, <1>5, <1>8, <2>1, <2>3, <3>1 DEF CommandInv, Accounted
  <2> QED
    BY <2>2, <2>3
<1>13. /\ net' \subseteq net \cup {V2Query'} /\ local' \in Trees /\ Faithful(local')
       /\ part' \in PartRecord
  BY <1>1, <1>2 DEF CommandInv, V2Typed
<1>14. V2Uncached'
  BY <1>5, <1>7, <1>9, <1>10, V2BetweenFiles
<1> QED
  BY <1>2, <1>3, <1>5, <1>7, <1>9, <1>10, <1>11, <1>12, <1>13, <1>14, V2StepsOn

\* The plan is made, and a pull makes its directories.
LEMMA V2MakePlanInv ==
    ASSUME CommandInv, Shared(MakePlan)
    PROVE  CommandInv'
<1>1. /\ client.pc = "plan" /\ Running /\ V2Settled /\ Unserver
      /\ UNCHANGED <<session, edits, losses, transfer, part, cached>>
      /\ local' = LocalAfterPlan /\ client \in V2ClientRecord
  BY DEF MakePlan, Running, Ended, V2Settled, Unserver, CommandInv, V2Typed, Shared, unpart
<1>2. \/ /\ client.options.dryRun /\ client' = [client EXCEPT !.pc = "finish"]
         /\ net' = net \cup {Ask(client.conn, "finish", NoPath)}
      \/ /\ ~client.options.dryRun /\ client' = [client EXCEPT !.pc = "next"] /\ net' = net
  BY DEF MakePlan, AskFinish, Shared
<1>3. /\ V2SameAttempt(client', client) /\ client'.remote = client.remote
      /\ client'.done = client.done
      /\ client'.pc = IF client.options.dryRun THEN "finish" ELSE "next"
  BY <1>1, <1>2, V2MovesOn DEF V2Moved, V2Places
<1>4. /\ client'.conn = client.conn /\ client'.push = client.push
      /\ client'.options = client.options /\ client'.scan = client.scan
      /\ client'.foreign = client.foreign /\ client' \in V2ClientRecord
  BY <1>3 DEF V2SameAttempt
<1>5. \A n \in net : n.conn # client.conn
  BY <1>1 DEF CommandInv, V2Question, Current
<1>6. client.options.dryRun => V2Query' = Ask(client.conn, "finish", NoPath)
  BY <1>3, <1>4 DEF V2Query, QueryOf
<1>7. /\ V2Question' /\ Pulled' = {} /\ \A x : Answer(x)' = {}
      /\ ~client.options.dryRun => Current' = {} /\ V2Query' \notin net'
      /\ client.options.dryRun => Current' = {V2Query'}
      /\ net' \subseteq net \cup {V2Query'}
  <2>1. CASE client.options.dryRun
    <3>1. client'.pc = "finish" /\ net' = net \cup {V2Query'}
      BY <1>2, <1>3, <1>6, <2>1
    <3> QED
      BY <1>4, <1>5, <2>1, <3>1, V2Asked
  <2>2. CASE ~client.options.dryRun
    BY <1>2, <1>3, <1>4, <1>5, <2>2, V2Silence
  <2> QED
    BY <2>1, <2>2
<1>8. /\ client.done = {} /\ client.conn # 0 /\ part = NoPart /\ Running'
      /\ client'.pc \notin FilePlaces /\ client.pc \notin FilePlaces
  BY <1>1, <1>3 DEF CommandInv, V2Place, Running, Ended, FilePlaces, ChunkPlaces
<1>9. Source' = Source /\ Target' = Target /\ PlannedFiles' = PlannedFiles
  BY <1>3, V2PlanStays
<1>10. V2Place'
  <2>1. client'.pc \notin ChunkPlaces /\ NoPart' = NoPart
    BY <1>3 DEF ChunkPlaces, NoPart
  <2> QED
    BY <1>1, <1>3, <1>4, <1>7, <1>8, <2>1 DEF V2Place
<1>11. Owns(client.conn) => V2Before'
  <2>1. Owns(client.conn) => V2Before
    BY <1>1 DEF CommandInv, V2InStep
  <2> QED
    BY <1>1, <1>3, <1>8, <2>1 DEF V2Before
<1>12. V2InStep'
  BY <1>1, <1>3, <1>7, <1>8, <1>11, V2StaysInStep
<1>13. local' \in Trees /\ Faithful(local')
  <2>1. local \in Trees /\ Faithful(local)
    BY DEF CommandInv, V2Typed
  <2> QED
    BY <1>1, <2>1, PutType, EntryTypes, PutFaithful, FaithfulEntries
       DEF LocalAfterPlan, PreparedLocal
<1>14. Accounted'
  <2>1. CASE client.push
    BY <1>1, <1>3, <2>1, V2PushAccounted DEF LocalAfterPlan
  <2>2. CASE ~client.push /\ client.options.dryRun
    <3>1. Scanned' = Scanned
      BY <1>1, <1>3, <1>4, <2>2 DEF Scanned
    <3> QED
      BY <1>1, <1>3, <2>2, <3>1, V2FileAccounted DEF LocalAfterPlan
  <2>3. CASE ~client.push /\ ~client.options.dryRun
    <3>1. Scanned' = PlanDirs(Source)
      BY <1>3, <1>4, <1>9, <2>3 DEF Scanned
    <3>2. \A p \in Paths \ client.foreign : Alike(local[p], Target[p])
      BY <1>1, <1>8, <2>3 DEF CommandInv, Accounted, Scanned
    <3>3. local' = Put(local, PlanDirs(Source), Dir)
      BY <1>1, <2>3 DEF LocalAfterPlan, PreparedLocal
    <3>4. \A p \in Paths \ client.foreign :
            Alike(local'[p], IF p \in PlanDirs(Source) THEN Dir ELSE Target[p])
      BY <3>2, <3>3 DEF Put, Alike
    <3> QED
      BY <1>3, <1>4, <1>8, <1>9, <2>3, <3>1, <3>4 DEF Accounted
  <2> QED
    BY <2>1, <2>2, <2>3
<1>15. client'.remote \in Trees /\ Faithful(client'.remote) /\ part' \in PartRecord
  BY <1>1, <1>3 DEF CommandInv, V2Typed, V2ClientRecord
<1>16. V2Uncached'
  <2>1. Current' \subseteq {V2Query'} /\ client'.pc \in {"plan", "next", "finish"}
    BY <1>3, <1>7
  <2>2. Owns(client.conn)' => Owns(client.conn)
    BY <1>1, <1>4 DEF Owns, Active
  <2> QED
    BY <1>4, <1>8, <1>10, <1>11, <2>1, <2>2, V2BetweenFiles
<1>17. client'.pc # "start" /\ (client'.pc = "finish" => Current' = {V2Query'})
  BY <1>3, <1>7
<1> QED
  BY <1>1, <1>3, <1>7, <1>8, <1>10, <1>12, <1>13, <1>14, <1>15, <1>16, <1>17, V2StepsOn

\* Every file is done: FINISH is asked.
LEMMA V2AllSentInv ==
    ASSUME CommandInv, Shared(AllSent)
    PROVE  CommandInv'
<1>1. /\ client.pc = "next" /\ Running /\ V2Settled /\ Unserver /\ client \in V2ClientRecord
      /\ UNCHANGED <<session, local, edits, losses, transfer, part, cached>>
      /\ PlannedFiles \subseteq client.done
      /\ client' = [client EXCEPT !.pc = "finish"]
      /\ net' = net \cup {Ask(client.conn, "finish", NoPath)}
  BY DEF AllSent, AskFinish, Running, Ended, Unserver, CommandInv, V2Typed, Shared, unpart,
         V2Settled
<1>2. /\ V2SameAttempt(client', client) /\ client'.pc = "finish"
      /\ client'.remote = client.remote
      /\ client'.done = client.done /\ client'.conn = client.conn
      /\ client'.push = client.push /\ client'.options = client.options
      /\ client' \in V2ClientRecord
  BY <1>1, V2MovesOn DEF V2Moved, V2Places, V2SameAttempt
<1>3. \A n \in net : n.conn # client.conn
  BY <1>1 DEF CommandInv, V2Question, Current
<1>4. net' = net \cup {V2Query'}
  BY <1>1, <1>2 DEF V2Query, QueryOf
<1>5. V2Question' /\ Current' = {V2Query'} /\ Pulled' = {} /\ \A x : Answer(x)' = {}
  BY <1>2, <1>3, <1>4, V2Asked
<1>6. client.conn # 0 /\ Running' /\ client'.pc \notin FilePlaces /\ client.pc \notin FilePlaces
  BY <1>1, <1>2 DEF CommandInv, V2Place, Running, Ended, FilePlaces, ChunkPlaces
<1>7. V2Place'
  <2>1. PlannedFiles' = PlannedFiles /\ client.done \subseteq PlannedFiles /\ part = NoPart
    BY <1>1, <1>2, <1>6, V2PlanStays DEF CommandInv, V2Place
  <2>2. client'.pc \notin ChunkPlaces /\ NoPart' = NoPart
    BY <1>2 DEF ChunkPlaces, NoPart
  <2> QED
    BY <1>1, <1>2, <1>5, <1>6, <2>1, <2>2 DEF V2Place
<1>8. Owns(client.conn) => V2Before'
  <2>1. Owns(client.conn) => V2Before
    BY <1>1 DEF CommandInv, V2InStep
  <2> QED
    BY <1>1, <1>2, <1>6, <2>1 DEF V2Before
<1>9. V2InStep'
  BY <1>1, <1>2, <1>5, <1>6, <1>8, V2StaysInStep
<1>10. Accounted'
  <2>1. Scanned' = Scanned
    BY <1>1, <1>2, V2PlanStays DEF Scanned, V2SameAttempt
  <2> QED
    BY <1>1, <1>2, <2>1, V2FileAccounted
<1>11. V2Uncached'
  <2>1. Owns(client.conn)' => Owns(client.conn)
    BY <1>1, <1>2 DEF Owns, Active
  <2> QED
    BY <1>2, <1>5, <1>6, <1>7, <1>8, <2>1, V2BetweenFiles
<1>12. /\ client'.remote \in Trees /\ Faithful(client'.remote) /\ part' \in PartRecord
       /\ local' \in Trees /\ Faithful(local')
  BY <1>1, <1>2 DEF CommandInv, V2Typed, V2ClientRecord
<1> QED
  BY <1>1, <1>2, <1>4, <1>5, <1>6, <1>7, <1>9, <1>10, <1>11, <1>12, V2StepsOn

\* FINISH was acknowledged: the attempt has synchronized.
LEMMA V2SucceedInv ==
    ASSUME CommandInv, Shared(Succeed)
    PROVE  CommandInv'
<1>1. /\ client.pc = "finish" /\ Running /\ V2Settled /\ Unserver
      /\ UNCHANGED <<edits, losses, transfer, part, cached>>
      /\ client' = [client EXCEPT !.pc = "success"] /\ net' = Closing
      /\ client \in V2ClientRecord
  BY DEF Succeed, Running, Ended, V2Settled, Unserver, CommandInv, V2Typed, Shared, unpart
<1>2. PICK m \in Answer("ok") : TRUE
  BY DEF Succeed, Shared
<1>3. local' = IF client.push \/ client.options.dryRun THEN local
               ELSE Put(local, Extras, None)
  BY DEF Succeed, Shared
<1>4. /\ V2SameAttempt(client', client) /\ client'.pc = "success"
      /\ client'.remote = client.remote /\ client'.conn = client.conn
      /\ client'.push = client.push /\ client'.options = client.options
      /\ client'.foreign = client.foreign
  BY <1>1, V2MovesOn DEF V2Moved, V2Places, Ended, V2SameAttempt
<1>5. net' \subseteq net \cup {CloseMsg}
  BY <1>1 DEF Closing, Unread, CloseMsg
<1>6. local' \in Trees /\ Faithful(local')
  BY <1>3, PutType, EntryTypes, PutFaithful, FaithfulEntries DEF CommandInv, V2Typed
<1>7. ~Running' /\ part' = NoPart
  BY <1>1, <1>4 DEF Running, Ended, CommandInv, V2Place, FilePlaces, ChunkPlaces
<1>8. V2Typed' /\ V2Sessions' /\ V2Links' /\ V2Uncached' /\ client'.conn # 0
  BY <1>1, <1>4, <1>5, <1>6, <1>7, V2Closes
<1>9. V2Question' /\ V2InStep' /\ Accounted' /\ V2Place'
  <2>1. NoPart' = NoPart
    BY DEF NoPart
  <2> QED
    BY <1>7, <1>8, <2>1 DEF V2Question, V2InStep, Accounted, V2Place
<1>10. CloseMsg.kind = "close" /\ CloseMsg.conn = client.conn
  BY MsgFields DEF CloseMsg
<1>11. V2Strays'
  <2>1. ~Owns(client.conn)
    BY <1>1, <1>2, V2AnsweredSession DEF V2Good, V2After
  <2>2. \A n \in Current' : ~Works(n)
    <3>1. \A n \in Current : ~Works(n)
      <4>1. m.kind = "reply" /\ \A n \in Current : n = m
        BY <1>1, <1>2, V2AnswerIsAlone
      <4> QED
        BY <4>1 DEF Works
    <3>2. \A n \in Current' : n \in Current \/ n = CloseMsg
      BY <1>4, <1>5 DEF Current
    <3> QED
      BY <1>10, <3>1, <3>2 DEF Works
  <2>3. ASSUME Active', NEW n \in net', n.conn = session'.conn
        PROVE  ~Works(n)
    <3>1. Active /\ session' = session /\ session.conn # client.conn
      BY <1>1, <2>1, <2>3 DEF Unserver, Active, Owns
    <3>2. n \in net
      BY <1>5, <1>10, <2>3, <3>1
    <3> QED
      BY <1>1, <2>3, <3>1, <3>2 DEF CommandInv, V2Strays
  <2>4. ~Owns(client.conn)'
    BY <1>1, <1>4, <2>1 DEF Unserver, Owns, Active
  <2> QED
    BY <2>2, <2>3, <2>4 DEF V2Strays, Works
<1>12. Done'
  <2> SUFFICES ASSUME ~client.options.dryRun PROVE Synchronized(Destination)'
    BY <1>4 DEF Done
  <2>1. Source' = Source /\ Target' = Target
    BY <1>4, V2PlanStays
  <2>2. CASE client.push
    <3>1. Synchronized(tree)
      BY <1>1, <1>2, <2>2 DEF CommandInv, Done
    <3> QED
      BY <1>1, <1>4, <2>1, <2>2, <3>1 DEF Synchronized, Destination, Unserver
  <2>3. CASE ~client.push
    <3>1. /\ Accounted /\ client.scan \in Trees /\ client.remote \in Trees
          /\ client.done = PlannedFiles
      BY <1>1 DEF CommandInv, V2ClientRecord, V2Place
    <3> QED
      BY <1>1, <1>3, <1>4, <2>1, <2>3, <3>1, PulledPath DEF Synchronized, Destination
  <2> QED
    BY <2>2, <2>3
<1> QED
  BY <1>8, <1>9, <1>11, <1>12 DEF CommandInv

(***************************************************************************)
(* Edits.                                                                  *)
(***************************************************************************)
\* Noting edits leaves the attempt where it is.
V2SameBut(u, c) ==
    /\ u \in V2ClientRecord /\ u.pc = c.pc /\ u.conn = c.conn /\ u.push = c.push
    /\ u.options = c.options /\ u.scan = c.scan /\ u.remote = c.remote /\ u.file = c.file
    /\ u.data = c.data /\ u.done = c.done

\* An edit of the destination is noted.
LEMMA V2SetForeign ==
    ASSUME NEW c \in V2ClientRecord, NEW D \in SUBSET Paths
    PROVE  LET u == [c EXCEPT !.foreign = D]
           IN  V2SameBut(u, c) /\ u.foreign = D /\ u.stale = c.stale
BY DEF V2ClientRecord, V2SameBut

\* An edit of the source is noted.
LEMMA V2SetStaleSource ==
    ASSUME NEW c \in V2ClientRecord, NEW D \in SUBSET Paths
    PROVE  LET u == [c EXCEPT !.stale = D]
           IN  V2SameBut(u, c) /\ u.stale = D /\ u.foreign = c.foreign
BY DEF V2ClientRecord, V2SameBut

\* What depends on the attempt, the session, the messages and the cache only.
LEMMA V2SameAttemptInv ==
    ASSUME CommandInv, V2SameBut(client', client),
           UNCHANGED <<up, net, transfer, part, cached, losses>>,
           session' = session \/ SameJob(session', session),
           Active' <=> Active,
           Active => /\ session'.done = session.done
                     /\ client.push /\ session.stale \subseteq client.foreign =>
                           session'.stale \subseteq client'.foreign
    PROVE  V2Sessions' /\ V2Links' /\ V2Question' /\ V2Place' /\ V2InStep' /\ V2Strays'
           /\ V2Uncached'
<1> USE DEF V2SameBut
<1>1. /\ Source' = Source /\ Target' = Target /\ PlannedFiles' = PlannedFiles
      /\ Current' = Current /\ (Running' <=> Running) /\ V2Good' = V2Good /\ Pulled' = Pulled
  BY DEF Source, Target, PlannedFiles, Current, Running, V2Good, Pulled
<1>2. \A x : Answer(x)' = Answer(x)
  BY DEF Answer
<1>3. V2Query' = V2Query
  BY DEF V2Query, QueryOf
<1>4. Active => /\ session'.conn = session.conn /\ session'.push = session.push
                /\ session'.options = session.options /\ session'.source = session.source
                /\ session'.destination = session.destination
  BY DEF SameJob
<1>5. V2Sessions'
  <2>1. InStore => InStore'
    BY DEF InStore, StoredOf, CachedChunks, Chunk, Chunks
  <2> QED
    BY <1>4, <2>1 DEF CommandInv, V2Sessions, Faithful
<1>6. \A d : Owns(d)' <=> Owns(d)
  BY <1>4 DEF Owns
<1>7. V2Links'
  <2>1. \A d : Owns(d) => session'.source = session.source
    BY <1>4 DEF Owns
  <2> QED
    BY <1>6, <2>1 DEF CommandInv, V2Links, Works
<1>8. V2Question'
  BY <1>1, <1>3 DEF CommandInv, V2Question
<1>9. V2Place'
  <2>1. NoPart' = NoPart /\ Chunks(part.hash)' = Chunks(part.hash)
    BY DEF NoPart, Chunks
  <2> QED
    BY <1>1, <1>2, <2>1 DEF CommandInv, V2Place
<1>10. V2InStep'
  <2> SUFFICES ASSUME Owns(client.conn), Running PROVE V2InStep'
    BY <1>1, <1>6 DEF V2InStep
  <2>1. Active
    BY DEF Owns
  <2>2. (V2Before <=> V2Before') /\ (V2After <=> V2After')
    BY <1>1, <2>1 DEF V2Before, V2After, ServesChunk
  <2> QED
    BY <1>1, <1>2, <1>3, <1>4, <2>1, <2>2 DEF CommandInv, V2InStep
<1>11. V2Strays'
  <2>1. V2Settled' <=> V2Settled
    BY <1>1, <1>2 DEF V2Settled
  <2> QED
    BY <1>1, <1>4, <1>6, <2>1 DEF CommandInv, V2Strays, Works
<1>12. V2Uncached'
  <2>1. OnlyMissingSent'
    BY DEF CommandInv, V2Uncached, OnlyMissingSent, CachedChunks, Chunk, Chunks
  <2>2. Unfetched' = Unfetched
    BY DEF Unfetched
  <2>3. \A S : Uncached(S)' <=> Uncached(S)
    BY DEF Uncached, Chunk
  <2>4. Running => Uncached(Unfetched)'
    BY <2>2, <2>3 DEF CommandInv, V2Uncached, Uncached, Chunk
  <2>5. Running /\ client.pc = "hashes" /\ client.push =>
           \A m \in Answer("missing") : Uncached(m.chunks)'
    BY <2>3 DEF CommandInv, V2Uncached
  <2>6. \A m \in Current' :
          m.kind = "request" /\ m.op = "chunkGet" /\ Owns(m.conn)' /\ transfer' # NoTransfer
              /\ m.file = transfer'.file =>
            \A j \in m.chunks : Chunk(m.file, transfer'.hash, j) \notin cached'
    BY <1>1, <1>6 DEF CommandInv, V2Uncached, Chunk
  <2> QED
    BY <1>1, <1>2, <2>1, <2>4, <2>5, <2>6 DEF V2Uncached, Uncached, Chunk
<1> QED
  BY <1>5, <1>7, <1>8, <1>9, <1>10, <1>11, <1>12

\* The export is edited.
LEMMA V2EditExportInv ==
    ASSUME CommandInv, Shared(EditExport)
    PROVE  CommandInv'
<1>1. PICK p \in Paths, e \in EditEntries :
         /\ Edit(p, e)
         /\ client' = IF client.push THEN [client EXCEPT !.foreign = client.foreign \cup {p}]
                                     ELSE client
  BY DEF EditExport, Shared
<1>2. /\ UNCHANGED <<local, up, net, transfer, part, cached, losses>>
      /\ edits' = edits + 1 /\ edits < MaxEdits
      /\ client \in V2ClientRecord /\ edits \in 0 .. MaxEdits
  BY DEF EditExport, Shared, unpart, CommandInv, V2Typed
<1>3. /\ V2SameBut(client', client) /\ client'.stale = client.stale
      /\ client'.foreign = IF client.push THEN client.foreign \cup {p} ELSE client.foreign
  <2>1. client.foreign \cup {p} \in SUBSET Paths
    BY <1>2 DEF V2ClientRecord
  <2> QED
    BY <1>1, <1>2, <2>1, V2SetForeign DEF V2SameBut
<1>4. tree' = Put(tree, {p}, e) /\ e.ver = e.data /\ tree \in Trees /\ Faithful(tree)
  BY <1>1, VersionsAreContents DEF Edit, CommandInv, V2Typed, V2IInv, TypeOK
<1>5. V2IInv'
  BY <1>1, <1>2, EditInv DEF CommandInv, V2Typed
<1>6. Faithful(tree')
  BY <1>4, PutFaithful
<1>7. edits' \in 0 .. MaxEdits
  BY <1>2, JobsAssumption
<1>8. V2Typed'
  BY <1>2, <1>3, <1>5, <1>6, <1>7
  DEF CommandInv, V2Typed, V2Carries, CachedTyped, Chunk, Chunks, Faithful, V2SameBut
<1>9. /\ session' = session \/ SameJob(session', session)
      /\ Active' <=> Active
      /\ Active => session'.done = session.done /\ session'.stale = session.stale \cup {p}
  <2>1. CASE ~Active
    BY <1>1, <2>1 DEF Edit, Active
  <2>2. CASE Active
    <3>1. session \in SessionRecord /\ session.stale \cup {p} \in SUBSET Paths
      BY <2>2, ActiveSession DEF CommandInv, V2Typed, V2IInv, SessionRecord
    <3>2. session' = [session EXCEPT !.stale = session.stale \cup {p}]
      BY <1>1, <2>2 DEF Edit
    <3>3. /\ SameJob(session', session) /\ session'.done = session.done
          /\ session'.stale = session.stale \cup {p}
      BY <3>1, <3>2, SetStale
    <3> QED
      BY <2>2, <3>3, NoSessionAssumption DEF Active, SameJob
  <2> QED
    BY <2>1, <2>2
<1>10. V2Sessions' /\ V2Links' /\ V2Question' /\ V2Place' /\ V2InStep' /\ V2Strays' /\ V2Uncached'
  BY <1>2, <1>3, <1>9, V2SameAttemptInv
<1>11. Accounted'
  <2>1. Source' = Source /\ Target' = Target /\ Scanned' = Scanned /\ (Running' <=> Running)
    BY <1>3 DEF V2SameBut, Source, Target, Scanned, Running
  <2> QED
    BY <1>2, <1>3, <2>1 DEF V2SameBut, CommandInv, Accounted
<1>12. Done'
  <2>1. Source' = Source /\ Target' = Target /\ \A x : Answer(x)' = Answer(x)
    BY <1>2, <1>3 DEF V2SameBut, Source, Target, Answer
  <2>2. client.push /\ Synchronized(tree) => Synchronized(tree)'
    BY <1>3, <1>4, <2>1 DEF V2SameBut, Synchronized, Put
  <2>3. ~client.push /\ Synchronized(local) => Synchronized(local)'
    BY <1>2, <1>3, <2>1 DEF V2SameBut, Synchronized
  <2> QED
    BY <1>3, <2>1, <2>2, <2>3 DEF V2SameBut, CommandInv, Done, Destination
<1> QED
  BY <1>8, <1>10, <1>11, <1>12 DEF CommandInv

\* The client's directory is edited.
LEMMA V2EditLocalInv ==
    ASSUME CommandInv, Shared(EditLocal)
    PROVE  CommandInv'
<1>1. PICK p \in Paths, e \in EditEntries :
         /\ local' = Put(local, {p}, e)
         /\ client' = IF client.push THEN [client EXCEPT !.stale = client.stale \cup {p}]
                                     ELSE [client EXCEPT !.foreign = client.foreign \cup {p}]
  BY DEF EditLocal, Shared
<1>2. /\ UNCHANGED <<tree, rooted, session, up, net, transfer, part, cached, losses>>
      /\ edits' = edits + 1 /\ edits < MaxEdits
      /\ client \in V2ClientRecord /\ edits \in 0 .. MaxEdits /\ local \in Trees
      /\ Faithful(local)
  BY DEF EditLocal, Unserver, Shared, unpart, CommandInv, V2Typed
<1>3. /\ V2SameBut(client', client)
      /\ client'.stale = IF client.push THEN client.stale \cup {p} ELSE client.stale
      /\ client'.foreign = IF client.push THEN client.foreign ELSE client.foreign \cup {p}
  <2>1. client.foreign \cup {p} \in SUBSET Paths /\ client.stale \cup {p} \in SUBSET Paths
    BY <1>2 DEF V2ClientRecord
  <2> QED
    <3>1. CASE client.push
      BY <1>1, <1>2, <2>1, <3>1, V2SetStaleSource
    <3>2. CASE ~client.push
      BY <1>1, <1>2, <2>1, <3>2, V2SetForeign
    <3> QED
      BY <3>1, <3>2
<1>4. local' \in Trees /\ Faithful(local')
  BY <1>1, <1>2, VersionsAreContents, TreesAssumption, PutType, PutFaithful
<1>5. V2IInv'
  BY <1>2, V2StutterInv DEF CommandInv, V2Typed, v2vars
<1>6. edits' \in 0 .. MaxEdits
  BY <1>2, JobsAssumption
<1>7. V2Typed'
  BY <1>2, <1>3, <1>4, <1>5, <1>6
  DEF CommandInv, V2Typed, V2Carries, CachedTyped, Chunk, Chunks, Faithful, V2SameBut
<1>8. session.stale \subseteq client.foreign => session'.stale \subseteq client'.foreign
  BY <1>2, <1>3
<1>9. V2Sessions' /\ V2Links' /\ V2Question' /\ V2Place' /\ V2InStep' /\ V2Strays' /\ V2Uncached'
  BY <1>2, <1>3, <1>8, V2SameAttemptInv DEF Active
<1>10. Accounted'
  <2>1. Source' = Source /\ Target' = Target /\ Scanned' = Scanned /\ (Running' <=> Running)
    BY <1>3 DEF V2SameBut, Source, Target, Scanned, Running
  <2>2. \A q \in Paths \ {p} : local'[q] = local[q]
    BY <1>1 DEF Put
  <2> QED
    BY <1>3, <2>1, <2>2 DEF V2SameBut, CommandInv, Accounted
<1>11. Done'
  <2>1. Source' = Source /\ Target' = Target /\ \A x : Answer(x)' = Answer(x)
    BY <1>2, <1>3 DEF V2SameBut, Source, Target, Answer
  <2>2. client.push /\ Synchronized(tree) => Synchronized(tree)'
    BY <1>2, <1>3, <2>1 DEF V2SameBut, Synchronized
  <2>3. ~client.push /\ Synchronized(local) => Synchronized(local)'
    BY <1>1, <1>3, <2>1 DEF V2SameBut, Synchronized, Put
  <2> QED
    BY <1>3, <2>1, <2>2, <2>3 DEF V2SameBut, CommandInv, Done, Destination
<1> QED
  BY <1>7, <1>9, <1>10, <1>11 DEF CommandInv

(***************************************************************************)
(* What serving a request does.                                            *)
(***************************************************************************)
\* A request is refused and nothing happens ...
V2Ignores(r) == r \in {"error", "busy"} /\ UNCHANGED <<tree, session, transfer, cached>>
\* ... or it opens a session ...
V2Opens(m, r) == Opens(m, r) /\ transfer = NoTransfer /\ UNCHANGED <<transfer, cached>>
\* ... or it ends its own, in failure or at FINISH ...
V2Ends(m, r) == Ends(m, r) /\ transfer' = NoTransfer /\ UNCHANGED cached
\* ... or it describes a file, which is the scanned one ...
V2Describes(m, r) ==
    /\ Owns(m.conn) /\ SameProgress(session', session) /\ UNCHANGED <<tree, cached>>
    /\ transfer = NoTransfer /\ transfer' # NoTransfer
    /\ transfer'.file = m.file /\ transfer'.pending = 0 /\ transfer'.missing = {}
    /\ \/ /\ m.op = "description" /\ r = "ok" /\ session.push
          /\ transfer'.hash = m.data /\ transfer'.stored = StoredOf(m.file, m.data)
       \/ /\ m.op = "describe" /\ r = "description" /\ ~session.push
          /\ transfer'.hash = session.source[m.file].ver
\* ... or it moves a page or a chunk of it ...
Stays == transfer'.hashes = transfer.hashes /\ transfer'.stored = transfer.stored
         /\ transfer'.missing = transfer.missing
V2Moves(m, r) ==
    /\ Owns(m.conn) /\ SameProgress(session', session) /\ UNCHANGED tree
    /\ transfer # NoTransfer /\ transfer' # NoTransfer /\ transfer.file = m.file
    /\ transfer'.file = transfer.file /\ transfer'.hash = transfer.hash
    /\ \/ /\ m.op = "hashes" /\ r = "missing" /\ session.push /\ UNCHANGED cached
          /\ transfer.pending = 0 /\ transfer'.pending = 0
          /\ transfer'.stored = transfer.stored
          /\ transfer'.missing \subseteq Chunks(transfer.hash)
          /\ \A j \in transfer'.missing : /\ transfer'.hashes[j] = transfer.hash
                                          /\ transfer.stored[j] # transfer.hash
       \/ /\ m.op = "hashesGet" /\ r = "hashes" /\ ~session.push /\ UNCHANGED cached
          /\ transfer.pending = 0 /\ transfer'.pending = 0
       \/ /\ m.op = "chunkBegin" /\ r = "ok" /\ session.push /\ UNCHANGED cached
          /\ transfer.pending = 0 /\ transfer'.pending = Named(m) /\ Stays
       \/ /\ m.op = "chunkGet" /\ r = "file" /\ ~session.push /\ UNCHANGED cached
          /\ transfer.pending = 0 /\ transfer'.pending = Named(m)
       \/ /\ m.op = "chunkCommit" /\ r = "ok" /\ session.push
          /\ transfer.pending = Named(m) /\ transfer'.pending = 0
          /\ Named(m) \in transfer.missing /\ Named(m) \in Chunks(transfer.hash)
          /\ transfer'.hashes = transfer.hashes
          /\ transfer'.missing = transfer.missing \ {Named(m)}
          /\ transfer'.stored = [transfer.stored EXCEPT ![Named(m)] = transfer.hashes[Named(m)]]
          /\ cached' = cached \cup {Chunk(m.file, transfer.hash, Named(m))}
       \/ /\ m.op = "chunkVerified" /\ r = "ok" /\ ~session.push /\ UNCHANGED cached
          /\ transfer.pending = Named(m) /\ transfer'.pending = 0
\* ... or it completes the file.
V2Completes(m, r) ==
    /\ r = "ok" /\ Owns(m.conn) /\ SameJob(session', session) /\ session'.stale = session.stale
    /\ session'.done = session.done \cup {m.file}
    /\ transfer # NoTransfer /\ transfer.file = m.file /\ transfer' = NoTransfer
    /\ \/ m.op = "fileCommit" /\ session.push /\ cached' \subseteq cached
       \/ m.op = "fileVerified" /\ ~session.push /\ UNCHANGED <<tree, cached>>

V2Does(m, r) ==
    \/ V2Ignores(r) \/ V2Opens(m, r) \/ V2Ends(m, r)
    \/ V2Describes(m, r) \/ V2Moves(m, r) \/ V2Completes(m, r)

\* The chunk, or the page, a request names.
LEMMA NamedChunk ==
    ASSUME NEW m, V2Carries(m), m.kind = "request", m.op \in MoveOps
    PROVE  m.chunks = {Named(m)} /\ Named(m) \in Nat
<1>1. PICK j \in m.chunks : j \in Nat /\ m.chunks = {j}
  BY DEF V2Carries
<1>2. Named(m) \in m.chunks
  BY <1>1 DEF Named
<1> QED
  BY <1>1, <1>2

\* A refusal ends the session of its Link and its transfer, or does nothing.
LEMMA V2RefuseServes ==
    ASSUME NEW m, NEW r, Refuse(m.conn, r), Released(m.conn), UNCHANGED cached
    PROVE  V2Ignores(r) \/ V2Ends(m, r)
BY DEF Refuse, Abort, Released, V2Ignores, V2Ends, Ends

\* START opens a session only when there is none, and no transfer then.
LEMMA V2StartServes ==
    ASSUME V2IInv, NEW m, NEW r, m.op = "start", V2Start(m.conn, JobOf(m), r), UNCHANGED cached
    PROVE  V2Ignores(r) \/ V2Opens(m, r) \/ V2Ends(m, r)
<1>1. CASE r = "manifest"
  <2>1. Opens(m, r) /\ UNCHANGED transfer
    BY <1>1, StartServes DEF V2Start, Ignores, Ends
  <2>2. transfer = NoTransfer
    BY <2>1 DEF Opens, V2IInv, TransferIsPending
  <2> QED
    BY <2>1, <2>2 DEF V2Opens
<1>2. CASE r # "manifest"
  <2>1. (Ignores(r) \/ Ends(m, r)) /\ Released(m.conn)
    BY <1>2, StartServes DEF V2Start, Opens
  <2>2. CASE Owns(m.conn)
    <3>1. Ends(m, r)
      BY <1>2, <2>1, <2>2 DEF Ends, V2Start, Start, Refuse, Abort
    <3> QED
      BY <2>1, <2>2, <3>1 DEF Released, V2Ends
  <2>3. CASE ~Owns(m.conn)
    BY <2>1, <2>3 DEF Released, V2Ignores, Ignores, Ends
  <2> QED
    BY <2>2, <2>3
<1> QED
  BY <1>1, <1>2

\* FINISH ends its session.
LEMMA V2FinishServes ==
    ASSUME NEW m, m.op = "finish", NEW r, V2Finish(m.conn, r), UNCHANGED cached
    PROVE  V2Ignores(r) \/ V2Ends(m, r)
<1>1. (Ignores(r) \/ Ends(m, r)) /\ Released(m.conn)
  BY FinishServes DEF V2Finish
<1>2. CASE Owns(m.conn)
  <2>1. Ends(m, r)
    BY <1>1, <1>2, RefuseServes DEF Ends, V2Finish, Finish, Refuse, Abort
  <2> QED
    BY <1>1, <1>2, <2>1 DEF Released, V2Ends
<1>3. CASE ~Owns(m.conn)
  BY <1>1, <1>3 DEF Released, V2Ignores, Ignores, Ends
<1> QED
  BY <1>2, <1>3

\* DESCRIPTION and DESCRIBE open a transfer of the file.
LEMMA V2DescribesServes ==
    ASSUME V2IInv, Faithful(tree), NEW m, m.file \in Paths, NEW r, UNCHANGED cached,
           \/ /\ m.op = "description" /\ r = "ok" /\ m.data \in Versions
              /\ Description(m.conn, m.file, m.data, StoredOf(m.file, m.data))
           \/ m.op = "describe" /\ r = "description" /\ Describe(m.conn, m.file)
    PROVE  V2Describes(m, r)
<1>1. /\ MayTransfer(m.conn) /\ RequireFile(m.file, session.push) /\ transfer = NoTransfer
      /\ session' = [session EXCEPT !.pending = m.file, !.idle = 0]
      /\ tree' = tree
  BY DEF Description, Describe, RequireFile
<1>2. session \in SessionRecord /\ Active /\ Owns(m.conn)
  BY <1>1, TransferSession DEF V2IInv
<1>3. SameProgress(session', session)
  BY <1>1, <1>2, GottenSession DEF SameProgress
<1>4. CASE m.op = "description"
  <2>1. session.push /\ transfer' = Upload(m.file, m.data, StoredOf(m.file, m.data))
    BY <1>4 DEF Description, RequireFile
  <2>2. /\ transfer'.file = m.file /\ transfer'.pending = 0 /\ transfer'.missing = {}
        /\ transfer'.hash = m.data /\ transfer'.stored = StoredOf(m.file, m.data)
    BY <2>1 DEF Upload
  <2>3. StoredOf(m.file, m.data) \in [Chunks(m.data) -> Content]
    BY <1>4 DEF StoredOf, Content
  <2>4. transfer' # NoTransfer
    BY <1>4, <2>1, <2>3, NewTransfer, NoTransferAssumption DEF GoodTransfer
  <2> QED
    BY <1>1, <1>2, <1>3, <1>4, <2>1, <2>2, <2>4 DEF V2Describes
<1>5. CASE m.op = "describe"
  <2>1. /\ ~session.push /\ transfer' = Download(m.file, tree[m.file].data)
        /\ m.file \notin session.stale /\ m.file \in FilesOf(session)
    BY <1>5 DEF Describe, RequireFile
  <2>2. /\ transfer'.file = m.file /\ transfer'.pending = 0 /\ transfer'.missing = {}
        /\ transfer'.hash = tree[m.file].data
    BY <2>1 DEF Download, Upload
  <2>3. /\ Alike(tree[m.file], session.source[m.file]) /\ session.source[m.file].kind = "file"
        /\ session.source[m.file].ver \in Versions
    BY <1>2, <2>1, PlannedFile DEF V2IInv, ExportAccounted, Expected
  <2>4. tree[m.file].data = session.source[m.file].ver
    BY <2>3 DEF Alike, Faithful
  <2>5. transfer' # NoTransfer
    BY <2>1, <2>3, <2>4, NewTransfer, NoTransferAssumption DEF GoodTransfer
  <2> QED
    BY <1>1, <1>2, <1>3, <1>5, <2>1, <2>2, <2>4, <2>5 DEF V2Describes
<1> QED
  BY <1>4, <1>5

\* What a request about a page or a chunk leaves of the transfer.
LEMMA V2QuietServes ==
    ASSUME V2IInv, NEW m, Transferring(m.conn, m.file), NEW t, Quiet(t)
    PROVE  /\ Owns(m.conn) /\ SameProgress(session', session) /\ UNCHANGED tree
           /\ transfer # NoTransfer /\ transfer.file = m.file /\ transfer' = t
           /\ GoodTransfer(transfer, session.push) /\ transfer \in TransferRecord
           /\ transfer.hash \in Versions /\ Size[transfer.hash] \in Nat
           /\ V2IInv' => transfer' # NoTransfer
<1>1. /\ transfer # NoTransfer /\ GoodTransfer(transfer, session.push)
      /\ transfer \in TransferRecord /\ transfer' = t /\ tree' = tree
      /\ session' = [session EXCEPT !.idle = 0]
      /\ transfer.hash \in Versions /\ Size[transfer.hash] \in Nat
  BY TransferringFacts
<1>2. session \in SessionRecord /\ Owns(m.conn) /\ transfer.file = m.file
  BY TransferSession DEF V2IInv, Transferring
<1>3. SameProgress(session', session) /\ session'.pending = session.pending
  BY <1>1, <1>2, SetIdle, LeaseAssumption DEF SameProgress
<1>4. session.pending # NoPath
  BY <1>1, NoPathAssumption DEF V2IInv, TransferIsPending, TransferRecord
<1>5. Active'
  BY <1>3, NoSessionAssumption DEF SameProgress, SameJob, Active
<1>6. V2IInv' => transfer' # NoTransfer
  BY <1>3, <1>4, <1>5 DEF V2IInv, TransferIsPending
<1> QED
  BY <1>1, <1>2, <1>3, <1>6

\* A page is announced, and compared with what is stored.
LEMMA V2HashesServes ==
    ASSUME V2IInv, NEW m, m.op = "hashes", UNCHANGED cached, V2IInv',
           transfer # NoTransfer, Hashes(m.conn, m.file, Named(m), PageOf(transfer))
    PROVE  V2Moves(m, "missing")
<1> DEFINE t == [transfer EXCEPT
          !.hashes = [j \in DOMAIN @ |-> IF j \in DOMAIN PageOf(transfer) THEN PageOf(transfer)[j]
                                         ELSE @[j]],
          !.missing = {j \in DOMAIN PageOf(transfer) : transfer.stored[j] # PageOf(transfer)[j]},
          !.pageStart = Named(m), !.nextPage = PageEnd(transfer)]
<1>1. /\ Transferring(m.conn, m.file) /\ session.push /\ transfer.pending = 0 /\ Quiet(t)
  BY DEF Hashes, Uploading, PageExpected
<1>2. /\ Owns(m.conn) /\ SameProgress(session', session) /\ UNCHANGED tree
      /\ transfer # NoTransfer /\ transfer.file = m.file /\ transfer' = t
      /\ GoodTransfer(transfer, session.push) /\ transfer \in TransferRecord
      /\ transfer.hash \in Versions /\ Size[transfer.hash] \in Nat /\ transfer' # NoTransfer
  BY <1>1, V2QuietServes
<1>3. DOMAIN PageOf(transfer) = Page(transfer)
      /\ \A j \in Page(transfer) : PageOf(transfer)[j] = transfer.hash
  BY DEF PageOf
<1>4. Page(transfer) \subseteq Chunks(transfer.hash)
  <2>1. transfer.nextPage \in Nat /\ PageChunks \in Nat
    BY <1>2, PageAssumption DEF TransferRecord
  <2> QED
    BY <1>2, <2>1 DEF Page, PageEnd, Chunks
<1>5. DOMAIN transfer.hashes = Chunks(transfer.hash)
  BY <1>2 DEF GoodTransfer
<1>6. /\ transfer'.file = transfer.file /\ transfer'.hash = transfer.hash
      /\ transfer'.pending = transfer.pending /\ transfer'.stored = transfer.stored
      /\ transfer'.missing = {j \in Page(transfer) : transfer.stored[j] # transfer.hash}
      /\ transfer'.hashes = [j \in Chunks(transfer.hash) |->
                               IF j \in Page(transfer) THEN transfer.hash
                               ELSE transfer.hashes[j]]
  BY <1>2, <1>3, <1>5 DEF TransferRecord
<1> HIDE DEF t
<1>7. /\ transfer'.missing \subseteq Chunks(transfer.hash)
      /\ \A j \in transfer'.missing : /\ transfer'.hashes[j] = transfer.hash
                                      /\ transfer.stored[j] # transfer.hash
  BY <1>4, <1>6
<1> QED
  BY <1>1, <1>2, <1>6, <1>7 DEF V2Moves

\* A page of a download is sent.
LEMMA V2HashesGetServes ==
    ASSUME V2IInv, NEW m, m.op = "hashesGet", UNCHANGED cached, V2IInv', NEW a,
           HashesGet(m.conn, m.file, a)
    PROVE  V2Moves(m, "hashes")
<1> DEFINE t == [transfer EXCEPT !.served = {}, !.pageStart = a, !.nextPage = PageEnd(transfer)]
<1>1. Transferring(m.conn, m.file) /\ ~session.push /\ transfer.pending = 0 /\ Quiet(t)
  BY DEF HashesGet, Downloading, PageExpected
<1>2. /\ Owns(m.conn) /\ SameProgress(session', session) /\ UNCHANGED tree
      /\ transfer # NoTransfer /\ transfer.file = m.file /\ transfer' = t
      /\ transfer \in TransferRecord /\ transfer' # NoTransfer
  BY <1>1, V2QuietServes
<1>3. /\ transfer'.file = transfer.file /\ transfer'.hash = transfer.hash
      /\ transfer'.pending = transfer.pending
  BY <1>2 DEF TransferRecord
<1> QED
  BY <1>1, <1>2, <1>3 DEF V2Moves

\* A chunk becomes the one on its way.
LEMMA V2ChunkPendingServes ==
    ASSUME V2IInv, NEW m, UNCHANGED cached, V2IInv', NEW r,
           \/ m.op = "chunkBegin" /\ r = "ok" /\ ChunkBegin(m.conn, m.file, Named(m))
           \/ m.op = "chunkGet" /\ r = "file" /\ ChunkGet(m.conn, m.file, Named(m))
    PROVE  V2Moves(m, r)
<1> DEFINE t == [transfer EXCEPT !.pending = Named(m)]
<1>1. /\ Transferring(m.conn, m.file) /\ transfer.pending = 0 /\ Quiet(t)
      /\ m.op = "chunkBegin" => session.push
      /\ m.op = "chunkGet" => ~session.push
  BY DEF ChunkBegin, ChunkGet, Uploading, Downloading
<1>2. /\ Owns(m.conn) /\ SameProgress(session', session) /\ UNCHANGED tree
      /\ transfer # NoTransfer /\ transfer.file = m.file /\ transfer' = t
      /\ transfer \in TransferRecord /\ transfer' # NoTransfer
  BY <1>1, V2QuietServes
<1>3. /\ transfer'.file = transfer.file /\ transfer'.hash = transfer.hash
      /\ transfer'.pending = Named(m) /\ Stays
  BY <1>2 DEF TransferRecord, Stays
<1> HIDE DEF t
<1> QED
  BY <1>1, <1>2, <1>3 DEF V2Moves

\* The chunk that was on its way is stored at the receiver, here or there.
LEMMA V2ChunkDoneServes ==
    ASSUME V2IInv, NEW m, Named(m) \in Nat, V2IInv',
           \/ /\ m.op = "chunkCommit" /\ ChunkCommit(m.conn, m.file, Named(m), m.file)
              /\ cached' = cached \cup {Chunk(m.file, transfer.hash, Named(m))}
           \/ m.op = "chunkVerified" /\ ChunkVerified(m.conn, m.file, Named(m)) /\ UNCHANGED cached
    PROVE  V2Moves(m, "ok")
<1>1. CASE m.op = "chunkVerified"
  <2> DEFINE t == [transfer EXCEPT !.served = @ \cup {Named(m)}, !.pending = 0]
  <2>1. /\ Transferring(m.conn, m.file) /\ transfer.pending = Named(m) /\ Quiet(t)
        /\ ~session.push /\ UNCHANGED cached
    BY <1>1 DEF ChunkVerified, Downloading
  <2>2. /\ Owns(m.conn) /\ SameProgress(session', session) /\ UNCHANGED tree
        /\ transfer # NoTransfer /\ transfer.file = m.file /\ transfer' = t
        /\ transfer \in TransferRecord /\ transfer' # NoTransfer
    BY <2>1, V2QuietServes
  <2>3. /\ transfer'.file = transfer.file /\ transfer'.hash = transfer.hash
        /\ transfer'.pending = 0
    BY <2>2 DEF TransferRecord
  <2> HIDE DEF t
  <2> QED
    BY <1>1, <2>1, <2>2, <2>3 DEF V2Moves
<1>2. CASE m.op = "chunkCommit"
  <2> DEFINE j == Named(m)
  <2> DEFINE t == [transfer EXCEPT !.stored[j] = transfer.received.data, !.missing = @ \ {j},
                                   !.pending = 0, !.received = NoFile]
  <2>1. /\ Transferring(m.conn, m.file) /\ transfer.pending = j /\ j # 0 /\ Quiet(t)
        /\ session.push /\ transfer.received.data = transfer.hashes[j]
        /\ cached' = cached \cup {Chunk(m.file, transfer.hash, j)}
    BY <1>2 DEF ChunkCommit, Uploading, Publishes
  <2>2. /\ Owns(m.conn) /\ SameProgress(session', session) /\ UNCHANGED tree
        /\ transfer # NoTransfer /\ transfer.file = m.file /\ transfer' = t
        /\ transfer \in TransferRecord /\ transfer' # NoTransfer
        /\ GoodTransfer(transfer, session.push) /\ Size[transfer.hash] \in Nat
    BY <2>1, V2QuietServes
  <2>3. j \in transfer.missing /\ j \in Chunks(transfer.hash)
    <3>1. j \in transfer.missing /\ transfer.missing \subseteq Fetched(transfer)
      BY <2>1, <2>2 DEF GoodTransfer
    <3>2. /\ transfer.nextPage \in Nat /\ transfer.pageStart \in Nat
          /\ transfer.nextPage <= Size[transfer.hash]
      BY <2>2 DEF GoodTransfer, TransferRecord
    <3> QED
      BY <2>2, <3>1, <3>2 DEF Fetched, Chunks
  <2>4. /\ transfer'.file = transfer.file /\ transfer'.hash = transfer.hash
        /\ transfer'.hashes = transfer.hashes /\ transfer'.pending = 0
        /\ transfer'.missing = transfer.missing \ {j}
        /\ transfer'.stored = [transfer.stored EXCEPT ![j] = transfer.received.data]
    BY <2>2 DEF TransferRecord
  <2> HIDE DEF t
  <2> QED
    BY <1>2, <2>1, <2>2, <2>3, <2>4 DEF V2Moves
<1> QED
  BY <1>1, <1>2

\* FILE-COMMIT and FILE-VERIFIED complete the file, or end the session.
LEMMA V2CompletesServes ==
    ASSUME V2IInv, NEW m, m.file \in Paths, NEW r,
           \/ /\ m.op = "fileCommit" /\ FileCommit(m.conn, m.file, r)
              /\ IF r = "ok" THEN cached' \subseteq cached ELSE UNCHANGED cached
           \/ m.op = "fileVerified" /\ r = "ok" /\ FileVerified(m.conn, m.file) /\ UNCHANGED cached
    PROVE  V2Ends(m, r) \/ V2Completes(m, r)
<1>1. Transferring(m.conn, m.file) /\ transfer' = NoTransfer
  BY DEF FileCommit, CanCommitFile, FileVerified, Uploading, Downloading
<1>2. /\ session \in SessionRecord /\ Owns(m.conn) /\ transfer # NoTransfer
      /\ transfer.file = m.file
  BY <1>1, TransferFile DEF Transferring
<1>3. CASE m.op = "fileVerified"
  <2>1. /\ session' = [session EXCEPT !.pending = NoPath, !.done = @ \cup {m.file}, !.idle = 0]
        /\ ~session.push /\ UNCHANGED <<tree, cached>> /\ r = "ok"
    BY <1>3 DEF FileVerified, Downloading
  <2> QED
    BY <1>1, <1>2, <1>3, <2>1, VerifiedSession DEF V2Completes
<1>4. CASE m.op = "fileCommit" /\ r = "ok"
  <2>1. /\ session' = [session EXCEPT !.prepared = TRUE, !.pending = NoPath,
                                      !.done = @ \cup {m.file}, !.idle = 0]
        /\ session.push /\ cached' \subseteq cached
    BY <1>4 DEF FileCommit, CanCommitFile, Uploading
  <2> QED
    BY <1>1, <1>2, <1>4, <2>1, InstalledSession DEF V2Completes
<1>5. CASE m.op = "fileCommit" /\ r # "ok"
  <2>1. Abort(m.conn) /\ r = "error" /\ UNCHANGED cached
    BY <1>5 DEF FileCommit
  <2> QED
    BY <1>1, <1>2, <2>1 DEF Abort, V2Ends, Ends
<1> QED
  BY <1>3, <1>4, <1>5

\* The page of a transfer is one a peer may announce.
LEMMA PageIsAnnounced ==
    ASSUME V2IInv, transfer # NoTransfer, transfer.nextPage < Size[transfer.hash]
    PROVE  PageOf(transfer) \in PageHashes(transfer.hash)
<1>1. /\ transfer \in TransferRecord /\ transfer.hash \in Versions
      /\ transfer.nextPage \in Nat /\ PageChunks \in Nat \ {0} /\ Size[transfer.hash] \in Nat
  BY VersionsAssumption, PageAssumption DEF V2IInv, TransferIsGood, GoodTransfer, TransferRecord
<1> DEFINE a == transfer.nextPage
<1> DEFINE n == PageEnd(transfer) - a
<1> DEFINE V == {v \in Versions : Size[v] = Size[transfer.hash]}
<1>2. n \in 1 .. PageChunks /\ a \in 0 .. Size[transfer.hash] /\ a + n = PageEnd(transfer)
      /\ PageEnd(transfer) <= Size[transfer.hash] /\ PageEnd(transfer) \in Nat
  BY <1>1 DEF PageEnd
<1>3. PageOf(transfer) \in [a + 1 .. a + n -> V]
  BY <1>1, <1>2 DEF PageOf, Page
<1>4. DOMAIN PageOf(transfer) \subseteq Chunks(transfer.hash)
  BY <1>1, <1>2 DEF PageOf, Page, Chunks
<1> DEFINE S == {[b + 1 .. b + k -> V] : b \in 0 .. Size[transfer.hash], k \in 1 .. PageChunks}
<1>5. PageHashes(transfer.hash) = {h \in UNION S : DOMAIN h \subseteq Chunks(transfer.hash)}
  BY DEF PageHashes
<1> HIDE DEF a, n, V
<1>6. [a + 1 .. a + n -> V] \in S
  BY <1>2
<1> HIDE DEF S
<1> QED
  BY <1>3, <1>4, <1>5, <1>6

\* A request of one of the handlers of files keeps the engine's invariant.
LEMMA V2FileDispatchInv ==
    ASSUME V2IInv, NEW m, V2Carries(m), m.kind = "request", m.op \in FileOps, NEW r,
           Dispatch2(m, r), ~Fails(m.conn)
    PROVE  V2IInv'
<1>1. m.conn \in Conns /\ m.file \in Paths
  BY DEF V2Carries
<1>2. CASE m.op \in {"description", "describe"}
  <2>1. m.op = "description" => StoredOf(m.file, m.data) \in AnyStored(m.data) /\ m.data \in Versions
    BY DEF V2Carries, StoredOf, AnyStored
  <2> QED
    BY <1>1, <1>2, <2>1, DescribedInv DEF Dispatch2
<1>3. CASE m.op \in {"fileCommit", "fileVerified"}
  BY <1>1, <1>3, FileCommitInv, FileVerifiedInv DEF Dispatch2
<1>4. CASE m.op = "hashes"
  <2>1. transfer # NoTransfer /\ Hashes(m.conn, m.file, Named(m), PageOf(transfer))
    BY <1>4 DEF Dispatch2
  <2>2. Transferring(m.conn, m.file) /\ transfer.nextPage < Size[transfer.hash]
    BY <2>1 DEF Hashes, Uploading, PageExpected
  <2>3. PageOf(transfer) \in PageHashes(transfer.hash)
    BY <2>1, <2>2, PageIsAnnounced
  <2> QED
    BY <1>1, <2>1, <2>2, <2>3, HashesInv
<1>5. CASE m.op = "hashesGet"
  <2>1. HashesGet(m.conn, m.file, Named(m)) /\ Transferring(m.conn, m.file)
    BY <1>5 DEF Dispatch2, HashesGet, Downloading
  <2> QED
    BY <1>1, <2>1, HashesGetInv
<1>6. CASE m.op \in {"chunkBegin", "chunkCommit", "chunkGet", "chunkVerified"}
  <2>1. \/ ChunkBegin(m.conn, m.file, Named(m)) \/ ChunkGet(m.conn, m.file, Named(m))
        \/ ChunkCommit(m.conn, m.file, Named(m), m.file)
        \/ ChunkVerified(m.conn, m.file, Named(m))
    BY <1>6 DEF Dispatch2
  <2>2. Transferring(m.conn, m.file)
    BY <2>1 DEF ChunkBegin, ChunkGet, ChunkCommit, ChunkVerified, Uploading, Downloading
  <2>3. GoodTransfer(transfer, session.push) /\ transfer \in TransferRecord
        /\ Size[transfer.hash] \in Nat
    BY <2>2, TransferringFacts
  <2>4. Named(m) \in transfer.missing \cup Fetched(transfer)
    BY <2>1, <2>3 DEF ChunkBegin, ChunkGet, ChunkCommit, ChunkVerified, Uploading, Downloading,
                      GoodTransfer
  <2>5. Named(m) \in Chunks(transfer.hash)
    <3>1. transfer.nextPage \in Nat /\ transfer.pageStart \in Nat
      BY <2>3 DEF TransferRecord
    <3>2. transfer.missing \subseteq Fetched(transfer) /\ transfer.nextPage <= Size[transfer.hash]
      BY <2>3 DEF GoodTransfer
    <3> QED
      BY <2>3, <2>4, <3>1, <3>2 DEF Fetched, Chunks
  <2> QED
    BY <1>1, <2>1, <2>2, <2>5, ChunkPendingInv, ChunkCommitInv, ChunkVerifiedInv
<1> QED
  BY <1>2, <1>3, <1>4, <1>5, <1>6 DEF FileOps, MoveOps

\* So does every request.
LEMMA V2DispatchInv ==
    ASSUME V2IInv, client \in V2ClientRecord, NEW m, V2Carries(m), m.kind = "request", NEW r,
           Dispatch2(m, r)
    PROVE  V2IInv'
<1>1. m.conn \in Conns /\ m.op \in FileOps \cup {"start", "finish"}
      /\ (m.op = "start" => m.manifest \in Trees)
  BY DEF V2Carries
<1>2. CASE Fails(m.conn)
  BY <1>2, FailsInv DEF Fails
<1>3. CASE ~Fails(m.conn) /\ m.op = "start"
  <2>1. JobOf(m) \in AnyJob
    BY <1>1, <1>3 DEF JobOf, AnyJob, V2ClientRecord
  <2>2. V2Start(m.conn, JobOf(m), r)
    BY <1>3 DEF Dispatch2, JobOf
  <2> QED
    BY <1>1, <2>1, <2>2, V2StartInv
<1>4. CASE ~Fails(m.conn) /\ m.op = "finish"
  BY <1>1, <1>4, V2FinishInv DEF Dispatch2
<1>5. CASE ~Fails(m.conn) /\ m.op \in FileOps
  BY <1>5, V2FileDispatchInv
<1> QED
  BY <1>1, <1>2, <1>3, <1>4, <1>5

\* Whatever the request, it does one of the six.
LEMMA V2Serves ==
    ASSUME V2IInv, client \in V2ClientRecord, Faithful(tree), NEW m, V2Carries(m),
           m.kind = "request", NEW r, Dispatch2(m, r), ServerCache(m, r)
    PROVE  V2Does(m, r)
<1>1. m.conn \in Conns /\ m.op \in FileOps \cup {"start", "finish"} /\ V2IInv'
      /\ (m.op \in FileOps => m.file \in Paths)
  BY V2DispatchInv DEF V2Carries
<1>2. /\ ~(m.op \in {"fileCommit", "chunkCommit"} /\ r = "ok") => UNCHANGED cached
      /\ m.op = "fileCommit" /\ r = "ok" => cached' \subseteq cached
      /\ m.op = "chunkCommit" /\ r = "ok" =>
            cached' = cached \cup {Chunk(m.file, transfer.hash, Named(m))}
  BY DEF ServerCache, Clears
<1>3. CASE r = "error" /\ Fails(m.conn)
  BY <1>2, <1>3, V2RefuseServes DEF Fails, V2Does
<1>4. CASE ~(r = "error" /\ Fails(m.conn)) /\ m.op = "start"
  <2>1. V2Start(m.conn, JobOf(m), r)
    BY <1>4 DEF Dispatch2, JobOf
  <2> QED
    BY <1>2, <1>4, <2>1, V2StartServes DEF V2Does
<1>5. CASE ~(r = "error" /\ Fails(m.conn)) /\ m.op = "finish"
  BY <1>2, <1>5, V2FinishServes DEF Dispatch2, V2Does
<1>6. CASE ~(r = "error" /\ Fails(m.conn)) /\ m.op \in {"description", "describe"}
  <2>1. /\ m.file \in Paths /\ UNCHANGED cached
        /\ \/ /\ m.op = "description" /\ r = "ok" /\ m.data \in Versions
              /\ Description(m.conn, m.file, m.data, StoredOf(m.file, m.data))
           \/ m.op = "describe" /\ r = "description" /\ Describe(m.conn, m.file)
    BY <1>1, <1>2, <1>6 DEF Dispatch2, FileOps, V2Carries
  <2> QED
    BY <2>1, V2DescribesServes DEF V2Does
<1>7. CASE ~(r = "error" /\ Fails(m.conn)) /\ m.op \in {"fileCommit", "fileVerified"}
  <2>1. m.file \in Paths
    BY <1>1, <1>7 DEF FileOps
  <2>2. \/ /\ m.op = "fileCommit" /\ FileCommit(m.conn, m.file, r)
           /\ IF r = "ok" THEN cached' \subseteq cached ELSE UNCHANGED cached
        \/ m.op = "fileVerified" /\ r = "ok" /\ FileVerified(m.conn, m.file) /\ UNCHANGED cached
    BY <1>2, <1>7 DEF Dispatch2
  <2> QED
    BY <2>1, <2>2, V2CompletesServes DEF V2Does
<1>8. CASE ~(r = "error" /\ Fails(m.conn)) /\ m.op \in MoveOps
  <2>1. Named(m) \in Nat
    BY <1>8, NamedChunk
  <2>2. CASE m.op = "hashes"
    BY <1>1, <1>2, <1>8, <2>2, V2HashesServes DEF Dispatch2, V2Does
  <2>3. CASE m.op = "hashesGet"
    BY <1>1, <1>2, <1>8, <2>3, V2HashesGetServes DEF Dispatch2, V2Does
  <2>4. CASE m.op \in {"chunkBegin", "chunkGet"}
    BY <1>1, <1>2, <1>8, <2>4, V2ChunkPendingServes DEF Dispatch2, V2Does
  <2>5. CASE m.op \in {"chunkCommit", "chunkVerified"}
    BY <1>1, <1>2, <1>8, <2>1, <2>5, V2ChunkDoneServes DEF Dispatch2, V2Does
  <2> QED
    BY <1>8, <2>2, <2>3, <2>4, <2>5 DEF MoveOps
<1> QED
  BY <1>1, <1>3, <1>4, <1>5, <1>6, <1>7, <1>8 DEF FileOps

\* Requests keep the export faithful: what they put there is a directory, or
\* the described bytes, which are those of the manifest.
LEMMA V2DispatchFaithful ==
    ASSUME V2IInv, Faithful(tree), V2Sessions, NEW m, V2Carries(m), m.kind = "request",
           NEW r, Dispatch2(m, r)
    PROVE  Faithful(tree')
<1> SUFFICES ASSUME NEW p \in Changed
             PROVE  tree'[p].ver = tree'[p].data
  BY DEF Faithful, Changed
<1>0. \A v : File(v, v).ver = File(v, v).data /\ None.ver = None.data /\ Dir.ver = Dir.data
  BY DEF File, None, Dir
<1>1. m.conn \in Conns /\ (m.op \in FileOps => m.file \in Paths) /\ TypeOK /\ tree' # tree
  BY DEF V2Carries, V2IInv, Changed
<1>2. (FileCommit(m.conn, m.file, r) /\ m.op = "fileCommit") \/ Finish(m.conn, r)
  BY <1>1 DEF Dispatch2, V2Start, Start, V2Finish, Fails, Refuse, Description, Describe, Hashes,
              HashesGet, ChunkBegin, ChunkCommit, ChunkGet, ChunkVerified, FileVerified, Quiet
<1>3. CASE FileCommit(m.conn, m.file, r) /\ m.op = "fileCommit"
  <2>1. m.file \in Paths
    BY <1>1, <1>3 DEF FileOps
  <2>2. \/ tree'[p] \in {None, Dir}
        \/ tree'[p] = File(session.source[m.file].ver, transfer.hash)
    BY <1>1, <1>3, <2>1, FileCommitIsPlanned
  <2>3. transfer.hash = session.source[m.file].ver
    BY <1>3 DEF FileCommit, CanCommitFile, Uploading, Transferring, MayTransfer, MayRequest, Owns,
                V2Sessions
  <2> QED
    BY <1>0, <2>2, <2>3
<1>4. CASE Finish(m.conn, r)
  BY <1>0, <1>1, <1>4, FinishIsPlanned
<1> QED
  BY <1>2, <1>3, <1>4

(***************************************************************************)
(* Requests are served.                                                    *)
(***************************************************************************)
ChunkFor(m) == Name(Msg("resource", m.conn, "pull", m.file, Blank, transfer.hash), m.chunks)

\* Message m is served with reply r.
V2Handled(m, r) ==
    /\ m \in net /\ m.kind = "request" /\ m.conn \in up
    /\ Dispatch2(m, r) /\ ServerCache(m, r)
    /\ net' = (net \ {m}) \cup {ReplyTo(m, r)} \cup (IF r = "file" THEN {ChunkFor(m)} ELSE {})
    /\ UNCHANGED <<local, client, edits, up, part, losses>>

\* What is sent in answer.
LEMMA V2AnswerFields ==
    ASSUME NEW m, NEW r
    PROVE  /\ ReplyTo(m, r).kind = "reply" /\ ReplyTo(m, r).conn = m.conn
           /\ ReplyTo(m, r).op = r
           /\ r = "manifest" => ReplyTo(m, r).manifest = tree
           /\ r = "description" => ReplyTo(m, r).data = transfer'.hash
           /\ r = "missing" => ReplyTo(m, r).chunks = transfer'.missing
           /\ ChunkFor(m).kind = "resource" /\ ChunkFor(m).conn = m.conn
           /\ ChunkFor(m).op = "pull" /\ ChunkFor(m).data = transfer.hash
           /\ ChunkFor(m).file = m.file /\ ChunkFor(m).chunks = m.chunks
<1>1. /\ ReplyTo(m, r).kind = "reply" /\ ReplyTo(m, r).conn = m.conn
      /\ ReplyTo(m, r).op = r
      /\ r = "manifest" => ReplyTo(m, r).manifest = tree
      /\ r = "description" => ReplyTo(m, r).data = transfer'.hash
      /\ r = "missing" => ReplyTo(m, r).chunks = transfer'.missing
  BY DEF ReplyTo, Msg
<1>2. /\ ChunkFor(m).kind = "resource" /\ ChunkFor(m).conn = m.conn
      /\ ChunkFor(m).op = "pull" /\ ChunkFor(m).data = transfer.hash
      /\ ChunkFor(m).file = m.file /\ ChunkFor(m).chunks = m.chunks
  BY DEF ChunkFor, Name, Msg
<1> QED
  BY <1>1, <1>2

\* What is known of a request, and of what it does.
LEMMA V2HandledFacts ==
    ASSUME CommandInv, NEW m, NEW r, V2Handled(m, r)
    PROVE  /\ m \in net /\ m.kind = "request" /\ m.conn \in up /\ m.conn \in Conns
           /\ V2Carries(m) /\ Works(m) /\ V2Does(m, r) /\ V2IInv' /\ Faithful(tree')
           /\ UNCHANGED <<local, client, edits, up, part, losses>>
           /\ \A n \in net' : n \in net \/ n = ReplyTo(m, r) \/ (r = "file" /\ n = ChunkFor(m))
           /\ m \notin net'
<1>1. /\ m \in net /\ m.kind = "request" /\ m.conn \in up /\ Dispatch2(m, r) /\ ServerCache(m, r)
      /\ UNCHANGED <<local, client, edits, up, part, losses>>
  BY DEF V2Handled
<1>2. V2Carries(m) /\ m.conn \in Conns /\ Works(m)
  BY <1>1 DEF CommandInv, V2Typed, V2Carries, Works
<1>3. V2IInv /\ client \in V2ClientRecord /\ Faithful(tree) /\ V2Sessions
  BY DEF CommandInv, V2Typed
<1>4. V2Does(m, r)
  BY <1>1, <1>2, <1>3, V2Serves
<1>5. V2IInv' /\ Faithful(tree')
  BY <1>1, <1>2, <1>3, V2DispatchInv, V2DispatchFaithful
<1>6. /\ \A n \in net' : n \in net \/ n = ReplyTo(m, r) \/ (r = "file" /\ n = ChunkFor(m))
      /\ m \notin net'
  BY <1>1, V2AnswerFields DEF V2Handled
<1> QED
  BY <1>1, <1>2, <1>4, <1>5, <1>6

\* Only a page that was announced is answered with what is missing of it, and
\* only CHUNK-GET with a chunk.
LEMMA V2AnswerKinds ==
    ASSUME CommandInv, NEW m, NEW r, V2Handled(m, r)
    PROVE  /\ r = "missing" => V2Moves(m, r) /\ m.op = "hashes"
           /\ r = "file" => V2Moves(m, r) /\ m.op = "chunkGet" /\ ~session.push /\ ~client.push
           /\ r = "description" => V2Describes(m, r) /\ m.op = "describe"
           /\ r = "manifest" => V2Opens(m, r)
<1>1. V2Does(m, r)
  BY V2HandledFacts
<1>2. /\ r = "missing" => V2Moves(m, r) /\ m.op = "hashes"
      /\ r = "description" => V2Describes(m, r) /\ m.op = "describe"
      /\ r = "manifest" => V2Opens(m, r)
      /\ r = "file" => V2Moves(m, r) /\ m.op = "chunkGet" /\ ~session.push
  BY <1>1 DEF V2Does, V2Ignores, V2Opens, V2Ends, V2Describes, V2Moves, V2Completes, Opens, Ends
<1>3. r = "file" => ~client.push
  BY <1>2 DEF V2Moves, Owns, CommandInv, V2Sessions
<1> QED
  BY <1>2, <1>3

\* A chunk is cached where it was asked for, and of the version described.
LEMMA V2HandledCache ==
    ASSUME CommandInv, NEW m, NEW r, V2Handled(m, r), NEW x \in cached' \ cached
    PROVE  /\ V2Moves(m, r) /\ m.op = "chunkCommit" /\ session.push /\ client.push
           /\ Owns(m.conn) /\ transfer # NoTransfer /\ transfer.file = m.file
           /\ x = Chunk(m.file, transfer.hash, Named(m))
           /\ Named(m) \in Chunks(transfer.hash) /\ transfer.pending = Named(m)
           /\ m.file \in Paths /\ transfer.hash \in Versions /\ m.chunks = {Named(m)}
<1>1. V2Does(m, r) /\ V2Carries(m) /\ m.kind = "request"
  BY V2HandledFacts
<1>2. /\ V2Moves(m, r) /\ m.op = "chunkCommit" /\ session.push /\ Owns(m.conn)
      /\ transfer # NoTransfer /\ transfer.file = m.file
      /\ x = Chunk(m.file, transfer.hash, Named(m)) /\ Named(m) \in Chunks(transfer.hash)
      /\ transfer.pending = Named(m)
  BY <1>1 DEF V2Does, V2Ignores, V2Opens, V2Ends, V2Describes, V2Moves, V2Completes
<1>3. client.push
  BY <1>2 DEF Owns, CommandInv, V2Sessions
<1>4. m.file \in Paths /\ m.chunks = {Named(m)}
  BY <1>1, <1>2, NamedChunk DEF V2Carries, FileOps, MoveOps
<1>5. transfer.hash \in Versions
  BY <1>2 DEF CommandInv, V2Typed, V2IInv, TransferIsGood, GoodTransfer, TransferRecord
<1> QED
  BY <1>2, <1>3, <1>4, <1>5

\* Types.
LEMMA V2HandledTyped ==
    ASSUME CommandInv, NEW m, NEW r, V2Handled(m, r)
    PROVE  V2Typed'
<1>1. /\ m \in net /\ m.conn \in Conns /\ V2Does(m, r) /\ V2IInv' /\ Faithful(tree')
      /\ UNCHANGED <<local, client, edits, up, part, losses>>
      /\ \A n \in net' : n \in net \/ n = ReplyTo(m, r) \/ (r = "file" /\ n = ChunkFor(m))
  BY V2HandledFacts
<1>2. ASSUME NEW n \in net' PROVE V2Carries(n)'
  <2>1. CASE n \in net
    BY <1>1, <2>1 DEF CommandInv, V2Typed, V2Carries, Faithful
  <2>2. CASE n = ReplyTo(m, r)
    <3>1. r = "manifest" => tree \in Trees /\ Faithful(tree)
      BY DEF CommandInv, V2Typed, V2IInv, TypeOK
    <3>2. ASSUME r = "missing" PROVE transfer'.missing \subseteq Nat
      <4>1. V2Moves(m, r)
        BY <3>2, V2AnswerKinds
      <4>2. transfer' # NoTransfer /\ transfer' \in TransferRecord
        BY <1>1, <4>1 DEF V2Moves, V2IInv, TransferIsGood, GoodTransfer
      <4> QED
        BY <4>2 DEF TransferRecord
    <3> QED
      BY <1>1, <2>2, <3>1, <3>2, V2AnswerFields DEF V2Carries, Faithful
  <2>3. CASE r = "file" /\ n = ChunkFor(m)
    BY <1>1, <2>3, V2AnswerFields, V2AnswerKinds DEF V2Carries
  <2> QED
    BY <1>1, <2>1, <2>2, <2>3
<1>3. CachedTyped'
  <2>1. \A x \in cached' \ cached : x[1] \in Paths /\ x[2] \in Versions /\ x[3] \in Chunks(x[2])
                                    /\ x = Chunk(x[1], x[2], x[3])
    BY V2HandledCache DEF Chunk
  <2>2. CachedTyped
    BY DEF CommandInv, V2Typed
  <2> QED
    BY <2>1, <2>2 DEF CachedTyped, Chunk, Chunks
<1> QED
  BY <1>1, <1>2, <1>3 DEF CommandInv, V2Typed, Faithful

\* The store that is open is what the cache holds.
LEMMA V2StoreMoves ==
    ASSUME CommandInv, NEW m, NEW r, V2Moves(m, r), session.push
    PROVE  InStore'
<1>1. InStore /\ GoodTransfer(transfer, session.push)
  BY DEF V2Moves, Owns, CommandInv, V2Sessions, V2Typed, V2IInv, TransferIsGood
<1>2. /\ transfer'.file = transfer.file /\ transfer'.hash = transfer.hash
      /\ transfer.file = m.file
  BY DEF V2Moves
<1>3. CASE m.op \in {"hashes", "chunkBegin"}
  <2>1. /\ cached' = cached /\ transfer'.stored = transfer.stored
        /\ \A j \in transfer'.missing : transfer'.hashes[j] = transfer'.hash
    BY <1>1, <1>2, <1>3 DEF V2Moves, Stays, InStore
  <2> QED
    BY <1>1, <1>2, <2>1 DEF InStore, StoredOf, CachedChunks, Chunk, Chunks
<1>4. CASE m.op = "chunkCommit"
  <2> DEFINE j == Named(m)
  <2>1. /\ j \in transfer.missing /\ j \in Chunks(transfer.hash)
        /\ transfer'.hashes = transfer.hashes /\ transfer'.missing = transfer.missing \ {j}
        /\ transfer'.stored = [transfer.stored EXCEPT ![j] = transfer.hashes[j]]
        /\ cached' = cached \cup {Chunk(transfer.file, transfer.hash, j)}
    BY <1>2, <1>4 DEF V2Moves
  <2>2. transfer.hashes[j] = transfer.hash /\ transfer.stored = StoredOf(transfer.file, transfer.hash)
    BY <1>1, <2>1 DEF InStore
  <2> HIDE DEF j
  <2>3. \A k \in Chunks(transfer.hash) \ {j} :
           k \in CachedChunks(transfer.file, transfer.hash)' <=>
              k \in CachedChunks(transfer.file, transfer.hash)
    BY <1>2, <2>1 DEF CachedChunks, Chunk, Chunks
  <2>4. j \in CachedChunks(transfer.file, transfer.hash)'
    BY <1>2, <2>1 DEF CachedChunks, Chunk, Chunks
  <2>5. StoredOf(transfer.file, transfer.hash)' = [StoredOf(transfer.file, transfer.hash)
                                                     EXCEPT ![j] = transfer.hash]
    BY <1>2, <2>3, <2>4 DEF StoredOf, Chunks
  <2> QED
    BY <1>1, <1>2, <2>1, <2>2, <2>5 DEF InStore
<1> QED
  BY <1>3, <1>4 DEF V2Moves

\* The work of sessions.
LEMMA V2HandledSessions ==
    ASSUME CommandInv, NEW m, NEW r, V2Handled(m, r)
    PROVE  V2Sessions'
<1>1. /\ m \in net /\ m.kind = "request" /\ m.conn \in up /\ V2Carries(m) /\ V2Does(m, r)
      /\ UNCHANGED <<client, up>>
  BY V2HandledFacts
<1>2. CASE V2Ignores(r)
  <2>1. InStore => InStore'
    BY <1>2 DEF V2Ignores, InStore, StoredOf, CachedChunks, Chunk, Chunks
  <2> QED
    BY <1>1, <1>2, <2>1 DEF V2Ignores, CommandInv, V2Sessions, Active, Faithful
<1>3. CASE V2Ends(m, r)
  BY <1>3 DEF V2Ends, Ends, V2Sessions, Active
<1>4. CASE V2Opens(m, r)
  <2>1. m.op = "start" /\ Opens(m, r) /\ transfer' = NoTransfer
    BY <1>4 DEF V2Opens, Opens
  <2>2. m.manifest \in Trees /\ Faithful(m.manifest) /\ Faithful(tree)
    BY <1>1, <2>1 DEF V2Carries, CommandInv, V2Typed
  <2> QED
    BY <1>1, <2>1, <2>2, OpenedSession DEF V2Sessions, Faithful
<1>5. CASE V2Describes(m, r)
  <2>1. /\ Active /\ SameJob(session', session) /\ Owns(m.conn) /\ cached' = cached
        /\ transfer'.missing = {} /\ transfer'.file = m.file
    BY <1>5 DEF V2Describes, Owns, SameProgress
  <2>2. transfer'.hash = session.source[m.file].ver
    BY <1>1, <1>5, <2>1 DEF V2Describes, CommandInv, V2Links
  <2>3. session.push => InStore'
    BY <1>5, <2>1 DEF V2Describes, InStore, StoredOf, CachedChunks, Chunk, Chunks
  <2> QED
    BY <1>1, <2>1, <2>2, <2>3 DEF CommandInv, V2Sessions, SameJob, Faithful
<1>6. CASE V2Moves(m, r)
  <2>1. /\ Active /\ SameJob(session', session) /\ transfer # NoTransfer
        /\ transfer'.hash = transfer.hash /\ transfer'.file = transfer.file
    BY <1>6 DEF V2Moves, Owns, SameProgress
  <2>2. session.push => InStore'
    BY <1>6, V2StoreMoves
  <2> QED
    BY <1>1, <2>1, <2>2 DEF CommandInv, V2Sessions, SameJob, Faithful
<1>7. CASE V2Completes(m, r)
  <2>1. Active /\ SameJob(session', session) /\ transfer' = NoTransfer
    BY <1>7 DEF V2Completes, Owns
  <2> QED
    BY <1>1, <2>1 DEF CommandInv, V2Sessions, SameJob, Faithful
<1> QED
  BY <1>1, <1>2, <1>3, <1>4, <1>5, <1>6, <1>7 DEF V2Does

\* A session that is there afterwards was there before, or was opened.
LEMMA V2HandledOwner ==
    ASSUME CommandInv, NEW m, NEW r, V2Handled(m, r), Active'
    PROVE  \/ Active /\ SameJob(session', session)
           \/ V2Ignores(r) /\ Active
           \/ V2Opens(m, r) /\ ~Active /\ session'.conn = m.conn /\ m.op = "start"
<1>1. V2Does(m, r)
  BY V2HandledFacts
<1>2. ~V2Ends(m, r)
  BY DEF V2Ends, Ends, Active
<1>3. CASE V2Ignores(r)
  BY <1>3 DEF V2Ignores, Active
<1>4. CASE V2Opens(m, r)
  BY <1>4, OpenedSession DEF V2Opens, Opens
<1>5. CASE V2Describes(m, r) \/ V2Moves(m, r) \/ V2Completes(m, r)
  BY <1>5 DEF V2Describes, V2Moves, V2Completes, Owns, SameProgress
<1> QED
  BY <1>1, <1>2, <1>3, <1>4, <1>5 DEF V2Does

\* The order of the Links.
LEMMA V2HandledLinks ==
    ASSUME CommandInv, NEW m, NEW r, V2Handled(m, r)
    PROVE  V2Links'
<1>1. /\ m \in net /\ m.kind = "request" /\ m.conn \in up
      /\ UNCHANGED <<client, up>> /\ m \notin net'
      /\ \A n \in net' : n \in net \/ n = ReplyTo(m, r) \/ (r = "file" /\ n = ChunkFor(m))
  BY V2HandledFacts
<1>2. \A n \in net' : n \in net \/ (n.conn = m.conn /\ ( \/ n.kind = "reply"
                                                         \/ n.kind = "resource" /\ n.op = "pull"))
  <2>1. /\ ReplyTo(m, r).kind = "reply" /\ ReplyTo(m, r).conn = m.conn
        /\ ChunkFor(m).kind = "resource" /\ ChunkFor(m).conn = m.conn /\ ChunkFor(m).op = "pull"
    BY V2AnswerFields
  <2> QED
    BY <1>1, <2>1
<1>3. /\ \A n \in net' : n.conn <= client'.conn
      /\ \A c \in up' : c <= client'.conn
      /\ \A n, k \in net' : Works(n) /\ Works(k) /\ k.conn = n.conn => k = n
  BY <1>1, <1>2 DEF CommandInv, V2Links, Works
<1>4. Active' => \/ Active /\ session'.conn = session.conn /\ session'.source = session.source
                 \/ ~Active /\ session'.conn = m.conn /\ m.op = "start"
  BY V2HandledOwner DEF V2Ignores, SameJob
<1>5. ASSUME NEW n \in net', n.kind = "request", n.op = "start"
      PROVE  /\ ~Owns(n.conn)'
             /\ \A k \in net' : k.conn = n.conn => k = n \/ k.kind = "close"
  <2>1. n \in net /\ n # m
    BY <1>1, <1>2, <1>5
  <2>2. n.conn # m.conn
    BY <1>1, <1>5, <2>1 DEF CommandInv, V2Links
  <2> QED
    BY <1>2, <1>4, <1>5, <2>1, <2>2 DEF CommandInv, V2Links, Owns
<1>6. ASSUME NEW n \in net', n.kind = "request", n.op = "description", Owns(n.conn)'
      PROVE  n.data = session'.source[n.file].ver
  <2>1. n \in net /\ n # m
    BY <1>1, <1>2, <1>6
  <2>2. CASE Active /\ session'.conn = session.conn /\ session'.source = session.source
    BY <1>6, <2>1, <2>2 DEF CommandInv, V2Links, Owns
  <2>3. CASE session'.conn = m.conn /\ m.op = "start"
    <3>1. n.conn = m.conn
      BY <1>6, <2>3 DEF Owns
    <3> QED
      BY <1>1, <1>6, <2>1, <2>3, <3>1 DEF CommandInv, V2Links
  <2> QED
    BY <1>4, <1>6, <2>2, <2>3 DEF Owns
<1> QED
  BY <1>3, <1>5, <1>6 DEF V2Links, Works

\* Served on another Link, a request does nothing to the session of the
\* attempt, nor to the export and the cache while that session is alive.
LEMMA V2OtherLink ==
    ASSUME CommandInv, NEW m, NEW r, V2Handled(m, r), m.conn # client.conn
    PROVE  /\ Current' = Current /\ V2Query' = V2Query /\ \A x : Answer(x)' = Answer(x)
           /\ Pulled' = Pulled /\ (V2Query \in net' <=> V2Query \in net)
           /\ Owns(client.conn)' =>
                 Owns(client.conn) /\ UNCHANGED <<session, tree, transfer, cached>>
<1>1. UNCHANGED <<client, part>> /\ V2Does(m, r)
  BY V2HandledFacts
<1>2. \A n : n.conn = client.conn => (n \in net <=> n \in net')
  BY V2AnswerFields DEF V2Handled
<1>3. V2Query' = V2Query /\ V2Query.conn = client.conn
  BY <1>1, V2QuerySays DEF V2Query, Says
<1>4. Current' = Current /\ \A x : Answer(x)' = Answer(x)
  BY <1>1, <1>2 DEF Current, Answer
<1>5. Pulled' = Pulled
  BY <1>4 DEF Pulled
<1>6. ASSUME Owns(client.conn)'
      PROVE  Owns(client.conn) /\ UNCHANGED <<session, tree, transfer, cached>>
  <2>1. ~V2Ends(m, r)
    BY <1>6 DEF V2Ends, Ends, Owns, Active
  <2>2. ~V2Opens(m, r)
    BY <1>1, <1>6, OpenedSession DEF V2Opens, Owns
  <2>3. ~V2Describes(m, r) /\ ~V2Moves(m, r) /\ ~V2Completes(m, r)
    BY <1>1, <1>6 DEF V2Describes, V2Moves, V2Completes, Owns, SameProgress, SameJob
  <2>4. V2Ignores(r)
    BY <1>1, <2>1, <2>2, <2>3 DEF V2Does
  <2> QED
    BY <1>1, <1>6, <2>4 DEF V2Ignores, Owns, Active
<1> QED
  BY <1>2, <1>3, <1>4, <1>5, <1>6

\* The attempt does not notice what is served on other Links, nor does an
\* attempt that has ended.
LEMMA V2HandledElsewhere ==
    ASSUME CommandInv, NEW m, NEW r, V2Handled(m, r), m.conn # client.conn \/ ~Running
    PROVE  V2Question' /\ V2Place' /\ V2InStep'
<1>1. UNCHANGED <<client, part>> /\ (Running' <=> Running)
  BY V2HandledFacts DEF Running
<1>2. CASE ~Running
  BY <1>1, <1>2 DEF V2Question, V2Place, V2InStep, CommandInv
<1>3. CASE m.conn # client.conn
  <2>1. /\ Current' = Current /\ V2Query' = V2Query /\ \A x : Answer(x)' = Answer(x)
        /\ Pulled' = Pulled /\ (V2Query' \in net' <=> V2Query \in net)
        /\ Owns(client.conn)' =>
              Owns(client.conn) /\ UNCHANGED <<session, tree, transfer, cached>>
    BY <1>3, V2OtherLink
  <2>2. Source' = Source /\ Target' = Target /\ PlannedFiles' = PlannedFiles /\ V2Good' = V2Good
    BY <1>1 DEF Source, Target, PlannedFiles, V2Good
  <2>3. V2Question'
    BY <1>1, <2>1 DEF CommandInv, V2Question
  <2>4. V2Place'
    BY <1>1, <2>1, <2>2 DEF CommandInv, V2Place, Chunks
  <2>5. V2InStep'
    <3> SUFFICES ASSUME Owns(client.conn)', Running PROVE V2InStep'
      BY <1>1 DEF V2InStep
    <3>1. (V2Before <=> V2Before') /\ (V2After <=> V2After')
      BY <1>1, <2>1, <2>2 DEF V2Before, V2After, ServesChunk
    <3>2. Answer(V2Good)' = Answer(V2Good)
      BY <2>1, <2>2
    <3> QED
      BY <1>1, <2>1, <2>2, <3>1, <3>2 DEF CommandInv, V2InStep
  <2> QED
    BY <2>3, <2>4, <2>5
<1> QED
  BY <1>2, <1>3

\* A request on the Link of a running attempt is its question.
LEMMA V2AtHand ==
    ASSUME CommandInv, NEW m, NEW r, V2Handled(m, r), m.conn = client.conn, Running
    PROVE  /\ m = V2Query /\ V2Query \in net /\ Current = {m}
           /\ client.pc \in (FilePlaces \ {"page", "receive", "send"}) \cup {"start", "finish"}
           /\ Says(m, client, part)
           /\ V2Query' = V2Query /\ V2Query' \notin net'
           /\ \A n \in Current' : n = ReplyTo(m, r) \/ (r = "file" /\ n = ChunkFor(m))
<1>1. /\ m \in Current /\ m.kind = "request" /\ UNCHANGED <<client, part>> /\ m \notin net'
      /\ \A n \in net' : n \in net \/ n = ReplyTo(m, r) \/ (r = "file" /\ n = ChunkFor(m))
  BY V2HandledFacts DEF Current
<1>2. m = V2Query /\ V2Query \in net /\ Current = {V2Query}
  BY <1>1 DEF CommandInv, V2Question, Current, Pulled
<1>3. Says(m, client, part)
  BY <1>2, V2QuerySays
<1>4. client.pc \notin {"plan", "next", "page", "receive", "send"}
  BY <1>1, <1>2, <1>3 DEF CommandInv, V2Question, Says
<1>5. client.pc \in (FilePlaces \ {"page", "receive", "send"}) \cup {"start", "finish"}
  BY <1>4 DEF CommandInv, V2Typed, V2ClientRecord, V2Places, Running, Ended
<1>6. V2Query' = V2Query
  BY <1>1 DEF V2Query
<1>7. \A n \in Current' : n = ReplyTo(m, r) \/ (r = "file" /\ n = ChunkFor(m))
  BY <1>1, <1>2 DEF Current
<1> QED
  BY <1>1, <1>2, <1>3, <1>5, <1>6, <1>7

\* What the question of a running attempt is tells where the attempt is.
LEMMA V2OpAtHand ==
    ASSUME NEW m, Says(m, client, part),
           client.pc \in (FilePlaces \ {"page", "receive", "send"}) \cup {"start", "finish"}
    PROVE  /\ m.op = "start" => client.pc = "start" /\ m.manifest = client.scan
           /\ m.op \in {"description", "describe"} => client.pc = "describe"
           /\ m.op = "description" => client.push /\ m.data = part.hash
           /\ m.op \in {"hashes", "hashesGet"} => client.pc = "hashes"
           /\ m.op = "chunkBegin" => client.pc = "begin"
           /\ m.op = "chunkGet" => client.pc = "get"
           /\ m.op = "chunkCommit" => client.pc = "commit"
           /\ m.op = "chunkVerified" => client.pc = "verified"
           /\ m.op \in {"fileCommit", "fileVerified"} => client.pc = "file"
           /\ m.op = "finish" => client.pc = "finish"
           /\ m.op \in FileOps => m.file = client.file
           /\ m.op \in {"chunkBegin", "chunkGet", "chunkCommit", "chunkVerified"} =>
                 m.chunks = {part.chunk}
<1>1. client.pc \in {"describe", "hashes", "begin", "commit", "get", "verified", "file",
                     "start", "finish"}
  BY DEF FilePlaces, ChunkPlaces
<1>2. CASE client.pc \in {"describe", "hashes"}
  BY <1>2 DEF Says, FileOps, MoveOps
<1>3. CASE client.pc \in {"begin", "commit", "get", "verified"}
  BY <1>3 DEF Says, FileOps, MoveOps
<1>4. CASE client.pc \in {"file", "start", "finish"}
  BY <1>4 DEF Says, FileOps, MoveOps, FilePlaces, ChunkPlaces
<1> QED
  BY <1>1, <1>2, <1>3, <1>4

\* The session that is asked is the one of the plan, and stands before the
\* question.
LEMMA V2AskedSession ==
    ASSUME CommandInv, NEW m, NEW r, V2Handled(m, r), m.conn = client.conn, Running,
           Owns(client.conn), client.pc # "start"
    PROVE  /\ session.source = Source /\ session.destination = Target /\ V2Before
           /\ session.push = client.push
BY V2AtHand DEF CommandInv, V2InStep, V2Sessions, Owns

\* The chunk a pull is sent is the one it asked for, of the described file,
\* and the description is that of the manifest.
LEMMA V2AnswerIsScanned ==
    ASSUME CommandInv, NEW m, NEW r, V2Handled(m, r), m.conn = client.conn, Running
    PROVE  /\ r = "file" =>
                 /\ client.pc = "get" /\ m.chunks = {part.chunk} /\ transfer.hash = part.hash
                 /\ m.file = client.file
           /\ r = "description" => transfer'.hash = Source[client.file].ver
<1>1. /\ client.pc \in (FilePlaces \ {"page", "receive", "send"}) \cup {"start", "finish"}
      /\ Says(m, client, part) /\ m = V2Query /\ V2Query \in net
  BY V2AtHand
<1>2. ASSUME r = "file"
      PROVE  /\ client.pc = "get" /\ m.chunks = {part.chunk} /\ transfer.hash = part.hash
             /\ m.file = client.file
  <2>1. V2Moves(m, r) /\ m.op = "chunkGet" /\ Owns(client.conn)
    BY <1>2, V2AnswerKinds DEF V2Moves
  <2>2. client.pc = "get" /\ m.chunks = {part.chunk} /\ m.file = client.file
    BY <1>1, <2>1, V2OpAtHand DEF FileOps, MoveOps
  <2>3. V2Before
    BY <2>1, <2>2, V2AskedSession
  <2>4. transfer.hash = Source[client.file].ver
    BY <2>2, <2>3 DEF V2Before, ServesChunk, FilePlaces, ChunkPlaces
  <2>5. part.hash = Source[client.file].ver
    BY <2>2, V2FileFacts DEF FilePlaces, ChunkPlaces
  <2> QED
    BY <2>2, <2>4, <2>5
<1>3. ASSUME r = "description" PROVE transfer'.hash = Source[client.file].ver
  <2>1. V2Describes(m, r) /\ m.op = "describe" /\ Owns(client.conn)
    BY <1>3, V2AnswerKinds DEF V2Describes
  <2>2. client.pc = "describe" /\ m.file = client.file
    BY <1>1, <2>1, V2OpAtHand DEF FileOps
  <2>3. session.source = Source
    BY <2>1, <2>2, V2AskedSession
  <2> QED
    BY <2>1, <2>2, <2>3 DEF V2Describes
<1> QED
  BY <1>2, <1>3

\* Where the session of the attempt is when it has served its question.
LEMMA V2HandledAfter ==
    ASSUME CommandInv, NEW m, NEW r, V2Handled(m, r), m.conn = client.conn, Running,
           V2Describes(m, r) \/ V2Moves(m, r) \/ V2Completes(m, r)
    PROVE  client.pc # "start" /\ V2After' /\ SameJob(session', session)
           /\ session'.stale = session.stale /\ Owns(client.conn)
<1>1. /\ client.pc \in (FilePlaces \ {"page", "receive", "send"}) \cup {"start", "finish"}
      /\ Says(m, client, part) /\ m = V2Query /\ V2Query \in net
  BY V2AtHand
<1>2. UNCHANGED <<client, part>> /\ V2Carries(m) /\ m.kind = "request"
  BY V2HandledFacts
<1>3. Source' = Source
  BY <1>2 DEF Source
<1>4. CASE V2Describes(m, r)
  <2>1. /\ Owns(client.conn) /\ SameProgress(session', session) /\ transfer' # NoTransfer
        /\ m.op \in {"description", "describe"} /\ transfer'.file = m.file
        /\ transfer'.pending = 0
    BY <1>4 DEF V2Describes
  <2>2. client.pc = "describe" /\ m.file = client.file
    BY <1>1, <2>1, V2OpAtHand DEF FileOps
  <2>3. session.source = Source /\ V2Before
    BY <2>1, <2>2, V2AskedSession
  <2>4. transfer'.hash = Source[client.file].ver
    <3>1. CASE m.op = "describe"
      BY <1>4, <2>2, <2>3, <3>1 DEF V2Describes
    <3>2. CASE m.op = "description"
      <4>1. client.push /\ m.data = part.hash
        BY <1>1, <3>2, V2OpAtHand
      <4>2. part.hash = Source[client.file].ver
        BY <2>2, <4>1, V2FileFacts DEF FilePlaces
      <4> QED
        BY <1>4, <3>2, <4>1, <4>2 DEF V2Describes
    <3> QED
      BY <2>1, <3>1, <3>2
  <2>5. session'.done = client.done
    BY <2>1, <2>3 DEF SameProgress, V2Before
  <2>6. V2After'
    BY <1>2, <1>3, <2>1, <2>2, <2>4, <2>5 DEF V2After, ServesChunk
  <2> QED
    BY <2>1, <2>2, <2>6 DEF SameProgress
<1>5. CASE V2Moves(m, r)
  <2>1. /\ Owns(client.conn) /\ SameProgress(session', session) /\ transfer' # NoTransfer
        /\ m.op \in MoveOps /\ transfer'.file = transfer.file /\ transfer'.hash = transfer.hash
        /\ m.op \in {"hashes", "hashesGet", "chunkCommit", "chunkVerified"} =>
              transfer'.pending = 0
        /\ m.op \in {"chunkBegin", "chunkGet"} => transfer'.pending = Named(m)
    BY <1>5 DEF V2Moves, MoveOps
  <2>2. /\ m.op \in {"hashes", "hashesGet"} => client.pc = "hashes"
        /\ m.op = "chunkBegin" => client.pc = "begin"
        /\ m.op = "chunkGet" => client.pc = "get"
        /\ m.op = "chunkCommit" => client.pc = "commit"
        /\ m.op = "chunkVerified" => client.pc = "verified"
        /\ m.op \in {"chunkBegin", "chunkGet", "chunkCommit", "chunkVerified"} =>
                 m.chunks = {part.chunk}
    BY <1>1, V2OpAtHand
  <2>3. client.pc \in {"hashes", "begin", "get", "commit", "verified"}
    BY <2>1, <2>2 DEF MoveOps
  <2>4. session.source = Source /\ V2Before
    BY <2>1, <2>3, V2AskedSession
  <2>5. /\ session.done = client.done /\ transfer.file = client.file
        /\ transfer.hash = Source[client.file].ver
    BY <2>3, <2>4 DEF V2Before, ServesChunk, FilePlaces, ChunkPlaces
  <2>6. m.op \in {"chunkBegin", "chunkGet"} => Named(m) = part.chunk
    BY <1>2, <2>1, <2>2, NamedChunk
  <2>7. session'.done = client.done
    BY <2>1, <2>5 DEF SameProgress
  <2>8. V2After'
    BY <1>2, <1>3, <2>1, <2>2, <2>5, <2>6, <2>7 DEF V2After, ServesChunk, MoveOps
  <2> QED
    BY <2>1, <2>3, <2>8 DEF SameProgress
<1>6. CASE V2Completes(m, r)
  <2>1. /\ Owns(client.conn) /\ SameJob(session', session) /\ transfer' = NoTransfer
        /\ m.op \in {"fileCommit", "fileVerified"} /\ session'.stale = session.stale
        /\ session'.done = session.done \cup {m.file}
    BY <1>6 DEF V2Completes
  <2>2. client.pc = "file" /\ m.file = client.file
    BY <1>1, <2>1, V2OpAtHand DEF FileOps
  <2>3. session.done = client.done
    BY <2>1, <2>2, V2AskedSession DEF V2Before
  <2>4. V2After'
    BY <1>2, <2>1, <2>2, <2>3 DEF V2After
  <2> QED
    BY <2>1, <2>2, <2>4
<1> QED
  BY <1>4, <1>5, <1>6

\* The question of the attempt is answered: the session takes the step the
\* client is told of.
LEMMA V2HandledAtHand ==
    ASSUME CommandInv, NEW m, NEW r, V2Handled(m, r), m.conn = client.conn, Running
    PROVE  V2Question' /\ V2Place' /\ V2InStep'
<1>1. /\ m = V2Query /\ V2Query \in net
      /\ client.pc \in (FilePlaces \ {"page", "receive", "send"}) \cup {"start", "finish"}
      /\ Says(m, client, part)
      /\ V2Query' = V2Query /\ V2Query' \notin net'
      /\ \A n \in Current' : n = ReplyTo(m, r) \/ (r = "file" /\ n = ChunkFor(m))
  BY V2AtHand
<1>2. UNCHANGED <<client, part>> /\ (Running' <=> Running) /\ V2Does(m, r)
  BY V2HandledFacts DEF Running
<1>3. /\ ReplyTo(m, r).kind = "reply" /\ ReplyTo(m, r).op = r
      /\ r = "manifest" => ReplyTo(m, r).manifest = tree
      /\ r = "description" => ReplyTo(m, r).data = transfer'.hash
      /\ ChunkFor(m).kind = "resource" /\ ChunkFor(m).op = "pull"
      /\ ChunkFor(m).data = transfer.hash
      /\ ChunkFor(m).file = m.file /\ ChunkFor(m).chunks = m.chunks
  BY V2AnswerFields
<1>4. /\ r = "file" =>
            /\ client.pc = "get" /\ m.chunks = {part.chunk} /\ transfer.hash = part.hash
            /\ m.file = client.file
      /\ r = "description" => transfer'.hash = Source[client.file].ver
  BY V2AnswerIsScanned
<1>5. client.pc \notin {"plan", "next", "page", "receive"}
  BY <1>1 DEF FilePlaces, ChunkPlaces
<1>6. Source' = Source /\ Target' = Target /\ PlannedFiles' = PlannedFiles /\ V2Good' = V2Good
  BY <1>2 DEF Source, Target, PlannedFiles, V2Good
<1>7. \A x, n : n \in Answer(x)' => n = ReplyTo(m, r) /\ x = r
  BY <1>1, <1>2, <1>3 DEF Answer, Current
<1>8. \A n \in Pulled' : r = "file" /\ n = ChunkFor(m)
  BY <1>1, <1>3 DEF Pulled
<1>9. V2Question'
  BY <1>1, <1>2, <1>3, <1>4, <1>5 DEF V2Question, Pulled
<1>10. V2Place'
  <2>1. \A n \in Answer("description")' : n.data = Source[client.file].ver
    BY <1>3, <1>4, <1>7
  <2>2. \A n \in Pulled' : n.chunks = {part.chunk} /\ n.data = part.hash /\ n.file = client.file
    BY <1>3, <1>4, <1>8
  <2> QED
    BY <1>2, <1>6, <2>1, <2>2 DEF CommandInv, V2Place, Chunks
<1>11. V2InStep'
  <2> SUFFICES ASSUME Owns(client.conn)' PROVE V2InStep'
    BY <1>2 DEF V2InStep
  <2>1. CASE V2Ignores(r)
    <3>1. Owns(client.conn) /\ UNCHANGED <<session, transfer>>
      BY <1>2, <2>1 DEF V2Ignores, Owns, Active
    <3>2. r \notin {"manifest", "file", V2Good}
      BY <2>1 DEF V2Ignores, V2Good
    <3>3. (V2Before <=> V2Before') /\ (V2After <=> V2After')
      BY <1>2, <1>6, <3>1 DEF V2Before, V2After, ServesChunk
    <3>4. Answer("manifest")' = {} /\ Answer(V2Good)' = {} /\ Pulled' = {}
      BY <1>6, <1>7, <1>8, <3>2
    <3> QED
      BY <1>1, <1>2, <1>6, <3>1, <3>3, <3>4 DEF CommandInv, V2InStep
  <2>2. CASE V2Ends(m, r)
    BY <2>2 DEF V2Ends, Ends, Owns, Active
  <2>3. CASE V2Opens(m, r)
    <3>1. client.pc = "start" /\ m.manifest = client.scan /\ Opens(m, r)
      BY <1>1, <2>3, V2OpAtHand DEF V2Opens, Opens
    <3>2. \A n \in Answer("manifest")' : n.manifest = tree
      BY <1>3, <1>7
    <3>3. transfer' = NoTransfer
      BY <2>3 DEF V2Opens
    <3> QED
      BY <1>2, <3>1, <3>2, <3>3, OpenedSession DEF V2InStep
  <2>4. CASE V2Describes(m, r) \/ V2Moves(m, r) \/ V2Completes(m, r)
    <3>1. /\ client.pc # "start" /\ V2After' /\ SameJob(session', session)
          /\ session'.stale = session.stale /\ Owns(client.conn)
      BY <2>4, V2HandledAfter
    <3>2. session'.source = session.source /\ session'.destination = session.destination
      BY <3>1 DEF SameJob
    <3> QED
      BY <1>1, <1>2, <1>5, <1>6, <3>1, <3>2 DEF CommandInv, V2InStep
  <2> QED
    BY <1>2, <2>1, <2>2, <2>3, <2>4 DEF V2Does
<1> QED
  BY <1>9, <1>10, <1>11

\* A session that is not the attempt's gets no work.
LEMMA V2HandledStrays ==
    ASSUME CommandInv, NEW m, NEW r, V2Handled(m, r)
    PROVE  V2Strays'
<1>1. /\ UNCHANGED client /\ m \in net /\ m.kind = "request" /\ Works(m) /\ m \notin net'
      /\ \A n \in net' : n \in net \/ n = ReplyTo(m, r) \/ (r = "file" /\ n = ChunkFor(m))
  BY V2HandledFacts
<1>2. \A n \in net' : Works(n) => n \in net
  BY <1>1, V2AnswerFields DEF Works
<1>3. ASSUME Active', session'.conn # client.conn \/ client.pc = "success", V2Settled',
             NEW n \in net', n.conn = session'.conn
      PROVE  ~Works(n)
  <2>1. CASE V2Opens(m, r)
    <3>1. session'.conn = m.conn /\ m.op = "start"
      BY <2>1, OpenedSession DEF V2Opens, Opens
    <3>2. \A k \in net : k.conn = m.conn => k = m \/ k.kind = "close"
      BY <1>1, <3>1 DEF CommandInv, V2Links
    <3> QED
      BY <1>1, <1>2, <1>3, <3>1, <3>2 DEF Works
  <2>2. CASE ~V2Opens(m, r)
    <3>1. Active /\ session'.conn = session.conn
      BY <1>3, <2>2, V2HandledOwner DEF V2Ignores, SameJob
    <3>2. V2Settled \/ m.conn = session.conn
      <4> SUFFICES ASSUME m.conn # session.conn, ~V2Settled PROVE FALSE
        OBVIOUS
      <4>1. r \notin {"manifest", "file"}
        BY <2>2, V2AnswerKinds DEF V2Moves, Owns
      <4>2. \A k \in net' : k.kind # "resource" \/ k \in net
        BY <1>1, <4>1, V2AnswerFields
      <4>3. \A k \in net' : k.op # "manifest" \/ k.kind # "reply" \/ k \in net
        BY <1>1, <4>1, V2AnswerFields
      <4> QED
        BY <1>1, <1>3, <4>2, <4>3 DEF V2Settled, Answer, Current
    <3>3. ~Works(n) \/ n \in net
      BY <1>2
    <3>4. CASE V2Settled
      BY <1>3, <3>1, <3>3, <3>4 DEF CommandInv, V2Strays
    <3>5. CASE m.conn = session.conn
      BY <1>1, <1>3, <3>1, <3>3, <3>5 DEF CommandInv, V2Links
    <3> QED
      BY <3>2, <3>4, <3>5
  <2> QED
    BY <2>1, <2>2
<1>4. ASSUME client.pc = "success"
      PROVE  ~Owns(client.conn)' /\ \A n \in Current' : ~Works(n)
  <2>1. ~Owns(client.conn) /\ \A n \in Current : ~Works(n)
    BY <1>4 DEF CommandInv, V2Strays
  <2>2. m.conn # client.conn
    BY <1>1, <2>1 DEF Current
  <2>3. ~Owns(client.conn)'
    BY <2>1, <2>2, V2OtherLink
  <2> QED
    BY <1>1, <1>2, <2>1, <2>3 DEF Current
<1> QED
  BY <1>1, <1>3, <1>4 DEF V2Strays, Works

\* The export is written only for the session it belongs to.
LEMMA V2WritesForOwner ==
    ASSUME CommandInv, NEW m, NEW r, V2Handled(m, r), tree' # tree
    PROVE  Owns(m.conn) /\ (V2Ends(m, r) \/ V2Completes(m, r))
<1>1. V2Does(m, r)
  BY V2HandledFacts
<1> QED
  BY <1>1 DEF V2Does, V2Ignores, V2Opens, Opens, V2Ends, Ends, V2Describes, V2Moves, V2Completes

\* Nobody's work touches the export once the attempt at hand waits for the
\* answer to FINISH on another Link, or has succeeded.
LEMMA V2OnlyOwnFinishWrites ==
    ASSUME CommandInv, NEW m, NEW r, V2Handled(m, r),
           (client.pc = "finish" /\ m.conn # client.conn) \/ client.pc = "success"
    PROVE  UNCHANGED tree
<1> SUFFICES ASSUME tree' # tree PROVE FALSE
  OBVIOUS
<1>1. Owns(m.conn) /\ m \in net /\ Works(m)
  BY V2WritesForOwner, V2HandledFacts
<1>2. V2Settled /\ Active /\ m.conn = session.conn
  BY <1>1 DEF V2Settled, Owns
<1> QED
  BY <1>1, <1>2 DEF CommandInv, V2Strays

\* The acknowledged FINISH of the attempt leaves the export synchronized.
LEMMA V2FinishHandled ==
    ASSUME CommandInv, NEW m, V2Handled(m, "ok"), m.conn = client.conn, client.pc = "finish",
           client.push, ~client.options.dryRun
    PROVE  Synchronized(tree')
<1>1. Running
  BY DEF Running, Ended
<1>2. m.op = "finish" /\ m = V2Query /\ V2Query \in net
  BY <1>1, V2AtHand DEF Says, FilePlaces, ChunkPlaces
<1>3. Finish(m.conn, "ok") /\ m.conn \in Conns
  BY <1>2, V2HandledFacts DEF V2Handled, Dispatch2, V2Finish
<1>4. Owns(client.conn)
  BY <1>3 DEF Finish, Refuse, MayRequest, MayTransfer
<1>5. /\ session.source = Source /\ session.destination = Target
      /\ session.stale \subseteq client.foreign
      /\ session.push /\ session.options = client.options
  BY <1>1, <1>4 DEF CommandInv, V2InStep, V2Sessions, Owns
<1>6. TypeOK /\ ExportAccounted /\ session.done \subseteq FilesOf(session)
  BY <1>4 DEF CommandInv, V2Typed, V2IInv, V2Progress, Owns
<1> SUFFICES ASSUME NEW p \in Paths \ client.foreign
             PROVE  IF Source[p].kind # "none" \/ client.options.delete
                      THEN Alike(tree'[p], Source[p]) ELSE Alike(tree'[p], Target[p])
  BY DEF Synchronized
<1>7. p \in Paths \ session.stale
  BY <1>5
<1>8. Owns(m.conn) /\ ~session.options.dryRun
  BY <1>4, <1>5
<1>9. IF session.source[p].kind # "none" \/ session.options.delete
        THEN Alike(tree'[p], session.source[p])
        ELSE Alike(tree'[p], session.destination[p])
  BY <1>3, <1>5, <1>6, <1>7, <1>8, FinishedPath
<1> QED
  BY <1>5, <1>9

\* A finished attempt stays synchronized, and becomes so at FINISH.
LEMMA V2HandledDone ==
    ASSUME CommandInv, NEW m, NEW r, V2Handled(m, r)
    PROVE  Done'
<1>1. UNCHANGED <<client, local>>
  BY V2HandledFacts
<1>2. Source' = Source /\ Target' = Target
  BY <1>1 DEF Source, Target
<1> SUFFICES ASSUME ~client.options.dryRun PROVE Done'
  BY <1>1 DEF Done
<1>3. CASE client.pc = "success"
  <2>1. UNCHANGED tree /\ Synchronized(Destination)
    BY <1>3, V2OnlyOwnFinishWrites DEF CommandInv, Done
  <2>2. Destination' = Destination
    BY <1>1, <2>1 DEF Destination
  <2> QED
    BY <1>1, <1>2, <1>3, <2>1, <2>2 DEF Done, Synchronized
<1>4. CASE client.pc = "finish" /\ client.push
  <2> SUFFICES ASSUME Answer("ok")' # {} PROVE Synchronized(tree)'
    BY <1>1, <1>4 DEF Done
  <2>1. CASE m.conn # client.conn
    <3>1. UNCHANGED tree /\ Answer("ok") # {}
      BY <1>4, <2>1, V2OnlyOwnFinishWrites, V2OtherLink
    <3>2. Synchronized(tree)
      BY <1>4, <3>1 DEF CommandInv, Done
    <3> QED
      BY <1>1, <1>2, <3>1, <3>2 DEF Synchronized
  <2>2. CASE m.conn = client.conn
    <3>1. Running
      BY <1>4 DEF Running, Ended
    <3>2. r = "ok"
      <4>1. PICK n \in Current' : n.kind = "reply" /\ n.op = "ok"
        BY DEF Answer, Current
      <4>2. n = ReplyTo(m, r) \/ n = ChunkFor(m)
        BY <2>2, <3>1, <4>1, V2AtHand
      <4> QED
        BY <4>1, <4>2, V2AnswerFields
    <3>3. Synchronized(tree')
      BY <1>4, <2>2, <3>2, V2FinishHandled
    <3> QED
      BY <1>1, <1>2, <3>3 DEF Synchronized
  <2> QED
    BY <2>1, <2>2
<1> QED
  BY <1>1, <1>3, <1>4 DEF Done

\* A chunk the server stores is no longer on its way, and is the one whose
\* commit the attempt awaits, if the attempt has got as far as chunks.
LEMMA V2CachesAwaited ==
    ASSUME CommandInv, NEW m, NEW r, V2Handled(m, r), NEW x \in cached' \ cached
    PROVE  /\ \A n \in Current : n.kind # "resource"
           /\ Running => \/ client.pc = "start"
                         \/ client.pc = "commit" /\ x[3] = part.chunk
<1>1. /\ V2Moves(m, r) /\ m.op = "chunkCommit" /\ client.push /\ Owns(m.conn)
      /\ x = Chunk(m.file, transfer.hash, Named(m)) /\ m.chunks = {Named(m)}
  BY V2HandledCache
<1>2. m \in net /\ Works(m) /\ m.kind = "request"
  BY V2HandledFacts
<1>3. CASE m.conn # client.conn
  <2>1. ~V2Settled
    BY <1>1, <1>2, <1>3 DEF CommandInv, V2Strays, Owns
  <2> QED
    BY <2>1 DEF V2Settled, Running, Ended
<1>4. CASE m.conn = client.conn
  <2>1. ASSUME NEW n \in Current, n.kind = "resource" PROVE FALSE
    <3>1. n \in net /\ n.conn = m.conn /\ n.op = "push"
      BY <1>1, <1>4, <2>1 DEF Current, CommandInv, V2Typed, V2Carries
    <3> QED
      BY <1>2, <2>1, <3>1 DEF CommandInv, V2Links, Works
  <2>2. ASSUME Running PROVE client.pc = "commit" /\ x[3] = part.chunk
    <3>1. client.pc = "commit" /\ m.chunks = {part.chunk}
      BY <1>1, <1>4, <2>2, V2AtHand, V2OpAtHand
    <3> QED
      BY <1>1, <3>1 DEF Chunk
  <2> QED
    BY <2>1, <2>2
<1> QED
  BY <1>3, <1>4

\* What the server answers is missing, the receiver has not.
LEMMA V2MissingIsUncached ==
    ASSUME CommandInv, NEW m, V2Handled(m, "missing"), m.conn = client.conn, Running
    PROVE  Uncached(transfer'.missing)
<1>1. V2Moves(m, "missing") /\ m.op = "hashes" /\ Owns(client.conn)
  BY V2AnswerKinds DEF V2Moves
<1>2. client.pc = "hashes"
  BY <1>1, V2AtHand, V2OpAtHand
<1>3. V2Before
  BY <1>1, <1>2, V2AskedSession
<1>4. transfer.file = client.file /\ transfer.hash = part.hash
  BY <1>2, <1>3, V2FileFacts DEF V2Before, ServesChunk, FilePlaces, ChunkPlaces
<1>5. /\ session.push /\ transfer # NoTransfer /\ transfer'.missing \subseteq Chunks(transfer.hash)
      /\ \A j \in transfer'.missing : transfer.stored[j] # transfer.hash
  BY <1>1 DEF V2Moves
<1>6. transfer.stored = StoredOf(transfer.file, transfer.hash)
  BY <1>1, <1>5 DEF CommandInv, V2Sessions, Owns, InStore
<1> QED
  BY <1>4, <1>5, <1>6 DEF Uncached, StoredOf, CachedChunks, Chunk

\* Nothing is asked for, or sent, that the receiver has.
LEMMA V2HandledUncached ==
    ASSUME CommandInv, NEW m, NEW r, V2Handled(m, r)
    PROVE  V2Uncached'
<1>1. /\ UNCHANGED <<client, part>> /\ m \in net /\ m.kind = "request" /\ Works(m) /\ m \notin net'
      /\ \A n \in net' : n \in net \/ n = ReplyTo(m, r) \/ (r = "file" /\ n = ChunkFor(m))
      /\ (Running' <=> Running)
  BY V2HandledFacts DEF Running
<1>2. V2Uncached
  BY DEF CommandInv
<1>3. ASSUME NEW n \in net', n.kind = "resource", n.conn = client.conn
      PROVE  n.chunks \cap CachedChunks(n.file, n.data)' = {}
  <2>1. CASE n \in net
    <3>1. n \in Current
      BY <1>3, <2>1 DEF Current
    <3>2. cached' \subseteq cached
      BY <1>3, <3>1, V2CachesAwaited
    <3>3. n.chunks \cap CachedChunks(n.file, n.data) = {}
      BY <1>2, <1>3, <2>1 DEF V2Uncached, OnlyMissingSent
    <3> QED
      BY <3>2, <3>3 DEF CachedChunks, Chunk, Chunks
  <2>2. CASE r = "file" /\ n = ChunkFor(m)
    <3>1. /\ n.conn = m.conn /\ n.file = m.file /\ n.data = transfer.hash /\ n.chunks = m.chunks
      BY <2>2, V2AnswerFields
    <3>2. V2Moves(m, r) /\ m.op = "chunkGet"
      BY <2>2, V2AnswerKinds
    <3>3. m \in Current /\ Owns(m.conn) /\ transfer # NoTransfer /\ m.file = transfer.file
          /\ cached' = cached
      BY <1>1, <1>3, <3>1, <3>2 DEF Current, V2Moves
    <3>4. \A j \in m.chunks : Chunk(m.file, transfer.hash, j) \notin cached
      BY <1>1, <1>2, <3>2, <3>3 DEF V2Uncached
    <3> QED
      BY <3>1, <3>3, <3>4 DEF CachedChunks, Chunk, Chunks
  <2> QED
    BY <1>1, <1>3, <2>1, <2>2, V2AnswerFields
<1>4. OnlyMissingSent'
  BY <1>1, <1>3 DEF OnlyMissingSent
<1>5. ASSUME Running PROVE Uncached(Unfetched)'
  <2>1. Uncached(Unfetched) /\ Unfetched' = Unfetched
    BY <1>1, <1>2, <1>5 DEF V2Uncached, Unfetched
  <2>2. ASSUME NEW j \in Unfetched, Chunk(client.file, part.hash, j) \in cached' PROVE FALSE
    <3>1. Chunk(client.file, part.hash, j) \in cached' \ cached
      BY <2>1, <2>2 DEF Uncached
    <3>2. client.pc = "start" \/ (client.pc = "commit" /\ j = part.chunk)
      BY <1>5, <3>1, V2CachesAwaited DEF Chunk
    <3>3. client.pc = "start" => part = NoPart
      BY DEF CommandInv, V2Place, FilePlaces, ChunkPlaces
    <3> QED
      BY <2>2, <3>2, <3>3, NoPartType DEF Unfetched
  <2> QED
    BY <1>1, <2>1, <2>2 DEF Uncached, Chunk
<1>6. ASSUME Running, client.pc = "hashes", client.push, NEW n \in Answer("missing")'
      PROVE  Uncached(n.chunks)'
  <2>1. cached' \subseteq cached
    BY <1>6, V2CachesAwaited
  <2>2. n \in net' /\ n.kind = "reply" /\ n.conn = client.conn /\ n.op = "missing"
    BY <1>1, <1>6 DEF Answer
  <2>3. Uncached(n.chunks)
    <3>1. CASE n \in net
      BY <1>2, <1>6, <2>2, <3>1 DEF V2Uncached, Answer
    <3>2. CASE n = ReplyTo(m, r)
      <4>1. r = "missing" /\ m.conn = client.conn /\ n.chunks = transfer'.missing
        BY <2>2, <3>2, V2AnswerFields
      <4> QED
        BY <1>6, <4>1, V2MissingIsUncached
    <3> QED
      BY <1>1, <2>2, <3>1, <3>2, V2AnswerFields
  <2> QED
    BY <1>1, <2>1, <2>3 DEF Uncached, Chunk
<1>7. ASSUME NEW n \in Current', n.kind = "request", n.op = "chunkGet", Owns(n.conn)',
             transfer' # NoTransfer, n.file = transfer'.file, NEW j \in n.chunks
      PROVE  Chunk(n.file, transfer'.hash, j) \notin cached'
  <2>1. n \in net /\ n # m /\ n.conn = client.conn
    BY <1>1, <1>7, V2AnswerFields DEF Current
  <2>2. m.conn # client.conn
    BY <1>1, <1>7, <2>1 DEF CommandInv, V2Links, Works
  <2>3. Owns(client.conn)'
    BY <1>1, <1>7, <2>1 DEF Owns
  <2>4. Owns(client.conn) /\ UNCHANGED <<transfer, cached>>
    BY <2>2, <2>3, V2OtherLink
  <2> QED
    BY <1>2, <1>7, <2>1, <2>4 DEF V2Uncached, Current
<1> QED
  BY <1>1, <1>4, <1>5, <1>6, <1>7 DEF V2Uncached, Chunk

\* A request is served.
LEMMA V2ServeRequestInv ==
    ASSUME CommandInv, V2ServeRequest
    PROVE  CommandInv'
<1>1. PICK m \in net, r \in Replies \cup {"description", "hashes", "missing"} : V2Handled(m, r)
  BY DEF V2ServeRequest, V2Handled, ChunkFor, Unclient
<1>2. V2Typed' /\ V2Sessions' /\ V2Links' /\ V2Strays' /\ Done' /\ V2Uncached'
  BY <1>1, V2HandledTyped, V2HandledSessions, V2HandledLinks, V2HandledStrays, V2HandledDone,
     V2HandledUncached
<1>3. V2Question' /\ V2Place' /\ V2InStep'
  BY <1>1, V2HandledElsewhere, V2HandledAtHand
<1>4. Accounted'
  BY <1>1, V2HandledFacts DEF CommandInv, Accounted, Running, Scanned, Source, Target
<1> QED
  BY <1>2, <1>3, <1>4 DEF CommandInv

\* A Resource on the Link of a running attempt is the chunk it sends.
LEMMA V2ResourceAtHand ==
    ASSUME CommandInv, NEW m \in net, m.kind = "resource", m.op = "push",
           m.conn = client.conn, Running
    PROVE  client.pc = "send" /\ m = V2Query /\ V2Query \in net /\ Current = {m}
<1>1. m \in Current /\ m \notin Pulled
  BY DEF Current, Pulled
<1>2. m = V2Query
  BY <1>1 DEF CommandInv, V2Question
<1> QED
  BY <1>2, V2QuerySays DEF CommandInv, V2Question, Says

\* A Resource is kept for the session that waits for the chunk.
LEMMA V2ServeResourceInv ==
    ASSUME CommandInv, V2ServeResource
    PROVE  CommandInv'
<1>1. PICK m \in net :
         /\ m.kind = "resource" /\ m.op = "push" /\ m.conn \in up
         /\ ReceiveChunk(m.conn, [id |-> m.file, data |-> m.data, meta |-> FALSE])
         /\ net' = (net \ {m}) \cup {ProofFor(m)}
         /\ UNCHANGED <<local, client, edits, up, part, cached, losses>>
  BY DEF V2ServeResource, Unclient, ProofFor
<1> DEFINE f == [id |-> m.file, data |-> m.data, meta |-> FALSE]
<1>2. m.conn \in Conns /\ m.file \in Paths /\ m.data \in Versions
  BY <1>1 DEF CommandInv, V2Typed, V2Carries
<1>3. f \in Resource
  BY <1>2, IdsArePaths DEF Resource, Content
<1>4. /\ Owns(m.conn) /\ transfer # NoTransfer /\ transfer' = [transfer EXCEPT !.received = f]
      /\ UNCHANGED <<tree, rooted, session>>
  BY <1>1 DEF ReceiveChunk, AcceptsChunk, vars
<1>5. V2IInv'
  <2>1. ReceiveChunk(m.conn, f)
    BY <1>1
  <2> HIDE DEF f
  <2> QED
    BY <1>2, <1>3, <2>1, ReceiveChunkInv DEF CommandInv, V2Typed
<1> HIDE DEF f
<1>6. transfer \in TransferRecord
  BY <1>4 DEF CommandInv, V2Typed, V2IInv, TransferIsGood, GoodTransfer
<1>7. /\ transfer'.file = transfer.file /\ transfer'.hash = transfer.hash
      /\ transfer'.hashes = transfer.hashes /\ transfer'.missing = transfer.missing
      /\ transfer'.pending = transfer.pending /\ transfer'.stored = transfer.stored
      /\ transfer' \in TransferRecord
  BY <1>3, <1>4, <1>6 DEF TransferRecord
<1>8. transfer' # NoTransfer
  BY <1>7, NoTransferAssumption
<1>9. ProofFor(m).kind = "reply" /\ ProofFor(m).conn = m.conn /\ ProofFor(m).op = "proof"
  BY DEF ProofFor, Msg
<1>10. /\ \A n \in net' : (n \in net /\ n # m)
                      \/ (n.kind = "reply" /\ n.conn = m.conn /\ n.op = "proof")
       /\ m \notin net'
  BY <1>1, <1>9
<1>11. ASSUME NEW n \in net' PROVE V2Carries(n)'
  <2>1. CASE n \in net
    BY <1>1, <2>1 DEF CommandInv, V2Typed, V2Carries, Faithful
  <2>2. CASE n = ProofFor(m)
    BY <1>2, <1>9, <2>2 DEF V2Carries
  <2> QED
    BY <1>1, <2>1, <2>2
<1>12. V2Typed'
  BY <1>1, <1>4, <1>5, <1>11 DEF CommandInv, V2Typed, Faithful, CachedTyped, Chunk, Chunks
<1>13. V2Sessions'
  <2>1. InStore => InStore'
    BY <1>1, <1>7 DEF InStore, StoredOf, CachedChunks, Chunk, Chunks
  <2> QED
    BY <1>1, <1>4, <1>7, <2>1 DEF CommandInv, V2Sessions, Active, Faithful
<1>14. \A c : Owns(c)' <=> Owns(c)
  BY <1>4 DEF Owns, Active
<1>15. V2Links'
  <2>1. /\ \A n \in net' : n.conn <= client'.conn
        /\ \A c \in up' : c <= client'.conn
        /\ \A n, k \in net' : Works(n) /\ Works(k) /\ k.conn = n.conn => k = n
    BY <1>1, <1>10 DEF CommandInv, V2Links, Works
  <2>2. \A n \in net' : n.kind = "request" /\ n.op = "start" =>
            /\ ~Owns(n.conn)'
            /\ \A k \in net' : k.conn = n.conn => k = n \/ k.kind = "close"
    BY <1>1, <1>10, <1>14 DEF CommandInv, V2Links
  <2>3. \A n \in net' : n.kind = "request" /\ n.op = "description" /\ Owns(n.conn)' =>
            n.data = session'.source[n.file].ver
    BY <1>4, <1>10, <1>14 DEF CommandInv, V2Links
  <2> QED
    BY <2>1, <2>2, <2>3 DEF V2Links, Works
<1>16. Source' = Source /\ Target' = Target /\ PlannedFiles' = PlannedFiles /\ V2Good' = V2Good
       /\ (Running' <=> Running) /\ V2Query' = V2Query
  BY <1>1 DEF Source, Target, PlannedFiles, V2Good, Running, V2Query
<1>17. \A n \in Current' : n \in Current \/ (n.kind = "reply" /\ n.op = "proof")
  BY <1>1, <1>10 DEF Current
<1>18. \A x : x # "proof" => Answer(x)' = Answer(x)
  BY <1>1, <1>9 DEF Answer
<1>19. Pulled' = Pulled
  BY <1>1, <1>9 DEF Pulled, Current
<1>20. m.conn # client.conn => Current' = Current /\ (V2Query \in net' <=> V2Query \in net)
  BY <1>1, <1>9, V2QuerySays DEF Current, Says
<1>21. m.conn = client.conn /\ Running =>
         /\ client.pc = "send" /\ m = V2Query /\ V2Query \notin net' /\ V2Query \in net
         /\ \A n \in Current' : n = ProofFor(m)
  BY <1>1, <1>10, V2ResourceAtHand DEF Current
<1>22. V2Question'
  <2>1. CASE m.conn # client.conn
    BY <1>1, <1>16, <1>19, <1>20, <2>1 DEF CommandInv, V2Question
  <2>2. CASE m.conn = client.conn
    BY <1>1, <1>9, <1>16, <1>21, <2>2 DEF V2Question
  <2> QED
    BY <2>1, <2>2
<1>23. V2Place'
  <2>1. Answer("description")' = Answer("description")
    BY <1>18
  <2> QED
    BY <1>1, <1>16, <1>19, <2>1 DEF CommandInv, V2Place, Chunks
<1>24. V2InStep'
  <2> SUFFICES ASSUME Owns(client.conn), Running PROVE V2InStep'
    BY <1>1, <1>14, <1>16 DEF V2InStep
  <2>1. m.conn = client.conn
    BY <1>4 DEF Owns
  <2>2. client.pc = "send" /\ V2Before
    BY <1>21, <2>1 DEF CommandInv, V2InStep
  <2>3. V2After'
    BY <1>1, <1>4, <1>7, <1>8, <1>16, <2>2
       DEF V2Before, V2After, ServesChunk, FilePlaces, ChunkPlaces
  <2> QED
    BY <1>1, <1>4, <1>16, <1>21, <2>1, <2>2, <2>3 DEF CommandInv, V2InStep
<1>25. V2Strays'
  <2>1. \A n \in net' : Works(n) => n \in net
    BY <1>10 DEF Works
  <2>2. V2Settled' => V2Settled
    <3>1. Answer("manifest")' = Answer("manifest")
      BY <1>18
    <3> QED
      BY <1>1, <1>17, <3>1 DEF V2Settled
  <2> QED
    BY <1>1, <1>4, <1>14, <2>1, <2>2 DEF CommandInv, V2Strays, Works, Current, Active
<1>26. V2Uncached'
  <2>1. Answer("missing")' = Answer("missing")
    BY <1>18
  <2>2. OnlyMissingSent'
    BY <1>1, <1>10 DEF CommandInv, V2Uncached, OnlyMissingSent, CachedChunks, Chunk, Chunks
  <2>3. \A S : Uncached(S)' <=> Uncached(S)
    BY <1>1 DEF Uncached, Chunk
  <2>4. Unfetched' = Unfetched
    BY <1>1 DEF Unfetched
  <2>5. Uncached(Unfetched)' <=> Uncached(Unfetched)
    BY <1>1, <2>4 DEF Uncached, Chunk
  <2>6. \A n \in Current' : n.kind = "request" => n \in Current
    BY <1>17
  <2> QED
    BY <1>1, <1>4, <1>7, <1>14, <1>16, <2>1, <2>2, <2>3, <2>5, <2>6
       DEF CommandInv, V2Uncached, Chunk
<1>27. Accounted'
  BY <1>1, <1>16 DEF CommandInv, Accounted, Scanned
<1>28. Done'
  <2>1. Answer("ok")' = Answer("ok")
    BY <1>18
  <2> QED
    BY <1>1, <1>4, <1>16, <2>1 DEF CommandInv, Done, Synchronized, Destination
<1> QED
  BY <1>12, <1>13, <1>15, <1>22, <1>23, <1>24, <1>25, <1>26, <1>27, <1>28 DEF CommandInv

(***************************************************************************)
(* The theorems.                                                           *)
(***************************************************************************)
\* A command that starts has no Link, no file in hand and nothing cached.
LEMMA SessionV2InitInv == SessionV2Init => CommandInv
<1> SUFFICES ASSUME SessionV2Init PROVE CommandInv
  OBVIOUS
<1>1. PICK job \in ClientJobs :
        client = [pc |-> "idle", conn |-> 0, push |-> job.push,
                  options |-> job.options, scan |-> Blank, remote |-> Blank,
                  file |-> NoPath, data |-> 0, done |-> {}, stale |-> {},
                  foreign |-> {}]
  BY DEF SessionV2Init, SessionInit
<1>2. Blank \in Trees /\ Faithful(Blank)
  BY EntryTypes DEF Blank, Trees, Faithful, None
<1>3. job.push \in BOOLEAN /\ job.options \in OptionSet
  BY JobsAssumption
<1>4. /\ client \in V2ClientRecord /\ client.pc = "idle" /\ client.conn = 0
      /\ client.scan = Blank /\ client.remote = Blank
  BY <1>1, <1>2, <1>3 DEF V2ClientRecord, V2Places
<1>5. V2IInv /\ ~Active
  BY V2InitInv DEF SessionV2Init, SessionInit, V2Init, Init, Active
<1>6. Faithful(tree) /\ Faithful(local) /\ local \in Trees
  BY VersionsAreContents, JobsAssumption DEF SessionV2Init, SessionInit, Init, Faithful
<1>7. net = {} /\ up = {} /\ edits \in 0 .. MaxEdits
  BY JobsAssumption DEF SessionV2Init, SessionInit
<1>8. part = NoPart /\ part \in PartRecord /\ cached = {} /\ losses \in 0 .. MaxLosses
  BY NoPartType, LossesAssumption DEF SessionV2Init
<1>9. V2Typed
  BY <1>2, <1>4, <1>5, <1>6, <1>7, <1>8 DEF V2Typed, CachedTyped
<1>10. ~Running /\ ~V2Settled /\ Current = {}
  BY <1>4, <1>7 DEF Running, V2Settled, Current
<1>11. V2Uncached
  BY <1>7, <1>10 DEF V2Uncached, OnlyMissingSent
<1>12. V2Place
  BY <1>4, <1>8, <1>10 DEF V2Place
<1> QED
  BY <1>4, <1>5, <1>7, <1>9, <1>10, <1>11, <1>12
     DEF CommandInv, V2Sessions, V2Links, V2Question, V2InStep, V2Strays, Accounted, Done, Owns

\* A step of the client keeps the invariant.
LEMMA V2ClientInv ==
    ASSUME CommandInv, V2Client
    PROVE  CommandInv'
BY V2ReadManifestInv, V2MakePlanInv, V2PrepareBreaksInv, AskDescriptionInv, ReadDescribedInv,
   AskPageInv, ReadPageInv, AskChunkInv, SendChunkInv, AskChunkCommitInv, ReadChunkDoneInv,
   ReadChunkGetInv, ReceivePulledChunkInv, AskFileDoneInv,
   ReadFileCommittedInv, InstallAssembledInv, InstallAssembledBreaksInv, V2AllSentInv,
   V2SucceedInv, V2RemovalBreaksInv
   DEF V2Client

\* A step that changes nothing keeps it too.
LEMMA SessionV2StutterInv ==
    ASSUME CommandInv, UNCHANGED v2svars
    PROVE  CommandInv'
BY V2KeptOrEnded DEF v2svars, CommandInv, V2Sessions

\* Every step keeps it.
LEMMA SessionV2NextInv ==
    ASSUME CommandInv, [SessionV2Next]_v2svars
    PROVE  CommandInv'
BY V2OpenInv, V2ClientInv, V2FailInv, V2ServeRequestInv, V2ServeResourceInv, V2ServeCloseInv,
   V2LeaseInv, V2EndsInv, V2LoseInv, V2EditExportInv, V2EditLocalInv, LoseChunkInv,
   SessionV2StutterInv
   DEF SessionV2Next

\* The inductive invariant holds of every behaviour.
THEOREM SessionV2Induction == SessionV2Spec => []CommandInv
<1>1. CommandInv /\ [SessionV2Next]_v2svars => CommandInv'
  BY SessionV2NextInv
<1> QED
  BY <1>1, SessionV2InitInv, PTL DEF SessionV2Spec

\* A session in step with the attempt moves the file of the attempt, if any.
LEMMA V2MovesTheFile ==
    ASSUME CommandInv, Owns(client.conn), Running, transfer # NoTransfer
    PROVE  /\ client.pc # "start"
           /\ client.pc \in FilePlaces
           /\ ServesChunk(0) \/ ServesChunk(part.chunk)
<1>1. client.pc # "start" /\ (V2Before \/ V2After)
  BY DEF CommandInv, V2InStep
<1> QED
  BY <1>1 DEF V2Before, V2After, FilePlaces, ChunkPlaces

\* Peers that are both alive work from one plan, the server at most one file
\* ahead.
LEMMA V2InStepMeansAgreed == ASSUME CommandInv PROVE PeersAgree
<1> SUFFICES ASSUME Owns(client.conn), Running, client.pc # "start"
             PROVE  /\ session.source = Source /\ session.destination = Target
                    /\ client.done \subseteq session.done
                    /\ session.done \subseteq client.done \cup {client.file}
                    /\ session.pending \in {NoPath, client.file}
  BY DEF PeersAgree
<1>1. session.source = Source /\ session.destination = Target /\ (V2Before \/ V2After)
  BY DEF CommandInv, V2InStep
<1>2. session.done = client.done \/ session.done = client.done \cup {client.file}
  BY <1>1 DEF V2Before, V2After
<1>3. CASE session.pending = NoPath
  BY <1>1, <1>2, <1>3
<1>4. CASE session.pending # NoPath
  <2>1. transfer # NoTransfer /\ session.pending = transfer.file
    BY <1>4 DEF CommandInv, V2Typed, V2IInv, TransferIsPending, Owns
  <2>2. transfer.file = client.file
    BY <2>1, V2MovesTheFile DEF ServesChunk
  <2> QED
    BY <1>1, <1>2, <2>1, <2>2
<1> QED
  BY <1>3, <1>4

\* The chunk on the wire is the one that is pending, of the one description.
LEMMA V2InStepMeansSameChunk == ASSUME CommandInv PROVE PeersInStep
<1> SUFFICES ASSUME transfer # NoTransfer, Owns(client.conn), Running, part.hash # 0
             PROVE  /\ transfer.file = client.file /\ transfer.hash = part.hash
                    /\ transfer.pending \in {0, part.chunk}
                    /\ \A m \in net : m.kind = "resource" /\ m.conn = client.conn
                                         => m.chunks = {transfer.pending}
                    /\ session.push => transfer.stored = StoredOf(transfer.file, transfer.hash)
  BY DEF PeersInStep
<1>1. /\ client.pc # "start" /\ client.pc \in FilePlaces
      /\ ServesChunk(0) \/ ServesChunk(part.chunk)
  BY V2MovesTheFile
<1>2. part.hash = Source[client.file].ver
  BY <1>1 DEF CommandInv, V2Place
<1>3. /\ transfer.file = client.file /\ transfer.hash = part.hash
      /\ transfer.pending \in {0, part.chunk}
  BY <1>1, <1>2 DEF ServesChunk
<1>4. session.push => transfer.stored = StoredOf(transfer.file, transfer.hash)
  BY DEF CommandInv, V2Sessions, Owns, InStore
<1>5. ASSUME NEW m \in net, m.kind = "resource", m.conn = client.conn
      PROVE  m.chunks = {transfer.pending}
  <2>1. m \in Current
    BY <1>5 DEF Current
  <2>2. CASE m = V2Query
    <3>1. client.pc = "send" /\ m.chunks = {part.chunk}
      BY <1>5, <2>2, V2QuerySays DEF Says
    <3>2. V2Before
      BY <1>1, <2>2 DEF CommandInv, V2InStep
    <3> QED
      BY <3>1, <3>2 DEF V2Before, ServesChunk, FilePlaces, ChunkPlaces
  <2>3. CASE m \in Pulled /\ client.pc \in {"get", "receive"}
    <3>1. m.chunks = {part.chunk}
      BY <2>3 DEF CommandInv, V2Place
    <3>2. V2After
      BY <1>1, <2>3 DEF CommandInv, V2InStep
    <3> QED
      BY <2>3, <3>1, <3>2 DEF V2After, ServesChunk
  <2> QED
    BY <1>5, <2>1, <2>2, <2>3 DEF CommandInv, V2Question
<1> QED
  BY <1>3, <1>4, <1>5

\* SessionV2Invariant, the run's invariant: types, one plan and one chunk on
\* both sides, whatever is lost, delayed, damaged or killed.
THEOREM SessionV2AlwaysInvariant == SessionV2Spec => []SessionV2Invariant
<1>1. CommandInv => SessionV2Invariant
  <2> SUFFICES ASSUME CommandInv PROVE SessionV2Invariant
    OBVIOUS
  <2>1. V2TypeOK
    BY DEF CommandInv, V2Typed, V2IInv, TransferIsGood, GoodTransfer, V2TypeOK
  <2>2. SessionV2TypeOK
    BY <2>1 DEF CommandInv, V2Typed, PartRecord, CachedTyped, SessionV2TypeOK
  <2> QED
    BY <2>2, V2InStepMeansAgreed, V2InStepMeansSameChunk DEF SessionV2Invariant
<1> QED
  BY <1>1, SessionV2Induction, PTL

\* SuccessIsHonest: no file ever carries the metadata of one version and the
\* bytes of another, and a command that reports success has left the
\* destination as the source it scanned.
THEOREM V2SuccessIsHonest == SessionV2Spec => []SuccessIsHonest
<1>1. CommandInv => SuccessIsHonest
  <2> SUFFICES ASSUME CommandInv PROVE SuccessIsHonest
    OBVIOUS
  <2>1. FilesAreFaithful
    BY DEF CommandInv, V2Typed, Faithful, FilesAreFaithful
  <2>2. SuccessMeansSynchronized
    BY DEF CommandInv, Done, Synchronized, SuccessMeansSynchronized
  <2> QED
    BY <2>1, <2>2 DEF SuccessIsHonest
<1> QED
  BY <1>1, SessionV2Induction, PTL

\* OnlyMissingSent: no chunk is on the wire of the present attempt while the
\* receiver has it.
THEOREM OnlyMissingAlwaysSent == SessionV2Spec => []OnlyMissingSent
<1>1. CommandInv => OnlyMissingSent
  BY DEF CommandInv, V2Uncached
<1> QED
  BY <1>1, SessionV2Induction, PTL

\* What FILE-COMMIT puts in the export is what was described.
LEMMA V2CommittedFile ==
    ASSUME NEW c, NEW i \in Paths, FileCommit(c, i, "ok")
    PROVE  tree'[i].data = transfer.hash /\ session.push
<1>1. /\ tree' = Put(PreparedTree, {i}, InstalledFile(session, transfer))
      /\ Assembles(transfer) /\ session.push
  BY DEF FileCommit, CanCommitFile, Uploading
<1>2. BytesOf(transfer) = transfer.hash
  BY <1>1 DEF Assembles, BytesOf
<1>3. tree'[i] = InstalledFile(session, transfer)
  BY <1>1 DEF Put
<1> QED
  BY <1>1, <1>2, <1>3 DEF InstalledFile, File

\* A chunk leaves the cache by damage, or with its file in place.
LEMMA V2ClearedIsInPlace ==
    ASSUME CommandInv, [SessionV2Next]_v2svars, losses' = losses, NEW x \in cached \ cached'
    PROVE  IF client.push THEN tree'[x[1]].data = x[2] ELSE local'[x[1]].data = x[2]
<1>1. InstallAssembled \/ V2ServeRequest
  <2>1. ~LoseChunk
    BY DEF LoseChunk, CommandInv, V2Typed
  <2>2. ~UNCHANGED cached
    OBVIOUS
  <2>3. ~UNCHANGED v2svars
    BY <2>2 DEF v2svars
  <2>4. V2Client => InstallAssembled
    <3>1. ~ReceivePulledChunk
      BY DEF ReceivePulledChunk
    <3> QED
      BY <2>2, <3>1 DEF V2Client, Shared, unpart, Leaves, Unmoved, AskDescription, ReadDescribed,
             AskPage, ReadPage, AskChunk, SendChunk, AskChunkCommit, ReadChunkCommitted,
             ReadChunkGet, ReadChunkVerified, AskFileDone, ReadFileCommitted,
             InstallAssembledBreaks
  <2> QED
    BY <2>1, <2>2, <2>3, <2>4
       DEF SessionV2Next, Shared, unpart, Leaves, Dropping, V2Fail, V2Tick, V2LeaseExpires,
           V2ServeResource
<1>2. CASE InstallAssembled
  <2>1. /\ ~client.push /\ client.pc = "file"
        /\ local' = Put(local, {client.file}, File(Source[client.file].ver, part.hash))
        /\ Clears(client.file, part.hash)
    BY <1>2 DEF InstallAssembled
  <2>2. x[1] = client.file /\ x[2] = part.hash
    BY <2>1 DEF Clears, ChunksOf, Chunk
  <2>3. client.file \in Paths
    <3>1. Running
      BY <2>1 DEF Running, Ended
    <3> QED
      BY <2>1, <3>1, V2FileFacts DEF FilePlaces
  <2> QED
    BY <2>1, <2>2, <2>3 DEF Put, File
<1>3. CASE V2ServeRequest
  <2>1. PICK m \in net, r \in Replies \cup {"description", "hashes", "missing"} : V2Handled(m, r)
    BY <1>3 DEF V2ServeRequest, V2Handled, ChunkFor, Unclient
  <2>2. m.op = "fileCommit" /\ r = "ok" /\ Clears(m.file, transfer.hash)
    BY <2>1 DEF V2Handled, ServerCache
  <2>3. V2Carries(m) /\ m.kind = "request"
    BY <2>1, V2HandledFacts
  <2>4. m.file \in Paths
    BY <2>2, <2>3 DEF V2Carries, FileOps
  <2>5. FileCommit(m.conn, m.file, "ok")
    BY <2>1, <2>2 DEF V2Handled, Dispatch2
  <2>6. client.push
    BY <2>5 DEF FileCommit, CanCommitFile, Uploading, Transferring, MayTransfer, MayRequest, Owns,
                CommandInv, V2Sessions
  <2>7. x[1] = m.file /\ x[2] = transfer.hash
    BY <2>2 DEF Clears, ChunksOf, Chunk
  <2> QED
    BY <2>4, <2>5, <2>6, <2>7, V2CommittedFile
<1> QED
  BY <1>1, <1>2, <1>3

\* ProgressSurvives: over lost replies, crashes, restarts and new attempts a
\* verified chunk stays in the cache until it is damaged or its file is in
\* place (SUMMARY.md, "Preserve verified cache blocks across failures").
THEOREM V2ProgressSurvives == SessionV2Spec => ProgressSurvives
<1>1. CommandInv /\ [SessionV2Next]_v2svars =>
         [losses' = losses => \A x \in cached \ cached' :
             IF client.push THEN tree'[x[1]].data = x[2] ELSE local'[x[1]].data = x[2]]_v2svars
  BY V2ClearedIsInPlace
<1> QED
  BY <1>1, SessionV2Induction, PTL DEF SessionV2Spec, ProgressSurvives

(***************************************************************************)
(* The command implements module Mirror, in version 2 too.                 *)
(***************************************************************************)
\* The lemmas of version 1 apply.
LEMMA V2IsForCommand ==
    ASSUME CommandInv, CommandInv'
    PROVE  ForCommand /\ HoldsManifests /\ ForCommand' /\ HoldsManifests'
BY DEF CommandInv, V2Typed, V2IInv, V2Sessions, ForCommand, HoldsManifests, V2ClientRecord

\* What FILE_COMMIT writes: planned directories before the first file, then
\* the planned file, or nothing where a conflicting object was.
LEMMA V2CommitWrites ==
    ASSUME CommandInv, NEW c, NEW i \in Paths, NEW r, FileCommit(c, i, r)
    PROVE  /\ MayWrite /\ i \in FilesOf(session)
           /\ r = "ok" => tree'[i] = session.source[i]
<1>1. /\ Transferring(c, i) /\ Assembles(transfer) /\ session.push /\ V2IInv /\ V2Sessions
  BY DEF FileCommit, CanCommitFile, Uploading, CommandInv, V2Typed
<1>2. /\ session \in SessionRecord /\ i \in FilesOf(session)
      /\ i \notin PlanDirs(session.source) /\ TypeOK
  BY <1>1, TransferFile DEF V2IInv
<1>3. /\ ~session.options.dryRun /\ i \in FilesOf(session) \ session.done
      /\ transfer.hash = session.source[i].ver /\ Active /\ Faithful(session.source)
  BY <1>1 DEF V2IInv, TransferIsPending, Transferring, V2Sessions
<1>4. BytesOf(transfer) = session.source[i].ver
  BY <1>1, <1>3 DEF Assembles, BytesOf
<1>5. File(session.source[i].ver, BytesOf(transfer)) = session.source[i]
  <2>1. session.source \in Trees /\ session.source[i].kind = "file"
    BY <1>2 DEF SessionRecord, FilesOf, PlanFiles
  <2> QED
    BY <1>3, <1>4, <2>1, ArrivedEntry
<1>6. InstalledFile(session, transfer) = session.source[i]
  BY <1>1, <1>5 DEF InstalledFile, Transferring
<1> DEFINE W(p) == Writes(tree, tree', PushGoal, session.done, p)
<1>7. ASSUME session.prepared \/ CanPrepare, NEW p \in Paths, tree'[p] # tree[p],
             tree'[p] = PreparedTree[p]
      PROVE  W(p)
  BY <1>2, <1>7, PreparedChanges DEF Writes, PushGoal
<1>8. PreparedTree[i] = tree[i]
  BY <1>2 DEF PreparedTree, Put
<1>9. ASSUME Installable(PreparedTree[i], session.destination[i]),
             \/ tree'[i] = session.source[i]
             \/ tree'[i] = None /\ i \in PlanConflicts(session.source, session.destination)
      PROVE  W(i)
  BY <1>3, <1>8, <1>9 DEF Writes, PushGoal, FilesOf
<1>10. CASE /\ r = "ok" /\ (session.prepared \/ CanPrepare)
            /\ Installable(PreparedTree[i], session.destination[i])
            /\ tree' = Put(PreparedTree, {i}, InstalledFile(session, transfer))
  <2>1. /\ tree'[i] = session.source[i]
        /\ \A p \in Paths \ {i} : tree'[p] = PreparedTree[p]
    BY <1>6, <1>10 DEF Put
  <2>2. W(i)
    BY <1>9, <1>10, <2>1
  <2>3. \A p \in Paths \ {i} : tree'[p] # tree[p] => W(p)
    BY <1>7, <1>10, <2>1
  <2> QED
    BY <1>2, <1>3, <2>1, <2>2, <2>3 DEF MayWrite
<1>11. CASE /\ r = "error" /\ (session.prepared \/ CanPrepare)
            /\ tree' \in InstallPartial(PreparedTree, session.source, session.destination,
                                        i, BytesOf(transfer))
  <2>1. \/ tree' = PreparedTree
        \/ /\ Installable(PreparedTree[i], session.destination[i])
           /\ \A p \in Paths \ {i} : tree'[p] = PreparedTree[p]
           /\ \/ tree'[i] = session.source[i]
              \/ tree'[i] = None /\ i \in PlanConflicts(session.source, session.destination)
    BY <1>5, <1>11 DEF InstallPartial, Put
  <2>2. \A p \in Paths \ {i} : tree'[p] # tree[p] => W(p)
    BY <1>7, <1>11, <2>1
  <2>3. tree'[i] # tree[i] => W(i)
    BY <1>8, <1>9, <2>1
  <2> QED
    BY <1>2, <1>3, <1>11, <2>2, <2>3 DEF MayWrite
<1>12. CASE r = "error" /\ PrepareFails
  <2>1. ASSUME NEW p \in Paths, tree'[p] # tree[p] PROVE W(p)
    <3>1. p \in Changed
      BY <2>1 DEF Changed
    <3>2. /\ tree'[p] \in {None, Dir} /\ p \in PlanDirs(session.source)
          /\ CanMake(tree, session.source, session.destination, p)
      BY <1>2, <1>12, <3>1, PrepareFailsChanges
    <3> QED
      BY <3>2 DEF Writes, PushGoal
  <2> QED
    BY <1>2, <1>3, <1>12, <2>1 DEF MayWrite
<1> QED
  BY <1>10, <1>11, <1>12 DEF FileCommit

\* What a request of any kind writes, the mirror allows.
LEMMA V2RequestWrites ==
    ASSUME CommandInv, NEW m, NEW r, V2Handled(m, r), Active
    PROVE  MayWrite
<1>1. /\ m.kind = "request" /\ V2Carries(m) /\ Dispatch2(m, r) /\ V2IInv
  BY V2HandledFacts DEF V2Handled, CommandInv, V2Typed
<1>2. CASE FileCommit(m.conn, m.file, r) /\ m.op = "fileCommit"
  <2>1. m.file \in Paths
    BY <1>1, <1>2 DEF V2Carries, FileOps
  <2> QED
    BY <1>2, <2>1, V2CommitWrites
<1>3. CASE Finish(m.conn, r)
  <2>1. session.done \subseteq FilesOf(session) /\ TypeOK
    BY <1>1 DEF V2IInv, V2Progress
  <2> QED
    BY <1>3, <2>1, FinishWrites
<1>4. CASE UNCHANGED tree
  BY <1>4 DEF MayWrite
<1> QED
  BY <1>1, <1>2, <1>3, <1>4
     DEF Dispatch2, V2Start, Start, V2Finish, Fails, Refuse, Description, Describe, Hashes,
         HashesGet, ChunkBegin, ChunkCommit, ChunkGet, ChunkVerified, FileVerified, Quiet

\* A request of a push maps to a step of the mirror or to none.
LEMMA V2RequestMaps ==
    ASSUME CommandInv, CommandInv', NEW m, NEW r, V2Handled(m, r), client.push
    PROVE  M!MirrorNext \/ UNCHANGED M!mvars
<1>1. /\ UNCHANGED <<client, edits>> /\ TypeOK /\ V2Does(m, r) /\ m.conn \in Conns
      /\ V2Carries(m) /\ m.kind = "request" /\ client \in V2ClientRecord
      /\ ForCommand /\ ForCommand' /\ Dispatch2(m, r)
  BY V2HandledFacts, V2IsForCommand DEF V2Handled, CommandInv, V2Typed, V2IInv
<1>2. CASE V2Ignores(r)
  BY <1>1, <1>2, PushSessionMaps DEF V2Ignores
<1>3. CASE V2Opens(m, r)
  <2>1. JobOf(m) \in AnyJob
    BY <1>1, <1>3 DEF V2Opens, Opens, JobOf, AnyJob, V2Carries, V2ClientRecord
  <2>2. session' \in SessionRecord
    BY <1>1, <1>3, <2>1, NewSessionType DEF V2Opens, Opens
  <2>3. Begins
    BY <1>3, <2>2, OpenedSession, NoSessionAssumption DEF Begins, V2Opens, Opens, Active
  <2> QED
    BY <1>1, <2>3, PushSessionMaps
<1>4. CASE V2Ends(m, r)
  <2>1. IsOver
    BY <1>4, V2RequestWrites DEF IsOver, V2Ends, Ends, Owns, Active
  <2> QED
    BY <1>1, <2>1, PushSessionMaps
<1>5. CASE V2Describes(m, r) \/ V2Moves(m, r)
  <2>1. Active /\ SameJob(session', session) /\ session'.done = session.done /\ tree' = tree
    BY <1>5 DEF V2Describes, V2Moves, Owns, SameProgress
  <2> QED
    BY <1>1, <2>1, SessionRestsMaps
<1>6. CASE V2Completes(m, r)
  <2>1. /\ Active /\ MayWrite /\ SameJob(session', session)
        /\ session'.done = session.done \cup {m.file}
        /\ session.push = client.push /\ r = "ok"
    BY <1>6, V2RequestWrites DEF V2Completes, Owns, CommandInv, V2Sessions
  <2>2. m.op = "fileCommit"
    BY <1>6, <2>1 DEF V2Completes
  <2>3. FileCommit(m.conn, m.file, "ok") /\ m.file \in Paths
    BY <1>1, <2>1, <2>2 DEF Dispatch2, V2Carries, FileOps
  <2>4. m.file \in FilesOf(session) /\ tree'[m.file] = session.source[m.file]
    BY <2>3, V2CommitWrites
  <2>5. GoesOn
    BY <2>1, <2>4, NoSessionAssumption DEF GoesOn, SameJob, Active
  <2> QED
    BY <1>1, <2>5, PushSessionMaps
<1> QED
  BY <1>1, <1>2, <1>3, <1>4, <1>5, <1>6 DEF V2Does

\* So does whatever else the server does.
LEMMA V2ServerMaps ==
    ASSUME CommandInv, CommandInv', client.push,
           \/ V2ServeResource \/ Dropping(ServeClose) \/ V2Tick \/ Shared(Traffic)
           \/ V2LeaseExpires \/ Dropping(Restart) \/ Shared(Lose) \/ LoseChunk
    PROVE  M!MirrorNext \/ UNCHANGED M!mvars
<1>1. /\ session \in SessionRecord \cup {NoSession} /\ ForCommand /\ ForCommand'
  BY V2IsForCommand DEF ForCommand, TypeOK
<1>2. CASE \/ V2ServeResource \/ Dropping(ServeClose) \/ V2LeaseExpires \/ Dropping(Restart)
           \/ Shared(Lose) \/ LoseChunk
  <2>1. session' \in {session, NoSession} /\ UNCHANGED <<tree, client, edits>>
    BY <1>2 DEF V2ServeResource, ReceiveChunk, vars, Dropping, ServeClose, Release, V2LeaseExpires,
                LeaseExpires, Expire, Restart, Shared, Lose, LoseChunk, Unserver, Unclient
  <2> QED
    BY <1>1, <2>1, SessionRestsMaps
<1>3. CASE V2Tick \/ Shared(Traffic)
  <2>1. /\ Active /\ session \in SessionRecord /\ UNCHANGED <<tree, client, edits>>
    BY <1>1, <1>3 DEF V2Tick, Shared, ServerTick, Tick, Traffic, Touch, Owns, Active, Unclient
  <2>2. PICK x \in 0 .. Lease + 1 : session' = [session EXCEPT !.idle = x]
    BY <2>1, <1>3, LeaseAssumption
       DEF V2Tick, Shared, ServerTick, Tick, Traffic, Touch, SessionRecord
  <2>3. SameJob(session', session) /\ session'.done = session.done
    BY <2>1, <2>2, SetIdle
  <2> QED
    BY <1>1, <2>1, <2>3, SessionRestsMaps
<1> QED
  BY <1>2, <1>3

\* The steps of the client within a file, which write nothing.
Within ==
    \/ ReadDescribed \/ AskPage \/ ReadPage \/ AskChunk \/ SendChunk \/ AskChunkCommit
    \/ ReadChunkCommitted \/ ReadChunkGet \/ ReceivePulledChunk \/ ReadChunkVerified
    \/ AskFileDone

LEMMA WithinFile ==
    ASSUME Within
    PROVE  /\ client.pc \in FilePlaces /\ UNCHANGED <<tree, session, local, edits>>
           /\ \E x \in FilePlaces : client' = [client EXCEPT !.pc = x]
<1>1. UNCHANGED <<tree, session, local, edits>>
  BY DEF Within, Unmoved, ReadDescribed, AskPage, ReadPage, AskChunk, SendChunk, AskChunkCommit,
         ReadChunkCommitted, ReadChunkGet, ReceivePulledChunk, ReadChunkVerified, AskFileDone
<1>2. client.pc \in FilePlaces
  BY DEF Within, ReadDescribed, AskPage, ReadPage, AskChunk, SendChunk, AskChunkCommit,
         ReadChunkCommitted, ReadChunkGet, ReceivePulledChunk, ReadChunkVerified, AskFileDone,
         AtPage, FilePlaces, ChunkPlaces
<1>3. \E x \in {"page", "hashes", "begin", "get", "send", "commit", "receive", "verified", "file"} :
         client' = [client EXCEPT !.pc = x]
  BY DEF Within, ReadDescribed, AskPage, ReadPage, AskChunk, SendChunk, AskChunkCommit,
         ReadChunkCommitted, ReadChunkGet, ReceivePulledChunk, ReadChunkVerified, AskFileDone
<1> QED
  BY <1>1, <1>2, <1>3 DEF FilePlaces, ChunkPlaces

\* All steps of the client.
V2Acts ==
    Shared(Open) \/ V2Client \/ V2Fail \/ Leaves(Crash)

\* The direction and the options of a command are never changed.
LEMMA V2JobStays ==
    ASSUME client \in V2ClientRecord, V2Acts
    PROVE  /\ client'.push = client.push /\ client'.options = client.options
           /\ UNCHANGED <<tree, session, edits>>
<1>1. CASE Shared(Open)
  BY <1>1 DEF Shared, Open, V2ClientRecord
<1>2. CASE V2Fail \/ Leaves(Crash)
  BY <1>2 DEF V2Fail, Leaves, Fail, Crash, GiveUp, Unserver, V2ClientRecord
<1>3. CASE Leaves(PrepareBreaks) \/ InstallAssembledBreaks \/ Leaves(RemovalBreaks)
  BY <1>3 DEF Leaves, PrepareBreaks, InstallAssembledBreaks, RemovalBreaks, GiveUp, Unserver,
              V2ClientRecord
<1>4. CASE Shared(ReadManifest) \/ Shared(MakePlan) \/ Shared(AllSent) \/ Shared(Succeed)
  BY <1>4 DEF Shared, ReadManifest, MakePlan, AllSent, Succeed, AskFinish, Unserver,
              V2ClientRecord
<1>5. CASE Within
  BY <1>5, WithinFile DEF V2ClientRecord
<1>6. CASE AskDescription \/ ReadFileCommitted \/ InstallAssembled
  BY <1>6 DEF AskDescription, ReadFileCommitted, InstallAssembled, FileDone, Unmoved,
              V2ClientRecord
<1> QED
  BY <1>1, <1>2, <1>3, <1>4, <1>5, <1>6 DEF V2Acts, V2Client, Within

\* The steps of a pulling client map to steps of the mirror or to none.
LEMMA V2PullActionsMap ==
    ASSUME CommandInv, CommandInv', ~client.push, V2Acts
    PROVE  M!MirrorNext \/ UNCHANGED M!mvars
<1>1. /\ client \in V2ClientRecord /\ client' \in V2ClientRecord /\ V2Typed /\ V2Place
      /\ HoldsManifests /\ HoldsManifests'
  BY V2IsForCommand DEF CommandInv, V2Typed
<1>2. ~client'.push /\ client'.options = client.options /\ UNCHANGED edits
  BY <1>1, V2JobStays
<1>3. CASE Shared(Open)
  <2>1. UNCHANGED local /\ client.pc \in {"idle", "failed"} /\ client'.pc = "start"
    BY <1>1, <1>3 DEF Shared, Open, V2ClientRecord
  <2> QED
    BY <1>1, <1>2, <2>1, PullClientMaps DEF Waits, Working, Running, Ended
<1>4. ASSUME V2SameAttempt(client', client), TakesUp \/ CarriesOn \/ LeavesOff
      PROVE  M!MirrorNext \/ UNCHANGED M!mvars
  BY <1>1, <1>2, <1>4, PullClientMaps DEF V2SameAttempt
<1>5. ASSUME client' = [client EXCEPT !.pc = "failed"], Running, MayWriteLocal,
             ~Working => UNCHANGED local
      PROVE  M!MirrorNext \/ UNCHANGED M!mvars
  <2>1. V2SameAttempt(client', client) /\ client'.pc = "failed"
    BY <1>1, <1>5, V2MovesOn DEF V2Moved, V2Places, Ended
  <2>2. ~Working'
    BY <2>1 DEF Working, Running, Ended
  <2> QED
    BY <1>1, <1>2, <1>5, <2>1, <2>2, PullClientMaps DEF LeavesOff, Waits, V2SameAttempt
<1>6. CASE V2Fail \/ Leaves(Crash)
  BY <1>5, <1>6 DEF V2Fail, Leaves, Fail, Crash, GiveUp, MayWriteLocal
<1>7. CASE Leaves(PrepareBreaks)
  <2>1. /\ client.pc = "plan" /\ ~client.options.dryRun
        /\ client' = [client EXCEPT !.pc = "failed"]
        /\ local' \in PreparePartial(local, Source, Target)
    BY <1>7 DEF Leaves, PrepareBreaks, GiveUp
  <2> QED
    BY <1>1, <1>5, <2>1, PullPrepareWrites DEF Working, Running, Ended
<1>8. ASSUME client.pc = "file"
      PROVE  /\ ~client.options.dryRun /\ client.file \in PlannedFiles \ client.done
             /\ client.file \in Paths
             /\ File(Source[client.file].ver, part.hash) = Source[client.file]
  <2>1. Running /\ client.pc \in FilePlaces \ {"describe"}
    BY <1>8 DEF Running, Ended, FilePlaces
  <2>2. /\ ~client.options.dryRun /\ client.file \in PlannedFiles \ client.done
        /\ part.hash = Source[client.file].ver
    BY <1>1, <2>1 DEF V2Place
  <2>3. client.file \in Paths /\ Source[client.file].kind = "file"
    BY <1>1, <2>2, V2PlannedVersion
  <2>4. Source \in Trees /\ Faithful(Source)
    BY <1>1 DEF Source, V2Typed, V2ClientRecord
  <2> QED
    BY <2>2, <2>3, <2>4, ArrivedEntry
<1>9. CASE InstallAssembledBreaks
  <2>1. /\ client.pc = "file" /\ client' = [client EXCEPT !.pc = "failed"]
        /\ local' \in InstallPartial(local, Source, Target, client.file, part.hash)
    BY <1>9 DEF InstallAssembledBreaks, GiveUp
  <2>2. \/ local' = local
        \/ /\ Installable(local[client.file], Target[client.file])
           /\ \E e : /\ local' = Put(local, {client.file}, e)
                     /\ \/ e = Source[client.file]
                        \/ e = None /\ client.file \in PlanConflicts(Source, Target)
    BY <1>8, <2>1 DEF InstallPartial
  <2>3. MayWriteLocal
    <3>1. CASE local' = local
      BY <3>1 DEF MayWriteLocal
    <3> QED
      BY <1>1, <1>8, <2>1, <2>2, <3>1, PullInstallWrites
  <2> QED
    BY <1>5, <2>1, <2>3 DEF Working, Running, Ended
<1>10. ASSUME client.pc = "finish", ~client.options.dryRun
       PROVE  client.done = PlannedFiles
  BY <1>1, <1>10 DEF V2Place, Running, Ended
<1>11. CASE Leaves(RemovalBreaks)
  <2>1. /\ client.pc = "finish" /\ client' = [client EXCEPT !.pc = "failed"]
        /\ ~client.options.dryRun
        /\ local' \in RemovePartial(local, Target, Extras)
    BY <1>11 DEF Leaves, RemovalBreaks, GiveUp
  <2>2. MayWriteLocal
    <3>1. \/ local' = local
          \/ Removable(local, Target, Extras) /\ \E D \in SUBSET Extras : local' = Put(local, D, None)
      BY <2>1, RemoveIsPut
    <3> QED
      BY <1>1, <1>10, <2>1, <3>1, PullRemovalWrites
  <2> QED
    BY <1>5, <2>1, <2>2 DEF Working, Running, Ended
<1>12. CASE Shared(ReadManifest)
  <2>1. PICK m \in Answer("manifest") :
           client' = [client EXCEPT !.pc = "plan", !.remote = m.manifest]
    BY <1>12 DEF Shared, ReadManifest
  <2>2. m.manifest \in Trees /\ client.pc = "start" /\ UNCHANGED local
    BY <1>1, <1>12, <2>1 DEF Answer, V2Typed, V2Carries, Shared, ReadManifest
  <2>3. V2SameAttempt(client', client) /\ client'.pc = "plan" /\ client'.done = client.done
    BY <1>1, <2>1, <2>2, V2MovesWithRemote DEF V2Moved
  <2>4. client.done = {}
    BY <1>1, <2>2 DEF V2Place, Running, Ended
  <2>5. TakesUp
    BY <2>2, <2>3, <2>4 DEF TakesUp, Working, Running, Ended
  <2> QED
    BY <1>4, <2>3, <2>5
<1>13. CASE Shared(MakePlan)
  <2>1. /\ client.pc = "plan" /\ local' = LocalAfterPlan
        /\ \/ client.options.dryRun /\ client' = [client EXCEPT !.pc = "finish"]
           \/ /\ ~client.options.dryRun /\ client' = [client EXCEPT !.pc = "next"]
              /\ Preparable(local, Source, Target)
    BY <1>13 DEF Shared, MakePlan, AskFinish
  <2>2. /\ V2SameAttempt(client', client) /\ client'.pc \in {"finish", "next"}
        /\ client'.remote = client.remote /\ client'.done = client.done
    BY <1>1, <2>1, V2MovesOn DEF V2Moved, V2Places
  <2>3. MayWriteLocal
    <3>1. CASE client.options.dryRun
      BY <2>1, <3>1 DEF LocalAfterPlan, MayWriteLocal
    <3>2. CASE ~client.options.dryRun
      BY <1>1, <2>1, <3>2, PullPrepareWrites DEF LocalAfterPlan
    <3> QED
      BY <3>1, <3>2
  <2>4. CarriesOn
    BY <2>1, <2>2, <2>3 DEF CarriesOn, Working, Running, Ended
  <2> QED
    BY <1>4, <2>2, <2>4
<1>14. CASE AskDescription
  <2>1. PICK f \in Paths : client' = [client EXCEPT !.pc = "describe", !.file = f, !.data = 0]
    BY <1>14 DEF AskDescription
  <2>2. /\ V2SameAttempt(client', client) /\ client'.pc = "describe"
        /\ client'.remote = client.remote /\ client'.done = client.done
    BY <1>1, <2>1, V2MovesToFile DEF V2Moved
  <2>3. UNCHANGED local /\ Working
    BY <1>14 DEF AskDescription, Unmoved, Working, Running, Ended
  <2>4. CarriesOn
    BY <2>2, <2>3, OnlyMoves DEF Ended
  <2> QED
    BY <1>4, <2>2, <2>4
<1>15. CASE Within \/ Shared(AllSent)
  <2>1. /\ \E x \in FilePlaces \cup {"finish"} : client' = [client EXCEPT !.pc = x]
        /\ UNCHANGED local /\ Working
    BY <1>15, WithinFile DEF Shared, AllSent, AskFinish, Working, Running, Ended, FilePlaces,
                             ChunkPlaces
  <2>2. PICK x \in FilePlaces \cup {"finish"} : client' = [client EXCEPT !.pc = x]
    BY <2>1
  <2>3. /\ V2SameAttempt(client', client) /\ client'.pc = x /\ client'.remote = client.remote
        /\ client'.done = client.done
    BY <1>1, <2>2, V2MovesOn DEF V2Moved, V2Places
  <2>4. CarriesOn
    BY <2>1, <2>3, OnlyMoves DEF Ended, FilePlaces, ChunkPlaces
  <2> QED
    BY <1>4, <2>3, <2>4
<1>16. CASE InstallAssembled
  <2>1. /\ client.pc = "file"
        /\ Installable(local[client.file], Target[client.file])
        /\ local' = Put(local, {client.file}, File(Source[client.file].ver, part.hash))
        /\ client' = FileDone(client)
    BY <1>16 DEF InstallAssembled
  <2>2. /\ V2SameAttempt(client', client) /\ client'.pc = "next" /\ client'.remote = client.remote
        /\ client'.done = client.done \cup {client.file}
    BY <1>1, <1>8, <2>1, V2MovesPastFile DEF V2Moved
  <2>3. MayWriteLocal
    BY <1>1, <1>8, <2>1, PullInstallWrites
  <2>4. client.file \in PlannedFiles /\ Source[client.file] = local'[client.file]
    BY <1>8, <2>1 DEF Put
  <2>5. CarriesOn
    BY <2>1, <2>2, <2>3, <2>4 DEF CarriesOn, Working, Running, Ended
  <2> QED
    BY <1>4, <2>2, <2>5
<1>17. CASE Shared(Succeed)
  <2>1. /\ client.pc = "finish" /\ client' = [client EXCEPT !.pc = "success"]
        /\ \/ local' = local
           \/ /\ ~client.options.dryRun /\ Removable(local, Target, Extras)
              /\ local' = Put(local, Extras, None)
    BY <1>17 DEF Shared, Succeed
  <2>2. V2SameAttempt(client', client) /\ client'.pc = "success"
    BY <1>1, <2>1, V2MovesOn DEF V2Moved, V2Places, Ended
  <2>3. MayWriteLocal
    <3>1. CASE local' = local
      BY <3>1 DEF MayWriteLocal
    <3> QED
      BY <1>1, <1>10, <2>1, <3>1, PullRemovalWrites
  <2>4. LeavesOff
    BY <2>1, <2>2, <2>3 DEF LeavesOff, Working, Running, Ended
  <2> QED
    BY <1>4, <2>2, <2>4
<1>18. ~ReadFileCommitted
  BY DEF ReadFileCommitted
<1> QED
  BY <1>3, <1>6, <1>7, <1>9, <1>11, <1>12, <1>13, <1>14, <1>15, <1>16, <1>17, <1>18
     DEF V2Acts, V2Client, Within

\* Edits of either directory map to edits of the mirror.
LEMMA V2EditsMap ==
    ASSUME CommandInv, CommandInv', Shared(EditExport) \/ Shared(EditLocal)
    PROVE  M!MirrorNext
<1>1. client \in V2ClientRecord /\ TypeOK /\ HoldsManifests /\ edits' = edits + 1
  BY V2IsForCommand DEF CommandInv, V2Typed, ForCommand, Shared, EditExport, EditLocal
<1>2. PICK p \in Paths, e \in EditEntries :
         \/ /\ Edit(p, e) /\ UNCHANGED local
            /\ client' = IF client.push THEN [client EXCEPT !.foreign = @ \cup {p}] ELSE client
         \/ /\ local' = Put(local, {p}, e) /\ UNCHANGED <<tree, session>>
            /\ client' = IF client.push THEN [client EXCEPT !.stale = @ \cup {p}]
                                        ELSE [client EXCEPT !.foreign = @ \cup {p}]
  BY DEF Shared, EditExport, EditLocal, Unserver
<1>3. V2SameBut(client', client)
  <2>1. client.foreign \cup {p} \in SUBSET Paths /\ client.stale \cup {p} \in SUBSET Paths
    BY <1>1 DEF V2ClientRecord
  <2>2. \/ client' = client
        \/ client' = [client EXCEPT !.foreign = client.foreign \cup {p}]
        \/ client' = [client EXCEPT !.stale = client.stale \cup {p}]
    BY <1>2
  <2>3. CASE client' = client
    BY <1>1, <2>3 DEF V2SameBut
  <2>4. CASE client' = [client EXCEPT !.foreign = client.foreign \cup {p}]
    BY <1>1, <2>1, <2>4, V2SetForeign
  <2>5. CASE client' = [client EXCEPT !.stale = client.stale \cup {p}]
    BY <1>1, <2>1, <2>5, V2SetStaleSource
  <2> QED
    BY <2>2, <2>3, <2>4, <2>5
<1> QED
  BY <1>1, <1>2, <1>3, EditOfOneMaps DEF V2SameBut, SameCommand

\* Every step maps to a step of the mirror or to none.
LEMMA V2MirrorNextMaps ==
    ASSUME CommandInv, CommandInv', [SessionV2Next]_v2svars
    PROVE  [M!MirrorNext]_(M!mvars)
<1>1. CASE UNCHANGED v2svars
  <2>1. SessionGoal' = SessionGoal /\ Destination' = Destination /\ edits' = edits
    BY <1>1 DEF v2svars, SessionGoal, Destination, Source, Target, Running, Active
  <2>2. Installed' = Installed
    BY <1>1, <2>1 DEF v2svars, Installed
  <2> QED
    BY <2>1, <2>2, StutterMaps
<1>2. CASE V2Acts
  <2>1. CASE client.push
    <3>1. client'.push /\ client'.options = client.options /\ UNCHANGED <<tree, session, edits>>
      BY <1>2, <2>1, V2JobStays DEF CommandInv, V2Typed
    <3> QED
      BY <2>1, <3>1, PushClientMaps
  <2>2. CASE ~client.push
    BY <1>2, <2>2, V2PullActionsMap
  <2> QED
    BY <2>1, <2>2
<1>3. CASE \/ V2ServeRequest \/ V2ServeResource \/ Dropping(ServeClose) \/ V2Tick
           \/ Shared(Traffic) \/ V2LeaseExpires \/ Dropping(Restart) \/ Shared(Lose) \/ LoseChunk
  <2>1. CASE ~client.push
    <3>1. UNCHANGED <<client, local, edits>>
      BY <1>3 DEF V2ServeRequest, V2ServeResource, Dropping, Shared, V2Tick, V2LeaseExpires,
                  ServeClose, ServerTick, Traffic, LeaseExpires, Restart, Lose, LoseChunk, Unclient
    <3> QED
      BY <2>1, <3>1, PullServerMaps
  <2>2. CASE client.push /\ V2ServeRequest
    <3>1. PICK m \in net, r \in Replies \cup {"description", "hashes", "missing"} : V2Handled(m, r)
      BY <2>2 DEF V2ServeRequest, V2Handled, ChunkFor, Unclient
    <3> QED
      BY <2>2, <3>1, V2RequestMaps
  <2>3. CASE client.push /\ ~V2ServeRequest
    BY <1>3, <2>3, V2ServerMaps
  <2> QED
    BY <2>1, <2>2, <2>3
<1>4. CASE Shared(EditExport) \/ Shared(EditLocal)
  BY <1>4, V2EditsMap
<1> QED
  BY <1>1, <1>2, <1>3, <1>4 DEF SessionV2Next, V2Acts

\* MirrorsSource, the run's property: whatever is lost, damaged or killed, the
\* destination of a version-2 command follows module Mirror (engine/v2.rs with
\* the engine, planner and file system of version 1).
THEOREM SessionV2Mirrors == SessionV2Spec => MirrorsSource
<1>1. CommandInv /\ CommandInv' /\ [SessionV2Next]_v2svars => [M!MirrorNext]_(M!mvars)
  BY V2MirrorNextMaps
<1>2. SessionV2Init => M!MirrorInit
  BY MirrorInitMaps DEF SessionV2Init
<1> QED
  BY <1>1, <1>2, SessionV2Induction, PTL DEF SessionV2Spec, MirrorsSource, M!MirrorSpec
=============================================================================
