----------------------------- MODULE SessionV2 -----------------------------
(***************************************************************************)
(* A version-2 synchronization end to end (engine/v2.rs, `synchronize'):   *)
(* the client that moves a file chunk by chunk, the engine of module       *)
(* ServerV2, the network and the outside processes of module Session, and  *)
(* the cache of whichever side receives, which outlives crashes, restarts  *)
(* and attempts.  START, the plan and FINISH are those of module Session.  *)
(*                                                                         *)
(* Both peers are this program, so the hashes of a page are those of the   *)
(* described file: the chunks of version d, all named d.                   *)
(***************************************************************************)
EXTENDS Session, ServerV2

CONSTANT MaxLosses      \* bound on the edits before and the damages of cached chunks

ASSUME LossesAssumption == MaxLosses \in Nat

VARIABLES
    part,       \* the file the client is moving
    cached,     \* verified chunks of the receiver: <<path, hash, chunk>>
    losses      \* damage so far

v2svars == <<tree, rooted, session, transfer, local, client, up, net, edits,
             part, cached, losses>>
unpart == <<transfer, part, cached, losses>>

Chunk(f, d, j) == <<f, d, j>>
CachedChunks(f, d) == {j \in Chunks(d) : Chunk(f, d, j) \in cached}
StoredWithOneMore(f, d) ==                      \* mutation
    [j \in 1 .. Size[d] + 1 |-> IF j \in CachedChunks(f, d) THEN d ELSE 0]
StoredOf(f, d) == [j \in Chunks(d) |-> IF j \in CachedChunks(f, d) THEN d ELSE 0]
ChunksOf(f, d) == {Chunk(f, d, j) : j \in Chunks(d)}

\* `hash' is the description, `next' the first chunk of the next page,
\* `missing' what is left of the page at hand.
NoPart == [hash |-> 0, next |-> 0, missing |-> {}, chunk |-> 0]

SessionV2Init ==
    /\ SessionInit
    /\ transfer = NoTransfer
    /\ part = NoPart /\ cached = {} /\ losses = 0

\* Steps of module Session that version 2 shares, in or out of a transfer.
Shared(A) == A /\ UNCHANGED unpart

----------------------------------------------------------------------------
(***************************************************************************)
(* The client.                                                             *)
(***************************************************************************)
Name(m, S) == [m EXCEPT !.chunks = S]
AskPart(op, S) == Name(Ask(client.conn, op, client.file), S)
Unmoved == UNCHANGED <<local, edits, cached, losses, tree, rooted, session, up, transfer>>

\* Push: snapshot and scan the next file; pull: ask for its description.
AskDescription ==
    /\ client.pc = "next"
    /\ \E f \in Paths :
         /\ IsNext(f) /\ (client.push => Snapshot(f))
         /\ client' = [client EXCEPT !.pc = "describe", !.file = f,
                                     !.data = IF client.push THEN local[f].data ELSE 0]
         /\ net' = net \cup
               {IF client.push
                  THEN Msg("request", client.conn, "description", f, Blank, local[f].data)
                  ELSE Ask(client.conn, "describe", f)}
         /\ part' = [NoPart EXCEPT !.hash = client'.data]
    /\ Unmoved

\* Push: described; pull: the description must fit the manifest, and opens
\* the store.
ReadDescribed ==
    /\ client.pc = "describe"
    /\ \E m \in Answer(IF client.push THEN "ok" ELSE "description") :
         /\ net' = net \ {m}
         /\ IF client.push THEN UNCHANGED part
            ELSE /\ ValidDescription(Source[client.file], m.data, client.options)
                 /\ part' = [part EXCEPT !.hash = m.data]
    /\ client' = [client EXCEPT !.pc = "page"]
    /\ Unmoved

AtPage == client.pc = "page" /\ part.missing = {}
MorePages == part.next < Size[part.hash]

AskPage ==
    /\ AtPage /\ MorePages
    /\ net' = net \cup {AskPart(IF client.push THEN "hashes" ELSE "hashesGet", {part.next})}
    /\ client' = [client EXCEPT !.pc = "hashes"]
    /\ UNCHANGED part /\ Unmoved

NextPage(p) == IF Size[p.hash] - p.next < PageChunks THEN Size[p.hash] ELSE p.next + PageChunks

\* The sender is told what is missing, the receiver looks into its store.
MissingAll(f, S) == S                           \* mutation
MissingOf(f, S) == S \ CachedChunks(f, part.hash)

ReadPage ==
    /\ client.pc = "hashes"
    /\ \E m \in Answer(IF client.push THEN "missing" ELSE "hashes") :
         /\ net' = net \ {m}
         /\ part' = [part EXCEPT
               !.next = NextPage(part),
               !.missing = IF client.push THEN m.chunks
                           ELSE MissingOf(client.file, part.next + 1 .. NextPage(part))]
    /\ client' = [client EXCEPT !.pc = "page"]
    /\ Unmoved

\* The missing chunks of the page go in ascending order.
AskChunk ==
    /\ client.pc = "page"
    /\ \E j \in part.missing :
         /\ \A k \in part.missing : j <= k
         /\ part' = [part EXCEPT !.chunk = j]
         /\ net' = net \cup {AskPart(IF client.push THEN "chunkBegin" ELSE "chunkGet", {j})}
    /\ client' = [client EXCEPT !.pc = IF client.push THEN "begin" ELSE "get"]
    /\ Unmoved

SendChunk ==
    /\ client.pc = "begin"
    /\ \E m \in Answer("ok") :
         net' = (net \ {m}) \cup {Name(Msg("resource", client.conn, "push", client.file,
                                           Blank, part.hash), {part.chunk})}
    /\ client' = [client EXCEPT !.pc = "send"]
    /\ UNCHANGED part /\ Unmoved

AskChunkCommit ==
    /\ client.pc = "send"
    /\ \E m \in Answer("proof") :
         net' = (net \ {m}) \cup {AskPart("chunkCommit", {part.chunk})}
    /\ client' = [client EXCEPT !.pc = "commit"]
    /\ UNCHANGED part /\ Unmoved

ChunkDone == part' = [part EXCEPT !.missing = @ \ {part.chunk}, !.chunk = 0]

ReadChunkCommitted ==
    /\ client.pc = "commit"
    /\ \E m \in Answer("ok") : net' = net \ {m}
    /\ client' = [client EXCEPT !.pc = "page"] /\ ChunkDone
    /\ Unmoved

ReadChunkGet ==
    /\ client.pc = "get"
    /\ \E m \in Answer("file") : net' = net \ {m}
    /\ client' = [client EXCEPT !.pc = "receive"]
    /\ UNCHANGED part /\ Unmoved

\* The chunk is stored once verified, then acknowledged.
ReceivePulledChunk ==
    /\ client.pc = "receive"
    /\ \E m \in net :
         /\ m.kind = "resource" /\ m.conn = client.conn /\ m.op = "pull"
         /\ m.chunks = {part.chunk} /\ m.data = part.hash
         /\ net' = (net \ {m}) \cup {AskPart("chunkVerified", {part.chunk})}
    /\ cached' = cached \cup {Chunk(client.file, part.hash, part.chunk)}
    /\ client' = [client EXCEPT !.pc = "verified"]
    /\ UNCHANGED <<part, transfer, local, edits, losses, tree, rooted, session, up>>

ReadChunkVerified ==
    /\ client.pc = "verified"
    /\ \E m \in Answer("ok") : net' = net \ {m}
    /\ client' = [client EXCEPT !.pc = "page"] /\ ChunkDone
    /\ Unmoved

\* After the last page a push checks its source once more, a pull assembles
\* what it stored.
Assembled(f, d) == CachedChunks(f, d) = Chunks(d)

AskFileDone ==
    /\ AtPage /\ ~MorePages
    /\ IF client.push THEN Snapshot(client.file) ELSE Assembled(client.file, part.hash)
    /\ net' = net \cup {AskPart(IF client.push THEN "fileCommit" ELSE "fileVerified", {})}
    /\ client' = [client EXCEPT !.pc = "file"]
    /\ UNCHANGED part /\ Unmoved

FileDone(c) == [c EXCEPT !.pc = "next", !.done = @ \cup {c.file}]

ReadFileCommitted ==
    /\ client.pc = "file" /\ client.push
    /\ \E m \in Answer("ok") : net' = net \ {m}
    /\ client' = FileDone(client) /\ part' = NoPart
    /\ Unmoved

\* clear_committed: cleaning up may fail, and stop anywhere.
ClearsEverything(f, d) == cached' = {x \in cached : x[1] # f}       \* mutation
Clears(f, d) == \E S \in SUBSET ChunksOf(f, d) : cached' = cached \ S

InstallAssembled ==
    /\ client.pc = "file" /\ ~client.push
    /\ \E m \in Answer("ok") : net' = net \ {m}
    /\ Installable(local[client.file], Target[client.file])
    /\ local' = Put(local, {client.file}, File(Source[client.file].ver, part.hash))
    /\ client' = FileDone(client) /\ part' = NoPart
    /\ Clears(client.file, part.hash)
    /\ UNCHANGED <<transfer, edits, losses, tree, rooted, session, up>>

InstallAssembledBreaks ==
    /\ client.pc = "file" /\ ~client.push /\ Answer("ok") # {}
    /\ \E dir \in InstallPartial(local, Source, Target, client.file, part.hash) : GiveUp(dir)
    /\ UNCHANGED <<transfer, cached, losses>> /\ part' = NoPart

\* An attempt that ends drops its store; its chunks stay.
Leaves(A) == A /\ part' = NoPart /\ UNCHANGED <<transfer, cached, losses>>

----------------------------------------------------------------------------
(***************************************************************************)
(* The server.                                                             *)
(***************************************************************************)
Named(m) == CHOOSE j \in m.chunks : TRUE
PageOf(t) == [j \in Page(t) |-> t.hash]

Dispatch2(m, r) ==
    \/ m.op = "start" /\ V2Start(m.conn, [push |-> client.push, options |-> client.options,
                                          manifest |-> m.manifest], r)
    \/ m.op = "finish" /\ V2Finish(m.conn, r)
    \/ m.op = "description" /\ r = "ok"
       /\ Description(m.conn, m.file, m.data, StoredOf(m.file, m.data))
    \/ m.op = "describe" /\ r = "description" /\ Describe(m.conn, m.file)
    \/ m.op = "hashes" /\ r = "missing"
       /\ transfer # NoTransfer /\ Hashes(m.conn, m.file, Named(m), PageOf(transfer))
    \/ m.op = "hashesGet" /\ r = "hashes" /\ HashesGet(m.conn, m.file, Named(m))
    \/ m.op = "chunkBegin" /\ r = "ok" /\ ChunkBegin(m.conn, m.file, Named(m))
    \/ m.op = "chunkCommit" /\ r = "ok" /\ ChunkCommit(m.conn, m.file, Named(m), m.file)
    \/ m.op = "chunkGet" /\ r = "file" /\ ChunkGet(m.conn, m.file, Named(m))
    \/ m.op = "chunkVerified" /\ r = "ok" /\ ChunkVerified(m.conn, m.file, Named(m))
    \/ m.op = "fileCommit" /\ FileCommit(m.conn, m.file, r)
    \/ m.op = "fileVerified" /\ r = "ok" /\ FileVerified(m.conn, m.file)
    \/ r = "error" /\ Fails(m.conn)

\* What the handler leaves in the server's cache.
ServerCacheForgetful(m, r) ==                   \* mutation
    IF m.op = "fileCommit" /\ r = "ok" THEN Clears(m.file, transfer.hash)
    ELSE UNCHANGED cached
ServerCache(m, r) ==
    IF m.op = "fileCommit" /\ r = "ok" THEN Clears(m.file, transfer.hash)
    ELSE cached' = cached \cup
           (IF m.op = "chunkCommit" /\ r = "ok"
              THEN {Chunk(m.file, transfer.hash, Named(m))} ELSE {})

ReplyTo(m, r) ==
    [Msg("reply", m.conn, r, NoPath, IF r = "manifest" THEN tree ELSE Blank,
         IF r = "description" THEN transfer'.hash ELSE 0)
       EXCEPT !.chunks = IF r = "missing" THEN transfer'.missing ELSE {}]

V2ServeRequest ==
    \E m \in net, r \in Replies \cup {"description", "hashes", "missing"} :
       /\ m.kind = "request" /\ m.conn \in up
       /\ Dispatch2(m, r) /\ ServerCache(m, r)
       /\ net' = (net \ {m}) \cup {ReplyTo(m, r)}
                 \cup (IF r = "file"
                         THEN {Name(Msg("resource", m.conn, "pull", m.file, Blank,
                                        transfer.hash), m.chunks)}
                         ELSE {})
       /\ Unclient /\ UNCHANGED <<up, part, losses>>

V2ServeResource ==
    \E m \in net :
       /\ m.kind = "resource" /\ m.op = "push" /\ m.conn \in up
       /\ ReceiveChunk(m.conn, [id |-> m.file, data |-> m.data, meta |-> FALSE])
       /\ m.chunks = {transfer.pending}
       /\ net' = (net \ {m}) \cup {Msg("reply", m.conn, "proof", NoPath, Blank, 0)}
       /\ Unclient /\ UNCHANGED <<up, part, cached, losses>>

\* A session that ends without an answer drops its transfer.
Dropping(A) ==
    /\ A /\ transfer' = IF session' = NoSession THEN NoTransfer ELSE transfer
    /\ UNCHANGED <<part, cached, losses>>

----------------------------------------------------------------------------
\* A cached chunk is damaged, or expired while nobody has it open.
LoseChunk ==
    /\ losses + edits < MaxLosses /\ losses' = losses + 1
    /\ \E x \in cached :
         /\ cached' = cached \ {x}
         /\ transfer' = IF transfer # NoTransfer /\ client.push
                             /\ transfer.file = x[1] /\ transfer.hash = x[2]
                          THEN [transfer EXCEPT !.stored[x[3]] = 0] ELSE transfer
    /\ UNCHANGED <<tree, rooted, session, local, client, up, net, edits, part>>

V2Client ==
    \/ Shared(ReadManifest) \/ Shared(MakePlan) \/ Leaves(PrepareBreaks)
    \/ AskDescription \/ ReadDescribed \/ AskPage \/ ReadPage \/ AskChunk
    \/ SendChunk \/ AskChunkCommit \/ ReadChunkCommitted
    \/ ReadChunkGet \/ ReceivePulledChunk \/ ReadChunkVerified
    \/ AskFileDone \/ ReadFileCommitted \/ InstallAssembled \/ InstallAssembledBreaks
    \/ Shared(AllSent) \/ Shared(Succeed) \/ Leaves(RemovalBreaks)

V2Fail == Leaves(Fail)
V2Tick == Shared(ServerTick)
V2LeaseExpires == Dropping(LeaseExpires)

SessionV2Next ==
    \/ Shared(Open) \/ V2Client \/ V2Fail \/ Leaves(Crash)
    \/ V2ServeRequest \/ V2ServeResource \/ Dropping(ServeClose)
    \/ V2Tick \/ Shared(Traffic) \/ V2LeaseExpires \/ Dropping(Restart)
    \/ Shared(Lose) \/ Shared(EditExport) \/ Shared(EditLocal) \/ LoseChunk

SessionV2Spec == SessionV2Init /\ [][SessionV2Next]_v2svars

----------------------------------------------------------------------------
(***************************************************************************)
(* Properties, besides those of module Session that hold of version 2.     *)
(***************************************************************************)
SessionV2TypeOK ==
    /\ V2TypeOK
    /\ part \in [hash : Content, next : Nat, missing : SUBSET Nat, chunk : Nat]
    /\ \A x \in cached : x[1] \in Paths /\ x[2] \in Versions /\ x[3] \in Chunks(x[2])
    /\ losses \in 0 .. MaxLosses

\* While an attempt and its session are both alive, they move the same
\* chunk of the same description: whatever was lost or is still on its way
\* from an earlier attempt, a chunk on the wire is the one that is pending,
\* and the store the engine has open is what is on its disk.
PeersInStep ==
    transfer # NoTransfer /\ Owns(client.conn) /\ Running /\ part.hash # 0 =>
        /\ transfer.file = client.file /\ transfer.hash = part.hash
        /\ transfer.pending \in {0, part.chunk}
        /\ \A m \in net : m.kind = "resource" /\ m.conn = client.conn
                              => m.chunks = {transfer.pending}
        /\ session.push => transfer.stored = StoredOf(transfer.file, transfer.hash)

\* README.md "requests only missing or damaged ones": across lost replies,
\* crashes and restarts, no chunk is put on the wire of the present attempt
\* while the receiver has it.
OnlyMissingSent ==
    \A m \in net : m.kind = "resource" /\ m.conn = client.conn =>
        m.chunks \cap CachedChunks(m.file, m.data) = {}

\* SUMMARY.md "Preserve verified cache blocks across failures": a block
\* leaves the cache only by damage, or when its file is in place.
ProgressSurvives ==
    [][losses' = losses => \A x \in cached \ cached' :
          IF client.push THEN tree'[x[1]].data = x[2] ELSE local'[x[1]].data = x[2]]_v2svars

\* Types, the same plan, and the same chunk on both sides.
SessionV2Invariant == SessionV2TypeOK /\ PeersAgree /\ PeersInStep

\* What a version-2 command leaves: whole files, and what it reports.
SuccessIsHonest == FilesAreFaithful /\ SuccessMeansSynchronized
=============================================================================
