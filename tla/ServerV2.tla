------------------------------ MODULE ServerV2 ------------------------------
(***************************************************************************)
(* The version-2 engine of an exporting host (engine/v2.rs, `Server'): a   *)
(* version-1 engine keeps the session and answers START and FINISH, and a  *)
(* file in between is one `Transfer': described, its hashes exchanged page *)
(* by page, its missing chunks moved one by one, then committed or         *)
(* verified.  The peers are unconstrained, as in module Server.            *)
(*                                                                         *)
(* A file is cut in chunks of equal length, so Size counts chunks here.    *)
(* The content and the hash of chunk j are named by the version whose      *)
(* chunk j it is, and the hash of a whole file by its version; content 0   *)
(* is a chunk that is absent, damaged or of another length.                *)
(*                                                                         *)
(* Module ChunkStore is the cache.  Here an opened store may hold any      *)
(* chunks: a peer that described the same file with other page hashes may  *)
(* have put them there.  While it is open, only this engine adds to it     *)
(* (module Cache), and damage may remove.                                  *)
(***************************************************************************)
EXTENDS Server

CONSTANTS
    PageChunks,     \* chunks of a hash page
    NoTransfer

ASSUME PageAssumption == PageChunks \in Nat \ {0}

VARIABLE transfer   \* Server.transfer
v2vars == <<tree, rooted, session, transfer>>

Content == Versions \cup {0}
Chunks(v) == 1 .. Size[v]
Resource == [id : Ids, data : Content, meta : BOOLEAN]

\* `hashes' is the disk-backed table of the description: 0 where no page was
\* set yet.  `missing' is of an upload, `served' of a download.
TransferRecord ==
    [file : Paths, hash : Versions,
     hashes : UNION {[Chunks(v) -> Content] : v \in Versions},
     stored : UNION {[Chunks(v) -> Content] : v \in Versions},
     missing : SUBSET Nat, served : SUBSET Nat, pending : Nat,
     received : Resource \cup {NoFile}, pageStart : Nat, nextPage : Nat]

ASSUME NoTransferAssumption == NoTransfer \notin TransferRecord

V2TypeOK ==
    /\ TypeOK
    /\ transfer = NoTransfer \/ transfer \in TransferRecord

V2Init == Init /\ transfer = NoTransfer

Upload(i, d, stored) ==
    [file |-> i, hash |-> d, hashes |-> [j \in Chunks(d) |-> 0], stored |-> stored,
     missing |-> {}, served |-> {}, pending |-> 0, received |-> NoFile,
     pageStart |-> 0, nextPage |-> 0]
Download(i, d) ==
    [Upload(i, d, [j \in Chunks(d) |-> 0]) EXCEPT !.hashes = [j \in Chunks(d) |-> d]]

\* page_len; a page begins where the one before ended.
PageEnd(t) ==
    IF Size[t.hash] - t.nextPage < PageChunks THEN Size[t.hash] ELSE t.nextPage + PageChunks
Page(t) == t.nextPage + 1 .. PageEnd(t)
Fetched(t) == t.pageStart + 1 .. t.nextPage

----------------------------------------------------------------------------
\* handle: every request may be refused, or fail in the filesystem; an error
\* of the owner's Link ends the session, transfer included.  The handlers
\* below are what happens otherwise.
Released(c) == transfer' = IF Owns(c) THEN NoTransfer ELSE transfer
Fails(c) == Refuse(c, "error") /\ Released(c)

Transferring(c, i) == MayTransfer(c) /\ transfer # NoTransfer /\ transfer.file = i
Uploading(c, i)    == Transferring(c, i) /\ session.push
Downloading(c, i)  == Transferring(c, i) /\ ~session.push

Active2 == session' = [session EXCEPT !.idle = 0]
Quiet(t) == Active2 /\ transfer' = t /\ UNCHANGED <<tree, rooted>>

V2Start(c, job, r) ==
    /\ Start(c, job, r)
    /\ IF r = "manifest" THEN UNCHANGED transfer ELSE Released(c)

\* The header must have the size of the manifest and, with --checksum, its
\* hash.
ValidDescription(e, d, opt) ==
    Size[d] = Size[e.ver] /\ (opt.checksum => d = e.data)

Description(c, i, d, stored) ==
    /\ MayTransfer(c) /\ RequireFile(i, TRUE) /\ transfer = NoTransfer
    /\ ValidDescription(session.source[i], d, session.options)
    /\ transfer' = Upload(i, d, stored)
    /\ session' = [session EXCEPT !.pending = i, !.idle = 0]
    /\ UNCHANGED <<tree, rooted>>

\* DESCRIBE snapshots the file; the chunks are cut from the snapshot.
Describe(c, i) ==
    /\ MayTransfer(c) /\ RequireFile(i, FALSE) /\ transfer = NoTransfer
    /\ i \notin session.stale
    /\ transfer' = Download(i, tree[i].data)
    /\ session' = [session EXCEPT !.pending = i, !.idle = 0]
    /\ UNCHANGED <<tree, rooted>>

\* HASHES: the page the sender announces, compared with what is stored.
PageExpectedAgain(start) ==                     \* mutation
    transfer.pending = 0 /\ start = transfer.nextPage /\ start < Size[transfer.hash]
PageExpected(start) ==
    /\ transfer.pending = 0 /\ transfer.missing = {}
    /\ start = transfer.nextPage /\ start < Size[transfer.hash]

Hashes(c, i, start, page) ==
    /\ Uploading(c, i) /\ PageExpected(start) /\ DOMAIN page = Page(transfer)
    /\ Quiet([transfer EXCEPT
          !.hashes = [j \in DOMAIN @ |-> IF j \in DOMAIN page THEN page[j] ELSE @[j]],
          !.missing = {j \in DOMAIN page : transfer.stored[j] # page[j]},
          !.pageStart = start, !.nextPage = PageEnd(transfer)])

HashesGet(c, i, start) ==
    /\ Downloading(c, i) /\ PageExpected(start)
    /\ Quiet([transfer EXCEPT !.served = {}, !.pageStart = start,
                              !.nextPage = PageEnd(transfer)])

ChunkBegin(c, i, j) ==
    /\ Uploading(c, i) /\ transfer.pending = 0 /\ j \in transfer.missing
    /\ Quiet([transfer EXCEPT !.pending = j])

\* Store::receive publishes what has the negotiated hash, nothing else.
Publishes(t, j) == t.received.data = t.hashes[j]

ChunkCommit(c, i, j, id) ==
    /\ Uploading(c, i) /\ transfer.pending = j /\ j # 0
    /\ transfer.received # NoFile /\ transfer.received.id = id
    /\ Publishes(transfer, j)
    /\ Quiet([transfer EXCEPT !.stored[j] = transfer.received.data, !.missing = @ \ {j},
                              !.pending = 0, !.received = NoFile])

\* Every chunk of the page that was fetched last may be asked for once.
ChunkGet(c, i, j) ==
    /\ Downloading(c, i) /\ transfer.pending = 0
    /\ j \in Fetched(transfer) \ transfer.served
    /\ Quiet([transfer EXCEPT !.pending = j])

ChunkVerified(c, i, j) ==
    /\ Downloading(c, i) /\ transfer.pending = j /\ j # 0
    /\ Quiet([transfer EXCEPT !.served = @ \cup {j}, !.pending = 0])

\* FILE_COMMIT: assemble (each chunk and the whole file verified again),
\* prepare before the first file, install under the hash, clear the store.
\* Only past these guards can a failure leave traces in the export.
CanCommitFile(c, i) ==
    /\ Uploading(c, i) /\ transfer.pending = 0 /\ transfer.missing = {}
    /\ transfer.nextPage = Size[transfer.hash]

AssemblesChunks(t) ==                           \* mutation
    \A j \in Chunks(t.hash) : t.stored[j] # 0 /\ t.stored[j] = t.hashes[j]
Assembles(t) ==
    \A j \in Chunks(t.hash) : t.stored[j] = t.hashes[j] /\ t.stored[j] = t.hash

\* The bytes assembled: a mixture of versions is none of them.
BytesOf(t) ==
    IF \A j \in Chunks(t.hash) : t.stored[j] = t.hash THEN t.hash
    ELSE CHOOSE v \in Versions : v # t.hash
InstalledFileOld(s, t) == File(s.destination[t.file].ver, BytesOf(t))   \* mutation
InstalledFile(s, t) == File(s.source[t.file].ver, BytesOf(t))

FileCommit(c, i, r) ==
    /\ CanCommitFile(c, i) /\ Assembles(transfer)
    /\ transfer' = NoTransfer
    /\ \/ /\ r = "ok" /\ (session.prepared \/ CanPrepare)
          /\ Installable(PreparedTree[i], session.destination[i])
          /\ tree' = Put(PreparedTree, {i}, InstalledFile(session, transfer))
          /\ rooted' = (rooted \/ ~session.prepared)
          /\ session' = [session EXCEPT !.prepared = TRUE, !.pending = NoPath,
                                        !.done = @ \cup {i}, !.idle = 0]
       \/ /\ r = "error" /\ (session.prepared \/ CanPrepare)
          /\ tree' \in InstallPartial(PreparedTree, session.source, session.destination,
                                      i, BytesOf(transfer))
          /\ rooted' = (rooted \/ ~session.prepared)
          /\ Abort(c)
       \/ r = "error" /\ ~session.prepared /\ PrepareFails /\ Abort(c)

FileVerifiedEarly(c, i) ==                      \* mutation
    /\ Downloading(c, i) /\ transfer.pending = 0 /\ i \notin session.stale
    /\ session' = [session EXCEPT !.pending = NoPath, !.done = @ \cup {i}, !.idle = 0]
    /\ transfer' = NoTransfer
    /\ UNCHANGED <<tree, rooted>>
FileVerified(c, i) ==
    /\ Downloading(c, i) /\ transfer.pending = 0
    /\ transfer.nextPage = Size[transfer.hash]
    /\ i \notin session.stale
    /\ session' = [session EXCEPT !.pending = NoPath, !.done = @ \cup {i}, !.idle = 0]
    /\ transfer' = NoTransfer
    /\ UNCHANGED <<tree, rooted>>

\* A pending transfer refuses FINISH; an error of the version-1 handler ends
\* the session, and there is no transfer then.
V2Finish(c, r) ==
    /\ ~(MayRequest(c) /\ transfer # NoTransfer)
    /\ Finish(c, r) /\ Released(c)

----------------------------------------------------------------------------
\* A completed Resource is kept only for the chunk that is pending.
AcceptsChunk(c, f) ==
    /\ Owns(c) /\ session.push /\ ~session.options.dryRun /\ ~f.meta
    /\ transfer # NoTransfer
    /\ transfer.received = NoFile /\ transfer.pending # 0
    /\ f.data # 0

ReceiveChunk(c, f) ==
    /\ AcceptsChunk(c, f)
    /\ transfer' = [transfer EXCEPT !.received = f]
    /\ UNCHANGED vars

V2Disconnect(c) == Disconnect(c) /\ transfer' = NoTransfer

ExpireKeepingTransfer == Expire /\ UNCHANGED transfer       \* mutation
V2Expire == Expire /\ transfer' = NoTransfer

\* What a chunk file holds may be lost or damaged at any time.
DamageStored(j) ==
    /\ transfer # NoTransfer /\ session.push /\ j \in Chunks(transfer.hash)
    /\ transfer.stored[j] # 0
    /\ transfer' = [transfer EXCEPT !.stored[j] = 0]
    /\ UNCHANGED vars

----------------------------------------------------------------------------
PageHashes(d) ==
    {h \in UNION {[a + 1 .. a + n -> {v \in Versions : Size[v] = Size[d]}] :
                     a \in 0 .. Size[d], n \in 1 .. PageChunks} :
        DOMAIN h \subseteq Chunks(d)}
AnyStored(d) == [Chunks(d) -> {v \in Versions : Size[v] = Size[d]} \cup {0}]

ChunkRequest(c, i) ==
    \E j \in Chunks(transfer.hash) :
        \/ ChunkBegin(c, i, j) \/ ChunkGet(c, i, j) \/ ChunkVerified(c, i, j)
        \/ \E id \in Ids : ChunkCommit(c, i, j, id)

FileRequest(c, i) ==
    \/ \E d \in Versions : \E stored \in AnyStored(d) : Description(c, i, d, stored)
    \/ Describe(c, i)
    \/ /\ Transferring(c, i)
       /\ \/ \E h \in PageHashes(transfer.hash), a \in 0 .. Size[transfer.hash] :
                Hashes(c, i, a, h)
          \/ \E a \in 0 .. Size[transfer.hash] : HashesGet(c, i, a)
          \/ ChunkRequest(c, i)
    \/ \E r \in Replies : FileCommit(c, i, r)
    \/ FileVerified(c, i)

V2Handle(c) ==
    \/ \E job \in Jobs, r \in Replies : V2Start(c, job, r)
    \/ \E i \in Paths : FileRequest(c, i)
    \/ \E r \in Replies : V2Finish(c, r)
    \/ Fails(c)

V2Next ==
    \/ \E c \in Conns : V2Handle(c)
    \/ \E c \in Conns, f \in Resource : ReceiveChunk(c, f)
    \/ \E c \in Conns : V2Disconnect(c)
    \/ \E c \in Conns : Touch(c) /\ UNCHANGED transfer
    \/ Tick /\ UNCHANGED transfer
    \/ V2Expire
    \/ \E p \in Paths, e \in EditEntries : Edit(p, e) /\ UNCHANGED transfer
    \/ \E d \in Versions : \E j \in Chunks(d) : DamageStored(j)

V2Spec == V2Init /\ [][V2Next]_v2vars

----------------------------------------------------------------------------
(***************************************************************************)
(* Properties, besides those of module Server that hold of this engine.    *)
(***************************************************************************)

\* The engine keeps a transfer and the version-1 session it wraps in step,
\* though each has its own lifetime (v2.rs:81, :123, :139): a transfer
\* exists exactly while a file of the plan is pending, never outlives its
\* session into the next one, and so never blocks it or writes for it.
TransferIsPending ==
    /\ transfer # NoTransfer =>
          /\ Active /\ ~session.options.dryRun
          /\ session.pending = transfer.file
          /\ transfer.file \in FilesOf(session) \ session.done
    /\ Active /\ session.pending # NoPath => transfer # NoTransfer

\* Paging (v2.rs:274-380): a chunk is on its way only inside the page that
\* was negotiated last, a Resource is held only for the chunk on its way,
\* and a page is left only when every one of its chunks is stored under the
\* hash negotiated for it, so what FILE_COMMIT assembles has no gap that
\* nobody damaged.
PagesInOrder ==
    transfer # NoTransfer =>
        LET t == transfer IN
        /\ t.pageStart <= t.nextPage /\ t.nextPage <= Size[t.hash]
        /\ t.missing \cup t.served \subseteq Fetched(t)
        /\ t.pending # 0 => t.pending \in IF session.push THEN t.missing
                                          ELSE Fetched(t) \ t.served
        /\ t.received # NoFile => t.pending # 0 /\ ~t.received.meta
        /\ session.push => \A j \in 1 .. t.nextPage \ t.missing :
                              t.stored[j] \in {t.hashes[j], 0}

\* SUMMARY.md "Before file installation, verify all chunks and the assembled
\* whole-file hash": whatever pages a peer announced, whatever chunks it
\* sent and whatever was in the cache, the bytes put in the export are the
\* described ones, also without --checksum; with it, those of the manifest.
InstalledIsDescribed ==
    [][ServerWrites => \A p \in Changed : tree'[p].kind = "file" =>
          /\ transfer # NoTransfer /\ p = transfer.file
          /\ tree'[p].data = transfer.hash
          /\ session.options.checksum => tree'[p] = session.source[p]]_v2vars

\* SUMMARY.md "File completion cannot proceed while a chunk is pending":
\* FILE_COMMIT and FINISH are acknowledged only after every chunk was.
CompleteBeforeDone ==
    [][Active /\ session' # session /\ session' # NoSession /\ session'.done # session.done =>
          /\ transfer # NoTransfer /\ session'.done = session.done \cup {transfer.file}
          /\ transfer.pending = 0 /\ transfer.nextPage = Size[transfer.hash]
          /\ session.push => \A j \in Chunks(transfer.hash) : transfer.stored[j] = transfer.hash
      ]_v2vars

\* Types, the transfer in step with its session, its pages in order, and
\* every unedited path of the export as scanned or as the session made it.
V2Invariant == V2TypeOK /\ TransferIsPending /\ PagesInOrder /\ ExportAccounted

\* The order of operations and the checks of a version-1 session survive
\* the chunked transfer inside it: no edit is overwritten, extras go last,
\* and an acknowledged FINISH means a synchronized export.
KeepsServerPromises == NoLostUpdate /\ ExtrasGoLast /\ FinishMeansSynchronized
=============================================================================
