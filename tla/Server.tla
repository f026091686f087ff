------------------------------ MODULE Server ------------------------------
(***************************************************************************)
(* The version-1 engine of an exporting host (engine.rs, `Server'): one    *)
(* session at a time, one action per request handler.  Each handler runs   *)
(* under the service lock, so it is one step here; what an outside process *)
(* does to the export is the action Edit, between two handlers.            *)
(*                                                                         *)
(* The peers are unconstrained in this module: any Link sends any request  *)
(* at any time.  Module Session replaces them by the client's code.        *)
(***************************************************************************)
EXTENDS Plan

CONSTANTS
    Conns,          \* Links, each with one authenticated identity
    Permission,     \* what the configuration grants that identity
    Ids,            \* Resource hashes
    Jobs,           \* what a START may ask for
    InitialTrees,   \* exports the program may find
    EditEntries,    \* what an outside process may put at a path
    Lease,          \* ticks of silence a session survives
    NoSession, NoFile, NoPath

ASSUME PermissionAssumption ==
    Permission \in [Conns -> {"deny", "read", "full"}]
ASSUME TreesAssumption ==
    /\ Jobs \subseteq [push : BOOLEAN, options : OptionSet, manifest : Trees]
    /\ InitialTrees \subseteq Trees
    /\ EditEntries \subseteq Entries
ASSUME LeaseAssumption == Lease \in Nat
ASSUME NoPathAssumption == NoPath \notin Paths

VARIABLES
    tree,       \* the export below the requested directory
    rooted,     \* whether that directory exists
    session     \* Server.session

vars == <<tree, rooted, session>>

\* A verified Resource.  Its size is the length of the bytes it carries.
ReceivedFile == [id : Ids, data : Versions, meta : BOOLEAN]

\* `stale' stands for the Stamps of the scan: the paths whose Stamp (with
\* inode and change time) no longer is the recorded one.
SessionRecord ==
    [conn : Conns, push : BOOLEAN, options : OptionSet,
     source : Trees, destination : Trees,
     prepared : BOOLEAN, pending : Paths \cup {NoPath},
     received : ReceivedFile \cup {NoFile}, done : SUBSET Paths,
     stale : SUBSET Paths, idle : 0 .. Lease + 1]

ASSUME NoSessionAssumption == NoSession \notin SessionRecord
ASSUME NoFileAssumption == NoFile \notin ReceivedFile

TypeOK ==
    /\ tree \in Trees
    /\ rooted \in BOOLEAN
    /\ session \in SessionRecord \cup {NoSession}

Init ==
    /\ tree \in InitialTrees
    /\ rooted \in BOOLEAN
    /\ ~rooted => \A p \in Paths : tree[p] = None
    /\ session = NoSession

Active == session # NoSession
Owns(c) == Active /\ session.conn = c

FilesOf(s)    == PlanFiles(s.source, s.destination, s.options)
RemovalsOf(s) == PlanRemovals(s.source, s.destination, s.options)

----------------------------------------------------------------------------
\* An error ends the session of the Link that caused it, and no other.
Abort(c) == session' = IF Owns(c) THEN NoSession ELSE session

Refuse(c, r) == r = "error" /\ Abort(c) /\ UNCHANGED <<tree, rooted>>

NewSessionSwapped(c, job) ==                    \* mutation
    [conn |-> c, push |-> job.push, options |-> job.options,
     source |-> IF job.push THEN tree ELSE job.manifest,
     destination |-> IF job.push THEN job.manifest ELSE tree,
     prepared |-> FALSE, pending |-> NoPath, received |-> NoFile,
     done |-> {}, stale |-> {}, idle |-> 0]
NewSession(c, job) ==
    [conn |-> c, push |-> job.push, options |-> job.options,
     source |-> IF job.push THEN job.manifest ELSE tree,
     destination |-> IF job.push THEN tree ELSE job.manifest,
     prepared |-> FALSE, pending |-> NoPath, received |-> NoFile,
     done |-> {}, stale |-> {}, idle |-> 0]

StartAllowedToReaders(c, push) == Permission[c] # "deny"    \* mutation
StartAllowed(c, push) ==
    Permission[c] = "full" \/ (Permission[c] = "read" /\ ~push)

\* START: reply "manifest", "busy" or "error".  The scan and the path lookup
\* may always fail.
Start(c, job, r) ==
    \/ /\ r = "manifest"
       /\ StartAllowed(c, job.push) /\ ~Active
       /\ job.push \/ rooted
       /\ LET s == NewSession(c, job)
          IN  Plannable(s.source, s.destination, s.options) /\ session' = s
       /\ UNCHANGED <<tree, rooted>>
    \/ /\ r = "busy"
       /\ StartAllowed(c, job.push) /\ Active
       /\ Abort(c) /\ UNCHANGED <<tree, rooted>>
    \/ ~(StartAllowed(c, job.push) /\ Active) /\ Refuse(c, r)

\* Every request but START needs the session; only FINISH is legal in a
\* dry run.
MayRequest(c) == Permission[c] # "deny" /\ Owns(c)
MayTransfer(c) == MayRequest(c) /\ ~session.options.dryRun

RequirePlannedFile(i, push) ==                  \* mutation
    session.push = push /\ i \in FilesOf(session)
RequireFile(i, push) ==
    session.push = push /\ i \in FilesOf(session) \ session.done

\* prepare as part of a handler: root directory first, then the planned
\* directories.
PrepareFails ==
    /\ rooted' \in {rooted, TRUE}
    /\ tree' \in PreparePartial(tree, session.source, session.destination)
    /\ tree' # tree => rooted'

CanPrepare == Preparable(tree, session.source, session.destination)
PreparedTreeUnmade == tree                      \* mutation
PreparedTree ==
    IF session.prepared THEN tree ELSE Put(tree, PlanDirs(session.source), Dir)

CanBegin(c, i) ==
    MayTransfer(c) /\ RequireFile(i, TRUE) /\ session.pending = NoPath

Begin(c, i, r) ==
    \/ /\ r = "ok" /\ CanBegin(c, i)
       /\ session.prepared \/ CanPrepare
       /\ tree' = PreparedTree
       /\ rooted' = (rooted \/ ~session.prepared)
       /\ session' = [session EXCEPT !.prepared = TRUE, !.pending = i, !.idle = 0]
    \/ r = "error" /\ CanBegin(c, i) /\ ~session.prepared /\ PrepareFails /\ Abort(c)
    \/ ~CanBegin(c, i) /\ Refuse(c, r)

CanCommit(c, i, id) ==
    /\ MayTransfer(c) /\ RequireFile(i, TRUE) /\ session.pending = i
    /\ session.received # NoFile
    /\ session.received.id = id
    /\ Size[session.received.data] = Size[session.source[i].ver]
    /\ ~session.received.meta

\* Staging re-reads the bytes; their hash is known only with --checksum.
Staged(s, i) ==
    rooted /\ (s.options.checksum => s.received.data = s.source[i].data)

CommittedKeepingResource(s, i) ==               \* mutation
    [s EXCEPT !.pending = NoPath, !.done = @ \cup {i}, !.idle = 0]
Committed(s, i) ==
    [s EXCEPT !.pending = NoPath, !.received = NoFile, !.done = @ \cup {i},
              !.idle = 0]

Commit(c, i, id, r) ==
    \/ /\ r = "ok" /\ CanCommit(c, i, id)
       /\ Staged(session, i) /\ Installable(tree[i], session.destination[i])
       /\ tree' = Put(tree, {i}, File(session.source[i].ver, session.received.data))
       /\ session' = Committed(session, i)
       /\ UNCHANGED rooted
    \/ /\ r = "error" /\ CanCommit(c, i, id)
       /\ tree' \in IF Staged(session, i)
                      THEN InstallPartial(tree, session.source, session.destination,
                                          i, session.received.data)
                      ELSE {tree}
       /\ Abort(c) /\ UNCHANGED rooted
    \/ ~CanCommit(c, i, id) /\ Refuse(c, r)

\* GET hands a snapshot of the file to the Link; a changed file is refused.
CanGet(c, i) ==
    MayTransfer(c) /\ RequireFile(i, FALSE) /\ session.pending = NoPath

Get(c, i, r) ==
    \/ /\ r = "file" /\ CanGet(c, i) /\ i \notin session.stale
       /\ session' = [session EXCEPT !.pending = i, !.idle = 0]
       /\ UNCHANGED <<tree, rooted>>
    \/ Refuse(c, r)

Verified(c, i, r) ==
    \/ /\ r = "ok"
       /\ MayTransfer(c) /\ RequireFile(i, FALSE) /\ session.pending = i
       /\ i \notin session.stale
       /\ session' = [session EXCEPT !.pending = NoPath, !.done = @ \cup {i},
                                     !.idle = 0]
       /\ UNCHANGED <<tree, rooted>>
    \/ Refuse(c, r)

\* The handler counts the files done; it does not compare sets.
NonePending(s) == s.pending = NoPath            \* mutation
AllDone(s) ==
    s.pending = NoPath /\ Cardinality(s.done) = Cardinality(FilesOf(s))

\* finish preflights every removal, then removes; the directory times it
\* sets last may fail too, after the removals.
Finish(c, r) ==
    \/ /\ r = "ok" /\ MayRequest(c)
       /\ session.options.dryRun \/ (~session.push /\ AllDone(session) /\ session.stale = {})
       /\ session' = NoSession /\ UNCHANGED <<tree, rooted>>
    \/ /\ r = "ok" /\ MayTransfer(c) /\ session.push /\ AllDone(session)
       /\ session.prepared \/ CanPrepare
       /\ Removable(PreparedTree, session.destination, RemovalsOf(session))
       /\ tree' = Put(PreparedTree, RemovalsOf(session), None)
       /\ rooted' = (rooted \/ ~session.prepared)
       /\ session' = NoSession
    \/ /\ r = "error" /\ MayTransfer(c) /\ session.push /\ AllDone(session)
       /\ session.prepared \/ CanPrepare
       /\ tree' \in RemovePartial(PreparedTree, session.destination, RemovalsOf(session))
       /\ rooted' = (rooted \/ ~session.prepared)
       /\ Abort(c)
    \/ /\ r = "error" /\ MayTransfer(c) /\ session.push /\ AllDone(session)
       /\ ~session.prepared /\ PrepareFails
       /\ Abort(c)
    \/ ~(MayTransfer(c) /\ session.push /\ AllDone(session)) /\ Refuse(c, r)

\* Any other message, and a request the codec rejects.
Unexpected(c, r) == Refuse(c, r)

----------------------------------------------------------------------------
\* A completed Resource is kept only for the transfer that is pending; any
\* other one is dropped.
AcceptsFile(c, f) ==
    /\ Owns(c) /\ session.push /\ ~session.options.dryRun /\ ~f.meta
    /\ session.pending # NoPath
    /\ Size[session.source[session.pending].ver] = Size[f.data]

Receive(c, f) ==
    /\ AcceptsFile(c, f) /\ session.received = NoFile
    /\ session' = [session EXCEPT !.received = f]
    /\ UNCHANGED <<tree, rooted>>

Disconnect(c) == Owns(c) /\ session' = NoSession /\ UNCHANGED <<tree, rooted>>

\* Authorized traffic of the owner's Link renews the lease.
Touch(c) ==
    /\ Owns(c) /\ session' = [session EXCEPT !.idle = 0]
    /\ UNCHANGED <<tree, rooted>>

TickUnbounded ==                                \* mutation
    /\ Active /\ session' = [session EXCEPT !.idle = @ + 1]
    /\ UNCHANGED <<tree, rooted>>
Tick ==
    /\ Active /\ session.idle <= Lease
    /\ session' = [session EXCEPT !.idle = @ + 1]
    /\ UNCHANGED <<tree, rooted>>

ExpireLate ==                                   \* mutation
    /\ Active /\ session.idle > Lease + 1
    /\ session' = NoSession
    /\ UNCHANGED <<tree, rooted>>
Expire ==
    /\ Active /\ session.idle > Lease
    /\ session' = NoSession
    /\ UNCHANGED <<tree, rooted>>

\* An outside process replaces, creates or removes an object; the Stamp of
\* the path changes even when the same content is written again.
Edit(p, e) ==
    /\ rooted
    /\ tree' = Put(tree, {p}, e)
    /\ session' = IF Active THEN [session EXCEPT !.stale = @ \cup {p}] ELSE session
    /\ UNCHANGED rooted

----------------------------------------------------------------------------
Replies == {"ok", "file", "manifest", "busy", "error"}

Request(c, r) ==
    \/ \E job \in Jobs : Start(c, job, r)
    \/ \E i \in Paths : Begin(c, i, r)
    \/ \E i \in Paths, id \in Ids : Commit(c, i, id, r)
    \/ \E i \in Paths : Get(c, i, r)
    \/ \E i \in Paths : Verified(c, i, r)
    \/ Finish(c, r)
    \/ Unexpected(c, r)

Handle(c) == \E r \in Replies : Request(c, r)

Next ==
    \/ \E c \in Conns : Handle(c)
    \/ \E c \in Conns, f \in ReceivedFile : Receive(c, f)
    \/ \E c \in Conns : Disconnect(c)
    \/ \E c \in Conns : Touch(c)
    \/ Tick
    \/ Expire
    \/ \E p \in Paths, e \in EditEntries : Edit(p, e)

Spec == Init /\ [][Next]_vars

----------------------------------------------------------------------------
(***************************************************************************)
(* Properties.                                                             *)
(***************************************************************************)

\* A Resource is held only for the file that is pending, and it has that
\* file's size: receive never keeps what Commit could not use, and Commit
\* never leaves one behind for the next file.
ReceivedIsPending ==
    Active /\ session.received # NoFile =>
        /\ session.push /\ ~session.options.dryRun
        /\ session.pending # NoPath
        /\ Size[session.received.data] = Size[session.source[session.pending].ver]
        /\ ~session.received.meta

\* The bookkeeping of a session stays inside its plan: a file is pending or
\* done at most once, files move only after prepare, and a dry run moves
\* nothing.  Counting `done' at FINISH is sound only because of this.
ProgressWithinPlan ==
    Active =>
        /\ session.done \subseteq FilesOf(session)
        /\ session.pending # NoPath => session.pending \in FilesOf(session) \ session.done
        /\ session.push /\ (session.done # {} \/ session.pending # NoPath) => session.prepared
        /\ session.prepared => session.push
        /\ session.options.dryRun =>
              session.done = {} /\ session.pending = NoPath /\ ~session.prepared

\* Entry e names the same object as f: kind and metadata.
Alike(e, f) == e.kind = f.kind /\ e.ver = f.ver

\* What the session itself has made of a path so far.
Expected(s, p) ==
    IF ~s.push \/ p \in s.done THEN s.source[p]
    ELSE IF s.prepared /\ p \in PlanDirs(s.source) THEN Dir
    ELSE s.destination[p]

\* While a session runs, every path no outside process touched is what the
\* scan found there, or what the session itself put there: committed files
\* and made directories stay, and nothing else of the export moves.
ExportAccounted ==
    Active => \A p \in Paths \ session.stale : Alike(tree[p], Expected(session, p))

\* A push session belongs to an identity with full permission.
PushIsFull == Active /\ session.push => Permission[session.conn] = "full"

\* What every handler relies on and leaves (engine.rs:63-291): the held
\* Resource is of the pending file, progress stays within the plan, and every
\* unedited path is as scanned or as this session made it.  It is inductive.
ServerInvariant ==
    /\ TypeOK
    /\ ReceivedIsPending
    /\ ProgressWithinPlan
    /\ PushIsFull
    /\ ExportAccounted

\* The export changed in this step, and a handler of the session did it
\* (Edit either makes a path stale or leaves the session as it is).
ServerWrites ==
    /\ Active /\ tree' # tree /\ session' # session
    /\ session' # NoSession => session'.stale = session.stale
Changed == {p \in Paths : tree'[p] # tree[p]}

\* No handler replaces or removes an object other than the one scanned when
\* the session started: an outside edit is refused, not overwritten.
NoLostUpdate ==
    [][ServerWrites => \A p \in Changed :
          tree[p].kind # "none" => CheckEntry(tree[p], session.destination[p])]_vars

\* An extra entry goes only under --delete, and only when every planned
\* file is committed and still in place.
ExtrasGoLast ==
    [][ServerWrites =>
        \A p \in Changed : session.source[p].kind = "none" =>
            /\ session.options.delete
            /\ FilesOf(session) \subseteq session.done
            /\ \A q \in Paths \ session.stale :
                  session.source[q].kind = "file" => Alike(tree[q], session.source[q])]_vars

\* Only a push session of an identity with full permission writes, never a
\* dry run.
OnlyFullPushWrites ==
    [][ServerWrites =>
        /\ Permission[session.conn] = "full"
        /\ session.push /\ ~session.options.dryRun]_vars

\* FINISH of a push is acknowledged only when the export is what the source
\* manifest says, up to paths edited meanwhile and, without --delete, extras.
FinishMeansSynchronized ==
    [][\A c \in Conns :
        Owns(c) /\ session.push /\ ~session.options.dryRun /\ Finish(c, "ok") =>
            \A p \in Paths \ session.stale :
                IF session.source[p].kind # "none" \/ session.options.delete
                  THEN Alike(tree'[p], session.source[p])
                  ELSE Alike(tree'[p], session.destination[p])]_vars

\* FINISH of a pull is acknowledged only when the export still is what the
\* session scanned, whatever was edited and edited back meanwhile.
PullFinishMeansUnchanged ==
    [][\A c \in Conns :
        Owns(c) /\ ~session.push /\ ~session.options.dryRun /\ Finish(c, "ok") =>
            session.stale = {} /\ session.done = FilesOf(session)]_vars

\* An acknowledged FINISH tells the truth, in either direction.
FinishIsHonest == FinishMeansSynchronized /\ PullFinishMeansUnchanged
=============================================================================
