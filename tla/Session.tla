------------------------------ MODULE Session ------------------------------
(***************************************************************************)
(* A version-1 synchronization end to end: the client of engine.rs         *)
(* (`synchronize'), the engine of module Server, and a network that loses  *)
(* and delays messages.  The client runs attempt after attempt, each on a  *)
(* fresh Link with a fresh scan; the n-th attempt uses Link n.             *)
(*                                                                         *)
(* Messages in flight are a set: a message sent before a Link was closed   *)
(* may still arrive after, and one sent on an old Link may arrive while    *)
(* the next attempt runs.                                                  *)
(***************************************************************************)
EXTENDS Server

CONSTANTS
    LocalTrees,     \* what the client may find in its directory
    ClientJobs,     \* direction and options of the command
    MaxEdits,       \* bound on the edits of outside processes
    NoGoal

ASSUME LinksAreAttempts == Conns \subseteq Nat \ {0} /\ IsFiniteSet(Conns)
ASSUME IdsArePaths == Ids = Paths
ASSUME JobsAssumption ==
    /\ LocalTrees \subseteq Trees /\ MaxEdits \in Nat
    /\ ClientJobs \subseteq [push : BOOLEAN, options : OptionSet]
\* Before a transfer, and when an outside process writes, a file holds the
\* bytes its metadata names.
ASSUME VersionsAreContents ==
    /\ \A t \in InitialTrees \cup LocalTrees, p \in Paths : t[p].ver = t[p].data
    /\ \A e \in EditEntries : e.ver = e.data
ASSUME NoGoalAssumption ==
    NoGoal \notin [source : Trees, target : Trees, options : OptionSet]

VARIABLES
    local,      \* the client's directory
    client,     \* the running command
    up,         \* Links the server still serves
    net,        \* messages in flight
    edits       \* edits made so far

svars == <<tree, rooted, session, local, client, up, net, edits>>

\* Program counter: the request whose answer the client awaits, or where it
\* is between two requests.
Awaiting == {"start", "begin", "send", "commit", "get", "receive", "verified", "finish"}
Ended == {"success", "failed"}
ClientRecord ==
    [pc : Awaiting \cup Ended \cup {"idle", "plan", "next"}, conn : Conns \cup {0},
     push : BOOLEAN, options : OptionSet, scan : Trees, remote : Trees,
     file : Paths \cup {NoPath}, data : Versions \cup {0}, done : SUBSET Paths,
     stale : SUBSET Paths, foreign : SUBSET Paths]

Blank == [p \in Paths |-> None]

\* Version 1 names no chunks.
Msg(kind, c, op, file, manifest, data) ==
    [kind |-> kind, conn |-> c, op |-> op, file |-> file,
     manifest |-> manifest, data |-> data, chunks |-> {}]
Ask(c, op, file) == Msg("request", c, op, file, Blank, 0)

SessionInit ==
    /\ Init
    /\ local \in LocalTrees
    /\ \E job \in ClientJobs :
         client = [pc |-> "idle", conn |-> 0, push |-> job.push,
                   options |-> job.options, scan |-> Blank, remote |-> Blank,
                   file |-> NoPath, data |-> 0, done |-> {}, stale |-> {},
                   foreign |-> {}]
    /\ up = {} /\ net = {} /\ edits = 0

\* The plan, from the manifests the two peers exchanged.
Source == IF client.push THEN client.scan ELSE client.remote
Target == IF client.push THEN client.remote ELSE client.scan
PlannedFiles == PlanFiles(Source, Target, client.options)
Extras == PlanRemovals(Source, Target, client.options)

\* The directory that is written, and the local tree a prepare leaves.
Destination == IF client.push THEN tree ELSE local

Running == client.pc \notin Ended \cup {"idle"}
Unserver == UNCHANGED <<tree, rooted, session, up>>

----------------------------------------------------------------------------
(***************************************************************************)
(* The client.                                                             *)
(***************************************************************************)
\* Scan and open a Link; START carries the manifest of the scan.  `foreign'
\* and `stale' record edits of the destination and the source from here on.
Open ==
    /\ client.pc \in {"idle", "failed"} /\ client.conn + 1 \in Conns
    /\ LET c == client.conn + 1
       IN  /\ client' = [client EXCEPT !.pc = "start", !.conn = c, !.scan = local,
                             !.remote = Blank, !.file = NoPath, !.data = 0,
                             !.done = {}, !.stale = {}, !.foreign = {}]
           /\ up' = up \cup {c}
           /\ net' = net \cup {Msg("request", c, "start", NoPath, local, 0)}
    /\ UNCHANGED <<tree, rooted, session, local, edits>>

\* Any error, a deadline included, ends the attempt; the Link is closed and
\* what is still on its way to the client will find nobody.
Unread == {m \in net : m.conn # client.conn \/ m.kind = "request" \/ m.op = "push"}
Closing == Unread \cup {Msg("close", client.conn, "close", NoPath, Blank, 0)}

GiveUp(dir) ==
    /\ client' = [client EXCEPT !.pc = "failed"]
    /\ net' = Closing
    /\ local' = dir
    /\ Unserver /\ UNCHANGED edits

Fail == Running /\ GiveUp(local)

\* The process is killed: nothing is sent.
Crash ==
    /\ Running /\ client' = [client EXCEPT !.pc = "failed"]
    /\ net' = Unread
    /\ Unserver /\ UNCHANGED <<local, edits>>

Answer(op) == {m \in net : m.kind = "reply" /\ m.conn = client.conn /\ m.op = op}

ReadManifest ==
    /\ client.pc = "start"
    /\ \E m \in Answer("manifest") :
         /\ net' = net \ {m}
         /\ client' = [client EXCEPT !.pc = "plan", !.remote = m.manifest]
    /\ Unserver /\ UNCHANGED <<local, edits>>

AskFinish ==
    /\ net' = net \cup {Ask(client.conn, "finish", NoPath)}
    /\ client' = [client EXCEPT !.pc = "finish"]

PreparedLocalPruned ==                          \* mutation
    Put(Put(local, PlanDirs(Source), Dir), Extras, None)
PreparedLocal == Put(local, PlanDirs(Source), Dir)

LocalAfterPlanEager ==                          \* mutation
    IF client.push THEN local ELSE PreparedLocal
LocalAfterPlan ==
    IF client.push \/ client.options.dryRun THEN local ELSE PreparedLocal

\* A dry run goes to FINISH; a pull prepares its own directory first.
MakePlan ==
    /\ client.pc = "plan"
    /\ Plannable(Source, Target, client.options)
    /\ \/ client.options.dryRun /\ AskFinish
       \/ /\ ~client.options.dryRun /\ client' = [client EXCEPT !.pc = "next"]
          /\ client.push \/ Preparable(local, Source, Target)
          /\ UNCHANGED net
    /\ local' = LocalAfterPlan
    /\ Unserver /\ UNCHANGED edits

PrepareBreaks ==
    /\ client.pc = "plan" /\ ~client.push /\ ~client.options.dryRun
    /\ Plannable(Source, Target, client.options)
    /\ \E dir \in PreparePartial(local, Source, Target) : GiveUp(dir)

\* Files go one at a time in manifest order.
IsNext(f) == /\ f \in PlannedFiles \ client.done
             /\ \A g \in PlannedFiles \ client.done : f <= g

\* Push: the snapshot is of the scanned file or the attempt fails.
SnapshotUnchecked(f) == TRUE                    \* mutation
Snapshot(f) == f \notin client.stale

AskBegin ==
    /\ client.pc = "next" /\ client.push
    /\ \E f \in Paths :
         /\ IsNext(f) /\ Snapshot(f)
         /\ client' = [client EXCEPT !.pc = "begin", !.file = f, !.data = local[f].data]
         /\ net' = net \cup {Ask(client.conn, "begin", f)}
    /\ Unserver /\ UNCHANGED <<local, edits>>

SendFile ==
    /\ client.pc = "begin"
    /\ \E m \in Answer("ok") :
         net' = (net \ {m}) \cup {Msg("resource", client.conn, "push", client.file,
                                      Blank, client.data)}
    /\ client' = [client EXCEPT !.pc = "send"]
    /\ Unserver /\ UNCHANGED <<local, edits>>

\* The Resource was proved; the source must still be the scanned file.
AskCommit ==
    /\ client.pc = "send" /\ Snapshot(client.file)
    /\ \E m \in Answer("proof") :
         net' = (net \ {m}) \cup {Ask(client.conn, "commit", client.file)}
    /\ client' = [client EXCEPT !.pc = "commit"]
    /\ Unserver /\ UNCHANGED <<local, edits>>

ReadCommitted ==
    /\ client.pc = "commit"
    /\ \E m \in Answer("ok") : net' = net \ {m}
    /\ client' = [client EXCEPT !.pc = "next", !.done = @ \cup {client.file}]
    /\ Unserver /\ UNCHANGED <<local, edits>>

\* Pull: GET, the Resource, VERIFIED, then the install.
AskGet ==
    /\ client.pc = "next" /\ ~client.push
    /\ \E f \in Paths :
         /\ IsNext(f)
         /\ client' = [client EXCEPT !.pc = "get", !.file = f]
         /\ net' = net \cup {Ask(client.conn, "get", f)}
    /\ Unserver /\ UNCHANGED <<local, edits>>

ReadGet ==
    /\ client.pc = "get"
    /\ \E m \in Answer("file") : net' = net \ {m}
    /\ client' = [client EXCEPT !.pc = "receive"]
    /\ Unserver /\ UNCHANGED <<local, edits>>

ReceiveFile ==
    /\ client.pc = "receive"
    /\ \E m \in net :
         /\ m.kind = "resource" /\ m.conn = client.conn /\ m.op = "pull"
         /\ Size[m.data] = Size[Source[client.file].ver]
         /\ client' = [client EXCEPT !.pc = "verified", !.data = m.data]
         /\ net' = (net \ {m}) \cup {Ask(client.conn, "verified", client.file)}
    /\ Unserver /\ UNCHANGED <<local, edits>>

\* Staging compares the hash when the manifest has one.
ClientStaged ==
    client.options.checksum => client.data = Source[client.file].data

Install ==
    /\ client.pc = "verified"
    /\ \E m \in Answer("ok") : net' = net \ {m}
    /\ ClientStaged /\ Installable(local[client.file], Target[client.file])
    /\ local' = Put(local, {client.file}, File(Source[client.file].ver, client.data))
    /\ client' = [client EXCEPT !.pc = "next", !.done = @ \cup {client.file}]
    /\ Unserver /\ UNCHANGED edits

InstallBreaks ==
    /\ client.pc = "verified" /\ Answer("ok") # {} /\ ClientStaged
    /\ \E dir \in InstallPartial(local, Source, Target, client.file, client.data) :
         GiveUp(dir)

\* All files are done: the pushing client checks its source, then FINISH.
AllSent ==
    /\ client.pc = "next" /\ PlannedFiles \subseteq client.done
    /\ client.push => client.stale = {}
    /\ AskFinish
    /\ Unserver /\ UNCHANGED <<local, edits>>

\* FINISH is acknowledged: a pull now removes its extras.
Succeed ==
    /\ client.pc = "finish"
    /\ Answer("ok") # {} /\ net' = Closing
    /\ IF client.push \/ client.options.dryRun
         THEN UNCHANGED local
         ELSE Removable(local, Target, Extras) /\ local' = Put(local, Extras, None)
    /\ client' = [client EXCEPT !.pc = "success"]
    /\ Unserver /\ UNCHANGED edits

RemovalBreaks ==
    /\ client.pc = "finish" /\ Answer("ok") # {}
    /\ ~client.push /\ ~client.options.dryRun
    /\ \E dir \in RemovePartial(local, Target, Extras) : GiveUp(dir)

----------------------------------------------------------------------------
(***************************************************************************)
(* The server: deliver a message, run the handler, answer.                 *)
(***************************************************************************)
Unclient == UNCHANGED <<local, client, edits>>

Dispatch(m, r) ==
    CASE m.op = "start"    -> Start(m.conn, [push |-> client.push,
                                             options |-> client.options,
                                             manifest |-> m.manifest], r)
      [] m.op = "begin"    -> Begin(m.conn, m.file, r)
      [] m.op = "commit"   -> Commit(m.conn, m.file, m.file, r)
      [] m.op = "get"      -> Get(m.conn, m.file, r)
      [] m.op = "verified" -> Verified(m.conn, m.file, r)
      [] m.op = "finish"   -> Finish(m.conn, r)

ServeRequest ==
    \E m \in net, r \in Replies :
       /\ m.kind = "request" /\ m.conn \in up
       /\ Dispatch(m, r)
       /\ net' = (net \ {m})
                 \cup {Msg("reply", m.conn, r, NoPath,
                           IF r = "manifest" THEN tree ELSE Blank, 0)}
                 \cup (IF r = "file"
                         THEN {Msg("resource", m.conn, "pull", m.file, Blank,
                                   tree[m.file].data)}
                         ELSE {})
       /\ Unclient /\ UNCHANGED up

\* A Resource is admitted only while its transfer is pending; its receiver
\* then proves it to the sender.
ServeResource ==
    \E m \in net :
       /\ m.kind = "resource" /\ m.op = "push" /\ m.conn \in up
       /\ Receive(m.conn, [id |-> m.file, data |-> m.data, meta |-> FALSE])
       /\ net' = (net \ {m}) \cup {Msg("reply", m.conn, "proof", NoPath, Blank, 0)}
       /\ Unclient /\ UNCHANGED up

\* A Link the server has closed: nothing more is served on it.
Unserved(c) == {m \in net : m.conn # c \/ m.kind = "reply" \/ m.op = "pull"}

ReleaseNothing(c) == UNCHANGED session          \* mutation
Release(c) == session' = IF Owns(c) THEN NoSession ELSE session

ServeClose ==
    \E m \in net :
       /\ m.kind = "close" /\ m.conn \in up
       /\ Release(m.conn)
       /\ up' = up \ {m.conn} /\ net' = Unserved(m.conn)
       /\ Unclient /\ UNCHANGED <<tree, rooted>>

\* The lease: silence of the owner's Link counts, its packets renew.
ServerTick == Tick /\ Unclient /\ UNCHANGED <<up, net>>
Traffic ==
    /\ client.pc \in {"send", "receive"} /\ client.conn \in up
    /\ session # NoSession => session.idle > 0
    /\ Touch(client.conn) /\ Unclient /\ UNCHANGED <<up, net>>
LeaseExpires ==
    /\ Expire /\ up' = up \ {session.conn} /\ net' = Unserved(session.conn)
    /\ Unclient

\* The server process restarts: no session, no Link survives.
Restart ==
    /\ up # {} /\ up' = {} /\ session' = NoSession
    /\ net' = {m \in net : m.kind = "reply" \/ m.op = "pull"}
    /\ Unclient /\ UNCHANGED <<tree, rooted>>

----------------------------------------------------------------------------
Lose == \E m \in net : net' = net \ {m} /\ Unclient /\ Unserver

\* Outside processes edit either directory.
EditExport ==
    /\ edits < MaxEdits /\ edits' = edits + 1
    /\ \E p \in Paths, e \in EditEntries :
         /\ Edit(p, e)
         /\ client' = IF client.push THEN [client EXCEPT !.foreign = @ \cup {p}] ELSE client
    /\ UNCHANGED <<local, up, net>>
EditLocal ==
    /\ edits < MaxEdits /\ edits' = edits + 1
    /\ \E p \in Paths, e \in EditEntries :
         /\ local' = Put(local, {p}, e)
         /\ client' = IF client.push THEN [client EXCEPT !.stale = @ \cup {p}]
                                     ELSE [client EXCEPT !.foreign = @ \cup {p}]
    /\ Unserver /\ UNCHANGED net

Client ==
    \/ ReadManifest \/ MakePlan \/ PrepareBreaks
    \/ AskBegin \/ SendFile \/ AskCommit \/ ReadCommitted
    \/ AskGet \/ ReadGet \/ ReceiveFile \/ Install \/ InstallBreaks
    \/ AllSent \/ Succeed \/ RemovalBreaks
Serve == ServeRequest \/ ServeResource \/ ServeClose

SessionNext ==
    \/ Open \/ Client \/ Fail \/ Crash
    \/ Serve \/ ServerTick \/ Traffic \/ LeaseExpires \/ Restart
    \/ Lose \/ EditExport \/ EditLocal

SessionSpec == SessionInit /\ [][SessionNext]_svars

\* The client's deadlines bound every wait, and the maintenance timer runs
\* once a second; nothing is assumed of the network.
FairSessionSpec ==
    /\ SessionSpec
    /\ WF_svars(Fail)
    /\ WF_svars(ServerTick) /\ WF_svars(LeaseExpires)

----------------------------------------------------------------------------
(***************************************************************************)
(* Properties.                                                             *)
(***************************************************************************)
SessionTypeOK ==
    /\ TypeOK
    /\ local \in Trees
    /\ client \in ClientRecord
    /\ up \subseteq Conns
    /\ \A m \in net : m.conn \in Conns
    /\ edits \in 0 .. MaxEdits

\* No file ever carries the metadata of one version and the bytes of
\* another, however the source is edited during a transfer.
FilesAreFaithful ==
    \A p \in Paths : tree[p].ver = tree[p].data /\ local[p].ver = local[p].data

\* The client reports success only when the destination holds the source
\* it scanned, extras removed under --delete, other edits aside.
SuccessMeansSynchronized ==
    client.pc = "success" /\ ~client.options.dryRun =>
        \A p \in Paths \ client.foreign :
            IF Source[p].kind # "none" \/ client.options.delete
              THEN Alike(Destination[p], Source[p])
              ELSE Alike(Destination[p], Target[p])

\* While an attempt and its session are both alive they work from the same
\* plan, and the server is at most one file ahead of the client.
PeersAgree ==
    Owns(client.conn) /\ Running /\ client.pc # "start" =>
        /\ session.source = Source /\ session.destination = Target
        /\ client.done \subseteq session.done
        /\ session.done \subseteq client.done \cup {client.file}
        /\ session.pending \in {NoPath, client.file}

\* A session never outlives the Link it was started on.
SessionHasLink == Active => session.conn \in up

\* A lost close, a crashed client or a lost reply never leaves the export
\* busy for good: again and again no session is active.
ExportIsFreed == []<>(~Active)

\* The destination, wherever it is, follows module Mirror.
SessionGoal ==
    IF client.options.dryRun THEN NoGoal
    ELSE IF client.push
      THEN IF Active THEN [source |-> session.source, target |-> session.destination,
                           options |-> session.options]
                     ELSE NoGoal
      ELSE IF Running /\ client.pc # "start"
             THEN [source |-> Source, target |-> Target, options |-> client.options]
             ELSE NoGoal
Installed ==
    IF SessionGoal = NoGoal THEN {}
    ELSE IF client.push THEN session.done ELSE client.done

M == INSTANCE Mirror WITH dest <- Destination, goal <- SessionGoal,
                          installed <- Installed
MirrorsSource == M!MirrorSpec

\* Types, sessions on living Links, and one plan on both sides.
SessionInvariant == SessionTypeOK /\ SessionHasLink /\ PeersAgree
=============================================================================
