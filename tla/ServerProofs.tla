---------------------------- MODULE ServerProofs ----------------------------
(***************************************************************************)
(* Proofs about the two engines, for every set of Links, paths, versions,  *)
(* jobs, exports and edits: first the version-1 engine, then the version-2 *)
(* engine, for every page length and whatever the cache holds.  The        *)
(* lemmas about the version-1 session serve both.                          *)
(***************************************************************************)
EXTENDS ServerV2, FiniteSetTheorems, TLAPS

(***************************************************************************)
(* Trees stay trees.                                                       *)
(***************************************************************************)
\* The entries the operators on trees put in place are entries.
LEMMA EntryTypes ==
    /\ None \in Entries /\ Dir \in Entries
    /\ \A v, d \in Versions : File(v, d) \in Entries
BY DEF Entries

\* Put replaces entries of a tree and leaves a tree.
LEMMA PutType ==
    ASSUME NEW t \in Trees, NEW D, NEW e \in Entries
    PROVE  Put(t, D, e) \in Trees
BY DEF Put, Trees

\* A file entry names a version.
LEMMA FileVersion ==
    ASSUME NEW e \in Entries, e.kind = "file"
    PROVE  e.ver \in Versions
BY DEF Entries, None, Dir, File

\* Whatever a failing prepare leaves is a tree.
LEMMA PreparePartialType ==
    ASSUME NEW t \in Trees, NEW src, NEW dst, NEW u \in PreparePartial(t, src, dst)
    PROVE  u \in Trees
<1> USE PutType, EntryTypes
<1>1. CASE u = t
  BY <1>1
<1>2. CASE u # t
  <2>1. PICK k \in PlanDirs(src) :
          LET before == Put(t, {d \in PlanDirs(src) : d < k}, Dir)
          IN  \/ u = before
              \/ u = Put(before, {k}, Dir)
              \/ \E c \in {k} \cap PlanConflicts(src, dst) : u = Put(before, {c}, None)
    BY <1>2 DEF PreparePartial
  <2> DEFINE before == Put(t, {d \in PlanDirs(src) : d < k}, Dir)
  <2>2. before \in Trees
    OBVIOUS
  <2> HIDE DEF before
  <2>3. \/ u = before \/ u = Put(before, {k}, Dir)
        \/ \E c \in {k} \cap PlanConflicts(src, dst) : u = Put(before, {c}, None)
    BY <2>1 DEF before
  <2> QED
    BY <2>2, <2>3
<1> QED
  BY <1>1, <1>2

\* Whatever a failing install leaves is a tree.
LEMMA InstallPartialType ==
    ASSUME NEW t \in Trees, NEW src, NEW dst, NEW p, NEW data \in Versions,
           src[p].ver \in Versions,
           NEW u \in InstallPartial(t, src, dst, p, data)
    PROVE  u \in Trees
BY PutType, EntryTypes DEF InstallPartial

\* Whatever a failing series of removals leaves is a tree.
LEMMA RemovePartialType ==
    ASSUME NEW t \in Trees, NEW dst, NEW R, NEW u \in RemovePartial(t, dst, R)
    PROVE  u \in Trees
BY PutType, EntryTypes DEF RemovePartial

(***************************************************************************)
(* Updates of the session record, one field at a time and then as the      *)
(* handlers make them.                                                     *)
(***************************************************************************)
\* u is a session that agrees with s on the fields no handler assigns.
SameJob(u, s) ==
    /\ u \in SessionRecord
    /\ u.conn = s.conn /\ u.push = s.push /\ u.options = s.options
    /\ u.source = s.source /\ u.destination = s.destination

\* Setting `prepared' leaves every other field of a session.
LEMMA SetPrepared ==
    ASSUME NEW s \in SessionRecord, NEW x \in BOOLEAN
    PROVE  LET u == [s EXCEPT !.prepared = x]
           IN  /\ SameJob(u, s) /\ u.prepared = x
               /\ u.pending = s.pending /\ u.received = s.received /\ u.done = s.done
               /\ u.stale = s.stale /\ u.idle = s.idle
BY DEF SessionRecord, SameJob

\* Setting `pending' leaves every other field of a session.
LEMMA SetPending ==
    ASSUME NEW s \in SessionRecord, NEW x \in Paths \cup {NoPath}
    PROVE  LET u == [s EXCEPT !.pending = x]
           IN  /\ SameJob(u, s) /\ u.pending = x
               /\ u.prepared = s.prepared /\ u.received = s.received /\ u.done = s.done
               /\ u.stale = s.stale /\ u.idle = s.idle
BY DEF SessionRecord, SameJob

\* Setting `received' leaves every other field of a session.
LEMMA SetReceived ==
    ASSUME NEW s \in SessionRecord, NEW x \in ReceivedFile \cup {NoFile}
    PROVE  LET u == [s EXCEPT !.received = x]
           IN  /\ SameJob(u, s) /\ u.received = x
               /\ u.prepared = s.prepared /\ u.pending = s.pending /\ u.done = s.done
               /\ u.stale = s.stale /\ u.idle = s.idle
BY DEF SessionRecord, SameJob

\* Setting `done' leaves every other field of a session.
LEMMA SetDone ==
    ASSUME NEW s \in SessionRecord, NEW x \in SUBSET Paths
    PROVE  LET u == [s EXCEPT !.done = x]
           IN  /\ SameJob(u, s) /\ u.done = x
               /\ u.prepared = s.prepared /\ u.pending = s.pending /\ u.received = s.received
               /\ u.stale = s.stale /\ u.idle = s.idle
BY DEF SessionRecord, SameJob

\* Setting `idle' leaves every other field of a session.
LEMMA SetIdle ==
    ASSUME NEW s \in SessionRecord, NEW x \in 0 .. Lease + 1
    PROVE  LET u == [s EXCEPT !.idle = x]
           IN  /\ SameJob(u, s) /\ u.idle = x
               /\ u.prepared = s.prepared /\ u.pending = s.pending /\ u.received = s.received
               /\ u.done = s.done /\ u.stale = s.stale
BY DEF SessionRecord, SameJob

\* Setting `stale' leaves every other field of a session.
LEMMA SetStale ==
    ASSUME NEW s \in SessionRecord, NEW x \in SUBSET Paths
    PROVE  LET u == [s EXCEPT !.stale = x]
           IN  /\ SameJob(u, s) /\ u.stale = x
               /\ u.prepared = s.prepared /\ u.pending = s.pending /\ u.received = s.received
               /\ u.done = s.done /\ u.idle = s.idle
BY DEF SessionRecord, SameJob

\* The session after an acknowledged BEGIN.
LEMMA BegunSession ==
    ASSUME NEW s \in SessionRecord, NEW i \in Paths
    PROVE  LET u == [s EXCEPT !.prepared = TRUE, !.pending = i, !.idle = 0]
           IN  SameJob(u, s) /\ u.prepared = TRUE /\ u.pending = i /\ u.received = s.received /\ u.done = s.done /\ u.stale = s.stale
<1> DEFINE a == [s EXCEPT !.prepared = TRUE]
<1> DEFINE b == [a EXCEPT !.pending = i]
<1> DEFINE c == [b EXCEPT !.idle = 0]
<1>1. SameJob(a, s) /\ a.prepared = TRUE /\ a.pending = s.pending /\ a.received = s.received /\ a.done = s.done /\ a.stale = s.stale
  BY SetPrepared, LeaseAssumption DEF SameJob
<1>2. SameJob(b, s) /\ b.prepared = TRUE /\ b.pending = i /\ b.received = s.received /\ b.done = s.done /\ b.stale = s.stale
  <2> HIDE DEF a
  <2> QED BY <1>1, SetPending, LeaseAssumption DEF SameJob
<1>3. SameJob(c, s) /\ c.prepared = TRUE /\ c.pending = i /\ c.received = s.received /\ c.done = s.done /\ c.stale = s.stale
  <2> HIDE DEF a, b
  <2> QED BY <1>2, SetIdle, LeaseAssumption DEF SameJob
<1> QED
  BY <1>3

\* The session after an acknowledged COMMIT.
LEMMA CommittedSession ==
    ASSUME NEW s \in SessionRecord, NEW i \in Paths
    PROVE  LET u == [s EXCEPT !.pending = NoPath, !.received = NoFile, !.done = s.done \cup {i}, !.idle = 0]
           IN  SameJob(u, s) /\ u.prepared = s.prepared /\ u.pending = NoPath /\ u.received = NoFile /\ u.done = s.done \cup {i} /\ u.stale = s.stale
<1>0. s.done \cup {i} \in SUBSET Paths
  BY DEF SessionRecord
<1> DEFINE a == [s EXCEPT !.pending = NoPath]
<1> DEFINE b == [a EXCEPT !.received = NoFile]
<1> DEFINE c == [b EXCEPT !.done = s.done \cup {i}]
<1> DEFINE d == [c EXCEPT !.idle = 0]
<1>1. SameJob(a, s) /\ a.prepared = s.prepared /\ a.pending = NoPath /\ a.received = s.received /\ a.done = s.done /\ a.stale = s.stale
  BY SetPending, LeaseAssumption DEF SameJob
<1>2. SameJob(b, s) /\ b.prepared = s.prepared /\ b.pending = NoPath /\ b.received = NoFile /\ b.done = s.done /\ b.stale = s.stale
  <2> HIDE DEF a
  <2> QED BY <1>1, SetReceived, LeaseAssumption DEF SameJob
<1>3. SameJob(c, s) /\ c.prepared = s.prepared /\ c.pending = NoPath /\ c.received = NoFile /\ c.done = s.done \cup {i} /\ c.stale = s.stale
  <2> HIDE DEF a, b
  <2> QED BY <1>2, <1>0, SetDone, LeaseAssumption DEF SameJob
<1>4. SameJob(d, s) /\ d.prepared = s.prepared /\ d.pending = NoPath /\ d.received = NoFile /\ d.done = s.done \cup {i} /\ d.stale = s.stale
  <2> HIDE DEF a, b, c
  <2> QED BY <1>3, SetIdle, LeaseAssumption DEF SameJob
<1> QED
  BY <1>4

\* The session after an acknowledged GET.
LEMMA GottenSession ==
    ASSUME NEW s \in SessionRecord, NEW i \in Paths
    PROVE  LET u == [s EXCEPT !.pending = i, !.idle = 0]
           IN  SameJob(u, s) /\ u.prepared = s.prepared /\ u.pending = i /\ u.received = s.received /\ u.done = s.done /\ u.stale = s.stale
<1> DEFINE a == [s EXCEPT !.pending = i]
<1> DEFINE b == [a EXCEPT !.idle = 0]
<1>1. SameJob(a, s) /\ a.prepared = s.prepared /\ a.pending = i /\ a.received = s.received /\ a.done = s.done /\ a.stale = s.stale
  BY SetPending, LeaseAssumption DEF SameJob
<1>2. SameJob(b, s) /\ b.prepared = s.prepared /\ b.pending = i /\ b.received = s.received /\ b.done = s.done /\ b.stale = s.stale
  <2> HIDE DEF a
  <2> QED BY <1>1, SetIdle, LeaseAssumption DEF SameJob
<1> QED
  BY <1>2

\* The session after an acknowledged VERIFIED.
LEMMA VerifiedSession ==
    ASSUME NEW s \in SessionRecord, NEW i \in Paths
    PROVE  LET u == [s EXCEPT !.pending = NoPath, !.done = s.done \cup {i}, !.idle = 0]
           IN  SameJob(u, s) /\ u.prepared = s.prepared /\ u.pending = NoPath /\ u.received = s.received /\ u.done = s.done \cup {i} /\ u.stale = s.stale
<1>0. s.done \cup {i} \in SUBSET Paths
  BY DEF SessionRecord
<1> DEFINE a == [s EXCEPT !.pending = NoPath]
<1> DEFINE b == [a EXCEPT !.done = s.done \cup {i}]
<1> DEFINE c == [b EXCEPT !.idle = 0]
<1>1. SameJob(a, s) /\ a.prepared = s.prepared /\ a.pending = NoPath /\ a.received = s.received /\ a.done = s.done /\ a.stale = s.stale
  BY SetPending, LeaseAssumption DEF SameJob
<1>2. SameJob(b, s) /\ b.prepared = s.prepared /\ b.pending = NoPath /\ b.received = s.received /\ b.done = s.done \cup {i} /\ b.stale = s.stale
  <2> HIDE DEF a
  <2> QED BY <1>1, <1>0, SetDone, LeaseAssumption DEF SameJob
<1>3. SameJob(c, s) /\ c.prepared = s.prepared /\ c.pending = NoPath /\ c.received = s.received /\ c.done = s.done \cup {i} /\ c.stale = s.stale
  <2> HIDE DEF a, b
  <2> QED BY <1>2, SetIdle, LeaseAssumption DEF SameJob
<1> QED
  BY <1>3

(***************************************************************************)
(* Type correctness.                                                       *)
(***************************************************************************)
\* What a START can name; Jobs are those the instance enumerates.
AnyJob == [push : BOOLEAN, options : OptionSet, manifest : Trees]

\* The record START creates is a session.
LEMMA NewSessionType ==
    ASSUME TypeOK, NEW c \in Conns, NEW job \in AnyJob
    PROVE  NewSession(c, job) \in SessionRecord
BY LeaseAssumption DEF TypeOK, NewSession, SessionRecord, AnyJob

\* A planned file has a version in the source manifest.
LEMMA PlannedFile ==
    ASSUME NEW s \in SessionRecord, NEW i \in FilesOf(s)
    PROVE  i \in Paths /\ s.source[i].kind = "file" /\ s.source[i].ver \in Versions
BY FileVersion DEF SessionRecord, FilesOf, PlanFiles, Trees

\* Making the planned directories leaves a tree.
LEMMA PreparedTreeType ==
    ASSUME TypeOK
    PROVE  PreparedTree \in Trees
BY PutType, EntryTypes DEF TypeOK, PreparedTree

\* An aborting handler keeps the session well typed.
LEMMA AbortType ==
    ASSUME TypeOK, NEW c, Abort(c)
    PROVE  session' \in SessionRecord \cup {NoSession}
BY DEF TypeOK, Abort

\* A refusal changes at most the session.
LEMMA RefuseType ==
    ASSUME TypeOK, NEW c, NEW r, Refuse(c, r)
    PROVE  TypeOK'
BY AbortType DEF TypeOK, Refuse

\* What a failing prepare leaves in the export is well typed.
LEMMA PrepareFailsType ==
    ASSUME TypeOK, PrepareFails
    PROVE  tree' \in Trees /\ rooted' \in BOOLEAN
BY PreparePartialType DEF TypeOK, PrepareFails

\* BEGIN, acknowledged or not, preserves types.
LEMMA BeginType ==
    ASSUME TypeOK, NEW c \in Conns, NEW i \in Paths, NEW r, Begin(c, i, r)
    PROVE  TypeOK'
<1>1. CASE ~CanBegin(c, i) /\ Refuse(c, r)
  BY <1>1, RefuseType
<1>2. CASE CanBegin(c, i) /\ PrepareFails /\ Abort(c)
  BY <1>2, PrepareFailsType, AbortType DEF TypeOK
<1>3. CASE /\ CanBegin(c, i)
           /\ tree' = PreparedTree
           /\ rooted' = (rooted \/ ~session.prepared)
           /\ session' = [session EXCEPT !.prepared = TRUE, !.pending = i, !.idle = 0]
  <2>1. session \in SessionRecord
    BY <1>3 DEF TypeOK, CanBegin, MayTransfer, MayRequest, Owns, Active
  <2>2. session' \in SessionRecord
    BY <1>3, <2>1, BegunSession DEF SameJob
  <2> QED
    BY <1>3, <2>1, <2>2, PreparedTreeType DEF TypeOK, SessionRecord
<1> QED
  BY <1>1, <1>2, <1>3 DEF Begin

\* COMMIT, acknowledged or not, preserves types.
LEMMA CommitType ==
    ASSUME TypeOK, NEW c \in Conns, NEW i \in Paths, NEW id \in Ids, NEW r,
           Commit(c, i, id, r)
    PROVE  TypeOK'
<1>1. CASE ~CanCommit(c, i, id) /\ Refuse(c, r)
  BY <1>1, RefuseType
<1>2. CASE CanCommit(c, i, id)
  <2>1. session \in SessionRecord /\ session.received \in ReceivedFile
    BY <1>2 DEF TypeOK, CanCommit, MayTransfer, MayRequest, Owns, Active, SessionRecord
  <2>2. i \in FilesOf(session) /\ session.received.data \in Versions
    BY <1>2, <2>1 DEF CanCommit, RequireFile, ReceivedFile
  <2>3. session.source[i].ver \in Versions
    BY <2>1, <2>2, PlannedFile
  <2>4. File(session.source[i].ver, session.received.data) \in Entries
    BY <2>2, <2>3, EntryTypes
  <2>5. CASE /\ tree' = Put(tree, {i}, File(session.source[i].ver, session.received.data))
             /\ session' = Committed(session, i)
             /\ UNCHANGED rooted
    <3>1. session' \in SessionRecord
      BY <2>1, <2>5, CommittedSession DEF Committed, SameJob
    <3> QED
      BY <2>4, <2>5, <3>1, PutType DEF TypeOK
  <2>6. CASE /\ tree' \in IF Staged(session, i)
                             THEN InstallPartial(tree, session.source, session.destination,
                                                 i, session.received.data)
                             ELSE {tree}
             /\ Abort(c) /\ UNCHANGED rooted
    BY <2>2, <2>3, <2>6, InstallPartialType, AbortType DEF TypeOK
  <2> QED
    BY <1>2, <2>5, <2>6 DEF Commit
<1> QED
  BY <1>1, <1>2 DEF Commit

\* GET and VERIFIED preserve types.
LEMMA GetVerifiedType ==
    ASSUME TypeOK, NEW c \in Conns, NEW i \in Paths, NEW r,
           Get(c, i, r) \/ Verified(c, i, r)
    PROVE  TypeOK'
<1>1. CASE Refuse(c, r)
  BY <1>1, RefuseType
<1>2. CASE /\ MayTransfer(c) /\ UNCHANGED <<tree, rooted>>
           /\ \/ session' = [session EXCEPT !.pending = i, !.idle = 0]
              \/ session' = [session EXCEPT !.pending = NoPath, !.done = @ \cup {i},
                                            !.idle = 0]
  <2>1. session \in SessionRecord
    BY <1>2 DEF TypeOK, MayTransfer, MayRequest, Owns, Active
  <2>2. CASE session' = [session EXCEPT !.pending = i, !.idle = 0]
    BY <1>2, <2>1, <2>2, GottenSession DEF TypeOK, SameJob
  <2>3. CASE session' = [session EXCEPT !.pending = NoPath, !.done = @ \cup {i}, !.idle = 0]
    BY <1>2, <2>1, <2>3, VerifiedSession DEF TypeOK, SameJob
  <2> QED
    BY <1>2, <2>2, <2>3
<1> QED
  BY <1>1, <1>2 DEF Get, Verified, CanGet

\* FINISH, complete or broken off, preserves types.
LEMMA FinishType ==
    ASSUME TypeOK, NEW c \in Conns, NEW r, Finish(c, r)
    PROVE  TypeOK'
<1> USE PreparedTreeType, EntryTypes
<1>1. CASE Refuse(c, r)
  BY <1>1, RefuseType
<1>2. CASE session' = NoSession /\ UNCHANGED <<tree, rooted>>
  BY <1>2 DEF TypeOK
<1>3. CASE /\ tree' = Put(PreparedTree, RemovalsOf(session), None)
           /\ rooted' = (rooted \/ ~session.prepared)
           /\ session' = NoSession
  BY <1>3, PutType DEF TypeOK
<1>4. CASE /\ tree' \in RemovePartial(PreparedTree, session.destination, RemovalsOf(session))
           /\ rooted' = (rooted \/ ~session.prepared)
           /\ Abort(c)
  BY <1>4, RemovePartialType, AbortType DEF TypeOK
<1>5. CASE PrepareFails /\ Abort(c)
  BY <1>5, PrepareFailsType, AbortType DEF TypeOK
<1> QED
  BY <1>1, <1>2, <1>3, <1>4, <1>5 DEF Finish

\* START preserves types.
LEMMA StartType ==
    ASSUME TypeOK, NEW c \in Conns, NEW job \in AnyJob, NEW r, Start(c, job, r)
    PROVE  TypeOK'
BY NewSessionType, AbortType, RefuseType DEF Start, TypeOK

\* The actions that are not requests.
LEMMA OtherActionsType ==
    ASSUME TypeOK,
           \/ \E c \in Conns, f \in ReceivedFile : Receive(c, f)
           \/ \E c \in Conns : Disconnect(c) \/ Touch(c)
           \/ Tick \/ Expire
           \/ \E p \in Paths, e \in EditEntries : Edit(p, e)
    PROVE  TypeOK'
<1>1. ASSUME NEW c \in Conns, NEW f \in ReceivedFile, Receive(c, f)
      PROVE  TypeOK'
  BY <1>1 DEF TypeOK, Receive, AcceptsFile, Owns, Active, SessionRecord
<1>2. ASSUME NEW c \in Conns, Disconnect(c) \/ Touch(c)
      PROVE  TypeOK'
  BY <1>2, LeaseAssumption DEF TypeOK, Disconnect, Touch, Owns, Active, SessionRecord
<1>3. ASSUME Tick \/ Expire
      PROVE  TypeOK'
  BY <1>3, LeaseAssumption DEF TypeOK, Tick, Expire, Active, SessionRecord
<1>4. ASSUME NEW p \in Paths, NEW e \in EditEntries, Edit(p, e)
      PROVE  TypeOK'
  <2>1. e \in Entries
    BY TreesAssumption
  <2>2. session' \in SessionRecord \cup {NoSession}
    BY <1>4 DEF TypeOK, Edit, Active, SessionRecord
  <2> QED
    BY <1>4, <2>1, <2>2, PutType DEF TypeOK, Edit
<1> QED
  BY <1>1, <1>2, <1>3, <1>4

\* A request of any Link preserves types.
LEMMA RequestType ==
    ASSUME TypeOK, NEW c \in Conns, NEW r, Request(c, r)
    PROVE  TypeOK'
BY TreesAssumption, StartType, BeginType, CommitType, GetVerifiedType, FinishType, RefuseType
   DEF Request, Unexpected, AnyJob

\* Every reachable state of the engine is well typed, whatever the peers
\* send and the export suffers.
THEOREM TypeCorrect == Spec => []TypeOK
<1>1. Init => TypeOK
  BY TreesAssumption DEF Init, TypeOK
<1>2. TypeOK /\ [Next]_vars => TypeOK'
  <2> SUFFICES ASSUME TypeOK, [Next]_vars PROVE TypeOK'
    OBVIOUS
  <2>1. CASE \E c \in Conns : Handle(c)
    BY <2>1, RequestType DEF Handle
  <2>2. CASE UNCHANGED vars
    BY <2>2 DEF vars, TypeOK
  <2> QED
    BY <2>1, <2>2, OtherActionsType DEF Next
<1> QED
  BY <1>1, <1>2, PTL DEF Spec

(***************************************************************************)
(* ServerInvariant is inductive.  The bookkeeping invariants are needed for the *)
(* accounting of the export: BEGIN makes directories only once because     *)
(* nothing is done before it prepared, and COMMIT writes only files of the *)
(* plan.  PushIsFull remembers the permission START checked.               *)
(***************************************************************************)

\* The plan depends on the job of a session only.
LEMMA SamePlan ==
    ASSUME NEW s, NEW u, SameJob(u, s)
    PROVE  FilesOf(u) = FilesOf(s) /\ RemovalsOf(u) = RemovalsOf(s)
BY DEF SameJob, FilesOf, RemovalsOf

\* A step that ends the session, or keeps it and the export, is harmless.
LEMMA ReleaseInv ==
    ASSUME TypeOK', session' = NoSession
    PROVE  ServerInvariant'
BY DEF ServerInvariant, ReceivedIsPending, ProgressWithinPlan, PushIsFull, ExportAccounted, Active

\* A step that changes nothing preserves the invariant.
LEMMA StutterInv ==
    ASSUME ServerInvariant, UNCHANGED vars
    PROVE  ServerInvariant'
BY DEF vars, ServerInvariant, TypeOK, ReceivedIsPending, ProgressWithinPlan, PushIsFull,
       ExportAccounted, Active

\* A refused request, which at most ends its own session, preserves the invariant.
LEMMA RefuseInv ==
    ASSUME ServerInvariant, NEW c, NEW r, Refuse(c, r)
    PROVE  ServerInvariant'
<1>1. CASE Owns(c)
  <2>1. TypeOK'
    BY RefuseType DEF ServerInvariant
  <2> QED
    BY <1>1, <2>1, ReleaseInv DEF Refuse, Abort
<1>2. CASE ~Owns(c)
  BY <1>2, StutterInv DEF Refuse, Abort, vars
<1> QED
  BY <1>1, <1>2

\* START opens a session whose export is the one just scanned.
LEMMA StartInv ==
    ASSUME ServerInvariant, NEW c \in Conns, NEW job \in AnyJob, NEW r, Start(c, job, r)
    PROVE  ServerInvariant'
<1>1. CASE Refuse(c, r)
  BY <1>1, RefuseInv
<1>2. CASE Abort(c) /\ UNCHANGED <<tree, rooted>>
  BY <1>2, RefuseInv DEF Refuse
<1>3. CASE /\ StartAllowed(c, job.push)
           /\ session' = NewSession(c, job)
           /\ UNCHANGED <<tree, rooted>>
  <2>1. TypeOK'
    BY <1>3, NewSessionType DEF ServerInvariant, TypeOK
  <2>2. job.push \in BOOLEAN /\ tree \in Trees /\ job.manifest \in Trees
    BY DEF AnyJob, ServerInvariant, TypeOK
  <2>3. /\ session'.conn = c /\ session'.push = job.push
        /\ session'.received = NoFile /\ session'.done = {} /\ session'.pending = NoPath
        /\ session'.prepared = FALSE
        /\ session'.source = IF job.push THEN job.manifest ELSE tree
        /\ session'.destination = IF job.push THEN tree ELSE job.manifest
    BY <1>3 DEF NewSession
  <2>4. ReceivedIsPending' /\ ProgressWithinPlan'
    BY <2>3 DEF ReceivedIsPending, ProgressWithinPlan
  <2>5. PushIsFull'
    BY <1>3, <2>3 DEF PushIsFull, StartAllowed
  <2>6. ExportAccounted'
    BY <1>3, <2>2, <2>3 DEF ExportAccounted, Expected, Alike
  <2> QED
    BY <2>1, <2>4, <2>5, <2>6 DEF ServerInvariant
<1> QED
  BY <1>1, <1>2, <1>3 DEF Start

\* A file is planned only for a path whose source entry is a file.
LEMMA PlannedNotDir ==
    ASSUME NEW s, NEW i \in FilesOf(s)
    PROVE  i \in Paths /\ i \notin PlanDirs(s.source)
BY DEF FilesOf, PlanFiles, PlanDirs

\* BEGIN makes the planned directories before a file is pending.
LEMMA BeginInv ==
    ASSUME ServerInvariant, NEW c \in Conns, NEW i \in Paths, NEW r, Begin(c, i, r)
    PROVE  ServerInvariant'
<1>0. TypeOK'
  BY BeginType DEF ServerInvariant
<1>1. CASE Refuse(c, r)
  BY <1>1, RefuseInv
<1>2. CASE CanBegin(c, i) /\ Abort(c)
  BY <1>0, <1>2, ReleaseInv DEF Abort, CanBegin, MayTransfer, MayRequest
<1>3. CASE /\ CanBegin(c, i)
           /\ tree' = PreparedTree
           /\ session' = [session EXCEPT !.prepared = TRUE, !.pending = i, !.idle = 0]
  <2>1. session \in SessionRecord /\ Active
    BY <1>3 DEF ServerInvariant, TypeOK, CanBegin, MayTransfer, MayRequest, Owns, Active
  <2>2. /\ SameJob(session', session) /\ session'.prepared = TRUE
        /\ session'.pending = i /\ session'.received = session.received
        /\ session'.done = session.done /\ session'.stale = session.stale
    BY <1>3, <2>1, BegunSession
  <2>3. FilesOf(session') = FilesOf(session)
    BY <2>2, SamePlan
  <2>4. /\ session.push /\ ~session.options.dryRun /\ session.pending = NoPath
        /\ i \in FilesOf(session) \ session.done
    BY <1>3 DEF CanBegin, MayTransfer, RequireFile
  <2>5. session.received = NoFile
    BY <2>1, <2>4 DEF ServerInvariant, ReceivedIsPending
  <2>6. ReceivedIsPending'
    BY <2>2, <2>5 DEF ReceivedIsPending
  <2>7. ProgressWithinPlan'
    BY <2>1, <2>2, <2>3, <2>4 DEF ServerInvariant, ProgressWithinPlan, SameJob
  <2>8. PushIsFull'
    BY <2>1, <2>2 DEF ServerInvariant, PushIsFull, SameJob
  <2>9. ASSUME NEW p \in Paths \ session.stale
        PROVE  Alike(tree'[p], Expected(session', p))
    <3>1. Alike(tree[p], Expected(session, p))
      BY <2>1 DEF ServerInvariant, ExportAccounted
    <3>2. CASE session.prepared
      BY <1>3, <2>2, <3>1, <3>2 DEF PreparedTree, Expected, SameJob
    <3>3. CASE ~session.prepared
      <4>1. session.done = {}
        BY <2>1, <2>4, <3>3 DEF ServerInvariant, ProgressWithinPlan
      <4>2. tree'[p] = IF p \in PlanDirs(session.source) THEN Dir ELSE tree[p]
        BY <1>3, <3>3 DEF PreparedTree, Put
      <4> QED
        BY <2>2, <2>4, <3>1, <3>3, <4>1, <4>2 DEF Expected, SameJob, Alike
    <3> QED
      BY <3>2, <3>3
  <2>10. ExportAccounted'
    BY <2>2, <2>9 DEF ExportAccounted
  <2> QED
    BY <1>0, <2>6, <2>7, <2>8, <2>10 DEF ServerInvariant
<1> QED
  BY <1>1, <1>2, <1>3 DEF Begin

\* COMMIT puts the pending file in place and records it, at once.
LEMMA CommitInv ==
    ASSUME ServerInvariant, NEW c \in Conns, NEW i \in Paths, NEW id \in Ids, NEW r,
           Commit(c, i, id, r)
    PROVE  ServerInvariant'
<1>0. TypeOK'
  BY CommitType DEF ServerInvariant
<1>1. CASE Refuse(c, r)
  BY <1>1, RefuseInv
<1>2. CASE CanCommit(c, i, id) /\ Abort(c)
  BY <1>0, <1>2, ReleaseInv DEF Abort, CanCommit, MayTransfer, MayRequest
<1>3. CASE /\ CanCommit(c, i, id)
           /\ tree' = Put(tree, {i}, File(session.source[i].ver, session.received.data))
           /\ session' = Committed(session, i)
  <2>1. session \in SessionRecord /\ Active
    BY <1>3 DEF ServerInvariant, TypeOK, CanCommit, MayTransfer, MayRequest, Owns, Active
  <2>2. /\ SameJob(session', session) /\ session'.prepared = session.prepared
        /\ session'.pending = NoPath /\ session'.received = NoFile
        /\ session'.done = session.done \cup {i} /\ session'.stale = session.stale
    BY <1>3, <2>1, CommittedSession DEF Committed
  <2>3. FilesOf(session') = FilesOf(session)
    BY <2>2, SamePlan
  <2>4. /\ session.push /\ ~session.options.dryRun /\ session.pending = i
        /\ i \in FilesOf(session) \ session.done
    BY <1>3 DEF CanCommit, MayTransfer, RequireFile
  <2>5. ReceivedIsPending'
    BY <2>2 DEF ReceivedIsPending
  <2>6. ProgressWithinPlan'
    BY <2>1, <2>2, <2>3, <2>4, NoPathAssumption DEF ServerInvariant, ProgressWithinPlan, SameJob
  <2>7. PushIsFull'
    BY <2>1, <2>2 DEF ServerInvariant, PushIsFull, SameJob
  <2>8. ASSUME NEW p \in Paths \ session.stale
        PROVE  Alike(tree'[p], Expected(session', p))
    <3>1. Alike(tree[p], Expected(session, p))
      BY <2>1 DEF ServerInvariant, ExportAccounted
    <3>2. CASE p = i
      <4>1. tree'[p] = File(session.source[i].ver, session.received.data)
        BY <1>3, <3>2 DEF Put
      <4>2. session.source[i].kind = "file"
        BY <2>1, <2>4, PlannedFile
      <4>3. Expected(session', p) = session.source[i]
        BY <2>2, <3>2 DEF Expected, SameJob
      <4> QED
        BY <4>1, <4>2, <4>3 DEF Alike, File
    <3>3. CASE p # i
      BY <1>3, <2>2, <3>1, <3>3 DEF Put, Expected, SameJob
    <3> QED
      BY <3>2, <3>3
  <2>9. ExportAccounted'
    BY <2>2, <2>8 DEF ExportAccounted
  <2> QED
    BY <1>0, <2>5, <2>6, <2>7, <2>9 DEF ServerInvariant
<1> QED
  BY <1>1, <1>2, <1>3 DEF Commit

\* GET and VERIFIED move a pull along its plan and write nothing.
LEMMA GetVerifiedInv ==
    ASSUME ServerInvariant, NEW c \in Conns, NEW i \in Paths, NEW r,
           Get(c, i, r) \/ Verified(c, i, r)
    PROVE  ServerInvariant'
<1>0. TypeOK'
  BY GetVerifiedType DEF ServerInvariant
<1>1. CASE Refuse(c, r)
  BY <1>1, RefuseInv
<1>2. CASE ~Refuse(c, r)
  <2>1. /\ MayTransfer(c) /\ RequireFile(i, FALSE) /\ tree' = tree
        /\ \/ session' = [session EXCEPT !.pending = i, !.idle = 0]
           \/ session' = [session EXCEPT !.pending = NoPath, !.done = @ \cup {i},
                                         !.idle = 0]
    BY <1>2 DEF Get, Verified, CanGet
  <2>2. session \in SessionRecord /\ Active
    BY <2>1 DEF ServerInvariant, TypeOK, MayTransfer, MayRequest, Owns, Active
  <2>3. /\ SameJob(session', session) /\ session'.prepared = session.prepared
        /\ session'.received = session.received /\ session'.stale = session.stale
        /\ \/ session'.pending = i /\ session'.done = session.done
           \/ session'.pending = NoPath /\ session'.done = session.done \cup {i}
    <3>1. CASE session' = [session EXCEPT !.pending = i, !.idle = 0]
      BY <2>2, <3>1, GottenSession
    <3>2. CASE session' = [session EXCEPT !.pending = NoPath, !.done = @ \cup {i},
                                          !.idle = 0]
      BY <2>2, <3>2, VerifiedSession
    <3> QED
      BY <2>1, <3>1, <3>2
  <2>4. FilesOf(session') = FilesOf(session)
    BY <2>3, SamePlan
  <2>5. /\ ~session.push /\ ~session.options.dryRun
        /\ i \in FilesOf(session) \ session.done
    BY <2>1 DEF MayTransfer, RequireFile
  <2>6. session.received = NoFile
    BY <2>2, <2>5 DEF ServerInvariant, ReceivedIsPending
  <2>7. ReceivedIsPending'
    BY <2>3, <2>6 DEF ReceivedIsPending
  <2>8. ProgressWithinPlan'
    BY <2>2, <2>3, <2>4, <2>5, NoPathAssumption DEF ServerInvariant, ProgressWithinPlan, SameJob
  <2>9. PushIsFull'
    BY <2>3, <2>5 DEF PushIsFull, SameJob
  <2>10. ExportAccounted'
    BY <2>1, <2>2, <2>3, <2>5 DEF ServerInvariant, ExportAccounted, Expected, SameJob
  <2> QED
    BY <1>0, <2>7, <2>8, <2>9, <2>10 DEF ServerInvariant
<1> QED
  BY <1>1, <1>2

\* FINISH ends the session, so nothing is left to account for.
LEMMA FinishInv ==
    ASSUME ServerInvariant, NEW c \in Conns, NEW r, Finish(c, r)
    PROVE  ServerInvariant'
<1>0. TypeOK'
  BY FinishType DEF ServerInvariant
<1>1. CASE Refuse(c, r)
  BY <1>1, RefuseInv
<1>2. CASE session' = NoSession
  BY <1>0, <1>2, ReleaseInv
<1>3. CASE Owns(c) /\ Abort(c)
  BY <1>0, <1>3, ReleaseInv DEF Abort
<1> QED
  BY <1>1, <1>2, <1>3 DEF Finish, MayTransfer, MayRequest

\* A step that changes at most the lease, the Resource held or the paths
\* known to be edited.
LEMMA OtherActionsInv ==
    ASSUME ServerInvariant,
           \/ \E c \in Conns, f \in ReceivedFile : Receive(c, f)
           \/ \E c \in Conns : Disconnect(c) \/ Touch(c)
           \/ Tick \/ Expire
           \/ \E p \in Paths, e \in EditEntries : Edit(p, e)
    PROVE  ServerInvariant'
<1>0. TypeOK'
  BY OtherActionsType DEF ServerInvariant
<1>1. ASSUME NEW c \in Conns, NEW f \in ReceivedFile, Receive(c, f)
      PROVE  ServerInvariant'
  <2>1. session \in SessionRecord /\ Active /\ AcceptsFile(c, f)
    BY <1>1 DEF Receive, AcceptsFile, Owns, Active, ServerInvariant, TypeOK
  <2>2. /\ SameJob(session', session) /\ session'.received = f
        /\ session'.prepared = session.prepared /\ session'.pending = session.pending
        /\ session'.done = session.done /\ session'.stale = session.stale
        /\ tree' = tree
    BY <1>1, <2>1, SetReceived DEF Receive
  <2>3. FilesOf(session') = FilesOf(session)
    BY <2>2, SamePlan
  <2>4. ReceivedIsPending'
    BY <2>1, <2>2 DEF ReceivedIsPending, AcceptsFile, SameJob
  <2>5. ProgressWithinPlan' /\ PushIsFull' /\ ExportAccounted'
    BY <2>1, <2>2, <2>3 DEF ServerInvariant, ProgressWithinPlan, PushIsFull, ExportAccounted,
                            Expected, SameJob
  <2> QED
    BY <1>0, <2>4, <2>5 DEF ServerInvariant
<1>2. CASE \/ \E c \in Conns : Touch(c)
           \/ Tick
  <2>1. session \in SessionRecord /\ Active
    BY <1>2 DEF Touch, Tick, Owns, Active, ServerInvariant, TypeOK
  <2>2. PICK x \in 0 .. Lease + 1 : session' = [session EXCEPT !.idle = x]
    BY <1>2, <2>1, LeaseAssumption DEF Touch, Tick, SessionRecord
  <2>3. /\ SameJob(session', session) /\ session'.received = session.received
        /\ session'.prepared = session.prepared /\ session'.pending = session.pending
        /\ session'.done = session.done /\ session'.stale = session.stale
    BY <2>1, <2>2, SetIdle
  <2>4. tree' = tree /\ FilesOf(session') = FilesOf(session)
    BY <1>2, <2>3, SamePlan DEF Touch, Tick
  <2>5. ReceivedIsPending' /\ ProgressWithinPlan' /\ PushIsFull' /\ ExportAccounted'
    BY <2>1, <2>3, <2>4 DEF ServerInvariant, ReceivedIsPending, ProgressWithinPlan, PushIsFull,
                            ExportAccounted, Expected, SameJob
  <2> QED
    BY <1>0, <2>5 DEF ServerInvariant
<1>3. CASE (\E c \in Conns : Disconnect(c)) \/ Expire
  BY <1>0, <1>3, ReleaseInv DEF Disconnect, Expire
<1>4. ASSUME NEW p \in Paths, NEW e \in EditEntries, Edit(p, e)
      PROVE  ServerInvariant'
  <2>1. CASE ~Active
    BY <1>0, <1>4, <2>1, ReleaseInv DEF Edit, Active
  <2>2. CASE Active
    <3>1. session \in SessionRecord /\ session.stale \cup {p} \in SUBSET Paths
      BY <2>2 DEF Active, ServerInvariant, TypeOK, SessionRecord
    <3>2. /\ SameJob(session', session) /\ session'.received = session.received
          /\ session'.prepared = session.prepared /\ session'.pending = session.pending
          /\ session'.done = session.done /\ session'.stale = session.stale \cup {p}
      BY <1>4, <2>2, <3>1, SetStale DEF Edit
    <3>3. FilesOf(session') = FilesOf(session)
      BY <3>2, SamePlan
    <3>4. ReceivedIsPending' /\ ProgressWithinPlan' /\ PushIsFull'
      BY <2>2, <3>2, <3>3 DEF ServerInvariant, ReceivedIsPending, ProgressWithinPlan, PushIsFull,
                              SameJob
    <3>5. ASSUME NEW q \in Paths \ session'.stale
          PROVE  Alike(tree'[q], Expected(session', q))
      <4>1. tree'[q] = tree[q] /\ q \in Paths \ session.stale
        BY <1>4, <3>2, <3>5 DEF Edit, Put
      <4> QED
        BY <2>2, <3>2, <4>1 DEF ServerInvariant, ExportAccounted, Expected, SameJob
    <3> QED
      BY <1>0, <3>4, <3>5 DEF ServerInvariant, ExportAccounted
  <2> QED
    BY <2>1, <2>2
<1> QED
  BY <1>1, <1>2, <1>3, <1>4

\* A program that starts has no session.
LEMMA InitInv == Init => ServerInvariant
BY TreesAssumption DEF Init, ServerInvariant, TypeOK, ReceivedIsPending, ProgressWithinPlan,
                       PushIsFull, ExportAccounted, Active

\* Every step preserves the invariant.
LEMMA NextInv ==
    ASSUME ServerInvariant, [Next]_vars
    PROVE  ServerInvariant'
<1>1. ASSUME NEW c \in Conns, Handle(c)
      PROVE  ServerInvariant'
  BY <1>1, TreesAssumption, StartInv, BeginInv, CommitInv, GetVerifiedInv, FinishInv, RefuseInv
     DEF Handle, Request, Unexpected, AnyJob
<1> QED
  BY <1>1, StutterInv, OtherActionsInv DEF Next

\* For every instance: a held Resource belongs to the pending file, the
\* session's bookkeeping stays in its plan, and the export is accounted for.
THEOREM Invariance == Spec => []ServerInvariant
<1>1. ServerInvariant /\ [Next]_vars => ServerInvariant'
  BY NextInv
<1> QED
  BY InitInv, <1>1, PTL DEF Spec

\* ReceivedIsPending, the run's property, for every instance.
THEOREM ReceivedAlwaysPending == Spec => []ReceivedIsPending
<1>1. ServerInvariant => ReceivedIsPending
  BY DEF ServerInvariant
<1> QED
  BY <1>1, Invariance, PTL

\* ExportAccounted, the run's property, for every instance.
THEOREM ExportAlwaysAccounted == Spec => []ExportAccounted
<1>1. ServerInvariant => ExportAccounted
  BY DEF ServerInvariant
<1> QED
  BY <1>1, Invariance, PTL

(***************************************************************************)
(* What the handlers write.                                                *)
(***************************************************************************)
\* A partial or complete prepare changes planned directories only, each of
\* them checked.
LEMMA PreparePartialChanges ==
    ASSUME NEW t \in Trees, NEW src, NEW dst, NEW u \in PreparePartial(t, src, dst),
           NEW p \in Paths, u[p] # t[p]
    PROVE  /\ p \in PlanDirs(src) /\ CanMake(t, src, dst, p)
           /\ p \notin PlanConflicts(src, dst) => u[p] = Dir
           /\ u[p] \in {None, Dir}
<1>1. PICK k \in PlanDirs(src) :
        /\ \A d \in PlanDirs(src) : d < k => CanMake(t, src, dst, d)
        /\ LET before == Put(t, {d \in PlanDirs(src) : d < k}, Dir)
           IN  \/ u = before
               \/ /\ CanMake(t, src, dst, k)
                  /\ \/ u = Put(before, {k}, Dir)
                     \/ \E c \in {k} \cap PlanConflicts(src, dst) : u = Put(before, {c}, None)
  BY DEF PreparePartial
<1>2. p # k => u[p] = IF p \in {d \in PlanDirs(src) : d < k} THEN Dir ELSE t[p]
  BY <1>1 DEF Put
<1>3. p = k => /\ CanMake(t, src, dst, k)
               /\ p \notin PlanConflicts(src, dst) => u[p] = Dir
               /\ u[p] \in {None, Dir, t[p]}
  <2>1. Put(t, {d \in PlanDirs(src) : d < k}, Dir)[k] = t[k]
    BY PathsAssumption DEF Put, PlanDirs
  <2> QED
    BY <1>1, <2>1 DEF Put
<1> QED
  BY <1>1, <1>2, <1>3

\* A change the plan allows at path p: a planned directory made, or an
\* install or a removal whose old entry checked.
PlannedChange(p) ==
    \/ /\ p \in PlanDirs(session.source)
       /\ CanMake(tree, session.source, session.destination, p)
       /\ p \in PlanConflicts(session.source, session.destination) \/ tree'[p] = Dir
    \/ p \in FilesOf(session) /\ Installable(tree[p], session.destination[p])
    \/ /\ p \in RemovalsOf(session) /\ AllDone(session)
       /\ CheckEntry(tree[p], session.destination[p])

\* Making the directories, completely.
LEMMA PreparedChanges ==
    ASSUME TypeOK, session.prepared \/ CanPrepare, NEW p \in Paths,
           PreparedTree[p] # tree[p]
    PROVE  /\ p \in PlanDirs(session.source) /\ PreparedTree[p] = Dir
           /\ CanMake(tree, session.source, session.destination, p)
BY DEF TypeOK, Trees, PreparedTree, CanPrepare, Preparable, Put

\* A prepare that fails touches only planned directories that checked.
LEMMA PrepareFailsChanges ==
    ASSUME TypeOK, PrepareFails, NEW p \in Changed
    PROVE  /\ PlannedChange(p) /\ tree'[p] \in {None, Dir}
           /\ p \in PlanDirs(session.source)
           /\ CanMake(tree, session.source, session.destination, p)
BY PreparePartialChanges DEF TypeOK, PrepareFails, Changed, PlannedChange

\* A removal that fails halfway empties some of its paths, after all of them
\* were checked.
LEMMA RemoveIsPut ==
    ASSUME NEW t, NEW dst, NEW R, NEW u \in RemovePartial(t, dst, R), u # t
    PROVE  Removable(t, dst, R) /\ \E D \in SUBSET R : u = Put(t, D, None)
<1>1. PICK k \in R : u = Put(t, {p \in R : p >= k}, None) /\ Removable(t, dst, R)
  BY DEF RemovePartial
<1> QED
  BY <1>1

\* What FINISH changes, acknowledged or not.
LEMMA FinishIsPlanned ==
    ASSUME TypeOK, NEW c, NEW r, Finish(c, r), tree' # tree
    PROVE  /\ Active /\ session.push /\ ~session.options.dryRun
           /\ \A p \in Changed : /\ PlannedChange(p)
                                 /\ tree'[p] \in {None, Dir}
                                 /\ session.source[p].kind # "file"
                                 /\ p \in PlanDirs(session.source) \/ tree'[p] = None
           /\ AllDone(session)
<1>1. MayTransfer(c) /\ session.push /\ AllDone(session)
  BY DEF Finish, Refuse
<1>2. CASE PrepareFails
  <2>1. \A p \in PlanDirs(session.source) : session.source[p].kind # "file"
    BY DEF PlanDirs
  <2> QED
    BY <1>1, <1>2, <2>1, PrepareFailsChanges DEF MayTransfer, MayRequest, Owns
<1>3. CASE /\ session.prepared \/ CanPrepare
           /\ \/ tree' \in RemovePartial(PreparedTree, session.destination, RemovalsOf(session))
              \/ /\ Removable(PreparedTree, session.destination, RemovalsOf(session))
                 /\ tree' = Put(PreparedTree, RemovalsOf(session), None)
  <2>1. ASSUME NEW p \in Changed
        PROVE  /\ PlannedChange(p)
               /\ tree'[p] \in {None, Dir}
               /\ session.source[p].kind # "file"
               /\ p \in PlanDirs(session.source) \/ tree'[p] = None
    <3>1. CASE PreparedTree[p] # tree[p]
      <4>1. p \in PlanDirs(session.source) /\ PreparedTree[p] = Dir
            /\ CanMake(tree, session.source, session.destination, p)
        BY <1>3, <3>1, PreparedChanges DEF Changed
      <4>2. p \notin RemovalsOf(session)
        BY <4>1 DEF PlanDirs, RemovalsOf, PlanRemovals
      <4>3. tree'[p] = PreparedTree[p]
        BY <1>3, <4>2 DEF RemovePartial, Put, Changed
      <4> QED
        BY <4>1, <4>3 DEF PlannedChange, PlanDirs
    <3>2. CASE PreparedTree[p] = tree[p]
      <4>1. p \in Paths /\ tree'[p] # PreparedTree[p] /\ PreparedTree \in Trees
        BY <3>2, PreparedTreeType DEF Changed
      <4>2. p \in RemovalsOf(session)
            /\ CheckEntry(PreparedTree[p], session.destination[p]) /\ tree'[p] = None
        <5> DEFINE t == PreparedTree  R == RemovalsOf(session)  dst == session.destination
        <5>1. \/ tree' \in RemovePartial(t, dst, R)
              \/ Removable(t, dst, R) /\ tree' = Put(t, R, None)
          BY <1>3
        <5> HIDE DEF t, R, dst
        <5>2. t \in Trees /\ tree'[p] # t[p]
          BY <4>1 DEF t
        <5>3. p \in R /\ CheckEntry(t[p], dst[p]) /\ tree'[p] = None
          <6>1. Removable(t, dst, R) /\ \E D \in SUBSET R : tree' = Put(t, D, None)
            BY <5>1, <5>2, RemoveIsPut
          <6> QED
            BY <4>1, <5>2, <6>1 DEF Removable, Put
        <5> QED
          BY <5>3 DEF t, R, dst
      <4> QED
        BY <1>1, <3>2, <4>2 DEF PlannedChange, RemovalsOf, PlanRemovals
    <3> QED
      BY <3>1, <3>2
  <2> QED
    BY <1>1, <2>1 DEF MayTransfer, MayRequest, Owns
<1> QED
  BY <1>2, <1>3 DEF Finish, Refuse

\* Every change a handler makes to the export is one its plan allows, in a
\* push session that is not a dry run.
LEMMA WritesArePlanned ==
    ASSUME TypeOK, NEW c \in Conns, NEW r, Request(c, r), tree' # tree
    PROVE  /\ Active /\ session.push /\ ~session.options.dryRun
           /\ \A p \in Changed : PlannedChange(p)
<1>1. ASSUME NEW i \in Paths, Begin(c, i, r)
      PROVE  /\ Active /\ session.push /\ ~session.options.dryRun
             /\ \A p \in Changed : PlannedChange(p)
  <2>1. CanBegin(c, i) /\ ((tree' = PreparedTree /\ (session.prepared \/ CanPrepare)) \/ PrepareFails)
    BY <1>1 DEF Begin, Refuse
  <2>2. \A p \in Changed : PlannedChange(p)
    BY <2>1, PreparedChanges, PrepareFailsChanges DEF Changed, PlannedChange
  <2> QED
    BY <2>1, <2>2 DEF CanBegin, MayTransfer, MayRequest, Owns, RequireFile
<1>2. ASSUME NEW i \in Paths, NEW id \in Ids, Commit(c, i, id, r)
      PROVE  /\ Active /\ session.push /\ ~session.options.dryRun
             /\ \A p \in Changed : PlannedChange(p)
  <2>1. CanCommit(c, i, id)
    BY <1>2 DEF Commit, Refuse
  <2>2. Installable(tree[i], session.destination[i])
        /\ \E e : tree' = Put(tree, {i}, e)
    BY <1>2 DEF Commit, Refuse, InstallPartial
  <2>3. \A p \in Changed : p = i
    BY <2>2 DEF Changed, Put
  <2>4. \A p \in Changed : PlannedChange(p)
    BY <2>1, <2>2, <2>3 DEF PlannedChange, CanCommit, RequireFile
  <2> QED
    BY <2>1, <2>4 DEF CanCommit, MayTransfer, MayRequest, Owns, RequireFile
<1>3. ASSUME Finish(c, r)
      PROVE  /\ Active /\ session.push /\ ~session.options.dryRun
             /\ \A p \in Changed : PlannedChange(p)
  BY <1>3, FinishIsPlanned
<1> QED
  BY <1>1, <1>2, <1>3 DEF Request, Start, Get, Verified, Refuse, Unexpected

\* An edit makes its path stale, unless it is already.
LEMMA EditIsNoWrite ==
    ASSUME TypeOK, NEW p \in Paths, NEW e \in EditEntries, Edit(p, e), ServerWrites
    PROVE  FALSE
<1>1. session \in SessionRecord /\ session.stale \cup {p} \in SUBSET Paths
  BY DEF ServerWrites, TypeOK, Active, SessionRecord
<1>2. session' = [session EXCEPT !.stale = session.stale \cup {p}]
  BY DEF ServerWrites, Edit
<1>3. session' \in SessionRecord /\ session'.stale = session.stale \cup {p}
  BY <1>1, <1>2, SetStale DEF SameJob
<1>4. session'.stale = session.stale
  BY <1>3, NoSessionAssumption DEF ServerWrites
<1>5. session' = session
  BY <1>1, <1>2, <1>3, <1>4 DEF SessionRecord
<1> QED
  BY <1>5 DEF ServerWrites

\* The other actions change the export only as Edit does.
LEMMA WritesAreRequests ==
    ASSUME TypeOK, Next, ServerWrites
    PROVE  \E c \in Conns : Handle(c)
BY EditIsNoWrite DEF Next, Receive, Disconnect, Touch, Tick, Expire, ServerWrites

\* A session whose count of files done reaches the plan's has done them all.
LEMMA AllDoneMeansAll ==
    ASSUME session.done \subseteq FilesOf(session), AllDone(session)
    PROVE  session.done = FilesOf(session)
<1>1. FilesOf(session) \subseteq Paths
  BY DEF FilesOf, PlanFiles
<1>2. IsFiniteSet(FilesOf(session))
  BY <1>1, PathsAssumption, FS_Subset
<1> QED
  BY <1>2, FS_Subset DEF AllDone

\* A source file that nobody edited is in place once everything is done.
LEMMA SourceInPlace ==
    ASSUME ExportAccounted, Active, session.push, session.done = FilesOf(session),
           NEW q \in Paths \ session.stale, session.source[q].kind = "file"
    PROVE  Alike(tree[q], session.source[q])
<1>1. Alike(tree[q], Expected(session, q))
  BY DEF ExportAccounted
<1>2. CASE q \in session.done
  BY <1>1, <1>2 DEF Expected
<1>3. CASE q \notin session.done
  <2>1. SameFile(session.source[q], session.destination[q], session.options)
    BY <1>3 DEF FilesOf, PlanFiles
  <2>2. Expected(session, q) = session.destination[q]
    BY <1>3 DEF Expected, PlanDirs
  <2> QED
    BY <1>1, <2>1, <2>2 DEF SameFile, Alike
<1> QED
  BY <1>2, <1>3

\* A change the plan allows at a path that holds an object: it is the object
\* that was scanned.
LEMMA PlannedIsChecked ==
    ASSUME TypeOK, NEW p \in Changed, PlannedChange(p), tree[p].kind # "none"
    PROVE  CheckEntry(tree[p], session.destination[p])
<1>1. p \in Paths /\ tree[p] \in Entries
  BY DEF TypeOK, Trees, Changed
<1>2. CASE /\ p \in PlanDirs(session.source)
           /\ CanMake(tree, session.source, session.destination, p)
           /\ p \in PlanConflicts(session.source, session.destination) \/ tree'[p] = Dir
  <2>1. CASE p \in PlanConflicts(session.source, session.destination)
    BY <1>2, <2>1 DEF CanMake
  <2>2. CASE p \notin PlanConflicts(session.source, session.destination)
    <3>1. tree[p] = Dir
      BY <1>1, <1>2, <2>2 DEF CanMake, Entries, None, Dir, File
    <3> QED
      BY <1>2, <2>2, <3>1 DEF Changed
  <2> QED
    BY <2>1, <2>2
<1> QED
  BY <1>2 DEF PlannedChange, Installable

\* A change the plan allows at a path without a source: a removal, after
\* every planned file.
LEMMA PlannedExtra ==
    ASSUME ExportAccounted, Active, session.push, session.done \subseteq FilesOf(session),
           NEW p \in Changed, PlannedChange(p), session.source[p].kind = "none"
    PROVE  /\ session.options.delete
           /\ FilesOf(session) \subseteq session.done
           /\ \A q \in Paths \ session.stale :
                 session.source[q].kind = "file" => Alike(tree[q], session.source[q])
<1>1. p \in RemovalsOf(session) /\ AllDone(session)
  BY DEF PlannedChange, PlanDirs, FilesOf, PlanFiles
<1>2. session.done = FilesOf(session)
  BY <1>1, AllDoneMeansAll
<1> QED
  BY <1>1, <1>2, SourceInPlace DEF RemovalsOf, PlanRemovals

\* Outside edits are never overwritten or removed.
THEOREM LostUpdateFree == Spec => NoLostUpdate
<1>1. ServerInvariant /\ [Next]_vars =>
        [ServerWrites => \A p \in Changed :
            tree[p].kind # "none" => CheckEntry(tree[p], session.destination[p])]_vars
  <2> SUFFICES ASSUME ServerInvariant, Next, ServerWrites,
                      NEW p \in Changed, tree[p].kind # "none"
               PROVE  CheckEntry(tree[p], session.destination[p])
    BY DEF ServerWrites, vars
  <2>1. TypeOK
    BY DEF ServerInvariant
  <2>2. PlannedChange(p)
    BY <2>1, WritesAreRequests, WritesArePlanned DEF Handle, ServerWrites
  <2> QED
    BY <2>1, <2>2, PlannedIsChecked
<1> QED
  BY <1>1, Invariance, PTL DEF Spec, NoLostUpdate

\* Extras go only under --delete, after every planned file is in place.
THEOREM ExtrasLast == Spec => ExtrasGoLast
<1>1. ServerInvariant /\ [Next]_vars =>
        [ServerWrites =>
            \A p \in Changed : session.source[p].kind = "none" =>
                /\ session.options.delete
                /\ FilesOf(session) \subseteq session.done
                /\ \A q \in Paths \ session.stale :
                      session.source[q].kind = "file" => Alike(tree[q], session.source[q])]_vars
  <2> SUFFICES ASSUME ServerInvariant, Next, ServerWrites,
                      NEW p \in Changed, session.source[p].kind = "none"
               PROVE  /\ session.options.delete
                      /\ FilesOf(session) \subseteq session.done
                      /\ \A q \in Paths \ session.stale :
                            session.source[q].kind = "file" => Alike(tree[q], session.source[q])
    BY DEF ServerWrites, vars
  <2>1. TypeOK /\ ExportAccounted /\ Active /\ session.done \subseteq FilesOf(session)
    BY DEF ServerInvariant, ProgressWithinPlan, ServerWrites
  <2>2. PlannedChange(p) /\ session.push
    BY <2>1, WritesAreRequests, WritesArePlanned DEF Handle, ServerWrites
  <2> QED
    BY <2>1, <2>2, PlannedExtra
<1> QED
  BY <1>1, Invariance, PTL DEF Spec, ExtrasGoLast

\* Only a full-permission push that is no dry run writes.
THEOREM FullPushWrites == Spec => OnlyFullPushWrites
<1>1. ServerInvariant /\ [Next]_vars =>
        [ServerWrites => /\ Permission[session.conn] = "full"
                         /\ session.push /\ ~session.options.dryRun]_vars
  <2> SUFFICES ASSUME ServerInvariant, Next, ServerWrites
               PROVE  /\ Permission[session.conn] = "full"
                      /\ session.push /\ ~session.options.dryRun
    BY DEF ServerWrites, vars
  <2>1. TypeOK /\ PushIsFull /\ tree' # tree
    BY DEF ServerInvariant, ServerWrites
  <2> QED
    BY <2>1, WritesAreRequests, WritesArePlanned DEF Handle, PushIsFull
<1> QED
  BY <1>1, Invariance, PTL DEF Spec, OnlyFullPushWrites

\* The bookkeeping of a session never leaves its plan, whatever requests
\* come in whatever order.
THEOREM ProgressAlwaysWithinPlan == Spec => []ProgressWithinPlan
<1>1. ServerInvariant => ProgressWithinPlan
  BY DEF ServerInvariant
<1> QED
  BY <1>1, Invariance, PTL

\* What an acknowledged FINISH of a push leaves at a path nobody edited.
LEMMA FinishedPath ==
    ASSUME TypeOK, ExportAccounted, session.done \subseteq FilesOf(session),
           NEW c \in Conns, Owns(c), session.push, ~session.options.dryRun,
           Finish(c, "ok"), NEW p \in Paths \ session.stale
    PROVE  IF session.source[p].kind # "none" \/ session.options.delete
             THEN Alike(tree'[p], session.source[p])
             ELSE Alike(tree'[p], session.destination[p])
<1>1. /\ AllDone(session) /\ session \in SessionRecord
      /\ tree' = Put(PreparedTree, RemovalsOf(session), None)
  BY DEF Finish, Refuse, TypeOK, Owns, Active
<1>2. session.done = FilesOf(session)
  BY <1>1, AllDoneMeansAll
<1>3. /\ Alike(tree[p], Expected(session, p))
      /\ session.source[p] \in Entries /\ session.destination[p] \in Entries
      /\ tree[p] \in Entries
  BY <1>1 DEF TypeOK, ExportAccounted, Owns, SessionRecord, Trees
<1>4. CASE session.source[p].kind = "file"
  <2>1. Alike(tree[p], session.source[p])
    BY <1>2, <1>4, SourceInPlace DEF Owns
  <2>2. tree'[p] = tree[p]
    BY <1>1, <1>4 DEF Put, PreparedTree, PlanDirs, RemovalsOf, PlanRemovals
  <2> QED
    BY <1>4, <2>1, <2>2
<1>5. CASE session.source[p].kind = "dir"
  <2>1. p \in PlanDirs(session.source) /\ p \notin RemovalsOf(session)
        /\ p \notin FilesOf(session) /\ session.source[p] = Dir
    BY <1>3, <1>5 DEF PlanDirs, RemovalsOf, PlanRemovals, FilesOf, PlanFiles,
                      Entries, None, Dir, File
  <2>2. tree'[p] = PreparedTree[p]
    BY <1>1, <2>1 DEF Put
  <2>3. CASE session.prepared
    BY <1>2, <1>3, <1>5, <2>1, <2>2, <2>3 DEF PreparedTree, Expected, Alike
  <2>4. CASE ~session.prepared
    BY <1>5, <2>1, <2>2, <2>4 DEF PreparedTree, Put, Alike
  <2> QED
    BY <2>3, <2>4
<1>6. CASE session.source[p].kind = "none"
  <2>1. p \notin PlanDirs(session.source) /\ p \notin session.done
        /\ session.source[p] = None
    BY <1>2, <1>3, <1>6 DEF PlanDirs, FilesOf, PlanFiles, Entries, None, Dir, File
  <2>2. Alike(tree[p], session.destination[p]) /\ PreparedTree[p] = tree[p]
    BY <1>3, <2>1 DEF Expected, PreparedTree, Put
  <2>3. CASE p \in RemovalsOf(session)
    <3>1. tree'[p] = None /\ session.options.delete
      BY <1>1, <2>3 DEF Put, RemovalsOf, PlanRemovals
    <3> QED
      BY <2>1, <3>1 DEF Alike
  <2>4. CASE p \notin RemovalsOf(session)
    <3>1. tree'[p] = tree[p]
      BY <1>1, <2>2, <2>4 DEF Put
    <3>2. ~session.options.delete \/ session.destination[p] = None
      BY <1>3, <1>6, <2>4 DEF RemovalsOf, PlanRemovals, Entries, None, Dir, File
    <3> QED
      BY <1>6, <2>1, <2>2, <3>1, <3>2
  <2> QED
    BY <2>3, <2>4
<1> QED
  BY <1>3, <1>4, <1>5, <1>6 DEF Entries, None, Dir, File

\* An acknowledged FINISH of a push means that the export is what the source
\* manifest says, whatever the session went through before.
THEOREM FinishSynchronizes == Spec => FinishMeansSynchronized
<1>1. ServerInvariant /\ [Next]_vars =>
        [\A c \in Conns :
          Owns(c) /\ session.push /\ ~session.options.dryRun /\ Finish(c, "ok") =>
            \A p \in Paths \ session.stale :
                IF session.source[p].kind # "none" \/ session.options.delete
                  THEN Alike(tree'[p], session.source[p])
                  ELSE Alike(tree'[p], session.destination[p])]_vars
  BY FinishedPath DEF ServerInvariant, ProgressWithinPlan, Owns
<1> QED
  BY <1>1, Invariance, PTL DEF Spec, FinishMeansSynchronized

\* An acknowledged FINISH of a pull means that the export still is what was
\* scanned and every planned file was handed over.
THEOREM PullFinishUnchanged == Spec => PullFinishMeansUnchanged
<1>1. ServerInvariant /\ [Next]_vars =>
        [\A c \in Conns :
          Owns(c) /\ ~session.push /\ ~session.options.dryRun /\ Finish(c, "ok") =>
            session.stale = {} /\ session.done = FilesOf(session)]_vars
  <2> SUFFICES ASSUME ServerInvariant, NEW c \in Conns, Owns(c), ~session.push,
                      ~session.options.dryRun, Finish(c, "ok")
               PROVE  session.stale = {} /\ session.done = FilesOf(session)
    OBVIOUS
  <2>1. AllDone(session) /\ session.stale = {} /\ session.done \subseteq FilesOf(session)
    BY DEF Finish, Refuse, ServerInvariant, ProgressWithinPlan, Owns
  <2> QED
    BY <2>1, AllDoneMeansAll
<1> QED
  BY <1>1, Invariance, PTL DEF Spec, PullFinishMeansUnchanged

\* FinishIsHonest, the run's property: both directions together.
THEOREM FinishAlwaysHonest == Spec => FinishIsHonest
BY FinishSynchronizes, PullFinishUnchanged, PTL DEF FinishIsHonest

-----------------------------------------------------------------------------
(***************************************************************************)
(* The version-2 engine: the inductive invariant.                          *)
(***************************************************************************)
\* The pages of a transfer in order, as PagesInOrder says, and what that
\* rests on: tables of the described length, and only uploads miss chunks
\* and only downloads serve them.
GoodTransfer(t, push) ==
    /\ t \in TransferRecord
    /\ t.hashes \in [Chunks(t.hash) -> Content] /\ t.stored \in [Chunks(t.hash) -> Content]
    /\ t.pageStart <= t.nextPage /\ t.nextPage <= Size[t.hash]
    /\ IF push THEN t.served = {} /\ t.missing \subseteq Fetched(t)
               ELSE t.missing = {} /\ t.served \subseteq Fetched(t)
    /\ t.pending # 0 => t.pending \in IF push THEN t.missing ELSE Fetched(t) \ t.served
    /\ t.received # NoFile => push /\ t.pending # 0 /\ ~t.received.meta
    /\ push => \A j \in 1 .. t.nextPage \ t.missing : t.stored[j] \in {t.hashes[j], 0}

\* The session stays inside its plan, and a push that has committed a file
\* has made the directories.  Unlike in version 1 a file may be pending
\* before: FILE_COMMIT prepares, not the description.
V2Progress ==
    Active =>
        /\ session.done \subseteq FilesOf(session)
        /\ session.push /\ session.done # {} => session.prepared

\* The transfer is a good one, of a file described as the manifest has it.
TransferIsGood ==
    transfer # NoTransfer =>
        /\ GoodTransfer(transfer, session.push)
        /\ session.push =>
              ValidDescription(session.source[transfer.file], transfer.hash, session.options)

\* The inductive invariant.
V2IInv ==
    /\ TypeOK /\ V2Progress /\ PushIsFull /\ ExportAccounted
    /\ TransferIsPending /\ TransferIsGood

-----------------------------------------------------------------------------
(* Steps of the session.                                                   *)

\* u is s but for what is pending and the lease.
SameProgress(u, s) ==
    SameJob(u, s) /\ u.prepared = s.prepared /\ u.done = s.done /\ u.stale = s.stale

\* A session that exists is a session record.
LEMMA ActiveSession ==
    ASSUME TypeOK, Active
    PROVE  session \in SessionRecord
BY DEF TypeOK, Active

\* A handler past its guards has a session and is not in a dry run.
LEMMA TransferSession ==
    ASSUME TypeOK, NEW c, MayTransfer(c)
    PROVE  session \in SessionRecord /\ Active /\ Owns(c) /\ ~session.options.dryRun
BY DEF TypeOK, MayTransfer, MayRequest, Owns, Active

\* A session that makes no progress, over an unchanged export, keeps what the
\* version-1 engine promises.
LEMMA SessionGoesOn ==
    ASSUME V2IInv, Active, SameProgress(session', session), tree' = tree, rooted' = rooted
    PROVE  /\ TypeOK' /\ V2Progress' /\ PushIsFull' /\ ExportAccounted'
           /\ Active' /\ FilesOf(session') = FilesOf(session)
<1>1. session' \in SessionRecord /\ FilesOf(session') = FilesOf(session)
  BY SamePlan DEF SameProgress, SameJob
<1>2. TypeOK' /\ Active'
  BY <1>1, NoSessionAssumption DEF V2IInv, TypeOK, Active
<1>3. V2Progress' /\ PushIsFull'
  BY <1>1 DEF V2IInv, V2Progress, PushIsFull, SameProgress, SameJob
<1>4. \A p \in Paths : Expected(session', p) = Expected(session, p)
  BY DEF Expected, SameProgress, SameJob
<1>5. ExportAccounted'
  BY <1>4 DEF V2IInv, ExportAccounted, SameProgress
<1> QED
  BY <1>1, <1>2, <1>3, <1>5

\* A step that ends the session and its transfer leaves nothing to promise.
LEMMA EndInv ==
    ASSUME TypeOK', session' = NoSession, transfer' = NoTransfer
    PROVE  V2IInv'
BY DEF V2IInv, V2Progress, PushIsFull, ExportAccounted, TransferIsPending, TransferIsGood, Active

\* A step that changes nothing.
LEMMA V2StutterInv ==
    ASSUME V2IInv, UNCHANGED v2vars
    PROVE  V2IInv'
<1> USE DEF v2vars
<1>1. TypeOK' /\ V2Progress' /\ PushIsFull' /\ ExportAccounted'
  BY DEF V2IInv, TypeOK, V2Progress, PushIsFull, ExportAccounted, Active
<1>2. TransferIsPending' /\ TransferIsGood'
  BY DEF V2IInv, TransferIsPending, TransferIsGood, Active
<1> QED
  BY <1>1, <1>2 DEF V2IInv

\* An error of the owner's Link ends both; of another Link, neither.
LEMMA FailsInv ==
    ASSUME V2IInv, NEW c, NEW r, Refuse(c, r), Released(c)
    PROVE  V2IInv'
<1>1. CASE Owns(c)
  BY <1>1, RefuseType, EndInv DEF V2IInv, Refuse, Abort, Released
<1>2. CASE ~Owns(c)
  BY <1>2, V2StutterInv DEF Refuse, Abort, Released, v2vars
<1> QED
  BY <1>1, <1>2

\* START opens a session without a transfer, of the export just scanned.
LEMMA V2StartInv ==
    ASSUME V2IInv, NEW c \in Conns, NEW job \in AnyJob, NEW r, V2Start(c, job, r)
    PROVE  V2IInv'
<1>0. TypeOK'
  BY StartType DEF V2IInv, V2Start
<1>1. CASE Refuse(c, r)
  BY <1>1, FailsInv DEF V2Start, Refuse
<1>2. CASE r = "busy" /\ Abort(c) /\ UNCHANGED <<tree, rooted>>
  <2>1. Released(c)
    BY <1>2 DEF V2Start
  <2>2. CASE Owns(c)
    BY <1>0, <1>2, <2>1, <2>2, EndInv DEF Abort, Released
  <2>3. CASE ~Owns(c)
    BY <1>2, <2>1, <2>3, V2StutterInv DEF Abort, Released, v2vars
  <2> QED
    BY <2>2, <2>3
<1>3. CASE /\ r = "manifest" /\ StartAllowed(c, job.push) /\ ~Active
           /\ session' = NewSession(c, job)
           /\ UNCHANGED <<tree, rooted>>
  <2>1. job.push \in BOOLEAN /\ tree \in Trees /\ job.manifest \in Trees
    BY DEF V2IInv, TypeOK, AnyJob
  <2>2. /\ session'.conn = c /\ session'.push = job.push
        /\ session'.done = {} /\ session'.pending = NoPath
        /\ session'.prepared = FALSE
        /\ session'.source = IF job.push THEN job.manifest ELSE tree
        /\ session'.destination = IF job.push THEN tree ELSE job.manifest
    BY <1>3 DEF NewSession
  <2>3. V2Progress'
    BY <2>2 DEF V2Progress
  <2>4. PushIsFull'
    BY <1>3, <2>2 DEF PushIsFull, StartAllowed
  <2>5. ExportAccounted'
    BY <1>3, <2>1, <2>2 DEF ExportAccounted, Expected, Alike
  <2>6. transfer' = NoTransfer
    BY <1>3 DEF V2IInv, TransferIsPending, V2Start
  <2>7. TransferIsPending' /\ TransferIsGood'
    BY <2>2, <2>6 DEF TransferIsPending, TransferIsGood
  <2> QED
    BY <1>0, <2>3, <2>4, <2>5, <2>7 DEF V2IInv
<1> QED
  BY <1>1, <1>2, <1>3 DEF V2Start, Start

\* FINISH ends the session; there is no transfer.
LEMMA V2FinishInv ==
    ASSUME V2IInv, NEW c \in Conns, NEW r, V2Finish(c, r)
    PROVE  V2IInv'
<1>0. TypeOK' /\ Released(c)
  BY FinishType DEF V2IInv, V2Finish
<1>1. CASE Refuse(c, r)
  BY <1>0, <1>1, FailsInv
<1>2. CASE Owns(c) /\ (session' = NoSession \/ Abort(c))
  BY <1>0, <1>2, EndInv DEF Abort, Released
<1> QED
  BY <1>1, <1>2 DEF V2Finish, Finish, MayTransfer, MayRequest

-----------------------------------------------------------------------------
(* Steps of the transfer.                                                  *)

\* A description starts a transfer at its first page.
LEMMA NewTransfer ==
    ASSUME NEW i \in Paths, NEW d \in Versions
    PROVE  /\ \A stored \in [Chunks(d) -> Content] :
                 GoodTransfer(Upload(i, d, stored), TRUE)
           /\ GoodTransfer(Download(i, d), FALSE)
<1>1. [j \in Chunks(d) |-> 0] \in [Chunks(d) -> Content]
      /\ [j \in Chunks(d) |-> d] \in [Chunks(d) -> Content]
      /\ Size[d] \in Nat
  BY VersionsAssumption DEF Content
<1>2. ASSUME NEW stored \in [Chunks(d) -> Content]
      PROVE  GoodTransfer(Upload(i, d, stored), TRUE)
  BY <1>1, <1>2 DEF GoodTransfer, Upload, TransferRecord, Fetched
<1>3. GoodTransfer(Download(i, d), FALSE)
  BY <1>1 DEF GoodTransfer, Download, Upload, TransferRecord, Fetched
<1> QED
  BY <1>2, <1>3

\* DESCRIPTION and DESCRIBE make a file pending together with its transfer.
LEMMA DescribedInv ==
    ASSUME V2IInv, NEW c \in Conns, NEW i \in Paths,
           \/ \E d \in Versions : \E stored \in AnyStored(d) : Description(c, i, d, stored)
           \/ Describe(c, i)
    PROVE  V2IInv'
<1>1. /\ MayTransfer(c) /\ RequireFile(i, session.push) /\ transfer = NoTransfer
      /\ session' = [session EXCEPT !.pending = i, !.idle = 0]
      /\ tree' = tree /\ rooted' = rooted
  BY DEF Description, Describe, RequireFile
<1>2. session \in SessionRecord /\ Active /\ ~session.options.dryRun
  BY <1>1, TransferSession DEF V2IInv
<1>3. SameProgress(session', session) /\ session'.pending = i
  BY <1>1, <1>2, GottenSession DEF SameProgress
<1>4. /\ TypeOK' /\ V2Progress' /\ PushIsFull' /\ ExportAccounted'
      /\ Active' /\ FilesOf(session') = FilesOf(session)
  BY <1>1, <1>2, <1>3, SessionGoesOn
<1>5. i \in FilesOf(session) \ session.done
  BY <1>1 DEF RequireFile
<1>6. /\ transfer'.file = i /\ GoodTransfer(transfer', session.push)
      /\ session.push => ValidDescription(session.source[i], transfer'.hash, session.options)
  <2>1. ASSUME NEW d \in Versions, NEW stored \in AnyStored(d), Description(c, i, d, stored)
        PROVE  /\ transfer'.file = i /\ GoodTransfer(transfer', session.push)
               /\ ValidDescription(session.source[i], transfer'.hash, session.options)
    <3>1. session.push = TRUE /\ transfer' = Upload(i, d, stored)
          /\ ValidDescription(session.source[i], d, session.options)
      BY <2>1 DEF Description, RequireFile
    <3>2. stored \in [Chunks(d) -> Content]
      BY DEF AnyStored, Content
    <3> QED
      BY <3>1, <3>2, NewTransfer DEF Upload
  <2>2. ASSUME Describe(c, i)
        PROVE  transfer'.file = i /\ GoodTransfer(transfer', session.push) /\ ~session.push
    <3>1. session.push = FALSE /\ transfer' = Download(i, tree[i].data) /\ i \notin session.stale
      BY <2>2 DEF Describe, RequireFile
    <3>2. tree[i].data \in Versions
      <4>1. Alike(tree[i], session.source[i]) /\ session.source[i].kind = "file"
        BY <1>2, <1>5, <3>1, PlannedFile DEF V2IInv, ExportAccounted, Expected
      <4> QED
        BY <4>1 DEF V2IInv, TypeOK, Trees, Alike, Entries, None, Dir, File
    <3>3. GoodTransfer(transfer', FALSE) /\ transfer'.file = i
      BY <3>1, <3>2, NewTransfer DEF Download, Upload
    <3> QED
      BY <3>1, <3>3
  <2> QED
    BY <2>1, <2>2
<1>7. transfer' \in TransferRecord /\ transfer' # NoTransfer
  BY <1>6, NoTransferAssumption DEF GoodTransfer
<1>8. TransferIsPending'
  BY <1>2, <1>3, <1>4, <1>5, <1>6, <1>7 DEF TransferIsPending, SameProgress, SameJob
<1>9. TransferIsGood'
  BY <1>3, <1>6 DEF TransferIsGood, SameProgress, SameJob
<1> QED
  BY <1>4, <1>8, <1>9 DEF V2IInv

\* A step that moves a transfer on and leaves the session where it is.
LEMMA TransferMoves ==
    ASSUME V2IInv, transfer # NoTransfer,
           tree' = tree, rooted' = rooted,
           session' = session \/ session' = [session EXCEPT !.idle = 0],
           GoodTransfer(transfer', session.push),
           transfer'.file = transfer.file, transfer'.hash = transfer.hash
    PROVE  V2IInv'
<1>1. Active /\ session \in SessionRecord
  BY ActiveSession DEF V2IInv, TransferIsPending
<1>2. SameProgress(session', session) /\ session'.pending = session.pending
  <2>1. CASE session' = session
    BY <1>1, <2>1 DEF SameProgress, SameJob
  <2>2. CASE session' = [session EXCEPT !.idle = 0]
    BY <1>1, <2>2, SetIdle, LeaseAssumption DEF SameProgress
  <2> QED
    BY <2>1, <2>2
<1>3. /\ TypeOK' /\ V2Progress' /\ PushIsFull' /\ ExportAccounted'
      /\ Active' /\ FilesOf(session') = FilesOf(session)
  BY <1>1, <1>2, SessionGoesOn
<1>4. transfer' # NoTransfer
  BY NoTransferAssumption DEF GoodTransfer
<1>5. TransferIsPending'
  BY <1>2, <1>3, <1>4 DEF V2IInv, TransferIsPending, SameProgress, SameJob
<1>6. TransferIsGood'
  BY <1>2 DEF V2IInv, TransferIsGood, SameProgress, SameJob
<1> QED
  BY <1>3, <1>5, <1>6 DEF V2IInv

\* What a transfer in progress is, and what Quiet does to the session.
LEMMA TransferringFacts ==
    ASSUME V2IInv, NEW c, NEW i, Transferring(c, i)
    PROVE  /\ transfer # NoTransfer /\ GoodTransfer(transfer, session.push)
           /\ transfer \in TransferRecord /\ transfer.hash \in Versions
           /\ Size[transfer.hash] \in Nat /\ session.push \in BOOLEAN
           /\ \A t : Quiet(t) => /\ transfer' = t /\ tree' = tree /\ rooted' = rooted
                                 /\ session' = [session EXCEPT !.idle = 0]
<1>1. transfer # NoTransfer /\ MayTransfer(c)
  BY DEF Transferring
<1>2. GoodTransfer(transfer, session.push) /\ transfer \in TransferRecord
  BY <1>1 DEF V2IInv, TransferIsGood, GoodTransfer
<1>3. transfer.hash \in Versions /\ Size[transfer.hash] \in Nat
  BY <1>2, VersionsAssumption DEF TransferRecord
<1>4. session.push \in BOOLEAN
  BY <1>1, TransferSession DEF V2IInv, SessionRecord
<1> QED
  BY <1>1, <1>2, <1>3, <1>4 DEF Quiet, Active2

\* HASHES: the next page, compared with what is stored.
LEMMA HashesInv ==
    ASSUME V2IInv, NEW c \in Conns, NEW i \in Paths, Transferring(c, i),
           NEW page \in PageHashes(transfer.hash), NEW start, Hashes(c, i, start, page)
    PROVE  V2IInv'
<1> DEFINE t == transfer
           u == [t EXCEPT
                   !.hashes = [j \in DOMAIN @ |-> IF j \in DOMAIN page THEN page[j] ELSE @[j]],
                   !.missing = {j \in DOMAIN page : t.stored[j] # page[j]},
                   !.pageStart = start, !.nextPage = PageEnd(t)]
<1>1. t # NoTransfer /\ GoodTransfer(t, session.push) /\ t \in TransferRecord
      /\ t.hash \in Versions /\ Size[t.hash] \in Nat
  BY TransferringFacts
<1>2. /\ session.push = TRUE /\ start = t.nextPage /\ start < Size[t.hash]
      /\ t.pending = 0 /\ t.missing = {} /\ DOMAIN page = Page(t)
  BY DEF Hashes, Uploading, PageExpected
<1>3. /\ transfer' = u /\ tree' = tree /\ rooted' = rooted
      /\ session' = [session EXCEPT !.idle = 0]
  BY TransferringFacts DEF Hashes
<1>4. /\ t.nextPage \in Nat /\ PageEnd(t) \in Nat
      /\ start <= PageEnd(t) /\ PageEnd(t) <= Size[t.hash]
  BY <1>1, <1>2, PageAssumption DEF TransferRecord, PageEnd
<1>5. \A j \in DOMAIN page : j \in Nat /\ page[j] \in Content
  BY <1>2, <1>4 DEF PageHashes, Page, Content
<1>6. /\ u.file = t.file /\ u.hash = t.hash /\ u.stored = t.stored /\ u.served = t.served
      /\ u.pending = t.pending /\ u.received = t.received
      /\ u.pageStart = start /\ u.nextPage = PageEnd(t)
      /\ u.missing = {j \in DOMAIN page : t.stored[j] # page[j]}
      /\ u.hashes = [j \in Chunks(t.hash) |-> IF j \in DOMAIN page THEN page[j] ELSE t.hashes[j]]
  BY <1>1 DEF TransferRecord, GoodTransfer
<1>7. u.hashes \in [Chunks(t.hash) -> Content]
  BY <1>1, <1>5, <1>6 DEF GoodTransfer
<1>8. u \in TransferRecord
  <2>1. u.missing \in SUBSET Nat
    BY <1>5, <1>6
  <2>2. u.hashes \in UNION {[Chunks(v) -> Content] : v \in Versions}
    BY <1>1, <1>7
  <2> QED
    BY <1>1, <1>2, <1>4, <1>6, <2>1, <2>2 DEF TransferRecord
<1> HIDE DEF u
<1>9. u.missing \subseteq Fetched(u)
  BY <1>2, <1>6 DEF Fetched, Page
<1>10. \A j \in 1 .. u.nextPage \ u.missing : u.stored[j] \in {u.hashes[j], 0}
  <2> TAKE j \in 1 .. u.nextPage \ u.missing
  <2>1. j \in Chunks(t.hash)
    BY <1>1, <1>4, <1>6 DEF Chunks
  <2>2. CASE j \in DOMAIN page
    BY <1>6, <2>1, <2>2
  <2>3. CASE j \notin DOMAIN page
    <3>1. j \in 1 .. t.nextPage \ t.missing
      BY <1>2, <1>4, <1>6, <2>3 DEF Page
    <3> QED
      BY <1>1, <1>2, <1>6, <2>1, <2>3, <3>1 DEF GoodTransfer
  <2> QED
    BY <2>2, <2>3
<1>11. GoodTransfer(u, session.push)
  BY <1>1, <1>2, <1>4, <1>6, <1>7, <1>8, <1>9, <1>10 DEF GoodTransfer
<1> QED
  BY <1>1, <1>3, <1>6, <1>11, TransferMoves

\* HASHES-GET: the next page of a download.
LEMMA HashesGetInv ==
    ASSUME V2IInv, NEW c \in Conns, NEW i \in Paths, Transferring(c, i),
           NEW start, HashesGet(c, i, start)
    PROVE  V2IInv'
<1> DEFINE t == transfer
           u == [t EXCEPT !.served = {}, !.pageStart = start, !.nextPage = PageEnd(t)]
<1>1. t # NoTransfer /\ GoodTransfer(t, session.push) /\ t \in TransferRecord
      /\ t.hash \in Versions /\ Size[t.hash] \in Nat
  BY TransferringFacts
<1>2. /\ session.push = FALSE /\ start = t.nextPage /\ start < Size[t.hash]
      /\ t.pending = 0 /\ t.missing = {}
  BY DEF HashesGet, Downloading, PageExpected
<1>3. /\ transfer' = u /\ tree' = tree /\ rooted' = rooted
      /\ session' = [session EXCEPT !.idle = 0]
  BY TransferringFacts DEF HashesGet
<1>4. /\ t.nextPage \in Nat /\ PageEnd(t) \in Nat
      /\ start <= PageEnd(t) /\ PageEnd(t) <= Size[t.hash]
  BY <1>1, <1>2, PageAssumption DEF TransferRecord, PageEnd
<1>5. /\ u.file = t.file /\ u.hash = t.hash /\ u.stored = t.stored /\ u.served = {}
      /\ u.pending = t.pending /\ u.received = t.received
      /\ u.pageStart = start /\ u.nextPage = PageEnd(t)
      /\ u.missing = t.missing /\ u.hashes = t.hashes /\ u \in TransferRecord
  BY <1>1, <1>2, <1>4 DEF TransferRecord
<1> HIDE DEF u
<1>6. GoodTransfer(u, session.push)
  BY <1>1, <1>2, <1>4, <1>5 DEF GoodTransfer
<1> QED
  BY <1>1, <1>3, <1>5, <1>6, TransferMoves

\* CHUNK-BEGIN and CHUNK-GET make a chunk of the page pending.
LEMMA ChunkPendingInv ==
    ASSUME V2IInv, NEW c \in Conns, NEW i \in Paths, Transferring(c, i),
           NEW j \in Chunks(transfer.hash), ChunkBegin(c, i, j) \/ ChunkGet(c, i, j)
    PROVE  V2IInv'
<1> DEFINE t == transfer
           u == [t EXCEPT !.pending = j]
<1>1. t # NoTransfer /\ GoodTransfer(t, session.push) /\ t \in TransferRecord
      /\ t.hash \in Versions /\ Size[t.hash] \in Nat /\ session.push \in BOOLEAN
  BY TransferringFacts
<1>2. j \in IF session.push THEN t.missing ELSE Fetched(t) \ t.served
  BY DEF ChunkBegin, ChunkGet, Uploading, Downloading
<1>3. /\ transfer' = u /\ tree' = tree /\ rooted' = rooted
      /\ session' = [session EXCEPT !.idle = 0] /\ t.pending = 0
  BY TransferringFacts DEF ChunkBegin, ChunkGet
<1>4. j \in Nat \ {0}
  BY <1>1 DEF Chunks
<1>5. /\ u.file = t.file /\ u.hash = t.hash /\ u.stored = t.stored /\ u.served = t.served
      /\ u.pending = j /\ u.received = t.received
      /\ u.pageStart = t.pageStart /\ u.nextPage = t.nextPage
      /\ u.missing = t.missing /\ u.hashes = t.hashes /\ u \in TransferRecord
  BY <1>1, <1>4 DEF TransferRecord
<1> HIDE DEF u
<1>6. GoodTransfer(u, session.push)
  BY <1>1, <1>2, <1>3, <1>4, <1>5 DEF GoodTransfer, Fetched
<1> QED
  BY <1>1, <1>3, <1>5, <1>6, TransferMoves

\* CHUNK-VERIFIED: the chunk that was on its way is served.
LEMMA ChunkVerifiedInv ==
    ASSUME V2IInv, NEW c \in Conns, NEW i \in Paths, Transferring(c, i),
           NEW j \in Chunks(transfer.hash), ChunkVerified(c, i, j)
    PROVE  V2IInv'
<1> DEFINE t == transfer
           u == [t EXCEPT !.served = @ \cup {j}, !.pending = 0]
<1>1. t # NoTransfer /\ GoodTransfer(t, session.push) /\ t \in TransferRecord
      /\ t.hash \in Versions /\ Size[t.hash] \in Nat
  BY TransferringFacts
<1>2. session.push = FALSE /\ t.pending = j /\ j # 0
  BY DEF ChunkVerified, Downloading
<1>3. /\ transfer' = u /\ tree' = tree /\ rooted' = rooted
      /\ session' = [session EXCEPT !.idle = 0]
  BY TransferringFacts DEF ChunkVerified
<1>4. j \in Nat /\ j \in Fetched(t)
  BY <1>1, <1>2 DEF Chunks, GoodTransfer
<1>5. /\ u.file = t.file /\ u.hash = t.hash /\ u.stored = t.stored
      /\ u.served = t.served \cup {j} /\ u.pending = 0 /\ u.received = t.received
      /\ u.pageStart = t.pageStart /\ u.nextPage = t.nextPage
      /\ u.missing = t.missing /\ u.hashes = t.hashes /\ u \in TransferRecord
  BY <1>1, <1>4 DEF TransferRecord
<1>6. t.received = NoFile
  BY <1>1, <1>2 DEF GoodTransfer
<1> HIDE DEF u
<1>7. GoodTransfer(u, session.push)
  BY <1>1, <1>2, <1>4, <1>5, <1>6 DEF GoodTransfer, Fetched
<1> QED
  BY <1>1, <1>3, <1>5, <1>7, TransferMoves

\* CHUNK-COMMIT: what was received is stored, under the hash negotiated.
LEMMA ChunkCommitInv ==
    ASSUME V2IInv, NEW c \in Conns, NEW i \in Paths, Transferring(c, i),
           NEW j \in Chunks(transfer.hash), NEW id, ChunkCommit(c, i, j, id)
    PROVE  V2IInv'
<1> DEFINE t == transfer
           u == [t EXCEPT !.stored[j] = t.received.data, !.missing = @ \ {j},
                          !.pending = 0, !.received = NoFile]
<1>1. t # NoTransfer /\ GoodTransfer(t, session.push) /\ t \in TransferRecord
      /\ t.hash \in Versions /\ Size[t.hash] \in Nat
  BY TransferringFacts
<1>2. session.push = TRUE /\ t.received # NoFile /\ t.received.data = t.hashes[j]
  BY DEF ChunkCommit, Uploading, Publishes
<1>3. /\ transfer' = u /\ tree' = tree /\ rooted' = rooted
      /\ session' = [session EXCEPT !.idle = 0]
  BY TransferringFacts DEF ChunkCommit
<1>4. /\ u.file = t.file /\ u.hash = t.hash /\ u.served = t.served
      /\ u.pending = 0 /\ u.received = NoFile
      /\ u.pageStart = t.pageStart /\ u.nextPage = t.nextPage
      /\ u.missing = t.missing \ {j} /\ u.hashes = t.hashes
      /\ u.stored = [t.stored EXCEPT ![j] = t.hashes[j]]
  BY <1>1, <1>2 DEF TransferRecord
<1>5. u.stored \in [Chunks(t.hash) -> Content]
  BY <1>1, <1>4 DEF GoodTransfer
<1>6. u \in TransferRecord
  <2>1. u.stored \in UNION {[Chunks(v) -> Content] : v \in Versions}
    BY <1>1, <1>5
  <2> QED
    BY <1>1, <1>4, <2>1 DEF TransferRecord
<1> HIDE DEF u
<1>7. \A x \in 1 .. u.nextPage \ u.missing : u.stored[x] \in {u.hashes[x], 0}
  <2> TAKE x \in 1 .. u.nextPage \ u.missing
  <2>1. x \in Chunks(t.hash) /\ DOMAIN t.stored = Chunks(t.hash)
    BY <1>1, <1>4 DEF GoodTransfer, TransferRecord, Chunks
  <2>2. CASE x = j
    BY <1>4, <2>1, <2>2
  <2>3. CASE x # j
    BY <1>1, <1>2, <1>4, <2>1, <2>3 DEF GoodTransfer
  <2> QED
    BY <2>2, <2>3
<1>8. GoodTransfer(u, session.push)
  BY <1>1, <1>2, <1>4, <1>5, <1>6, <1>7 DEF GoodTransfer, Fetched
<1> QED
  BY <1>1, <1>3, <1>4, <1>8, TransferMoves

\* A Resource is kept for the chunk that is pending.
LEMMA ReceiveChunkInv ==
    ASSUME V2IInv, NEW c \in Conns, NEW f \in Resource, ReceiveChunk(c, f)
    PROVE  V2IInv'
<1> DEFINE t == transfer
           u == [t EXCEPT !.received = f]
<1>1. t # NoTransfer /\ session.push = TRUE /\ t.pending # 0 /\ ~f.meta /\ transfer' = u
  BY DEF ReceiveChunk, AcceptsChunk
<1>2. GoodTransfer(t, session.push) /\ t \in TransferRecord
  BY <1>1 DEF V2IInv, TransferIsGood, GoodTransfer
<1>3. /\ u.file = t.file /\ u.hash = t.hash /\ u.stored = t.stored /\ u.served = t.served
      /\ u.pending = t.pending /\ u.received = f
      /\ u.pageStart = t.pageStart /\ u.nextPage = t.nextPage
      /\ u.missing = t.missing /\ u.hashes = t.hashes /\ u \in TransferRecord
  BY <1>2 DEF TransferRecord
<1> HIDE DEF u
<1>4. GoodTransfer(u, session.push)
  BY <1>1, <1>2, <1>3 DEF GoodTransfer, Fetched
<1> QED
  BY <1>1, <1>3, <1>4, TransferMoves DEF ReceiveChunk, vars

\* A chunk file that is lost or damaged counts as absent.
LEMMA DamageStoredInv ==
    ASSUME V2IInv, NEW j, DamageStored(j)
    PROVE  V2IInv'
<1> DEFINE t == transfer
           u == [t EXCEPT !.stored[j] = 0]
<1>1. t # NoTransfer /\ j \in Chunks(t.hash) /\ transfer' = u
  BY DEF DamageStored
<1>2. GoodTransfer(t, session.push) /\ t \in TransferRecord
  BY <1>1 DEF V2IInv, TransferIsGood, GoodTransfer
<1>3. /\ u.file = t.file /\ u.hash = t.hash /\ u.served = t.served
      /\ u.pending = t.pending /\ u.received = t.received
      /\ u.pageStart = t.pageStart /\ u.nextPage = t.nextPage
      /\ u.missing = t.missing /\ u.hashes = t.hashes
      /\ u.stored = [t.stored EXCEPT ![j] = 0]
  BY <1>2 DEF TransferRecord
<1>4. u.stored \in [Chunks(t.hash) -> Content] /\ t.hash \in Versions
  BY <1>2, <1>3 DEF GoodTransfer, TransferRecord, Content
<1>5. u \in TransferRecord
  <2>1. u.stored \in UNION {[Chunks(v) -> Content] : v \in Versions}
    BY <1>4
  <2> QED
    BY <1>2, <1>3, <2>1 DEF TransferRecord
<1> HIDE DEF u
<1>6. session.push => \A x \in 1 .. u.nextPage \ u.missing : u.stored[x] \in {u.hashes[x], 0}
  <2> SUFFICES ASSUME session.push, NEW x \in 1 .. u.nextPage \ u.missing
               PROVE  u.stored[x] \in {u.hashes[x], 0}
    OBVIOUS
  <2>1. t.stored[x] \in {t.hashes[x], 0} /\ DOMAIN t.stored = Chunks(t.hash)
    BY <1>2, <1>3 DEF GoodTransfer
  <2> QED
    BY <1>3, <2>1
<1>7. GoodTransfer(u, session.push)
  BY <1>2, <1>3, <1>4, <1>5, <1>6 DEF GoodTransfer, Fetched
<1> QED
  BY <1>1, <1>3, <1>7, TransferMoves DEF DamageStored, vars

-----------------------------------------------------------------------------
(* Steps that complete a file.                                             *)

\* The session after an acknowledged FILE_COMMIT.
LEMMA InstalledSession ==
    ASSUME NEW s \in SessionRecord, NEW i \in Paths
    PROVE  LET u == [s EXCEPT !.prepared = TRUE, !.pending = NoPath, !.done = @ \cup {i}, !.idle = 0]
           IN  SameJob(u, s) /\ u.prepared = TRUE /\ u.pending = NoPath
               /\ u.done = s.done \cup {i} /\ u.stale = s.stale
<1> DEFINE a == [s EXCEPT !.prepared = TRUE]
           b == [a EXCEPT !.pending = NoPath, !.done = @ \cup {i}, !.idle = 0]
<1>1. SameJob(a, s) /\ a.prepared = TRUE /\ a.done = s.done /\ a.stale = s.stale
      /\ a \in SessionRecord
  BY SetPrepared DEF SameJob
<1>2. [s EXCEPT !.prepared = TRUE, !.pending = NoPath, !.done = @ \cup {i}, !.idle = 0] = b
  BY DEF SessionRecord
<1> HIDE DEF a
<1>3. SameJob(b, a) /\ b.prepared = a.prepared /\ b.pending = NoPath
      /\ b.done = a.done \cup {i} /\ b.stale = a.stale
  BY <1>1, VerifiedSession
<1> HIDE DEF b
<1> QED
  BY <1>1, <1>2, <1>3 DEF SameJob

\* A file completed leaves neither a pending file nor a transfer.
LEMMA CompletedInv ==
    ASSUME V2IInv, session \in SessionRecord, Active, NEW i \in Paths,
           TypeOK', ExportAccounted',
           SameJob(session', session),
           session'.pending = NoPath, session'.done = session.done \cup {i},
           i \in FilesOf(session), session.push => session'.prepared,
           transfer' = NoTransfer
    PROVE  V2IInv'
<1>1. FilesOf(session') = FilesOf(session)
  BY SamePlan
<1>2. V2Progress' /\ PushIsFull'
  BY <1>1 DEF V2IInv, V2Progress, PushIsFull, SameJob
<1>3. TransferIsPending' /\ TransferIsGood'
  BY DEF TransferIsPending, TransferIsGood
<1> QED
  BY <1>2, <1>3 DEF V2IInv

\* The file of a transfer is a planned one that is not done.
LEMMA TransferFile ==
    ASSUME V2IInv, NEW c, NEW i, Transferring(c, i)
    PROVE  /\ session \in SessionRecord /\ Active /\ Owns(c) /\ ~session.options.dryRun
           /\ i = transfer.file /\ i \in FilesOf(session) \ session.done
           /\ i \in Paths /\ i \notin PlanDirs(session.source)
           /\ session.source[i].kind = "file" /\ session.source[i].ver \in Versions
<1>1. MayTransfer(c) /\ transfer # NoTransfer /\ transfer.file = i
  BY DEF Transferring
<1>2. session \in SessionRecord /\ Active /\ Owns(c) /\ ~session.options.dryRun
  BY <1>1, TransferSession DEF V2IInv
<1>3. i \in FilesOf(session) \ session.done
  BY <1>1 DEF V2IInv, TransferIsPending
<1> QED
  BY <1>1, <1>2, <1>3, PlannedFile, PlannedNotDir

\* FILE_VERIFIED completes a download.
LEMMA FileVerifiedInv ==
    ASSUME V2IInv, NEW c \in Conns, NEW i \in Paths, FileVerified(c, i)
    PROVE  V2IInv'
<1>1. /\ session \in SessionRecord /\ Active
      /\ i \in FilesOf(session) \ session.done
  BY TransferFile DEF FileVerified, Downloading
<1>2. /\ session' = [session EXCEPT !.pending = NoPath, !.done = @ \cup {i}, !.idle = 0]
      /\ tree' = tree /\ rooted' = rooted /\ ~session.push /\ transfer' = NoTransfer
  BY DEF FileVerified, Downloading
<1>3. /\ SameJob(session', session) /\ session'.pending = NoPath
      /\ session'.done = session.done \cup {i} /\ session'.stale = session.stale
  BY <1>1, <1>2, VerifiedSession
<1>4. TypeOK'
  BY <1>2, <1>3 DEF V2IInv, TypeOK, SameJob
<1>5. ExportAccounted'
  BY <1>1, <1>2, <1>3 DEF V2IInv, ExportAccounted, Expected, SameJob
<1> QED
  BY <1>1, <1>2, <1>3, <1>4, <1>5, CompletedInv

\* The bytes FILE_COMMIT installs are a version, the described one when the
\* file assembled.
LEMMA AssembledBytes ==
    ASSUME V2IInv, NEW c, NEW i, Transferring(c, i), Assembles(transfer)
    PROVE  /\ BytesOf(transfer) = transfer.hash /\ transfer.hash \in Versions
           /\ InstalledFile(session, transfer) = File(session.source[i].ver, transfer.hash)
           /\ InstalledFile(session, transfer) \in Entries
<1>1. BytesOf(transfer) = transfer.hash
  BY DEF Assembles, BytesOf
<1>2. transfer.hash \in Versions
  BY TransferringFacts
<1> QED
  BY <1>1, <1>2, TransferFile, EntryTypes DEF InstalledFile

\* FILE_COMMIT preserves types.
LEMMA FileCommitType ==
    ASSUME V2IInv, NEW c \in Conns, NEW i \in Paths, NEW r, FileCommit(c, i, r)
    PROVE  TypeOK'
<1>1. Transferring(c, i) /\ Assembles(transfer)
  BY DEF FileCommit, CanCommitFile, Uploading
<1>2. /\ session \in SessionRecord /\ i \in Paths
      /\ session.source[i].ver \in Versions /\ TypeOK
  BY <1>1, TransferFile DEF V2IInv
<1>3. PreparedTree \in Trees
  BY <1>2, PreparedTreeType
<1>4. CASE /\ tree' = Put(PreparedTree, {i}, InstalledFile(session, transfer))
           /\ rooted' = (rooted \/ ~session.prepared)
           /\ session' = [session EXCEPT !.prepared = TRUE, !.pending = NoPath,
                                         !.done = @ \cup {i}, !.idle = 0]
  <2>1. tree' \in Trees
    BY <1>1, <1>3, <1>4, AssembledBytes, PutType
  <2>2. session' \in SessionRecord
    BY <1>2, <1>4, InstalledSession DEF SameJob
  <2>3. rooted' \in BOOLEAN
    BY <1>4
  <2> QED
    BY <2>1, <2>2, <2>3 DEF TypeOK
<1>5. CASE /\ tree' \in InstallPartial(PreparedTree, session.source, session.destination,
                                       i, BytesOf(transfer))
           /\ rooted' = (rooted \/ ~session.prepared) /\ Abort(c)
  <2>1. tree' \in Trees
    BY <1>1, <1>2, <1>3, <1>5, AssembledBytes, InstallPartialType
  <2>2. rooted' \in BOOLEAN
    BY <1>5
  <2> QED
    BY <1>2, <1>5, <2>1, <2>2, AbortType DEF TypeOK
<1>6. CASE PrepareFails /\ Abort(c)
  BY <1>2, <1>6, PrepareFailsType, AbortType DEF TypeOK
<1> QED
  BY <1>4, <1>5, <1>6 DEF FileCommit

\* FILE_COMMIT makes the directories with the first file, puts the file in
\* place and records it, at once; or ends the session.
LEMMA FileCommitInv ==
    ASSUME V2IInv, NEW c \in Conns, NEW i \in Paths, NEW r, FileCommit(c, i, r)
    PROVE  V2IInv'
<1>0. TypeOK' /\ transfer' = NoTransfer
  BY FileCommitType DEF FileCommit
<1>1. Transferring(c, i) /\ Assembles(transfer) /\ session.push
  BY DEF FileCommit, CanCommitFile, Uploading
<1>2. /\ session \in SessionRecord /\ Active /\ Owns(c)
      /\ i \in FilesOf(session) \ session.done
      /\ i \notin PlanDirs(session.source) /\ session.source[i].kind = "file"
  BY <1>1, TransferFile
<1>3. CASE Abort(c)
  BY <1>0, <1>2, <1>3, EndInv DEF Abort
<1>4. CASE /\ tree' = Put(PreparedTree, {i}, InstalledFile(session, transfer))
           /\ session' = [session EXCEPT !.prepared = TRUE, !.pending = NoPath,
                                         !.done = @ \cup {i}, !.idle = 0]
  <2>1. /\ SameJob(session', session) /\ session'.prepared = TRUE /\ session'.pending = NoPath
        /\ session'.done = session.done \cup {i} /\ session'.stale = session.stale
    BY <1>2, <1>4, InstalledSession
  <2>2. ASSUME NEW p \in Paths \ session.stale
        PROVE  Alike(tree'[p], Expected(session', p))
    <3>1. Alike(tree[p], Expected(session, p))
      BY <1>2 DEF V2IInv, ExportAccounted
    <3>2. CASE p = i
      <4>1. tree'[p] = File(session.source[i].ver, transfer.hash)
        BY <1>1, <1>4, <3>2, AssembledBytes DEF Put
      <4>2. Expected(session', p) = session.source[i]
        BY <2>1, <3>2 DEF Expected, SameJob
      <4> QED
        BY <1>2, <4>1, <4>2 DEF Alike, File
    <3>3. CASE p # i
      <4>1. tree'[p] = PreparedTree[p] /\ (p \in session'.done <=> p \in session.done)
        BY <1>4, <2>1, <3>3 DEF Put
      <4>2. CASE session.prepared
        BY <1>1, <2>1, <3>1, <4>1, <4>2 DEF PreparedTree, Expected, SameJob
      <4>3. CASE ~session.prepared
        <5>1. session.done = {}
          BY <1>1, <1>2, <4>3 DEF V2IInv, V2Progress
        <5>2. PreparedTree[p] = IF p \in PlanDirs(session.source) THEN Dir ELSE tree[p]
          BY <4>3 DEF PreparedTree, Put
        <5> QED
          BY <1>1, <2>1, <3>1, <4>1, <4>3, <5>1, <5>2 DEF Expected, SameJob, Alike
      <4> QED
        BY <4>2, <4>3
    <3> QED
      BY <3>2, <3>3
  <2>3. ExportAccounted'
    BY <2>1, <2>2 DEF ExportAccounted
  <2> QED
    BY <1>0, <1>2, <2>1, <2>3, CompletedInv
<1> QED
  BY <1>3, <1>4 DEF FileCommit

-----------------------------------------------------------------------------
(* The invariant, of every step.                                           *)

\* Touches and ticks change the lease only.
LEMMA IdleInv ==
    ASSUME V2IInv, (\E c \in Conns : Touch(c)) \/ Tick, UNCHANGED transfer
    PROVE  V2IInv'
<1>1. session \in SessionRecord /\ Active /\ tree' = tree /\ rooted' = rooted
  BY ActiveSession DEF V2IInv, Touch, Tick, Owns
<1>2. PICK x \in 0 .. Lease + 1 : session' = [session EXCEPT !.idle = x]
  BY <1>1, LeaseAssumption DEF Touch, Tick, SessionRecord
<1>3. SameProgress(session', session) /\ session'.pending = session.pending
  BY <1>1, <1>2, SetIdle DEF SameProgress
<1>4. /\ TypeOK' /\ V2Progress' /\ PushIsFull' /\ ExportAccounted'
      /\ Active' /\ FilesOf(session') = FilesOf(session)
  BY <1>1, <1>3, SessionGoesOn
<1>5. TransferIsPending' /\ TransferIsGood'
  BY <1>1, <1>3, <1>4 DEF V2IInv, TransferIsPending, TransferIsGood, SameProgress, SameJob
<1> QED
  BY <1>4, <1>5 DEF V2IInv

\* An edit makes its path stale and changes no other.
LEMMA EditInv ==
    ASSUME V2IInv, NEW p \in Paths, NEW e \in EditEntries, Edit(p, e), UNCHANGED transfer
    PROVE  V2IInv'
<1>0. TypeOK'
  BY OtherActionsType DEF V2IInv
<1>1. CASE ~Active
  <2>1. transfer' = NoTransfer /\ session' = NoSession
    BY <1>1 DEF V2IInv, TransferIsPending, Edit, Active
  <2> QED
    BY <1>0, <2>1, EndInv
<1>2. CASE Active
  <2>1. session \in SessionRecord /\ session.stale \cup {p} \in SUBSET Paths
    BY <1>2, ActiveSession DEF V2IInv, SessionRecord
  <2>2. /\ SameJob(session', session)
        /\ session'.prepared = session.prepared /\ session'.pending = session.pending
        /\ session'.done = session.done /\ session'.stale = session.stale \cup {p}
    BY <1>2, <2>1, SetStale DEF Edit
  <2>3. FilesOf(session') = FilesOf(session) /\ Active'
    BY <2>2, SamePlan, NoSessionAssumption DEF SameJob, Active
  <2>4. V2Progress' /\ PushIsFull'
    BY <1>2, <2>2, <2>3 DEF V2IInv, V2Progress, PushIsFull, SameJob
  <2>5. TransferIsPending' /\ TransferIsGood'
    BY <1>2, <2>2, <2>3 DEF V2IInv, TransferIsPending, TransferIsGood, SameJob
  <2>6. ASSUME NEW q \in Paths \ session'.stale
        PROVE  Alike(tree'[q], Expected(session', q))
    <3>1. tree'[q] = tree[q] /\ q \in Paths \ session.stale
      BY <2>2, <2>6 DEF Edit, Put
    <3> QED
      BY <1>2, <2>2, <3>1 DEF V2IInv, ExportAccounted, Expected, SameJob
  <2>7. ExportAccounted'
    BY <2>6 DEF ExportAccounted
  <2> QED
    BY <1>0, <2>4, <2>5, <2>7 DEF V2IInv
<1> QED
  BY <1>1, <1>2

\* A program that starts has neither a session nor a transfer.
LEMMA V2InitInv == V2Init => V2IInv
BY InitInv DEF V2Init, Init, V2IInv, ServerInvariant, V2Progress, PushIsFull, ExportAccounted,
               TransferIsPending, TransferIsGood, Active

\* The requests about one file.
LEMMA FileRequestInv ==
    ASSUME V2IInv, NEW c \in Conns, NEW i \in Paths, FileRequest(c, i)
    PROVE  V2IInv'
<1>1. CASE Transferring(c, i) /\ ChunkRequest(c, i)
  BY <1>1, ChunkPendingInv, ChunkVerifiedInv, ChunkCommitInv DEF ChunkRequest
<1>2. CASE /\ Transferring(c, i)
           /\ \/ \E h \in PageHashes(transfer.hash), a \in 0 .. Size[transfer.hash] :
                    Hashes(c, i, a, h)
              \/ \E a \in 0 .. Size[transfer.hash] : HashesGet(c, i, a)
  BY <1>2, HashesInv, HashesGetInv
<1>3. CASE \/ \E d \in Versions : \E stored \in AnyStored(d) : Description(c, i, d, stored)
           \/ Describe(c, i)
  BY <1>3, DescribedInv
<1> QED
  BY <1>1, <1>2, <1>3, FileCommitInv, FileVerifiedInv DEF FileRequest

\* Every step preserves the invariant.
LEMMA V2NextInv ==
    ASSUME V2IInv, [V2Next]_v2vars
    PROVE  V2IInv'
<1>1. ASSUME NEW c \in Conns, V2Handle(c)
      PROVE  V2IInv'
  <2>1. Jobs \subseteq AnyJob
    BY TreesAssumption DEF AnyJob
  <2> QED
    BY <1>1, <2>1, V2StartInv, FileRequestInv, V2FinishInv, FailsInv DEF V2Handle, Fails
<1>2. ASSUME NEW c \in Conns, V2Disconnect(c)
      PROVE  V2IInv'
  <2>1. TypeOK'
    BY <1>2, OtherActionsType DEF V2IInv, V2Disconnect
  <2> QED
    BY <1>2, <2>1, EndInv DEF V2Disconnect, Disconnect
<1>3. ASSUME V2Expire
      PROVE  V2IInv'
  <2>1. TypeOK'
    BY <1>3, OtherActionsType DEF V2IInv, V2Expire
  <2> QED
    BY <1>3, <2>1, EndInv DEF V2Expire, Expire
<1>4. CASE \E c \in Conns, f \in Resource : ReceiveChunk(c, f)
  BY <1>4, ReceiveChunkInv
<1>5. CASE \E d \in Versions : \E j \in Chunks(d) : DamageStored(j)
  BY <1>5, DamageStoredInv
<1>6. CASE \E p \in Paths, e \in EditEntries : Edit(p, e) /\ UNCHANGED transfer
  BY <1>6, EditInv
<1> QED
  BY <1>1, <1>2, <1>3, <1>4, <1>5, <1>6, IdleInv, V2StutterInv DEF V2Next

\* For every instance: the inductive invariant of the version-2 engine, the
\* transfer and the version-1 session around it (v2.rs:44-56) in step.
THEOREM V2Invariance == V2Spec => []V2IInv
<1>1. V2IInv /\ [V2Next]_v2vars => V2IInv'
  BY V2NextInv
<1> QED
  BY V2InitInv, <1>1, PTL DEF V2Spec

\* The inductive invariant gives the one the run checks.
LEMMA IInvGivesInvariant == V2IInv => V2Invariant
<1> SUFFICES ASSUME V2IInv PROVE V2Invariant
  OBVIOUS
<1>1. V2TypeOK
  BY DEF V2IInv, V2TypeOK, TransferIsGood, GoodTransfer
<1>2. PagesInOrder
  <2> SUFFICES ASSUME transfer # NoTransfer PROVE PagesInOrder
    BY DEF PagesInOrder
  <2>1. GoodTransfer(transfer, session.push)
    BY DEF V2IInv, TransferIsGood
  <2> QED
    BY <2>1 DEF GoodTransfer, PagesInOrder
<1> QED
  BY <1>1, <1>2 DEF V2IInv, V2Invariant

\* For every instance, V2Invariant, the run's property: the engine keeps its
\* transfer in step with the version-1 session, its pages in order, and every
\* path nobody edited as scanned or as the session made it.
THEOREM V2AlwaysInvariant == V2Spec => []V2Invariant
BY V2Invariance, IInvGivesInvariant, PTL

-----------------------------------------------------------------------------
(* What the handlers write.                                                *)

\* FILE_COMMIT, acknowledged or not, changes only what the plan allows, and
\* puts no file but the described one.
LEMMA FileCommitIsPlanned ==
    ASSUME V2IInv, NEW c \in Conns, NEW i \in Paths, NEW r, FileCommit(c, i, r),
           NEW p \in Changed
    PROVE  /\ PlannedChange(p)
           /\ \/ tree'[p] \in {None, Dir}
              \/ p = i /\ tree'[p] = File(session.source[i].ver, transfer.hash)
<1>1. Transferring(c, i) /\ Assembles(transfer)
  BY DEF FileCommit, CanCommitFile, Uploading
<1>2. /\ session \in SessionRecord /\ i \in FilesOf(session)
      /\ i \notin PlanDirs(session.source) /\ TypeOK
  BY <1>1, TransferFile DEF V2IInv
<1>3. p \in Paths /\ tree'[p] # tree[p]
  BY DEF Changed
<1>4. CASE PrepareFails
  BY <1>2, <1>4, PrepareFailsChanges
<1>5. CASE /\ session.prepared \/ CanPrepare
           /\ \E e : /\ tree' = Put(PreparedTree, {i}, e)
                     /\ e = None \/ e = File(session.source[i].ver, transfer.hash)
           /\ Installable(PreparedTree[i], session.destination[i])
  <2>1. PreparedTree[i] = tree[i]
    BY <1>2 DEF PreparedTree, Put, TypeOK, Trees, FilesOf, PlanFiles
  <2> PICK e : /\ tree' = Put(PreparedTree, {i}, e)
               /\ e = None \/ e = File(session.source[i].ver, transfer.hash)
    BY <1>5
  <2>2. CASE p = i
    <3>1. tree'[p] = e
      BY <1>3, <2>2 DEF Put
    <3> QED
      BY <1>2, <1>5, <2>1, <2>2, <3>1 DEF PlannedChange
  <2>3. CASE p # i
    <3>1. tree'[p] = PreparedTree[p]
      BY <1>3, <2>3 DEF Put
    <3> QED
      BY <1>2, <1>3, <1>5, <3>1, PreparedChanges DEF PlannedChange
  <2> QED
    BY <2>2, <2>3
<1>6. CASE (session.prepared \/ CanPrepare) /\ tree' = PreparedTree
  BY <1>2, <1>3, <1>6, PreparedChanges DEF PlannedChange
<1> QED
  BY <1>1, <1>4, <1>5, <1>6, AssembledBytes DEF FileCommit, InstallPartial, InstalledFile

\* What changes the export while the session goes on or ends by itself is
\* FILE_COMMIT or FINISH, as planned.
LEMMA V2WritesArePlanned ==
    ASSUME V2IInv, V2Next, ServerWrites
    PROVE  /\ session.push /\ ~session.options.dryRun
           /\ \A p \in Changed :
                 /\ PlannedChange(p)
                 /\ \/ tree'[p] \in {None, Dir}
                    \/ /\ transfer # NoTransfer /\ p = transfer.file
                       /\ tree'[p] = File(session.source[p].ver, transfer.hash)
<1>0. TypeOK /\ Active /\ tree' # tree
  BY DEF V2IInv, ServerWrites
<1>1. ASSUME NEW p \in Paths, NEW e \in EditEntries, Edit(p, e)
      PROVE  FALSE
  BY <1>0, <1>1, EditIsNoWrite
<1>2. ASSUME NEW c \in Conns, NEW r, V2Finish(c, r)
      PROVE  /\ session.push /\ ~session.options.dryRun
             /\ \A p \in Changed : PlannedChange(p) /\ tree'[p] \in {None, Dir}
  BY <1>0, <1>2, FinishIsPlanned DEF V2Finish
<1>3. ASSUME NEW c \in Conns, NEW i \in Paths, NEW r, FileCommit(c, i, r)
      PROVE  /\ session.push /\ ~session.options.dryRun
             /\ \A p \in Changed :
                   /\ PlannedChange(p)
                   /\ \/ tree'[p] \in {None, Dir}
                      \/ /\ transfer # NoTransfer /\ p = transfer.file
                         /\ tree'[p] = File(session.source[p].ver, transfer.hash)
  <2>1. Transferring(c, i) /\ session.push
    BY <1>3 DEF FileCommit, CanCommitFile, Uploading
  <2>2. ~session.options.dryRun /\ i = transfer.file /\ transfer # NoTransfer
    BY <2>1, TransferFile DEF Transferring
  <2> QED
    BY <1>3, <2>1, <2>2, FileCommitIsPlanned
<1>4. ASSUME NEW c \in Conns, NEW i \in Paths, FileRequest(c, i)
      PROVE  \E r : FileCommit(c, i, r)
  <2>1. \A t : ~Quiet(t)
    BY <1>0 DEF Quiet
  <2>2. ~ChunkRequest(c, i)
    BY <2>1 DEF ChunkRequest, ChunkBegin, ChunkGet, ChunkVerified, ChunkCommit
  <2>3. \A h, a : ~Hashes(c, i, a, h) /\ ~HashesGet(c, i, a)
    BY <2>1 DEF Hashes, HashesGet
  <2>4. \A d, stored : ~Description(c, i, d, stored)
    BY <1>0 DEF Description
  <2>5. ~Describe(c, i) /\ ~FileVerified(c, i)
    BY <1>0 DEF Describe, FileVerified
  <2> QED
    BY <1>4, <2>2, <2>3, <2>4, <2>5 DEF FileRequest
<1>5. ASSUME NEW c \in Conns, V2Handle(c)
      PROVE  (\E r : V2Finish(c, r)) \/ \E i \in Paths : \E r : FileCommit(c, i, r)
  BY <1>0, <1>4, <1>5 DEF V2Handle, V2Start, Start, Fails, Refuse
<1>6. \E c \in Conns : V2Handle(c)
  BY <1>0, <1>1 DEF V2Next, ReceiveChunk, vars, V2Disconnect, Disconnect, Touch, Tick, V2Expire,
              Expire, DamageStored
<1> QED
  BY <1>2, <1>3, <1>5, <1>6

\* For every instance: bytes get into the export only as the described file,
\* and with --checksum only as the manifest's.
THEOREM DescribedIsInstalled == V2Spec => InstalledIsDescribed
<1>1. V2IInv /\ [V2Next]_v2vars =>
        [ServerWrites => \A p \in Changed : tree'[p].kind = "file" =>
          /\ transfer # NoTransfer /\ p = transfer.file
          /\ tree'[p].data = transfer.hash
          /\ session.options.checksum => tree'[p] = session.source[p]]_v2vars
  <2> SUFFICES ASSUME V2IInv, V2Next, ServerWrites,
                      NEW p \in Changed, tree'[p].kind = "file"
               PROVE  /\ transfer # NoTransfer /\ p = transfer.file
                      /\ tree'[p].data = transfer.hash
                      /\ session.options.checksum => tree'[p] = session.source[p]
    BY DEF ServerWrites, v2vars
  <2>1. /\ transfer # NoTransfer /\ p = transfer.file /\ session.push
        /\ tree'[p] = File(session.source[p].ver, transfer.hash)
    BY V2WritesArePlanned DEF None, Dir
  <2>2. session.options.checksum => transfer.hash = session.source[p].data
    BY <2>1 DEF V2IInv, TransferIsGood, ValidDescription
  <2>3. session.source[p] \in Entries /\ session.source[p].kind = "file"
    <3>1. session \in SessionRecord /\ p \in FilesOf(session)
      BY <2>1, ActiveSession DEF V2IInv, TransferIsPending
    <3> QED
      BY <3>1, PlannedFile DEF SessionRecord, Trees
  <2>4. session.source[p] = File(session.source[p].ver, session.source[p].data)
    BY <2>3 DEF Entries, None, Dir, File
  <2> QED
    BY <2>1, <2>2, <2>4 DEF File
<1> QED
  BY <1>1, V2Invariance, PTL DEF V2Spec, InstalledIsDescribed

\* A step that keeps the session keeps what is done, unless it completes the
\* file of the transfer.
LEMMA WhatIsDone ==
    ASSUME V2IInv, V2Next, Active, session' # session, session' # NoSession,
           session'.done # session.done
    PROVE  \E c \in Conns, i \in Paths : FileVerified(c, i) \/ FileCommit(c, i, "ok")
<1>1. session \in SessionRecord
  BY ActiveSession DEF V2IInv
<1>2. ASSUME NEW c \in Conns, V2Handle(c)
      PROVE  \E i \in Paths : FileVerified(c, i) \/ FileCommit(c, i, "ok")
  <2>1. ASSUME NEW i \in Paths, FileRequest(c, i)
        PROVE  FileVerified(c, i) \/ FileCommit(c, i, "ok")
    <3>1. CASE session' = [session EXCEPT !.pending = i, !.idle = 0]
      BY <1>1, <3>1, GottenSession
    <3>2. CASE session' = [session EXCEPT !.idle = 0]
      BY <1>1, <3>2, SetIdle, LeaseAssumption
    <3>3. ASSUME NEW r \in Replies, FileCommit(c, i, r)
          PROVE  FileCommit(c, i, "ok")
      BY <3>3 DEF FileCommit, Abort
    <3> QED
      BY <2>1, <3>1, <3>2, <3>3
         DEF FileRequest, Description, Describe, ChunkRequest, Hashes, HashesGet, ChunkBegin,
             ChunkGet, ChunkVerified, ChunkCommit, Quiet, Active2
  <2>2. \A r : ~Refuse(c, r)
    BY DEF Refuse, Abort
  <2>3. ASSUME NEW job \in Jobs, NEW r, V2Start(c, job, r)
        PROVE  FALSE
    BY <2>2, <2>3 DEF V2Start, Start, Abort
  <2>4. ASSUME NEW r, V2Finish(c, r)
        PROVE  FALSE
    BY <2>2, <2>4 DEF V2Finish, Finish, Abort
  <2> QED
    BY <1>2, <2>1, <2>2, <2>3, <2>4 DEF V2Handle, Fails
<1>3. ASSUME NEW x \in 0 .. Lease + 1, session' = [session EXCEPT !.idle = x]
      PROVE  FALSE
  BY <1>1, <1>3, SetIdle
<1>4. ASSUME (\E c \in Conns : Touch(c)) \/ Tick
      PROVE  FALSE
  <2>1. \E x \in 0 .. Lease + 1 : session' = [session EXCEPT !.idle = x]
    BY <1>1, <1>4, LeaseAssumption DEF Touch, Tick, SessionRecord
  <2> QED
    BY <1>3, <2>1
<1>5. ASSUME NEW p \in Paths, NEW e \in EditEntries, Edit(p, e)
      PROVE  FALSE
  <2>1. session.stale \cup {p} \in SUBSET Paths
    BY <1>1 DEF SessionRecord
  <2> QED
    BY <1>1, <1>5, <2>1, SetStale DEF Edit
<1> QED
  BY <1>2, <1>4, <1>5 DEF V2Next, ReceiveChunk, vars, V2Disconnect, Disconnect, V2Expire,
                          Expire, DamageStored

\* For every instance: a file counts as done only after its last page, with
\* no chunk on its way, and an uploaded one with every chunk stored.
THEOREM CompleteIsDone == V2Spec => CompleteBeforeDone
<1>1. V2IInv /\ [V2Next]_v2vars =>
        [Active /\ session' # session /\ session' # NoSession /\ session'.done # session.done =>
          /\ transfer # NoTransfer /\ session'.done = session.done \cup {transfer.file}
          /\ transfer.pending = 0 /\ transfer.nextPage = Size[transfer.hash]
          /\ session.push => \A j \in Chunks(transfer.hash) : transfer.stored[j] = transfer.hash
        ]_v2vars
  <2> SUFFICES ASSUME V2IInv, V2Next, Active, session' # session, session' # NoSession,
                      session'.done # session.done
               PROVE  /\ transfer # NoTransfer
                      /\ session'.done = session.done \cup {transfer.file}
                      /\ transfer.pending = 0 /\ transfer.nextPage = Size[transfer.hash]
                      /\ session.push =>
                            \A j \in Chunks(transfer.hash) : transfer.stored[j] = transfer.hash
    BY DEF v2vars
  <2>1. PICK c \in Conns, i \in Paths : FileVerified(c, i) \/ FileCommit(c, i, "ok")
    BY WhatIsDone
  <2>2. Transferring(c, i) /\ transfer # NoTransfer /\ i = transfer.file
    BY <2>1 DEF FileVerified, Downloading, FileCommit, CanCommitFile, Uploading, Transferring
  <2>3. session \in SessionRecord
    BY <2>2, TransferFile
  <2>4. CASE FileVerified(c, i)
    <3>1. session' = [session EXCEPT !.pending = NoPath, !.done = @ \cup {i}, !.idle = 0]
          /\ transfer.pending = 0 /\ transfer.nextPage = Size[transfer.hash] /\ ~session.push
      BY <2>4 DEF FileVerified, Downloading
    <3> QED
      BY <2>2, <2>3, <3>1, VerifiedSession
  <2>5. CASE FileCommit(c, i, "ok")
    <3>1. session' = [session EXCEPT !.prepared = TRUE, !.pending = NoPath,
                                     !.done = @ \cup {i}, !.idle = 0]
          /\ transfer.pending = 0 /\ transfer.nextPage = Size[transfer.hash]
          /\ Assembles(transfer)
      BY <2>5 DEF FileCommit, CanCommitFile
    <3>2. session'.done = session.done \cup {i}
      BY <2>3, <3>1, InstalledSession
    <3>3. \A j \in Chunks(transfer.hash) : transfer.stored[j] = transfer.hash
      BY <3>1 DEF Assembles
    <3> QED
      BY <2>2, <3>1, <3>2, <3>3
  <2> QED
    BY <2>1, <2>4, <2>5
<1> QED
  BY <1>1, V2Invariance, PTL DEF V2Spec, CompleteBeforeDone

\* For every instance, KeepsServerPromises: though FILE_COMMIT replaces the
\* COMMIT of version 1, no edit is overwritten, extras go last, and an
\* acknowledged FINISH of a push means a synchronized export.
THEOREM PromisesAreKept == V2Spec => KeepsServerPromises
<1>1. ASSUME V2IInv, [V2Next]_v2vars, ServerWrites, vars' # vars
      PROVE  \A p \in Changed :
                /\ tree[p].kind # "none" => CheckEntry(tree[p], session.destination[p])
                /\ session.source[p].kind = "none" =>
                      /\ session.options.delete
                      /\ FilesOf(session) \subseteq session.done
                      /\ \A q \in Paths \ session.stale :
                            session.source[q].kind = "file" => Alike(tree[q], session.source[q])
  <2>1. V2Next
    BY <1>1 DEF v2vars, vars
  <2>2. session.push /\ \A p \in Changed : PlannedChange(p)
    BY <1>1, <2>1, V2WritesArePlanned
  <2>3. Active /\ session.done \subseteq FilesOf(session) /\ ExportAccounted /\ TypeOK
    BY <1>1 DEF V2IInv, V2Progress, ServerWrites
  <2> QED
    BY <2>2, <2>3, PlannedIsChecked, PlannedExtra
<1>2. ASSUME V2IInv, NEW c \in Conns, Owns(c), session.push, ~session.options.dryRun,
             Finish(c, "ok"), NEW p \in Paths \ session.stale
      PROVE  IF session.source[p].kind # "none" \/ session.options.delete
               THEN Alike(tree'[p], session.source[p])
               ELSE Alike(tree'[p], session.destination[p])
  <2>1. session.done \subseteq FilesOf(session) /\ ExportAccounted /\ TypeOK
    BY <1>2 DEF V2IInv, V2Progress, Owns
  <2> QED
    BY <1>2, <2>1, FinishedPath
<1>3. V2IInv /\ [V2Next]_v2vars =>
        [ServerWrites => \A p \in Changed :
            tree[p].kind # "none" => CheckEntry(tree[p], session.destination[p])]_vars
  BY <1>1
<1>4. V2IInv /\ [V2Next]_v2vars =>
        [ServerWrites => \A p \in Changed : session.source[p].kind = "none" =>
            /\ session.options.delete
            /\ FilesOf(session) \subseteq session.done
            /\ \A q \in Paths \ session.stale :
                  session.source[q].kind = "file" => Alike(tree[q], session.source[q])]_vars
  BY <1>1
<1>5. V2IInv =>
        [\A c \in Conns :
            Owns(c) /\ session.push /\ ~session.options.dryRun /\ Finish(c, "ok") =>
                \A p \in Paths \ session.stale :
                    IF session.source[p].kind # "none" \/ session.options.delete
                      THEN Alike(tree'[p], session.source[p])
                      ELSE Alike(tree'[p], session.destination[p])]_vars
  BY <1>2
<1> QED
  BY <1>3, <1>4, <1>5, V2Invariance, PTL
     DEF V2Spec, KeepsServerPromises, NoLostUpdate, ExtrasGoLast, FinishMeansSynchronized

\* For every instance: also with chunks, only a push session of an identity
\* with full permission writes, and never a dry run.
THEOREM V2OnlyFullPushWrites == V2Spec => OnlyFullPushWrites
<1>1. V2IInv /\ [V2Next]_v2vars =>
        [ServerWrites =>
          /\ Permission[session.conn] = "full"
          /\ session.push /\ ~session.options.dryRun]_vars
  <2> SUFFICES ASSUME V2IInv, [V2Next]_v2vars, vars' # vars, ServerWrites
               PROVE  /\ Permission[session.conn] = "full"
                      /\ session.push /\ ~session.options.dryRun
    OBVIOUS
  <2>1. V2Next
    BY DEF v2vars, vars
  <2>2. session.push /\ ~session.options.dryRun
    BY <2>1, V2WritesArePlanned
  <2> QED
    BY <2>2 DEF V2IInv, PushIsFull, ServerWrites
<1> QED
  BY <1>1, V2Invariance, PTL DEF V2Spec, OnlyFullPushWrites
=============================================================================
