-------------------------- MODULE ChunkStoreProofs --------------------------
(***************************************************************************)
(* Proofs about the chunk store, for every set of processes and transfers, *)
(* every limit and every number of kills and damages.                      *)
(***************************************************************************)
EXTENDS ChunkStore, FiniteSetTheorems, WellFoundedInduction, TLAPS

Sweeping == {"evict", "unlock", "rmdir"}

\* Who has limits holds cache.lock exclusively.
Exclusive ==
    \A p \in Procs \ Unrestricted, q \in Procs :
        proc[p].at # "idle" /\ q # p => proc[q].at = "idle"

\* What a process may count on where it stands.
Consistent(p) ==
    LET r == proc[p]  k == r.key  v == r.victim IN
    /\ r.at # "idle" => k \in Keys
    /\ r.at \in Owning \cup {"record"} => lock[k] = p
    /\ r.at \in Owning \cup {"record", "lock"} => disk[k] # None
    /\ r.at \in Sweeping \cup {"expire"} =>
          p \notin Unrestricted /\ r.todo \subseteq Directories \ {k}
    /\ v # None <=> r.at \in Sweeping
    /\ r.at \in Sweeping =>
          v # k /\ v \notin r.todo /\ disk[v] # None /\ used[v] + Retention <= r.now
    /\ r.at \in {"unlock", "rmdir"} => Emptied(v)
    /\ r.at \in Owning => r.wanted \subseteq ChunksOf[k] /\ disk[k].activity \in {None, r.last}
    /\ r.at = "stage" =>
          r.chunk \in ChunksOf[k] /\ r.staged <= ChunkLen /\ r.staged <= disk[k].litter
    /\ r.at # "stage" => r.staged = 0

\* A record on the disk tells when the transfer was last used.
Dated == \A k \in Directories : disk[k].activity \in {None, used[k]}

\* The inductive invariant.
IInv == StoreTypeOK /\ Exclusive /\ (\A p \in Procs : Consistent(p)) /\ Dated

-----------------------------------------------------------------------------
USE ChunkStoreActors, ChunkStoreNumbers, ChunkStoreNone

(* What a step of one process leaves the others.                           *)

\* A process that is alone disturbs nobody.
LEMMA AloneKeeps ==
    ASSUME IInv, NEW p \in Procs,
           \A q \in Procs \ {p} : proc'[q] = proc[q] /\ proc[q].at = "idle"
    PROVE  \A q \in Procs \ {p} : Consistent(q)'
BY DEF IInv, Consistent, Owning, Sweeping

\* Otherwise no process expires anything, and each relies on its own transfer:
\* it is undisturbed by a step that removes no directory and leaves alone
\* the transfers others have locked.
LEMMA OthersKeep ==
    ASSUME IInv, NEW p \in Procs,
           proc[p].at # "idle" \/ \A q \in Procs \ Unrestricted : proc[q].at = "idle",
           \A q \in Procs \ {p} : proc'[q] = proc[q],
           \A k \in Directories : disk'[k] # None,
           \A k \in Directories :
              lock[k] \in Procs \ {p} => lock'[k] = lock[k] /\ disk'[k] = disk[k]
    PROVE  \A q \in Procs \ {p} : Consistent(q)'
<1> SUFFICES ASSUME NEW q \in Procs, q # p PROVE Consistent(q)'
  OBVIOUS
<1>1. CASE proc[q].at = "idle"
  BY <1>1 DEF IInv, Consistent, Owning, Sweeping
<1>2. CASE proc[q].at # "idle"
  <2>1. q \in Unrestricted
    BY <1>2 DEF IInv, Exclusive
  <2>2. proc[q].at \notin Sweeping \cup {"expire"} /\ proc[q].key \in Keys
    BY <1>2, <2>1 DEF IInv, Consistent
  <2>3. proc[q].at \in Owning \cup {"record"} =>
            lock'[proc[q].key] = q /\ disk'[proc[q].key] = disk[proc[q].key]
    BY <2>2 DEF IInv, Consistent, Directories
  <2>4. proc[q].at = "lock" => disk'[proc[q].key] # None
    BY <2>2 DEF IInv, Consistent, Directories
  <2>5. proc'[q] = proc[q]
    OBVIOUS
  <2> QED
    BY <2>2, <2>3, <2>4, <2>5 DEF IInv, Consistent, Sweeping, Owning
<1> QED
  BY <1>1, <1>2

\* What a process knows of the transfer it writes to.
LEMMA TargetIsThere ==
    ASSUME IInv, NEW p \in Procs, proc[p].at \in Owning \cup {"evict"}
    PROVE  LET t == Target(p) IN
           /\ t \in Keys /\ disk[t] \in Directory(t) /\ disk[t] # None
           /\ disk[t].litter \in Nat /\ disk[t].chunk \in [ChunksOf[t] -> Content]
           /\ disk[t].activity \in Clock \cup {None}
           /\ proc[p].at # "evict" => t = proc[p].key /\ lock[t] = p
<1>1. Target(p) \in Keys /\ disk[Target(p)] # None
  BY DEF IInv, StoreTypeOK, Consistent, ProcRecord, Owning, Sweeping, Target
<1>2. disk[Target(p)] \in Directory(Target(p))
  BY <1>1 DEF IInv, StoreTypeOK
<1>3. proc[p].at # "evict" => Target(p) = proc[p].key /\ lock[Target(p)] = p
  BY DEF IInv, Consistent, Target
<1> QED
  BY <1>1, <1>2, <1>3 DEF Directory

\* A step that writes to the transfer a process has or evicts, in its chunks
\* or its temporary files, and keeps the record as it is.
Writes(p) ==
    LET t == Target(p) IN
    /\ proc[p].at \in Owning \cup {"evict"}
    /\ DOMAIN disk' = Keys /\ \A k \in Keys \ {t} : disk'[k] = disk[k]
    /\ disk'[t] \in Directory(t) /\ disk'[t] # None
    /\ disk'[t].activity = disk[t].activity
    /\ \A q \in Procs \ {p} : proc'[q] = proc[q]
    /\ DOMAIN proc' = Procs /\ proc' \in [Procs -> ProcRecord]
    /\ UNCHANGED <<clock, lock, used, faults>>

LEMMA WritesKeep ==
    ASSUME IInv, NEW p \in Procs, Writes(p),
           proc[p].at = "evict" => proc'[p].at = "evict",
           proc[p].at # "evict" => proc'[p].at \in Owning
    PROVE  /\ StoreTypeOK' /\ Exclusive' /\ Dated' /\ Directories' = Directories
           /\ \A q \in Procs \ {p} : Consistent(q)'
<1> DEFINE t == Target(p)
<1>1. t \in Keys /\ disk[t] # None /\ (proc[p].at # "evict" => lock[t] = p)
  BY TargetIsThere DEF Writes
<1>2. StoreTypeOK'
  BY <1>1 DEF IInv, StoreTypeOK, Writes
<1>3. proc[p].at # "idle"
  BY DEF Writes, Owning
<1>4. Exclusive'
  BY <1>3 DEF IInv, Exclusive, Writes
<1>5. Directories' = Directories
  BY <1>1 DEF Writes, Directories
<1>6. Dated'
  <2> SUFFICES ASSUME NEW k \in Directories' PROVE disk'[k].activity \in {None, used'[k]}
    BY DEF Dated
  <2>1. k \in Keys /\ disk'[k].activity = disk[k].activity /\ k \in Directories
    BY <1>5 DEF Writes, Directories
  <2> QED
    BY <2>1 DEF IInv, Dated, Writes
<1>7. CASE proc[p].at = "evict"
  <2>1. \A q \in Procs \ {p} : proc'[q] = proc[q] /\ proc[q].at = "idle"
    BY <1>3, <1>7 DEF IInv, Exclusive, Consistent, Sweeping, Writes
  <2> QED
    BY <1>2, <1>4, <1>5, <1>6, <2>1, AloneKeeps
<1>8. CASE proc[p].at # "evict"
  <2>1. \A k \in Directories : disk'[k] # None
    BY <1>5 DEF Directories
  <2>2. \A k \in Directories :
            lock[k] \in Procs \ {p} => lock'[k] = lock[k] /\ disk'[k] = disk[k]
    BY <1>1, <1>8 DEF Writes, Directories
  <2>3. \A q \in Procs \ {p} : proc'[q] = proc[q]
    BY DEF Writes
  <2> QED
    BY <1>2, <1>3, <1>4, <1>5, <1>6, <2>1, <2>2, <2>3, OthersKeep
<1> QED
  BY <1>7, <1>8

\* A directory that is written to is still a directory.
LEMMA StillDirectory ==
    ASSUME NEW k \in Keys, NEW d \in Directory(k)
    PROVE  /\ \A a \in Clock \cup {None} : [d EXCEPT !.activity = a] \in Directory(k) \ {None}
           /\ \A i \in ChunksOf[k], c \in Content :
                 [d EXCEPT !.chunk[i] = c] \in Directory(k) \ {None}
           /\ \A n \in Nat : [d EXCEPT !.litter = n] \in Directory(k) \ {None}
<1>1. \A a \in Clock \cup {None} : [d EXCEPT !.activity = a] \in Directory(k)
  BY DEF Directory
<1>2. \A i \in ChunksOf[k], c \in Content : [d EXCEPT !.chunk[i] = c] \in Directory(k)
  BY DEF Directory
<1>3. \A n \in Nat : [d EXCEPT !.litter = n] \in Directory(k)
  BY DEF Directory
<1> QED
  BY <1>1, <1>2, <1>3

(* Every action preserves the invariant.                                   *)

LEMMA IdleIsProc == Idle \in ProcRecord
BY DEF Idle, ProcRecord, Clock

LEMMA OpenLimitedKeeps ==
    ASSUME IInv, NEW p \in Procs, NEW k \in Keys, OpenLimited(p, k)
    PROVE  IInv'
<1>1. proc'[p] \in ProcRecord
  <2>1. Directories \ {k} \in SUBSET Keys /\ {} \in SUBSET Keys /\ clock \in Clock
    BY DEF IInv, StoreTypeOK, Directories
  <2>2. "expire" \in {"idle"} \cup Opening \cup Owning
    BY DEF Opening
  <2>3. proc'[p] = [Idle EXCEPT !.at = "expire", !.key = k, !.now = clock,
                         !.todo = IF Retention > 0 THEN Directories \ {k} ELSE {}]
    BY DEF IInv, StoreTypeOK, OpenLimited
  <2> QED
    BY <2>1, <2>2, <2>3, IdleIsProc DEF ProcRecord
<1>2. StoreTypeOK'
  BY <1>1 DEF IInv, StoreTypeOK, Consistent, OpenLimited, Idle, Directories,
     Owning, Directory, Content, Clock
<1>3. Exclusive'
  BY DEF IInv, StoreTypeOK, Exclusive, OpenLimited, Idle, Directories,
     ProcRecord, Sweeping, Owning
<1>4. Consistent(p)'
  BY DEF IInv, StoreTypeOK, Exclusive, Consistent, Dated, OpenLimited, Idle,
     Directories, ProcRecord, Directory, Content, Clock, Owning, Sweeping,
     Emptied
<1>5. \A q \in Procs \ {p} : Consistent(q)'
  <2>1. \A q \in Procs \ {p} : proc'[q] = proc[q] /\ proc[q].at = "idle"
    BY DEF IInv, StoreTypeOK, Exclusive, Consistent, Sweeping, OpenLimited
  <2> QED
    BY <2>1, AloneKeeps
<1>6. Dated'
  BY DEF IInv, StoreTypeOK, Exclusive, Consistent, Dated, OpenLimited, Idle,
     Directories, ProcRecord, Directory, Content, Clock, Owning, Sweeping
<1> QED
  BY <1>2, <1>3, <1>4, <1>5, <1>6 DEF IInv

LEMMA OpenSharedKeeps ==
    ASSUME IInv, NEW p \in Procs, NEW k \in Keys, OpenShared(p, k)
    PROVE  IInv'
<1>1. proc'[p] \in ProcRecord
  <2>1. "mkdir" \in {"idle"} \cup Opening \cup Owning
    BY DEF Opening
  <2> QED
    BY <2>1, IdleIsProc DEF IInv, StoreTypeOK, OpenShared, ProcRecord
<1>2. StoreTypeOK'
  BY <1>1 DEF IInv, StoreTypeOK, Consistent, OpenShared, Idle, Owning,
     Directory, Content, Clock
<1>3. Exclusive'
  BY DEF IInv, StoreTypeOK, Exclusive, OpenShared, Idle, ProcRecord, Sweeping,
     Owning
<1>4. Consistent(p)'
  BY DEF IInv, StoreTypeOK, Exclusive, Consistent, Dated, OpenShared, Idle,
     ProcRecord, Directory, Content, Clock, Owning, Sweeping, Directories,
     Emptied
<1>5. \A q \in Procs \ {p} : Consistent(q)'
  <2>1. /\ proc[p].at # "idle" \/ \A q \in Procs \ Unrestricted : proc[q].at = "idle"
        /\ \A q \in Procs \ {p} : proc'[q] = proc[q]
    BY DEF IInv, StoreTypeOK, Opening, Owning, OpenShared
  <2>2. \A j \in Directories : disk'[j] # None
    BY DEF IInv, StoreTypeOK, Consistent, Directories, Directory, Owning, Opening, Clock, OpenShared
  <2>3. \A j \in Directories :
            lock[j] \in Procs \ {p} => lock'[j] = lock[j] /\ disk'[j] = disk[j]
    BY DEF IInv, Directories, StoreTypeOK, Consistent, Owning, Opening, OpenShared
  <2> QED
    BY <2>1, <2>2, <2>3, OthersKeep
<1>6. Dated'
  BY DEF IInv, StoreTypeOK, Exclusive, Consistent, Dated, OpenShared, Idle,
     ProcRecord, Directory, Content, Clock, Owning, Sweeping, Directories
<1> QED
  BY <1>2, <1>3, <1>4, <1>5, <1>6 DEF IInv

LEMMA KeepUnknownKeeps ==
    ASSUME IInv, NEW p \in Procs, NEW k \in Keys, KeepUnknown(p, k)
    PROVE  IInv'
<1>1. proc'[p] \in ProcRecord
  <2>1. proc[p].todo \ {k} \in SUBSET Keys /\ proc[p] \in ProcRecord
    BY DEF IInv, StoreTypeOK, ProcRecord
  <2>2. proc'[p] = [proc[p] EXCEPT !.todo = @ \ {k}]
    BY DEF IInv, StoreTypeOK, KeepUnknown
  <2> QED
    BY <2>1, <2>2 DEF ProcRecord
<1>2. StoreTypeOK'
  <2>1. disk[k] \in Directory(k) /\ proc[p].now \in Clock
    BY DEF IInv, StoreTypeOK, Consistent, KeepUnknown, Visit, Directories, ProcRecord
  <2>2. [disk[k] EXCEPT !.activity = proc[p].now] \in Directory(k)
    BY <2>1 DEF Directory
  <2> QED
    BY <1>1, <2>1, <2>2 DEF IInv, StoreTypeOK, KeepUnknown
<1>3. Exclusive'
  BY DEF IInv, StoreTypeOK, Exclusive, KeepUnknown, Visit, ProcRecord,
     Sweeping, Owning
<1>4. Consistent(p)'
  BY DEF IInv, StoreTypeOK, Exclusive, Consistent, Dated, KeepUnknown, Visit,
     ProcRecord, Directory, Content, Clock, Owning, Sweeping, Directories,
     Emptied
<1>5. \A q \in Procs \ {p} : Consistent(q)'
  <2>1. \A q \in Procs \ {p} : proc'[q] = proc[q] /\ proc[q].at = "idle"
    BY DEF IInv, StoreTypeOK, Exclusive, Consistent, Sweeping, KeepUnknown, Visit
  <2> QED
    BY <2>1, AloneKeeps
<1>6. Dated'
  BY DEF IInv, StoreTypeOK, Exclusive, Consistent, Dated, KeepUnknown, Visit,
     ProcRecord, Directory, Content, Clock, Owning, Sweeping, Directories
<1> QED
  BY <1>2, <1>3, <1>4, <1>5, <1>6 DEF IInv

LEMMA KeepRecentKeeps ==
    ASSUME IInv, NEW p \in Procs, NEW k \in Keys, KeepRecent(p, k)
    PROVE  IInv'
<1>1. proc'[p] \in ProcRecord
  BY DEF IInv, StoreTypeOK, Consistent, ProcRecord, KeepRecent, Visit, Age,
     Owning, Opening, Sweeping, Clock, Chunks
<1>2. StoreTypeOK'
  BY <1>1 DEF IInv, StoreTypeOK, Consistent, KeepRecent, Visit, Age, Owning,
     Directory, Content, Clock
<1>3. Exclusive'
  BY DEF IInv, StoreTypeOK, Exclusive, KeepRecent, Visit, Age, ProcRecord,
     Sweeping, Owning
<1>4. Consistent(p)'
  BY DEF IInv, StoreTypeOK, Exclusive, Consistent, Dated, KeepRecent, Visit,
     Age, ProcRecord, Directory, Content, Clock, Owning, Sweeping,
     Directories, Emptied
<1>5. \A q \in Procs \ {p} : Consistent(q)'
  <2>1. \A q \in Procs \ {p} : proc'[q] = proc[q] /\ proc[q].at = "idle"
    BY DEF IInv, StoreTypeOK, Exclusive, Consistent, Sweeping, KeepRecent, Visit, Age
  <2> QED
    BY <2>1, AloneKeeps
<1>6. Dated'
  BY DEF IInv, StoreTypeOK, Exclusive, Consistent, Dated, KeepRecent, Visit,
     Age, ProcRecord, Directory, Content, Clock, Owning, Sweeping, Directories
<1> QED
  BY <1>2, <1>3, <1>4, <1>5, <1>6 DEF IInv

LEMMA CondemnKeeps ==
    ASSUME IInv, NEW p \in Procs, NEW k \in Keys, Condemn(p, k)
    PROVE  IInv'
<1>1. proc'[p] \in ProcRecord
  BY DEF IInv, StoreTypeOK, Consistent, ProcRecord, Condemn, Visit, Age,
     Owning, Opening, Sweeping, Clock, Chunks
<1>2. StoreTypeOK'
  BY <1>1 DEF IInv, StoreTypeOK, Consistent, Condemn, Visit, Age, Owning,
     Directory, Content, Clock
<1>3. Exclusive'
  BY DEF IInv, StoreTypeOK, Exclusive, Condemn, Visit, Age, ProcRecord,
     Sweeping, Owning
<1>4. Consistent(p)'
  BY DEF IInv, StoreTypeOK, Exclusive, Consistent, Dated, Condemn, Visit, Age,
     ProcRecord, Directory, Content, Clock, Owning, Sweeping, Directories,
     Emptied
<1>5. \A q \in Procs \ {p} : Consistent(q)'
  <2>1. \A q \in Procs \ {p} : proc'[q] = proc[q] /\ proc[q].at = "idle"
    BY DEF IInv, StoreTypeOK, Exclusive, Consistent, Sweeping, Condemn, Visit, Age
  <2> QED
    BY <2>1, AloneKeeps
<1>6. Dated'
  BY DEF IInv, StoreTypeOK, Exclusive, Consistent, Dated, Condemn, Visit, Age,
     ProcRecord, Directory, Content, Clock, Owning, Sweeping, Directories
<1> QED
  BY <1>2, <1>3, <1>4, <1>5, <1>6 DEF IInv

LEMMA RemoveLitterKeeps ==
    ASSUME IInv, NEW p \in Procs, RemoveLitter(p)
    PROVE  IInv'
<1> DEFINE t == Target(p)
<1>1. proc[p].at \in {"evict", "clear"} /\ proc[p].at \in Owning \cup {"evict"}
  BY DEF RemoveLitter, Owning
<1>2. t \in Keys /\ disk[t] \in Directory(t) /\ disk[t] # None
  BY <1>1, TargetIsThere
<1>3. /\ disk'[t] = [disk[t] EXCEPT !.litter = 0] /\ DOMAIN disk' = Keys
      /\ \A k \in Keys \ {t} : disk'[k] = disk[k]
  BY <1>2 DEF IInv, StoreTypeOK, RemoveLitter
<1>4. disk'[t] \in Directory(t) /\ disk'[t] # None
  BY <1>2, <1>3, StillDirectory
<1>5. disk'[t].activity = disk[t].activity /\ disk'[t].chunk = disk[t].chunk
  BY <1>2, <1>3 DEF Directory
<1>6. Writes(p)
  BY <1>1, <1>3, <1>4, <1>5 DEF IInv, StoreTypeOK, RemoveLitter, Writes
<1>7. /\ StoreTypeOK' /\ Exclusive' /\ Dated' /\ Directories' = Directories
      /\ \A q \in Procs \ {p} : Consistent(q)'
  BY <1>1, <1>6, WritesKeep DEF RemoveLitter
<1>8. Consistent(p)'
  <2>1. disk'[proc[p].victim] # None \/ proc[p].at # "evict"
    BY <1>4 DEF Target
  <2>2. \/ proc[p].at # "clear"
        \/ /\ disk'[proc[p].key] # None
           /\ disk'[proc[p].key].activity = disk[proc[p].key].activity
    BY <1>4, <1>5 DEF Target
  <2> HIDE DEF t
  <2> QED
    BY <1>1, <1>7, <2>1, <2>2 DEF IInv, Consistent, RemoveLitter, Owning, Sweeping
<1> QED
  BY <1>7, <1>8 DEF IInv

LEMMA EvictKeeps ==
    ASSUME IInv, NEW p \in Procs, Evict(p)
    PROVE  IInv'
<1>1. proc'[p] \in ProcRecord
  BY DEF IInv, StoreTypeOK, Consistent, ProcRecord, Evict, Step, RemoveRecord,
     RemoveLock, RemoveDirectory, Owning, Opening, Sweeping, Clock, Chunks
<1>2. StoreTypeOK'
  BY <1>1 DEF IInv, StoreTypeOK, Consistent, Evict, Step, RemoveRecord,
     RemoveLock, RemoveDirectory, Owning, Directory, Content, Clock
<1>3. Exclusive'
  BY DEF IInv, StoreTypeOK, Exclusive, Evict, Step, RemoveRecord, RemoveLock,
     RemoveDirectory, ProcRecord, Sweeping, Owning
<1>4. Consistent(p)'
  BY DEF IInv, StoreTypeOK, Exclusive, Consistent, Dated, Evict, Step,
     RemoveRecord, RemoveLock, RemoveDirectory, ProcRecord, Directory,
     Content, Clock, Owning, Sweeping, Directories, Emptied
<1>5. \A q \in Procs \ {p} : Consistent(q)'
  <2>1. \A q \in Procs \ {p} : proc'[q] = proc[q] /\ proc[q].at = "idle"
    BY DEF IInv, StoreTypeOK, Exclusive, Consistent, Sweeping, Evict, Step, RemoveRecord, RemoveLock, RemoveDirectory
  <2> QED
    BY <2>1, AloneKeeps
<1>6. Dated'
  BY DEF IInv, StoreTypeOK, Exclusive, Consistent, Dated, Evict, Step,
     RemoveRecord, RemoveLock, RemoveDirectory, ProcRecord, Directory,
     Content, Clock, Owning, Sweeping, Directories
<1> QED
  BY <1>2, <1>3, <1>4, <1>5, <1>6 DEF IInv

LEMMA PassQuotaKeeps ==
    ASSUME IInv, NEW p \in Procs, PassQuota(p)
    PROVE  IInv'
<1>1. proc'[p] \in ProcRecord
  <2>1. CachedBytes \in 0 .. MaxBytes /\ proc[p] \in ProcRecord
    BY DEF IInv, StoreTypeOK, PassQuota, OverBytes
  <2>2. "mkdir" \in {"idle"} \cup Opening \cup Owning /\ 0 \in Clock
    BY DEF Opening, Clock
  <2>3. proc'[p] = [proc[p] EXCEPT !.at = "mkdir", !.now = 0, !.bytes = CachedBytes]
    BY DEF IInv, StoreTypeOK, PassQuota
  <2> QED
    BY <2>1, <2>2, <2>3 DEF ProcRecord
<1>2. StoreTypeOK'
  BY <1>1 DEF IInv, StoreTypeOK, Consistent, PassQuota, OverBytes, Owning,
     Directory, Content, Clock
<1>3. Exclusive'
  BY DEF IInv, StoreTypeOK, Exclusive, PassQuota, OverBytes, ProcRecord,
     Sweeping, Owning
<1>4. Consistent(p)'
  BY DEF IInv, StoreTypeOK, Exclusive, Consistent, Dated, PassQuota,
     OverBytes, ProcRecord, Directory, Content, Clock, Owning, Sweeping,
     Directories, Emptied
<1>5. \A q \in Procs \ {p} : Consistent(q)'
  <2>1. \A q \in Procs \ {p} : proc'[q] = proc[q] /\ proc[q].at = "idle"
    BY DEF IInv, StoreTypeOK, Exclusive, Consistent, Sweeping, PassQuota, OverBytes
  <2> QED
    BY <2>1, AloneKeeps
<1>6. Dated'
  BY DEF IInv, StoreTypeOK, Exclusive, Consistent, Dated, PassQuota,
     OverBytes, ProcRecord, Directory, Content, Clock, Owning, Sweeping,
     Directories
<1> QED
  BY <1>2, <1>3, <1>4, <1>5, <1>6 DEF IInv

LEMMA MakeDirectoryKeeps ==
    ASSUME IInv, NEW p \in Procs, MakeDirectory(p)
    PROVE  IInv'
<1>1. proc'[p] \in ProcRecord
  <2>1. "lock" \in {"idle"} \cup Opening \cup Owning
    BY DEF Opening
  <2> QED
    BY <2>1 DEF IInv, StoreTypeOK, MakeDirectory, Step, ProcRecord
<1>2. StoreTypeOK'
  BY <1>1 DEF IInv, StoreTypeOK, Consistent, MakeDirectory, Step,
     EmptyDirectory, Owning, Directory, Content, Clock
<1>3. Exclusive'
  BY DEF IInv, StoreTypeOK, Exclusive, MakeDirectory, Step, EmptyDirectory,
     ProcRecord, Sweeping, Owning
<1>4. Consistent(p)'
  BY DEF IInv, StoreTypeOK, Exclusive, Consistent, Dated, MakeDirectory, Step,
     EmptyDirectory, ProcRecord, Directory, Content, Clock, Owning, Sweeping,
     Directories, Emptied
<1>5. \A q \in Procs \ {p} : Consistent(q)'
  <2>1. /\ proc[p].at # "idle" \/ \A q \in Procs \ Unrestricted : proc[q].at = "idle"
        /\ \A q \in Procs \ {p} : proc'[q] = proc[q]
    BY DEF IInv, StoreTypeOK, Opening, Owning, MakeDirectory, Step, EmptyDirectory
  <2>2. \A k \in Directories : disk'[k] # None
    BY DEF IInv, StoreTypeOK, Consistent, Directories, Directory, Owning, Opening, Clock, MakeDirectory, Step, EmptyDirectory
  <2>3. \A k \in Directories :
            lock[k] \in Procs \ {p} => lock'[k] = lock[k] /\ disk'[k] = disk[k]
    BY DEF IInv, Directories, StoreTypeOK, Consistent, Owning, Opening, MakeDirectory, Step, EmptyDirectory
  <2> QED
    BY <2>1, <2>2, <2>3, OthersKeep
<1>6. Dated'
  BY DEF IInv, StoreTypeOK, Exclusive, Consistent, Dated, MakeDirectory, Step,
     EmptyDirectory, ProcRecord, Directory, Content, Clock, Owning, Sweeping,
     Directories
<1> QED
  BY <1>2, <1>3, <1>4, <1>5, <1>6 DEF IInv

LEMMA TakeLockKeeps ==
    ASSUME IInv, NEW p \in Procs, TakeLock(p)
    PROVE  IInv'
<1>1. proc'[p] \in ProcRecord
  <2>1. proc[p] \in ProcRecord /\ proc'[p] = [proc[p] EXCEPT !.at = "record"]
    BY DEF IInv, StoreTypeOK, TakeLock, Step
  <2>2. "record" \in {"idle"} \cup Opening \cup Owning
    BY DEF Opening
  <2> QED
    BY <2>1, <2>2 DEF ProcRecord
<1>2. StoreTypeOK'
  BY <1>1 DEF IInv, StoreTypeOK, Consistent, TakeLock, Step, Owning,
     Directory, Content, Clock
<1>3. Exclusive'
  BY DEF IInv, StoreTypeOK, Exclusive, TakeLock, Step, ProcRecord, Sweeping,
     Owning
<1>4. Consistent(p)'
  BY DEF IInv, StoreTypeOK, Exclusive, Consistent, Dated, TakeLock, Step,
     ProcRecord, Directory, Content, Clock, Owning, Sweeping, Directories,
     Emptied
<1>5. \A q \in Procs \ {p} : Consistent(q)'
  <2>1. /\ proc[p].at # "idle" \/ \A q \in Procs \ Unrestricted : proc[q].at = "idle"
        /\ \A q \in Procs \ {p} : proc'[q] = proc[q]
    BY DEF IInv, StoreTypeOK, Opening, Owning, TakeLock, Step
  <2>2. \A k \in Directories : disk'[k] # None
    BY DEF IInv, StoreTypeOK, Consistent, Directories, Directory, Owning, Opening, Clock, TakeLock, Step
  <2>3. \A k \in Directories :
            lock[k] \in Procs \ {p} => lock'[k] = lock[k] /\ disk'[k] = disk[k]
    BY DEF IInv, Directories, StoreTypeOK, Consistent, Owning, Opening, TakeLock, Step
  <2> QED
    BY <2>1, <2>2, <2>3, OthersKeep
<1>6. Dated'
  BY DEF IInv, StoreTypeOK, Exclusive, Consistent, Dated, TakeLock, Step,
     ProcRecord, Directory, Content, Clock, Owning, Sweeping, Directories
<1> QED
  BY <1>2, <1>3, <1>4, <1>5, <1>6 DEF IInv

LEMMA WriteRecordKeeps ==
    ASSUME IInv, NEW p \in Procs, WriteRecord(p)
    PROVE  IInv'
<1>1. proc'[p] \in ProcRecord
  BY DEF IInv, StoreTypeOK, Consistent, ProcRecord, WriteRecord, Owning,
     Opening, Sweeping, Clock, Chunks
<1>2. StoreTypeOK'
  BY <1>1 DEF IInv, StoreTypeOK, Consistent, WriteRecord, Owning, Directory,
     Content, Clock
<1>3. Exclusive'
  BY DEF IInv, StoreTypeOK, Exclusive, WriteRecord, ProcRecord, Sweeping,
     Owning
<1>4. Consistent(p)'
  BY DEF IInv, StoreTypeOK, Exclusive, Consistent, Dated, WriteRecord,
     ProcRecord, Directory, Content, Clock, Owning, Sweeping, Directories,
     Emptied
<1>5. \A q \in Procs \ {p} : Consistent(q)'
  <2>1. /\ proc[p].at # "idle" \/ \A q \in Procs \ Unrestricted : proc[q].at = "idle"
        /\ \A q \in Procs \ {p} : proc'[q] = proc[q]
    BY DEF IInv, StoreTypeOK, Opening, Owning, WriteRecord
  <2>2. \A k \in Directories : disk'[k] # None
    BY DEF IInv, StoreTypeOK, Consistent, Directories, Directory, Owning, Opening, Clock, WriteRecord
  <2>3. \A k \in Directories :
            lock[k] \in Procs \ {p} => lock'[k] = lock[k] /\ disk'[k] = disk[k]
    BY DEF IInv, Directories, StoreTypeOK, Consistent, Owning, Opening, WriteRecord
  <2> QED
    BY <2>1, <2>2, <2>3, OthersKeep
<1>6. Dated'
  BY DEF IInv, StoreTypeOK, Exclusive, Consistent, Dated, WriteRecord,
     ProcRecord, Directory, Content, Clock, Owning, Sweeping, Directories
<1> QED
  BY <1>2, <1>3, <1>4, <1>5, <1>6 DEF IInv

LEMMA ReserveKeeps ==
    ASSUME IInv, NEW p \in Procs, Reserve(p)
    PROVE  IInv'
<1>1. proc'[p] \in ProcRecord
  <2>1. PICK next \in {"open", "close"} : proc' = [proc EXCEPT ![p].at = next, ![p].bytes = 0]
    BY DEF Reserve
  <2>2. next \in {"idle"} \cup Opening \cup Owning /\ 0 \in 0 .. MaxBytes
    BY DEF Owning
  <2>3. proc'[p] = [proc[p] EXCEPT !.at = next, !.bytes = 0] /\ proc[p] \in ProcRecord
    BY <2>1 DEF IInv, StoreTypeOK
  <2> QED
    BY <2>2, <2>3 DEF ProcRecord
<1>2. StoreTypeOK'
  BY <1>1 DEF IInv, StoreTypeOK, Consistent, Reserve, Owning, Directory,
     Content, Clock
<1>3. Exclusive'
  BY DEF IInv, StoreTypeOK, Exclusive, Reserve, ProcRecord, Sweeping, Owning
<1>4. Consistent(p)'
  BY DEF IInv, StoreTypeOK, Exclusive, Consistent, Dated, Reserve, ProcRecord,
     Directory, Content, Clock, Owning, Sweeping, Directories, Emptied
<1>5. \A q \in Procs \ {p} : Consistent(q)'
  <2>1. /\ proc[p].at # "idle" \/ \A q \in Procs \ Unrestricted : proc[q].at = "idle"
        /\ \A q \in Procs \ {p} : proc'[q] = proc[q]
    BY DEF IInv, StoreTypeOK, Opening, Owning, Reserve
  <2>2. \A k \in Directories : disk'[k] # None
    BY DEF IInv, StoreTypeOK, Consistent, Directories, Directory, Owning, Opening, Clock, Reserve
  <2>3. \A k \in Directories :
            lock[k] \in Procs \ {p} => lock'[k] = lock[k] /\ disk'[k] = disk[k]
    BY DEF IInv, Directories, StoreTypeOK, Consistent, Owning, Opening, Reserve
  <2> QED
    BY <2>1, <2>2, <2>3, OthersKeep
<1>6. Dated'
  BY DEF IInv, StoreTypeOK, Exclusive, Consistent, Dated, Reserve, ProcRecord,
     Directory, Content, Clock, Owning, Sweeping, Directories
<1> QED
  BY <1>2, <1>3, <1>4, <1>5, <1>6 DEF IInv

LEMMA OpenFailsKeeps ==
    ASSUME IInv, NEW p \in Procs, OpenFails(p)
    PROVE  IInv'
<1>1. proc'[p] \in ProcRecord
  BY DEF IInv, StoreTypeOK, Consistent, ProcRecord, OpenFails, Released, Idle,
     Owning, Opening, Sweeping, Clock, Chunks
<1>2. StoreTypeOK'
  BY <1>1 DEF IInv, StoreTypeOK, Consistent, OpenFails, Released, Idle,
     Owning, Directory, Content, Clock
<1>3. Exclusive'
  BY DEF IInv, StoreTypeOK, Exclusive, OpenFails, Released, Idle, ProcRecord,
     Sweeping, Owning
<1>4. Consistent(p)'
  BY DEF IInv, StoreTypeOK, Exclusive, Consistent, Dated, OpenFails, Released,
     Idle, ProcRecord, Directory, Content, Clock, Owning, Sweeping,
     Directories, Emptied
<1>5. \A q \in Procs \ {p} : Consistent(q)'
  <2>1. /\ proc[p].at # "idle" \/ \A q \in Procs \ Unrestricted : proc[q].at = "idle"
        /\ \A q \in Procs \ {p} : proc'[q] = proc[q]
    BY DEF IInv, StoreTypeOK, Opening, Owning, OpenFails, Released
  <2>2. \A k \in Directories : disk'[k] # None
    BY DEF IInv, StoreTypeOK, Consistent, Directories, Directory, Owning, Opening, Clock, OpenFails, Released
  <2>3. \A k \in Directories :
            lock[k] \in Procs \ {p} => lock'[k] = lock[k] /\ disk'[k] = disk[k]
    BY DEF IInv, Directories, StoreTypeOK, Consistent, Owning, Opening, OpenFails, Released
  <2> QED
    BY <2>1, <2>2, <2>3, OthersKeep
<1>6. Dated'
  BY DEF IInv, StoreTypeOK, Exclusive, Consistent, Dated, OpenFails, Released,
     Idle, ProcRecord, Directory, Content, Clock, Owning, Sweeping,
     Directories
<1> QED
  BY <1>2, <1>3, <1>4, <1>5, <1>6 DEF IInv

LEMMA MissingKeeps ==
    ASSUME IInv, NEW p \in Procs, Missing(p)
    PROVE  IInv'
<1>1. proc'[p] \in ProcRecord
  <2> DEFINE wanted == {i \in ChunksOf[proc[p].key] : disk[proc[p].key].chunk[i] # "good"}
  <2>1. proc[p].key \in Keys /\ proc[p] \in ProcRecord
    BY DEF IInv, StoreTypeOK, Consistent, Missing
  <2>2. wanted \in SUBSET Chunks
    BY <2>1 DEF Chunks
  <2>3. proc'[p] = [proc[p] EXCEPT !.wanted = wanted]
    BY DEF IInv, StoreTypeOK, Missing
  <2> HIDE DEF wanted
  <2> QED
    BY <2>1, <2>2, <2>3 DEF ProcRecord
<1>2. StoreTypeOK'
  BY <1>1 DEF IInv, StoreTypeOK, Consistent, Missing, Owning, Directory,
     Content, Clock
<1>3. Exclusive'
  BY DEF IInv, StoreTypeOK, Exclusive, Missing, ProcRecord, Sweeping, Owning
<1>4. Consistent(p)'
  <2> DEFINE wanted == {i \in ChunksOf[proc[p].key] : disk[proc[p].key].chunk[i] # "good"}
  <2>1. /\ wanted \subseteq ChunksOf[proc[p].key]
        /\ proc'[p] = [proc[p] EXCEPT !.wanted = wanted] /\ proc[p] \in ProcRecord
    BY DEF IInv, StoreTypeOK, Missing
  <2> HIDE DEF wanted
  <2>2. proc[p].at = "open" /\ Consistent(p) /\ disk' = disk /\ lock' = lock
    BY DEF IInv, Missing
  <2>3. /\ proc'[p].at = proc[p].at /\ proc'[p].key = proc[p].key
        /\ proc'[p].victim = proc[p].victim /\ proc'[p].last = proc[p].last
        /\ proc'[p].staged = proc[p].staged /\ proc'[p].wanted = wanted
    BY <2>1 DEF ProcRecord
  <2> QED
    BY <2>1, <2>2, <2>3 DEF Consistent, Owning, Sweeping
<1>5. \A q \in Procs \ {p} : Consistent(q)'
  <2>1. /\ proc[p].at # "idle" \/ \A q \in Procs \ Unrestricted : proc[q].at = "idle"
        /\ \A q \in Procs \ {p} : proc'[q] = proc[q]
    BY DEF IInv, StoreTypeOK, Opening, Owning, Missing
  <2>2. \A k \in Directories : disk'[k] # None
    BY DEF IInv, StoreTypeOK, Consistent, Directories, Directory, Owning, Opening, Clock, Missing
  <2>3. \A k \in Directories :
            lock[k] \in Procs \ {p} => lock'[k] = lock[k] /\ disk'[k] = disk[k]
    BY DEF IInv, Directories, StoreTypeOK, Consistent, Owning, Opening, Missing
  <2> QED
    BY <2>1, <2>2, <2>3, OthersKeep
<1>6. Dated'
  BY DEF IInv, StoreTypeOK, Exclusive, Consistent, Dated, Missing, ProcRecord,
     Directory, Content, Clock, Owning, Sweeping, Directories
<1> QED
  BY <1>2, <1>3, <1>4, <1>5, <1>6 DEF IInv

LEMMA WriteKeeps ==
    ASSUME IInv, NEW p \in Procs, Write(p)
    PROVE  IInv'
<1> DEFINE k == proc[p].key
           left == disk[k].litter + 1
<1>1. proc[p].at = "stage" /\ proc[p].at \in Owning \cup {"evict"} /\ Target(p) = k
  BY DEF Write, Owning, Target
<1>2. k \in Keys /\ disk[k] \in Directory(k) /\ disk[k] # None /\ lock[k] = p
  BY <1>1, TargetIsThere
<1>3. /\ proc[p] \in ProcRecord /\ proc[p].staged \in Nat /\ disk[k].litter \in Nat
      /\ proc[p].chunk \in ChunksOf[k]
      /\ proc[p].staged <= ChunkLen /\ proc[p].staged <= disk[k].litter
  BY <1>1, <1>2, TargetIsThere DEF IInv, StoreTypeOK, Consistent, ProcRecord
<1>4. left \in Nat
  BY <1>3 DEF Write
<1>5. /\ disk'[k] = [disk[k] EXCEPT !.litter = left]
      /\ DOMAIN disk' = Keys /\ \A j \in Keys \ {k} : disk'[j] = disk[j]
  BY <1>2 DEF IInv, StoreTypeOK, Write
<1>6. disk'[k] \in Directory(k) /\ disk'[k] # None
  <2> DEFINE d == [disk[k] EXCEPT !.litter = left]
  <2>1. d \in Directory(k) \ {None}
    BY <1>2, <1>4, StillDirectory
  <2> QED
    BY <1>5, <2>1
<1>7. disk'[k].activity = disk[k].activity /\ disk'[k].litter = left
  BY <1>2, <1>5 DEF Directory
<1>8. proc'[p] = [proc[p] EXCEPT !.staged = proc[p].staged + 1]
  BY DEF IInv, StoreTypeOK, Write
<1>9. proc'[p] \in ProcRecord /\ proc' \in [Procs -> ProcRecord]
  <2>1. proc[p].staged + 1 \in Nat
    BY <1>3 DEF Owning, Write
  <2>2. proc'[p] \in ProcRecord
    BY <1>3, <1>8, <2>1 DEF ProcRecord
  <2> QED
    BY <2>2 DEF IInv, StoreTypeOK, Write
<1>10. Writes(p)
  BY <1>1, <1>5, <1>6, <1>7, <1>9 DEF IInv, StoreTypeOK, Write, Writes
<1>11. /\ proc'[p].at \in Owning /\ proc'[p].at = "stage"
       /\ proc'[p].key = k /\ proc'[p].victim = proc[p].victim
       /\ proc'[p].wanted = proc[p].wanted /\ proc'[p].last = proc[p].last
       /\ proc'[p].staged = proc[p].staged + 1 /\ proc'[p].chunk = proc[p].chunk
  BY <1>1, <1>3, <1>8 DEF ProcRecord, Owning
<1>12. /\ StoreTypeOK' /\ Exclusive' /\ Dated' /\ Directories' = Directories
       /\ \A q \in Procs \ {p} : Consistent(q)'
  BY <1>1, <1>10, <1>11, WritesKeep
<1>13. Consistent(p)'
  <2> HIDE DEF k, left
  <2>1. lock'[k] = p
    BY <1>2 DEF Write
  <2>2. /\ proc[p].wanted \subseteq ChunksOf[k] /\ disk[k].activity \in {None, proc[p].last}
        /\ proc[p].victim = None
    BY <1>1 DEF IInv, Consistent, Owning, Sweeping, k
  <2>3. left = disk[k].litter + 1
    BY DEF left
  <2>4. proc[p].staged + 1 <= ChunkLen
    BY <1>3 DEF Write
  <2> QED
    BY <1>2, <1>3, <1>4, <1>6, <1>7, <1>11, <2>1, <2>2, <2>3, <2>4
       DEF Consistent, Owning, Sweeping
<1> QED
  BY <1>12, <1>13 DEF IInv

LEMMA RejectKeeps ==
    ASSUME IInv, NEW p \in Procs, Reject(p)
    PROVE  IInv'
<1> DEFINE k == proc[p].key
           left == disk[k].litter - proc[p].staged
<1>1. proc[p].at = "stage" /\ proc[p].at \in Owning \cup {"evict"} /\ Target(p) = k
  BY DEF Reject, Owning, Target
<1>2. k \in Keys /\ disk[k] \in Directory(k) /\ disk[k] # None /\ lock[k] = p
  BY <1>1, TargetIsThere
<1>3. /\ proc[p] \in ProcRecord /\ proc[p].staged \in Nat /\ disk[k].litter \in Nat
      /\ proc[p].chunk \in ChunksOf[k]
      /\ proc[p].staged <= ChunkLen /\ proc[p].staged <= disk[k].litter
  BY <1>1, <1>2, TargetIsThere DEF IInv, StoreTypeOK, Consistent, ProcRecord
<1>4. left \in Nat
  BY <1>3 DEF Reject
<1>5. /\ disk'[k] = [disk[k] EXCEPT !.litter = left]
      /\ DOMAIN disk' = Keys /\ \A j \in Keys \ {k} : disk'[j] = disk[j]
  BY <1>2 DEF IInv, StoreTypeOK, Reject
<1>6. disk'[k] \in Directory(k) /\ disk'[k] # None
  <2> DEFINE d == [disk[k] EXCEPT !.litter = left]
  <2>1. d \in Directory(k) \ {None}
    BY <1>2, <1>4, StillDirectory
  <2> QED
    BY <1>5, <2>1
<1>7. disk'[k].activity = disk[k].activity /\ disk'[k].litter = left
  BY <1>2, <1>5 DEF Directory
<1>8. proc'[p] = [proc[p] EXCEPT !.at = "close", !.chunk = None, !.staged = 0]
  BY DEF IInv, StoreTypeOK, Reject
<1>9. proc'[p] \in ProcRecord /\ proc' \in [Procs -> ProcRecord]
  <2>1. "close" \in {"idle"} \cup Opening \cup Owning /\ 0 \in Nat
    BY <1>3 DEF Owning, Reject
  <2>2. proc'[p] \in ProcRecord
    BY <1>3, <1>8, <2>1 DEF ProcRecord
  <2> QED
    BY <2>2 DEF IInv, StoreTypeOK, Reject
<1>10. Writes(p)
  BY <1>1, <1>5, <1>6, <1>7, <1>9 DEF IInv, StoreTypeOK, Reject, Writes
<1>11. /\ proc'[p].at \in Owning /\ proc'[p].at = "close"
       /\ proc'[p].key = k /\ proc'[p].victim = proc[p].victim
       /\ proc'[p].wanted = proc[p].wanted /\ proc'[p].last = proc[p].last
       /\ proc'[p].staged = 0
  BY <1>1, <1>3, <1>8 DEF ProcRecord, Owning
<1>12. /\ StoreTypeOK' /\ Exclusive' /\ Dated' /\ Directories' = Directories
       /\ \A q \in Procs \ {p} : Consistent(q)'
  BY <1>1, <1>10, <1>11, WritesKeep
<1>13. Consistent(p)'
  <2> HIDE DEF k, left
  <2>1. lock'[k] = p
    BY <1>2 DEF Reject
  <2>2. /\ proc[p].wanted \subseteq ChunksOf[k] /\ disk[k].activity \in {None, proc[p].last}
        /\ proc[p].victim = None
    BY <1>1 DEF IInv, Consistent, Owning, Sweeping, k
  <2> QED
    BY <1>2, <1>3, <1>4, <1>6, <1>7, <1>11, <2>1, <2>2
       DEF Consistent, Owning, Sweeping
<1> QED
  BY <1>12, <1>13 DEF IInv

LEMMA PublishKeeps ==
    ASSUME IInv, NEW p \in Procs, Publish(p)
    PROVE  IInv'
<1> DEFINE k == proc[p].key
           left == disk[k].litter - ChunkLen
<1>1. proc[p].at = "stage" /\ proc[p].at \in Owning \cup {"evict"} /\ Target(p) = k
  BY DEF Publish, Owning, Target
<1>2. k \in Keys /\ disk[k] \in Directory(k) /\ disk[k] # None /\ lock[k] = p
  BY <1>1, TargetIsThere
<1>3. /\ proc[p] \in ProcRecord /\ proc[p].staged \in Nat /\ disk[k].litter \in Nat
      /\ proc[p].chunk \in ChunksOf[k]
      /\ proc[p].staged <= ChunkLen /\ proc[p].staged <= disk[k].litter
  BY <1>1, <1>2, TargetIsThere DEF IInv, StoreTypeOK, Consistent, ProcRecord
<1>4. left \in Nat
  BY <1>3 DEF Publish
<1>5. /\ disk'[k] = [disk[k] EXCEPT !.litter = left, !.chunk[proc[p].chunk] = "good"]
      /\ DOMAIN disk' = Keys /\ \A j \in Keys \ {k} : disk'[j] = disk[j]
  BY <1>2 DEF IInv, StoreTypeOK, Publish
<1>6. disk'[k] \in Directory(k) /\ disk'[k] # None
  <2> DEFINE d == [disk[k] EXCEPT !.litter = left]
  <2>1. d \in Directory(k) \ {None}
    BY <1>2, <1>4, StillDirectory
  <2>2. disk'[k] = [d EXCEPT !.chunk[proc[p].chunk] = "good"]
    BY <1>5
  <2> HIDE DEF d
  <2>3. "good" \in Content
    BY DEF Content
  <2>4. [d EXCEPT !.chunk[proc[p].chunk] = "good"] \in Directory(k) \ {None}
    BY <1>2, <1>3, <2>1, <2>3, StillDirectory
  <2> QED
    BY <2>2, <2>4
<1>7. disk'[k].activity = disk[k].activity /\ disk'[k].litter = left
  BY <1>2, <1>5 DEF Directory
<1>8. proc'[p] = [proc[p] EXCEPT !.at = "touch", !.chunk = None, !.staged = 0]
  BY DEF IInv, StoreTypeOK, Publish
<1>9. proc'[p] \in ProcRecord /\ proc' \in [Procs -> ProcRecord]
  <2>1. "touch" \in {"idle"} \cup Opening \cup Owning /\ 0 \in Nat
    BY <1>3 DEF Owning, Publish
  <2>2. proc'[p] \in ProcRecord
    BY <1>3, <1>8, <2>1 DEF ProcRecord
  <2> QED
    BY <2>2 DEF IInv, StoreTypeOK, Publish
<1>10. Writes(p)
  BY <1>1, <1>5, <1>6, <1>7, <1>9 DEF IInv, StoreTypeOK, Publish, Writes
<1>11. /\ proc'[p].at \in Owning /\ proc'[p].at = "touch"
       /\ proc'[p].key = k /\ proc'[p].victim = proc[p].victim
       /\ proc'[p].wanted = proc[p].wanted /\ proc'[p].last = proc[p].last
       /\ proc'[p].staged = 0
  BY <1>1, <1>3, <1>8 DEF ProcRecord, Owning
<1>12. /\ StoreTypeOK' /\ Exclusive' /\ Dated' /\ Directories' = Directories
       /\ \A q \in Procs \ {p} : Consistent(q)'
  BY <1>1, <1>10, <1>11, WritesKeep
<1>13. Consistent(p)'
  <2> HIDE DEF k, left
  <2>1. lock'[k] = p
    BY <1>2 DEF Publish
  <2>2. /\ proc[p].wanted \subseteq ChunksOf[k] /\ disk[k].activity \in {None, proc[p].last}
        /\ proc[p].victim = None
    BY <1>1 DEF IInv, Consistent, Owning, Sweeping, k
  <2> QED
    BY <1>2, <1>3, <1>4, <1>6, <1>7, <1>11, <2>1, <2>2
       DEF Consistent, Owning, Sweeping
<1> QED
  BY <1>12, <1>13 DEF IInv

LEMMA TouchKeeps ==
    ASSUME IInv, NEW p \in Procs, Touch(p)
    PROVE  IInv'
<1>1. proc'[p] \in ProcRecord
  BY DEF IInv, StoreTypeOK, Consistent, ProcRecord, Touch, Refreshed,
     NotRefreshed, Owning, Opening, Sweeping, Clock, Chunks
<1>2. StoreTypeOK'
  <2> DEFINE k == proc[p].key
  <2>1. k \in Keys /\ disk[k] # None /\ clock \in Clock
    BY DEF IInv, StoreTypeOK, Consistent, Touch, Owning
  <2>2. disk[k] \in Directory(k) /\ DOMAIN disk = Keys
    BY <2>1 DEF IInv, StoreTypeOK
  <2>3. [disk[k] EXCEPT !.activity = clock] \in Directory(k)
    BY <2>1, <2>2, StillDirectory
  <2>4. disk' = disk \/ disk' = [disk EXCEPT ![k] = [disk[k] EXCEPT !.activity = clock]]
    BY DEF Touch, Refreshed, NotRefreshed
  <2>5. used' \in [Keys -> Clock]
    BY <2>1 DEF IInv, StoreTypeOK, Touch, Refreshed, NotRefreshed
  <2>6. DOMAIN disk' = Keys /\ \A j \in Keys : disk'[j] = None \/ disk'[j] \in Directory(j)
    BY <2>1, <2>2, <2>3, <2>4 DEF IInv, StoreTypeOK
  <2> QED
    BY <1>1, <2>5, <2>6 DEF IInv, StoreTypeOK, Touch
<1>3. Exclusive'
  BY DEF IInv, StoreTypeOK, Exclusive, Touch, Refreshed, NotRefreshed,
     ProcRecord, Sweeping, Owning
<1>4. Consistent(p)'
  BY DEF IInv, StoreTypeOK, Exclusive, Consistent, Dated, Touch, Refreshed,
     NotRefreshed, ProcRecord, Directory, Content, Clock, Owning, Sweeping,
     Directories, Emptied
<1>5. \A q \in Procs \ {p} : Consistent(q)'
  <2>1. /\ proc[p].at # "idle" \/ \A q \in Procs \ Unrestricted : proc[q].at = "idle"
        /\ \A q \in Procs \ {p} : proc'[q] = proc[q]
    BY DEF IInv, StoreTypeOK, Opening, Owning, Touch, Refreshed, NotRefreshed
  <2>2. \A k \in Directories : disk'[k] # None
    BY DEF IInv, StoreTypeOK, Consistent, Directories, Directory, Owning, Opening, Clock, Touch, Refreshed, NotRefreshed
  <2>3. \A k \in Directories :
            lock[k] \in Procs \ {p} => lock'[k] = lock[k] /\ disk'[k] = disk[k]
    BY DEF IInv, Directories, StoreTypeOK, Consistent, Owning, Opening, Touch, Refreshed, NotRefreshed
  <2> QED
    BY <2>1, <2>2, <2>3, OthersKeep
<1>6. Dated'
  BY DEF IInv, StoreTypeOK, Exclusive, Consistent, Dated, Touch, Refreshed,
     NotRefreshed, ProcRecord, Directory, Content, Clock, Owning, Sweeping,
     Directories
<1> QED
  BY <1>2, <1>3, <1>4, <1>5, <1>6 DEF IInv

LEMMA StartClearKeeps ==
    ASSUME IInv, NEW p \in Procs, StartClear(p)
    PROVE  IInv'
<1>1. proc'[p] \in ProcRecord
  BY DEF IInv, StoreTypeOK, Consistent, ProcRecord, StartClear, Step, Owning,
     Opening, Sweeping, Clock, Chunks
<1>2. StoreTypeOK'
  BY <1>1 DEF IInv, StoreTypeOK, Consistent, StartClear, Step, Owning,
     Directory, Content, Clock
<1>3. Exclusive'
  BY DEF IInv, StoreTypeOK, Exclusive, StartClear, Step, ProcRecord, Sweeping,
     Owning
<1>4. Consistent(p)'
  BY DEF IInv, StoreTypeOK, Exclusive, Consistent, Dated, StartClear, Step,
     ProcRecord, Directory, Content, Clock, Owning, Sweeping, Directories,
     Emptied
<1>5. \A q \in Procs \ {p} : Consistent(q)'
  <2>1. /\ proc[p].at # "idle" \/ \A q \in Procs \ Unrestricted : proc[q].at = "idle"
        /\ \A q \in Procs \ {p} : proc'[q] = proc[q]
    BY DEF IInv, StoreTypeOK, Opening, Owning, StartClear, Step
  <2>2. \A k \in Directories : disk'[k] # None
    BY DEF IInv, StoreTypeOK, Consistent, Directories, Directory, Owning, Opening, Clock, StartClear, Step
  <2>3. \A k \in Directories :
            lock[k] \in Procs \ {p} => lock'[k] = lock[k] /\ disk'[k] = disk[k]
    BY DEF IInv, Directories, StoreTypeOK, Consistent, Owning, Opening, StartClear, Step
  <2> QED
    BY <2>1, <2>2, <2>3, OthersKeep
<1>6. Dated'
  BY DEF IInv, StoreTypeOK, Exclusive, Consistent, Dated, StartClear, Step,
     ProcRecord, Directory, Content, Clock, Owning, Sweeping, Directories
<1> QED
  BY <1>2, <1>3, <1>4, <1>5, <1>6 DEF IInv

LEMMA FinishClearKeeps ==
    ASSUME IInv, NEW p \in Procs, FinishClear(p)
    PROVE  IInv'
<1>1. proc'[p] \in ProcRecord
  BY DEF IInv, StoreTypeOK, Consistent, ProcRecord, FinishClear, Step, Owning,
     Opening, Sweeping, Clock, Chunks
<1>2. StoreTypeOK'
  BY <1>1 DEF IInv, StoreTypeOK, Consistent, FinishClear, Step, Owning,
     Directory, Content, Clock
<1>3. Exclusive'
  BY DEF IInv, StoreTypeOK, Exclusive, FinishClear, Step, ProcRecord,
     Sweeping, Owning
<1>4. Consistent(p)'
  BY DEF IInv, StoreTypeOK, Exclusive, Consistent, Dated, FinishClear, Step,
     ProcRecord, Directory, Content, Clock, Owning, Sweeping, Directories,
     Emptied
<1>5. \A q \in Procs \ {p} : Consistent(q)'
  <2>1. /\ proc[p].at # "idle" \/ \A q \in Procs \ Unrestricted : proc[q].at = "idle"
        /\ \A q \in Procs \ {p} : proc'[q] = proc[q]
    BY DEF IInv, StoreTypeOK, Opening, Owning, FinishClear, Step
  <2>2. \A k \in Directories : disk'[k] # None
    BY DEF IInv, StoreTypeOK, Consistent, Directories, Directory, Owning, Opening, Clock, FinishClear, Step
  <2>3. \A k \in Directories :
            lock[k] \in Procs \ {p} => lock'[k] = lock[k] /\ disk'[k] = disk[k]
    BY DEF IInv, Directories, StoreTypeOK, Consistent, Owning, Opening, FinishClear, Step
  <2> QED
    BY <2>1, <2>2, <2>3, OthersKeep
<1>6. Dated'
  BY DEF IInv, StoreTypeOK, Exclusive, Consistent, Dated, FinishClear, Step,
     ProcRecord, Directory, Content, Clock, Owning, Sweeping, Directories
<1> QED
  BY <1>2, <1>3, <1>4, <1>5, <1>6 DEF IInv

LEMMA CloseKeeps ==
    ASSUME IInv, NEW p \in Procs, Close(p)
    PROVE  IInv'
<1>1. proc'[p] \in ProcRecord
  BY DEF IInv, StoreTypeOK, Consistent, ProcRecord, Close, Refreshed,
     NotRefreshed, Released, Idle, Owning, Opening, Sweeping, Clock, Chunks
<1>2. StoreTypeOK'
  BY <1>1 DEF IInv, StoreTypeOK, Consistent, Close, Refreshed, NotRefreshed,
     Released, Idle, Owning, Directory, Content, Clock
<1>3. Exclusive'
  BY DEF IInv, StoreTypeOK, Exclusive, Close, Refreshed, NotRefreshed,
     Released, Idle, ProcRecord, Sweeping, Owning
<1>4. Consistent(p)'
  BY DEF IInv, StoreTypeOK, Exclusive, Consistent, Dated, Close, Refreshed,
     NotRefreshed, Released, Idle, ProcRecord, Directory, Content, Clock,
     Owning, Sweeping, Directories, Emptied
<1>5. \A q \in Procs \ {p} : Consistent(q)'
  <2>1. /\ proc[p].at # "idle" \/ \A q \in Procs \ Unrestricted : proc[q].at = "idle"
        /\ \A q \in Procs \ {p} : proc'[q] = proc[q]
    BY DEF IInv, StoreTypeOK, Opening, Owning, Close, Refreshed, NotRefreshed, Released
  <2>2. \A k \in Directories : disk'[k] # None
    BY DEF IInv, StoreTypeOK, Consistent, Directories, Directory, Owning, Opening, Clock, Close, Refreshed, NotRefreshed, Released
  <2>3. \A k \in Directories :
            lock[k] \in Procs \ {p} => lock'[k] = lock[k] /\ disk'[k] = disk[k]
    BY DEF IInv, Directories, StoreTypeOK, Consistent, Owning, Opening, Close, Refreshed, NotRefreshed, Released
  <2> QED
    BY <2>1, <2>2, <2>3, OthersKeep
<1>6. Dated'
  <2> DEFINE t == proc[p].key
  <2>1. t \in Keys /\ disk[t] # None /\ disk[t].activity \in {None, proc[p].last}
    BY DEF IInv, Consistent, Close, Owning
  <2>2. CASE NotRefreshed(p)
    BY <2>2 DEF IInv, Dated, Directories, NotRefreshed
  <2>3. CASE Refreshed(p)
    <3>1. /\ \A k \in Keys \ {t} : disk'[k] = disk[k] /\ used'[k] = used[k]
          /\ used'[t] = clock /\ (disk'[t] = disk[t] \/ disk'[t].activity = clock)
          /\ disk'[t] = disk[t] => proc[p].last = clock \/ disk[t].activity = clock
      BY <2>1, <2>3 DEF IInv, StoreTypeOK, Directory, Refreshed
    <3> QED
      BY <2>1, <3>1 DEF IInv, Dated, Directories
  <2> QED
    BY <2>2, <2>3 DEF Close
<1> QED
  BY <1>2, <1>3, <1>4, <1>5, <1>6 DEF IInv

LEMMA CrashKeeps ==
    ASSUME IInv, NEW p \in Procs, Crash(p)
    PROVE  IInv'
<1>1. proc'[p] \in ProcRecord
  BY DEF IInv, StoreTypeOK, Consistent, ProcRecord, Crash, Released, Idle,
     Owning, Opening, Sweeping, Clock, Chunks
<1>2. StoreTypeOK'
  BY <1>1 DEF IInv, StoreTypeOK, Consistent, Crash, Released, Idle, Owning,
     Directory, Content, Clock
<1>3. Exclusive'
  BY DEF IInv, StoreTypeOK, Exclusive, Crash, Released, Idle, ProcRecord,
     Sweeping, Owning
<1>4. Consistent(p)'
  BY DEF IInv, StoreTypeOK, Exclusive, Consistent, Dated, Crash, Released,
     Idle, ProcRecord, Directory, Content, Clock, Owning, Sweeping,
     Directories, Emptied
<1>5. \A q \in Procs \ {p} : Consistent(q)'
  <2>1. /\ proc[p].at # "idle" \/ \A q \in Procs \ Unrestricted : proc[q].at = "idle"
        /\ \A q \in Procs \ {p} : proc'[q] = proc[q]
    BY DEF IInv, StoreTypeOK, Opening, Owning, Crash, Released
  <2>2. \A k \in Directories : disk'[k] # None
    BY DEF IInv, StoreTypeOK, Consistent, Directories, Directory, Owning, Opening, Clock, Crash, Released
  <2>3. \A k \in Directories :
            lock[k] \in Procs \ {p} => lock'[k] = lock[k] /\ disk'[k] = disk[k]
    BY DEF IInv, Directories, StoreTypeOK, Consistent, Owning, Opening, Crash, Released
  <2> QED
    BY <2>1, <2>2, <2>3, OthersKeep
<1>6. Dated'
  BY DEF IInv, StoreTypeOK, Exclusive, Consistent, Dated, Crash, Released,
     Idle, ProcRecord, Directory, Content, Clock, Owning, Sweeping,
     Directories
<1> QED
  BY <1>2, <1>3, <1>4, <1>5, <1>6 DEF IInv

LEMMA RemoveChunkKeeps ==
    ASSUME IInv, NEW p \in Procs, NEW i \in Chunks, RemoveChunk(p, i)
    PROVE  IInv'
<1> DEFINE t == Target(p)
<1>1. proc[p].at \in {"evict", "clear"} /\ proc[p].at \in Owning \cup {"evict"}
  BY DEF RemoveChunk, Owning
<1>2. t \in Keys /\ disk[t] \in Directory(t) /\ disk[t] # None /\ i \in ChunksOf[t]
  BY <1>1, TargetIsThere DEF RemoveChunk
<1>3. /\ disk'[t] = [disk[t] EXCEPT !.chunk[i] = "absent"] /\ DOMAIN disk' = Keys
      /\ \A k \in Keys \ {t} : disk'[k] = disk[k]
  BY <1>2 DEF IInv, StoreTypeOK, RemoveChunk
<1>4. disk'[t] \in Directory(t) /\ disk'[t] # None
  <2>1. "absent" \in Content
    BY DEF Content
  <2>2. [disk[t] EXCEPT !.chunk[i] = "absent"] \in Directory(t) \ {None}
    BY <1>2, <2>1, StillDirectory
  <2> QED
    BY <1>3, <2>2
<1>5. disk'[t].activity = disk[t].activity /\ disk'[t].litter = disk[t].litter
  BY <1>2, <1>3 DEF Directory
<1>6. Writes(p)
  BY <1>1, <1>3, <1>4, <1>5 DEF IInv, StoreTypeOK, RemoveChunk, Writes
<1>7. /\ StoreTypeOK' /\ Exclusive' /\ Dated' /\ Directories' = Directories
      /\ \A q \in Procs \ {p} : Consistent(q)'
  BY <1>1, <1>6, WritesKeep DEF RemoveChunk
<1>8. Consistent(p)'
  <2>1. disk'[proc[p].victim] # None \/ proc[p].at # "evict"
    BY <1>4 DEF Target
  <2>2. \/ proc[p].at # "clear"
        \/ /\ disk'[proc[p].key] # None
           /\ disk'[proc[p].key].activity = disk[proc[p].key].activity
    BY <1>4, <1>5 DEF Target
  <2> HIDE DEF t
  <2> QED
    BY <1>1, <1>7, <2>1, <2>2 DEF IInv, Consistent, RemoveChunk, Owning, Sweeping
<1> QED
  BY <1>7, <1>8 DEF IInv

LEMMA StageKeeps ==
    ASSUME IInv, NEW p \in Procs, NEW i \in Chunks, Stage(p, i)
    PROVE  IInv'
<1>1. proc'[p] \in ProcRecord
  BY DEF IInv, StoreTypeOK, Consistent, ProcRecord, Stage, Owning, Opening,
     Sweeping, Clock, Chunks
<1>2. StoreTypeOK'
  BY <1>1 DEF IInv, StoreTypeOK, Consistent, Stage, Owning, Directory,
     Content, Clock
<1>3. Exclusive'
  BY DEF IInv, StoreTypeOK, Exclusive, Stage, ProcRecord, Sweeping, Owning
<1>4. Consistent(p)'
  BY DEF IInv, StoreTypeOK, Exclusive, Consistent, Dated, Stage, ProcRecord,
     Directory, Content, Clock, Owning, Sweeping, Directories, Emptied
<1>5. \A q \in Procs \ {p} : Consistent(q)'
  <2>1. /\ proc[p].at # "idle" \/ \A q \in Procs \ Unrestricted : proc[q].at = "idle"
        /\ \A q \in Procs \ {p} : proc'[q] = proc[q]
    BY DEF IInv, StoreTypeOK, Opening, Owning, Stage
  <2>2. \A k \in Directories : disk'[k] # None
    BY DEF IInv, StoreTypeOK, Consistent, Directories, Directory, Owning, Opening, Clock, Stage
  <2>3. \A k \in Directories :
            lock[k] \in Procs \ {p} => lock'[k] = lock[k] /\ disk'[k] = disk[k]
    BY DEF IInv, Directories, StoreTypeOK, Consistent, Owning, Opening, Stage
  <2> QED
    BY <2>1, <2>2, <2>3, OthersKeep
<1>6. Dated'
  BY DEF IInv, StoreTypeOK, Exclusive, Consistent, Dated, Stage, ProcRecord,
     Directory, Content, Clock, Owning, Sweeping, Directories
<1> QED
  BY <1>2, <1>3, <1>4, <1>5, <1>6 DEF IInv

LEMMA DamageChunkKeeps ==
    ASSUME IInv, NEW k \in Keys, NEW i \in ChunksOf[k],
           NEW c \in {"bad", "short"}, DamageChunk(k, i, c)
    PROVE  IInv'
<1>1. StoreTypeOK'
  BY DEF IInv, StoreTypeOK, DamageChunk, Damaged, Directory, Content, Clock
<1>2. Exclusive'
  BY DEF IInv, StoreTypeOK, Exclusive, DamageChunk, Damaged, ProcRecord,
     Sweeping, Owning
<1>3. \A q \in Procs : Consistent(q)'
  BY DEF IInv, StoreTypeOK, Exclusive, Consistent, Dated, DamageChunk,
     Damaged, ProcRecord, Directory, Content, Clock, Owning, Sweeping,
     Directories, Emptied
<1>4. Dated'
  BY DEF IInv, StoreTypeOK, Exclusive, Consistent, Dated, DamageChunk,
     Damaged, ProcRecord, Directory, Content, Clock, Owning, Sweeping,
     Directories
<1> QED
  BY <1>1, <1>2, <1>3, <1>4 DEF IInv

LEMMA DamageRecordKeeps ==
    ASSUME IInv, NEW k \in Keys, DamageRecord(k)
    PROVE  IInv'
<1>1. StoreTypeOK'
  BY DEF IInv, StoreTypeOK, DamageRecord, Damaged, Directory, Content, Clock
<1>2. Exclusive'
  BY DEF IInv, StoreTypeOK, Exclusive, DamageRecord, Damaged, ProcRecord,
     Sweeping, Owning
<1>3. \A q \in Procs : Consistent(q)'
  BY DEF IInv, StoreTypeOK, Exclusive, Consistent, Dated, DamageRecord,
     Damaged, ProcRecord, Directory, Content, Clock, Owning, Sweeping,
     Directories, Emptied
<1>4. Dated'
  BY DEF IInv, StoreTypeOK, Exclusive, Consistent, Dated, DamageRecord,
     Damaged, ProcRecord, Directory, Content, Clock, Owning, Sweeping,
     Directories
<1> QED
  BY <1>1, <1>2, <1>3, <1>4 DEF IInv

LEMMA SetClockKeeps ==
    ASSUME IInv, SetClock
    PROVE  IInv'
<1>1. StoreTypeOK'
  BY DEF IInv, StoreTypeOK, SetClock, Directory, Content, Clock
<1>2. Exclusive'
  BY DEF IInv, StoreTypeOK, Exclusive, SetClock, ProcRecord, Sweeping, Owning
<1>3. \A q \in Procs : Consistent(q)'
  BY DEF IInv, StoreTypeOK, Exclusive, Consistent, Dated, SetClock,
     ProcRecord, Directory, Content, Clock, Owning, Sweeping, Directories,
     Emptied
<1>4. Dated'
  BY DEF IInv, StoreTypeOK, Exclusive, Consistent, Dated, SetClock,
     ProcRecord, Directory, Content, Clock, Owning, Sweeping, Directories
<1> QED
  BY <1>1, <1>2, <1>3, <1>4 DEF IInv


(* The invariant holds at the start and is kept by every step.             *)
LEMMA InitHolds == Init => IInv
<1> SUFFICES ASSUME Init PROVE IInv
  OBVIOUS
<1>1. StoreTypeOK
  BY IdleIsProc DEF Init, StoreTypeOK, Clock
<1> QED
  BY <1>1 DEF Init, IInv, Exclusive, Consistent, Dated, Directories, Idle, Owning, Sweeping

LEMMA NextKeeps == IInv /\ [Next]_vars => IInv'
<1> SUFFICES ASSUME IInv, [Next]_vars PROVE IInv'
  OBVIOUS
<1>1. ASSUME NEW p \in Procs, NEW k \in Keys,
             \/ OpenLimited(p, k) \/ OpenShared(p, k)
             \/ KeepUnknown(p, k) \/ KeepRecent(p, k) \/ Condemn(p, k)
      PROVE  IInv'
  BY <1>1, OpenLimitedKeeps, OpenSharedKeeps, KeepUnknownKeeps, KeepRecentKeeps, CondemnKeeps
<1>2. ASSUME NEW p \in Procs,
             \/ RemoveLitter(p) \/ Evict(p) \/ PassQuota(p) \/ MakeDirectory(p)
             \/ TakeLock(p) \/ WriteRecord(p) \/ Reserve(p) \/ OpenFails(p)
      PROVE  IInv'
  BY <1>2, RemoveLitterKeeps, EvictKeeps, PassQuotaKeeps, MakeDirectoryKeeps,
     TakeLockKeeps, WriteRecordKeeps, ReserveKeeps, OpenFailsKeeps
<1>3. ASSUME NEW p \in Procs,
             \/ Missing(p) \/ Write(p) \/ Reject(p) \/ Publish(p) \/ Touch(p)
             \/ StartClear(p) \/ FinishClear(p) \/ Close(p) \/ Crash(p)
      PROVE  IInv'
  BY <1>3, MissingKeeps, WriteKeeps, RejectKeeps, PublishKeeps, TouchKeeps,
     StartClearKeeps, FinishClearKeeps, CloseKeeps, CrashKeeps
<1>4. ASSUME NEW p \in Procs, NEW i \in Chunks, RemoveChunk(p, i) \/ Stage(p, i)
      PROVE  IInv'
  BY <1>4, RemoveChunkKeeps, StageKeeps
<1>5. ASSUME NEW k \in Keys, DamageRecord(k)
      PROVE  IInv'
  BY <1>5, DamageRecordKeeps
<1>6. ASSUME NEW k \in Keys, NEW i \in ChunksOf[k], NEW c \in {"bad", "short"},
             DamageChunk(k, i, c)
      PROVE  IInv'
  BY <1>6, DamageChunkKeeps
<1>7. CASE SetClock
  BY <1>7, SetClockKeeps
<1>8. CASE UNCHANGED vars
  BY <1>8 DEF vars, IInv, StoreTypeOK, Exclusive, Consistent, Dated, Directories, Emptied
<1> QED
  BY <1>1, <1>2, <1>3, <1>4, <1>5, <1>6, <1>7, <1>8 DEF Next

(* The inductive invariant holds in every reachable state.                 *)
THEOREM StoreInduction == Spec => []IInv
BY InitHolds, NextKeeps, PTL DEF Spec

(* The state of every process and of the disk is well typed, whatever is   *)
(* killed or damaged (chunks.rs:163).                                      *)
THEOREM StoreTypeCorrect == Spec => []StoreTypeOK
<1>1. IInv => StoreTypeOK
  BY DEF IInv
<1> QED
  BY <1>1, StoreInduction, PTL

(* A transfer that is open has one owner, which holds the lock file that   *)
(* is in its directory, and no expiry touches it (chunks.rs:235, :402).    *)
THEOREM TransfersAlwaysOwned == Spec => []TransfersAreOwned
<1>1. IInv => TransfersAreOwned
  BY DEF IInv, StoreTypeOK, Exclusive, Consistent, ProcRecord, Owning, Sweeping,
         TransfersAreOwned, OneOwnerPerTransfer, ActiveNeverEvicted, Owns
<1> QED
  BY <1>1, StoreInduction, PTL

-----------------------------------------------------------------------------
(* Which steps change the verified chunks and the owners.                  *)

Good(k, i) == disk[k] # None /\ disk[k].chunk[i] = "good"
SameGood == \A k \in Keys : \A i \in ChunksOf[k] : Good(k, i)' <=> Good(k, i)
SameOwners == \A p \in Procs, k \in Keys : Owns(p, k)' <=> Owns(p, k)

Gained(p) ==
    /\ Owns(p, proc[p].key) /\ proc[p].chunk \in ChunksOf[proc[p].key]
    /\ \A k \in Keys : \A i \in ChunksOf[k] :
          Good(k, i)' <=> Good(k, i) \/ (k = proc[p].key /\ i = proc[p].chunk)
    /\ SameOwners

Lost(k, i) ==
    /\ \A j \in Keys : \A x \in ChunksOf[j] :
          Good(j, x)' <=> Good(j, x) /\ ~ (j = k /\ x = i)
    /\ SameOwners
    /\ \/ faults'.damages > faults.damages
       \/ \E p \in Procs : Owns(p, k) /\ proc[p].at = "clear"
       \/ /\ \A p \in Procs : ~ Owns(p, k)
          /\ \E p \in Procs : proc[p].victim = k /\ used[k] + Retention <= proc[p].now

Acquired(p) ==
    /\ SameGood
    /\ proc[p].key \in Keys
    /\ \A q \in Procs : ~ Owns(q, proc[p].key)
    /\ \A q \in Procs, k \in Keys : Owns(q, k)' <=> Owns(q, k) \/ (q = p /\ k = proc[p].key)

Gone(p) ==
    /\ SameGood
    /\ \A q \in Procs, k \in Keys : Owns(q, k)' <=> Owns(q, k) /\ q # p

(* A process that owns nothing before and after disturbs no owner.         *)
LEMMA OwnersKept ==
    ASSUME NEW p \in Procs, \A q \in Procs \ {p} : proc'[q] = proc[q],
           proc[p].at \notin Owning, proc'[p].at \notin Owning
    PROVE  SameOwners
<1> SUFFICES ASSUME NEW q \in Procs, NEW k \in Keys PROVE Owns(q, k)' <=> Owns(q, k)
  BY DEF SameOwners
<1>1. CASE q = p
  BY <1>1 DEF Owns
<1>2. CASE q # p
  BY <1>2 DEF Owns
<1> QED
  BY <1>1, <1>2

LEMMA OpeningIsQuiet ==
    ASSUME IInv, NEW p \in Procs, NEW k \in Keys,
           \/ OpenLimited(p, k) \/ OpenShared(p, k)
           \/ KeepUnknown(p, k) \/ KeepRecent(p, k) \/ Condemn(p, k)
    PROVE  SameGood /\ SameOwners
<1>1. SameGood
  <2>1. CASE KeepUnknown(p, k)
    <3>1. disk[k] \in Directory(k) /\ proc[p].now \in Clock
      BY <2>1 DEF IInv, StoreTypeOK, Consistent, KeepUnknown, Visit, Directories, ProcRecord
    <3>2. disk' = [disk EXCEPT ![k] = [disk[k] EXCEPT !.activity = proc[p].now]]
      BY <2>1 DEF KeepUnknown
    <3>3. disk[k] # None /\ disk'[k] # None /\ disk'[k].chunk = disk[k].chunk
      BY <3>1, <3>2, StillDirectory DEF IInv, StoreTypeOK, Directory
    <3> QED
      BY <3>2, <3>3 DEF IInv, StoreTypeOK, SameGood, Good
  <2>2. CASE disk' = disk
    BY <2>2 DEF SameGood, Good
  <2> QED
    BY <2>1, <2>2 DEF OpenLimited, OpenShared, KeepRecent, Condemn
<1>2. CASE OpenLimited(p, k) \/ OpenShared(p, k)
  <2>1. \A q \in Procs \ {p} : proc'[q] = proc[q]
    BY <1>2 DEF IInv, StoreTypeOK, OpenLimited, OpenShared
  <2>2. proc[p].at = "idle" /\ proc'[p].at \in {"expire", "mkdir"}
    <3>1. CASE OpenLimited(p, k)
      <4>1. proc[p].at = "idle"
        BY <3>1 DEF OpenLimited
      <4>2. proc'[p].at = "expire"
        BY <3>1 DEF IInv, StoreTypeOK, OpenLimited, Idle
      <4> QED
        BY <4>1, <4>2
    <3>2. CASE OpenShared(p, k)
      BY <3>2 DEF IInv, StoreTypeOK, OpenShared, Idle
    <3> QED
      BY <1>2, <3>1, <3>2
  <2>3. proc[p].at \notin Owning /\ proc'[p].at \notin Owning
    BY <2>2 DEF Owning
  <2> QED
    BY <1>1, <2>1, <2>3, OwnersKept
<1>3. CASE KeepUnknown(p, k) \/ KeepRecent(p, k) \/ Condemn(p, k)
  <2>1. \A q \in Procs \ {p} : proc'[q] = proc[q]
    BY <1>3 DEF IInv, StoreTypeOK, KeepUnknown, KeepRecent, Condemn
  <2>2. proc[p].at = "expire" /\ proc'[p].at \in {"expire", "evict"}
    BY <1>3 DEF IInv, StoreTypeOK, ProcRecord, KeepUnknown, KeepRecent, Condemn, Visit
  <2>3. proc[p].at \notin Owning /\ proc'[p].at \notin Owning
    BY <2>2 DEF Owning
  <2> QED
    BY <1>1, <2>1, <2>3, OwnersKept
<1> QED
  BY <1>1, <1>2, <1>3

(* A step that leaves the disk alone leaves the verified chunks alone.     *)
LEMMA DiskKept ==
    ASSUME disk' = disk
    PROVE  SameGood
BY DEF SameGood, Good

LEMMA SweepingIsQuiet ==
    ASSUME IInv, NEW p \in Procs, RemoveLitter(p) \/ Evict(p)
    PROVE  SameGood /\ SameOwners
<1>1. CASE RemoveLitter(p)
  <2>1. SameGood
    BY <1>1 DEF IInv, StoreTypeOK, Consistent, RemoveLitter, Target, Directory,
       ProcRecord, Owning, Sweeping, SameGood, Good
  <2>2. SameOwners
    BY <1>1 DEF RemoveLitter, SameOwners, Owns
  <2> QED
    BY <2>1, <2>2
<1>2. CASE Evict(p)
  <2>1. SameGood
    <3>1. CASE RemoveRecord(p) /\ proc[p].at = "evict"
      BY <3>1 DEF IInv, StoreTypeOK, Consistent, RemoveRecord, Directory,
         ProcRecord, Sweeping, SameGood, Good
    <3>2. CASE RemoveLock(p)
      BY <3>2, DiskKept DEF RemoveLock
    <3>3. CASE proc[p].at = "rmdir" /\ RemoveDirectory(p)
      BY <3>3 DEF IInv, StoreTypeOK, Consistent, RemoveDirectory, Emptied,
         ProcRecord, Sweeping, SameGood, Good
    <3> QED
      BY <1>2, <3>1, <3>2, <3>3 DEF Evict, Step
  <2>2. SameOwners
    BY <1>2 DEF IInv, StoreTypeOK, Evict, Step, RemoveRecord, RemoveLock,
       RemoveDirectory, ProcRecord, Owning, SameOwners, Owns
  <2> QED
    BY <2>1, <2>2
<1> QED
  BY <1>1, <1>2

LEMMA EnteringIsQuiet ==
    ASSUME IInv, NEW p \in Procs,
           PassQuota(p) \/ MakeDirectory(p) \/ TakeLock(p) \/ OpenFails(p)
    PROVE  SameGood /\ SameOwners
<1>1. SameGood
  <2>1. CASE MakeDirectory(p)
    BY <2>1 DEF IInv, StoreTypeOK, Consistent, MakeDirectory, Step, EmptyDirectory,
       SameGood, Good
  <2> QED
    BY <2>1, DiskKept DEF PassQuota, TakeLock, OpenFails
<1>2. SameOwners
  BY DEF IInv, StoreTypeOK, PassQuota, MakeDirectory, TakeLock, OpenFails, Step, Idle,
     ProcRecord, Owning, Opening, SameOwners, Owns
<1> QED
  BY <1>1, <1>2

LEMMA UsingIsQuiet ==
    ASSUME IInv, NEW p \in Procs,
           \/ Reserve(p) \/ Missing(p) \/ Write(p) \/ Reject(p) \/ Touch(p)
           \/ StartClear(p) \/ FinishClear(p)
    PROVE  SameGood /\ SameOwners
<1>1. SameGood
  <2> DEFINE k == proc[p].key
  <2>1. CASE Write(p) \/ Reject(p)
    <3>1. k \in Keys /\ disk[k] \in Directory(k) /\ disk[k] # None
      BY <2>1 DEF IInv, StoreTypeOK, Consistent, Write, Reject, Owning
    <3>2. proc[p].staged \in Nat /\ disk[k].litter \in Nat
      BY <3>1 DEF IInv, StoreTypeOK, ProcRecord, Directory
    <3>3. \E n \in Nat : disk' = [disk EXCEPT ![k] = [disk[k] EXCEPT !.litter = n]]
      <4>1. CASE Write(p)
        <5>1. disk[k].litter + 1 \in Nat
          BY <3>2
        <5> QED
          BY <4>1, <5>1 DEF Write
      <4>2. CASE Reject(p)
        <5>1. disk[k].litter - proc[p].staged \in Nat
          BY <3>2, <4>2 DEF IInv, Consistent, Reject
        <5> QED
          BY <4>2, <5>1 DEF Reject
      <4> QED
        BY <2>1, <4>1, <4>2
    <3> HIDE DEF k
    <3>4. disk'[k] # None /\ disk'[k].chunk = disk[k].chunk
      BY <3>1, <3>3, StillDirectory DEF IInv, StoreTypeOK, Directory
    <3> QED
      BY <3>1, <3>3, <3>4 DEF IInv, StoreTypeOK, SameGood, Good
  <2>2. CASE Touch(p)
    BY <2>2 DEF IInv, StoreTypeOK, Consistent, Touch, Refreshed, NotRefreshed, Directory,
       Owning, SameGood, Good
  <2> QED
    BY <2>1, <2>2, DiskKept DEF Reserve, Missing, StartClear, FinishClear
<1>2. SameOwners
  BY DEF IInv, StoreTypeOK, Reserve, Missing, Write, Reject, Touch, StartClear,
     FinishClear, Step, ProcRecord, Owning, SameOwners, Owns
<1> QED
  BY <1>1, <1>2

LEMMA StageIsQuiet ==
    ASSUME IInv, NEW p \in Procs, NEW i \in Chunks, Stage(p, i)
    PROVE  SameGood /\ SameOwners
BY DiskKept DEF IInv, StoreTypeOK, Stage, ProcRecord, Owning, SameOwners, Owns

LEMMA PublishGains ==
    ASSUME IInv, NEW p \in Procs, Publish(p)
    PROVE  Gained(p)
<1>1. SameOwners
  BY DEF IInv, StoreTypeOK, Publish, ProcRecord, Owning, SameOwners, Owns
<1> DEFINE k == proc[p].key  i == proc[p].chunk
<1>2. proc[p].at = "stage" /\ proc[p].at \in Owning \cup {"evict"} /\ Target(p) = k
  BY DEF Publish, Owning, Target
<1>3. k \in Keys /\ disk[k] \in Directory(k) /\ disk[k] # None
  BY <1>2, TargetIsThere
<1>4. i \in ChunksOf[k] /\ Owns(p, k)
  BY <1>2 DEF IInv, Consistent, Owns, Owning
<1>5. /\ disk'[k].chunk = [disk[k].chunk EXCEPT ![i] = "good"]
      /\ disk[k].chunk \in [ChunksOf[k] -> Content]
      /\ \A j \in Keys \ {k} : disk'[j] = disk[j]
  BY <1>3 DEF IInv, StoreTypeOK, Directory, Publish
<1>6. disk'[k] # None
  <2>1. Consistent(p)'
    BY PublishKeeps DEF IInv
  <2>2. proc'[p].at = "touch" /\ proc'[p].key = k
    BY DEF IInv, StoreTypeOK, Publish, ProcRecord
  <2> QED
    BY <2>1, <2>2 DEF Consistent, Owning
<1> QED
  BY <1>1, <1>3, <1>4, <1>5, <1>6 DEF Gained, Good

LEMMA RecordAcquires ==
    ASSUME IInv, NEW p \in Procs, WriteRecord(p)
    PROVE  Acquired(p)
<1>1. SameGood
  BY DEF IInv, StoreTypeOK, Consistent, WriteRecord, Directory, SameGood, Good
<1> QED
  BY <1>1 DEF IInv, StoreTypeOK, Consistent, WriteRecord, ProcRecord, Owning,
     Acquired, Owns

LEMMA ClosingReleases ==
    ASSUME IInv, NEW p \in Procs, Close(p) \/ Crash(p)
    PROVE  Gone(p)
<1>1. SameGood
  <2>1. CASE Close(p)
    BY <2>1 DEF IInv, StoreTypeOK, Consistent, Close, Refreshed, NotRefreshed, Directory,
       Owning, SameGood, Good
  <2> QED
    BY <2>1, DiskKept DEF Crash
<1> QED
  BY <1>1 DEF IInv, StoreTypeOK, Close, Crash, Idle, ProcRecord, Owning, Gone, Owns

LEMMA RemovalLoses ==
    ASSUME IInv, NEW p \in Procs, NEW i \in Chunks, RemoveChunk(p, i)
    PROVE  Target(p) \in Keys /\ i \in ChunksOf[Target(p)] /\ Lost(Target(p), i)
<1> DEFINE t == Target(p)
<1>1. /\ t \in Keys /\ disk[t] # None /\ i \in ChunksOf[t]
      /\ disk' = [disk EXCEPT ![t].chunk[i] = "absent"]
  BY DEF IInv, StoreTypeOK, Consistent, RemoveChunk, Target, ProcRecord, Owning, Sweeping
<1>2. SameOwners
  BY DEF RemoveChunk, SameOwners, Owns
<1>3. disk'[t] # None
  <2> HIDE DEF t
  <2>1. disk[t] \in Directory(t) /\ disk'[t] = [disk[t] EXCEPT !.chunk[i] = "absent"]
    BY <1>1 DEF IInv, StoreTypeOK
  <2> QED
    BY <1>1, <2>1, StillDirectory DEF Content
<1>4. \A j \in Keys : \A x \in ChunksOf[j] :
          Good(j, x)' <=> Good(j, x) /\ ~ (j = t /\ x = i)
  BY <1>1, <1>3 DEF IInv, StoreTypeOK, Directory, Good
<1>5. CASE proc[p].at = "evict"
  BY <1>1, <1>2, <1>4, <1>5
     DEF IInv, Exclusive, Consistent, Target, Owning, Sweeping, Lost, Owns
<1>6. CASE proc[p].at = "clear"
  BY <1>1, <1>2, <1>4, <1>6 DEF Target, Owning, Lost, Owns
<1> QED
  BY <1>1, <1>5, <1>6 DEF RemoveChunk

LEMMA DamageLoses ==
    ASSUME IInv, NEW k \in Keys, NEW i \in ChunksOf[k], NEW c \in {"bad", "short"},
           DamageChunk(k, i, c)
    PROVE  Lost(k, i)
<1>1. SameOwners
  BY DEF DamageChunk, SameOwners, Owns
<1>2. disk[k] \in Directory(k) /\ disk'[k] = [disk[k] EXCEPT !.chunk[i] = c]
  BY DEF IInv, StoreTypeOK, DamageChunk
<1>3. disk'[k] # None
  BY <1>2, StillDirectory DEF Content
<1>4. \A j \in Keys : \A x \in ChunksOf[j] :
          Good(j, x)' <=> Good(j, x) /\ ~ (j = k /\ x = i)
  BY <1>2, <1>3 DEF IInv, StoreTypeOK, DamageChunk, Directory, Good
<1>5. faults'.damages > faults.damages
  BY DEF IInv, StoreTypeOK, DamageChunk, Damaged
<1> QED
  BY <1>1, <1>4, <1>5 DEF Lost

LEMMA SurroundingsAreQuiet ==
    ASSUME IInv, SetClock \/ (\E k \in Keys : DamageRecord(k)) \/ UNCHANGED vars
    PROVE  SameGood /\ SameOwners
<1>1. SameGood
  BY DiskKept DEF IInv, StoreTypeOK, SetClock, DamageRecord, Directory, vars, SameGood, Good
<1>2. SameOwners
  BY DEF SetClock, DamageRecord, vars, SameOwners, Owns
<1> QED
  BY <1>1, <1>2

(* The verified chunks and the owners change in these ways only.           *)
LEMMA Moves ==
    ASSUME IInv, [Next]_vars
    PROVE  \/ SameGood /\ SameOwners
           \/ \E p \in Procs : Gained(p) \/ Acquired(p) \/ Gone(p)
           \/ \E k \in Keys : \E i \in ChunksOf[k] : Lost(k, i)
BY OpeningIsQuiet, SweepingIsQuiet, EnteringIsQuiet, UsingIsQuiet, StageIsQuiet,
   PublishGains, RecordAcquires, ClosingReleases, RemovalLoses, DamageLoses,
   SurroundingsAreQuiet DEF Next

(* A verified chunk goes only by damage, by its owner clearing the         *)
(* transfer, or a whole retention period after the transfer was last used  *)
(* (chunks.rs:333, :350, :402).                                            *)
THEOREM EvictionIsPatient == Spec => EvictedOnlyWhenIdle
<1>1. ASSUME IInv, [Next]_vars, NEW k \in Keys, NEW i \in ChunksOf[k]
      PROVE  Retained(k, i)
  BY <1>1, Moves DEF SameGood, Gained, Acquired, Gone, Lost, Good, Retained
<1> QED
  <2>1. IInv /\ [Next]_vars => [\A k \in Keys : \A i \in ChunksOf[k] : Retained(k, i)]_vars
    BY <1>1
  <2> QED
    BY <2>1, StoreInduction, PTL DEF Spec, EvictedOnlyWhenIdle

-----------------------------------------------------------------------------
(* The refinement of Cache.                                                *)

(* The owner of module Cache is the process that has the transfer open.    *)
LEMMA OwnerIs ==
    IInv => \A k \in Keys :
        /\ \A p \in Procs : Owns(p, k) => OwnerOf(k) = p
        /\ (\A p \in Procs : ~ Owns(p, k)) => OwnerOf(k) = None
<1> SUFFICES ASSUME IInv, NEW k \in Keys
             PROVE  /\ \A p \in Procs : Owns(p, k) => OwnerOf(k) = p
                    /\ (\A p \in Procs : ~ Owns(p, k)) => OwnerOf(k) = None
  OBVIOUS
<1>1. \A p, q \in Procs : Owns(p, k) /\ Owns(q, k) => p = q
  BY DEF IInv, Consistent, Owns
<1> QED
  BY <1>1 DEF OwnerOf

LEMMA VerifiedIs ==
    ASSUME NEW k \in Keys
    PROVE  /\ VerifiedOf(k) = {i \in ChunksOf[k] : Good(k, i)}
           /\ VerifiedOf(k)' = {i \in ChunksOf[k] : Good(k, i)'}
BY DEF VerifiedOf, Good

(* A cold cache has no owner and no verified chunk.                        *)
LEMMA InitRefines == Init => A!Init
<1> SUFFICES ASSUME Init PROVE A!Init
  OBVIOUS
<1>1. \A k \in Keys : OwnerOf(k) = None
  BY DEF Init, Idle, Owning, Owns, OwnerOf
<1>2. \A k \in Keys : VerifiedOf(k) = {}
  BY DEF Init, VerifiedOf
<1> QED
  BY <1>1, <1>2 DEF A!Init

(* Every step maps to a step of module Cache or to none.                   *)
LEMMA NextRefines ==
    ASSUME IInv, IInv', [Next]_vars
    PROVE  [A!Next]_(A!vars)
<1> DEFINE owner == [k \in Keys |-> OwnerOf(k)]
           verified == [k \in Keys |-> VerifiedOf(k)]
<1>1. \A k \in Keys :
          /\ \A p \in Procs : Owns(p, k) => OwnerOf(k) = p
          /\ (\A p \in Procs : ~ Owns(p, k)) => OwnerOf(k) = None
  BY OwnerIs
<1>2. \A k \in Keys :
          /\ \A p \in Procs : Owns(p, k)' => OwnerOf(k)' = p
          /\ (\A p \in Procs : ~ Owns(p, k)') => OwnerOf(k)' = None
  <2>1. (IInv => \A k \in Keys :
            /\ \A p \in Procs : Owns(p, k) => OwnerOf(k) = p
            /\ (\A p \in Procs : ~ Owns(p, k)) => OwnerOf(k) = None)'
    BY OwnerIs, PTL
  <2> QED
    BY <2>1
<1>3. SameGood => verified' = verified
  BY VerifiedIs DEF SameGood
<1>4. SameOwners => owner' = owner
  <2> SUFFICES ASSUME SameOwners, NEW k \in Keys PROVE OwnerOf(k)' = OwnerOf(k)
    OBVIOUS
  <2>1. \A p \in Procs : Owns(p, k)' <=> Owns(p, k)
    BY DEF SameOwners
  <2> QED
    BY <1>1, <1>2, <2>1
<1>5. CASE SameGood /\ SameOwners
  BY <1>3, <1>4, <1>5 DEF A!vars
<1>6. ASSUME NEW p \in Procs, Gained(p) PROVE A!Next
  <2> DEFINE k == proc[p].key
             i == proc[p].chunk
  <2>1. k \in Keys /\ Owns(p, k) /\ i \in ChunksOf[k]
    BY <1>6 DEF IInv, Consistent, Gained, Owns, Owning
  <2>2. owner' = owner /\ owner[k] = p /\ p # None
    BY <1>1, <1>4, <1>6, <2>1 DEF Gained
  <2>3. verified' = [verified EXCEPT ![k] = @ \cup {i}]
    <3>1. \A j \in Keys : \A x \in ChunksOf[j] :
              Good(j, x)' <=> Good(j, x) \/ (j = k /\ x = i)
      BY <1>6 DEF Gained
    <3> HIDE DEF k, i
    <3>2. \A j \in Keys : VerifiedOf(j)' = IF j = k THEN VerifiedOf(j) \cup {i} ELSE VerifiedOf(j)
      BY <2>1, <3>1, VerifiedIs
    <3> QED
      BY <2>1, <3>2
  <2>4. A!Receive(k, i)
    BY <2>2, <2>3 DEF A!Receive
  <2> QED
    BY <2>1, <2>4 DEF A!Next
<1>7. ASSUME NEW p \in Procs, Acquired(p) PROVE A!Next
  <2> DEFINE k == proc[p].key
  <2>1. k \in Keys /\ owner[k] = None
    BY <1>1, <1>7 DEF Acquired
  <2>2. \A j \in Keys : OwnerOf(j)' = IF j = k THEN p ELSE OwnerOf(j)
    <3> SUFFICES ASSUME NEW j \in Keys
                 PROVE  OwnerOf(j)' = IF j = k THEN p ELSE OwnerOf(j)
      OBVIOUS
    <3>1. \A q \in Procs : Owns(q, j)' <=> Owns(q, j) \/ (q = p /\ j = k)
      BY <1>7 DEF Acquired
    <3> HIDE DEF k
    <3> QED
      BY <1>1, <1>2, <3>1
  <2>3. owner' = [owner EXCEPT ![k] = p] /\ verified' = verified
    BY <1>3, <1>7, <2>1, <2>2 DEF Acquired
  <2>4. A!Acquire(p, k)
    BY <2>1, <2>3 DEF A!Acquire
  <2> QED
    BY <2>1, <2>4 DEF A!Next
<1>8. ASSUME NEW p \in Procs, Gone(p) PROVE A!Next \/ UNCHANGED A!vars
  <2>1. verified' = verified
    BY <1>3, <1>8 DEF Gone
  <2>2. CASE \A k \in Keys : ~ Owns(p, k)
    <3>1. SameOwners
      BY <1>8, <2>2 DEF Gone, SameOwners
    <3> QED
      BY <1>4, <2>1, <3>1 DEF A!vars
  <2>3. ASSUME NEW k \in Keys, Owns(p, k) PROVE A!Next
    <3>1. \A j \in Keys : Owns(p, j) => j = k
      BY <2>3 DEF Owns
    <3>2. owner[k] = p /\ p # None
      BY <1>1, <2>3
    <3>3. \A j \in Keys : OwnerOf(j)' = IF j = k THEN None ELSE OwnerOf(j)
      <4> SUFFICES ASSUME NEW j \in Keys
                   PROVE  OwnerOf(j)' = IF j = k THEN None ELSE OwnerOf(j)
        OBVIOUS
      <4>1. \A q \in Procs : Owns(q, j)' <=> Owns(q, j) /\ q # p
        BY <1>8 DEF Gone
      <4>2. CASE j = k
        <5>1. \A q \in Procs : Owns(q, k) => q = p
          BY <1>1, <2>3
        <5> QED
          BY <1>2, <4>1, <4>2, <5>1
      <4>3. CASE j # k
        BY <1>1, <1>2, <3>1, <4>1, <4>3
      <4> QED
        BY <4>2, <4>3
    <3>4. owner' = [owner EXCEPT ![k] = None]
      BY <3>3
    <3>5. A!Release(k)
      BY <2>1, <3>2, <3>4 DEF A!Release
    <3> QED
      BY <3>5 DEF A!Next
  <2> QED
    BY <2>2, <2>3
<1>9. ASSUME NEW k \in Keys, NEW i \in ChunksOf[k], Lost(k, i)
      PROVE  A!Next \/ UNCHANGED A!vars
  <2>1. owner' = owner
    BY <1>4, <1>9 DEF Lost
  <2>2. \A j \in Keys : VerifiedOf(j)' = IF j = k THEN VerifiedOf(j) \ {i} ELSE VerifiedOf(j)
    BY <1>9, VerifiedIs DEF Lost
  <2>3. verified' = [verified EXCEPT ![k] = @ \ {i}]
    BY <2>2
  <2>4. CASE i \in VerifiedOf(k)
    <3>1. A!Lose(k, i)
      BY <2>1, <2>3, <2>4 DEF A!Lose
    <3> QED
      BY <3>1 DEF A!Next
  <2>5. CASE i \notin VerifiedOf(k)
    <3>1. verified' = verified
      BY <2>2, <2>5
    <3> QED
      BY <2>1, <3>1 DEF A!vars
  <2> QED
    BY <2>4, <2>5
<1> QED
  BY Moves, <1>5, <1>6, <1>7, <1>8, <1>9

(* An engine that knows owners and verified chunks sees module Cache,      *)
(* whatever kills, damage, clocks and other processes do (chunks.rs:180).  *)
THEOREM StoreImplementsCache == Spec => ImplementsCache
<1>1. IInv /\ IInv' /\ [Next]_vars => [A!Next]_(A!vars)
  BY NextRefines
<1> QED
  BY <1>1, InitRefines, StoreInduction, PTL DEF Spec, ImplementsCache, A!Spec

-----------------------------------------------------------------------------
(* No torn chunk.                                                          *)

Whole(d, k) == d = None \/ \A i \in ChunksOf[k] : d.chunk[i] \in {"absent", "good"}
AllWhole == \A k \in Keys : Whole(disk[k], k)

LEMMA OpeningKeepsWhole ==
    ASSUME IInv, AllWhole, NEW p \in Procs, NEW k \in Keys,
           \/ OpenLimited(p, k) \/ OpenShared(p, k)
           \/ KeepUnknown(p, k) \/ KeepRecent(p, k) \/ Condemn(p, k)
    PROVE  AllWhole'
<1>1. CASE KeepUnknown(p, k)
  BY <1>1 DEF IInv, StoreTypeOK, Consistent, KeepUnknown, Visit, Directories, Directory,
     AllWhole, Whole
<1> QED
  BY <1>1 DEF OpenLimited, OpenShared, KeepRecent, Condemn, AllWhole, Whole

LEMMA RemovingKeepsWhole ==
    ASSUME IInv, AllWhole, NEW p \in Procs,
           RemoveLitter(p) \/ Evict(p) \/ \E i \in Chunks : RemoveChunk(p, i)
    PROVE  AllWhole'
<1>1. ASSUME RemoveLitter(p) \/ \E i \in Chunks : RemoveChunk(p, i)
      PROVE  AllWhole'
  <2> DEFINE t == Target(p)
  <2>1. t \in Keys /\ disk[t] # None /\ disk[t] \in Directory(t)
    BY <1>1 DEF IInv, StoreTypeOK, Consistent, RemoveLitter, RemoveChunk, Target,
       ProcRecord, Owning, Sweeping
  <2>2. \/ disk' = [disk EXCEPT ![t].litter = 0]
        \/ \E i \in ChunksOf[t] : disk' = [disk EXCEPT ![t].chunk[i] = "absent"]
    BY <1>1 DEF RemoveLitter, RemoveChunk
  <2> HIDE DEF t
  <2> QED
    BY <2>1, <2>2 DEF IInv, StoreTypeOK, Directory, AllWhole, Whole
<1>2. CASE Evict(p)
  <2> DEFINE v == proc[p].victim
  <2>1. v \in Keys /\ disk[v] \in Directory(v)
    BY <1>2 DEF IInv, StoreTypeOK, Consistent, Evict, Step, ProcRecord, Sweeping
  <2>2. \/ disk' = [disk EXCEPT ![v].activity = None]
        \/ disk' = disk
        \/ disk' = [disk EXCEPT ![v] = None]
    BY <1>2 DEF Evict, RemoveRecord, RemoveLock, RemoveDirectory
  <2> HIDE DEF v
  <2> QED
    BY <2>1, <2>2 DEF IInv, StoreTypeOK, Directory, AllWhole, Whole
<1> QED
  BY <1>1, <1>2

LEMMA OwningKeepsWhole ==
    ASSUME IInv, AllWhole, NEW p \in Procs,
           \/ PassQuota(p) \/ MakeDirectory(p) \/ TakeLock(p) \/ WriteRecord(p)
           \/ Reserve(p) \/ OpenFails(p) \/ Missing(p) \/ Write(p) \/ Reject(p)
           \/ Publish(p) \/ Touch(p) \/ StartClear(p) \/ FinishClear(p)
           \/ Close(p) \/ Crash(p) \/ \E i \in Chunks : Stage(p, i)
    PROVE  AllWhole'
<1>1. CASE MakeDirectory(p) \/ WriteRecord(p)
  BY <1>1 DEF IInv, StoreTypeOK, Consistent, MakeDirectory, WriteRecord, Step,
     EmptyDirectory, Directory, AllWhole, Whole
<1>2. ASSUME Write(p) \/ Reject(p) \/ Publish(p)
      PROVE  AllWhole'
  <2> DEFINE k == proc[p].key
  <2>1. k \in Keys /\ disk[k] # None /\ disk[k] \in Directory(k)
    BY <1>2 DEF IInv, StoreTypeOK, Consistent, Write, Reject, Publish, ProcRecord, Owning
  <2>2. \E n : \/ disk' = [disk EXCEPT ![k].litter = n]
               \/ \E i : disk' = [disk EXCEPT ![k].litter = n, ![k].chunk[i] = "good"]
    BY <1>2 DEF Write, Reject, Publish
  <2> HIDE DEF k
  <2> QED
    BY <2>1, <2>2 DEF IInv, StoreTypeOK, Directory, AllWhole, Whole
<1>3. CASE Touch(p) \/ Close(p)
  BY <1>3 DEF IInv, StoreTypeOK, Consistent, Touch, Close, Refreshed, NotRefreshed,
     Directory, Owning, AllWhole, Whole
<1> QED
  BY <1>1, <1>2, <1>3
     DEF PassQuota, TakeLock, Reserve, OpenFails, Missing, StartClear, FinishClear,
         Crash, Stage, AllWhole, Whole

(* While nobody damages anything, every chunk file is whole.               *)
Undamaged == faults.damages = 0 => AllWhole

LEMMA StaysUndamaged ==
    ASSUME IInv, Undamaged, [Next]_vars
    PROVE  Undamaged'
<1> SUFFICES ASSUME faults'.damages = 0 PROVE AllWhole'
  BY DEF Undamaged
<1>0. faults.damages = 0 => AllWhole
  BY DEF Undamaged
<1>1. CASE UNCHANGED vars \/ SetClock
  BY <1>0, <1>1 DEF vars, SetClock, AllWhole, Whole
<1>2. CASE \/ \E k \in Keys : DamageRecord(k)
           \/ \E k \in Keys : \E i \in ChunksOf[k], c \in {"bad", "short"} :
                  DamageChunk(k, i, c)
  BY <1>2 DEF IInv, StoreTypeOK, DamageRecord, DamageChunk, Damaged
<1>3. ASSUME NEW p \in Procs, NEW k \in Keys,
             \/ OpenLimited(p, k) \/ OpenShared(p, k)
             \/ KeepUnknown(p, k) \/ KeepRecent(p, k) \/ Condemn(p, k)
      PROVE  AllWhole'
  <2>1. faults' = faults
    BY <1>3 DEF OpenLimited, OpenShared, KeepUnknown, KeepRecent, Condemn
  <2> QED
    BY <1>0, <1>3, <2>1, OpeningKeepsWhole
<1>4. ASSUME NEW p \in Procs,
             RemoveLitter(p) \/ Evict(p) \/ \E i \in Chunks : RemoveChunk(p, i)
      PROVE  AllWhole'
  <2>1. faults' = faults
    BY <1>4 DEF RemoveLitter, RemoveChunk, Evict, RemoveRecord, RemoveLock, RemoveDirectory
  <2> QED
    BY <1>0, <1>4, <2>1, RemovingKeepsWhole
<1>5. ASSUME NEW p \in Procs,
             \/ PassQuota(p) \/ MakeDirectory(p) \/ TakeLock(p) \/ WriteRecord(p)
             \/ Reserve(p) \/ OpenFails(p) \/ Missing(p) \/ Write(p) \/ Reject(p)
             \/ Publish(p) \/ Touch(p) \/ StartClear(p) \/ FinishClear(p)
             \/ Close(p) \/ Crash(p) \/ \E i \in Chunks : Stage(p, i)
      PROVE  AllWhole'
  <2>1. faults'.damages = faults.damages
    BY <1>5
       DEF IInv, StoreTypeOK, PassQuota, MakeDirectory, TakeLock, WriteRecord, Reserve,
           OpenFails, Missing, Write, Reject, Publish, Touch, StartClear, FinishClear,
           Close, Crash, Stage
  <2> QED
    BY <1>0, <1>5, <2>1, OwningKeepsWhole
<1> QED
  BY <1>1, <1>2, <1>3, <1>4, <1>5 DEF Next

\* No chunk file is torn in any reachable state without damage.
THEOREM WholeInduction == Spec => []Undamaged
<1>1. Init => Undamaged
  BY DEF Init, Undamaged, AllWhole, Whole
<1> QED
  BY <1>1, StaysUndamaged, StoreInduction, PTL DEF Spec

(* Whatever was killed, a chunk file that is not its chunk was damaged     *)
(* from outside (chunks.rs:294).                                           *)
THEOREM NeverTorn == Spec => []NoTornChunk
<1>1. Undamaged => NoTornChunk
  BY DEF Undamaged, AllWhole, Whole, NoTornChunk, Directories
<1> QED
  BY <1>1, WholeInduction, PTL

-----------------------------------------------------------------------------
(* Sums over finite sets, as MapThenSumSet of the community modules makes  *)
(* them: an equation for all subsets, solved level by level.               *)

\* A set of naturals has a least element; module WellFoundedInduction.
LEMMA LeastExists ==
    ASSUME NEW S \in SUBSET Nat, S # {}
    PROVE  \E x \in S : \A y \in S : x <= y
<1> DEFINE R == OpToRel(<, Nat)
<1>1. IsWellFoundedOn(R, Nat)
  BY NatLessThanWellFounded
<1>2. \A x, y \in Nat : <<y, x>> \in R <=> y < x
  BY DEF OpToRel
<1> HIDE DEF R
<1>3. PICK x \in S : \A y \in S : ~(<<y, x>> \in R)
  BY <1>1, WFMin
<1>4. ASSUME NEW y \in S PROVE x <= y
  <2>1. x \in Nat /\ y \in Nat
    OBVIOUS
  <2>2. ~(y < x)
    BY <1>2, <1>3, <2>1
  <2> QED
    BY <2>1, <2>2
<1> QED
  BY <1>4

Pick(s) == CHOOSE x \in s : TRUE
SumEquation(f, S, g) ==
    g = [s \in SUBSET S |-> IF s = {} THEN 0 ELSE f[Pick(s)] + g[s \ {Pick(s)}]]
Sums(f, S) == CHOOSE g : SumEquation(f, S, g)
Total(f, S) == Sums(f, S)[S]

LEMMA PickIn == ASSUME NEW S, NEW s \in SUBSET S, s # {} PROVE Pick(s) \in s /\ Pick(s) \in S
BY DEF Pick

\* A smaller set has fewer members.
LEMMA RemoveSmaller ==
    ASSUME NEW S, IsFiniteSet(S), NEW s \in SUBSET S, NEW x \in s
    PROVE  /\ s \ {x} \in SUBSET S
           /\ Cardinality(s) \in Nat /\ Cardinality(s \ {x}) \in Nat
           /\ Cardinality(s \ {x}) = Cardinality(s) - 1
<1>1. IsFiniteSet(s)
  BY FS_Subset
<1>2. IsFiniteSet(s \ {x}) /\ Cardinality(s \ {x}) = Cardinality(s) - 1
  BY <1>1, FS_RemoveElement
<1> QED
  BY <1>1, <1>2, FS_CardinalityType

\* The sums of all subsets exist, level by level.
LEMMA SumsExist ==
    ASSUME NEW S, IsFiniteSet(S), NEW f \in [S -> Nat]
    PROVE  \E g \in [SUBSET S -> Nat] : SumEquation(f, S, g)
<1> DEFINE Level(n) == {s \in SUBSET S : Cardinality(s) <= n}
           Value(g, s) == IF s = {} THEN 0 ELSE f[Pick(s)] + g[s \ {Pick(s)}]
           Holds(n) == \E g \in [SUBSET S -> Nat] : \A s \in Level(n) : g[s] = Value(g, s)
           Bad == {n \in Nat : ~Holds(n)}
<1>1. Holds(0)
  <2> DEFINE g == [s \in SUBSET S |-> 0]
  <2>1. ASSUME NEW s \in Level(0) PROVE s = {}
    <3>1. IsFiniteSet(s) /\ Cardinality(s) \in Nat
      BY FS_Subset, FS_CardinalityType
    <3> QED
      BY <3>1, FS_EmptySet
  <2>2. \A s \in Level(0) : g[s] = Value(g, s)
    BY <2>1
  <2> QED
    BY <2>2
<1>2. ASSUME NEW n \in Nat, Holds(n) PROVE Holds(n + 1)
  <2>1. PICK g \in [SUBSET S -> Nat] : \A s \in Level(n) : g[s] = Value(g, s)
    BY <1>2
  <2> DEFINE h == [s \in SUBSET S |-> Value(g, s)]
  <2>2. ASSUME NEW s \in SUBSET S PROVE Value(g, s) \in Nat
    BY PickIn
  <2>3. h \in [SUBSET S -> Nat]
    BY <2>2
  <2>4. ASSUME NEW s \in Level(n + 1), s # {} PROVE h[s \ {Pick(s)}] = g[s \ {Pick(s)}]
    <3>1. Pick(s) \in s /\ s \in SUBSET S
      BY <2>4, PickIn
    <3>2. s \ {Pick(s)} \in Level(n)
      BY <3>1, RemoveSmaller
    <3>3. h[s \ {Pick(s)}] = Value(g, s \ {Pick(s)})
      BY <3>2
    <3> HIDE DEF h, Value
    <3> QED
      BY <2>1, <3>2, <3>3
  <2>5. \A s \in Level(n + 1) : h[s] = Value(h, s)
    <3> SUFFICES ASSUME NEW s \in Level(n + 1) PROVE h[s] = Value(h, s)
      OBVIOUS
    <3>1. h[s] = Value(g, s)
      OBVIOUS
    <3> HIDE DEF h
    <3> QED
      BY <2>4, <3>1
  <2> HIDE DEF h, Level, Value
  <2> QED
    BY <2>3, <2>5
<1> HIDE DEF Holds
<1>3. Bad = {}
  <2> SUFFICES ASSUME Bad # {} PROVE FALSE
    OBVIOUS
  <2>1. PICK n \in Bad : \A m \in Bad : n <= m
    BY LeastExists
  <2>2. n # 0 /\ n - 1 \in Nat /\ n - 1 \notin Bad
    BY <1>1, <2>1
  <2>3. Holds((n - 1) + 1)
    BY <1>2, <2>2
  <2> QED
    BY <2>1, <2>2, <2>3
<1>4. Holds(Cardinality(S))
  BY <1>3, FS_CardinalityType
<1>5. PICK g \in [SUBSET S -> Nat] : \A s \in Level(Cardinality(S)) : g[s] = Value(g, s)
  BY <1>4 DEF Holds
<1>6. ASSUME NEW s \in SUBSET S PROVE g[s] = Value(g, s)
  <2>1. s \in Level(Cardinality(S))
    BY FS_Subset
  <2> QED
    BY <1>5, <2>1
<1>7. g = [s \in SUBSET S |-> g[s]]
  BY <1>5
<1>8. SumEquation(f, S, g)
  BY <1>6, <1>7 DEF SumEquation
<1> QED
  BY <1>8

\* A set of subsets has a smallest member.
LEMMA SmallestExists ==
    ASSUME NEW S, IsFiniteSet(S), NEW B \in SUBSET (SUBSET S), B # {}
    PROVE  \E s \in B : \A x \in s : s \ {x} \notin B
<1> DEFINE N == {n \in Nat : \E s \in B : Cardinality(s) = n}
<1>1. ASSUME NEW s \in B PROVE Cardinality(s) \in N
  BY FS_Subset, FS_CardinalityType
<1>2. PICK n \in N : \A m \in N : n <= m
  <2>1. N # {}
    BY <1>1
  <2> HIDE DEF N
  <2> QED
    BY <2>1, LeastExists, N \subseteq Nat DEF N
<1>3. PICK s \in B : Cardinality(s) = n
  BY <1>2
<1>4. ASSUME NEW x \in s, s \ {x} \in B PROVE FALSE
  <2>1. Cardinality(s \ {x}) = n - 1 /\ n \in Nat
    BY <1>3, <1>4, RemoveSmaller
  <2>2. n - 1 \in N
    BY <1>1, <1>4, <2>1
  <2> QED
    BY <1>2, <2>1, <2>2
<1> QED
  BY <1>4

LEMMA SumsOf ==
    ASSUME NEW S, IsFiniteSet(S), NEW f \in [S -> Nat], NEW s \in SUBSET S
    PROVE  Sums(f, S)[s] = IF s = {} THEN 0 ELSE f[Pick(s)] + Sums(f, S)[s \ {Pick(s)}]
<1>1. SumEquation(f, S, Sums(f, S))
  BY SumsExist DEF Sums
<1> QED
  BY <1>1 DEF SumEquation

LEMMA SumsAreNat ==
    ASSUME NEW S, IsFiniteSet(S), NEW f \in [S -> Nat], NEW s \in SUBSET S
    PROVE  Sums(f, S)[s] \in Nat
<1> DEFINE B == {t \in SUBSET S : Sums(f, S)[t] \notin Nat}
<1> SUFFICES ASSUME B # {} PROVE FALSE
  OBVIOUS
<1>1. PICK t \in B : \A x \in t : t \ {x} \notin B
  BY SmallestExists
<1> DEFINE c == Pick(t)
<1>2. Sums(f, S)[t] = IF t = {} THEN 0 ELSE f[c] + Sums(f, S)[t \ {c}]
  BY SumsOf
<1>3. t # {}
  BY <1>2
<1>4. c \in t /\ c \in S
  BY <1>3, PickIn
<1> HIDE DEF c
<1>5. Sums(f, S)[t \ {c}] \in Nat
  BY <1>1, <1>4
<1>6. f[c] \in Nat
  BY <1>4
<1> QED
  BY <1>2, <1>3, <1>5, <1>6

\* The order in which a sum takes its members does not matter.
LEMMA SumsTakeOut ==
    ASSUME NEW S, IsFiniteSet(S), NEW f \in [S -> Nat], NEW s \in SUBSET S, NEW x \in s
    PROVE  Sums(f, S)[s] = f[x] + Sums(f, S)[s \ {x}]
<1> DEFINE g == Sums(f, S)
           Fine(t) == \A y \in t : g[t] = f[y] + g[t \ {y}]
           B == {t \in SUBSET S : ~Fine(t)}
<1> SUFFICES ASSUME B # {} PROVE FALSE
  OBVIOUS
<1>1. PICK t \in B : \A y \in t : t \ {y} \notin B
  BY SmallestExists
<1>2. PICK y \in t : g[t] # f[y] + g[t \ {y}]
  BY <1>1
<1> DEFINE c == Pick(t)
<1>3. c \in t /\ c \in S /\ y \in S
  BY <1>2, PickIn
<1>4. g[t] = f[c] + g[t \ {c}]
  BY <1>2, SumsOf
<1> HIDE DEF c, g
<1>5. c # y
  BY <1>2, <1>4
<1>6. g[t \ {c}] = f[y] + g[(t \ {c}) \ {y}]
  <2>1. Fine(t \ {c})
    BY <1>1, <1>3
  <2> QED
    BY <1>2, <1>5, <2>1
<1>7. g[t \ {y}] = f[c] + g[(t \ {y}) \ {c}]
  <2>1. Fine(t \ {y})
    BY <1>1, <1>2
  <2> QED
    BY <1>3, <1>5, <2>1
<1>8. (t \ {y}) \ {c} = (t \ {c}) \ {y}
  OBVIOUS
<1> DEFINE rest == g[(t \ {c}) \ {y}]
<1>9. rest \in Nat /\ f[c] \in Nat /\ f[y] \in Nat
  BY <1>3, SumsAreNat DEF g
<1>10. g[t \ {c}] = f[y] + rest /\ g[t \ {y}] = f[c] + rest
  BY <1>6, <1>7, <1>8
<1> HIDE DEF rest
<1>11. g[t] = f[c] + (f[y] + rest) /\ g[t] # f[y] + (f[c] + rest)
  BY <1>2, <1>4, <1>10
<1> QED
  BY <1>9, <1>11

LEMMA SumsAgree ==
    ASSUME NEW S, IsFiniteSet(S), NEW f \in [S -> Nat], NEW h \in [S -> Nat],
           NEW s \in SUBSET S, \A x \in s : f[x] = h[x]
    PROVE  Sums(f, S)[s] = Sums(h, S)[s]
<1> DEFINE B == {t \in SUBSET s : Sums(f, S)[t] # Sums(h, S)[t]}
<1> SUFFICES ASSUME B # {} PROVE FALSE
  OBVIOUS
<1>1. PICK t \in B : \A y \in t : t \ {y} \notin B
  BY SmallestExists
<1>2. t # {}
  BY SumsOf
<1>3. Pick(t) \in t /\ t \ {Pick(t)} \in SUBSET s /\ t \in SUBSET S
  BY <1>2, PickIn
<1>4. Sums(f, S)[t \ {Pick(t)}] = Sums(h, S)[t \ {Pick(t)}]
  BY <1>1, <1>3
<1> QED
  BY <1>1, <1>2, <1>3, <1>4, SumsOf

\* One summand changes, and the sum with it.
LEMMA TotalFollows ==
    ASSUME NEW S, IsFiniteSet(S), NEW f \in [S -> Nat], NEW h \in [S -> Nat], NEW x \in S,
           \A y \in S \ {x} : f[y] = h[y]
    PROVE  /\ Total(f, S) \in Nat /\ Total(h, S) \in Nat
           /\ Total(h, S) + f[x] = Total(f, S) + h[x]
<1>1. Sums(f, S)[S] = f[x] + Sums(f, S)[S \ {x}] /\ Sums(h, S)[S] = h[x] + Sums(h, S)[S \ {x}]
  BY SumsTakeOut
<1>2. Sums(f, S)[S \ {x}] = Sums(h, S)[S \ {x}]
  BY SumsAgree
<1>3. Sums(f, S)[S \ {x}] \in Nat
  BY SumsAreNat
<1>4. Total(f, S) \in Nat /\ Total(h, S) \in Nat
  BY SumsAreNat DEF Total
<1> QED
  BY <1>1, <1>2, <1>3, <1>4 DEF Total

ChunkBytes(d, k) == Total([i \in ChunksOf[k] |-> SizeOf[d.chunk[i]]], ChunksOf[k])
Bytes(d, k) == IF d = None THEN 0 ELSE d.litter + ChunkBytes(d, k)

LEMMA PayloadIs == ASSUME NEW k \in Keys PROVE Payload(k) = Bytes(disk[k], k)
<1> DEFINE S == ChunksOf[k]
           d == disk[k]
           f == [i \in S |-> SizeOf[d.chunk[i]]]
           Iter(g) == g = [s \in SUBSET S |->
                              IF s = {} THEN 0
                              ELSE SizeOf[d.chunk[Pick(s)]] + g[s \ {Pick(s)}]]
<1>1. MapThenSumSet(LAMBDA i : SizeOf[disk[k].chunk[i]], ChunksOf[k]) = (CHOOSE g : Iter(g))[S]
  BY DEF MapThenSumSet, MapThenFoldSet, Pick
<1>2. ASSUME NEW g PROVE Iter(g) <=> SumEquation(f, S, g)
  <2>1. \A s \in SUBSET S : s # {} => f[Pick(s)] = SizeOf[d.chunk[Pick(s)]]
    BY PickIn
  <2> QED
    BY <2>1 DEF SumEquation
<1> HIDE DEF Iter, f
<1>3. (CHOOSE g : Iter(g)) = CHOOSE g : SumEquation(f, S, g)
  BY <1>2
<1> QED
  BY <1>1, <1>3 DEF Payload, Bytes, ChunkBytes, Total, Sums, f

Weighed == CachedBytes = Total([k \in Keys |-> Bytes(disk[k], k)], Keys)
LEMMA CachedBytesIs == Weighed
<1> DEFINE f == [k \in Keys |-> Bytes(disk[k], k)]
           Iter(g) == g = [s \in SUBSET Keys |->
                              IF s = {} THEN 0 ELSE Payload(Pick(s)) + g[s \ {Pick(s)}]]
<1>1. CachedBytes = (CHOOSE g : Iter(g))[Keys]
  BY DEF CachedBytes, MapThenSumSet, MapThenFoldSet, Pick
<1>2. ASSUME NEW g PROVE Iter(g) <=> SumEquation(f, Keys, g)
  <2>1. \A s \in SUBSET Keys : s # {} => f[Pick(s)] = Payload(Pick(s))
    BY PickIn, PayloadIs
  <2> QED
    BY <2>1 DEF SumEquation
<1> HIDE DEF Iter, f
<1>3. (CHOOSE g : Iter(g)) = CHOOSE g : SumEquation(f, Keys, g)
  BY <1>2
<1> QED
  BY <1>1, <1>3 DEF Total, Sums, f, Weighed

Wanting(d, k) == {i \in ChunksOf[k] : SizeOf[d.chunk[i]] # ChunkLen}

Reserved(d, k) == ChunkLen * Cardinality(Wanting(d, k))

LEMMA SizesAreNat == \A c \in Content : SizeOf[c] \in Nat
BY DEF Content, SizeOf

LEMMA BytesAreNat ==
    ASSUME NEW k \in Keys, NEW d \in Directory(k) \cup {None}
    PROVE  Bytes(d, k) \in Nat /\ (d # None => ChunkBytes(d, k) \in Nat)
<1>1. CASE d = None
  BY <1>1 DEF Bytes
<1>2. CASE d # None
  <2>1. [i \in ChunksOf[k] |-> SizeOf[d.chunk[i]]] \in [ChunksOf[k] -> Nat]
    BY <1>2, SizesAreNat DEF Directory
  <2>2. ChunkBytes(d, k) \in Nat
    BY <2>1, SumsAreNat, ChunkStoreChunks DEF ChunkBytes, Total
  <2> QED
    BY <1>2, <2>2 DEF Bytes, Directory
<1> QED
  BY <1>1, <1>2

\* A chunk that arrives weighs what was reserved for it.
LEMMA ArrivalWeighs ==
    ASSUME NEW k \in Keys, NEW d \in Directory(k), NEW e \in Directory(k), NEW i \in ChunksOf[k],
           d.chunk[i] = "absent", e.chunk = [d.chunk EXCEPT ![i] = "good"]
    PROVE  /\ ChunkBytes(e, k) = ChunkBytes(d, k) + ChunkLen
           /\ Reserved(d, k) = Reserved(e, k) + ChunkLen
           /\ Reserved(d, k) \in Nat /\ Reserved(e, k) \in Nat
<1> DEFINE f == [j \in ChunksOf[k] |-> SizeOf[d.chunk[j]]]
           h == [j \in ChunksOf[k] |-> SizeOf[e.chunk[j]]]
<1>1. f \in [ChunksOf[k] -> Nat] /\ h \in [ChunksOf[k] -> Nat]
  BY SizesAreNat DEF Directory
<1>2. \A j \in ChunksOf[k] \ {i} : e.chunk[j] = d.chunk[j]
  BY DEF Directory
<1>3. e.chunk[i] = "good"
  BY DEF Directory
<1>4. (\A j \in ChunksOf[k] \ {i} : f[j] = h[j]) /\ f[i] = 0 /\ h[i] = ChunkLen
  BY <1>2, <1>3 DEF SizeOf
<1> HIDE DEF f, h
<1>5. ChunkBytes(e, k) = ChunkBytes(d, k) + ChunkLen
  <2>1. /\ Total(f, ChunksOf[k]) \in Nat /\ Total(h, ChunksOf[k]) \in Nat
        /\ Total(h, ChunksOf[k]) + f[i] = Total(f, ChunksOf[k]) + h[i]
    BY <1>1, <1>4, TotalFollows, ChunkStoreChunks
  <2>2. ChunkBytes(e, k) = Total(h, ChunksOf[k]) /\ ChunkBytes(d, k) = Total(f, ChunksOf[k])
    BY DEF ChunkBytes, f, h
  <2> QED
    BY <1>4, <2>1, <2>2
<1>6. i \in Wanting(d, k) /\ Wanting(e, k) = Wanting(d, k) \ {i}
  BY <1>2, <1>3 DEF Wanting, SizeOf
<1>7. IsFiniteSet(Wanting(d, k))
  BY ChunkStoreChunks, FS_Subset DEF Wanting
<1> DEFINE m == Cardinality(Wanting(d, k))
           n == Cardinality(Wanting(e, k))
<1>8. m \in Nat /\ n \in Nat /\ n = m - 1
  BY <1>6, <1>7, FS_RemoveElement, FS_CardinalityType
<1> HIDE DEF m, n
<1>9. ChunkLen * m = ChunkLen * n + ChunkLen /\ ChunkLen * m \in Nat /\ ChunkLen * n \in Nat
  BY <1>8
<1> QED
  BY <1>5, <1>9 DEF Reserved, m, n

LEMMA ReservedIsNat == ASSUME NEW k \in Keys, NEW d PROVE Reserved(d, k) \in Nat
<1>1. IsFiniteSet(Wanting(d, k))
  BY ChunkStoreChunks, FS_Subset DEF Wanting
<1>2. Cardinality(Wanting(d, k)) \in Nat
  BY <1>1, FS_CardinalityType
<1> QED
  BY <1>2 DEF Reserved

\* What is cached changes by what one transfer does.
LEMMA CacheFollows ==
    ASSUME StoreTypeOK, StoreTypeOK', NEW k \in Keys,
           \A j \in Keys \ {k} : disk'[j] = disk[j]
    PROVE  /\ CachedBytes \in Nat /\ CachedBytes' \in Nat
           /\ Bytes(disk[k], k) \in Nat /\ Bytes(disk'[k], k) \in Nat
           /\ CachedBytes' + Bytes(disk[k], k) = CachedBytes + Bytes(disk'[k], k)
<1> DEFINE f == [j \in Keys |-> Bytes(disk[j], j)]
           h == [j \in Keys |-> Bytes(disk'[j], j)]
<1>1. f \in [Keys -> Nat] /\ h \in [Keys -> Nat]
  BY BytesAreNat DEF StoreTypeOK
<1>2. \A j \in Keys \ {k} : f[j] = h[j]
  OBVIOUS
<1>3. CachedBytes = Total(f, Keys)
  BY CachedBytesIs DEF Weighed
<1>4. CachedBytes' = Total(h, Keys)
  <2>1. Weighed'
    BY CachedBytesIs, PTL
  <2> QED
    BY <2>1 DEF Weighed
<1>5. f[k] = Bytes(disk[k], k) /\ h[k] = Bytes(disk'[k], k)
  OBVIOUS
<1> HIDE DEF f, h
<1>6. f[k] \in Nat /\ h[k] \in Nat
  BY <1>1
<1> QED
  BY <1>1, <1>2, <1>3, <1>4, <1>5, <1>6, TotalFollows, ChunkStoreChunks

\* A sum of nothing is nothing.
LEMMA TotalOfNothing ==
    ASSUME NEW S, IsFiniteSet(S), NEW f \in [S -> Nat], \A x \in S : f[x] = 0
    PROVE  Total(f, S) = 0
<1> DEFINE B == {s \in SUBSET S : Sums(f, S)[s] # 0}
<1>1. ASSUME B # {} PROVE FALSE
  <2>1. PICK s \in B : \A x \in s : s \ {x} \notin B
    BY <1>1, SmallestExists
  <2> DEFINE c == Pick(s)
  <2>2. Sums(f, S)[s] = IF s = {} THEN 0 ELSE f[c] + Sums(f, S)[s \ {c}]
    BY SumsOf
  <2>3. s # {}
    BY <2>1, <2>2
  <2>4. c \in s /\ c \in S
    BY <2>3, PickIn
  <2> HIDE DEF c
  <2>5. Sums(f, S)[s \ {c}] = 0 /\ f[c] = 0
    BY <2>1, <2>4
  <2> QED
    BY <2>1, <2>2, <2>3, <2>5
<1> QED
  BY <1>1 DEF Total

LEMMA NothingWeighsNothing ==
    ASSUME NEW k \in Keys PROVE Bytes(EmptyDirectory(k), k) = 0
<1> DEFINE f == [i \in ChunksOf[k] |-> SizeOf[EmptyDirectory(k).chunk[i]]]
<1>1. f \in [ChunksOf[k] -> Nat] /\ \A i \in ChunksOf[k] : f[i] = 0
  BY DEF EmptyDirectory, SizeOf
<1> HIDE DEF f
<1>2. Total(f, ChunksOf[k]) = 0
  BY <1>1, TotalOfNothing, ChunkStoreChunks
<1>3. ChunkBytes(EmptyDirectory(k), k) = 0
  BY <1>2 DEF ChunkBytes, f
<1>4. EmptyDirectory(k).litter = 0
  BY DEF EmptyDirectory
<1>5. Bytes(EmptyDirectory(k), k) \in {0, EmptyDirectory(k).litter + ChunkBytes(EmptyDirectory(k), k)}
  BY DEF Bytes
<1> QED
  BY <1>3, <1>4, <1>5

-----------------------------------------------------------------------------
(* The quotas.                                                             *)

Entering == {"mkdir", "lock", "record"}

\* What a process with limits has counted, reserved and still has to fetch.
QuotaOf(p) ==
    LET r == proc[p]  k == r.key IN
    /\ r.at \in Opening \cup {"reserve"} => r.wanted = {}
    /\ r.at \in Entering \cup {"reserve"} => CachedBytes = r.bytes
    /\ r.at \in Entering \cup Owning => Cardinality(Directories \cup {k}) <= MaxTransfers
    /\ r.at \in {"open", "stage", "touch", "clear"} =>
          CachedBytes + Reserved(disk[k], k) <= MaxBytes + r.staged
    /\ r.at = "close" => CachedBytes <= MaxBytes
    /\ r.at \in Owning => \A i \in r.wanted : disk[k].chunk[i] = "absent"
    /\ r.at = "stage" => disk[k].chunk[r.chunk] = "absent" /\ r.chunk \notin r.wanted

\* What a process with limits may count on, while nobody damages anything.
Quotas == \A p \in Procs \ Unrestricted : QuotaOf(p)

LEMMA CachedIsNat == ASSUME IInv PROVE CachedBytes \in Nat
<1> DEFINE f == [j \in Keys |-> Bytes(disk[j], j)]
<1>1. f \in [Keys -> Nat]
  BY BytesAreNat DEF IInv, StoreTypeOK
<1> HIDE DEF f
<1>2. Total(f, Keys) \in Nat
  BY <1>1, SumsAreNat, ChunkStoreChunks DEF Total
<1>3. CachedBytes = Total(f, Keys)
  BY CachedBytesIs DEF Weighed, f
<1> QED
  BY <1>2, <1>3

LEMMA TransfersOf ==
    ASSUME NEW k \in Keys
    PROVE  /\ IsFiniteSet(Directories) /\ Cardinality(Directories) \in Nat
           /\ Cardinality(Directories \cup {k}) \in Nat
           /\ Cardinality(Directories) <= Cardinality(Directories \cup {k})
<1>1. IsFiniteSet(Directories) /\ IsFiniteSet(Directories \cup {k})
  BY ChunkStoreChunks, FS_Subset DEF Directories
<1> QED
  BY <1>1, FS_Subset, FS_CardinalityType

\* A process with limits that does not own anything yet.
LEMMA EarlyQuota ==
    ASSUME NEW p \in Procs, proc'[p].at \in {"idle", "expire"} \cup Sweeping,
           proc'[p].at # "idle" => proc'[p].wanted = {}
    PROVE  QuotaOf(p)'
BY DEF QuotaOf, Opening, Owning, Entering, Sweeping

LEMMA EarlyStepsKeepQuota ==
    ASSUME IInv, NEW p \in Procs, QuotaOf(p),
           \/ \E k \in Keys : OpenLimited(p, k) \/ KeepUnknown(p, k)
                                 \/ KeepRecent(p, k) \/ Condemn(p, k)
           \/ Evict(p) \/ OpenFails(p) \/ Close(p) \/ Crash(p)
           \/ proc[p].at = "evict" /\ (RemoveLitter(p) \/ \E i \in Chunks : RemoveChunk(p, i))
    PROVE  QuotaOf(p)'
<1>1. proc[p] \in ProcRecord /\ proc \in [Procs -> ProcRecord]
  BY DEF IInv, StoreTypeOK
<1>2. proc[p].at \in Opening => proc[p].wanted = {}
  BY DEF QuotaOf
<1> DEFINE Early == /\ proc'[p].at \in {"idle", "expire"} \cup Sweeping
                    /\ proc'[p].at # "idle" => proc'[p].wanted = {}
<1> SUFFICES Early
  BY EarlyQuota
<1>3. CASE OpenFails(p) \/ Close(p) \/ Crash(p)
  BY <1>1, <1>3 DEF OpenFails, Close, Crash, Idle
<1>4. ASSUME NEW k \in Keys, OpenLimited(p, k) PROVE Early
  <2>1. proc'[p].at = "expire" /\ proc'[p].wanted = Idle.wanted
    BY <1>1, <1>4 DEF OpenLimited, Idle
  <2> QED
    BY <2>1 DEF Idle
<1>5. ASSUME NEW k \in Keys, KeepUnknown(p, k) \/ KeepRecent(p, k) \/ Condemn(p, k)
      PROVE  Early
  <2>1. proc[p].at = "expire" /\ proc[p].wanted = {}
    BY <1>2, <1>5 DEF KeepUnknown, KeepRecent, Condemn, Visit, Opening
  <2>2. /\ proc'[p].wanted = proc[p].wanted
        /\ proc'[p].at = IF Condemn(p, k) THEN "evict" ELSE "expire"
    <3>1. CASE Condemn(p, k)
      BY <1>1, <3>1 DEF Condemn, ProcRecord
    <3>2. CASE ~ Condemn(p, k)
      BY <1>1, <1>5, <2>1, <3>2 DEF KeepUnknown, KeepRecent, ProcRecord
    <3> QED
      BY <3>1, <3>2
  <2> QED
    BY <2>1, <2>2 DEF Sweeping
<1>6. CASE Evict(p)
  BY <1>1, <1>2, <1>6 DEF Evict, Step, RemoveDirectory, Opening, Sweeping, ProcRecord
<1>7. CASE proc[p].at = "evict" /\ (RemoveLitter(p) \/ \E i \in Chunks : RemoveChunk(p, i))
  BY <1>1, <1>2, <1>7 DEF RemoveLitter, RemoveChunk, Opening, Sweeping
<1> QED
  BY <1>3, <1>4, <1>5, <1>6, <1>7

\* A step that leaves every chunk and every temporary file alone.
SameBytes ==
    /\ CachedBytes' = CachedBytes /\ Directories' = Directories
    /\ \A k \in Keys : Reserved(disk'[k], k) = Reserved(disk[k], k)
    /\ \A k \in Directories : disk'[k].chunk = disk[k].chunk

LEMMA SameDisk == ASSUME disk' = disk PROVE SameBytes
<1>1. CachedBytes' = CachedBytes
  <2>1. Weighed /\ Weighed'
    BY CachedBytesIs, PTL
  <2> QED
    BY <2>1 DEF Weighed
<1> QED
  BY <1>1 DEF SameBytes, Directories

LEMMA SameWeights ==
    ASSUME IInv, StoreTypeOK', NEW k \in Keys, \A j \in Keys \ {k} : disk'[j] = disk[j],
           disk[k] # None, disk'[k] # None,
           disk'[k].litter = disk[k].litter, disk'[k].chunk = disk[k].chunk
    PROVE  SameBytes
<1>1. /\ CachedBytes \in Nat /\ CachedBytes' \in Nat
      /\ Bytes(disk[k], k) \in Nat /\ Bytes(disk'[k], k) \in Nat
      /\ CachedBytes' + Bytes(disk[k], k) = CachedBytes + Bytes(disk'[k], k)
  BY CacheFollows DEF IInv
<1>2. Bytes(disk'[k], k) = Bytes(disk[k], k)
  BY DEF Bytes, ChunkBytes
<1>3. CachedBytes' = CachedBytes
  BY <1>1, <1>2
<1>4. \A j \in Keys : Reserved(disk'[j], j) = Reserved(disk[j], j)
  BY DEF Reserved, Wanting
<1>5. Directories' = Directories /\ \A j \in Directories : disk'[j].chunk = disk[j].chunk
  BY DEF Directories
<1> QED
  BY <1>3, <1>4, <1>5 DEF SameBytes

\* What open_limited and the engines decide between effects on the disk.
LEMMA DecisionsKeepQuota ==
    ASSUME NEW p \in Procs \ Unrestricted, IInv, QuotaOf(p), AllWhole,
           \/ PassQuota(p) \/ TakeLock(p) \/ Reserve(p) \/ Missing(p)
           \/ StartClear(p) \/ FinishClear(p) \/ \E i \in Chunks : Stage(p, i)
    PROVE  QuotaOf(p)'
<1> DEFINE k == proc[p].key
<1>1. /\ proc[p] \in ProcRecord /\ proc \in [Procs -> ProcRecord]
      /\ Consistent(p)
  BY DEF IInv, StoreTypeOK
<1>2. disk' = disk /\ proc[p].at # "idle"
  BY DEF PassQuota, TakeLock, Reserve, Missing, StartClear, FinishClear, Stage, Step
<1>3. CachedBytes' = CachedBytes /\ Directories' = Directories
  BY <1>2, SameDisk DEF SameBytes
<1>4. k \in Keys /\ CachedBytes \in Nat /\ Reserved(disk[k], k) \in Nat
  BY <1>1, <1>2, CachedIsNat, ReservedIsNat DEF Consistent
<1>5. CASE PassQuota(p)
  <2>1. proc'[p].at = "mkdir" /\ proc'[p].bytes = CachedBytes /\ proc'[p].wanted = {}
        /\ proc'[p].key = k
    BY <1>1, <1>5 DEF PassQuota, ProcRecord, QuotaOf, Opening
  <2>2. Cardinality(Directories \cup {k}) <= MaxTransfers
    BY <1>4, <1>5, TransfersOf DEF PassQuota, OverTransfers
  <2> QED
    BY <1>3, <2>1, <2>2 DEF QuotaOf, Opening, Entering, Owning
<1>6. CASE TakeLock(p)
  <2>1. proc'[p] = [proc[p] EXCEPT !.at = "record"] /\ proc[p].at = "lock"
    BY <1>1, <1>6 DEF TakeLock, Step
  <2> QED
    BY <1>1, <1>2, <1>3, <2>1 DEF QuotaOf, ProcRecord, Opening, Entering, Owning
<1>7. CASE Reserve(p)
  <2>1. PICK next \in {"open", "close"} :
            /\ proc'[p] = [proc[p] EXCEPT !.at = next, !.bytes = 0]
            /\ next = "open" => Needed(k) <= MaxBytes - proc[p].bytes
    BY <1>1, <1>7 DEF Reserve
  <2>2. proc[p].at = "reserve" /\ CachedBytes = proc[p].bytes /\ proc[p].bytes \in 0 .. MaxBytes
        /\ proc[p].wanted = {} /\ proc[p].staged = 0
    BY <1>1, <1>7 DEF Reserve, QuotaOf, ProcRecord, Consistent
  <2>3. Needed(k) = Reserved(disk[k], k)
    BY DEF Needed, Reserved, Wanting
  <2>4. /\ proc'[p].at = next /\ proc'[p].wanted = {} /\ proc'[p].staged = 0 /\ proc'[p].key = k
    BY <1>1, <2>1, <2>2 DEF ProcRecord
  <2>5. next = "open" => CachedBytes + Reserved(disk[k], k) <= MaxBytes
    BY <1>4, <2>1, <2>2, <2>3
  <2>6. Cardinality(Directories \cup {k}) <= MaxTransfers
    BY <2>2 DEF QuotaOf, Owning
  <2> QED
    BY <1>2, <1>3, <1>4, <2>2, <2>4, <2>5, <2>6 DEF QuotaOf, Opening, Entering, Owning
<1>8. CASE Missing(p)
  <2>1. /\ proc'[p] = [proc[p] EXCEPT !.wanted = {i \in ChunksOf[k] : disk[k].chunk[i] # "good"}]
        /\ proc[p].at = "open"
    BY <1>1, <1>8 DEF Missing
  <2>2. disk[k] # None /\ \A i \in ChunksOf[k] : disk[k].chunk[i] \in {"absent", "good"}
    BY <1>1, <1>4, <2>1 DEF Consistent, AllWhole, Whole, Owning
  <2>3. /\ proc'[p].at = "open" /\ proc'[p].staged = proc[p].staged /\ proc'[p].key = k
        /\ proc'[p].wanted = {i \in ChunksOf[k] : disk[k].chunk[i] # "good"}
    BY <1>1, <2>1 DEF ProcRecord
  <2>4. \A i \in proc'[p].wanted : disk[k].chunk[i] = "absent"
    BY <2>2, <2>3
  <2> QED
    BY <1>2, <1>3, <2>1, <2>3, <2>4 DEF QuotaOf, Opening, Entering, Owning
<1>9. CASE StartClear(p) \/ FinishClear(p)
  <2>1. /\ proc[p].at \in {"open", "clear"}
        /\ \E to \in {"clear", "touch"} : proc'[p] = [proc[p] EXCEPT !.at = to]
    BY <1>1, <1>9 DEF StartClear, FinishClear, Step
  <2> QED
    BY <1>1, <1>2, <1>3, <2>1 DEF QuotaOf, ProcRecord, Opening, Entering, Owning
<1>10. ASSUME NEW i \in Chunks, Stage(p, i) PROVE QuotaOf(p)'
  <2>1. /\ proc'[p] = [proc[p] EXCEPT !.at = "stage", !.chunk = i, !.wanted = @ \ {i}]
        /\ proc[p].at = "open" /\ i \in proc[p].wanted
    BY <1>1, <1>10 DEF Stage
  <2>2. /\ proc'[p].at = "stage" /\ proc'[p].staged = proc[p].staged /\ proc'[p].key = k
        /\ proc'[p].wanted = proc[p].wanted \ {i} /\ proc'[p].chunk = i
    BY <1>1, <2>1 DEF ProcRecord
  <2>3. \A x \in proc[p].wanted : disk[k].chunk[x] = "absent"
    BY <2>1 DEF QuotaOf, Owning
  <2> QED
    BY <1>2, <1>3, <2>1, <2>2, <2>3 DEF QuotaOf, Opening, Entering, Owning
<1> QED
  BY <1>5, <1>6, <1>7, <1>8, <1>9, <1>10

\* A step between effects: the same bytes, and a decision where to go on.
LEMMA StartingKeepsQuota ==
    ASSUME NEW p \in Procs \ Unrestricted, IInv, StoreTypeOK', QuotaOf(p), AllWhole,
           MakeDirectory(p) \/ WriteRecord(p) \/ Touch(p)
    PROVE  QuotaOf(p)'
<1> DEFINE k == proc[p].key
<1>1. /\ proc[p] \in ProcRecord /\ proc \in [Procs -> ProcRecord]
      /\ Consistent(p)
  BY DEF IInv, StoreTypeOK
<1>2. proc[p].at \in {"mkdir", "record", "touch"}
  BY DEF MakeDirectory, WriteRecord, Touch, Step
<1>3. k \in Keys /\ CachedBytes \in Nat /\ Reserved(disk[k], k) \in Nat
  BY <1>1, <1>2, CachedIsNat, ReservedIsNat DEF Consistent
<1>4. DOMAIN disk = Keys /\ disk[k] \in Directory(k) \cup {None}
  BY <1>3 DEF IInv, StoreTypeOK
<1>5. CASE MakeDirectory(p)
  <2>1. proc'[p] = [proc[p] EXCEPT !.at = "lock"] /\ proc[p].at = "mkdir"
    BY <1>1, <1>5 DEF MakeDirectory, Step
  <2>2. /\ proc'[p].at = "lock" /\ proc'[p].bytes = proc[p].bytes /\ proc'[p].key = k
        /\ proc'[p].wanted = proc[p].wanted
    BY <1>1, <2>1 DEF ProcRecord
  <2>3. /\ disk'[k] = IF disk[k] = None THEN EmptyDirectory(k) ELSE disk[k]
        /\ \A j \in Keys \ {k} : disk'[j] = disk[j]
    BY <1>3, <1>4, <1>5 DEF MakeDirectory
  <2>4. Bytes(disk'[k], k) = Bytes(disk[k], k)
    BY <1>3, <2>3, NothingWeighsNothing DEF Bytes
  <2>5. CachedBytes' = CachedBytes
    BY <1>3, <2>3, <2>4, CacheFollows DEF IInv
  <2>6. Directories' \cup {k} = Directories \cup {k}
    BY <1>3, <2>3 DEF Directories
  <2> QED
    BY <2>1, <2>2, <2>5, <2>6 DEF QuotaOf, Opening, Entering, Owning
<1>6. ASSUME disk' = disk \/ disk' = [disk EXCEPT ![k].activity = clock],
             proc[p].at # "mkdir"
      PROVE  SameBytes
  <2>1. CASE disk' = disk
    BY <2>1, SameDisk
  <2>2. CASE disk' = [disk EXCEPT ![k].activity = clock]
    <3>1. disk[k] # None
      BY <1>1, <1>2, <1>6 DEF Consistent, Owning
    <3>2. disk'[k] = [disk[k] EXCEPT !.activity = clock] /\ \A j \in Keys \ {k} : disk'[j] = disk[j]
      BY <1>3, <1>4, <2>2
    <3>3. disk'[k].litter = disk[k].litter /\ disk'[k].chunk = disk[k].chunk /\ disk'[k] # None
      BY <1>3, <1>4, <3>1, <3>2, StillDirectory DEF Directory, IInv, StoreTypeOK
    <3> QED
      BY <1>3, <3>1, <3>2, <3>3, SameWeights
  <2> QED
    BY <1>6, <2>1, <2>2
<1>7. CASE WriteRecord(p)
  <2>1. /\ proc'[p] = [proc[p] EXCEPT !.last = clock, !.at = "reserve"] /\ proc[p].at = "record"
        /\ disk' = [disk EXCEPT ![k].activity = clock]
    BY <1>1, <1>7 DEF WriteRecord
  <2>2. /\ proc'[p].at = "reserve" /\ proc'[p].bytes = proc[p].bytes /\ proc'[p].key = k
        /\ proc'[p].wanted = proc[p].wanted
    BY <1>1, <2>1 DEF ProcRecord
  <2>3. CachedBytes' = CachedBytes /\ Directories' = Directories
    BY <1>6, <2>1 DEF SameBytes
  <2> QED
    BY <2>1, <2>2, <2>3 DEF QuotaOf, Opening, Entering, Owning
<1>8. CASE Touch(p)
  <2>1. proc[p].at = "touch" /\ disk[k] # None /\ k \in Directories /\ proc[p].staged = 0
    BY <1>1, <1>3, <1>8 DEF Touch, Consistent, Owning, Directories
  <2>2. SameBytes
    BY <1>6, <1>8, <2>1 DEF Touch, Refreshed, NotRefreshed
  <2>3. /\ proc'[p].at \in {"open", "close"} /\ proc'[p].staged = 0 /\ proc'[p].key = k
        /\ proc'[p].wanted = proc[p].wanted
    BY <1>1, <1>8, <2>1 DEF Touch, ProcRecord
  <2>4. /\ CachedBytes + Reserved(disk[k], k) <= MaxBytes
        /\ Cardinality(Directories \cup {k}) <= MaxTransfers
        /\ \A i \in proc[p].wanted : disk[k].chunk[i] = "absent"
    BY <2>1 DEF QuotaOf, Owning
  <2>5. CachedBytes <= MaxBytes
    BY <1>3, <2>4
  <2> QED
    BY <1>3, <2>1, <2>2, <2>3, <2>4, <2>5 DEF SameBytes, QuotaOf, Opening, Entering, Owning
<1> QED
  BY <1>5, <1>7, <1>8

\* The effects of an open store on its own transfer.
LEMMA EffectsKeepQuota ==
    ASSUME NEW p \in Procs \ Unrestricted, IInv, StoreTypeOK', QuotaOf(p), AllWhole,
           \/ Write(p) \/ Reject(p) \/ Publish(p)
           \/ proc[p].at = "clear" /\ (RemoveLitter(p) \/ \E i \in Chunks : RemoveChunk(p, i))
    PROVE  QuotaOf(p)'
<1> DEFINE k == proc[p].key
           d == disk[k]
           e == disk'[k]
           n == proc[p].staged
<1>1. /\ proc[p] \in ProcRecord /\ proc \in [Procs -> ProcRecord]
      /\ Consistent(p)
  BY DEF IInv, StoreTypeOK
<1>2. proc[p].at \in {"stage", "clear"} /\ proc[p].at \in Owning /\ (proc[p].at = "clear" => Target(p) = k)
  BY DEF Write, Reject, Publish, Owning, Target
<1>3. k \in Keys /\ CachedBytes \in Nat /\ Reserved(d, k) \in Nat /\ Reserved(e, k) \in Nat
  BY <1>1, <1>2, CachedIsNat, ReservedIsNat DEF Consistent
<1>4. DOMAIN disk = Keys /\ d \in Directory(k) /\ d # None /\ k \in Directories
  BY <1>1, <1>2, <1>3 DEF IInv, StoreTypeOK, Consistent, Directories
<1>5. n \in Nat /\ d.litter \in Nat /\ d.chunk \in [ChunksOf[k] -> Content]
      /\ (proc[p].at = "stage" => n <= d.litter /\ n <= ChunkLen /\ proc[p].chunk \in ChunksOf[k])
      /\ (proc[p].at # "stage" => n = 0) /\ proc[p].wanted \subseteq ChunksOf[k]
  BY <1>1, <1>2, <1>4 DEF Consistent, ProcRecord, Directory
<1>6. /\ CachedBytes + Reserved(d, k) <= MaxBytes + n
      /\ Cardinality(Directories \cup {k}) <= MaxTransfers
      /\ \A i \in proc[p].wanted : d.chunk[i] = "absent"
      /\ proc[p].at = "stage" => d.chunk[proc[p].chunk] = "absent" /\ proc[p].chunk \notin proc[p].wanted
  BY <1>2 DEF QuotaOf
\* the directory after the step, and what that means for the bytes
<1>7. ASSUME e \in Directory(k), e # None, \A j \in Keys \ {k} : disk'[j] = disk[j]
      PROVE  /\ CachedBytes' \in Nat /\ ChunkBytes(d, k) \in Nat /\ ChunkBytes(e, k) \in Nat
             /\ CachedBytes' + (d.litter + ChunkBytes(d, k)) = CachedBytes + (e.litter + ChunkBytes(e, k))
             /\ Directories' = Directories
  <2>1. CachedBytes' \in Nat /\ CachedBytes' + Bytes(d, k) = CachedBytes + Bytes(e, k)
    BY <1>3, <1>7, CacheFollows DEF IInv
  <2>2. Bytes(d, k) = d.litter + ChunkBytes(d, k) /\ Bytes(e, k) = e.litter + ChunkBytes(e, k)
    BY <1>4, <1>7 DEF Bytes
  <2>3. ChunkBytes(d, k) \in Nat /\ ChunkBytes(e, k) \in Nat
    BY <1>3, <1>4, <1>7, BytesAreNat
  <2>4. Directories' = Directories
    BY <1>3, <1>4, <1>7 DEF Directories
  <2> QED
    BY <2>1, <2>2, <2>3, <2>4
<1>8. ASSUME e.chunk = d.chunk
      PROVE  ChunkBytes(e, k) = ChunkBytes(d, k) /\ Reserved(e, k) = Reserved(d, k)
  BY <1>8 DEF ChunkBytes, Reserved, Wanting
<1>9. CASE Write(p)
  <2>1. /\ proc'[p] = [proc[p] EXCEPT !.staged = @ + 1] /\ proc[p].at = "stage"
        /\ e = [d EXCEPT !.litter = @ + 1] /\ \A j \in Keys \ {k} : disk'[j] = disk[j]
    BY <1>1, <1>3, <1>4, <1>9 DEF Write
  <2>2. /\ proc'[p].at = "stage" /\ proc'[p].staged = n + 1 /\ proc'[p].key = k
        /\ proc'[p].wanted = proc[p].wanted /\ proc'[p].chunk = proc[p].chunk
    BY <1>1, <2>1 DEF ProcRecord
  <2>3. e.litter = d.litter + 1 /\ e.chunk = d.chunk /\ e \in Directory(k) /\ e # None
    BY <1>3, <1>4, <1>5, <2>1, StillDirectory DEF Directory
  <2> HIDE DEF d, e, n, k
  <2>4. CachedBytes' + Reserved(e, k) <= MaxBytes + (n + 1) /\ Directories' = Directories
    BY <1>3, <1>5, <1>6, <1>7, <1>8, <2>1, <2>3
  <2>5. /\ \A i \in proc'[p].wanted : e.chunk[i] = "absent"
        /\ e.chunk[proc'[p].chunk] = "absent" /\ proc'[p].chunk \notin proc'[p].wanted
    BY <1>6, <2>1, <2>2, <2>3
  <2> QED
    BY <1>6, <2>2, <2>4, <2>5 DEF QuotaOf, Opening, Entering, Owning, e
<1>10. CASE Reject(p)
  <2>1. /\ proc'[p] = [proc[p] EXCEPT !.at = "close", !.chunk = None, !.staged = 0]
        /\ proc[p].at = "stage"
        /\ e = [d EXCEPT !.litter = @ - n] /\ \A j \in Keys \ {k} : disk'[j] = disk[j]
    BY <1>1, <1>3, <1>4, <1>10 DEF Reject
  <2>2. /\ proc'[p].at = "close" /\ proc'[p].staged = 0 /\ proc'[p].key = k
        /\ proc'[p].wanted = proc[p].wanted
    BY <1>1, <2>1 DEF ProcRecord
  <2>3. e.litter = d.litter - n /\ d.litter - n \in Nat
    BY <1>4, <1>5, <2>1 DEF Directory
  <2>4. e.chunk = d.chunk /\ e \in Directory(k) /\ e # None
    BY <1>3, <1>4, <2>1, <2>3, StillDirectory DEF Directory
  <2> HIDE DEF d, e, n, k
  <2>5. CachedBytes' <= MaxBytes /\ Directories' = Directories
    BY <1>3, <1>5, <1>6, <1>7, <1>8, <2>1, <2>3, <2>4
  <2>6. \A i \in proc'[p].wanted : e.chunk[i] = "absent"
    BY <1>6, <2>2, <2>4
  <2> QED
    BY <1>6, <2>2, <2>5, <2>6 DEF QuotaOf, Opening, Entering, Owning, e
<1>11. CASE Publish(p)
  <2> DEFINE c == proc[p].chunk
  <2>1. /\ proc'[p] = [proc[p] EXCEPT !.at = "touch", !.chunk = None, !.staged = 0]
        /\ proc[p].at = "stage" /\ n = ChunkLen
        /\ e = [d EXCEPT !.litter = @ - ChunkLen, !.chunk[c] = "good"]
        /\ \A j \in Keys \ {k} : disk'[j] = disk[j]
    BY <1>1, <1>3, <1>4, <1>11 DEF Publish
  <2>2. /\ proc'[p].at = "touch" /\ proc'[p].staged = 0 /\ proc'[p].key = k
        /\ proc'[p].wanted = proc[p].wanted
    BY <1>1, <2>1 DEF ProcRecord
  <2>3. e.litter = d.litter - n /\ d.litter - n \in Nat
    BY <1>4, <1>5, <2>1 DEF Directory
  <2>4. e.chunk = [d.chunk EXCEPT ![c] = "good"] /\ e \in Directory(k) /\ e # None
    <3> DEFINE m == [d EXCEPT !.litter = d.litter - ChunkLen]
    <3>1. m \in Directory(k) /\ m.chunk = d.chunk
      BY <1>3, <1>4, <2>1, <2>3, StillDirectory DEF Directory
    <3>2. e = [m EXCEPT !.chunk[c] = "good"]
      BY <2>1
    <3>3. "good" \in Content /\ c \in ChunksOf[k]
      BY <1>5, <2>1 DEF Content
    <3> HIDE DEF m, d, e, c, k, n
    <3>4. e \in Directory(k) \ {None}
      BY <1>3, <3>1, <3>2, <3>3, StillDirectory
    <3>5. e.chunk = [m.chunk EXCEPT ![c] = "good"]
      BY <3>1, <3>2 DEF Directory
    <3> QED
      BY <3>1, <3>4, <3>5
  <2>5. c \in ChunksOf[k] /\ d.chunk[c] = "absent" /\ c \notin proc[p].wanted
    BY <1>5, <1>6, <2>1
  <2>6. ChunkBytes(e, k) = ChunkBytes(d, k) + ChunkLen /\ Reserved(d, k) = Reserved(e, k) + ChunkLen
    BY <1>3, <1>4, <2>4, <2>5, ArrivalWeighs
  <2> HIDE DEF d, e, n, k, c
  <2>7. CachedBytes' + Reserved(e, k) <= MaxBytes /\ Directories' = Directories
    BY <1>3, <1>5, <1>6, <1>7, <2>1, <2>3, <2>4, <2>6
  <2>8. \A i \in proc'[p].wanted : e.chunk[i] = "absent"
    BY <1>5, <1>6, <2>2, <2>4, <2>5
  <2> QED
    BY <1>6, <2>2, <2>7, <2>8 DEF QuotaOf, Opening, Entering, Owning, e
<1>12. CASE proc[p].at = "clear" /\ RemoveLitter(p)
  <2>1. /\ proc' = proc /\ e = [d EXCEPT !.litter = 0] /\ \A j \in Keys \ {k} : disk'[j] = disk[j]
    BY <1>2, <1>3, <1>4, <1>12 DEF RemoveLitter
  <2>2. e.litter = 0 /\ e.chunk = d.chunk /\ e \in Directory(k) /\ e # None
    BY <1>3, <1>4, <2>1, StillDirectory DEF Directory
  <2> HIDE DEF d, e, n, k
  <2>3. CachedBytes' + Reserved(e, k) <= MaxBytes + n /\ Directories' = Directories
    BY <1>3, <1>5, <1>6, <1>7, <1>8, <2>1, <2>2
  <2> QED
    BY <1>6, <1>12, <2>1, <2>2, <2>3 DEF QuotaOf, Opening, Entering, Owning, d, e, n, k
<1>13. ASSUME proc[p].at = "clear", NEW i \in Chunks, RemoveChunk(p, i) PROVE QuotaOf(p)'
  <2>1. /\ proc' = proc /\ e = [d EXCEPT !.chunk[i] = "absent"] /\ i \in ChunksOf[k]
        /\ d.chunk[i] # "absent" /\ \A j \in Keys \ {k} : disk'[j] = disk[j]
    BY <1>2, <1>3, <1>4, <1>13 DEF RemoveChunk
  <2>2. /\ e.litter = d.litter /\ e.chunk = [d.chunk EXCEPT ![i] = "absent"]
        /\ e \in Directory(k) /\ e # None
    <3>1. "absent" \in Content
      BY DEF Content
    <3> HIDE DEF d, e, k, n
    <3>2. e \in Directory(k) \ {None}
      BY <1>3, <1>4, <2>1, <3>1, StillDirectory
    <3>3. e.litter = d.litter /\ e.chunk = [d.chunk EXCEPT ![i] = "absent"]
      BY <1>4, <2>1 DEF Directory
    <3> QED
      BY <3>2, <3>3
  <2>3. d.chunk[i] = "good"
    BY <1>3, <1>4, <2>1 DEF AllWhole, Whole
  <2>4. e.chunk[i] = "absent" /\ d.chunk = [e.chunk EXCEPT ![i] = "good"]
    BY <1>5, <2>1, <2>2, <2>3
  <2> HIDE DEF d, e, n, k
  <2>5. ChunkBytes(d, k) = ChunkBytes(e, k) + ChunkLen /\ Reserved(e, k) = Reserved(d, k) + ChunkLen
    BY <1>3, <1>4, <2>1, <2>2, <2>4, ArrivalWeighs
  <2>6. CachedBytes' + Reserved(e, k) <= MaxBytes + n /\ Directories' = Directories
    BY <1>3, <1>5, <1>6, <1>7, <2>1, <2>2, <2>5
  <2>7. \A x \in proc[p].wanted : e.chunk[x] = "absent"
    BY <1>5, <1>6, <2>2
  <2> QED
    BY <1>6, <1>13, <2>1, <2>6, <2>7 DEF QuotaOf, Opening, Entering, Owning, d, e, n, k
<1> QED
  BY <1>9, <1>10, <1>11, <1>12, <1>13

-----------------------------------------------------------------------------
\* Every step is one of a process or of the surroundings.
Acts(p) ==
    \/ \E k \in Keys :
          \/ OpenLimited(p, k) \/ OpenShared(p, k)
          \/ KeepUnknown(p, k) \/ KeepRecent(p, k) \/ Condemn(p, k)
    \/ RemoveLitter(p) \/ Evict(p) \/ PassQuota(p) \/ MakeDirectory(p)
    \/ TakeLock(p) \/ WriteRecord(p) \/ Reserve(p) \/ OpenFails(p)
    \/ Missing(p) \/ Write(p) \/ Reject(p) \/ Publish(p) \/ Touch(p)
    \/ StartClear(p) \/ FinishClear(p) \/ Close(p) \/ Crash(p)
    \/ \E i \in Chunks : RemoveChunk(p, i) \/ Stage(p, i)

\* Nobody with limits is at work next to a process that acts.
LEMMA OthersAreIdle ==
    ASSUME IInv, NEW p \in Procs, Acts(p), NEW q \in Procs \ Unrestricted, q # p
    PROVE  proc'[q].at = "idle"
<1>1. proc[q].at = "idle"
  <2>1. CASE proc[p].at = "idle"
    <3>1. \E k \in Keys : OpenLimited(p, k) \/ OpenShared(p, k)
      BY <2>1 DEF Acts, KeepUnknown, KeepRecent, Condemn, Visit, RemoveLitter, Evict, PassQuota,
         MakeDirectory, TakeLock, WriteRecord, Reserve, OpenFails, Missing, Write, Reject,
         Publish, Touch, StartClear, FinishClear, Close, Crash, RemoveChunk, Stage, Step, Opening
    <3> QED
      BY <3>1 DEF OpenLimited, OpenShared
  <2>2. CASE proc[p].at # "idle"
    BY <2>2 DEF IInv, Exclusive
  <2> QED
    BY <2>1, <2>2
<1>2. \/ proc' = proc
      \/ \E r : proc' = [proc EXCEPT ![p] = r]
      \/ \E r, s : proc' = [[proc EXCEPT ![p] = r] EXCEPT ![p] = s]
  BY DEF Acts, OpenLimited, OpenShared, KeepUnknown, KeepRecent, Condemn, RemoveLitter, Evict,
     RemoveDirectory, PassQuota, MakeDirectory, TakeLock, WriteRecord, Reserve, OpenFails, Missing,
     Write, Reject, Publish, Touch, StartClear, FinishClear, Close, Crash, RemoveChunk, Stage, Step
<1>3. proc'[q] = proc[q]
  BY <1>2 DEF IInv, StoreTypeOK
<1> QED
  BY <1>1, <1>3

LEMMA OwnStepsKeepQuota ==
    ASSUME NEW p \in Procs \ Unrestricted, IInv, StoreTypeOK', QuotaOf(p), AllWhole, Acts(p)
    PROVE  QuotaOf(p)'
<1>1. ASSUME NEW k \in Keys, OpenShared(p, k) PROVE FALSE
  BY <1>1 DEF OpenShared
<1>2. CASE RemoveLitter(p) \/ \E i \in Chunks : RemoveChunk(p, i)
  <2>1. proc[p].at \in {"evict", "clear"}
    BY <1>2 DEF RemoveLitter, RemoveChunk
  <2> QED
    BY <1>2, <2>1, EarlyStepsKeepQuota, EffectsKeepQuota
<1>3. CASE \/ \E k \in Keys : OpenLimited(p, k) \/ KeepUnknown(p, k)
                                 \/ KeepRecent(p, k) \/ Condemn(p, k)
           \/ Evict(p) \/ OpenFails(p) \/ Close(p) \/ Crash(p)
  BY <1>3, EarlyStepsKeepQuota
<1>4. CASE \/ PassQuota(p) \/ TakeLock(p) \/ Reserve(p) \/ Missing(p)
           \/ StartClear(p) \/ FinishClear(p) \/ \E i \in Chunks : Stage(p, i)
  BY <1>4, DecisionsKeepQuota
<1>5. CASE MakeDirectory(p) \/ WriteRecord(p) \/ Touch(p)
  BY <1>5, StartingKeepsQuota
<1>6. CASE Write(p) \/ Reject(p) \/ Publish(p)
  BY <1>6, EffectsKeepQuota
<1> QED
  BY <1>1, <1>2, <1>3, <1>4, <1>5, <1>6 DEF Acts

Accounted == faults.damages = 0 => Quotas

LEMMA StaysAccounted ==
    ASSUME IInv, StoreTypeOK', Undamaged, Accounted, [Next]_vars
    PROVE  Accounted'
<1> SUFFICES ASSUME faults'.damages = 0, NEW q \in Procs \ Unrestricted PROVE QuotaOf(q)'
  BY DEF Accounted, Quotas
<1>1. ASSUME NEW k \in Keys,
             DamageRecord(k) \/ \E i \in ChunksOf[k], c \in {"bad", "short"} : DamageChunk(k, i, c)
      PROVE  FALSE
  BY <1>1 DEF IInv, StoreTypeOK, DamageRecord, DamageChunk, Damaged
<1>2. CASE UNCHANGED vars \/ SetClock
  <2>1. disk' = disk /\ proc' = proc /\ faults' = faults
    BY <1>2 DEF vars, SetClock
  <2>2. QuotaOf(q) /\ proc[q] \in ProcRecord /\ Consistent(q)
    BY <2>1 DEF Accounted, Quotas, IInv, StoreTypeOK
  <2>3. CachedBytes' = CachedBytes /\ Directories' = Directories
    BY <2>1, SameDisk DEF SameBytes
  <2> QED
    BY <2>1, <2>2, <2>3 DEF QuotaOf
<1>3. ASSUME NEW p \in Procs, Acts(p) PROVE QuotaOf(q)'
  <2>1. CASE p = q
    <3>1. faults.damages = 0
      BY <1>3 DEF Acts, IInv, StoreTypeOK, OpenLimited, OpenShared, KeepUnknown, KeepRecent,
         Condemn, RemoveLitter, Evict, RemoveRecord, RemoveLock, RemoveDirectory, PassQuota,
         MakeDirectory, TakeLock, WriteRecord, Reserve, OpenFails, Missing, Write, Reject,
         Publish, Touch, StartClear, FinishClear, Close, Crash, RemoveChunk, Stage
    <3>2. QuotaOf(q) /\ AllWhole
      BY <3>1 DEF Accounted, Quotas, Undamaged
    <3> QED
      BY <1>3, <2>1, <3>2, OwnStepsKeepQuota
  <2>2. CASE p # q
    BY <1>3, <2>2, OthersAreIdle, EarlyQuota
  <2> QED
    BY <2>1, <2>2
<1>4. (\E p \in Procs : Acts(p)) \/ SetClock \/ UNCHANGED vars
      \/ \E k \in Keys : \/ DamageRecord(k)
                         \/ \E i \in ChunksOf[k], c \in {"bad", "short"} : DamageChunk(k, i, c)
  BY DEF Next, Acts
<1> QED
  BY <1>1, <1>2, <1>3, <1>4

(* While a store with limits is open, all that is cached and staged is     *)
(* within both limits (chunks.rs:183), whatever the processes without      *)
(* limits and the kills before it left behind, unless somebody damages     *)
(* the cache.                                                              *)
THEOREM QuotasAlwaysHold == Spec => []QuotasHold
<1>1. Init => Accounted
  BY EarlyQuota DEF Init, Accounted, Quotas, QuotaOf, Idle, Opening, Entering, Owning
<1>2. IInv /\ IInv' /\ Undamaged /\ Accounted /\ [Next]_vars => Accounted'
  BY StaysAccounted DEF IInv
<1>3. IInv /\ Accounted => QuotasHold
  <2> SUFFICES ASSUME IInv, Accounted, faults.damages = 0,
                      NEW p \in Procs \ Unrestricted, proc[p].at \in Owning
               PROVE  Cardinality(Directories) <= MaxTransfers /\ CachedBytes <= MaxBytes
    BY DEF QuotasHold, Limited
  <2> DEFINE k == proc[p].key
  <2>1. QuotaOf(p) /\ proc[p] \in ProcRecord /\ Consistent(p)
    BY DEF Accounted, Quotas, IInv, StoreTypeOK
  <2>2. k \in Keys
    BY <2>1 DEF Consistent, Owning
  <2>3. Cardinality(Directories) <= MaxTransfers
    BY <2>1, <2>2, TransfersOf DEF QuotaOf
  <2>4. CachedBytes \in Nat /\ Reserved(disk[k], k) \in Nat
    BY <2>2, CachedIsNat, ReservedIsNat
  <2>5. CASE proc[p].at = "reserve"
    <3>1. CachedBytes = proc[p].bytes
      BY <2>1, <2>5 DEF QuotaOf
    <3>2. proc[p].bytes \in 0 .. MaxBytes
      BY <2>1 DEF ProcRecord
    <3> QED
      BY <2>3, <3>1, <3>2
  <2>6. CASE proc[p].at = "stage"
    <3>1. disk[k].chunk[proc[p].chunk] = "absent" /\ proc[p].chunk \in ChunksOf[k]
      BY <2>1, <2>6 DEF QuotaOf, Consistent
    <3>2. proc[p].chunk \in Wanting(disk[k], k)
      BY <3>1 DEF Wanting, SizeOf
    <3>3. ChunkLen <= Reserved(disk[k], k)
      <4> DEFINE n == Cardinality(Wanting(disk[k], k))
      <4>1. n \in Nat /\ n # 0
        BY <2>2, <3>2, ChunkStoreChunks, FS_Subset, FS_CardinalityType, FS_EmptySet DEF Wanting
      <4> HIDE DEF n
      <4>2. ChunkLen <= ChunkLen * n
        BY <4>1
      <4> QED
        BY <4>2 DEF Reserved, n
    <3>4. proc[p].staged \in Nat /\ proc[p].staged <= ChunkLen
      BY <2>1, <2>6 DEF Consistent, ProcRecord
    <3>5. CachedBytes + Reserved(disk[k], k) <= MaxBytes + proc[p].staged
      BY <2>1, <2>6 DEF QuotaOf
    <3> QED
      BY <2>3, <2>4, <3>3, <3>4, <3>5
  <2>7. CASE proc[p].at \in {"open", "touch", "clear"}
    <3>1. CachedBytes + Reserved(disk[k], k) <= MaxBytes + proc[p].staged /\ proc[p].staged = 0
      BY <2>1, <2>7 DEF QuotaOf, Consistent
    <3> QED
      BY <2>3, <2>4, <3>1
  <2>8. CASE proc[p].at = "close"
    BY <2>1, <2>3, <2>8 DEF QuotaOf
  <2> QED
    BY <2>3, <2>5, <2>6, <2>7, <2>8 DEF Owning
<1> QED
  BY <1>1, <1>2, <1>3, StoreInduction, WholeInduction, PTL DEF Spec

(* StoreInvariant, the run's property: types, no torn chunk, the quotas.   *)
THEOREM StoreAlwaysInvariant == Spec => []StoreInvariant
BY StoreTypeCorrect, NeverTorn, QuotasAlwaysHold, PTL DEF StoreInvariant
=============================================================================
