----------------------------- MODULE ChunkStore -----------------------------
(***************************************************************************)
(* The chunk store (chunks.rs): processes that share one cache directory,  *)
(* one action per effect on the disk.  A process opens a transfer          *)
(* (`Store::open_limited', or `Store::open' for the processes without      *)
(* limits), expires what the others left behind, checks the quotas,        *)
(* receives chunks through a temporary file, clears what was installed and *)
(* closes.  It may be killed between any two effects; what it held is      *)
(* unlocked, what it was writing stays behind.  Whoever owns the machine   *)
(* may damage a chunk or an activity record and set the clock.             *)
(*                                                                         *)
(* `cache.lock' is held from the first step of an open to the close, so it *)
(* needs no variable: a process that is not idle holds it, shared when it  *)
(* has no limits, exclusively otherwise.                                   *)
(***************************************************************************)
EXTENDS Integers, FiniteSets, FiniteSetsExt

CONSTANTS
    Procs,
    Unrestricted,   \* processes that use Store::open, without limits
    Keys,           \* transfers
    ChunksOf,       \* the chunks of each transfer
    ChunkLen,       \* bytes of a chunk
    MaxBytes, MaxTransfers, Retention,      \* Limits
    MaxClock,       \* bound of the clock
    MaxCrashes,     \* bound of the number of kills
    MaxDamage,      \* bound of the number of damages from outside
    None

ASSUME ChunkStoreActors == Unrestricted \subseteq Procs /\ None \notin Procs \cup Keys \cup Nat
ASSUME ChunkStoreNumbers ==
    /\ ChunkLen \in Nat \ {0} /\ MaxBytes \in Nat /\ MaxTransfers \in Nat
    /\ Retention \in Nat /\ MaxClock \in Nat
    /\ MaxCrashes \in Nat /\ MaxDamage \in Nat
ASSUME ChunkStoreChunks ==
    /\ IsFiniteSet(Keys)
    /\ \A k \in Keys : IsFiniteSet(ChunksOf[k]) /\ None \notin ChunksOf[k]

Chunks == UNION {ChunksOf[k] : k \in Keys}
Clock == 0 .. MaxClock

(* A chunk file: verified, damaged at its full size, or of another size.   *)
Content == {"absent", "good", "bad", "short"}
SizeOf == [absent |-> 0, good |-> ChunkLen, bad |-> ChunkLen, short |-> 1]

(* A transfer directory; `litter' counts the bytes of its temporary files. *)
Directory(k) ==
    [activity : Clock \cup {None}, chunk : [ChunksOf[k] -> Content], litter : Nat]
EmptyDirectory(k) ==
    [activity |-> None, chunk |-> [i \in ChunksOf[k] |-> "absent"], litter |-> 0]
ASSUME ChunkStoreNone == \A k \in Keys : None \notin Directory(k)

Opening == {"expire", "evict", "unlock", "rmdir", "mkdir", "lock", "record"}
Owning == {"reserve", "open", "stage", "touch", "clear", "close"}
ProcRecord ==
    [at : {"idle"} \cup Opening \cup Owning, key : Keys \cup {None},
     todo : SUBSET Keys, victim : Keys \cup {None}, now : Clock, bytes : 0 .. MaxBytes,
     last : Clock, wanted : SUBSET Chunks, chunk : Chunks \cup {None}, staged : Nat]
Idle ==
    [at |-> "idle", key |-> None, todo |-> {}, victim |-> None, now |-> 0, bytes |-> 0,
     last |-> 0, wanted |-> {}, chunk |-> None, staged |-> 0]

VARIABLES
    clock,          \* the system clock, in seconds
    disk,           \* the directory of each transfer, None when it has none
    lock,           \* who holds the flock of a transfer's present lock file
    proc,           \* what each process is doing
    used,           \* when a transfer's retention period last started: at an
                    \* operation that succeeded, or where its record was lost
    faults          \* kills and damages so far

vars == <<clock, disk, lock, proc, used, faults>>

StoreTypeOK ==
    /\ clock \in Clock
    /\ DOMAIN disk = Keys
    /\ \A k \in Keys : disk[k] = None \/ disk[k] \in Directory(k)
    /\ lock \in [Keys -> Procs \cup {None}]
    /\ proc \in [Procs -> ProcRecord]
    /\ used \in [Keys -> Clock]
    /\ faults \in [crashes : 0 .. MaxCrashes, damages : 0 .. MaxDamage]

Init ==
    /\ clock = 0
    /\ disk = [k \in Keys |-> None]
    /\ lock = [k \in Keys |-> None]
    /\ proc = [p \in Procs |-> Idle]
    /\ used = [k \in Keys |-> 0]
    /\ faults = [crashes |-> 0, damages |-> 0]

-----------------------------------------------------------------------------
(* Sizes, as payload_bytes counts them.                                    *)

Payload(k) ==
    IF disk[k] = None THEN 0
    ELSE disk[k].litter + MapThenSumSet(LAMBDA i : SizeOf[disk[k].chunk[i]], ChunksOf[k])
CachedBytes == MapThenSumSet(Payload, Keys)
Directories == {k \in Keys : disk[k] # None}

Emptied(k) == disk[k].litter = 0 /\ \A i \in ChunksOf[k] : disk[k].chunk[i] = "absent"

(* Chunks whose file is absent or of the wrong size reserve their length.  *)
Needed(k) ==
    ChunkLen * Cardinality({i \in ChunksOf[k] : SizeOf[disk[k].chunk[i]] # ChunkLen})

Step(p, from, to) == proc[p].at = from /\ proc' = [proc EXCEPT ![p].at = to]
Target(p) == IF proc[p].at = "evict" THEN proc[p].victim ELSE proc[p].key
Released(p) == [k \in Keys |-> IF lock[k] = p THEN None ELSE lock[k]]

-----------------------------------------------------------------------------
(* Opening.                                                                *)

OpenLimitedShared(p, k) ==                      \* mutation: takes the shared lock
    /\ p \notin Unrestricted /\ proc[p].at = "idle"
    /\ proc' = [proc EXCEPT ![p] =
          [Idle EXCEPT !.at = "expire", !.key = k, !.now = clock,
                       !.todo = IF Retention > 0 THEN Directories \ {k} ELSE {}]]
    /\ UNCHANGED <<clock, disk, lock, used, faults>>

OpenLimited(p, k) ==
    /\ p \notin Unrestricted /\ \A q \in Procs : proc[q].at = "idle"
    /\ proc' = [proc EXCEPT ![p] =
          [Idle EXCEPT !.at = "expire", !.key = k, !.now = clock,
                       !.todo = IF Retention > 0 THEN Directories \ {k} ELSE {}]]
    /\ UNCHANGED <<clock, disk, lock, used, faults>>

OpenShared(p, k) ==
    /\ p \in Unrestricted /\ proc[p].at = "idle"
    /\ \A q \in Procs \ Unrestricted : proc[q].at = "idle"
    /\ proc' = [proc EXCEPT ![p] = [Idle EXCEPT !.at = "mkdir", !.key = k]]
    /\ UNCHANGED <<clock, disk, lock, used, faults>>

(* expire: an unknown date starts a retention period, a future or recent   *)
(* one keeps the transfer, an old one condemns it.                         *)
Age(p, j) == IF disk[j].activity > proc[p].now THEN 0 ELSE proc[p].now - disk[j].activity

Visit(p, j) ==
    /\ proc[p].at = "expire" /\ j \in proc[p].todo /\ lock[j] = None

KeepUnknown(p, j) ==
    /\ Visit(p, j) /\ disk[j].activity = None
    /\ disk' = [disk EXCEPT ![j].activity = proc[p].now]
    /\ used' = [used EXCEPT ![j] = proc[p].now]
    /\ proc' = [proc EXCEPT ![p].todo = @ \ {j}]
    /\ UNCHANGED <<clock, lock, faults>>

KeepRecent(p, j) ==
    /\ Visit(p, j) /\ disk[j].activity # None /\ Age(p, j) < Retention
    /\ proc' = [proc EXCEPT ![p].todo = @ \ {j}]
    /\ UNCHANGED <<clock, disk, lock, used, faults>>

Condemn(p, j) ==
    /\ Visit(p, j) /\ disk[j].activity # None /\ Age(p, j) >= Retention
    /\ lock' = [lock EXCEPT ![j] = p]
    /\ proc' = [proc EXCEPT ![p].at = "evict", ![p].todo = @ \ {j}, ![p].victim = j]
    /\ UNCHANGED <<clock, disk, used, faults>>

(* remove_payload, for an eviction and for `clear'; then the activity      *)
(* record, the lock file and the directory of an evicted transfer.         *)
RemoveChunk(p, i) ==
    /\ proc[p].at \in {"evict", "clear"}
    /\ i \in ChunksOf[Target(p)] /\ disk[Target(p)].chunk[i] # "absent"
    /\ disk' = [disk EXCEPT ![Target(p)].chunk[i] = "absent"]
    /\ UNCHANGED <<clock, lock, proc, used, faults>>

RemoveLitter(p) ==
    /\ proc[p].at \in {"evict", "clear"} /\ disk[Target(p)].litter > 0
    /\ disk' = [disk EXCEPT ![Target(p)].litter = 0]
    /\ UNCHANGED <<clock, lock, proc, used, faults>>

RemoveRecord(p) ==
    /\ Emptied(proc[p].victim) /\ disk[proc[p].victim].activity # None
    /\ disk' = [disk EXCEPT ![proc[p].victim].activity = None]
    /\ UNCHANGED <<clock, lock, used, faults>>

RemoveLock(p) ==
    /\ lock' = [lock EXCEPT ![proc[p].victim] = None]
    /\ UNCHANGED <<clock, disk, used, faults>>

RemoveDirectory(p) ==
    /\ disk' = [disk EXCEPT ![proc[p].victim] = None]
    /\ proc' = [proc EXCEPT ![p].at = "expire", ![p].victim = None]
    /\ UNCHANGED <<clock, lock, used, faults>>

Evict(p) ==
    \/ Step(p, "evict", "unlock") /\ RemoveRecord(p)
    \/ Step(p, "unlock", "rmdir") /\ RemoveLock(p)
    \/ proc[p].at = "rmdir" /\ RemoveDirectory(p)

(* The quotas, then open_locked: mkdir, lock, activity record.             *)
OverBytes == CachedBytes \notin 0 .. MaxBytes
OverTransfersBefore(k) == Cardinality(Directories) > MaxTransfers    \* mutation
OverTransfers(k) == Cardinality(Directories \cup {k}) > MaxTransfers

PassQuota(p) ==
    /\ proc[p].at = "expire" /\ proc[p].todo = {}
    /\ ~ OverBytes /\ ~ OverTransfers(proc[p].key)
    /\ proc' = [proc EXCEPT ![p].at = "mkdir", ![p].now = 0, ![p].bytes = CachedBytes]
    /\ UNCHANGED <<clock, disk, lock, used, faults>>

MakeDirectory(p) ==
    LET k == proc[p].key IN
    /\ Step(p, "mkdir", "lock")
    /\ disk' = [disk EXCEPT ![k] = IF @ = None THEN EmptyDirectory(k) ELSE @]
    /\ UNCHANGED <<clock, lock, used, faults>>

TakeLockShared(p) ==                            \* mutation: not exclusive
    /\ Step(p, "lock", "record")
    /\ lock' = [lock EXCEPT ![proc[p].key] = p]
    /\ UNCHANGED <<clock, disk, used, faults>>

TakeLock(p) ==
    /\ Step(p, "lock", "record") /\ lock[proc[p].key] = None
    /\ lock' = [lock EXCEPT ![proc[p].key] = p]
    /\ UNCHANGED <<clock, disk, used, faults>>

WriteRecord(p) ==
    LET k == proc[p].key IN
    /\ proc[p].at = "record"
    /\ disk' = [disk EXCEPT ![k].activity = clock]
    /\ used' = [used EXCEPT ![k] = clock]
    /\ proc' = [proc EXCEPT ![p].last = clock,
                            ![p].at = IF p \in Unrestricted THEN "open" ELSE "reserve"]
    /\ UNCHANGED <<clock, lock, faults>>

(* The Store exists from here on: a refusal drops it, which closes it.     *)
ReserveAlone(p) ==                              \* mutation: ignores what is cached
    \E next \in {"open", "close"} :
        /\ proc[p].at = "reserve"
        /\ next = "open" => Needed(proc[p].key) <= MaxBytes
        /\ proc' = [proc EXCEPT ![p].at = next, ![p].bytes = 0]
        /\ UNCHANGED <<clock, disk, lock, used, faults>>

Reserve(p) ==
    \E next \in {"open", "close"} :
        /\ proc[p].at = "reserve"
        /\ next = "open" => Needed(proc[p].key) <= MaxBytes - proc[p].bytes
        /\ proc' = [proc EXCEPT ![p].at = next, ![p].bytes = 0]
        /\ UNCHANGED <<clock, disk, lock, used, faults>>

(* A lock held by another, a quota exceeded or a failing filesystem call   *)
(* ends the open with an error; both locks are released.                   *)
OpenFails(p) ==
    /\ proc[p].at \in Opening
    /\ lock' = Released(p)
    /\ proc' = [proc EXCEPT ![p] = Idle]
    /\ UNCHANGED <<clock, disk, used, faults>>

-----------------------------------------------------------------------------
(* An open store.                                                          *)

Missing(p) ==
    LET k == proc[p].key IN
    /\ proc[p].at = "open"
    /\ proc' = [proc EXCEPT ![p].wanted = {i \in ChunksOf[k] : disk[k].chunk[i] # "good"}]
    /\ UNCHANGED <<clock, disk, lock, used, faults>>

(* receive: the engines pass each chunk `missing' reported, once.          *)
Stage(p, i) ==
    /\ proc[p].at = "open" /\ i \in proc[p].wanted
    /\ proc' = [proc EXCEPT ![p].at = "stage", ![p].chunk = i, ![p].wanted = @ \ {i}]
    /\ UNCHANGED <<clock, disk, lock, used, faults>>

Write(p) ==
    /\ proc[p].at = "stage" /\ proc[p].staged < ChunkLen
    /\ proc' = [proc EXCEPT ![p].staged = @ + 1]
    /\ disk' = [disk EXCEPT ![proc[p].key].litter = @ + 1]
    /\ UNCHANGED <<clock, lock, used, faults>>

(* Too long, too short, the wrong hash or a failing write: the temporary   *)
(* file is dropped, and the session that asked for it drops the store.     *)
RejectCountsChunk(p) ==                         \* mutation
    /\ proc[p].at = "stage"
    /\ disk' = [disk EXCEPT ![proc[p].key].litter = @ - ChunkLen]
    /\ proc' = [proc EXCEPT ![p].at = "close", ![p].chunk = None, ![p].staged = 0]
    /\ UNCHANGED <<clock, lock, used, faults>>

Reject(p) ==
    /\ proc[p].at = "stage"
    /\ disk' = [disk EXCEPT ![proc[p].key].litter = @ - proc[p].staged]
    /\ proc' = [proc EXCEPT ![p].at = "close", ![p].chunk = None, ![p].staged = 0]
    /\ UNCHANGED <<clock, lock, used, faults>>

PublishUnverified(p) ==                         \* mutation: published while it arrives
    LET k == proc[p].key IN
    /\ proc[p].at = "stage"
    /\ disk' = [disk EXCEPT ![k].litter = @ - proc[p].staged, ![k].chunk[proc[p].chunk] =
                   IF proc[p].staged = ChunkLen THEN "good" ELSE "short"]
    /\ proc' = [proc EXCEPT ![p].at = "touch", ![p].chunk = None, ![p].staged = 0]
    /\ UNCHANGED <<clock, lock, used, faults>>

Publish(p) ==
    LET k == proc[p].key IN
    /\ proc[p].at = "stage" /\ proc[p].staged = ChunkLen
    /\ disk' = [disk EXCEPT ![k].litter = @ - ChunkLen, ![k].chunk[proc[p].chunk] = "good"]
    /\ proc' = [proc EXCEPT ![p].at = "touch", ![p].chunk = None, ![p].staged = 0]
    /\ UNCHANGED <<clock, lock, used, faults>>

(* refresh_activity: `last' moves only with a record that reached the disk *)
Refreshed(p) ==
    LET k == proc[p].key IN
    /\ used' = [used EXCEPT ![k] = clock]
    /\ IF proc[p].last = clock THEN disk' = disk
       ELSE disk' = [disk EXCEPT ![k].activity = clock]
NotRefreshed(p) == proc[p].last # clock /\ UNCHANGED <<disk, used>>

TouchForgetsFailure(p) ==                       \* mutation: `last' moves before the record
    /\ proc[p].at = "touch"
    /\ \/ Refreshed(p) /\ proc' = [proc EXCEPT ![p].at = "open", ![p].last = clock]
       \/ NotRefreshed(p) /\ proc' = [proc EXCEPT ![p].at = "close", ![p].last = clock]
    /\ UNCHANGED <<clock, lock, faults>>

Touch(p) ==
    /\ proc[p].at = "touch"
    /\ \/ Refreshed(p) /\ proc' = [proc EXCEPT ![p].at = "open", ![p].last = clock]
       \/ NotRefreshed(p) /\ proc' = [proc EXCEPT ![p].at = "close"]
    /\ UNCHANGED <<clock, lock, faults>>

StartClear(p) ==
    /\ Step(p, "open", "clear")
    /\ UNCHANGED <<clock, disk, lock, used, faults>>

FinishClearUnlinking(p) ==                      \* mutation: removes the lock file too
    /\ Step(p, "clear", "touch") /\ Emptied(proc[p].key)
    /\ lock' = [lock EXCEPT ![proc[p].key] = None]
    /\ UNCHANGED <<clock, disk, used, faults>>

FinishClear(p) ==
    /\ Step(p, "clear", "touch") /\ Emptied(proc[p].key)
    /\ UNCHANGED <<clock, disk, lock, used, faults>>

(* Drop, after a success or an error: a failing record is only a warning.  *)
Close(p) ==
    /\ proc[p].at \in {"open", "clear", "close"}
    /\ Refreshed(p) \/ NotRefreshed(p)
    /\ lock' = Released(p)
    /\ proc' = [proc EXCEPT ![p] = Idle]
    /\ UNCHANGED <<clock, faults>>

-----------------------------------------------------------------------------
(* The environment.                                                        *)

Crash(p) ==
    /\ proc[p].at # "idle" /\ faults.crashes < MaxCrashes
    /\ lock' = Released(p)
    /\ proc' = [proc EXCEPT ![p] = Idle]
    /\ faults' = [faults EXCEPT !.crashes = @ + 1]
    /\ UNCHANGED <<clock, disk, used>>

Damaged == faults.damages < MaxDamage /\ faults' = [faults EXCEPT !.damages = @ + 1]

DamageChunk(k, i, c) ==
    /\ disk[k] # None /\ disk[k].chunk[i] = "good" /\ Damaged
    /\ disk' = [disk EXCEPT ![k].chunk[i] = c]
    /\ UNCHANGED <<clock, lock, proc, used>>

DamageRecord(k) ==
    /\ disk[k] # None /\ disk[k].activity # None /\ Damaged
    /\ disk' = [disk EXCEPT ![k].activity = None]
    /\ UNCHANGED <<clock, lock, proc, used>>

SetClock ==
    /\ clock' \in Clock /\ clock' \in {clock - 1, clock + 1}
    /\ UNCHANGED <<disk, lock, proc, used, faults>>

Next ==
    \/ \E p \in Procs, k \in Keys :
          \/ OpenLimited(p, k) \/ OpenShared(p, k)
          \/ KeepUnknown(p, k) \/ KeepRecent(p, k) \/ Condemn(p, k)
    \/ \E p \in Procs :
          \/ RemoveLitter(p) \/ Evict(p) \/ PassQuota(p) \/ MakeDirectory(p)
          \/ TakeLock(p) \/ WriteRecord(p) \/ Reserve(p) \/ OpenFails(p)
          \/ Missing(p) \/ Write(p) \/ Reject(p) \/ Publish(p) \/ Touch(p)
          \/ StartClear(p) \/ FinishClear(p) \/ Close(p) \/ Crash(p)
    \/ \E p \in Procs, i \in Chunks : RemoveChunk(p, i) \/ Stage(p, i)
    \/ \E k \in Keys : DamageRecord(k)
    \/ \E k \in Keys : \E i \in ChunksOf[k], c \in {"bad", "short"} : DamageChunk(k, i, c)
    \/ SetClock

Spec == Init /\ [][Next]_vars

-----------------------------------------------------------------------------
(* Properties.                                                             *)

Owns(p, k) == proc[p].at \in Owning /\ proc[p].key = k

(* README.md "One receiving transfer owns a cache directory at a time";    *)
(* the comment of `clear': no other owner bypasses the flock.  Two stores  *)
(* are never open on one transfer, and one that is open holds the lock     *)
(* file that is in its directory, not one unlinked under it.               *)
OneOwnerPerTransfer ==
    \A p \in Procs, k \in Keys :
        Owns(p, k) => disk[k] # None /\ lock[k] = p /\ \A q \in Procs \ {p} : ~ Owns(q, k)

(* README.md "Active stores are protected by cache and transfer locks":    *)
(* expiry (chunks.rs:402) never removes anything of a transfer somebody    *)
(* has open or is opening.                                                 *)
ActiveNeverEvicted ==
    \A p, q \in Procs :
        proc[p].victim # None /\ proc[q].at \notin {"idle", "expire"} /\ p # q
            => proc[q].key # proc[p].victim

(* chunks.rs:294: a chunk is published only verified, so whatever was      *)
(* interrupted, a file that is not its chunk was damaged from outside.     *)
NoTornChunk ==
    faults.damages = 0 =>
        \A k \in Directories, i \in Chunks :
            i \in ChunksOf[k] => disk[k].chunk[i] \in {"absent", "good"}

(* While a limited store is open, whatever kills and unlimited stores left *)
(* behind, the quotas of open_limited (chunks.rs:183) hold with every byte *)
(* it stages.                                                              *)
Limited == \E p \in Procs \ Unrestricted : proc[p].at \in Owning
QuotasHold ==
    Limited /\ faults.damages = 0 =>
        Cardinality(Directories) <= MaxTransfers /\ CachedBytes <= MaxBytes

(* A verified chunk disappears only by damage, by its owner clearing the   *)
(* transfer, or by eviction a whole retention period after the last open,  *)
(* receipt, clear or close that succeeded or the discovery that its record *)
(* is lost (chunks.rs:350, :402).                                          *)
Retained(k, i) ==
    disk[k] # None /\ disk[k].chunk[i] = "good"
        => \/ disk'[k] # None /\ disk'[k].chunk[i] = "good"
           \/ faults'.damages > faults.damages
           \/ \E p \in Procs : Owns(p, k) /\ proc[p].at = "clear"
           \/ /\ ~ \E p \in Procs : Owns(p, k)
              /\ \E p \in Procs : /\ proc[p].victim = k
                                  /\ used[k] + Retention <= proc[p].now
EvictedOnlyWhenIdle == [][\A k \in Keys : \A i \in ChunksOf[k] : Retained(k, i)]_vars

(* Types, no torn chunk, and the quotas.                                   *)
StoreInvariant == StoreTypeOK /\ NoTornChunk /\ QuotasHold

(* Whoever has a transfer open has it alone and keeps it.                  *)
TransfersAreOwned == OneOwnerPerTransfer /\ ActiveNeverEvicted

(* The engine's view, module Cache.                                        *)
OwnerOf(k) == IF \E p \in Procs : Owns(p, k) THEN CHOOSE p \in Procs : Owns(p, k) ELSE None
VerifiedOf(k) ==
    IF disk[k] = None THEN {} ELSE {i \in ChunksOf[k] : disk[k].chunk[i] = "good"}
A == INSTANCE Cache WITH
        owner <- [k \in Keys |-> OwnerOf(k)], verified <- [k \in Keys |-> VerifiedOf(k)]
ImplementsCache == A!Spec

(* README.md:108 "After an interruption, rerun the same command": with the *)
(* cache to itself, a transfer that was accepted once is accepted again.   *)
RerunIsAccepted ==
    \A p \in Procs :
        LET k == proc[p].key IN
        proc[p].at = "expire" /\ Directories = {k} /\ Payload(k) > 0 /\ faults.damages = 0
            => Payload(k) + Needed(k) <= MaxBytes
=============================================================================
