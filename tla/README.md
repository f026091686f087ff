# rsSync in TLA+

rsSync keeps a directory on one machine equal to a directory on another, over
Links of the Reticulum network. One host *exports* a directory and serves
requests (`rssync serve`); a client *pushes* its directory into the export or
*pulls* the export into its own. This directory holds TLA+ models of the
program, TLC configurations that check them on small instances and TLAPS proofs
of what matters most for every value of the constants.

Source references are to `src/src/*.rs`; every definition that models code is
listed with its lines in `PROJECT.json`.

## 1. The system

### Components

| component | file | state it keeps | operations |
|---|---|---|---|
| version-1 engine, server | `engine.rs` `Server` | at most one `Session`: owner Link, role, options, both manifests, the plan, `prepared`, `pending`, `received`, `done`, last activity; the export itself | START, BEGIN, COMMIT, GET, VERIFIED, FINISH, `receive`, `touch`, `expire`, `disconnect` |
| version-1 engine, client | `engine.rs` `synchronize` | its position in the dialogue, its scan, the plan, its own directory | one run: START, plan, prepare, one transfer per file, FINISH, removals |
| planner and executor | `sync.rs` | none of its own; a `Plan` is data | `plan`, `prepare`, `check_entry`, `install`, `finish` |
| scanner | `sync.rs` `scan` | a `Manifest` and the `Stamp` of every object | `scan`, revalidation of a Stamp |
| filesystem access | `fs.rs` | descriptors below a fixed root | `mkdir`, `remove`, `stage` / `commit`, `snapshot` |
| serving adapter | `transport.rs` `Service`, `serve_on` | the two engines behind one lock, the protocol each Link is pinned to, the channel of completed Resources | `admit`, `request`, maintenance timer, notices of closed Links |
| connecting adapter | `transport.rs` `client` | one Link | find the host, open a Link, identify, run one engine |
| reconnect policy | `reconnect.rs` | attempt counter | `run` |
| version-2 engine | `engine/v2.rs` | a version-1 session and at most one `Transfer`: description, hash table, missing and served chunks, pending chunk, received Resource, pages | START, DESCRIPTION / DESCRIBE, hash pages, CHUNK_BEGIN / COMMIT / GET / VERIFIED, FILE_COMMIT / FILE_VERIFIED, FINISH |
| chunk store | `chunks.rs` | a directory per transfer with chunk files, temporary files, an activity record and a lock file; `cache.lock` | `open`, `open_limited` (expire, quotas), `missing`, `receive`, `assemble`, `clear`, drop |
| wire codec | `protocol.rs`, `protocol/v2.rs` | none | `encode`, `decode` with limits |
| configuration | `config.rs` | `config.yaml`, the identity file | first run, load, `validate`, `permission` |
| command line | `main.rs`, `lib.rs` | none | the order in which a command loads the two and starts |
| benchmark example | `examples/cache_bench.rs` | none | measures the chunk store |

### How they interact

The Reticulum link manager is a library. `serve_on` steps it in a loop, lets it
call the *gate* when a peer identifies, `admit` for every packet and Resource
advertisement, the request handler for every request, and a channel of capacity
two for completed Resources. All of these lock one `Service`, so each of them is
atomic with respect to the others; the notice of a closed Link and a timer that
ticks once a second are handled in the loop. A request is routed to the engine of
its protocol, which scans, plans and writes the export through `sync.rs` and
`fs.rs` before it answers. The client runs the mirror image: it asks, awaits the
answer under a deadline, sends or receives one Resource, and so on. Nothing
resumes an attempt: after any error the session is dropped on both sides and
the reconnect policy starts again with a new Link and a new scan. With protocol 2
the receiver's chunk store keeps the verified chunks of a file for the next attempt.

### What is hard, and what makes each part correct

* **Server.** Peers may send any request in any order, a Resource may complete
  when nobody wants it any more, and other processes may edit the export. Correct
  means: nothing outside the plan is written, nothing that was edited meanwhile is
  overwritten, extras go last, an acknowledged FINISH means a synchronized export.
* **Client and server together.** A reply is lost after the server acted; a close
  is lost; a process dies; a lease runs out during a transfer; a source file is
  edited between scan, snapshot and COMMIT; an old attempt's messages arrive
  during the next. Correct means: success is reported only for a synchronized
  destination, no file mixes two versions, the export is never busy for ever.
* **Planner and executor.** String order of paths, type conflicts, protected
  objects inside directories to be replaced, and interruption between any two
  operations. Correct means: an accepted plan can be carried out, running it again
  converges, protected objects stay.
* **Serving adapter.** Two engines share one export; notices of closed Links and
  completions are queued; one lease check returns one Link. Correct means: one
  owner, no orphaned session, no Link disturbs another's session.
* **Reconnect.** Off-by-ones in attempts and pauses, and the budget racing both.
* **Version-2 engine.** Its transfer and the version-1 session it wraps have lifetimes
  of their own; pages, chunks and the whole file are three levels of "done"; a
  resumed transfer meets chunks of an earlier attempt. Correct means: what is
  installed is what was described, nothing is done before all of it is there,
  and progress survives whatever ends an attempt.
* **Chunk store.** Several processes, two levels of `flock`, lock files that are
  themselves evicted, quotas counted from the disk, kills between any two effects,
  a clock that may be set back. Correct means: one owner per transfer, no eviction
  of one in use, quotas that hold, no chunk counts that was not verified.
* **Geometry and codec.** The same boundaries are computed in half a dozen ways,
  the same limits on the two ends. Correct means: they agree, up to the last byte.
* **Filesystem access.** Renames, flushes of files and of directories, in an order
  that must survive a loss of power between any two.
* **Configuration.** Several first runs in one directory; a rule order that decides
  who may write; a cache that must not lie in the tree.

`PROJECT.json` lists each hazard at its line with the properties that cover it.

## 2. The modules

| module | models | composed of |
|---|---|---|
| `Plan` | plan and execution over a flat set of paths: what a handler may leave behind, in success and in failure | |
| `Server` | the version-1 engine: one action per handler | `Plan` |
| `Mirror` | abstract specification: what a destination may do | `Plan` |
| `Session` | client, network, crashes and edits around `Server`; refines `Mirror` | `Server`, `Mirror` |
| `SyncPlan` | nested paths, protected objects, one filesystem operation per step | |
| `Service` | the serving adapter with both engines reduced to owner, pending file, held file and idle time | |
| `Reconnect` | the retry loop | |
| `ServerV2` | the version-2 engine: one action per handler around a version-1 session | `Server` |
| `SessionV2` | version-2 client, the receiver's cache, network and crashes; refines `Mirror` | `Session`, `ServerV2` |
| `Cache` | abstract specification: what a chunk cache promises an engine | |
| `ChunkStore` | processes that share a cache directory, one disk effect per step; refines `Cache` | `Cache` |
| `Geometry` | chunks, pages and shards as each party computes them, in messages of the codec | `Wire` |
| `Wire` | encoder and decoder of both protocols | |
| `Durable` | directories, staging, renaming and unlinking, one system call per step | |
| `Startup` | commands that start in one configuration directory | |
| `ServerProofs` | theorems about both engines | `ServerV2` |
| `SessionProofs` | theorems about version-1 commands and their refinement of `Mirror` | `Session`, `ServerProofs` |
| `SessionV2Proofs` | theorems about version-2 commands and their refinement of `Mirror` | `SessionV2`, `SessionProofs` |
| `CommandProofs` | theorems about a command's start and its attempts | `Startup`, `Reconnect` |
| `FileProofs` | theorems about messages, about the way a file is cut, and about the file on the disk | `Geometry` with `Wire`, `Durable` |
| `SyncPlanProofs`, `ServiceProofs`, `ChunkStoreProofs` | theorems | the module each is named after |
| `MC*` | instances for TLC | |

### Data

A directory is a function from a fixed set of paths to entries. An entry has a
kind, a `ver` (what the manifest's size, mtime and mode tell) and a `data` (its
bytes): `SameFile` without `--checksum` compares `ver` only, with it both. `Size` gives
the size of a version, so that two different files of one size exist, which is
what the admission of Resources by size can confuse. A `Stamp` adds inode and
change time; instead of storing it, a session carries the set `stale` of paths
whose Stamp is no longer the recorded one. A Resource is an id, its bytes and
whether it has metadata.

### `Server` (engine.rs 63-291)

`session` is `Server.session`; `tree` and `rooted` are the export below the
requested directory and whether that directory exists. `Start`, `Begin`, `Commit`,
`Get`, `Verified`, `Finish` and `Unexpected` are the arms of `handle_inner`; each
takes its reply as a parameter, and the reply `"error"` includes every partial
effect the arm can leave before it fails: directories made, a conflicting object
removed, some extras removed. `Abort` is the `Err` branch of `handle`. The lock makes
a handler one step; an outside process acts between handlers (`Edit`).
A completed Resource is handed to the engine when it arrives; the code drains a
channel before every request, which is the same to the engine, and the channel
itself is in `Service`.

### `Session` (engine.rs 299-417, transport.rs 249-327 and 395-469)

`client.pc` is the await `synchronize_inner` stands at. Messages are a set, so they
overtake one another; `Lose` drops any of them. The n-th attempt uses Link n, and
`Open` takes a fresh scan, as `client` does. `Fail` covers every error and
deadline: the client closes its Link. `Crash` sends nothing. `Restart` forgets the
server's session and Links, not the export. `EditExport` and `EditLocal` are outside
processes; `stale` and `foreign` in `client` record what they touched, for the client's
own Stamp checks and for the properties.

### `Mirror`

Whatever the direction, the destination adopts a goal, and each step changes
paths only from the scanned entry to the source's entry (or through absence at a
type conflict), removes extras only when every planned file is installed,
and may give the goal up at any time. `MirrorsSource` states that `Session`
implements it with the destination, the manifests and the done files of whichever
side writes. `Mirror` knows nothing of Links, messages, leases or crashes.

### `SyncPlan` (sync.rs 33-371, fs.rs 180-355)

Paths carry numbers in string order with a `Parent`, so that "a-b" may sort
between "a" and "a/c", as in the code. Every mkdir, rename, unlink and rmdir is an
action with the condition under which the system call succeeds; a failing one
goes to phase `"failed"`. `Interrupt` stops a run anywhere and may leave a staging
file behind. `Run` scans again and plans again. Nobody else edits the destination
in this module; that is `Server`'s and `Session`'s subject.

### `Service` (transport.rs 94-393)

`version`, `incoming` and the two engines are the fields of `Service`; `live`, `known`,
`arriving` and `closing` are the link manager's, modelled from its use. `Packet` and
`Advertise` are `admit`, `Request` is the request handler, `Maintain` and `Closed` are the two
other arms of the loop in `serve_on`. An engine's reply decides between `Start`, `Begin`,
`Commit`, `Proceed`, `Finish` and `Refuse`; the conditions that depend on the plan are left
open, so that every behaviour of either engine is included.

### `Reconnect` (reconnect.rs)

An attempt lasts any time and ends in any of four ways. Time moves one unit at a
time and never past a timer that is due. Its specification is `RetrySpec`, so that the
theorems about a command can speak of the start and of the attempts in one module.

### `ServerV2` (engine/v2.rs 20-418)

`transfer` is `Server.transfer`, next to the `session` of module `Server`, whose START,
FINISH, lease and installation it uses as the code uses the wrapped engine. Each
arm of `handle_inner` is an action; an arm that refuses ends in `Fails`, which drops
both. `Size` counts chunks here: all chunks of a file but the last have one length,
and lengths are `Geometry`'s subject. A chunk's content and its hash are named by
the version whose chunk it is, so a peer can announce a page of wrong hashes
(`PageHashes`), send a chunk of another version, and describe one file twice with
different pages. `stored` is what the opened store holds for each index; it is
arbitrary when a store is opened (`AnyStored`) and `DamageStored` may take any of it
away. `TransferIsPending`, `PagesInOrder`, `InstalledIsDescribed` and
`CompleteBeforeDone` are stated for such peers.

### `SessionV2` (engine/v2.rs 420-678)

`part` is the client's position inside a file: description, page, the chunks left
of the page, the one under way. `cached` is the receiver's cache by path, hash and
chunk; it survives crashes of either side and is what makes the second attempt a
resumption. `StoredOf` connects it to the `stored` of `ServerV2` when a store opens, and
`LoseChunk` damages it. The steps of a version-1 dialogue that version 2 shares are
those of `Session`, wrapped by `Shared`; those that end a session drop its transfer
(`Dropping`), which closes the store.

### `Cache` and `ChunkStore` (chunks.rs 139-534)

A process stands `at` one effect of one operation. `cache.lock` needs no variable: it
is held shared by every process without limits and exclusively by one with
limits, from the first step to the close, so `OpenLimited` is enabled only when all
are idle. The lock of a transfer is a variable, because its file is unlinked by
eviction (`RemoveLock`) while the transfer's directory is still there, and another
process can make a new one. An activity record is written in one step
(`to_file` renames). All chunks have `ChunkLen` bytes; a chunk file is verified,
damaged at full size, or of another size, which is what `missing` (by hash) and the
reservation (by size) tell apart. `litter` counts the bytes of temporary files, which
a kill leaves behind. `used` is a history variable: when the retention period of a
transfer last started, by an operation that succeeded or by the discovery that the
record was lost; properties compare evictions with it. `SetClock` moves the clock
either way. `ImplementsCache` states that an engine that knows only owners and
verified chunks sees module `Cache`, of which `stored` in `ServerV2` and `cached` in
`SessionV2` are the two uses.

### `Geometry` (chunks.rs 60-140, protocol/v2.rs 45-80, engine/v2.rs 274-300, 470-520)

The sender cuts a file by what remains, `Description` counts by a ceiling, a page is
a minimum, the receiver adds up pages, a chunk file's directory is a quotient. A
hash is the span of bytes it covers, so that two parties that cut differently hash
differently. Sender and receiver run one file from scan to commit, and every
number they exchange is encoded and decoded by `Wire`. Its specification, which has the
Link of `Wire` too, is `GeometrySpec`.

### `Wire` (protocol.rs, protocol/v2.rs)

A wire is a sequence of fields and every field a number; a string stands for its
length and rank. `Encode` refuses as `encode` does (empty result); `Decode` returns at
most one message. A behaviour of the run moves one file, or has one message under
way. `Alter` is a peer of another make: it changes, drops or adds one
field. A limit on the bytes of a message is a limit on the number of its fields.

### `Durable` (fs.rs 180-355)

`file` is what the running system sees and `survives` what each name may hold after a
loss of power: a change adds the new value, a flush of the directory leaves only
it. `made` and `kept` are the same for directories. `Put` walks mkdirat, fsync of the
parent, write, fsync, the check against the scan, rename and fsync of the directory;
`Remove` unlinks a batch and flushes once. Every call can fail. `said` is what was
last acknowledged of a name; `late` remembers an outside write that came after the
check.

### `Startup` (config.rs, main.rs, transport.rs 30-52 and 60-110)

A process stands at one access to `config.yaml` or the identity file. Writing the
first configuration never replaces one (`persist_noclobber`), writing an identity
does (`to_file` renames over what is there); an identity is its number
in the order in which they were made. `Permission` is the loop over the rules, `ValidConfig` what `validate` requires with the
YAML syntax left out, and of the retry policy only the number of attempts.

## 3. What is checked

| run | question | size |
|---|---|---|
| `server` | two Links (one may only read), any request at any time, edits: what may the engine never do? | 2 paths, 3 versions of 2 sizes, 32 jobs, 3 exports; 85,927 states |
| `session` | one command, two attempts, everything that can be lost or crash, one edit: is success honest, are files whole, does the destination follow `Mirror`, is the export freed? | 2 paths, 6 jobs, 4 pairs of directories; 1,325,316 states |
| `syncplan` | every pair of directories over 5 nested names, run, interrupted and run again: is a plan executable, does it converge, is protected data left alone? | 22,440 initial, 348,195 states |
| `service` | three Links, two served at a time, two engines, a channel of two: who owns the export, who is forgotten? | 69,696 states |
| `reconnect` | 0 to 3 retries (and 33), all relations between pause, cap and budget | 4,173 states |
| `server_v2` | a full and a read-only Link, any description, page, chunk and request in any order over any cache: what may the engine never do? | 3 versions of 2, 2 and 0 chunks, pages of one; 187,608 states |
| `session_v2` | a version-2 command, two attempts, one damaged chunk: is success honest, do both sides move the same chunk, does progress survive, is it still `Mirror`? | 2 chunks, pages of one; 2,014,796 states |
| `chunk_store` | a process with limits and two without in one cache, a kill, damage, a clock set either way: one owner, patient eviction, quotas; is it `Cache`? | 2 transfers of 2 and 1 chunks; 751,456 states |
| `formats` | every file of up to three pages and two shards, every message of both protocols and every alteration of one field: do all parties cut and read alike? | 267,379 states |
| `durable` | two files two directories deep, one kill, failing call, loss of power and outside edit each | 3,158,300 states |
| `startup` | two commands of six kinds, six configurations, edits and exits at any time | 498,262 states |
| `chunk_rerun` | a statement of the documentation that the code does not keep (section 4) | violated |

What the properties say. A property that is a conjunction is listed with its parts:

* `server`: `ServerInvariant` is `TypeOK`, `ReceivedIsPending` (a held Resource is of the
  pending file), `ProgressWithinPlan` (counting files at FINISH is sound), `PushIsFull` and
  `ExportAccounted` (every unedited path is as scanned or as the session made it).
  `NoLostUpdate` (no edited object is overwritten), `ExtrasGoLast`; `FinishIsHonest` is
  `FinishMeansSynchronized` and `PullFinishMeansUnchanged`.
* `session`: `SessionInvariant` is `SessionTypeOK`, `SessionHasLink` and `PeersAgree` (same
  plan, at most one file apart). `FilesAreFaithful` (metadata and bytes of one version),
  `SuccessMeansSynchronized`, `MirrorsSource` (refinement; a dry run has no goal in
  `Mirror` and so writes nothing), `ExportIsFreed` (again and again no session is active).
* `syncplan`: `PlanInvariant` is `TreeOK` and `PlanIsExecutable`, `RunsConverge` is
  `Converged` and `SecondRunIsIdle`, `OnlyExtrasAreLost` is `ProtectedStay` and
  `NothingLostWithoutDelete`; `RerunIsPossible` stands alone.
* `service`: `ServiceInvariant` is `ServiceTypeOK`, `OneOwner`, `OwnerIsServed`,
  `NoForgottenPins` and `HeldFileIsPending`. `ExpiredLinksClose`, `OthersUndisturbed`.
* `reconnect`: `ReconnectInvariant` is `ReconnectTypeOK` and `BackoffIsBounded`,
  `AttemptsAreCounted` is `LoopReturns` (the `unreachable!()` is) and `GivesUpLast`;
  `CommandEnds`.
* `server_v2`: `V2Invariant` is `V2TypeOK`, `TransferIsPending` (transfer and session stay in
  step), `PagesInOrder` (a page is left only complete) and `ExportAccounted`.
  `InstalledIsDescribed` (whatever was announced or cached), `CompleteBeforeDone`;
  `KeepsServerPromises` is `NoLostUpdate`, `ExtrasGoLast` and `FinishMeansSynchronized` again,
  of this engine.
* `session_v2`: `SessionV2Invariant` is `SessionV2TypeOK`, `PeersAgree` and `PeersInStep` (the
  same page, the same chunk), `SuccessIsHonest` is `FilesAreFaithful` and
  `SuccessMeansSynchronized`. `OnlyMissingSent` (no chunk is sent that the receiver has),
  `ProgressSurvives` (a cached chunk goes only by damage or when its file is in place),
  `MirrorsSource`.
* `chunk_store`: `StoreInvariant` is `StoreTypeOK`, `NoTornChunk` (a chunk file is never what
  a kill left half-written) and `QuotasHold` (while a store with limits is
  open, both limits hold of all that is cached and staged; without damage, see
  section 4). `TransfersAreOwned` is `OneOwnerPerTransfer` and `ActiveNeverEvicted`. `EvictedOnlyWhenIdle` (a verified chunk
  goes only by damage, by its owner or after its retention period), `ImplementsCache`
  (refinement).
* `formats`: `SidesCutAlike` is `GeometryTypeOK`, `NeverRefused`, `TableIsExact`,
  `CountersAgree` and `FilesAreListed`. `SentIsRead` (what this program sends it reads as
  sent). `NothingElseIsRead` is `WireTypeOK`, `OneWirePerMessage` (what is accepted is what
  would be sent) and `VersionsApart`.
* `durable`: `DurableInvariant` is `DurableTypeOK`, `NeverTorn` and `NothingPending` (nothing
  acknowledged could be taken back). `AcknowledgedStays` (after a loss of power too),
  `EditsBeforeCheckStay` (an edit before the check is never replaced; one between check
  and rename is).
* `startup`: `StartupInvariant` is `StartupTypeOK`, `GrantsFirstMatch` and
  `Version2HasACache`; `OnlyMissingIsMade` is `OnlyMissingConfigIsMade` and
  `DryRunMakesNothing`.

Each property is broken by at least one mutated definition listed in `PROJECT.json`,
each a plausible slip in the code: a check dropped, a field not reset, a comparison
off by one. Further definitions marked "mutation" in the modules are slips of the same
kind that break the other parts of a conjunction.

### Bounds

* *Two paths* in `Server` and `Session`: handlers treat paths one at a time and
  interact only through `pending`, `done` and the count at FINISH, for which a
  done and an open file are needed. *Three versions, two sizes*: the scanned, the
  wanted and an edited version; two of a size so that a Resource can be mistaken.
* *Two Links* in `Server`: an owner and a rival. *Two attempts* in `Session`: the old
  attempt's messages meet the new one; the third is like the second. *One edit*
  (`MaxEdits`): each property compares a path with one earlier observation.
  In `session` the client has full permission and all versions have one
  size; permissions and sizes are `server`'s subject.
* `Lease = 0`, `Timeout = 0` ticks: a tick of silence suffices to expire, and the
  models let ticks happen or not, so a longer lease adds only intermediate states.
* *Five names* in `SyncPlan`: a directory with a file, a directory and a staging name in it, a
  grandchild, and a sibling that sorts between; *two runs* (`MaxRuns`): one that
  is interrupted or finishes and one after it; that a third would have nothing to do
  is `SecondRunIsIdle`, a statement about the state a run ends in.
* *Three Links, two served* in `Service`: one may not identify, two race, and a Link
  is admitted while the notice of an older one is queued. The channel has the
  code's capacity, two. The queue of notices (64 in the code) is a set without a bound.
* `MaxTime = 12` in `Reconnect` bounds commands without a budget; those with one
  (up to 9) never meet it.
* *Two chunks, one a page* (`PageChunks`) in `ServerV2` and `SessionV2`, so that a page ends
  before the file does; a page of several chunks, the last one short, is in `formats`. A file
  of no chunk is among the versions of `server_v2`. `MaxLosses = 1` damages one cached chunk
  in `session_v2`, next to an edit, a second attempt and every loss of a message; its
  one pair of directories has a file to update and a directory to remove.
* *Two transfers and at most one cached* (`MaxTransfers`) in `chunk_store`, so that opening the
  second has to wait for or evict the first; `MaxBytes = 4` for chunks of `ChunkLen = 2`, so
  that the large one exactly fits and with anything else does not. `Retention = 1` with a
  clock of two values: before and at the end of a period, and back. `MaxCrashes` and
  `MaxDamage` bound kills and damage to one each. The two processes without limits are
  interchangeable, and the run uses that symmetry (all its properties are safety
  properties). The process with limits has the cache alone while it works, which is why
  one suffices; races are between the two others and between them and its opening.
* `formats`: sizes up to 11 with chunks of 2 and 3, pages of 2 and shards of 3 give
  six chunks, three pages and two shards, with every remainder. Every limit of the codec
  is a small number and fields range past it; `MaxControl` cuts between the longest
  messages. Manifests of up to two entries, sorted and not, with a reserved name, a
  file inside a directory, a missing hash. The assumptions `GeometryNumbers` and
  `WireNumbers` are what the program's constants satisfy with a wide margin.
* `Durable`: each kind of fault once, in any order and at any call. `Depth = 2`: a chunk
  lies below its transfer and its shard.
* `Startup`: two processes are enough for a check of one to be stale by a write of
  the other; they are interchangeable, and the run uses that symmetry (its
  properties are all safety properties).

`CHECK_DEADLOCK FALSE` is given where the system really stops: a client that ran
out of attempts (`session`, `session_v2`), a command that is finished (`reconnect`),
the last run (`syncplan`), a file that is transferred or a message that is read
(`formats`).

### Fairness

* `session` (`FairSessionSpec`) assumes weak fairness of `Fail` (every await of the client
  has a deadline), of `ServerTick` and of `LeaseExpires` (the maintenance timer of
  `serve_on` runs once a second). It assumes nothing of the network: every message may be
  lost and no request need ever be served.
* `reconnect` assumes that timers fire: weak fairness of `Tick`, `NextAttempt` and
  `BudgetSpent`. An attempt need not end by itself; the budget ends the command.

The other runs check safety properties and assume no fairness.

## 4. Where the code and its documentation disagree

`chunk_rerun` is a statement of the documentation that TLC finds violated by the model
of the code. README.md:108 says "After an interruption, rerun the same command." A kill
while a chunk is staged leaves a temporary file in the transfer's own directory.
`payload_bytes` counts it, `expire` skips the directory of the transfer that is being opened,
and nothing else removes it before the quota is checked (chunks.rs:230), so with a
tight quota the rerun is refused.

Further places where a property had to be stated with a condition, because the code
does less than one might expect:

* `QuotasHold` excludes damage: the reservation counts chunks whose file is absent or of
  the wrong size, so a chunk damaged at its full size is fetched again without
  a reservation (chunks.rs:226, README.md:152).
* `AcknowledgedStays` excludes directories that an interrupted run made: `mkdir` flushes
  the parent only when it made the directory itself (fs.rs:187), so the entry of such a
  directory may not be on disk when a file in it is acknowledged (SUMMARY.md:347).
* Of two first runs at the same time the second replaces the identity the first has
  already announced: the file is looked for and later renamed into place
  (transport.rs:41). No property states that identities are kept.
* A client compares the place of its cache with the synchronized tree only under
  protocol 2 (transport.rs:416); `Version2HasACache` says what holds.

## 5. What is proved

TLAPS checks the eight proof modules: together they state every property of every run
that passes, except the two liveness properties. The theorems hold for all constants
that satisfy the named assumptions of the modules. Most of those say what kind of
value a constant is, or that a "none" value is no value; the
others are:

* paths, keys, names of files and processes, and the chunks of a transfer, are finite
  sets; paths are numbered, with a `Parent` below each (`SyncPathsAssumption`);
* before a transfer, and when somebody outside writes, `ver` and `data` of a file are the same
  (`VersionsAreContents`): without it nothing is whole to begin with;
* Links are numbered in the order of the attempts (`LinksAreAttempts`);
* the trees a run of `SyncPlan` starts from are well formed (`SyncTreesAssumption`): a scan
  yields no other;
* chunks, pages, shards and manifests are not empty, the chunks of a file can be
  counted in 32 bits, and a page of hashes fits in a message (`GeometryNumbers`); fields are natural numbers and the 240 characters to
  which an error text is cut are never more bytes than the 1024 a reader allows
  (`WireInputs`). All are facts about constants of the program.

Every proof has the same plan: an inductive invariant, one lemma per action
that it is kept (or, where many actions have the same effect on a part, a frame lemma that
says what such a step may do), and the properties read off it.

**`ServerProofs`** has both engines.

*Version 1.* The invariant is
`TypeOK /\ ReceivedIsPending /\ ProgressWithinPlan /\ PushIsFull /\ ExportAccounted`.
None of its parts is inductive alone. `PushIsFull` (a push session belongs to an
identity with full permission) is what START checked and gives
`OnlyFullPushWrites`; `ReceivedIsPending` lets COMMIT conclude that the bytes have the
planned size; `ExportAccounted` needs `ProgressWithinPlan` to know that
a file being installed was not installed before.
`AllDone` compares cardinalities: with `done` a subset of the planned files
and finite sets, equal counts mean equal sets, which is
the step from the code's counter to `ExtrasGoLast`, `FinishMeansSynchronized` and
`PullFinishMeansUnchanged`. The lemmas about `Plan` say which paths a prepare, an install
or a removal may change and from what to what, including their partial forms.

*Version 2.* `V2IInv` keeps `TypeOK`, `PushIsFull` and `ExportAccounted` of the wrapped session,
adds `TransferIsPending`, and replaces `ProgressWithinPlan` by `V2Progress`, since a file is pending before the
directories are made: FILE_COMMIT prepares. `TransferIsGood` is `PagesInOrder` and what it rests
on: the tables have the described length, a push only misses and a pull only
serves chunks of pages that were fetched, and every fetched chunk that is
not missing is stored under the announced hash or damaged. The description
stays the manifest's (`ValidDescription`), which gives `InstalledIsDescribed`.
The promises of a version-1 session (`KeepsServerPromises`) are proved from the lemmas
of the first half.

**`SessionProofs`**. `IInv` is `Typed /\ Sessions /\ Links /\ OneQuestion /\ Position /\ InStep /\ Strays /\
Accounted /\ Done`. `Typed` contains `ServerInvariant`, which the lemmas of `ServerProofs` carry
over every step that calls a handler. The difficulty is that the server may be one step
ahead and the network may hold anything of earlier attempts:

* `OneQuestion`: on the Link of the attempt at hand is the question the client awaits an
  answer to, or what that question brought, and no two of a kind.
* `InStep`: while the question is unanswered the session stands where the client does
  (`Before`) or one file operation further (`After`), and is `After` when a good answer is on its way.
  `PeersAgree` alone is not inductive: it allows both without saying which.
* `Strays`: once an attempt has its manifest, a session that an earlier attempt left behind
  gets no more work. This is what keeps a late COMMIT of attempt 1 from writing during attempt 2;
  it holds because a START is the first message of its Link (`Links`) and the server has
  one session.
* `Accounted` says what the client's own directory holds, apart from what was edited, and
  `Done` what success means.

`SessionMirrors` is the refinement. For a push, the side that writes is the session, and its steps are
`Begins`, `GoesOn` or `IsOver`; for a pull it is the client, and they are `TakesUp`, `CarriesOn`, `LeavesOff` or
`Waits`. Each action is shown to be one of these, and each of these to be a step of `Mirror` or
to leave its variables alone; the lemma about `Writes` says that whatever the handlers of module
`Plan` may do to a path, `Mirror` allows.

**`SessionV2Proofs`**, for any numbers of Links, paths, versions and chunks, any page
length and any number of losses. `CommandInv` has the parts of version 1 one level deeper, on
top of the engine's own `V2IInv`:

* `V2Typed` and `V2Sessions`: types; a transfer has the description of the scanned file, and what the
  server takes for stored is what its cache holds (`InStore`), though chunks arrive, are damaged,
  expire and are cleared meanwhile.
* `V2Links` and `V2Question`: one thing on its way at a time, on one Link. A chunk that is served
  brings two messages, the reply and the chunk; either may be lost or come first.
* `V2Place`: what the client's position in the file (`part`) has to do with its plan, and that a
  description or chunk on its way to a pulling client is of the file and version it asked for.
* `V2InStep`: the session stands where the client does (`V2Before`) or one step further (`V2After`), now
  on three levels: the description, the chunk under way, the file. As in version 1 neither
  `PeersAgree` nor `PeersInStep` says which, so neither is inductive.
* `V2Strays`: what earlier attempts left works no more. Here it also guards the cache:
  a late CHUNK_COMMIT of attempt 1 could store a chunk attempt 2 is about to send.
* `Accounted` and `Done` are those of version 1.
* `V2Uncached`: what is left of the page is not in the receiver's cache, nor is what an answer
  calls missing. `OnlyMissingSent` speaks of chunks on the wire only; without this part
  nothing is known when one is put there.

Steps that only take away (lost messages, closed Links, restarts, expiry, a damaged chunk) share
the frame lemma `V2LessensInv`; steps of the client within a file share `V2InFile`; what a request may
do is one of six cases (`V2Does`), from which each part of the invariant is read off.
`SessionV2Mirrors` takes the lemmas of `SessionProofs` about sessions and clients as
they are: descriptions, pages and chunks leave `Mirror`'s variables alone, FILE_COMMIT makes directories
and installs in one step, which `Mirror` allows.

**`SyncPlanProofs`**. The ancestors of a path are a recursive function of the module, so it
first has to be shown that there is a function that satisfies its equation
(`AncestorsEquation`: a least counterexample among the paths, which the order
of names allows). The lemmas about `MakePlan` say what an accepted plan contains: parents of
what it makes are there or made, what it removes has no content that
stays, protected objects lie in nothing it removes or replaces. `IInv` is
`SyncTyped /\ Progress /\ RerunIsPossible`; `Progress` says that paths are
taken in order (`InOrder`) and that the destination is exactly `SoFar`: the source where a
path is `Handled`, nothing where it was `Cleared` or `Taken`, otherwise what it was. From this, what an operation
finds can be computed, which is `PlanInvariant`, and what it leaves, which is `RunsConverge`. That a run that was
stopped anywhere can be followed by another (`RerunIsPossible`) has to be part of the
invariant because the next run plans from what this one left.

**`ServiceProofs`**. The
invariant is `ServiceTypeOK`, `EngineOK` of both engines (a session's Link is pinned to
its engine and is known or about to be noticed as closed; the file it holds has the
size of the file it waits for), `OneOwner` and `NoForgottenPins`. `OneOwner` alone is not
inductive: a session could change hands between two handlers; `EngineOK` excludes it,
because only the pinned Link reaches the engine. `ExpiredLinksClose` follows from
`OneOwner`: with one session there is only one Link to close.
`OthersUndisturbed` follows from the lemma that draining keeps every session and its
Link, and that every arm of `Request` updates only the engine its Link owns or starts.

**`CommandProofs`**, the attempts. The invariant `Counted` says that a pause
is entered only with a retry left; without it, nothing bounds the attempt
that follows a pause. For `BackoffAlwaysBounded` the invariant `Paced` says that
the pauses so far are the delays of the attempts so far, and the powers of two in `Delay` are shown
to exist and to double; a delay then lies between the first and the maximum, and the next one is twice as long or the maximum.

**`ChunkStoreProofs`**: any number of processes, transfers and chunks, any
quotas and any clock. The invariant is
`StoreTypeOK /\ Exclusive /\ (\A p : Consistent(p)) /\ Dated`:

* `Exclusive` is what `cache.lock` gives, which is no variable: while a process with limits
  is not idle, no other is.
* `Consistent(p)` says what process `p` may count on at the effect it stands at: that the
  directory it made is still there and the lock it took is its own, that what it sweeps is
  neither its own transfer nor one it has swept, and is expired at its own reading of
  the clock. Ownership alone is not inductive, since a lock file is unlinked while its
  directory stays: it has to be known that whoever unlinks one is alone.
* `Dated` says that a transfer's activity record, when there is one, has the date of its last
  use. With it the date an evicting process reads is the one `EvictedOnlyWhenIdle` compares.

The frame lemmas `AloneKeeps`, `OthersKeep` and `WritesKeep` say what a step of one process leaves the
others: either it is alone, or it removes no directory and touches no transfer another has
locked. The lemma `Moves` says of every step how owners and
verified chunks change; the refinement `ImplementsCache`, `EvictedOnlyWhenIdle` and the second half of
`TransfersAreOwned` are read off it. The assumption `ChunkStoreNone` says that the value for an
absent directory is no directory.

*Quotas.* `Undamaged` (without damage every chunk file is absent or whole) gives `NoTornChunk`. `QuotaOf(p)` says
what a process with limits has counted, reserved and still has to fetch: until it makes its
own directory it knows the bytes of the whole cache, and from its reservation on
`CachedBytes + Reserved <= MaxBytes + staged`, where the reservation covers exactly
the chunks of its transfer whose file is not of full size. `CachedBytes` is a sum over transfers of sums
over chunks, folded in an order nothing fixes; the lemmas from `SumsExist` to `SumsAgree`
show that a sum over a finite set has a value, that one element may be taken out and that
only the summands count, and `CacheFollows` that a step that
changes one transfer changes the total by that transfer's difference.

**`FileProofs`**: a file on its way, in three parts.

*Messages*, for all limits, fields and manifests. The lemma `Carries` is the round trip: of every
message the codec has a layout for (`Wireable`), whatever encode lets pass decode
reads as that message. `ReadBack` is the way back: of every sequence of fields,
whatever decode accepts is a message whose encoding is that sequence. Layouts of a fixed length and counted
tables are computed; a manifest is written and read by loops, which are folds over `1 .. n`.
`FieldsExists` and `ReadingExists` show that the function behind such a fold exists
(a fold is a choice of a function that satisfies an equation) and `FieldsStepwise` and `ReadingStepwise`
that it goes one entry at a time, whatever its length;
`ManifestRead` and `ManifestReadBack` follow the two loops in parallel. `LinkInv` (the
wire is the encoding of what was sent until a peer of another make alters it) carries both to the
run's properties `SentIsRead` and `NothingElseIsRead`.

*Cuts*, for all sizes of files, chunks, pages and shards. `FileInv` is
`Sized /\ ScanInv /\ TableInv /\ PageInv /\ ChunkInv`. `SidesCutAlike` compares the results of the parties;
it is not inductive, because it does not say where each party stands: that the scan
has cut off whole chunks or everything, that the receiver's table is a beginning of the sender's
and ends at a page's start or, at the end, at the file's. The arithmetic is in a few
lemmas: `CountCovers` (the ceiling is the number of chunks: `i` is below it exactly when chunk `i`
starts inside the file), `LengthOfChunk`, `NextPageStarts`, `PageIsInRange`, `ShardIsListed`. That
no message between them is refused (`DescriptionArrives` to `MissingArrives`) is where this part needs `Carries`.

*The disk*. `Walked` and `Checked` say what is behind an operation at each system call: directories made from
the top, contents flushed before the rename, a check that
still holds unless somebody wrote since. `Complete`, `Flushed` and `Kept` bound what a loss of power can
take: no incomplete file; only the entries the operation at hand has changed; only the directory made last.
`Kept` has the condition of section 4: it says nothing once an interrupted run left a
directory unflushed.

**`CommandProofs`**, the start. `Prepared` says what a process has seen to where it stands: its
configuration is valid, its cache lies outside the tree. That no more identities are made than there are
processes needs the number of `Makers` in the invariant. The loop over the rules of a configuration is a
recursive function; `PermissionIsFirst` shows that it returns the first rule for the
peer, or else the first for all others.

Induction over data is done throughout on sets: the least counterexample in a
set of naturals, which module `WellFoundedInduction` provides. The induction theorems of the library take an
operator as a parameter and cannot be used with the provers at hand.

**Only model-checked**: the liveness properties `ExportIsFreed` and `CommandEnds` (liveness
under fairness is outside what the proof system does). `chunk_rerun`, which shows a
statement violated, has nothing to prove.

## 6. What is not modelled, and why

* *Edits inside a handler of the engines*: handlers are atomic in `Server` and
  `ServerV2`, so `NoLostUpdate` speaks of edits between handlers only. Edits between
  the check and the rename of one installation are in `Durable`.
* *Directory times*: set at the end of `finish`; their failure is an error of FINISH
  after all removals and is included, their values are not.
* *Scans* are one step. A change during a scan is an error in the code, and an
  error reply of START in the model.
* *Path resolution*: the `openat2` flags are below the level of the models. In the
  engines a crash is a crash of the process; losses of power are in `Durable`.
* *Hashes* have no collisions.
* *The bytes of a message*: `Wire` has its fields and their limits; in `Session` and
  `SessionV2` messages arrive whole. Wrong message contents (a file index outside
  the manifest) are refused like any other index outside the plan.
* *YAML syntax, argument parsing, printing* of the configuration and command line.
* *Activity records that fail half-way*: they are written to a temporary file and
  renamed; a record is there or not.
* *The benchmark example* measures the chunk store and is no part of the program.
* *The link manager*: external. Requests carry ids and are delivered at most
  once; Link ids are never reused; identities are authenticated. That stepping it
  always takes the event that was sent to it is assumed: `serve_on` waits for the
  channel it has itself to empty (transport.rs:311), and whether one step empties
  it is decided by code outside the repository. It and the
  identity of two first runs (section 4) are the listed hazards without a property.
* *The client's root directory* exists; the server's may not (`rooted`).

## 7. Plan

Done, in this order: `Plan`, `Server`, `Session` with `Mirror`,
`SyncPlan`, `Service`, `Reconnect`; then
`ChunkStore` with `Cache`, `ServerV2`, `SessionV2`, `Geometry`, `Wire`, `Durable`, `Startup`; then the
proofs of section 5.

With the last of them, about messages and cuts, every safety property of the runs that pass is
proved. What could be added: the two liveness properties for all constants, once a prover
handles fairness; a model of the change of a directory while it is scanned; and
numbers as bytes in `Wire`.
