------------------------------ MODULE Durable ------------------------------
(***************************************************************************)
(* What fs.rs makes of the filesystem, one action per system call: the     *)
(* directories of a path are made one below the other, a file is staged,   *)
(* flushed, checked against the scan and renamed, files are unlinked in a  *)
(* batch, and a directory is flushed after each change of its entries.     *)
(* `install' and `prepare' (sync.rs) and Store::receive and remove_payload *)
(* (chunks.rs) are made of these calls.  Every call may fail, the process  *)
(* may be killed between two of them, the machine may lose power, and an   *)
(* outside process may write the files meanwhile.                          *)
(*                                                                         *)
(* An entry that was changed and not flushed survives a loss of power with *)
(* its value of before or of after; so does a directory made and not       *)
(* flushed in its parent.  A renamed file whose bytes were not flushed may *)
(* come back torn.  Outside processes flush what they write.               *)
(***************************************************************************)
EXTENDS Integers, FiniteSets

CONSTANTS
    Depth,          \* directories between the root and the files
    Names,          \* files of the last directory
    Versions,       \* complete contents a transfer may bring
    Outside,        \* the content an outside process writes
    Torn, Nothing,  \* a content that is incomplete; no file
    NoPromise,
    MaxKills, MaxFailures, MaxLosses, MaxEdits      \* bounds of the faults

ASSUME DurableNumbers ==
    /\ Depth \in Nat \ {0} /\ IsFiniteSet(Names)
    /\ {MaxKills, MaxFailures, MaxLosses, MaxEdits} \subseteq Nat
ASSUME DurableContents ==
    /\ Versions \cap {Outside, Torn, Nothing, NoPromise} = {}
    /\ Torn \notin {Outside, Nothing} /\ NoPromise \notin {Outside, Torn, Nothing}
    /\ Nothing \notin Names

Dirs == 1 .. Depth
Contents == Versions \cup {Outside, Torn, Nothing}
Calls == {"idle", "mkdir", "flushParent", "write", "flushData", "check", "rename",
          "flushEntry", "unlink", "flushBatch"}

VARIABLES
    made,       \* directories that exist
    kept,       \* directories whose entry was flushed
    file,       \* what a name holds
    survives,   \* what it may hold after a loss of power
    scanned,    \* what the scan of the session found
    said,       \* what the last acknowledged operation on a name promised
    proc,       \* the operation in progress
    faults

vars == <<made, kept, file, survives, scanned, said, proc, faults>>

Idle == [at |-> "idle", checks |-> FALSE, dir |-> 0, name |-> Nothing, new |-> Nothing,
         flushed |-> FALSE, late |-> FALSE, batch |-> {}, failed |-> FALSE]
Operation ==
    [at : Calls, checks : BOOLEAN, dir : 0 .. Depth, name : Names \cup {Nothing},
     new : Versions \cup {Nothing}, flushed : BOOLEAN, late : BOOLEAN,
     batch : SUBSET Names, failed : BOOLEAN]
Faults == [kills : 0 .. MaxKills, failures : 0 .. MaxFailures, losses : 0 .. MaxLosses,
           edits : 0 .. MaxEdits, inMkdir : BOOLEAN, inFlush : BOOLEAN]

DurableTypeOK ==
    /\ made \subseteq Dirs /\ kept \subseteq made
    /\ file \in [Names -> Contents] /\ survives \in [Names -> SUBSET Contents]
    /\ \A n \in Names : file[n] \in survives[n]
    /\ scanned \in [Names -> Contents] /\ said \in [Names -> Contents \cup {NoPromise}]
    /\ proc \in Operation /\ faults \in Faults

Init ==
    /\ made = {} /\ kept = {}
    /\ file = [n \in Names |-> Nothing] /\ survives = [n \in Names |-> {Nothing}]
    /\ scanned = file /\ said = [n \in Names |-> NoPromise]
    /\ proc = Idle
    /\ faults = [kills |-> 0, failures |-> 0, losses |-> 0, edits |-> 0,
                 inMkdir |-> FALSE, inFlush |-> FALSE]

Exists(d) == \A e \in 1 .. d : e \in made
Goto(at) == proc' = [proc EXCEPT !.at = at]
Disk == <<made, kept, file, survives>>

-----------------------------------------------------------------------------
(* A session scans, then installs or receives files and removes others.    *)

Rescan ==
    /\ proc.at = "idle" /\ scanned' = file
    /\ UNCHANGED <<Disk, said, proc, faults>>

StartPut(n, v, checks) ==
    /\ proc.at = "idle"
    /\ proc' = [Idle EXCEPT !.at = "mkdir", !.dir = 1, !.name = n, !.new = v,
                            !.checks = checks]
    /\ UNCHANGED <<Disk, scanned, said, faults>>

\* mkdir, for one component of the path.
Below == proc' = IF proc.dir = Depth THEN [proc EXCEPT !.at = "write"]
                 ELSE [proc EXCEPT !.at = "mkdir", !.dir = @ + 1]

FlushesFirst ==                                 \* mutation: the sync comes before mkdirat
    /\ proc.at = "mkdir" /\ proc.dir \notin made
    /\ kept' = kept \cup {proc.dir}
    /\ Goto("flushParent")
    /\ UNCHANGED <<made, file, survives, scanned, said, faults>>
MakesDirectory ==
    /\ proc.at = "mkdir" /\ proc.dir \notin made
    /\ made' = made \cup {proc.dir}
    /\ Goto("flushParent")
    /\ UNCHANGED <<kept, file, survives, scanned, said, faults>>

FindsDirectory ==
    /\ proc.at = "mkdir" /\ proc.dir \in made
    /\ Below
    /\ UNCHANGED <<Disk, scanned, said, faults>>

FlushNothing ==                                 \* mutation: no sync of the parent
    /\ proc.at = "flushParent"
    /\ Below
    /\ UNCHANGED <<Disk, scanned, said, faults>>
FlushParent ==
    /\ proc.at = "flushParent"
    /\ kept' = kept \cup {proc.dir}
    /\ Below
    /\ UNCHANGED <<made, file, survives, scanned, said, faults>>

\* stage_inner: bytes of the wrong length or hash end it with an error.
Write ==
    /\ proc.at = "write" /\ Exists(Depth)
    /\ Goto("flushData")
    /\ UNCHANGED <<Disk, scanned, said, faults>>

FlushDataSkipped ==                             \* mutation: no sync of the file
    /\ proc.at = "flushData"
    /\ Goto(IF proc.checks THEN "check" ELSE "rename")
    /\ UNCHANGED <<Disk, scanned, said, faults>>
FlushData ==
    /\ proc.at = "flushData"
    /\ proc' = [proc EXCEPT !.flushed = TRUE,
                            !.at = IF proc.checks THEN "check" ELSE "rename"]
    /\ UNCHANGED <<Disk, scanned, said, faults>>

\* check_entry, or the check that a new path is free.
CheckSkipped ==                                 \* mutation
    /\ proc.at = "check" /\ Goto("rename")
    /\ UNCHANGED <<Disk, scanned, said, faults>>
Check ==
    /\ proc.at = "check" /\ file[proc.name] = scanned[proc.name]
    /\ Goto("rename")
    /\ UNCHANGED <<Disk, scanned, said, faults>>

\* Wrong bytes, a parent that is gone, an entry that changed.
Refused ==
    /\ proc.at = "write" \/ (proc.at = "check" /\ file[proc.name] # scanned[proc.name])
    /\ proc' = Idle
    /\ UNCHANGED <<Disk, scanned, said, faults>>

\* commit.
Becomes(n, c) ==
    /\ file' = [file EXCEPT ![n] = c]
    /\ said' = [said EXCEPT ![n] = NoPromise]

Rename ==
    /\ proc.at = "rename"
    /\ Becomes(proc.name, proc.new)
    /\ survives' = [survives EXCEPT ![proc.name] =
                      @ \cup {proc.new} \cup (IF proc.flushed THEN {} ELSE {Torn})]
    /\ Goto("flushEntry")
    /\ UNCHANGED <<made, kept, scanned, faults>>

Promised(S) == [n \in Names |-> IF n \in S THEN file[n] ELSE said[n]]
\* A flush of the directory settles every entry.  What is torn on the disk
\* stays so: only the bytes in memory are complete.
Settled ==
    [n \in Names |-> {file[n]} \cup (IF n = proc.name /\ ~proc.flushed THEN {Torn} ELSE {})]

FlushEntry ==
    /\ proc.at = "flushEntry"
    /\ survives' = Settled
    /\ said' = IF proc.late THEN said ELSE Promised({proc.name})
    /\ proc' = Idle
    /\ UNCHANGED <<made, kept, file, scanned, faults>>

\* remove_files: in some order, up to the first that fails; then the flush,
\* also after a failure.
StartRemove(S) ==
    /\ proc.at = "idle" /\ Exists(Depth)
    /\ \A n \in S : file[n] # Nothing
    /\ proc' = [Idle EXCEPT !.at = "unlink", !.batch = S]
    /\ UNCHANGED <<Disk, scanned, said, faults>>

Unlink(n) ==
    /\ proc.at = "unlink" /\ n \in proc.batch /\ file[n] # Nothing
    /\ Becomes(n, Nothing)
    /\ survives' = [survives EXCEPT ![n] = @ \cup {Nothing}]
    /\ UNCHANGED <<made, kept, scanned, proc, faults>>

AllUnlinked ==
    /\ proc.at = "unlink" /\ \A n \in proc.batch : file[n] = Nothing
    /\ Goto("flushBatch")
    /\ UNCHANGED <<Disk, scanned, said, faults>>

UnlinkStops ==                                  \* mutation: a failure skips the sync
    /\ proc.at = "unlink" /\ faults.failures < MaxFailures
    /\ proc' = Idle
    /\ faults' = [faults EXCEPT !.failures = @ + 1]
    /\ UNCHANGED <<Disk, scanned, said>>
UnlinkFails ==
    /\ proc.at = "unlink" /\ faults.failures < MaxFailures
    /\ proc' = [proc EXCEPT !.at = "flushBatch", !.failed = TRUE]
    /\ faults' = [faults EXCEPT !.failures = @ + 1]
    /\ UNCHANGED <<Disk, scanned, said>>

FlushBatch ==
    /\ proc.at = "flushBatch"
    /\ survives' = Settled
    /\ said' = IF proc.failed \/ proc.late THEN said ELSE Promised(proc.batch)
    /\ proc' = Idle
    /\ UNCHANGED <<made, kept, file, scanned, faults>>

-----------------------------------------------------------------------------
(* Faults.                                                                 *)

Flushing == {"flushParent", "flushEntry", "flushBatch"}

\* Any other call fails: the operation ends with an error.
Fails ==
    /\ proc.at \notin {"idle", "unlink"} /\ faults.failures < MaxFailures
    /\ proc' = Idle
    /\ faults' = [faults EXCEPT !.failures = @ + 1,
                    !.inMkdir = @ \/ proc.at = "flushParent",
                    !.inFlush = @ \/ proc.at \in Flushing]
    /\ UNCHANGED <<Disk, scanned, said>>

Kill ==
    /\ proc.at # "idle" /\ faults.kills < MaxKills
    /\ proc' = Idle
    /\ faults' = [faults EXCEPT !.kills = @ + 1,
                    !.inMkdir = @ \/ proc.at = "flushParent",
                    !.inFlush = @ \/ proc.at \in Flushing \cup {"unlink"}]
    /\ UNCHANGED <<Disk, scanned, said>>

LosePower ==
    /\ faults.losses < MaxLosses
    /\ faults' = [faults EXCEPT !.losses = @ + 1]
    /\ proc' = Idle
    /\ \E S \in SUBSET (made \ kept) :
         made' = {d \in made : \A e \in 1 .. d : e \notin S}
    /\ kept' = made'
    /\ \E f \in [Names -> Contents] :
         /\ \A n \in Names : f[n] \in survives[n]
         /\ file' = IF Dirs \subseteq made' THEN f ELSE [n \in Names |-> Nothing]
    /\ survives' = [n \in Names |-> {file'[n]}]
    /\ UNCHANGED <<scanned, said>>

\* An outside process writes a file, or removes it.
Edit(n, c) ==
    /\ Exists(Depth) /\ faults.edits < MaxEdits
    /\ Becomes(n, c)
    /\ survives' = [survives EXCEPT ![n] = {c}]
    /\ proc' = [proc EXCEPT !.late = @ \/ (n \in {proc.name} \cup proc.batch
                                           /\ proc.at \in {"rename", "flushEntry",
                                                           "unlink", "flushBatch"})]
    /\ faults' = [faults EXCEPT !.edits = @ + 1]
    /\ UNCHANGED <<made, kept, scanned>>

Next ==
    \/ Rescan
    \/ \E n \in Names, v \in Versions, b \in BOOLEAN : StartPut(n, v, b)
    \/ MakesDirectory \/ FindsDirectory \/ FlushParent
    \/ Write \/ FlushData \/ Check \/ Refused \/ Rename \/ FlushEntry
    \/ \E S \in SUBSET Names : StartRemove(S)
    \/ \E n \in Names : Unlink(n)
    \/ AllUnlinked \/ UnlinkFails \/ FlushBatch
    \/ Fails \/ Kill \/ LosePower
    \/ \E n \in Names, c \in {Outside, Nothing} : Edit(n, c)

Spec == Init /\ [][Next]_vars

-----------------------------------------------------------------------------
(* Properties.                                                             *)

\* README.md "An interrupted transfer leaves the previous file intact": no
\* kill, failing call or loss of power leaves an incomplete file at a name.
NeverTorn == \A n \in Names : file[n] # Torn

\* What an operation acknowledged is there until the next change of the
\* name, through kills and losses of power (SUMMARY.md:347, the calls of
\* sync_all in fs.rs), if no mkdir was ever cut off before its flush.
AcknowledgedStays ==
    ~faults.inMkdir => \A n \in Names : said[n] # NoPromise => file[n] = said[n]

\* remove_files (fs.rs:327): as long as no flush itself failed or was cut
\* off, an operation that ended, in success or not, leaves nothing that a
\* loss of power could take back.
NothingPending ==
    proc.at = "idle" /\ ~faults.inFlush => \A n \in Names : survives[n] = {file[n]}

\* An outside edit made before the check (sync.rs:356) is never replaced by
\* an installation; only one that falls between the check and the rename is.
EditsBeforeCheckStay ==
    [][proc.at = "rename" /\ proc.checks /\ proc'.at = "flushEntry" =>
          file[proc.name] = scanned[proc.name] \/ proc.late]_vars

\* Types, no torn file, and no change that could still be taken back.
DurableInvariant == DurableTypeOK /\ NeverTorn /\ NothingPending
=============================================================================
