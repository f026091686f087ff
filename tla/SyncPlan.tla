----------------------------- MODULE SyncPlan -----------------------------
(***************************************************************************)
(* Planning and carrying out a synchronization of nested directories       *)
(* (sync.rs, and the operations of fs.rs it is made of), one filesystem    *)
(* operation per step, interrupted at any point and run again.             *)
(*                                                                         *)
(* A path is a number and Parent gives the tree of names.  Numbers order   *)
(* paths as strings order: a parent comes before its children, but other   *)
(* paths may come between ("a", "a-b", "a/c").  Object kinds are those of  *)
(* a scan; everything that is neither a file nor a directory, and every    *)
(* leftover of a killed install, is "protected".                           *)
(***************************************************************************)
EXTENDS Integers, FiniteSets, FiniteSetsExt

CONSTANTS
    Paths,          \* paths below the root, in string order
    Parent,         \* directory of a path, 0 for the root
    Temps,          \* paths with the staging prefix
    Sources,        \* source manifests
    Destinations,   \* destination directories to start from
    Options,        \* delete and checksum flags
    MaxRuns         \* bound on the times the command is run

ASSUME SyncPathsAssumption ==
    /\ Paths \subseteq Nat \ {0} /\ IsFiniteSet(Paths) /\ Temps \subseteq Paths
    /\ Parent \in [Paths -> Paths \cup {0}]
    /\ \A p \in Paths : Parent[p] < p

Object(k, v, d) == [kind |-> k, ver |-> v, data |-> d]
None == Object("none", 0, 0)
Dir  == Object("dir", 0, 0)
Protected == Object("protected", 0, 0)

\* p is ancestor a itself or lies below it.
Ancestors[p \in Paths] ==
    IF Parent[p] = 0 THEN {} ELSE {Parent[p]} \cup Ancestors[Parent[p]]
Below(p, a) == p = a \/ a \in Ancestors[p]

Present(m) == {p \in Paths : m[p].kind # "none"}
IsDir(m, p) == IF p = 0 THEN TRUE ELSE m[p].kind = "dir"

\* Manifest.validate and the shape of what a scan returns.
WellFormed(m) ==
    \A p \in Present(m) :
        /\ IsDir(m, Parent[p])
        /\ p \in Temps => m[p] = Protected

\* An object as a scan describes it.
Objects == {None, Dir, Protected} \cup [kind : {"file"}, ver : Nat, data : Nat]
ASSUME SyncTreesAssumption ==
    /\ Sources \cup Destinations \subseteq [Paths -> Objects]
    /\ \A m \in Sources \cup Destinations : WellFormed(m)
ASSUME SyncRunsAssumption ==
    Options \subseteq [delete : BOOLEAN, checksum : BOOLEAN] /\ MaxRuns \in Nat

----------------------------------------------------------------------------
(***************************************************************************)
(* The plan.                                                               *)
(***************************************************************************)
ProtectedIn(m) == {p \in Paths : m[p].kind = "protected"}
Shields(src, dst) == ProtectedIn(src) \cup ProtectedIn(dst)

\* Source entries the plan looks at: those below no protected object.
Considered(src, dst) ==
    {p \in Present(src) : \A s \in Shields(src, dst) : ~Below(p, s)}

Clashes(src, dst) ==
    {p \in Considered(src, dst) : dst[p].kind # "none" /\ dst[p].kind # src[p].kind}

\* A type conflict needs --delete and must not contain a protected object.
ClashAllowedWithoutDelete(src, dst, opt, p) ==           \* mutation
    \A s \in Shields(src, dst) : ~Below(s, p)
ClashAllowedIfNoneProtected(src, dst, opt, p) ==         \* mutation
    opt.delete /\ Shields(src, dst) = {}
ClashAllowed(src, dst, opt, p) ==
    opt.delete /\ \A s \in Shields(src, dst) : ~Below(s, p)
Plannable(src, dst, opt) ==
    \A p \in Clashes(src, dst) : ClashAllowed(src, dst, opt, p)

SameMetadata(e, f, opt) ==                               \* mutation
    e.kind = "file" /\ f.kind = "file" /\ e.ver = f.ver
SameFile(e, f, opt) ==
    /\ e.kind = "file" /\ f.kind = "file" /\ e.ver = f.ver
    /\ opt.checksum => e.data = f.data

RemovableAlways(src, dst, e) == TRUE                     \* mutation
RemovableExtra(src, dst, e) ==
    /\ \A s \in Shields(src, dst) : ~Below(e, s) /\ ~Below(s, e)
    /\ \A c \in Clashes(src, dst) : ~Below(e, c)

\* Everything below a conflicting path goes with it, children first.
ConflictsShallow(src, dst, p) == {p}                     \* mutation
ConflictEntries(src, dst, p) ==
    IF p \in Clashes(src, dst) THEN {e \in Present(dst) : Below(e, p)} ELSE {}

MakePlan(src, dst, opt) ==
    [dirs     |-> {p \in Considered(src, dst) : src[p].kind = "dir"},
     files    |-> {p \in Considered(src, dst) :
                     src[p].kind = "file" /\ ~SameFile(src[p], dst[p], opt)},
     removals |-> IF opt.delete
                    THEN {e \in Present(dst) \ Present(src) : RemovableExtra(src, dst, e)}
                    ELSE {},
     clears   |-> [p \in Paths |-> ConflictEntries(src, dst, p)]]

\* The operations a plan prints other than Skip.
Pending(src, dst, opt) ==
    LET plan == MakePlan(src, dst, opt)
    IN  {p \in plan.dirs : dst[p].kind # "dir"} \cup plan.files \cup plan.removals

----------------------------------------------------------------------------
(***************************************************************************)
(* Carrying it out.                                                        *)
(***************************************************************************)
VARIABLES
    source,     \* the source manifest
    options,
    dest,       \* the destination directory
    base,       \* its manifest, from the scan of this run
    phase,      \* where the run is
    todo,       \* paths left to handle in this phase
    clear,      \* conflicting entries left to remove at the current path
    runs        \* times the command was run

vars == <<source, options, dest, base, phase, todo, clear, runs>>

Init ==
    /\ source \in Sources
    /\ dest \in Destinations
    /\ options \in Options
    /\ base = dest /\ phase = "stopped" /\ todo = {} /\ clear = {} /\ runs = 0

plan == MakePlan(source, base, options)

\* Scan and plan; a plan that is refused changes nothing.
Run ==
    /\ phase \in {"stopped", "done"} /\ runs < MaxRuns
    /\ base' = dest /\ runs' = runs + 1
    /\ IF Plannable(source, dest, options)
         THEN LET p == MakePlan(source, dest, options)
              IN  /\ phase' = "prepare" /\ todo' = p.dirs
                  /\ clear' = IF p.dirs = {} THEN {} ELSE p.clears[Min(p.dirs)]
         ELSE phase' = "refused" /\ todo' = {} /\ clear' = {}
    /\ UNCHANGED <<source, options, dest>>

Fail == phase' = "failed" /\ UNCHANGED <<source, options, dest, base, todo, clear, runs>>

\* Move on to the rest of the phase.
Rest(S) ==
    /\ todo' = S
    /\ clear' = IF S = {} \/ phase = "finish" THEN {} ELSE plan.clears[Min(S)]

Enter(next, S) ==
    /\ todo = {} /\ phase' = next /\ todo' = S
    /\ clear' = IF S = {} \/ next = "finish" THEN {} ELSE plan.clears[Min(S)]
    /\ UNCHANGED <<source, options, dest, base, runs>>

\* unlink or rmdir of an entry that still is what was scanned.
Checked(e) ==
    IF base[e].kind = "file" THEN dest[e].kind = "file" /\ dest[e].ver = base[e].ver
                             ELSE dest[e].kind = "dir" /\ base[e].kind = "dir"
Unlinkable(e) ==
    Checked(e) /\ (dest[e].kind = "dir" => \A q \in Paths : Parent[q] = e => dest[q] = None)
Without(e) == [dest EXCEPT ![e] = None]

\* Clear the conflict in front of a mkdir or a rename, one object a step.
ClearConflict ==
    /\ phase \in {"prepare", "files"} /\ clear # {}
    /\ LET e == Max(clear)
       IN  IF Unlinkable(e)
             THEN /\ dest' = Without(e) /\ clear' = clear \ {e}
                  /\ UNCHANGED <<source, options, base, phase, todo, runs>>
             ELSE Fail

MakeDirectory ==
    /\ phase = "prepare" /\ clear = {} /\ todo # {}
    /\ LET d == Min(todo)
       IN  IF IsDir(dest, Parent[d]) /\ dest[d].kind \in {"none", "dir"}
             THEN /\ dest' = [dest EXCEPT ![d] = Dir] /\ Rest(todo \ {d})
                  /\ UNCHANGED <<source, options, base, phase, runs>>
             ELSE Fail

\* install: an old file must still be the scanned one, a path that was free
\* or whose conflict was cleared must be free.
Free(f) == IF base[f].kind = "file" /\ f \notin Clashes(source, base)
             THEN Checked(f) ELSE dest[f].kind = "none"

\* What staging makes of the received bytes.
InstalledUntimed(f) == [source[f] EXCEPT !.ver = 0]      \* mutation
Installed(f) == source[f]

RenameInto ==
    /\ phase = "files" /\ clear = {} /\ todo # {}
    /\ LET f == Min(todo)
       IN  IF IsDir(dest, Parent[f]) /\ Free(f)
             THEN /\ dest' = [dest EXCEPT ![f] = Installed(f)] /\ Rest(todo \ {f})
                  /\ UNCHANGED <<source, options, base, phase, runs>>
             ELSE Fail

\* finish: preflight, then the removals from the last path to the first.
Preflight ==
    /\ phase = "files"
    /\ IF \A e \in plan.removals : Checked(e)
         THEN Enter("finish", plan.removals)
         ELSE todo = {} /\ Fail

RemoveExtra ==
    /\ phase = "finish" /\ todo # {}
    /\ LET e == Max(todo)
       IN  IF Unlinkable(e)
             THEN /\ dest' = Without(e) /\ Rest(todo \ {e})
                  /\ UNCHANGED <<source, options, base, phase, runs>>
             ELSE Fail

StartFiles == phase = "prepare" /\ Enter("files", plan.files)
Complete == phase = "finish" /\ Enter("done", {})

\* A staging file carries the reserved prefix, so a scan protects it.
LeftoverUnmarked(f) == source[f]                         \* mutation
Leftover(f) == Protected

\* The process dies or the transfer breaks; a kill while a file is staged
\* leaves its temporary beside it.
Interrupt ==
    /\ phase \in {"prepare", "files", "finish"}
    /\ phase' = "stopped" /\ todo' = {} /\ clear' = {}
    /\ \/ UNCHANGED dest
       \/ /\ phase = "files" /\ todo # {}
          /\ \E t \in Temps :
               /\ Parent[t] = Parent[Min(todo)] /\ IsDir(dest, Parent[t])
               /\ dest' = [dest EXCEPT ![t] = Leftover(Min(todo))]
    /\ UNCHANGED <<source, options, base, runs>>

Next ==
    \/ Run \/ ClearConflict \/ MakeDirectory \/ StartFiles \/ RenameInto
    \/ Preflight \/ RemoveExtra \/ Complete \/ Interrupt

Spec == Init /\ [][Next]_vars

----------------------------------------------------------------------------
(***************************************************************************)
(* Properties.                                                             *)
(***************************************************************************)
\* Every object's parent is a directory, after every single operation.
TreeOK ==
    /\ WellFormed(dest) /\ todo \subseteq Paths /\ clear \subseteq Paths
    /\ runs \in 0 .. MaxRuns

\* An accepted plan can be carried out: no mkdir, rename, unlink or rmdir of
\* it fails, in the order the code chooses, while nobody else edits.
PlanIsExecutable == phase # "failed"

\* A finished run leaves the source's entries in place, and under --delete
\* nothing else but protected objects and the directories that hold them.
Converged ==
    phase = "done" =>
        \A p \in Paths : (\A s \in Shields(source, base) : ~Below(p, s)) =>
            CASE source[p].kind = "dir"  -> dest[p].kind = "dir"
              [] source[p].kind = "file" ->
                   /\ dest[p].kind = "file" /\ dest[p].ver = source[p].ver
                   /\ options.checksum => dest[p].data = source[p].data
              [] OTHER ->
                   IF options.delete
                     THEN \/ dest[p] = None
                          \/ \E s \in Shields(source, base) : Below(s, p)
                     ELSE base[p].kind # "none" => dest[p] = base[p]

\* A run after a finished one has nothing to do.
SecondRunIsIdle ==
    phase = "done" =>
        Plannable(source, dest, options) /\ Pending(source, dest, options) = {}

\* An interrupted run leaves a destination the same command can be run on
\* again, whatever temporaries stay behind.
RerunIsPossible ==
    phase = "stopped" /\ runs > 0 => Plannable(source, dest, options)

\* Protected objects and what is below them are never touched; a kill adds
\* one, it does not change one.
ProtectedStay ==
    [][\A p \in Paths :
         (\E s \in Shields(source, base) : Below(p, s)) /\ dest[p] # None =>
             dest'[p] = dest[p]]_vars

\* Without --delete no object disappears or changes its kind.
NothingLostWithoutDelete ==
    [][~options.delete =>
         \A p \in Present(dest) : dest'[p].kind = dest[p].kind]_vars

\* Every operation of a plan finds and leaves a well-formed directory.
PlanInvariant == TreeOK /\ PlanIsExecutable

\* A run does its whole job: one after it finds none.
RunsConverge == Converged /\ SecondRunIsIdle

\* Nothing is lost that the options and the protected objects rule out.
OnlyExtrasAreLost == ProtectedStay /\ NothingLostWithoutDelete
=============================================================================
