------------------------------- MODULE Plan -------------------------------
(***************************************************************************)
(* Manifests and the plan both peers derive from them (sync.rs), for a     *)
(* directory of siblings: a path is a number, numbers order paths as the   *)
(* manifest does, and an entry is absent, a directory or a file.  Nesting  *)
(* and protected objects are the subject of module SyncPlan.               *)
(*                                                                         *)
(* A file entry has the version its metadata names (`ver': size and mtime) *)
(* and the version its bytes come from (`data': what a hash would tell).   *)
(* The two differ only when a file carries metadata of other content.      *)
(***************************************************************************)
EXTENDS Integers, FiniteSets

CONSTANTS
    Paths,      \* paths below the synchronized root, in manifest order
    Versions,   \* contents a file may have
    Size        \* length of each version

ASSUME PathsAssumption ==
    Paths \subseteq Nat \ {0} /\ IsFiniteSet(Paths)
ASSUME VersionsAssumption ==
    Versions \subseteq Nat \ {0} /\ Size \in [Versions -> Nat]

Kinds == {"none", "dir", "file"}

Entry == [kind : Kinds, ver : Versions \cup {0}, data : Versions \cup {0}]

None      == [kind |-> "none", ver |-> 0, data |-> 0]
Dir       == [kind |-> "dir",  ver |-> 0, data |-> 0]
File(v,d) == [kind |-> "file", ver |-> v, data |-> d]

\* None, Dir and File(v,d) are the only entries that occur.
Entries == {None, Dir} \cup {File(v,d) : v, d \in Versions}
Trees   == [Paths -> Entries]

OptionSet == [delete : BOOLEAN, checksum : BOOLEAN, dryRun : BOOLEAN]

\* The comparison that lets a file be skipped.
SameSize(e, f, opt) ==                          \* mutation
    e.kind = "file" /\ f.kind = "file" /\ Size[e.ver] = Size[f.ver]
SameFile(e, f, opt) ==
    /\ e.kind = "file" /\ f.kind = "file"
    /\ e.ver = f.ver
    /\ opt.checksum => e.data = f.data

PlanFiles(src, dst, opt) ==
    {p \in Paths : src[p].kind = "file" /\ ~SameFile(src[p], dst[p], opt)}
PlanDirs(src) ==
    {p \in Paths : src[p].kind = "dir"}
PlanConflicts(src, dst) ==
    {p \in Paths : /\ src[p].kind # "none" /\ dst[p].kind # "none"
                   /\ src[p].kind # dst[p].kind}
PlanRemovals(src, dst, opt) ==
    {p \in Paths : opt.delete /\ src[p].kind = "none" /\ dst[p].kind # "none"}

\* A type conflict needs --delete; without it there is no plan.
Plannable(src, dst, opt) ==
    opt.delete \/ PlanConflicts(src, dst) = {}

(***************************************************************************)
(* Destination operations on a tree.  CheckEntry is the guard in front of  *)
(* every replacement and removal: the object is still the one scanned.     *)
(***************************************************************************)
CheckEntry(now, scanned) ==
    CASE scanned.kind = "file" -> now.kind = "file" /\ now.ver = scanned.ver
      [] scanned.kind = "dir"  -> now.kind = "dir"
      [] OTHER                 -> FALSE

\* install: an old entry must check, a new path must still be free.
InstallableUnchecked(now, scanned) == TRUE      \* mutation
Installable(now, scanned) ==
    IF scanned.kind = "none" THEN now.kind = "none" ELSE CheckEntry(now, scanned)

\* prepare, for one planned directory: a conflicting file must check before
\* it is removed; otherwise mkdir accepts a free path or a directory.
CanMake(tree, src, dst, p) ==
    IF p \in PlanConflicts(src, dst) THEN CheckEntry(tree[p], dst[p])
                                     ELSE tree[p].kind # "file"

Put(tree, D, e) == [p \in Paths |-> IF p \in D THEN e ELSE tree[p]]

\* Trees a failing prepare may leave: directories are made in path order;
\* the one that fails may have lost its conflicting file, or may exist with
\* the flush after it having failed.
PreparePartial(tree, src, dst) ==
    {tree} \cup UNION {
        LET before == Put(tree, {d \in PlanDirs(src) : d < k}, Dir)
        IN  {before}
            \cup (IF CanMake(tree, src, dst, k)
                    THEN {Put(before, {k}, Dir)}
                         \cup {Put(before, {c}, None) :
                                 c \in {k} \cap PlanConflicts(src, dst)}
                    ELSE {}) :
        k \in {k \in PlanDirs(src) :
                 \A d \in PlanDirs(src) : d < k => CanMake(tree, src, dst, d)} }

Preparable(tree, src, dst) ==
    \A p \in PlanDirs(src) : CanMake(tree, src, dst, p)

\* Trees a failing install may leave behind: untouched, the conflicting
\* object gone, or the file in place with the flush of its parent failed.
InstallPartial(tree, src, dst, p, data) ==
    {tree} \cup
    (IF Installable(tree[p], dst[p])
       THEN {Put(tree, {p}, File(src[p].ver, data))}
            \cup {Put(tree, {c}, None) : c \in {p} \cap PlanConflicts(src, dst)}
       ELSE {})

\* Removals run from the last path to the first, after every one of them
\* was checked; any number of them may be done when one fails.
Removable(tree, dst, R) == \A p \in R : CheckEntry(tree[p], dst[p])
RemovePartial(tree, dst, R) ==
    {tree} \cup (IF Removable(tree, dst, R)
                   THEN {Put(tree, {p \in R : p >= k}, None) : k \in R}
                   ELSE {})
=============================================================================
