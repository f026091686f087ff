------------------------------- MODULE Mirror -------------------------------
(***************************************************************************)
(* What a synchronization promises about its destination, whichever side   *)
(* it is on, whatever is lost and whoever crashes: a path goes from the    *)
(* scanned entry to the source's, complete and correctly labelled, or is   *)
(* briefly absent when its type changes; an extra entry goes only after    *)
(* every file of the plan arrived; an edited entry is left alone.          *)
(***************************************************************************)
EXTENDS Plan

CONSTANT NoGoal

VARIABLES
    dest,       \* the destination directory
    goal,       \* the manifests and options a session works on, or NoGoal
    installed,  \* planned files this session has put in place
    edits       \* number of edits by outside processes

mvars == <<dest, goal, installed, edits>>

Goal == [source : Trees, target : Trees, options : OptionSet]
Files(g)  == PlanFiles(g.source, g.target, g.options)
Extra(g)  == PlanRemovals(g.source, g.target, g.options)

MirrorInit ==
    /\ dest \in Trees
    /\ goal = NoGoal /\ installed = {} /\ edits = 0

Adopt ==
    /\ goal = NoGoal /\ goal' \in Goal
    /\ installed' = {}
    /\ UNCHANGED <<dest, edits>>

\* The change of one path a session may make.
Made(p) ==
    /\ p \in PlanDirs(goal.source) /\ CanMake(dest, goal.source, goal.target, p)
    /\ dest'[p] \in {None, Dir}
Replaced(p) ==
    /\ p \in Files(goal) \ installed /\ Installable(dest[p], goal.target[p])
    /\ \/ dest'[p] = goal.source[p]
       \/ p \in PlanConflicts(goal.source, goal.target) /\ dest'[p] = None
Removed(p) ==
    /\ p \in Extra(goal) /\ CheckEntry(dest[p], goal.target[p])
    /\ dest'[p] = None
    /\ installed = Files(goal)

\* One step of a session; the session may end with it, in success or not.
Advance ==
    /\ goal # NoGoal
    /\ \A p \in Paths : dest'[p] # dest[p] => Made(p) \/ Replaced(p) \/ Removed(p)
    /\ \/ goal' = NoGoal /\ installed' = {}
       \/ /\ goal' = goal
          /\ installed' \in {installed} \cup {installed \cup {p} : p \in Files(goal)}
          /\ \A p \in installed' \ installed : goal.source[p] = dest'[p]
    /\ UNCHANGED edits

Edited ==
    /\ \E p \in Paths, e \in Entries : dest' = Put(dest, {p}, e)
    /\ edits' = edits + 1
    /\ UNCHANGED <<goal, installed>>

MirrorNext == Adopt \/ Advance \/ Edited
MirrorSpec == MirrorInit /\ [][MirrorNext]_mvars
=============================================================================
