--------------------------- MODULE SyncPlanProofs ---------------------------
(***************************************************************************)
(* Proofs about the planner and its execution, for every tree of names,    *)
(* every pair of directories, every set of staging names and any number of *)
(* runs and interruptions.                                                 *)
(***************************************************************************)
EXTENDS SyncPlan, FiniteSetTheorems, WellFoundedInduction, TLAPS

Trees == {m \in [Paths -> Objects] : WellFormed(m)}

(***************************************************************************)
(* First and last paths.                                                   *)
(***************************************************************************)
\* A set of naturals has a least element; module WellFoundedInduction.
LEMMA LeastExists ==
    ASSUME NEW S \in SUBSET Nat, S # {}
    PROVE  \E x \in S : \A y \in S : x <= y
<1> DEFINE R == OpToRel(<, Nat)
<1>1. IsWellFoundedOn(R, Nat)
  BY NatLessThanWellFounded
<1>2. \A x, y \in Nat : <<y, x>> \in R <=> y < x
  BY DEF OpToRel
<1> HIDE DEF R
<1>3. PICK x \in S : \A y \in S : ~(<<y, x>> \in R)
  BY <1>1, WFMin
<1>4. ASSUME NEW y \in S PROVE x <= y
  <2>1. x \in Nat /\ y \in Nat
    OBVIOUS
  <2>2. ~(y < x)
    BY <1>2, <1>3, <2>1
  <2> QED
    BY <2>1, <2>2
<1> QED
  BY <1>4

\* A finite set of naturals has a greatest element: a least subset without
\* one would have a smaller one.
LEMMA GreatestExists ==
    ASSUME NEW S \in SUBSET Nat, S # {}, IsFiniteSet(S)
    PROVE  \E x \in S : \A y \in S : x >= y
<1> DEFINE Endless(T) == T # {} /\ \A x \in T : \E y \in T : y > x
           N == {n \in Nat : \E T \in SUBSET S : Endless(T) /\ Cardinality(T) = n}
<1> SUFFICES ASSUME Endless(S) PROVE FALSE
  OBVIOUS
<1>1. N # {}
  <2>1. Cardinality(S) \in Nat
    BY FS_CardinalityType
  <2> QED
    BY <2>1
<1>2. PICK n \in N : \A k \in N : n <= k
  BY <1>1, LeastExists
<1>3. PICK T \in SUBSET S : Endless(T) /\ Cardinality(T) = n
  BY <1>2
<1>4. PICK x \in T : TRUE
  BY <1>3
<1>5. Endless(T \ {x})
  <2>1. PICK y \in T : y > x
    BY <1>3, <1>4
  <2>2. y # x
    BY <2>1, <1>4
  <2>3. ASSUME NEW z \in T \ {x} PROVE \E w \in T \ {x} : w > z
    <3>1. PICK w \in T : w > z
      BY <1>3
    <3>2. CASE w = x
      BY <2>1, <2>2, <3>1, <3>2
    <3> QED
      BY <3>1, <3>2
  <2> QED
    BY <2>1, <2>2, <2>3
<1>6. IsFiniteSet(T) /\ Cardinality(T) \in Nat /\ Cardinality(T \ {x}) = Cardinality(T) - 1
      /\ Cardinality(T \ {x}) \in Nat
  <2>1. IsFiniteSet(T)
    BY FS_Subset
  <2>2. IsFiniteSet(T \ {x}) /\ Cardinality(T \ {x}) = Cardinality(T) - 1
    BY <2>1, <1>4, FS_RemoveElement
  <2> QED
    BY <2>1, <2>2, FS_CardinalityType
<1>7. n - 1 \in N
  BY <1>3, <1>5, <1>6
<1> QED
  BY <1>2, <1>7

\* The first and the last of a set of paths.
LEMMA MinIsFirst ==
    ASSUME NEW S \in SUBSET Paths, S # {}
    PROVE  Min(S) \in S /\ \A x \in S : Min(S) <= x
<1>1. S \in SUBSET Nat
  BY SyncPathsAssumption
<1> QED
  BY <1>1, LeastExists DEF Min

LEMMA MaxIsLast ==
    ASSUME NEW S \in SUBSET Paths, S # {}
    PROVE  Max(S) \in S /\ \A x \in S : x <= Max(S)
<1>1. S \in SUBSET Nat /\ IsFiniteSet(S)
  BY SyncPathsAssumption, FS_Subset
<1>2. \E x \in S : \A y \in S : x >= y
  BY <1>1, GreatestExists
<1> QED
  BY <1>1, <1>2 DEF Max

\* Paths are numbers, and a parent comes first.
LEMMA PathsAreNumbers ==
    ASSUME NEW p \in Paths
    PROVE  /\ p \in Nat
           /\ Parent[p] # 0 => /\ Parent[p] \in Paths /\ Parent[p] \in Nat
                               /\ Parent[p] < p /\ ~(p <= Parent[p])
<1>1. p \in Nat /\ Parent[p] < p /\ (Parent[p] # 0 => Parent[p] \in Paths)
  BY SyncPathsAssumption
<1>2. Parent[p] # 0 => Parent[p] \in Nat
  BY <1>1, SyncPathsAssumption
<1> QED
  BY <1>1, <1>2

(***************************************************************************)
(* Ancestors.                                                              *)
(***************************************************************************)
\* The recursive definition has a solution: what every set that holds the
\* parent of p and the parents of its elements has in common.
LEMMA AncestorsEquation ==
    Ancestors = [p \in Paths |-> IF Parent[p] = 0 THEN {}
                                 ELSE {Parent[p]} \cup Ancestors[Parent[p]]]
<1> DEFINE Holds(p, T) == /\ Parent[p] # 0 => Parent[p] \in T
                          /\ \A q \in T : Parent[q] # 0 => Parent[q] \in T
           Up(p) == {a \in Paths : \A T \in SUBSET Paths : Holds(p, T) => a \in T}
           f == [p \in Paths |-> Up(p)]
           Good(g) == g = [p \in Paths |-> IF Parent[p] = 0 THEN {}
                                           ELSE {Parent[p]} \cup g[Parent[p]]]
<1>1. ASSUME NEW p \in Paths, Parent[p] = 0 PROVE Up(p) = {}
  <2>1. Holds(p, {}) /\ {} \in SUBSET Paths
    BY <1>1
  <2>2. ASSUME NEW a \in Up(p) PROVE FALSE
    <3>1. a \in {}
      BY <2>1 DEF Up
    <3> QED
      BY <3>1
  <2> QED
    BY <2>2
<1>2. ASSUME NEW p \in Paths, Parent[p] # 0
      PROVE  Parent[p] \in Paths /\ Up(p) = {Parent[p]} \cup Up(Parent[p])
  <2>1. Parent[p] \in Paths
    BY <1>2, SyncPathsAssumption
  <2> DEFINE q == Parent[p]
  <2>2. ASSUME NEW a \in Up(p) PROVE a \in {q} \cup Up(q)
    <3> SUFFICES ASSUME a # q, NEW T \in SUBSET Paths, Holds(q, T) PROVE a \in T
      OBVIOUS
    <3>1. Holds(p, {q} \cup T)
      OBVIOUS
    <3>2. {q} \cup T \in SUBSET Paths
      BY <2>1
    <3>3. a \in {q} \cup T
      BY <3>1, <3>2
    <3> QED
      BY <3>3
  <2>3. ASSUME NEW a \in {q} \cup Up(q) PROVE a \in Up(p)
    <3> SUFFICES ASSUME NEW T \in SUBSET Paths, Holds(p, T) PROVE a \in T
      BY <2>1
    <3>1. q \in T /\ Holds(q, T)
      BY <1>2
    <3> QED
      BY <3>1
  <2> QED
    BY <2>1, <2>2, <2>3
<1> HIDE DEF Up
<1>3. Good(f)
  BY <1>1, <1>2
<1>4. Ancestors = CHOOSE g : Good(g)
  BY DEF Ancestors
<1> HIDE DEF f
<1>5. Good(CHOOSE g : Good(g))
  BY <1>3
<1> QED
  BY <1>4, <1>5

LEMMA AncestorsOf ==
    ASSUME NEW p \in Paths
    PROVE  Ancestors[p] = IF Parent[p] = 0 THEN {} ELSE {Parent[p]} \cup Ancestors[Parent[p]]
BY AncestorsEquation

\* Ancestors come first, and theirs are ancestors too.
LEMMA AncestorsAreBefore ==
    ASSUME NEW p \in Paths
    PROVE  /\ Ancestors[p] \subseteq Paths
           /\ \A a \in Ancestors[p] : a < p /\ Ancestors[a] \subseteq Ancestors[p]
<1> DEFINE Good(q) == /\ Ancestors[q] \subseteq Paths
                      /\ \A a \in Ancestors[q] : a < q /\ Ancestors[a] \subseteq Ancestors[q]
           Bad == {q \in Paths : ~Good(q)}
<1> SUFFICES ASSUME Bad # {} PROVE FALSE
  OBVIOUS
<1>1. PICK q \in Bad : \A x \in Bad : q <= x
  BY LeastExists, SyncPathsAssumption
<1>2. q \in Paths /\ q \in Nat
  BY SyncPathsAssumption
<1>3. CASE Parent[q] = 0
  BY <1>1, <1>2, <1>3, AncestorsOf
<1>4. CASE Parent[q] # 0
  <2>1. Parent[q] \in Paths /\ Parent[q] < q /\ Parent[q] \in Nat
    BY <1>2, <1>4, SyncPathsAssumption
  <2>2. Good(Parent[q])
    <3>1. ~(q <= Parent[q])
      BY <1>2, <2>1
    <3> HIDE DEF Good
    <3> QED
      BY <1>1, <2>1, <3>1
  <2>3. Ancestors[q] = {Parent[q]} \cup Ancestors[Parent[q]]
    BY <1>2, <1>4, AncestorsOf
  <2>4. ASSUME NEW a \in Ancestors[q] PROVE a < q
    <3>1. CASE a = Parent[q]
      BY <2>1, <3>1
    <3>2. CASE a \in Ancestors[Parent[q]]
      <4>1. a \in Paths /\ a < Parent[q]
        BY <2>2, <3>2
      <4>2. a \in Nat
        BY <4>1, PathsAreNumbers
      <4> QED
        BY <4>1, <4>2, <1>2, <2>1
    <3> QED
      BY <3>1, <3>2, <2>3
  <2> QED
    BY <1>1, <2>1, <2>2, <2>3, <2>4
<1> QED
  BY <1>3, <1>4

\* Below is a partial order, by which parents come first.
LEMMA BelowOrder ==
    ASSUME NEW p \in Paths
    PROVE  /\ Below(p, p)
           /\ \A a : Below(p, a) => a \in Paths /\ a <= p
           /\ \A a : Below(p, a) => \A b : Below(a, b) => Below(p, b)
           /\ \A a : Below(p, a) /\ Below(a, p) => a = p
           /\ Parent[p] # 0 => Parent[p] \in Paths /\ Parent[p] < p /\ Below(p, Parent[p])
           /\ \A a : Below(p, a) /\ a # p => Parent[p] # 0 /\ Below(Parent[p], a)
<1>1. p \in Nat /\ \A a \in Paths : a \in Nat
  BY SyncPathsAssumption
<1>2. ASSUME NEW a, Below(p, a) PROVE a \in Paths /\ a <= p
  <2>1. CASE a = p
    BY <1>1, <2>1
  <2>2. CASE a \in Ancestors[p]
    <3>1. a \in Paths /\ a \in Nat /\ a < p
      BY <1>1, <2>2, AncestorsAreBefore
    <3> QED
      BY <1>1, <3>1
  <2> QED
    BY <1>2, <2>1, <2>2 DEF Below
<1>3. \A a : Below(p, a) => \A b : Below(a, b) => Below(p, b)
  BY AncestorsAreBefore DEF Below
<1>4. \A a : Below(p, a) /\ Below(a, p) => a = p
  <2> SUFFICES ASSUME NEW a, Below(p, a), Below(a, p), a # p PROVE FALSE
    OBVIOUS
  <2>1. a \in Paths /\ a \in Nat /\ a < p
    BY <1>1, AncestorsAreBefore DEF Below
  <2>2. p < a
    BY <2>1, AncestorsAreBefore DEF Below
  <2> QED
    BY <1>1, <2>1, <2>2
<1>5. Parent[p] # 0 => Parent[p] \in Paths /\ Parent[p] < p /\ Below(p, Parent[p])
  BY SyncPathsAssumption, AncestorsOf DEF Below
<1>6. \A a : Below(p, a) /\ a # p => Parent[p] # 0 /\ Below(Parent[p], a)
  BY AncestorsOf DEF Below
<1> QED
  BY <1>2, <1>3, <1>4, <1>5, <1>6 DEF Below

\* Two paths with a path below both lie one below the other.
LEMMA BelowIsAChain ==
    ASSUME NEW p \in Paths, NEW a, NEW b, Below(p, a), Below(p, b)
    PROVE  Below(a, b) \/ Below(b, a)
<1> DEFINE Good(q) == \A x, y : Below(q, x) /\ Below(q, y) => Below(x, y) \/ Below(y, x)
           Bad == {q \in Paths : ~Good(q)}
<1> SUFFICES ASSUME Bad # {} PROVE FALSE
  OBVIOUS
<1>1. PICK q \in Bad : \A x \in Bad : q <= x
  BY LeastExists, SyncPathsAssumption
<1>2. q \in Paths /\ q \in Nat
  BY SyncPathsAssumption
<1>3. PICK x, y : Below(q, x) /\ Below(q, y) /\ ~Below(x, y) /\ ~Below(y, x)
  BY <1>1
<1>4. x # q /\ y # q
  BY <1>3
<1>5. Parent[q] # 0 /\ Parent[q] \in Paths /\ Below(Parent[q], x) /\ Below(Parent[q], y)
  BY <1>2, <1>3, <1>4, BelowOrder
<1>6. ~(q <= Parent[q])
  BY <1>2, <1>5, PathsAreNumbers
<1>7. Good(Parent[q])
  <2> HIDE DEF Good
  <2> QED BY <1>1, <1>5, <1>6
<1> QED
  BY <1>3, <1>5, <1>7

\* In a well-formed directory everything above an object is a directory.
LEMMA AncestorsAreDirs ==
    ASSUME NEW m, WellFormed(m), NEW p \in Present(m), NEW a, Below(p, a), a # p
    PROVE  a \in Present(m) /\ m[a].kind = "dir"
<1> DEFINE Good(q) == \A x : Below(q, x) /\ x # q => x \in Present(m) /\ m[x].kind = "dir"
           Bad == {q \in Present(m) : ~Good(q)}
<1> SUFFICES ASSUME Bad # {} PROVE FALSE
  OBVIOUS
<1>1. PICK q \in Bad : \A x \in Bad : q <= x
  BY LeastExists, SyncPathsAssumption DEF Present
<1>2. q \in Paths /\ q \in Nat /\ q \in Present(m)
  BY SyncPathsAssumption DEF Present
<1>3. PICK x : Below(q, x) /\ x # q /\ ~(x \in Present(m) /\ m[x].kind = "dir")
  BY <1>1
<1>4. Parent[q] \in Paths /\ Parent[q] # 0 /\ Parent[q] < q /\ Below(Parent[q], x)
  BY <1>2, <1>3, BelowOrder
<1>5. m[Parent[q]].kind = "dir" /\ Parent[q] \in Present(m)
  BY <1>2, <1>4 DEF WellFormed, IsDir, Present
<1>6. ~(q <= Parent[q])
  BY <1>2, <1>4, PathsAreNumbers
<1>7. Good(Parent[q])
  <2> HIDE DEF Good
  <2> QED BY <1>1, <1>5, <1>6
<1> QED
  BY <1>3, <1>4, <1>5, <1>7

(***************************************************************************)
(* What is in a plan.                                                      *)
(***************************************************************************)
LEMMA ObjectKinds ==
    /\ None \in Objects /\ Dir \in Objects /\ Protected \in Objects
    /\ None.kind = "none" /\ Dir.kind = "dir" /\ Protected.kind = "protected"
    /\ \A o \in Objects :
          /\ o.kind \in {"none", "dir", "file", "protected"}
          /\ o.kind = "none" => o = None
          /\ o.kind = "dir" => o = Dir
          /\ o.kind = "protected" => o = Protected
BY DEF Objects, None, Dir, Protected, Object

LEMMA TreeObjects ==
    ASSUME NEW m \in Trees, NEW p \in Paths
    PROVE  /\ m[p] \in Objects
           /\ m[p].kind = "none" <=> m[p] = None
           /\ m[p].kind \in {"none", "dir", "file", "protected"}
           /\ p \in Present(m) <=> m[p].kind # "none"
           /\ p \in Temps => m[p] \in {None, Protected}
<1>1. m[p] \in Objects
  BY DEF Trees
<1> QED
  BY <1>1, ObjectKinds DEF Trees, Present, WellFormed

\* What the plan looks at is a file or a directory whose way there is made of
\* directories it looks at too.
LEMMA ConsideredFacts ==
    ASSUME NEW src \in Trees, NEW dst \in Trees, NEW p \in Considered(src, dst)
    PROVE  /\ p \in Paths /\ p \in Present(src) /\ src[p].kind \in {"dir", "file"}
           /\ dst[p].kind # "protected" /\ p \notin Temps
           /\ \A s \in Shields(src, dst) : ~Below(p, s)
           /\ \A a : Below(p, a) => a \in Considered(src, dst)
           /\ \A a : Below(p, a) /\ a # p => src[a].kind = "dir"
           /\ Parent[p] # 0 => Parent[p] \in Considered(src, dst) /\ src[Parent[p]].kind = "dir"
<1>1. p \in Present(src) /\ p \in Paths /\ \A s \in Shields(src, dst) : ~Below(p, s)
  BY DEF Considered, Present
<1>2. p \notin Shields(src, dst)
  BY <1>1, BelowOrder
<1>3. src[p].kind # "protected" /\ dst[p].kind # "protected"
  BY <1>1, <1>2 DEF Shields, ProtectedIn
<1>4. src[p].kind \in {"dir", "file"} /\ p \notin Temps
  BY <1>1, <1>3, TreeObjects, ObjectKinds
<1>5. ASSUME NEW a, Below(p, a) PROVE a \in Considered(src, dst) /\ (a # p => src[a].kind = "dir")
  <2>1. a \in Paths /\ \A s \in Shields(src, dst) : ~Below(a, s)
    BY <1>1, <1>5, BelowOrder
  <2>2. a # p => a \in Present(src) /\ src[a].kind = "dir"
    BY <1>1, <1>5, AncestorsAreDirs DEF Trees
  <2> QED
    BY <2>1, <2>2, <1>1 DEF Considered
<1>6. Parent[p] # 0 => Below(p, Parent[p]) /\ Parent[p] # p
  <2>1. Parent[p] # 0 => Below(p, Parent[p])
    BY <1>1, BelowOrder
  <2>2. Parent[p] # 0 => Parent[p] # p
    <3>1. p \in Nat /\ Parent[p] # 0 => Parent[p] < p
      BY <1>1, PathsAreNumbers
    <3>2. p \in Nat
      BY <1>1, PathsAreNumbers
    <3> QED
      BY <3>1, <3>2
  <2> QED
    BY <2>1, <2>2
<1> QED
  BY <1>1, <1>3, <1>4, <1>5, <1>6

\* A conflict is one of a file and a directory.
LEMMA ClashFacts ==
    ASSUME NEW src \in Trees, NEW dst \in Trees, NEW p \in Clashes(src, dst)
    PROVE  /\ p \in Considered(src, dst) /\ p \in Paths
           /\ \/ src[p].kind = "dir" /\ dst[p].kind = "file"
              \/ src[p].kind = "file" /\ dst[p].kind = "dir"
<1>1. p \in Considered(src, dst) /\ dst[p].kind # "none" /\ dst[p].kind # src[p].kind
  BY DEF Clashes
<1> QED
  BY <1>1, ConsideredFacts, TreeObjects

\* What is cleared for a path: what is below it, none of it looked at but the
\* path itself, none of it protected or below a protected object, children
\* with their parents.
LEMMA ClearsFacts ==
    ASSUME NEW src \in Trees, NEW dst \in Trees, NEW opt, Plannable(src, dst, opt),
           NEW p \in Paths, NEW e \in ConflictEntries(src, dst, p)
    PROVE  /\ p \in Clashes(src, dst) /\ opt.delete
           /\ e \in Paths /\ e \in Present(dst) /\ Below(e, p) /\ dst[e].kind \in {"file", "dir"}
           /\ e \in Considered(src, dst) => e = p
           /\ \A s \in Shields(src, dst) : ~Below(e, s) /\ ~Below(s, e)
           /\ \A q \in Present(dst) : Parent[q] = e => q \in ConflictEntries(src, dst, p)
           /\ ~RemovableExtra(src, dst, e)
<1>1. p \in Clashes(src, dst) /\ e \in Present(dst) /\ Below(e, p) /\ e \in Paths
  BY DEF ConflictEntries, Present
<1>2. opt.delete /\ \A s \in Shields(src, dst) : ~Below(s, p)
  BY <1>1 DEF Plannable, ClashAllowed
<1>3. \A s \in Shields(src, dst) : s \in Paths /\ ~Below(s, e) /\ ~Below(e, s)
  <2> SUFFICES ASSUME NEW s \in Shields(src, dst)
               PROVE  s \in Paths /\ ~Below(s, e) /\ ~Below(e, s)
    OBVIOUS
  <2>1. s \in Paths
    BY DEF Shields, ProtectedIn
  <2>2. ~Below(s, e)
    BY <2>1, <1>1, <1>2, BelowOrder
  <2>3. ~Below(p, s)
    BY <1>1, ClashFacts, ConsideredFacts
  <2>4. ~Below(e, s)
    BY <1>1, <1>2, <2>3, BelowIsAChain
  <2> QED
    BY <2>1, <2>2, <2>4
<1>4. dst[e].kind \in {"file", "dir"}
  <2>1. e \notin Shields(src, dst)
    BY <1>1, <1>3, BelowOrder
  <2> QED
    BY <1>1, <2>1, TreeObjects DEF Shields, ProtectedIn
<1>5. e \in Considered(src, dst) => e = p
  <2> SUFFICES ASSUME e \in Considered(src, dst), e # p PROVE FALSE
    OBVIOUS
  <2>1. src[p].kind = "dir"
    BY <1>1, ConsideredFacts
  <2>2. dst[p].kind = "dir"
    BY <1>1, AncestorsAreDirs DEF Trees
  <2> QED
    BY <1>1, <2>1, <2>2, ClashFacts
<1>6. ASSUME NEW q \in Present(dst), Parent[q] = e PROVE q \in ConflictEntries(src, dst, p)
  <2>1. q \in Paths /\ e # 0
    BY <1>1, SyncPathsAssumption DEF Present
  <2>2. Below(q, p)
    BY <1>1, <1>6, <2>1, BelowOrder
  <2> QED
    BY <1>1, <2>2 DEF ConflictEntries
<1>7. ~RemovableExtra(src, dst, e)
  BY <1>1 DEF RemovableExtra
<1> QED
  BY <1>1, <1>2, <1>3, <1>4, <1>5, <1>6, <1>7

\* Nothing is cleared for two paths.
LEMMA ClearsApart ==
    ASSUME NEW src \in Trees, NEW dst \in Trees, NEW p \in Clashes(src, dst),
           NEW q \in Clashes(src, dst), NEW e \in Present(dst), Below(e, p), Below(e, q)
    PROVE  p = q
<1>1. ASSUME NEW x \in Clashes(src, dst), NEW y \in Clashes(src, dst),
             Below(e, x), Below(e, y), Below(x, y)
      PROVE  x = y
  <2> SUFFICES ASSUME x # y PROVE FALSE
    OBVIOUS
  <2>0. e \in Paths /\ x \in Paths /\ y \in Paths /\ x \in Considered(src, dst)
    BY ClashFacts DEF Present
  <2>1. src[y].kind = "dir"
    BY <2>0, <1>1, ConsideredFacts
  <2>2. dst[y].kind = "file"
    BY <2>1, ClashFacts
  <2>3. e = y
    BY <1>1, <2>2, AncestorsAreDirs DEF Trees
  <2> QED
    BY <1>1, <2>0, <2>3, BelowOrder
<1>2. e \in Paths
  BY DEF Present
<1> QED
  BY <1>1, <1>2, BelowIsAChain

\* What is removed: nothing the source has, nothing protected or conflicting,
\* children with their parents.
LEMMA RemovalFacts ==
    ASSUME NEW src \in Trees, NEW dst \in Trees, NEW opt,
           NEW e \in MakePlan(src, dst, opt).removals
    PROVE  /\ opt.delete /\ e \in Paths /\ e \in Present(dst) /\ e \notin Present(src)
           /\ e \notin Considered(src, dst) /\ dst[e].kind \in {"file", "dir"}
           /\ \A p \in Paths : e \notin ConflictEntries(src, dst, p)
           /\ \A s \in Shields(src, dst) : ~Below(e, s)
           /\ \A q \in Paths : Parent[q] = e =>
                 /\ q \notin Present(src)
                 /\ q \in Present(dst) => q \in MakePlan(src, dst, opt).removals
<1>1. opt.delete /\ e \in Present(dst) /\ e \notin Present(src) /\ RemovableExtra(src, dst, e)
  BY DEF MakePlan
<1>2. e \in Paths /\ e \notin Considered(src, dst)
  BY <1>1 DEF Present, Considered
<1>3. /\ \A s \in Shields(src, dst) : ~Below(e, s) /\ ~Below(s, e)
      /\ \A c \in Clashes(src, dst) : ~Below(e, c)
  BY <1>1 DEF RemovableExtra
<1>4. dst[e].kind \in {"file", "dir"}
  <2>1. e \notin Shields(src, dst)
    BY <1>2, <1>3, BelowOrder
  <2> QED
    BY <1>1, <1>2, <2>1, TreeObjects DEF Shields, ProtectedIn
<1>5. \A p \in Paths : e \notin ConflictEntries(src, dst, p)
  BY <1>3 DEF ConflictEntries
<1>6. ASSUME NEW q \in Paths, Parent[q] = e
      PROVE  /\ q \notin Present(src)
             /\ q \in Present(dst) => q \in MakePlan(src, dst, opt).removals
  <2>1. Parent[q] # 0 /\ Below(q, e) /\ q # e
    BY <1>2, <1>6, PathsAreNumbers, SyncPathsAssumption, BelowOrder
  <2>2. q \notin Present(src)
    BY <1>1, <2>1, AncestorsAreDirs DEF Trees
  <2>3. \A s \in Shields(src, dst) : ~Below(q, s)
    <3> SUFFICES ASSUME NEW s \in Shields(src, dst), Below(q, s) PROVE FALSE
      OBVIOUS
    <3>1. s # q
      BY <1>3, <2>1
    <3>2. Below(e, s)
      BY <1>6, <3>1, BelowOrder
    <3> QED
      BY <1>3, <3>2
  <2>4. \A s \in Shields(src, dst) : ~Below(s, q)
    <3> SUFFICES ASSUME NEW s \in Shields(src, dst), Below(s, q) PROVE FALSE
      OBVIOUS
    <3>1. s \in Paths
      BY DEF Shields, ProtectedIn
    <3>2. Below(s, e)
      BY <2>1, <3>1, BelowOrder
    <3> QED
      BY <1>3, <3>2
  <2>5. \A c \in Clashes(src, dst) : ~Below(q, c)
    <3> SUFFICES ASSUME NEW c \in Clashes(src, dst), Below(q, c) PROVE FALSE
      OBVIOUS
    <3>1. c # q
      BY <2>2, ClashFacts, ConsideredFacts
    <3>2. Below(e, c)
      BY <1>6, <3>1, BelowOrder
    <3> QED
      BY <1>3, <3>2
  <2> QED
    BY <1>1, <2>2, <2>3, <2>4, <2>5 DEF RemovableExtra, MakePlan
<1> QED
  BY <1>1, <1>2, <1>3, <1>4, <1>5, <1>6

(***************************************************************************)
(* The inductive invariant: how far a run has come, and that what it has   *)
(* done so far is all that changed.                                        *)
(***************************************************************************)
Phases == {"stopped", "refused", "prepare", "files", "finish", "done"}

\* Directories that are made and files that are in place.
Handled ==
    CASE phase = "prepare" -> plan.dirs \ todo
      [] phase = "files"   -> plan.dirs \cup (plan.files \ todo)
      [] OTHER             -> plan.dirs \cup plan.files

\* The path at which a conflict is being cleared, what was cleared, and the
\* extras that are removed.
Current == IF phase \in {"prepare", "files"} /\ todo # {} THEN {Min(todo)} ELSE {}
Cleared ==
    {e \in Paths : \E p \in Paths :
        /\ e \in ConflictEntries(source, base, p)
        /\ p \in Handled \/ (p \in Current /\ e \notin clear)}
Taken ==
    CASE phase = "finish" -> plan.removals \ todo
      [] phase = "done"   -> plan.removals
      [] OTHER            -> {}

SoFar(p) ==
    IF p \in Handled THEN source[p] ELSE IF p \in Cleared \cup Taken THEN None ELSE base[p]

\* Paths are handled in their order and removed against it.
InOrder ==
    /\ todo \subseteq CASE phase = "prepare" -> plan.dirs
                        [] phase = "files"   -> plan.files
                        [] phase = "finish"  -> plan.removals
                        [] OTHER             -> {}
    /\ phase = "prepare" => \A x \in plan.dirs \ todo, y \in todo : x < y
    /\ phase = "finish" => \A x \in plan.removals \ todo, y \in todo : y < x
    /\ Current = {} => clear = {}
    /\ \A p \in Current :
          /\ clear \subseteq ConflictEntries(source, base, p)
          /\ \A x \in ConflictEntries(source, base, p) \ clear, y \in clear : y < x

Progress ==
    phase \in {"prepare", "files", "finish", "done"} =>
        /\ Plannable(source, base, options)
        /\ InOrder
        /\ \A p \in Paths : dest[p] = SoFar(p)

SyncTyped ==
    /\ source \in Trees /\ base \in Trees /\ dest \in Trees
    /\ options \in [delete : BOOLEAN, checksum : BOOLEAN]
    /\ phase \in Phases /\ runs \in 0 .. MaxRuns
    /\ todo \subseteq Paths /\ clear \subseteq Paths

IInv == SyncTyped /\ Progress /\ RerunIsPossible

-----------------------------------------------------------------------------
LEMMA PlanFields ==
    /\ plan.dirs = {p \in Considered(source, base) : source[p].kind = "dir"}
    /\ plan.files = {p \in Considered(source, base) :
                       source[p].kind = "file" /\ ~SameFile(source[p], base[p], options)}
    /\ plan.removals = MakePlan(source, base, options).removals
    /\ \A p \in Paths : plan.clears[p] = ConflictEntries(source, base, p)
BY DEF plan, MakePlan

\* Putting an object in a directory, or taking one out that holds none.
LEMMA PutKeepsTree ==
    ASSUME NEW m \in Trees, NEW x \in Paths, NEW o \in Objects,
           o.kind # "none" => IsDir(m, Parent[x]),
           x \in Temps => o \in {None, Protected},
           o.kind # "dir" => \A q \in Paths : Parent[q] = x => m[q].kind = "none"
    PROVE  [m EXCEPT ![x] = o] \in Trees
<1> DEFINE n == [m EXCEPT ![x] = o]
<1>1. n \in [Paths -> Objects] /\ n[x] = o /\ \A p \in Paths \ {x} : n[p] = m[p]
  BY DEF Trees
<1> HIDE DEF n
<1>2. ASSUME NEW p \in Present(n) PROVE IsDir(n, Parent[p]) /\ (p \in Temps => n[p] = Protected)
  <2>1. p \in Paths /\ n[p].kind # "none"
    BY DEF Present
  <2>2. CASE p = x
    <3>1. Parent[p] # 0 => Parent[p] \in Paths \ {x}
      <4>1. Parent[p] # 0 => Parent[p] \in Paths /\ ~(p <= Parent[p]) /\ p \in Nat
        BY <2>1, PathsAreNumbers
      <4> QED
        BY <4>1, <2>2
    <3>2. IsDir(m, Parent[p]) => IsDir(n, Parent[p])
      BY <3>1, <1>1 DEF IsDir
    <3> QED
      BY <1>1, <2>1, <2>2, <3>2, ObjectKinds
  <2>3. CASE p # x
    <3>1. p \in Present(m) /\ n[p] = m[p]
      BY <1>1, <2>1, <2>3 DEF Present
    <3>2. IsDir(m, Parent[p]) /\ (p \in Temps => n[p] = Protected)
      BY <3>1 DEF Trees, WellFormed
    <3>3. Parent[p] # 0 => Parent[p] \in Paths
      BY <2>1, PathsAreNumbers
    <3>4. Parent[p] = x => o.kind = "dir"
      BY <2>1, <3>1
    <3> QED
      BY <1>1, <3>2, <3>3, <3>4 DEF IsDir
  <2> QED
    BY <2>2, <2>3
<1>3. WellFormed(n)
  BY <1>2 DEF WellFormed
<1> QED
  BY <1>1, <1>3 DEF Trees, n

\* What a run in progress may rely on.
LEMMA HandledFacts ==
    ASSUME IInv, phase \in {"prepare", "files", "finish", "done"}
    PROVE  /\ Handled \subseteq Considered(source, base)
           /\ \A p \in Handled : dest[p] = source[p] /\ source[p].kind \in {"dir", "file"}
           /\ \A p \in Paths \ Handled : dest[p] = None \/ dest[p] = base[p]
<1>1. Handled \subseteq Considered(source, base)
  BY PlanFields DEF Handled
<1>2. source \in Trees /\ base \in Trees /\ \A p \in Paths : dest[p] = SoFar(p)
  BY DEF IInv, SyncTyped, Progress
<1>3. \A p \in Handled : p \in Paths /\ source[p].kind \in {"dir", "file"}
  BY <1>1, <1>2, ConsideredFacts
<1> QED
  BY <1>1, <1>2, <1>3 DEF SoFar

\* The path a run has come to: looked at, not handled yet, in a directory
\* that is there, with what it conflicts with as it was scanned.
LEMMA AtHand ==
    ASSUME IInv, phase \in {"prepare", "files"}, todo # {}, NEW x, x = Min(todo)
    PROVE  /\ x \in todo /\ x \in Paths /\ x \in Considered(source, base) /\ x \notin Handled
           /\ Current = {x} /\ IsDir(dest, Parent[x])
           /\ phase = "prepare" => x \in plan.dirs /\ source[x].kind = "dir"
           /\ phase = "files" => x \in plan.files /\ source[x].kind = "file"
           /\ \A e \in clear : e \in ConflictEntries(source, base, x) /\ dest[e] = base[e]
<1>1. /\ Plannable(source, base, options) /\ InOrder /\ \A p \in Paths : dest[p] = SoFar(p)
      /\ source \in Trees /\ base \in Trees /\ todo \subseteq Paths /\ clear \subseteq Paths
  BY DEF IInv, SyncTyped, Progress
<1>2. x \in todo /\ x \in Paths /\ \A y \in todo : x <= y
  BY <1>1, MinIsFirst
<1>3. Current = {x} /\ Taken = {}
  BY DEF Current, Taken
<1>4. /\ phase = "prepare" => x \in plan.dirs /\ source[x].kind = "dir" /\ Handled = plan.dirs \ todo
      /\ phase = "files" => /\ x \in plan.files /\ source[x].kind = "file"
                            /\ Handled = plan.dirs \cup (plan.files \ todo)
  BY <1>1, <1>2, PlanFields DEF InOrder, Handled
<1>5. x \in Considered(source, base) /\ x \notin Handled
  BY <1>2, <1>4, PlanFields
<1>6. IsDir(dest, Parent[x])
  <2> SUFFICES ASSUME Parent[x] # 0 PROVE dest[Parent[x]].kind = "dir"
    BY DEF IsDir
  <2>1. Parent[x] \in Considered(source, base) /\ source[Parent[x]].kind = "dir"
    BY <1>1, <1>5, ConsideredFacts
  <2>2. Parent[x] \notin todo
    BY <1>2, PathsAreNumbers
  <2>3. Parent[x] \in Handled
    BY <1>4, <2>1, <2>2, PlanFields
  <2> QED
    BY <2>1, <2>3, HandledFacts
<1>7. ASSUME NEW e \in clear PROVE e \in ConflictEntries(source, base, x) /\ dest[e] = base[e]
  <2>1. e \in ConflictEntries(source, base, x)
    BY <1>1, <1>3 DEF InOrder
  <2>2. x \in Clashes(source, base) /\ e \in Paths /\ e \in Present(base) /\ Below(e, x)
    BY <1>1, <1>2, <2>1, ClearsFacts
  <2>3. e \notin Handled
    BY <1>1, <1>2, <1>5, <2>1, ClearsFacts, HandledFacts
  <2>4. e \notin Cleared
    <3> SUFFICES ASSUME NEW p \in Paths, e \in ConflictEntries(source, base, p), p \in Handled
                 PROVE  FALSE
      BY <1>7 DEF Cleared
    <3>1. p \in Clashes(source, base) /\ Below(e, p)
      BY <1>1, ClearsFacts
    <3>2. p = x
      BY <1>1, <2>2, <3>1, ClearsApart
    <3> QED
      BY <1>5, <3>2
  <2> QED
    BY <1>1, <1>3, <2>1, <2>2, <2>3, <2>4 DEF SoFar
<1> QED
  BY <1>2, <1>3, <1>4, <1>5, <1>6, <1>7

(***************************************************************************)
(* The steps of a run.                                                     *)
(***************************************************************************)
\* What a step may do to the destination.
Mild ==
    \/ dest' = dest
    \/ \E x \in Paths, o \in Objects :
          /\ dest' = [dest EXCEPT ![x] = o]
          /\ dest[x] # None /\ o # dest[x] => \A s \in Shields(source, base) : ~Below(x, s)
          /\ dest[x].kind # "none" /\ ~options.delete => o.kind = dest[x].kind

\* The facts about a run in progress that every step starts from.
LEMMA Underway ==
    ASSUME IInv, phase \in {"prepare", "files", "finish", "done"}
    PROVE  /\ Plannable(source, base, options) /\ InOrder /\ \A p \in Paths : dest[p] = SoFar(p)
           /\ source \in Trees /\ base \in Trees /\ dest \in Trees /\ dest \in [Paths -> Objects]
           /\ options \in [delete : BOOLEAN, checksum : BOOLEAN] /\ runs \in 0 .. MaxRuns
           /\ todo \subseteq Paths /\ clear \subseteq Paths
           /\ plan.dirs \subseteq Considered(source, base) /\ plan.dirs \subseteq Paths
           /\ plan.files \subseteq Considered(source, base) /\ plan.files \subseteq Paths
           /\ plan.removals \subseteq Paths
<1>1. /\ Plannable(source, base, options) /\ InOrder /\ \A p \in Paths : dest[p] = SoFar(p)
      /\ source \in Trees /\ base \in Trees /\ dest \in Trees
      /\ options \in [delete : BOOLEAN, checksum : BOOLEAN] /\ runs \in 0 .. MaxRuns
      /\ todo \subseteq Paths /\ clear \subseteq Paths
  BY DEF IInv, SyncTyped, Progress
<1>2. dest \in [Paths -> Objects]
  BY <1>1 DEF Trees
<1>3. Considered(source, base) \subseteq Paths
  BY <1>1, ConsideredFacts
<1>4. plan.removals \subseteq Paths
  BY <1>1, PlanFields, RemovalFacts
<1> QED
  BY <1>1, <1>2, <1>3, <1>4, PlanFields

\* A step that puts o at x, with the invariant's parts shown one by one.
LEMMA StepKeeps ==
    ASSUME IInv, phase \in {"prepare", "files", "finish"},
           phase' \in {"prepare", "files", "finish", "done"},
           UNCHANGED <<source, options, base, runs>>,
           dest' \in Trees, todo' \subseteq Paths, clear' \subseteq Paths,
           InOrder', \A p \in Paths : dest'[p] = SoFar(p)'
    PROVE  IInv'
<1>1. /\ Plannable(source, base, options) /\ source \in Trees /\ base \in Trees
      /\ options \in [delete : BOOLEAN, checksum : BOOLEAN] /\ runs \in 0 .. MaxRuns
  BY Underway
<1>2. SyncTyped'
  BY <1>1 DEF SyncTyped, Phases
<1>3. Plannable(source, base, options)'
  BY <1>1 DEF Plannable, ClashAllowed, Shields, ProtectedIn, Clashes, Considered, Present
<1>4. Progress'
  BY <1>3 DEF Progress
<1>5. RerunIsPossible'
  BY DEF RerunIsPossible
<1> QED
  BY <1>2, <1>4, <1>5 DEF IInv

LEMMA ClearConflictKeeps ==
    ASSUME IInv, ClearConflict
    PROVE  IInv' /\ Mild
<1> DEFINE x == Min(todo)
           e == Max(clear)
<1>1. phase \in {"prepare", "files"} /\ clear # {}
  BY DEF ClearConflict
<1>2. /\ Plannable(source, base, options) /\ InOrder /\ \A p \in Paths : dest[p] = SoFar(p)
      /\ source \in Trees /\ base \in Trees /\ dest \in Trees /\ dest \in [Paths -> Objects]
      /\ todo \subseteq Paths /\ clear \subseteq Paths
  BY <1>1, Underway
<1>3. todo # {}
  BY <1>1, <1>2 DEF InOrder, Current
<1>4. /\ x \in Paths /\ x \in Considered(source, base) /\ x \notin Handled /\ Current = {x}
      /\ \A y \in clear : y \in ConflictEntries(source, base, x) /\ dest[y] = base[y]
  BY <1>1, <1>3, AtHand
<1>5. e \in clear /\ \A y \in clear : y <= e
  BY <1>1, <1>2, MaxIsLast
<1> HIDE DEF x, e
<1>6. /\ x \in Clashes(source, base) /\ options.delete
      /\ e \in Paths /\ e \in Present(base) /\ Below(e, x) /\ base[e].kind \in {"file", "dir"}
      /\ e \in Considered(source, base) => e = x
      /\ \A s \in Shields(source, base) : ~Below(e, s) /\ ~Below(s, e)
      /\ \A q \in Present(base) : Parent[q] = e => q \in ConflictEntries(source, base, x)
  BY <1>2, <1>4, <1>5, ClearsFacts
<1>7. dest[e] = base[e] /\ e \notin Handled
  <2>1. e \in Handled => e \in Considered(source, base)
    BY <1>1, HandledFacts
  <2> QED
    BY <1>4, <1>5, <1>6, <2>1
<1>8. ASSUME NEW q \in Paths, Parent[q] = e, dest[e].kind = "dir" PROVE dest[q] = None
  <2>1. q \notin Considered(source, base)
    <3> SUFFICES ASSUME q \in Considered(source, base) PROVE FALSE
      OBVIOUS
    <3>1. e # 0
      BY <1>6, SyncPathsAssumption
    <3>2. e \in Considered(source, base) /\ source[e].kind = "dir"
      BY <1>2, <1>8, <3>1, ConsideredFacts
    <3>3. e = x /\ base[x].kind = "dir" /\ source[x].kind = "dir"
      BY <1>6, <1>7, <1>8, <3>2
    <3> QED
      BY <1>2, <1>6, <3>3, ClashFacts
  <2>2. q \notin Handled
    BY <1>1, <2>1, HandledFacts
  <2>3. CASE q \in Present(base)
    <3>1. q \in ConflictEntries(source, base, x)
      BY <1>6, <1>8, <2>3
    <3>2. q \notin clear
      <4>1. ~(q <= e)
        BY <1>6, <1>8, PathsAreNumbers, SyncPathsAssumption
      <4> QED
        BY <1>5, <4>1
    <3>3. q \in Cleared
      BY <1>4, <3>1, <3>2 DEF Cleared
    <3> QED
      BY <1>2, <2>2, <3>3 DEF SoFar
  <2>4. CASE q \notin Present(base)
    <3>1. base[q] = None
      BY <1>2, <2>4, TreeObjects
    <3> QED
      BY <1>1, <2>2, <3>1, HandledFacts
  <2> QED
    BY <2>3, <2>4
<1>9. Unlinkable(e)
  BY <1>6, <1>7, <1>8 DEF Unlinkable, Checked
<1>10. /\ dest' = [dest EXCEPT ![e] = None] /\ clear' = clear \ {e}
       /\ UNCHANGED <<source, options, base, phase, todo, runs>>
  BY <1>9 DEF ClearConflict, Without, e
<1>11. dest' \in Trees
  <2>1. ASSUME NEW q \in Paths, Parent[q] = e PROVE dest[q].kind = "none"
    <3>1. CASE dest[e].kind = "dir"
      BY <1>8, <2>1, <3>1, ObjectKinds
    <3>2. CASE dest[e].kind # "dir"
      <4> SUFFICES ASSUME dest[q].kind # "none" PROVE FALSE
        OBVIOUS
      <4>1. q \in Present(dest)
        BY DEF Present
      <4>2. IsDir(dest, e)
        BY <1>2, <2>1, <4>1 DEF Trees, WellFormed
      <4> QED
        BY <1>6, <3>2, <4>2, SyncPathsAssumption DEF IsDir
    <3> QED
      BY <3>1, <3>2
  <2> QED
    BY <1>2, <1>6, <1>10, <2>1, PutKeepsTree, ObjectKinds
<1>12. plan' = plan /\ Handled' = Handled /\ Taken' = Taken /\ Current' = Current
  BY <1>10 DEF plan, Handled, Taken, Current
<1>13. Cleared' = Cleared \cup {e}
  <2>1. Cleared' = {y \in Paths : \E p \in Paths :
                       /\ y \in ConflictEntries(source, base, p)
                       /\ p \in Handled \/ (p \in Current /\ y \notin clear \ {e})}
    BY <1>10, <1>12 DEF Cleared
  <2>2. e \in ConflictEntries(source, base, x) /\ e \in Paths /\ x \in Paths /\ x \in Current
    BY <1>4, <1>5, <1>6
  <2> QED
    BY <2>1, <2>2 DEF Cleared
<1>14. \A p \in Paths : dest'[p] = SoFar(p)'
  <2> SUFFICES ASSUME NEW p \in Paths PROVE dest'[p] = SoFar(p)'
    OBVIOUS
  <2>1. SoFar(p)' = IF p \in Handled THEN source[p]
                    ELSE IF p \in Cleared \cup {e} \cup Taken THEN None ELSE base[p]
    BY <1>10, <1>12, <1>13 DEF SoFar
  <2>2. dest[p] = IF p \in Handled THEN source[p]
                  ELSE IF p \in Cleared \cup Taken THEN None ELSE base[p]
    BY <1>2 DEF SoFar
  <2> QED
    BY <1>2, <1>6, <1>7, <1>10, <2>1, <2>2
<1>15. InOrder'
  <2>1. /\ clear' \subseteq ConflictEntries(source, base, x)
        /\ \A y \in ConflictEntries(source, base, x) \ clear', z \in clear' : z < y
    <3>1. \A z \in clear' : z < e
      <4> SUFFICES ASSUME NEW z \in clear' PROVE z < e
        OBVIOUS
      <4>1. z \in clear /\ z # e /\ z <= e /\ z \in Paths
        BY <1>2, <1>5, <1>10
      <4>2. z \in Nat /\ e \in Nat
        BY <4>1, <1>6, PathsAreNumbers
      <4> QED
        BY <4>1, <4>2
    <3> QED
      BY <1>2, <1>4, <1>10, <3>1 DEF InOrder
  <2>2. clear' \subseteq ConflictEntries(source', base', x)
    BY <1>10, <2>1
  <2> QED
    BY <1>2, <1>4, <1>10, <1>12, <2>1 DEF InOrder
<1>16. clear' \subseteq Paths /\ todo' \subseteq Paths
  BY <1>2, <1>10
<1>17. IInv'
  BY <1>1, <1>10, <1>11, <1>14, <1>15, <1>16, StepKeeps
<1>18. Mild
  BY <1>6, <1>10, ObjectKinds DEF Mild
<1> QED
  BY <1>17, <1>18

\* Once its conflict is cleared the path at hand is free, or holds an object
\* of the right kind as it was scanned.
LEMMA Vacant ==
    ASSUME IInv, phase \in {"prepare", "files"}, todo # {}, clear = {}, NEW x, x = Min(todo)
    PROVE  IF x \in Clashes(source, base) \/ base[x].kind = "none"
             THEN dest[x] = None
             ELSE dest[x] = base[x] /\ base[x].kind = source[x].kind
<1>1. /\ Plannable(source, base, options) /\ \A p \in Paths : dest[p] = SoFar(p)
      /\ source \in Trees /\ base \in Trees
  BY Underway
<1>2. x \in Paths /\ x \in Considered(source, base) /\ x \notin Handled /\ Current = {x}
  BY AtHand
<1>3. Taken = {}
  BY DEF Taken
<1>4. CASE x \in Clashes(source, base)
  <2>1. x \in ConflictEntries(source, base, x)
    BY <1>2, <1>4, BelowOrder DEF ConflictEntries, Clashes, Present
  <2>2. x \in Cleared
    BY <1>2, <2>1 DEF Cleared
  <2> QED
    BY <1>1, <1>2, <1>4, <2>2 DEF SoFar
<1>5. CASE x \notin Clashes(source, base) /\ base[x].kind = "none"
  <2>1. base[x] = None
    BY <1>1, <1>2, <1>5, TreeObjects
  <2> QED
    BY <1>2, <1>5, <2>1, HandledFacts
<1>6. CASE x \notin Clashes(source, base) /\ base[x].kind # "none"
  <2>1. base[x].kind = source[x].kind
    BY <1>2, <1>6 DEF Clashes
  <2>2. x \notin Cleared
    <3> SUFFICES ASSUME NEW p \in Paths, x \in ConflictEntries(source, base, p) PROVE FALSE
      BY DEF Cleared
    <3>1. p \in Clashes(source, base) /\ x = p
      BY <1>1, <1>2, ClearsFacts
    <3> QED
      BY <1>6, <3>1
  <2> QED
    BY <1>1, <1>2, <1>3, <1>6, <2>1, <2>2 DEF SoFar
<1> QED
  BY <1>4, <1>5, <1>6

\* Handling the path at hand: the source's object comes in its place and the
\* run goes on to the next path.
LEMMA HandlingKeeps ==
    ASSUME IInv, phase \in {"prepare", "files"}, todo # {}, clear = {}, NEW x, x = Min(todo),
           dest' = [dest EXCEPT ![x] = source[x]], Rest(todo \ {x}),
           UNCHANGED <<source, options, base, phase, runs>>
    PROVE  IInv' /\ Mild
<1>1. /\ Plannable(source, base, options) /\ InOrder /\ \A p \in Paths : dest[p] = SoFar(p)
      /\ source \in Trees /\ base \in Trees /\ dest \in Trees /\ dest \in [Paths -> Objects]
      /\ options \in [delete : BOOLEAN, checksum : BOOLEAN] /\ todo \subseteq Paths
  BY Underway
<1>2. /\ x \in todo /\ x \in Paths /\ x \in Considered(source, base) /\ x \notin Handled
      /\ Current = {x} /\ IsDir(dest, Parent[x])
      /\ phase = "prepare" => x \in plan.dirs /\ source[x].kind = "dir"
      /\ phase = "files" => x \in plan.files /\ source[x].kind = "file"
  BY AtHand
<1>3. /\ source[x] \in Objects /\ source[x].kind \in {"dir", "file"} /\ x \notin Temps
      /\ \A s \in Shields(source, base) : ~Below(x, s)
  BY <1>1, <1>2, ConsideredFacts, TreeObjects
<1>4. dest[x].kind \in {"none", source[x].kind}
  BY <1>1, <1>2, Vacant, ObjectKinds
<1>5. dest' \in Trees
  <2>1. ASSUME source[x].kind # "dir", NEW q \in Paths, Parent[q] = x PROVE dest[q].kind = "none"
    <3> SUFFICES ASSUME dest[q].kind # "none" PROVE FALSE
      OBVIOUS
    <3>1. q \in Present(dest)
      BY DEF Present
    <3>2. IsDir(dest, x)
      BY <1>1, <2>1, <3>1 DEF Trees, WellFormed
    <3>3. x # 0
      BY <1>2, SyncPathsAssumption
    <3> QED
      BY <1>4, <2>1, <3>2, <3>3 DEF IsDir
  <2> QED
    BY <1>1, <1>2, <1>3, <2>1, PutKeepsTree
<1>6. plan' = plan /\ Handled' = Handled \cup {x} /\ Taken' = Taken
  <2>1. plan' = plan
    BY DEF plan
  <2>2. todo' = todo \ {x}
    BY DEF Rest
  <2> QED
    BY <1>2, <2>1, <2>2 DEF Handled, Taken
<1>7. /\ todo' = todo \ {x}
      /\ todo' = {} => Current' = {} /\ clear' = {}
      /\ todo' # {} => /\ Current' = {Min(todo')} /\ Min(todo') \in todo'
                       /\ clear' = ConflictEntries(source, base, Min(todo'))
  <2>1. todo' = todo \ {x} /\ todo' \subseteq Paths
    BY <1>1 DEF Rest
  <2>2. todo' # {} => Min(todo') \in todo'
    BY <2>1, MinIsFirst
  <2>3. todo' # {} => clear' = plan.clears[Min(todo')]
    BY <2>1 DEF Rest
  <2>4. todo' # {} => clear' = ConflictEntries(source, base, Min(todo'))
    BY <2>1, <2>2, <2>3, PlanFields
  <2>5. todo' = {} => clear' = {}
    BY <2>1 DEF Rest
  <2> QED
    BY <2>1, <2>2, <2>4, <2>5 DEF Current
<1>8. Cleared' = Cleared
  <2>1. Cleared' = {y \in Paths : \E p \in Paths :
                       y \in ConflictEntries(source, base, p) /\ p \in Handled \cup {x}}
    BY <1>6, <1>7 DEF Cleared
  <2>2. Cleared = {y \in Paths : \E p \in Paths :
                       y \in ConflictEntries(source, base, p) /\ p \in Handled \cup {x}}
    BY <1>2 DEF Cleared
  <2> QED
    BY <2>1, <2>2
<1>9. \A p \in Paths : dest'[p] = SoFar(p)'
  <2> SUFFICES ASSUME NEW p \in Paths PROVE dest'[p] = SoFar(p)'
    OBVIOUS
  <2>1. SoFar(p)' = IF p \in Handled \cup {x} THEN source[p]
                    ELSE IF p \in Cleared \cup Taken THEN None ELSE base[p]
    BY <1>6, <1>8 DEF SoFar
  <2>2. dest[p] = IF p \in Handled THEN source[p]
                  ELSE IF p \in Cleared \cup Taken THEN None ELSE base[p]
    BY <1>1 DEF SoFar
  <2> QED
    BY <1>1, <1>2, <2>1, <2>2
<1>10. clear' \subseteq Paths
  <2>1. \A p : ConflictEntries(source, base, p) \subseteq Paths
    BY DEF ConflictEntries, Present
  <2> QED
    BY <1>7, <2>1
<1>11. InOrder'
  <2>1. phase = "prepare" => \A y \in plan.dirs \ todo', z \in todo' : y < z
    <3> SUFFICES ASSUME phase = "prepare", NEW y \in plan.dirs \ todo', NEW z \in todo'
                 PROVE  y < z
      OBVIOUS
    <3>1. CASE y = x
      <4>1. x <= z /\ z # x /\ z \in Paths
        BY <1>1, <1>7, MinIsFirst
      <4>2. x \in Nat /\ z \in Nat
        BY <1>2, <4>1, PathsAreNumbers
      <4> QED
        BY <3>1, <4>1, <4>2
    <3>2. CASE y # x
      BY <1>1, <1>7, <3>2 DEF InOrder
    <3> QED
      BY <3>1, <3>2
  <2>2. todo' \subseteq CASE phase' = "prepare" -> plan'.dirs
                         [] phase' = "files"   -> plan'.files
                         [] phase' = "finish"  -> plan'.removals
                         [] OTHER             -> {}
    BY <1>1, <1>6, <1>7 DEF InOrder
  <2>3. \A p \in Current' :
           /\ clear' \subseteq ConflictEntries(source', base', p)
           /\ \A y \in ConflictEntries(source', base', p) \ clear', z \in clear' : z < y
    BY <1>7
  <2>4. Current' = {} => clear' = {}
    BY <1>7
  <2> QED
    BY <1>6, <2>1, <2>2, <2>3, <2>4 DEF InOrder
<1>12. IInv'
  BY <1>1, <1>5, <1>7, <1>9, <1>10, <1>11, StepKeeps
<1>13. Mild
  BY <1>2, <1>3, <1>4 DEF Mild
<1> QED
  BY <1>12, <1>13

LEMMA MakeDirectoryKeeps ==
    ASSUME IInv, MakeDirectory
    PROVE  IInv' /\ Mild
<1> DEFINE d == Min(todo)
<1>1. phase = "prepare" /\ clear = {} /\ todo # {}
  BY DEF MakeDirectory
<1>2. d \in Paths /\ IsDir(dest, Parent[d]) /\ source[d].kind = "dir"
  BY <1>1, AtHand
<1>3. dest[d].kind \in {"none", "dir"}
  BY <1>1, <1>2, Vacant, ObjectKinds
<1>4. source[d] = Dir
  <2>1. source \in Trees
    BY <1>1, Underway
  <2> QED
    BY <1>2, <2>1, ObjectKinds, TreeObjects
<1> HIDE DEF d
<1>5. /\ dest' = [dest EXCEPT ![d] = source[d]] /\ Rest(todo \ {d})
      /\ UNCHANGED <<source, options, base, phase, runs>>
  BY <1>2, <1>3, <1>4 DEF MakeDirectory, d
<1> QED
  BY <1>1, <1>5, HandlingKeeps DEF d

LEMMA RenameIntoKeeps ==
    ASSUME IInv, RenameInto
    PROVE  IInv' /\ Mild
<1> DEFINE f == Min(todo)
<1>1. phase = "files" /\ clear = {} /\ todo # {}
  BY DEF RenameInto
<1>2. f \in Paths /\ IsDir(dest, Parent[f]) /\ source[f].kind = "file"
  BY <1>1, AtHand
<1>3. Free(f)
  <2>1. CASE base[f].kind = "file" /\ f \notin Clashes(source, base)
    BY <1>1, <2>1, Vacant DEF Free, Checked
  <2>2. CASE f \in Clashes(source, base) \/ base[f].kind = "none"
    BY <1>1, <2>2, Vacant, ObjectKinds DEF Free
  <2>3. CASE f \notin Clashes(source, base) /\ base[f].kind \notin {"file", "none"}
    BY <1>1, <1>2, <2>3, Vacant
  <2> QED
    BY <2>1, <2>2, <2>3
<1> HIDE DEF f
<1>4. /\ dest' = [dest EXCEPT ![f] = source[f]] /\ Rest(todo \ {f})
      /\ UNCHANGED <<source, options, base, phase, runs>>
  BY <1>2, <1>3 DEF RenameInto, Installed, f
<1> QED
  BY <1>1, <1>4, HandlingKeeps DEF f

\* Entering a phase: nothing of it is done yet.
LEMMA EnteringKeeps ==
    ASSUME IInv, NEW next, NEW S,
           \/ phase = "prepare" /\ next = "files" /\ S = plan.files
           \/ phase = "files" /\ next = "finish" /\ S = plan.removals
           \/ phase = "finish" /\ next = "done" /\ S = {},
           Enter(next, S)
    PROVE  IInv' /\ Mild
<1>1. phase \in {"prepare", "files", "finish"} /\ next \in {"files", "finish", "done"}
  OBVIOUS
<1>2. /\ InOrder /\ \A p \in Paths : dest[p] = SoFar(p)
      /\ source \in Trees /\ base \in Trees /\ dest \in Trees
      /\ plan.files \subseteq Paths /\ plan.removals \subseteq Paths
  BY <1>1, Underway
<1>3. /\ todo = {} /\ phase' = next /\ todo' = S /\ S \subseteq Paths
      /\ UNCHANGED <<source, options, dest, base, runs>>
  BY <1>2 DEF Enter
<1>4. plan' = plan
  BY <1>3 DEF plan
<1>5. /\ Current = {}
      /\ Current' = {} => clear' = {}
      /\ \A p \in Current' : clear' = ConflictEntries(source, base, p)
  <2>1. CASE next = "files" /\ S # {}
    <3>1. Min(S) \in S /\ Min(S) \in Paths
      BY <1>3, <2>1, MinIsFirst
    <3>2. clear' = plan.clears[Min(S)]
      BY <2>1 DEF Enter
    <3>3. Current' = {Min(S)}
      BY <1>3, <2>1 DEF Current
    <3> QED
      BY <1>1, <1>3, <3>1, <3>2, <3>3, PlanFields DEF Current
  <2>2. CASE next # "files" \/ S = {}
    <3>1. clear' = {}
      BY <1>1, <2>2 DEF Enter
    <3>2. Current' = {} /\ Current = {}
      BY <1>1, <1>3, <2>2 DEF Current
    <3> QED
      BY <3>1, <3>2
  <2> QED
    BY <2>1, <2>2
<1>6. Handled' = Handled /\ Taken' = Taken
  BY <1>3, <1>4 DEF Handled, Taken
<1>7. Cleared' = Cleared
  <2>1. Cleared = {e \in Paths : \E p \in Paths :
                     e \in ConflictEntries(source, base, p) /\ p \in Handled}
    BY <1>5 DEF Cleared
  <2>2. Cleared' = {e \in Paths : \E p \in Paths :
                     e \in ConflictEntries(source, base, p) /\ p \in Handled}
    BY <1>3, <1>5, <1>6 DEF Cleared
  <2> QED
    BY <2>1, <2>2
<1>8. \A p \in Paths : dest'[p] = SoFar(p)'
  BY <1>2, <1>3, <1>6, <1>7 DEF SoFar
<1>9. clear' \subseteq Paths
  <2>1. \A p : ConflictEntries(source, base, p) \subseteq Paths
    BY DEF ConflictEntries, Present
  <2> QED
    BY <1>5, <2>1
<1>10. InOrder'
  <2>1. todo' \subseteq CASE phase' = "prepare" -> plan'.dirs
                         [] phase' = "files"   -> plan'.files
                         [] phase' = "finish"  -> plan'.removals
                         [] OTHER             -> {}
    BY <1>1, <1>3, <1>4
  <2>2. \A p \in Current' :
           /\ clear' \subseteq ConflictEntries(source', base', p)
           /\ \A y \in ConflictEntries(source', base', p) \ clear', z \in clear' : z < y
    BY <1>3, <1>5
  <2>3. /\ phase' # "prepare"
        /\ phase' = "finish" => plan'.removals \ todo' = {}
    BY <1>1, <1>3, <1>4
  <2> QED
    BY <1>5, <2>1, <2>2, <2>3 DEF InOrder
<1>11. IInv'
  BY <1>1, <1>2, <1>3, <1>8, <1>9, <1>10, StepKeeps
<1> QED
  BY <1>3, <1>11 DEF Mild

LEMMA StartFilesKeeps ==
    ASSUME IInv, StartFiles
    PROVE  IInv' /\ Mild
BY EnteringKeeps DEF StartFiles

LEMMA CompleteKeeps ==
    ASSUME IInv, Complete
    PROVE  IInv' /\ Mild
BY EnteringKeeps DEF Complete

\* An extra that is not removed yet is as it was scanned.
LEMMA ExtraStays ==
    ASSUME IInv, phase \in {"files", "finish"}, NEW e \in plan.removals \ Taken
    PROVE  /\ dest[e] = base[e] /\ e \notin Handled /\ e \in Paths
           /\ e \in MakePlan(source, base, options).removals /\ Checked(e)
<1>1. /\ \A p \in Paths : dest[p] = SoFar(p)
      /\ source \in Trees /\ base \in Trees /\ Plannable(source, base, options)
  BY Underway
<1>2. e \in MakePlan(source, base, options).removals
  BY PlanFields
<1>3. /\ e \in Paths /\ e \notin Considered(source, base) /\ base[e].kind \in {"file", "dir"}
      /\ \A p \in Paths : e \notin ConflictEntries(source, base, p)
  BY <1>1, <1>2, RemovalFacts
<1>4. e \notin Handled /\ e \notin Cleared
  BY <1>3, HandledFacts DEF Cleared
<1>5. dest[e] = base[e]
  BY <1>1, <1>3, <1>4 DEF SoFar
<1> QED
  BY <1>2, <1>3, <1>4, <1>5 DEF Checked

LEMMA PreflightKeeps ==
    ASSUME IInv, Preflight
    PROVE  IInv' /\ Mild
<1>1. phase = "files" /\ Taken = {}
  BY DEF Preflight, Taken
<1>2. \A e \in plan.removals : Checked(e)
  BY <1>1, ExtraStays
<1>3. Enter("finish", plan.removals)
  BY <1>2 DEF Preflight
<1> QED
  BY <1>1, <1>3, EnteringKeeps

LEMMA RemoveExtraKeeps ==
    ASSUME IInv, RemoveExtra
    PROVE  IInv' /\ Mild
<1> DEFINE e == Max(todo)
<1>1. phase = "finish" /\ todo # {}
  BY DEF RemoveExtra
<1>2. /\ Plannable(source, base, options) /\ InOrder /\ \A p \in Paths : dest[p] = SoFar(p)
      /\ source \in Trees /\ base \in Trees /\ dest \in Trees /\ dest \in [Paths -> Objects]
      /\ todo \subseteq Paths /\ clear \subseteq Paths
  BY <1>1, Underway
<1>3. e \in todo /\ \A y \in todo : y <= e
  BY <1>1, <1>2, MaxIsLast
<1> HIDE DEF e
<1>4. todo \subseteq plan.removals /\ Taken = plan.removals \ todo /\ Current = {}
  BY <1>1, <1>2 DEF InOrder, Taken, Current
<1>5. /\ dest[e] = base[e] /\ e \notin Handled /\ e \in Paths
      /\ e \in MakePlan(source, base, options).removals /\ Checked(e)
  BY <1>1, <1>3, <1>4, ExtraStays
<1>6. /\ options.delete /\ e \in Present(base) /\ base[e].kind \in {"file", "dir"}
      /\ \A s \in Shields(source, base) : ~Below(e, s)
      /\ \A q \in Paths : Parent[q] = e =>
            /\ q \notin Present(source)
            /\ q \in Present(base) => q \in plan.removals
  BY <1>2, <1>5, RemovalFacts, PlanFields
<1>7. ASSUME NEW q \in Paths, Parent[q] = e PROVE dest[q] = None
  <2>1. q \notin Handled
    <3>1. q \notin Considered(source, base)
      BY <1>6, <1>7 DEF Considered
    <3> QED
      BY <1>1, <3>1, HandledFacts
  <2>2. CASE q \in Present(base)
    <3>1. q \notin todo
      <4>1. e # 0
        BY <1>5, SyncPathsAssumption
      <4>2. ~(q <= e)
        BY <1>7, <4>1, PathsAreNumbers
      <4> QED
        BY <1>3, <4>2
    <3>2. q \in Taken
      BY <1>4, <1>6, <1>7, <2>2, <3>1
    <3> QED
      BY <1>2, <2>1, <3>2 DEF SoFar
  <2>3. CASE q \notin Present(base)
    <3>1. base[q] = None
      BY <1>2, <2>3, TreeObjects
    <3> QED
      BY <1>1, <2>1, <3>1, HandledFacts
  <2> QED
    BY <2>2, <2>3
<1>8. Unlinkable(e)
  BY <1>5, <1>7 DEF Unlinkable
<1>9. /\ dest' = [dest EXCEPT ![e] = None] /\ Rest(todo \ {e})
      /\ UNCHANGED <<source, options, base, phase, runs>>
  BY <1>8 DEF RemoveExtra, Without, e
<1>10. todo' = todo \ {e} /\ clear' = {} /\ clear = {}
  BY <1>1, <1>2, <1>4, <1>9 DEF Rest, InOrder
<1>11. dest' \in Trees
  BY <1>2, <1>5, <1>7, <1>9, PutKeepsTree, ObjectKinds
<1>12. plan' = plan /\ Handled' = Handled /\ Current' = {} /\ Taken' = Taken \cup {e}
  <2>1. plan' = plan
    BY <1>9 DEF plan
  <2>2. Taken' = plan.removals \ (todo \ {e})
    BY <1>1, <1>9, <1>10, <2>1 DEF Taken
  <2> QED
    BY <1>1, <1>3, <1>4, <1>9, <2>1, <2>2 DEF Handled, Current
<1>13. Cleared' = Cleared
  BY <1>4, <1>9, <1>12 DEF Cleared
<1>14. \A p \in Paths : dest'[p] = SoFar(p)'
  <2> SUFFICES ASSUME NEW p \in Paths PROVE dest'[p] = SoFar(p)'
    OBVIOUS
  <2>1. SoFar(p)' = IF p \in Handled THEN source[p]
                    ELSE IF p \in Cleared \cup Taken \cup {e} THEN None ELSE base[p]
    BY <1>9, <1>12, <1>13 DEF SoFar
  <2>2. dest[p] = IF p \in Handled THEN source[p]
                  ELSE IF p \in Cleared \cup Taken THEN None ELSE base[p]
    BY <1>2 DEF SoFar
  <2> QED
    BY <1>2, <1>5, <1>9, <2>1, <2>2
<1>15. InOrder'
  <2>1. \A y \in plan.removals \ todo', z \in todo' : z < y
    <3> SUFFICES ASSUME NEW y \in plan.removals \ todo', NEW z \in todo' PROVE z < y
      OBVIOUS
    <3>1. CASE y = e
      <4>1. z <= e /\ z # e /\ z \in Paths
        BY <1>2, <1>3, <1>10
      <4>2. z \in Nat /\ e \in Nat
        BY <1>5, <4>1, PathsAreNumbers
      <4> QED
        BY <3>1, <4>1, <4>2
    <3>2. CASE y # e
      BY <1>1, <1>2, <1>10, <3>2 DEF InOrder
    <3> QED
      BY <3>1, <3>2
  <2> QED
    BY <1>1, <1>4, <1>9, <1>10, <1>12, <2>1 DEF InOrder
<1>16. todo' \subseteq Paths /\ clear' \subseteq Paths
  BY <1>2, <1>10
<1>17. IInv'
  BY <1>1, <1>9, <1>11, <1>14, <1>15, <1>16, StepKeeps
<1>18. Mild
  BY <1>5, <1>6, <1>9, ObjectKinds DEF Mild
<1> QED
  BY <1>17, <1>18

\* A run makes no protected object and loses none.
LEMMA ProtectedAreTheSame ==
    ASSUME IInv, phase \in {"prepare", "files", "finish", "done"}
    PROVE  /\ ProtectedIn(dest) = ProtectedIn(base)
           /\ Shields(source, dest) = Shields(source, base)
           /\ Considered(source, dest) = Considered(source, base)
<1>1. /\ Plannable(source, base, options) /\ \A p \in Paths : dest[p] = SoFar(p)
      /\ source \in Trees /\ base \in Trees
  BY Underway
<1>2. ASSUME NEW p \in ProtectedIn(dest) PROVE p \in ProtectedIn(base)
  <2>1. p \in Paths /\ dest[p].kind = "protected"
    BY DEF ProtectedIn
  <2>2. p \notin Handled /\ dest[p] # None
    BY <2>1, HandledFacts, ObjectKinds
  <2>3. dest[p] = base[p]
    BY <2>1, <2>2, HandledFacts
  <2> QED
    BY <2>1, <2>3 DEF ProtectedIn
<1>3. ASSUME NEW p \in ProtectedIn(base) PROVE p \in ProtectedIn(dest)
  <2>1. p \in Paths /\ base[p].kind = "protected"
    BY DEF ProtectedIn
  <2>2. p \notin Handled
    BY <1>1, <2>1, HandledFacts, ConsideredFacts
  <2>3. p \notin Cleared
    BY <1>1, <2>1, ClearsFacts DEF Cleared
  <2>4. p \notin Taken
    <3>1. p \notin plan.removals
      BY <1>1, <2>1, RemovalFacts, PlanFields
    <3> QED
      BY <3>1 DEF Taken
  <2>5. dest[p] = base[p]
    BY <1>1, <2>1, <2>2, <2>3, <2>4 DEF SoFar
  <2> QED
    BY <2>1, <2>5 DEF ProtectedIn
<1>4. ProtectedIn(dest) = ProtectedIn(base)
  BY <1>2, <1>3
<1>5. Shields(source, dest) = Shields(source, base)
  BY <1>4 DEF Shields
<1> QED
  BY <1>4, <1>5 DEF Considered

\* A run leaves only conflicts that it found and has not come to, so it can be
\* planned again wherever it stops.
LEMMA ConflictsOnlyGo ==
    ASSUME IInv, phase \in {"prepare", "files", "finish", "done"}
    PROVE  /\ Clashes(source, dest) \subseteq Clashes(source, base) \ Handled
           /\ Plannable(source, dest, options)
<1>1. ASSUME NEW p \in Clashes(source, dest) PROVE p \in Clashes(source, base) \ Handled
  <2>1. p \in Considered(source, base) /\ dest[p].kind # "none" /\ dest[p].kind # source[p].kind
    BY ProtectedAreTheSame DEF Clashes
  <2>2. p \in Paths
    BY <2>1, ConsideredFacts, Underway
  <2>3. p \notin Handled
    BY <2>1, HandledFacts
  <2>4. dest[p] = base[p]
    BY <2>1, <2>2, <2>3, HandledFacts, ObjectKinds
  <2> QED
    BY <2>1, <2>3, <2>4 DEF Clashes
<1>2. Plannable(source, dest, options)
  BY <1>1, Underway, ProtectedAreTheSame DEF Plannable, ClashAllowed
<1> QED
  BY <1>1, <1>2

\* A run that stops, wherever it does and with a staging file or without, can
\* be run again.
LEMMA InterruptKeeps ==
    ASSUME IInv, Interrupt
    PROVE  IInv' /\ Mild
<1>1. /\ phase \in {"prepare", "files", "finish"}
      /\ phase' = "stopped" /\ todo' = {} /\ clear' = {}
      /\ UNCHANGED <<source, options, base, runs>>
  BY DEF Interrupt
<1>2. /\ source \in Trees /\ base \in Trees /\ dest \in Trees /\ dest \in [Paths -> Objects]
      /\ options \in [delete : BOOLEAN, checksum : BOOLEAN] /\ runs \in 0 .. MaxRuns
      /\ todo \subseteq Paths
  BY <1>1, Underway
<1>3. Plannable(source, dest, options) /\ Clashes(source, dest) \subseteq Paths \ Handled
  <2>1. Clashes(source, base) \subseteq Paths
    BY <1>2, ClashFacts
  <2> QED
    BY <1>1, <2>1, ConflictsOnlyGo
<1>4. ASSUME dest' \in Trees, Plannable(source, dest', options) PROVE IInv'
  <2>1. SyncTyped'
    BY <1>1, <1>2, <1>4 DEF SyncTyped, Phases
  <2>2. Plannable(source', dest', options')
    BY <1>1, <1>4
  <2>3. RerunIsPossible'
    BY <2>2 DEF RerunIsPossible
  <2>4. Progress'
    BY <1>1 DEF Progress
  <2> QED
    BY <2>1, <2>3, <2>4 DEF IInv
<1>5. CASE dest' = dest
  BY <1>2, <1>3, <1>4, <1>5 DEF Mild
<1>6. ASSUME phase = "files", todo # {}, NEW t \in Temps,
             Parent[t] = Parent[Min(todo)], IsDir(dest, Parent[t]),
             dest' = [dest EXCEPT ![t] = Leftover(Min(todo))]
      PROVE  IInv' /\ Mild
  <2> DEFINE f == Min(todo)
  <2>1. f \in Paths /\ f \in Considered(source, base) /\ source[f].kind = "file"
    BY <1>6, AtHand
  <2>2. t \in Paths /\ dest[t] \in {None, Protected} /\ t # 0
    BY <1>2, <1>6, SyncPathsAssumption, TreeObjects
  <2>3. dest' = [dest EXCEPT ![t] = Protected] /\ Parent[t] = Parent[f]
    BY <1>6 DEF Leftover
  <2> HIDE DEF f
  <2>4. dest' \in Trees
    <3>1. ASSUME NEW q \in Paths, Parent[q] = t PROVE dest[q].kind = "none"
      <4> SUFFICES ASSUME dest[q].kind # "none" PROVE FALSE
        OBVIOUS
      <4>1. q \in Present(dest)
        BY DEF Present
      <4>2. IsDir(dest, t)
        BY <1>2, <3>1, <4>1 DEF Trees, WellFormed
      <4> QED
        BY <2>2, <4>2, ObjectKinds DEF IsDir
    <3>2. Protected \in Objects /\ Protected.kind = "protected"
      BY ObjectKinds
    <3>3. [dest EXCEPT ![t] = Protected] \in Trees
      BY <1>2, <1>6, <2>2, <3>1, <3>2, PutKeepsTree
    <3> QED
      BY <2>3, <3>3
  <2>5. dest'[t] = Protected /\ \A p \in Paths \ {t} : dest'[p] = dest[p]
    BY <1>2, <2>2, <2>3
  <2>6. Shields(source, dest') = Shields(source, dest) \cup {t}
    BY <2>2, <2>5, ObjectKinds DEF Shields, ProtectedIn
  <2>7. ASSUME NEW p \in Clashes(source, dest') PROVE p \in Clashes(source, dest) /\ ~Below(t, p)
    <3>1. /\ p \in Present(source) /\ \A s \in Shields(source, dest) \cup {t} : ~Below(p, s)
          /\ dest'[p].kind # "none" /\ dest'[p].kind # source[p].kind
      BY <2>6 DEF Clashes, Considered
    <3>2. p \in Paths /\ p # t
      BY <2>2, <3>1, BelowOrder DEF Present
    <3>3. p \in Clashes(source, dest)
      BY <2>5, <3>1, <3>2 DEF Clashes, Considered
    <3>4. ~Below(t, p)
      <4> SUFFICES ASSUME Below(t, p) PROVE FALSE
        OBVIOUS
      <4>1. Parent[f] # 0 /\ Below(Parent[f], p)
        BY <2>2, <2>3, <3>2, BelowOrder
      <4>2. Parent[f] \in Considered(source, base) /\ source[Parent[f]].kind = "dir"
        BY <1>2, <2>1, <4>1, ConsideredFacts
      <4>3. p \in Considered(source, base) /\ source[p].kind = "dir"
        BY <1>2, <4>1, <4>2, ConsideredFacts
      <4>4. p \in Handled
        BY <1>6, <4>3, PlanFields DEF Handled
      <4> QED
        BY <1>3, <3>3, <4>4
    <3> QED
      BY <3>3, <3>4
  <2>8. Plannable(source, dest', options)
    <3> SUFFICES ASSUME NEW p \in Clashes(source, dest') PROVE ClashAllowed(source, dest', options, p)
      BY DEF Plannable
    <3>1. ClashAllowed(source, dest, options, p)
      BY <1>3, <2>7 DEF Plannable
    <3> QED
      BY <2>6, <2>7, <3>1 DEF ClashAllowed
  <2>9. Mild
    BY <2>2, <2>3, ObjectKinds DEF Mild
  <2> QED
    BY <1>4, <2>4, <2>8, <2>9
<1> QED
  BY <1>5, <1>6 DEF Interrupt

\* A new run starts from what is there.
LEMMA RunKeeps ==
    ASSUME IInv, Run
    PROVE  IInv' /\ Mild
<1>1. /\ source \in Trees /\ dest \in Trees /\ runs \in Nat /\ runs < MaxRuns
      /\ options \in [delete : BOOLEAN, checksum : BOOLEAN]
      /\ base' = dest /\ runs' = runs + 1 /\ UNCHANGED <<source, options, dest>>
  BY DEF IInv, SyncTyped, Run
<1>2. runs' \in 0 .. MaxRuns
  BY <1>1, SyncRunsAssumption
<1>3. CASE ~Plannable(source, dest, options)
  <2>1. phase' = "refused" /\ todo' = {} /\ clear' = {}
    BY <1>3 DEF Run
  <2> QED
    BY <1>1, <1>2, <2>1 DEF IInv, SyncTyped, Progress, RerunIsPossible, Phases, Mild
<1>4. CASE Plannable(source, dest, options)
  <2> DEFINE d == {p \in Considered(source, dest) : source[p].kind = "dir"}
  <2>1. plan' = MakePlan(source, dest, options) /\ plan'.dirs = d
    BY <1>1 DEF plan, MakePlan
  <2>2. d \subseteq Paths
    BY <1>1, ConsideredFacts
  <2>3. phase' = "prepare" /\ todo' = d
    BY <1>4 DEF Run, MakePlan
  <2>4. /\ todo' = {} => Current' = {} /\ clear' = {}
        /\ todo' # {} => Current' = {Min(todo')} /\ clear' = ConflictEntries(source, dest, Min(todo'))
    <3>1. todo' = {} => Current' = {} /\ clear' = {}
      BY <1>4, <2>3 DEF Run, MakePlan, Current
    <3>2. todo' # {} => Current' = {Min(todo')} /\ Min(todo') \in Paths
      BY <2>2, <2>3, MinIsFirst DEF Current
    <3>3. todo' # {} => clear' = MakePlan(source, dest, options).clears[Min(d)]
      BY <1>4, <2>3 DEF Run, MakePlan
    <3>4. Min(d) \in Paths => MakePlan(source, dest, options).clears[Min(d)]
                              = ConflictEntries(source, dest, Min(d))
      BY DEF MakePlan
    <3> QED
      BY <2>3, <3>1, <3>2, <3>3, <3>4
  <2> HIDE DEF d
  <2>5. Handled' = {} /\ Taken' = {}
    BY <2>1, <2>3 DEF Handled, Taken
  <2>6. Cleared' = {}
    BY <1>1, <2>4, <2>5 DEF Cleared
  <2>7. \A p \in Paths : dest'[p] = SoFar(p)'
    BY <1>1, <2>5, <2>6 DEF SoFar
  <2>8. clear' \subseteq Paths
    <3>1. \A p : ConflictEntries(source, dest, p) \subseteq Paths
      BY DEF ConflictEntries, Present
    <3> QED
      BY <2>4, <3>1
  <2>9. InOrder'
    <3>1. \A p \in Current' :
             /\ clear' \subseteq ConflictEntries(source', base', p)
             /\ \A y \in ConflictEntries(source', base', p) \ clear', z \in clear' : z < y
      BY <1>1, <2>4
    <3>2. Current' = {} => clear' = {}
      BY <2>4
    <3> QED
      BY <2>1, <2>3, <3>1, <3>2 DEF InOrder
  <2>10. Plannable(source', base', options')
    BY <1>1, <1>4
  <2>11. Progress' /\ RerunIsPossible'
    BY <2>3, <2>7, <2>9, <2>10 DEF Progress, RerunIsPossible
  <2>12. SyncTyped'
    BY <1>1, <1>2, <2>2, <2>3, <2>8 DEF SyncTyped, Phases
  <2> QED
    BY <1>1, <2>11, <2>12 DEF IInv, Mild
<1> QED
  BY <1>3, <1>4

-----------------------------------------------------------------------------
(***************************************************************************)
(* Every behaviour.                                                        *)
(***************************************************************************)
LEMMA InitHolds == Init => IInv
<1> SUFFICES ASSUME Init PROVE IInv
  OBVIOUS
<1>1. source \in Trees /\ dest \in Trees /\ base = dest
  BY SyncTreesAssumption DEF Init, Trees
<1>2. options \in [delete : BOOLEAN, checksum : BOOLEAN] /\ runs \in 0 .. MaxRuns
  BY SyncRunsAssumption DEF Init
<1> QED
  BY <1>1, <1>2 DEF Init, IInv, SyncTyped, Progress, RerunIsPossible, Phases

LEMMA NextKeeps == IInv /\ [Next]_vars => IInv' /\ Mild
<1> SUFFICES ASSUME IInv, [Next]_vars PROVE IInv' /\ Mild
  OBVIOUS
<1>1. CASE Next
  BY <1>1, RunKeeps, ClearConflictKeeps, MakeDirectoryKeeps, StartFilesKeeps, RenameIntoKeeps,
     PreflightKeeps, RemoveExtraKeeps, CompleteKeeps, InterruptKeeps DEF Next
<1>2. CASE UNCHANGED vars
  <2>1. /\ plan' = plan /\ Handled' = Handled /\ Current' = Current /\ Taken' = Taken
        /\ UNCHANGED <<source, options, dest, base, phase, todo, clear, runs>>
    BY <1>2 DEF vars, plan, Handled, Current, Taken
  <2>2. Cleared' = Cleared
    BY <2>1 DEF Cleared
  <2>3. \A p : SoFar(p)' = SoFar(p)
    BY <2>1, <2>2 DEF SoFar
  <2>4. InOrder' = InOrder
    BY <2>1 DEF InOrder
  <2>5. Progress'
    BY <2>1, <2>3, <2>4 DEF IInv, Progress
  <2>6. SyncTyped' /\ RerunIsPossible'
    BY <2>1 DEF IInv, SyncTyped, RerunIsPossible
  <2> QED
    BY <2>1, <2>5, <2>6 DEF IInv, Mild
<1> QED
  BY <1>1, <1>2

\* The inductive invariant: what a run has handled so far, in the order of
\* the code, is all that it changed.
THEOREM SyncInduction == Spec => []IInv
BY InitHolds, NextKeeps, PTL DEF Spec

\* PlanInvariant, the run's property: every operation finds and leaves a
\* directory whose objects lie in directories, and no mkdir, rename, unlink or
\* rmdir of an accepted plan fails (`prepare', `install' and `finish' of
\* sync.rs), for every pair of directories and wherever earlier runs stopped.
THEOREM PlansAreExecutable == Spec => []PlanInvariant
<1>1. IInv => PlanInvariant
  BY DEF IInv, SyncTyped, Phases, Trees, PlanInvariant, TreeOK, PlanIsExecutable
<1> QED
  BY <1>1, SyncInduction, PTL

\* RerunIsPossible, the run's property: a plan that was accepted is accepted
\* again wherever the run was interrupted (README.md:108).
THEOREM RerunsArePossible == Spec => []RerunIsPossible
<1>1. IInv => RerunIsPossible
  BY DEF IInv
<1> QED
  BY <1>1, SyncInduction, PTL

\* OnlyExtrasAreLost, the run's property: protected objects and what is below
\* them stay, and without --delete nothing goes or changes its kind.
THEOREM ExtrasAreAllThatIsLost == Spec => OnlyExtrasAreLost
<1> DEFINE Shielded == \A p \in Paths :
              (\E s \in Shields(source, base) : Below(p, s)) /\ dest[p] # None => dest'[p] = dest[p]
           Kept == ~options.delete => \A p \in Present(dest) : dest'[p].kind = dest[p].kind
<1>1. IInv /\ [Next]_vars => Shielded /\ Kept
  <2> SUFFICES ASSUME IInv, [Next]_vars PROVE Shielded /\ Kept
    OBVIOUS
  <2>1. Mild
    BY NextKeeps
  <2>2. dest \in [Paths -> Objects]
    BY DEF IInv, SyncTyped, Trees
  <2>3. CASE dest' = dest
    BY <2>3
  <2>4. ASSUME NEW x \in Paths, NEW o \in Objects, dest' = [dest EXCEPT ![x] = o],
               dest[x] # None /\ o # dest[x] => \A s \in Shields(source, base) : ~Below(x, s),
               dest[x].kind # "none" /\ ~options.delete => o.kind = dest[x].kind
        PROVE  Shielded /\ Kept
    <3>1. dest'[x] = o /\ \A p \in Paths \ {x} : dest'[p] = dest[p]
      BY <2>2, <2>4
    <3>2. Shielded
      BY <2>4, <3>1
    <3>3. Kept
      BY <2>4, <3>1 DEF Present
    <3> QED
      BY <3>2, <3>3
  <2> QED
    BY <2>1, <2>3, <2>4 DEF Mild
<1> HIDE DEF Shielded, Kept
<1>2. Spec => [][Shielded]_vars /\ [][Kept]_vars
  <2>1. IInv /\ [Next]_vars => [Shielded]_vars /\ [Kept]_vars
    BY <1>1
  <2> QED
    BY <2>1, SyncInduction, PTL DEF Spec
<1> QED
  BY <1>2 DEF Shielded, Kept, OnlyExtrasAreLost, ProtectedStay, NothingLostWithoutDelete

-----------------------------------------------------------------------------
(***************************************************************************)
(* A finished run.                                                         *)
(***************************************************************************)
\* Everything looked at is the source's, or as good; everything else is
\* removed, cleared or as it was scanned.
LEMMA Finished ==
    ASSUME IInv, phase = "done", NEW p \in Paths
    PROVE  /\ p \in Considered(source, base) =>
                 /\ dest[p].kind = source[p].kind
                 /\ dest[p].kind = "file" => SameFile(source[p], dest[p], options)
           /\ p \notin Considered(source, base) =>
                 dest[p] = IF \/ p \in MakePlan(source, base, options).removals
                              \/ \E c \in Clashes(source, base) : p \in Present(base) /\ Below(p, c)
                             THEN None ELSE base[p]
<1>1. /\ Plannable(source, base, options) /\ \A q \in Paths : dest[q] = SoFar(q)
      /\ source \in Trees /\ base \in Trees
      /\ options \in [delete : BOOLEAN, checksum : BOOLEAN]
  BY Underway
<1>2. Handled = plan.dirs \cup plan.files /\ Taken = plan.removals /\ Current = {}
  BY DEF Handled, Taken, Current
<1>3. ASSUME p \in Considered(source, base)
      PROVE  /\ dest[p].kind = source[p].kind
             /\ dest[p].kind = "file" => SameFile(source[p], dest[p], options)
  <2>0. source[p].kind \in {"dir", "file"}
    BY <1>1, <1>3, ConsideredFacts
  <2>1. CASE p \in Handled
    <3>1. dest[p] = source[p]
      BY <2>1, HandledFacts
    <3> QED
      BY <3>1 DEF SameFile
  <2>2. CASE p \notin Handled
    <3>1. source[p].kind = "file" /\ SameFile(source[p], base[p], options)
      BY <1>2, <1>3, <2>0, <2>2, PlanFields
    <3>2. base[p].kind = "file" /\ p \notin Clashes(source, base)
      BY <3>1 DEF SameFile, Clashes
    <3>3. p \notin Cleared
      <4> SUFFICES ASSUME NEW q \in Paths, p \in ConflictEntries(source, base, q) PROVE FALSE
        BY DEF Cleared
      <4> QED
        BY <1>1, <1>3, <3>2, ClearsFacts
    <3>4. p \notin Taken
      BY <1>1, <1>2, <1>3, RemovalFacts, PlanFields
    <3>5. dest[p] = base[p]
      BY <1>1, <2>2, <3>3, <3>4 DEF SoFar
    <3> QED
      BY <3>1, <3>2, <3>5
  <2> QED
    BY <2>1, <2>2
<1>4. ASSUME p \notin Considered(source, base)
      PROVE  dest[p] = IF \/ p \in MakePlan(source, base, options).removals
                          \/ \E c \in Clashes(source, base) : p \in Present(base) /\ Below(p, c)
                         THEN None ELSE base[p]
  <2>1. p \notin Handled
    BY <1>4, HandledFacts
  <2>2. Clashes(source, base) \subseteq Handled
    <3> SUFFICES ASSUME NEW c \in Clashes(source, base) PROVE c \in Handled
      OBVIOUS
    <3>1. c \in Considered(source, base) /\ base[c].kind # source[c].kind
      BY DEF Clashes
    <3>2. source[c].kind \in {"dir", "file"} /\ ~SameFile(source[c], base[c], options)
      BY <1>1, <3>1, ConsideredFacts DEF SameFile
    <3> QED
      BY <1>2, <3>1, <3>2, PlanFields
  <2>3. Clashes(source, base) \subseteq Paths
    BY <1>1, ClashFacts
  <2>4. p \in Cleared <=> \E c \in Clashes(source, base) : p \in Present(base) /\ Below(p, c)
    BY <1>2, <2>2, <2>3 DEF Cleared, ConflictEntries
  <2>5. p \in Taken <=> p \in MakePlan(source, base, options).removals
    BY <1>2, PlanFields
  <2> QED
    BY <1>1, <2>1, <2>4, <2>5 DEF SoFar
<1> QED
  BY <1>3, <1>4

\* A finished run has the source's entries in place, and under --delete
\* nothing else that it may remove.
LEMMA DoneConverges ==
    ASSUME IInv
    PROVE  Converged
<1> SUFFICES ASSUME phase = "done", NEW p \in Paths,
                    \A s \in Shields(source, base) : ~Below(p, s)
             PROVE  CASE source[p].kind = "dir"  -> dest[p].kind = "dir"
                      [] source[p].kind = "file" ->
                           /\ dest[p].kind = "file" /\ dest[p].ver = source[p].ver
                           /\ options.checksum => dest[p].data = source[p].data
                      [] OTHER ->
                           IF options.delete
                             THEN \/ dest[p] = None
                                  \/ \E s \in Shields(source, base) : Below(s, p)
                             ELSE base[p].kind # "none" => dest[p] = base[p]
  BY Zenon DEF Converged
<1>1. /\ Plannable(source, base, options) /\ source \in Trees /\ base \in Trees
      /\ options \in [delete : BOOLEAN, checksum : BOOLEAN]
  BY Underway
<1>2. p \in Considered(source, base) <=> source[p].kind # "none"
  BY DEF Considered, Present
<1>3. CASE source[p].kind \in {"dir", "file"}
  BY <1>2, <1>3, Finished DEF SameFile
<1>4. CASE source[p].kind \notin {"dir", "file"}
  <2>1. source[p].kind = "none"
    <3>1. p \notin Shields(source, base)
      BY BelowOrder
    <3> QED
      BY <1>1, <1>4, <3>1, TreeObjects DEF Shields, ProtectedIn
  <2>2. dest[p] = IF \/ p \in MakePlan(source, base, options).removals
                     \/ \E c \in Clashes(source, base) : p \in Present(base) /\ Below(p, c)
                    THEN None ELSE base[p]
    BY <1>2, <2>1, Finished
  <2>3. CASE options.delete
    <3> SUFFICES ASSUME dest[p] # None, \A s \in Shields(source, base) : ~Below(s, p) PROVE FALSE
      BY <1>4, <2>3
    <3>1. p \in Present(base) /\ p \notin Present(source)
      BY <1>1, <2>1, <2>2, TreeObjects DEF Present
    <3>2. RemovableExtra(source, base, p)
      BY <2>2, <3>1 DEF RemovableExtra
    <3>3. p \in MakePlan(source, base, options).removals
      BY <2>3, <3>1, <3>2 DEF MakePlan
    <3> QED
      BY <2>2, <3>3
  <2>4. CASE ~options.delete
    <3>1. Clashes(source, base) = {}
      BY <1>1, <2>4 DEF Plannable, ClashAllowed
    <3>2. p \notin MakePlan(source, base, options).removals
      BY <2>4 DEF MakePlan
    <3> QED
      BY <1>4, <2>2, <2>4, <3>1, <3>2
  <2> QED
    BY <2>3, <2>4
<1> QED
  BY <1>3, <1>4

\* A run after it has nothing to do.
LEMMA DoneIsIdle ==
    ASSUME IInv
    PROVE  SecondRunIsIdle
<1> SUFFICES ASSUME phase = "done"
             PROVE  Plannable(source, dest, options) /\ Pending(source, dest, options) = {}
  BY DEF SecondRunIsIdle
<1>1. /\ Plannable(source, base, options) /\ source \in Trees /\ base \in Trees /\ dest \in Trees
      /\ options \in [delete : BOOLEAN, checksum : BOOLEAN]
  BY Underway
<1>2. /\ Shields(source, dest) = Shields(source, base)
      /\ Considered(source, dest) = Considered(source, base)
      /\ Considered(source, base) \subseteq Paths
  BY <1>1, ProtectedAreTheSame, ConsideredFacts
<1>3. \A p \in Considered(source, base) :
         /\ dest[p].kind = source[p].kind
         /\ dest[p].kind = "file" => SameFile(source[p], dest[p], options)
  BY <1>2, Finished
<1>4. ASSUME NEW e \in MakePlan(source, dest, options).removals PROVE FALSE
  <2>1. /\ options.delete /\ e \in Present(dest) /\ e \notin Present(source)
        /\ RemovableExtra(source, dest, e) /\ e \in Paths
    BY DEF MakePlan, Present
  <2>2. e \notin Considered(source, base) /\ dest[e].kind # "none" /\ dest[e] # None
    BY <2>1, ObjectKinds DEF Considered, Present
  <2>3. dest[e] = base[e] /\ e \notin MakePlan(source, base, options).removals
        /\ ~\E c \in Clashes(source, base) : e \in Present(base) /\ Below(e, c)
    BY <2>1, <2>2, Finished
  <2>4. e \in Present(base)
    BY <2>1, <2>2, <2>3 DEF Present
  <2>5. RemovableExtra(source, base, e)
    BY <1>2, <2>1, <2>3, <2>4 DEF RemovableExtra
  <2> QED
    BY <2>1, <2>3, <2>4, <2>5 DEF MakePlan
<1>5. MakePlan(source, dest, options).files = {}
  <2>1. MakePlan(source, dest, options).files =
          {p \in Considered(source, dest) :
             source[p].kind = "file" /\ ~SameFile(source[p], dest[p], options)}
    BY DEF MakePlan
  <2> QED
    BY <1>2, <1>3, <2>1
<1>6. {p \in MakePlan(source, dest, options).dirs : dest[p].kind # "dir"} = {}
  <2>1. MakePlan(source, dest, options).dirs =
          {p \in Considered(source, dest) : source[p].kind = "dir"}
    BY DEF MakePlan
  <2> QED
    BY <1>2, <1>3, <2>1
<1>7. Plannable(source, dest, options)
  BY ConflictsOnlyGo
<1> QED
  BY <1>4, <1>5, <1>6, <1>7 DEF Pending

\* RunsConverge, the run's property: a finished run has made the destination
\* the source as far as the options and protected objects allow, and one after
\* it would do nothing (`plan' of sync.rs, in the scan it would start from).
THEOREM RunsAlwaysConverge == Spec => []RunsConverge
<1>1. IInv => RunsConverge
  BY DoneConverges, DoneIsIdle DEF RunsConverge
<1> QED
  BY <1>1, SyncInduction, PTL
=============================================================================
