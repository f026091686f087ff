---------------------------- MODULE CommandProofs ----------------------------
(***************************************************************************)
(* Proofs about what a command does around its attempts.  First its start, *)
(* for any processes, commands and configurations: what a first run makes, *)
(* which rule the permissions of a peer come from, and what a running      *)
(* command can rely on.  Then its retries, for every set of policies: how  *)
(* attempts are counted and how long the pauses between them are.          *)
(***************************************************************************)
EXTENDS Startup, Reconnect, FiniteSetTheorems, WellFoundedInduction, TLAPS

(***************************************************************************)
(* The first matching rule.                                                *)
(***************************************************************************)
\* A set of naturals has a least element; module WellFoundedInduction.
LEMMA LeastExists ==
  ASSUME NEW T, T \subseteq Nat, T # {}
  PROVE \E n \in T : \A m \in T : n <= m
<1> DEFINE R == OpToRel(<, Nat)
<1>1. IsWellFoundedOn(R, Nat)
  BY NatLessThanWellFounded
<1>2. \A x, y \in Nat : <<x, y>> \in R <=> x < y
  BY Zenon DEF OpToRel
<1> HIDE DEF R
<1>3. PICK x \in T : \A y \in T : ~(<<y, x>> \in R)
  BY <1>1, WFMin
<1>4. ASSUME NEW m \in T PROVE x <= m
  <2>1. x \in Nat /\ m \in Nat /\ ~(<<m, x>> \in R)
    BY <1>3
  <2> QED
    BY <1>2, <2>1
<1> QED
  BY <1>4

\* So Min is what its name says.
LEMMA MinIsLeast ==
    ASSUME NEW T, T \subseteq Nat, T # {}
    PROVE  Min(T) \in T /\ \A m \in T : Min(T) <= m
BY LeastExists DEF Min

\* Induction, for a set of naturals.
LEMMA Induction ==
    ASSUME NEW T, 0 \in T, \A n \in Nat : n \in T => n + 1 \in T
    PROVE  Nat \subseteq T
<1> SUFFICES ASSUME Nat \ T # {} PROVE FALSE
  OBVIOUS
<1>1. PICK n \in Nat \ T : \A m \in Nat \ T : n <= m
  BY LeastExists
<1>2. n # 0 /\ n - 1 \in Nat /\ n - 1 \in T
  BY <1>1
<1> QED
  BY <1>1, <1>2

\* The rules up to the k-th that name w, and the grant of the first of them.
Named(c, w, k) == {i \in 1 .. k : RuleAt(c, i).who = w}
Earliest(c, w, k) ==
    IF Named(c, w, k) = {} THEN {} ELSE {RuleAt(c, Min(Named(c, w, k))).grant}

\* Where the loop stands behind the k-th rule: it has looked for others only
\* until it found the peer.
Looked(c, w, k) == IF Named(c, w, k) = {} THEN k ELSE Min(Named(c, w, k))
Seen(c, w, k) ==
    [grant |-> Earliest(c, w, k), fallback |-> Earliest(c, Others, Looked(c, w, k))]

LEMMA NamedGrows ==
    ASSUME NEW c, NEW w, NEW k \in Nat \ {0}
    PROVE  /\ Named(c, w, k) \subseteq Nat
           /\ Named(c, w, k) = Named(c, w, k - 1)
                               \cup (IF RuleAt(c, k).who = w THEN {k} ELSE {})
           /\ \A i \in Named(c, w, k - 1) : i < k
BY DEF Named

\* An earlier rule is not overruled.
LEMMA EarliestGrows ==
    ASSUME NEW c, NEW w, NEW k \in Nat \ {0}
    PROVE  /\ Named(c, w, k - 1) # {} =>
                  /\ Named(c, w, k) # {} /\ Min(Named(c, w, k)) = Min(Named(c, w, k - 1))
                  /\ Earliest(c, w, k) = Earliest(c, w, k - 1) /\ Earliest(c, w, k) # {}
           /\ Named(c, w, k - 1) = {} =>
                  /\ Earliest(c, w, k - 1) = {}
                  /\ RuleAt(c, k).who = w =>
                        /\ Named(c, w, k) = {k} /\ Min(Named(c, w, k)) = k
                        /\ Earliest(c, w, k) = {RuleAt(c, k).grant}
                  /\ RuleAt(c, k).who # w => Named(c, w, k) = {} /\ Earliest(c, w, k) = {}
<1> DEFINE A == Named(c, w, k - 1)
           B == Named(c, w, k)
<1>1. /\ A \subseteq Nat /\ B \subseteq Nat /\ \A i \in A : i < k
      /\ B = A \cup (IF RuleAt(c, k).who = w THEN {k} ELSE {})
  <2>1. A \subseteq Nat
    BY DEF Named
  <2> QED
    BY <2>1, NamedGrows
<1>2. Earliest(c, w, k - 1) = IF A = {} THEN {} ELSE {RuleAt(c, Min(A)).grant}
  BY DEF Earliest
<1>3. Earliest(c, w, k) = IF B = {} THEN {} ELSE {RuleAt(c, Min(B)).grant}
  BY DEF Earliest
<1> HIDE DEF A, B
<1>4. CASE A # {}
  <2>1. Min(A) \in A /\ Min(B) \in B /\ (\A m \in A : Min(A) <= m) /\ \A m \in B : Min(B) <= m
    BY <1>1, <1>4, MinIsLeast
  <2>2. Min(A) \in B /\ Min(A) < k /\ Min(A) \in Nat /\ Min(B) \in Nat
    BY <1>1, <2>1
  <2>3. Min(B) <= Min(A) /\ Min(B) \in A
    BY <1>1, <2>1, <2>2
  <2>4. Min(B) = Min(A)
    BY <2>1, <2>2, <2>3
  <2> QED
    BY <1>2, <1>3, <1>4, <2>1, <2>4 DEF A, B
<1>5. CASE A = {}
  <2>1. CASE RuleAt(c, k).who = w
    <3>1. B = {k}
      BY <1>1, <1>5, <2>1
    <3>2. Min(B) = k
      BY <1>1, <3>1, MinIsLeast
    <3> QED
      BY <1>2, <1>3, <1>5, <2>1, <3>1, <3>2 DEF A, B
  <2>2. CASE RuleAt(c, k).who # w
    BY <1>1, <1>2, <1>3, <1>5, <2>2 DEF A, B
  <2> QED
    BY <2>1, <2>2
<1> QED
  BY <1>4, <1>5

LEMMA EarliestStays ==
    ASSUME NEW c, NEW w, NEW k \in Nat \ {0}, RuleAt(c, k).who # w
    PROVE  Earliest(c, w, k) = Earliest(c, w, k - 1)
<1>1. Named(c, w, k) = Named(c, w, k - 1)
  <2>1. Named(c, w, k) = Named(c, w, k - 1) \cup {}
    BY NamedGrows
  <2> QED
    BY <2>1
<1> QED
  BY <1>1 DEF Earliest

\* One turn of the loop.
LEMMA SeenStep ==
    ASSUME NEW c, NEW w, w # Others, NEW k \in Nat \ {0}
    PROVE  Seen(c, w, k) = AskRule(w, Seen(c, w, k - 1), RuleAt(c, k))
<1> DEFINE r == RuleAt(c, k)
           f == Seen(c, w, k - 1)
<1>1. f.grant = Earliest(c, w, k - 1) /\ f.fallback = Earliest(c, Others, Looked(c, w, k - 1))
  BY DEF Seen
<1>2. f = [grant |-> f.grant, fallback |-> f.fallback]
  BY DEF Seen
<1>3. CASE Named(c, w, k - 1) # {}
  <2>1. f.grant # {} /\ Earliest(c, w, k) = f.grant
    BY <1>1, <1>3, EarliestGrows
  <2>2. Looked(c, w, k) = Looked(c, w, k - 1)
    BY <1>3, EarliestGrows DEF Looked
  <2> QED
    BY <1>1, <1>2, <2>1, <2>2 DEF AskRule, Seen
<1>4. CASE Named(c, w, k - 1) = {}
  <2>1. f.grant = {} /\ Looked(c, w, k - 1) = k - 1
    BY <1>1, <1>4, EarliestGrows DEF Looked
  <2>2. f.fallback = Earliest(c, Others, k - 1)
    BY <1>1, <2>1
  <2>3. Looked(c, w, k) = k
    BY <1>4, EarliestGrows DEF Looked
  <2>4. Seen(c, w, k) = [grant |-> Earliest(c, w, k), fallback |-> Earliest(c, Others, k)]
    BY <2>3 DEF Seen
  <2>9. r.who # Others => Earliest(c, Others, k) = Earliest(c, Others, k - 1)
    BY EarliestStays
  <2> HIDE DEF f, r
  <2>5. CASE r.who = w
    <3>1. Earliest(c, w, k) = {r.grant}
      BY <1>4, <2>5, EarliestGrows DEF r
    <3>2. Earliest(c, Others, k) = f.fallback
      BY <2>2, <2>9, <2>5
    <3>3. AskRule(w, f, r) = [f EXCEPT !.grant = {r.grant}]
      BY <2>1, <2>5 DEF AskRule
    <3> QED
      BY <1>2, <2>4, <3>1, <3>2, <3>3 DEF f, r
  <2>6. CASE r.who = Others
    <3>1. Earliest(c, w, k) = {}
      BY <1>4, <2>6, EarliestGrows DEF r
    <3>2. CASE f.fallback = {}
      <4>1. Named(c, Others, k - 1) = {}
        BY <2>2, <3>2, EarliestGrows
      <4>2. Earliest(c, Others, k) = {r.grant}
        BY <2>6, <4>1, EarliestGrows DEF r
      <4>3. AskRule(w, f, r) = [f EXCEPT !.fallback = {r.grant}]
        BY <2>1, <2>6, <3>2 DEF AskRule
      <4> QED
        BY <1>2, <2>1, <2>4, <3>1, <4>2, <4>3 DEF f, r
    <3>3. CASE f.fallback # {}
      <4>1. Earliest(c, Others, k) = f.fallback
        BY <2>2, <3>3, EarliestGrows
      <4>2. AskRule(w, f, r) = f
        BY <2>1, <2>6, <3>3 DEF AskRule
      <4> QED
        BY <1>2, <2>1, <2>4, <3>1, <4>1, <4>2 DEF f, r
    <3> QED
      BY <3>2, <3>3
  <2>7. CASE r.who # w /\ r.who # Others
    <3>1. Earliest(c, w, k) = {}
      BY <1>4, <2>7, EarliestGrows DEF r
    <3>2. Earliest(c, Others, k) = f.fallback
      BY <2>2, <2>9, <2>7
    <3>3. AskRule(w, f, r) = f
      BY <2>1, <2>7 DEF AskRule
    <3> QED
      BY <1>2, <2>1, <2>4, <3>1, <3>2, <3>3 DEF f, r
  <2> QED
    BY <2>5, <2>6, <2>7
<1> QED
  BY <1>3, <1>4

\* So the recursion of Permission is defined, and is Seen.
LEMMA LoopIsSeen ==
    ASSUME NEW c, NEW w, w # Others
    PROVE  LET After[k \in Nat] == IF k = 0 THEN [grant |-> {}, fallback |-> {}]
                                   ELSE AskRule(w, After[k - 1], RuleAt(c, k))
           IN  \A k \in Nat : After[k] = Seen(c, w, k)
<1> DEFINE None0 == [grant |-> {}, fallback |-> {}]
           Is(f) == f = [k \in Nat |-> IF k = 0 THEN None0
                                       ELSE AskRule(w, f[k - 1], RuleAt(c, k))]
           h == [k \in Nat |-> Seen(c, w, k)]
           F == CHOOSE f : Is(f)
<1>1. Seen(c, w, 0) = None0
  BY DEF Seen, Earliest, Looked, Named
<1>2. ASSUME NEW k \in Nat
      PROVE  Seen(c, w, k) = IF k = 0 THEN None0 ELSE AskRule(w, h[k - 1], RuleAt(c, k))
  <2> HIDE DEF None0
  <2>1. CASE k = 0
    BY <1>1, <2>1
  <2>2. CASE k # 0
    <3>1. k \in Nat \ {0} /\ k - 1 \in Nat
      BY <2>2
    <3>2. h[k - 1] = Seen(c, w, k - 1)
      BY <3>1
    <3> QED
      BY <2>2, <3>1, <3>2, SeenStep
  <2> QED
    BY <2>1, <2>2
<1>3. Is(h)
  <2>1. h = [k \in Nat |-> Seen(c, w, k)]
    OBVIOUS
  <2> HIDE DEF h, None0
  <2> QED
    BY <1>2, <2>1
<1>4. Is(F)
  <2> HIDE DEF Is, h
  <2> QED
    BY <1>3
<1>5. \A k \in Nat : F[k] = IF k = 0 THEN None0 ELSE AskRule(w, F[k - 1], RuleAt(c, k))
  <2> HIDE DEF F, None0
  <2> QED
    BY <1>4
<1> DEFINE T == {k \in Nat : F[k] = Seen(c, w, k)}
<1>6. 0 \in T
  <2> HIDE DEF F, None0
  <2> QED
    BY <1>1, <1>5
<1>7. ASSUME NEW k \in Nat, k \in T PROVE k + 1 \in T
  <2> HIDE DEF F, None0
  <2>1. k + 1 \in Nat \ {0} /\ (k + 1) - 1 = k
    OBVIOUS
  <2>2. F[k + 1] = AskRule(w, F[(k + 1) - 1], RuleAt(c, k + 1))
    BY <1>5, <2>1
  <2>3. Seen(c, w, k + 1) = AskRule(w, Seen(c, w, (k + 1) - 1), RuleAt(c, k + 1))
    BY <2>1, SeenStep
  <2> QED
    BY <1>7, <2>1, <2>2, <2>3
<1>8. Nat \subseteq T
  <2> HIDE DEF T
  <2> QED
    BY <1>6, <1>7, Induction
<1>9. \A k \in Nat : F[k] = Seen(c, w, k)
  BY <1>8
<1> QED
  BY <1>9

\* The permission of a peer: its first rule, else the first for others, else
\* none.
LEMMA PermissionIsFirst ==
    ASSUME NEW c, NEW w, w # Others, NEW n \in Nat, Len(c.permits) = n,
           \A k \in 1 .. n : RuleAt(c, k).grant \in {Full, Read, Deny}
    PROVE  Permission(c, w) =
             IF Named(c, w, n) # {} THEN RuleAt(c, Min(Named(c, w, n))).grant
             ELSE IF Named(c, Others, n) # {} THEN RuleAt(c, Min(Named(c, Others, n))).grant
             ELSE Deny
<1> DEFINE After[k \in Nat] == IF k = 0 THEN [grant |-> {}, fallback |-> {}]
                               ELSE AskRule(w, After[k - 1], RuleAt(c, k))
           found == After[Len(c.permits)]
<1>1. Permission(c, w) = CHOOSE g \in {Full, Read, Deny} :
            {g} = IF found.grant # {} THEN found.grant
                  ELSE IF found.fallback # {} THEN found.fallback ELSE {Deny}
  BY DEF Permission
<1>2. found = Seen(c, w, n)
  BY LoopIsSeen
<1> HIDE DEF found
<1>3. found.grant = Earliest(c, w, n) /\ found.fallback = Earliest(c, Others, Looked(c, w, n))
  BY <1>2 DEF Seen
<1>4. \A v : Named(c, v, n) # {} => Min(Named(c, v, n)) \in 1 .. n
  <2> SUFFICES ASSUME NEW v, Named(c, v, n) # {} PROVE Min(Named(c, v, n)) \in Named(c, v, n)
    BY DEF Named
  <2>1. Named(c, v, n) \subseteq Nat
    BY DEF Named
  <2> QED
    BY <2>1, MinIsLeast
<1>5. ASSUME NEW g \in {Full, Read, Deny}
      PROVE  (CHOOSE x \in {Full, Read, Deny} : {x} = {g}) = g
  OBVIOUS
<1>6. CASE Named(c, w, n) # {}
  <2>1. found.grant = {RuleAt(c, Min(Named(c, w, n))).grant}
    BY <1>3, <1>6 DEF Earliest
  <2> QED
    BY <1>1, <1>4, <1>5, <1>6, <2>1
<1>7. CASE Named(c, w, n) = {}
  <2>1. found.grant = {} /\ found.fallback = Earliest(c, Others, n)
    BY <1>3, <1>7 DEF Earliest, Looked
  <2>2. CASE Named(c, Others, n) # {}
    <3>1. found.fallback = {RuleAt(c, Min(Named(c, Others, n))).grant}
      BY <2>1, <2>2 DEF Earliest
    <3> QED
      BY <1>1, <1>4, <1>5, <1>7, <2>1, <2>2, <3>1
  <2>3. CASE Named(c, Others, n) = {}
    <3>1. found.fallback = {}
      BY <2>1, <2>3 DEF Earliest
    <3> QED
      BY <1>1, <1>5, <1>7, <2>1, <2>3, <3>1
  <2> QED
    BY <2>2, <2>3
<1> QED
  BY <1>6, <1>7

\* What GrantsFirstMatch says of a configuration that was accepted.
LEMMA ValidGrantsFirst ==
    ASSUME NEW c, ValidConfig(c), NEW n \in Nat, Len(c.permits) = n,
           DOMAIN c.permits = 1 .. n, NEW q \in Peers
    PROVE  LET For(w) == {k \in DOMAIN c.permits : \E r \in c.permits[k] : r.who = w}
               Granted(k, g) == c.permits[k] \in {Rule(w, g) : w \in Peers \cup {Others}}
               g == Permission(c, q)
           IN  IF For(q) # {} THEN Granted(Min(For(q)), g)
               ELSE IF For(Others) # {} THEN Granted(Min(For(Others)), g) ELSE g = Deny
<1> DEFINE For(w) == {k \in DOMAIN c.permits : \E r \in c.permits[k] : r.who = w}
           Granted(k, g) == c.permits[k] \in {Rule(w, g) : w \in Peers \cup {Others}}
           g == Permission(c, q)
<1>1. ASSUME NEW k \in 1 .. n
      PROVE  /\ c.permits[k] = {RuleAt(c, k)} /\ RuleAt(c, k).grant \in {Full, Read, Deny}
             /\ Granted(k, RuleAt(c, k).grant)
  <2>1. PICK w \in Peers \cup {Others}, x \in {Full, Read, Deny} : c.permits[k] = Rule(w, x)
    BY DEF ValidConfig
  <2>2. RuleAt(c, k) = [who |-> w, grant |-> x]
    BY <2>1 DEF RuleAt, Rule
  <2>3. RuleAt(c, k).grant = x /\ c.permits[k] = {RuleAt(c, k)}
    BY <2>1, <2>2 DEF Rule
  <2> QED
    BY <2>1, <2>3
<1>2. \A w : For(w) = Named(c, w, n)
  BY <1>1 DEF Named
<1>3. g = IF Named(c, q, n) # {} THEN RuleAt(c, Min(Named(c, q, n))).grant
          ELSE IF Named(c, Others, n) # {} THEN RuleAt(c, Min(Named(c, Others, n))).grant
          ELSE Deny
  <2>1. q # Others
    BY StartupConfigs DEF Others
  <2> QED
    BY <1>1, <2>1, PermissionIsFirst
<1>4. \A w : Named(c, w, n) # {} => Min(Named(c, w, n)) \in 1 .. n
  <2> SUFFICES ASSUME NEW w, Named(c, w, n) # {} PROVE Min(Named(c, w, n)) \in Named(c, w, n)
    BY DEF Named
  <2>1. Named(c, w, n) \subseteq Nat
    BY DEF Named
  <2> QED
    BY <2>1, MinIsLeast
<1> HIDE DEF g, For, Granted
<1>5. IF For(q) # {} THEN Granted(Min(For(q)), g)
      ELSE IF For(Others) # {} THEN Granted(Min(For(Others)), g) ELSE g = Deny
  BY <1>1, <1>2, <1>3, <1>4
<1> QED
  BY <1>5 DEF For, Granted, g

(***************************************************************************)
(* The processes.                                                          *)
(***************************************************************************)
ConfigFiles == Configs \cup {NoConfig, MinimalConfig}
Places == {"idle", "load", "persist", "read", "find", "open", "make", "check", "running",
           "failed"}
Process ==
    [pc : Places, command : Commands \cup {Idle.command}, config : ConfigFiles,
     identity : Nat, asked : 0 .. 2]
Asking == {"find", "open", "make"}

\* What a process has seen to, by where it stands.
Prepared(r) ==
    /\ r.pc \notin {"idle", "failed"} => r.command \in Commands
    /\ r.pc = "persist" => Initializes(r.command)
    /\ r.pc = "make" => ~r.command.dryRun
    /\ r.pc \in Asking \cup {"check", "running"} =>
          r.config \in Configs \cup {MinimalConfig} /\ ValidConfig(r.config)
    /\ r.pc \in Asking => r.asked \in {0, 1}
    /\ r.pc \notin Asking \cup {"check", "running"} => r.asked = 0
    /\ r.pc = "running"
       /\ (r.command.kind = "serve" \/ (r.command.kind = "client" /\ r.config.protocol = 2))
       => \A x \in r.config.resume : ~Overlaps(CachePath(x), r.command.tree)

\* Processes that found no identity and are about to make one.
Makers == {p \in Procs : proc[p].pc = "make"}

\* The inductive invariant.
IInv ==
    /\ config \in ConfigFiles /\ made \in Nat /\ identity \in 0 .. made
    /\ identity = 0 => made = 0
    /\ proc \in [Procs -> Process]
    /\ \A p \in Procs : Prepared(proc[p]) /\ proc[p].identity <= made
    /\ made + Cardinality(Makers) <= Cardinality(Procs)

LEMMA IdleIsPrepared ==
    /\ Idle \in Process /\ Prepared(Idle) /\ Idle.identity = 0 /\ Idle.pc = "idle"
    /\ Idle.asked = 0
    /\ [Idle EXCEPT !.pc = "failed"] \in Process /\ Prepared([Idle EXCEPT !.pc = "failed"])
    /\ [Idle EXCEPT !.pc = "failed"].identity = 0
    /\ [Idle EXCEPT !.pc = "failed"].pc = "failed"
<1> DEFINE c == CHOOSE x \in Commands : TRUE
           u == [Idle EXCEPT !.pc = "failed"]
<1>1. Idle = [pc |-> "idle", command |-> c, config |-> NoConfig, identity |-> 0, asked |-> 0]
  BY DEF Idle
<1> HIDE DEF c
<1>2. /\ Idle.command = c /\ Idle.pc = "idle" /\ Idle.identity = 0 /\ Idle.asked = 0
      /\ Idle.config = NoConfig
  BY <1>1
<1>3. u = [pc |-> "failed", command |-> c, config |-> NoConfig, identity |-> 0, asked |-> 0]
  BY <1>1
<1> HIDE DEF u
<1>4. u.pc = "failed" /\ u.identity = 0 /\ u.asked = 0
  BY <1>3
<1>5. Idle \in Process /\ u \in Process
  BY <1>1, <1>2, <1>3 DEF Process, Places, ConfigFiles
<1>6. Prepared(Idle) /\ Prepared(u)
  BY <1>2, <1>4 DEF Prepared, Asking
<1> QED
  BY <1>2, <1>4, <1>5, <1>6 DEF u

LEMMA InitHolds == Init => IInv
<1> SUFFICES ASSUME Init PROVE IInv
  OBVIOUS
<1>1. /\ config \in ConfigFiles /\ made \in Nat /\ identity \in 0 .. made
      /\ identity = 0 => made = 0
      /\ proc \in [Procs -> Process]
      /\ \A p \in Procs : Prepared(proc[p]) /\ proc[p].identity <= made
  BY IdleIsPrepared DEF Init, ConfigFiles
<1>2. Makers = {} /\ made = 0
  BY IdleIsPrepared DEF Makers, Init
<1> QED
  BY <1>1, <1>2, FS_EmptySet, FS_CardinalityType, StartupActors DEF IInv

\* One process moves on, without making a key: it joins the makers only
\* where there is no identity.
LEMMA OneMoves ==
    ASSUME IInv, NEW p \in Procs, NEW r \in Process, proc' = [proc EXCEPT ![p] = r],
           Prepared(r), r.identity <= made, r.pc = "make" => identity = 0 \/ proc[p].pc = "make",
           config' \in ConfigFiles, UNCHANGED <<identity, made>>
    PROVE  IInv'
<1>1. /\ proc' \in [Procs -> Process]
      /\ \A q \in Procs : Prepared(proc'[q]) /\ proc'[q].identity <= made
  BY DEF IInv
<1>2. made + Cardinality(Makers') <= Cardinality(Procs)
  <2>1. IsFiniteSet(Procs) /\ IsFiniteSet(Makers) /\ Makers \subseteq Procs /\ Makers' \subseteq Procs
    BY StartupActors, FS_Subset DEF Makers
  <2>2. /\ Cardinality(Makers') <= Cardinality(Procs) /\ Cardinality(Makers') \in Nat
        /\ Cardinality(Makers) \in Nat /\ Cardinality(Procs) \in Nat
    BY <2>1, FS_Subset, FS_CardinalityType
  <2>3. CASE r.pc = "make" /\ identity = 0
    BY <2>2, <2>3 DEF IInv
  <2>4. CASE ~(r.pc = "make" /\ identity = 0)
    <3>1. Makers' \subseteq Makers
      BY <2>4 DEF Makers, IInv
    <3>2. Cardinality(Makers') <= Cardinality(Makers)
      BY <2>1, <3>1, FS_Subset
    <3> QED
      BY <2>2, <3>2 DEF IInv
  <2> QED
    BY <2>3, <2>4
<1> QED
  BY <1>1, <1>2 DEF IInv

\* A process that fails, ends or is killed forgets everything.
LEMMA EndsKeep ==
    ASSUME IInv, NEW p \in Procs,
           Goes(p, "failed") \/ proc' = [proc EXCEPT ![p] = Idle],
           config' \in ConfigFiles, UNCHANGED <<identity, made>>
    PROVE  IInv'
<1>1. PICK r \in {Idle, [Idle EXCEPT !.pc = "failed"]} : proc' = [proc EXCEPT ![p] = r]
  BY DEF Goes
<1>2. r \in Process /\ Prepared(r) /\ r.identity = 0 /\ r.pc # "make"
  BY IdleIsPrepared
<1>3. r.identity <= made
  BY <1>2 DEF IInv
<1> QED
  BY <1>1, <1>2, <1>3, OneMoves

\* One that goes on keeps what it has read.
LEMMA GoesKeeps ==
    ASSUME IInv, NEW p \in Procs, NEW to \in Places \ {"failed"}, Goes(p, to),
           Prepared([proc[p] EXCEPT !.pc = to]), to = "make" => identity = 0,
           config' \in ConfigFiles, UNCHANGED <<identity, made>>
    PROVE  IInv'
<1> DEFINE r == [proc[p] EXCEPT !.pc = to]
<1>1. proc[p] \in Process /\ proc[p].identity <= made
  BY DEF IInv
<1>2. r \in Process /\ r.identity = proc[p].identity /\ r.pc = to
  BY <1>1 DEF Process
<1>3. proc' = [proc EXCEPT ![p] = r]
  BY DEF Goes
<1> HIDE DEF r
<1>4. Prepared(r)
  BY DEF r
<1> QED
  BY <1>1, <1>2, <1>3, <1>4, OneMoves

\* The fields a step of `Goes' leaves.
LEMMA GoesFields ==
    ASSUME NEW r \in Process, NEW to \in Places
    PROVE  LET u == [r EXCEPT !.pc = to] IN
           /\ u.pc = to /\ u.command = r.command /\ u.config = r.config
           /\ u.identity = r.identity /\ u.asked = r.asked
BY DEF Process

LEMMA StartsKeep ==
    ASSUME IInv, NEW p \in Procs, NEW c \in Commands, Command(p, c)
    PROVE  IInv'
<1> DEFINE r == [Idle EXCEPT !.pc = "load", !.command = c]
<1>1. r \in Process /\ r.identity = 0 /\ r.pc = "load" /\ r.asked = 0 /\ r.command = c
  BY IdleIsPrepared DEF Process, Places
<1>2. proc' = [proc EXCEPT ![p] = r] /\ UNCHANGED <<config, identity, made>>
  BY DEF Command
<1> HIDE DEF r
<1>3. Prepared(r)
  BY <1>1 DEF Prepared, Asking
<1>4. r.identity <= made /\ config' \in ConfigFiles
  BY <1>1, <1>2 DEF IInv
<1> QED
  BY <1>1, <1>2, <1>3, <1>4, OneMoves

LEMMA LoadingKeeps ==
    ASSUME IInv, NEW p \in Procs, FindConfig(p) \/ PersistConfig(p) \/ ReadConfig(p)
    PROVE  IInv'
<1>1. proc[p] \in Process /\ Prepared(proc[p]) /\ config \in ConfigFiles
      /\ proc[p].identity <= made
  BY DEF IInv
<1>2. CASE FindConfig(p)
  <2>1. PICK to \in {"persist", "read"} :
          Goes(p, to) /\ (to = "persist" => Initializes(proc[p].command))
    BY <1>2 DEF FindConfig
  <2>2. Prepared([proc[p] EXCEPT !.pc = to])
    BY <1>1, <1>2, <2>1, GoesFields DEF Prepared, Asking, FindConfig, Places
  <2> QED
    BY <1>1, <1>2, <2>1, <2>2, GoesKeeps DEF FindConfig, Places
<1>3. CASE PersistConfig(p)
  <2>1. Prepared([proc[p] EXCEPT !.pc = "read"])
    BY <1>1, <1>3, GoesFields DEF Prepared, Asking, PersistConfig, Places
  <2>2. config' \in ConfigFiles
    BY <1>1, <1>3 DEF PersistConfig, ConfigFiles
  <2> QED
    BY <1>3, <2>1, <2>2, GoesKeeps DEF PersistConfig, Places
<1>4. CASE ReadConfig(p) /\ config # NoConfig /\ ValidConfig(config)
  <2> DEFINE r == [proc[p] EXCEPT !.pc = "find", !.config = config]
  <2>1. /\ r \in Process /\ r.pc = "find" /\ r.config = config /\ r.command = proc[p].command
        /\ r.asked = proc[p].asked /\ r.identity = proc[p].identity
    BY <1>1 DEF Process, Places
  <2>2. proc[p].pc = "read" /\ proc' = [proc EXCEPT ![p] = r] /\ UNCHANGED <<config, identity, made>>
    BY <1>4 DEF ReadConfig
  <2> HIDE DEF r
  <2>3. Prepared(r)
    BY <1>1, <1>4, <2>1, <2>2 DEF Prepared, Asking, ConfigFiles
  <2> QED
    BY <1>1, <2>1, <2>2, <2>3, OneMoves
<1>5. CASE ReadConfig(p) /\ ~(config # NoConfig /\ ValidConfig(config))
  BY <1>1, <1>5, EndsKeep DEF ReadConfig
<1> QED
  BY <1>2, <1>3, <1>4, <1>5

\* The answer to a question for the identity.
LEMMA AskedRecord ==
    ASSUME NEW r \in Process, Prepared(r), r.pc \in Asking, NEW key \in Nat
    PROVE  LET u == [r EXCEPT !.identity = key, !.asked = @ + 1,
                              !.pc = IF r.asked = 0 THEN "find" ELSE "check"]
           IN  u \in Process /\ Prepared(u) /\ u.identity = key /\ u.pc \in {"find", "check"}
<1> DEFINE n == r.asked + 1
           at == IF r.asked = 0 THEN "find" ELSE "check"
           u == [r EXCEPT !.identity = key, !.asked = n, !.pc = at]
<1>1. r.asked \in {0, 1} /\ r.command \in Commands /\ ValidConfig(r.config)
      /\ r.config \in Configs \cup {MinimalConfig}
  BY DEF Prepared, Asking
<1>2. /\ u \in Process /\ u.identity = key /\ u.asked = n /\ u.pc = at
      /\ u.command = r.command /\ u.config = r.config
  <2>1. n \in 0 .. 2 /\ at \in Places
    BY <1>1 DEF Places
  <2> HIDE DEF n, at
  <2> QED
    BY <1>1, <2>1 DEF Process
<1> HIDE DEF u
<1>3. Prepared(u) /\ u.pc \in {"find", "check"}
  BY <1>1, <1>2 DEF Prepared, Asking
<1> QED
  BY <1>1, <1>2, <1>3 DEF u

LEMMA IdentityKeeps ==
    ASSUME IInv, NEW p \in Procs, FindIdentity(p) \/ OpenIdentity(p)
    PROVE  IInv'
<1>1. proc[p] \in Process /\ Prepared(proc[p]) /\ config \in ConfigFiles
      /\ identity \in Nat /\ identity <= made
  BY DEF IInv
<1>2. CASE FindIdentity(p) /\ Goes(p, "failed")
  BY <1>1, <1>2, EndsKeep DEF FindIdentity
<1>3. CASE FindIdentity(p) /\ ~Goes(p, "failed")
  <2>1. PICK to \in {"open", "make"} :
          Goes(p, to) /\ (to = "make" => identity = 0 /\ ~proc[p].command.dryRun)
    BY <1>3 DEF FindIdentity
  <2>2. Prepared([proc[p] EXCEPT !.pc = to])
    BY <1>1, <1>3, <2>1, GoesFields DEF Prepared, Asking, FindIdentity, Places
  <2> QED
    BY <1>1, <1>3, <2>1, <2>2, GoesKeeps DEF FindIdentity, Places
<1>4. CASE OpenIdentity(p)
  <2> DEFINE r == [proc[p] EXCEPT !.identity = identity, !.asked = @ + 1,
                                  !.pc = IF proc[p].asked = 0 THEN "find" ELSE "check"]
  <2>1. proc' = [proc EXCEPT ![p] = r] /\ proc[p].pc = "open" /\ UNCHANGED <<config, identity, made>>
    BY <1>1, <1>4 DEF OpenIdentity, Asked, IInv
  <2>2. r \in Process /\ Prepared(r) /\ r.identity = identity /\ r.pc \in {"find", "check"}
    BY <1>1, <2>1, AskedRecord DEF Asking
  <2> HIDE DEF r
  <2> QED
    BY <1>1, <2>1, <2>2, OneMoves
<1> QED
  BY <1>2, <1>3, <1>4

\* A maker makes one key and is a maker no more.
LEMMA MakingKeeps ==
    ASSUME IInv, NEW p \in Procs, MakeIdentity(p)
    PROVE  IInv'
<1>1. proc[p] \in Process /\ Prepared(proc[p]) /\ made \in Nat /\ proc[p].pc = "make"
  BY DEF IInv, MakeIdentity
<1> DEFINE r == [proc[p] EXCEPT !.identity = made + 1, !.asked = @ + 1,
                                !.pc = IF proc[p].asked = 0 THEN "find" ELSE "check"]
<1>2. /\ proc' = [proc EXCEPT ![p] = r]
      /\ made' = made + 1 /\ identity' = made + 1 /\ config' = config
  BY DEF MakeIdentity, Asked, IInv
<1>3. r \in Process /\ Prepared(r) /\ r.identity = made + 1 /\ r.pc \in {"find", "check"}
  <2>1. made + 1 \in Nat /\ proc[p].pc \in Asking
    BY <1>1 DEF Asking
  <2> QED
    BY <1>1, <2>1, AskedRecord
<1> HIDE DEF r
<1>4. /\ proc' \in [Procs -> Process]
      /\ \A q \in Procs : Prepared(proc'[q]) /\ proc'[q].identity <= made + 1
  BY <1>1, <1>2, <1>3 DEF IInv, Process
<1>5. Makers' = Makers \ {p} /\ p \in Makers
  BY <1>1, <1>2, <1>3 DEF Makers, IInv
<1>6. IsFiniteSet(Makers) /\ Cardinality(Makers') = Cardinality(Makers) - 1
  <2>1. IsFiniteSet(Makers)
    BY StartupActors, FS_Subset DEF Makers
  <2> QED
    BY <1>5, <2>1, FS_RemoveElement
<1>7. made' + Cardinality(Makers') <= Cardinality(Procs)
  <2>1. Cardinality(Makers) \in Nat /\ Cardinality(Procs) \in Nat
    BY <1>6, StartupActors, FS_CardinalityType
  <2> QED
    BY <1>1, <1>2, <1>6, <2>1 DEF IInv
<1> QED
  BY <1>1, <1>2, <1>4, <1>7 DEF IInv

LEMMA CheckKeeps ==
    ASSUME IInv, NEW p \in Procs, CheckCache(p)
    PROVE  IInv'
<1>1. proc[p] \in Process /\ Prepared(proc[p]) /\ config \in ConfigFiles /\ proc[p].pc = "check"
  BY DEF IInv, CheckCache
<1> DEFINE clash == UsesCache(p) /\ \E x \in proc[p].config.resume :
                                      Overlaps(CachePath(x), proc[p].command.tree)
<1>2. CASE clash
  BY <1>1, <1>2, EndsKeep DEF CheckCache
<1>3. CASE ~clash
  <2>1. Goes(p, "running") /\ UNCHANGED <<config, identity, made>>
    BY <1>3 DEF CheckCache
  <2>2. UsesCache(p) => \A x \in proc[p].config.resume :
                           ~Overlaps(CachePath(x), proc[p].command.tree)
    BY <1>3
  <2>3. Prepared([proc[p] EXCEPT !.pc = "running"])
    BY <1>1, <2>2, GoesFields DEF Prepared, Asking, Places, UsesCache
  <2> QED
    BY <1>1, <2>1, <2>3, GoesKeeps DEF Places
<1> QED
  BY <1>2, <1>3

LEMMA NextKeeps == IInv /\ [Next]_vars => IInv'
<1> SUFFICES ASSUME IInv, [Next]_vars PROVE IInv'
  OBVIOUS
<1>1. ASSUME NEW p \in Procs, Step(p) PROVE IInv'
  BY <1>1, LoadingKeeps, IdentityKeeps, MakingKeeps, CheckKeeps DEF Step
<1>2. ASSUME NEW p \in Procs, Exit(p) PROVE IInv'
  BY <1>2, EndsKeep DEF Exit, IInv
<1>3. ASSUME NEW p \in Procs, NEW c \in Commands, Command(p, c) PROVE IInv'
  BY <1>3, StartsKeep
<1>4. CASE EditConfig
  BY <1>4 DEF EditConfig, IInv, ConfigFiles, Makers
<1>5. CASE UNCHANGED vars
  BY <1>5 DEF vars, IInv, Makers
<1> QED
  BY <1>1, <1>2, <1>3, <1>4, <1>5 DEF Next

\* The inductive invariant: what each process has seen to, and that at most
\* every process makes one key.
THEOREM StartupInduction == Spec => []IInv
BY InitHolds, NextKeeps, PTL DEF Spec

\* StartupInvariant, the run's property: no process makes more than one key
\* (`identity' of transport.rs; two that start together make two), and a
\* running command grants each peer its first rule and, in version 2, has a
\* usable cache.
THEOREM StartupIsOrderly == Spec => []StartupInvariant
<1>1. IInv => StartupInvariant
  <2> SUFFICES ASSUME IInv PROVE StartupInvariant
    OBVIOUS
  <2>1. StartupTypeOK
    <3>1. made <= Cardinality(Procs)
      <4>1. IsFiniteSet(Makers) /\ IsFiniteSet(Procs)
        BY StartupActors, FS_Subset DEF Makers
      <4>2. Cardinality(Makers) \in Nat /\ Cardinality(Procs) \in Nat
        BY <4>1, FS_CardinalityType
      <4> QED
        BY <4>2 DEF IInv
    <3>2. ASSUME NEW p \in Procs
          PROVE  /\ proc[p].pc \in Places /\ proc[p].config \in ConfigFiles
                 /\ proc[p].identity \in 0 .. made /\ proc[p].asked \in 0 .. 2
      BY DEF IInv, Process
    <3> QED
      BY <3>1, <3>2 DEF IInv, StartupTypeOK, ConfigFiles, Places
  <2>2. ASSUME NEW p \in Procs, Running(p)
        PROVE  /\ Prepared(proc[p]) /\ proc[p].pc = "running"
               /\ proc[p].config \in Configs \cup {MinimalConfig} /\ ValidConfig(proc[p].config)
               /\ proc[p].command.kind \in {"identity", "serve", "client"}
    <3>1. Prepared(proc[p]) /\ proc[p].pc = "running"
      BY <2>2 DEF IInv, Running
    <3> QED
      BY <3>1, StartupActors DEF Prepared
  <2>3. GrantsFirstMatch
    <3> SUFFICES ASSUME NEW p \in Procs, Running(p), NEW q \in Peers
                 PROVE  LET c == proc[p].config
                            For(w) == {k \in DOMAIN c.permits : \E r \in c.permits[k] : r.who = w}
                            Granted(k, g) == c.permits[k] \in {Rule(w, g) : w \in Peers \cup {Others}}
                            g == Permission(c, q)
                        IN  IF For(q) # {} THEN Granted(Min(For(q)), g)
                            ELSE IF For(Others) # {} THEN Granted(Min(For(Others)), g)
                            ELSE g = Deny
      BY Zenon DEF GrantsFirstMatch
    <3>1. /\ proc[p].config \in Configs \cup {MinimalConfig} /\ ValidConfig(proc[p].config)
      BY <2>2
    <3>2. Len(proc[p].config.permits) \in Nat
          /\ DOMAIN proc[p].config.permits = 1 .. Len(proc[p].config.permits)
      <4>1. MinimalConfig.permits = <<Rule(Others, Deny)>>
        BY DEF MinimalConfig, Default
      <4> QED
        BY <3>1, <4>1, StartupConfigs
    <3> QED
      BY <3>1, <3>2, ValidGrantsFirst
  <2>4. Version2HasACache
    <3> SUFFICES ASSUME NEW p \in Procs, Running(p), proc[p].config.protocol = 2
                 PROVE  /\ proc[p].config.resume # {}
                        /\ proc[p].command.kind # "identity" =>
                              \A r \in proc[p].config.resume :
                                  /\ ~IsPrefix(CachePath(r), proc[p].command.tree)
                                  /\ ~IsPrefix(proc[p].command.tree, CachePath(r))
                                  /\ r.bytes > 0 /\ r.transfers > 0
      BY DEF Version2HasACache
    <3>1. proc[p].config.resume # {}
      BY <2>2 DEF ValidConfig, ProtocolIsUsable
    <3>2. \A r \in proc[p].config.resume : r.bytes > 0 /\ r.transfers > 0
      BY <2>2, StartupNumbers DEF ValidConfig
    <3>3. proc[p].command.kind # "identity" =>
            \A r \in proc[p].config.resume : ~Overlaps(CachePath(r), proc[p].command.tree)
      BY <2>2 DEF Prepared
    <3> QED
      BY <3>1, <3>2, <3>3 DEF Overlaps
  <2> QED
    BY <2>1, <2>3, <2>4 DEF StartupInvariant
<1> QED
  BY <1>1, StartupInduction, PTL

\* OnlyMissingIsMade, the run's property: a configuration is made only for
\* the implicit directory and where there is none (README.md:13), and a dry
\* run makes nothing (README.md:15).
THEOREM MissingIsMade == Spec => OnlyMissingIsMade
<1> DEFINE Config == \A p \in Procs : Step(p) /\ config' # config =>
                        config = NoConfig /\ config' = MinimalConfig /\ proc[p].command.implicit
           DryRun == \A p \in Procs : Step(p) /\ proc[p].command.dryRun => UNCHANGED files
<1>1. IInv => Config /\ DryRun
  <2> SUFFICES ASSUME IInv, NEW p \in Procs, Step(p)
               PROVE  /\ config' # config =>
                           config = NoConfig /\ config' = MinimalConfig /\ proc[p].command.implicit
                      /\ proc[p].command.dryRun => UNCHANGED files
    BY Zenon
  <2>1. Prepared(proc[p])
    BY DEF IInv
  <2>2. CASE PersistConfig(p)
    BY <2>1, <2>2 DEF PersistConfig, Prepared, Initializes, files
  <2>3. CASE MakeIdentity(p)
    BY <2>1, <2>3 DEF MakeIdentity, Prepared, files
  <2>4. CASE ~PersistConfig(p) /\ ~MakeIdentity(p)
    BY <2>4 DEF Step, FindConfig, ReadConfig, FindIdentity, OpenIdentity, CheckCache, files
  <2> QED
    BY <2>2, <2>3, <2>4
<1> HIDE DEF Config, DryRun
<1>2. IInv /\ [Next]_vars => [Config]_vars /\ [DryRun]_vars
  BY <1>1
<1>3. Spec => [][Config]_vars /\ [][DryRun]_vars
  BY <1>2, StartupInduction, PTL DEF Spec
<1> QED
  BY <1>3 DEF Config, DryRun, OnlyMissingIsMade, OnlyMissingConfigIsMade, DryRunMakesNothing

(***************************************************************************)
(* The retry loop.  It runs from 0 to `attempts' inclusive and retries     *)
(* while the number is smaller, so the last iteration always returns.      *)
(***************************************************************************)
\* A pause is only entered with an attempt left, and an attempt is never
\* one too many; a retryable error is only reported by the last one.
Counted ==
    /\ policy \in Policy /\ number \in Nat
    /\ pc = "pause" => number < policy.attempts
    /\ pc = "attempt" => number <= policy.attempts
    /\ pc \in {"connection", "busy"} => number = policy.attempts
    /\ pc # "unreachable"

\* The first attempt is number 0, and a policy that is refused runs none.
LEMMA InitCounted == RetryInit => Counted
<1> SUFFICES ASSUME RetryInit PROVE Counted
  OBVIOUS
<1>1. policy \in Policy /\ number = 0 /\ policy.attempts \in Nat
  BY PoliciesAssumption DEF RetryInit, Policy
<1>2. pc \in {"attempt", "invalid"}
  BY DEF RetryInit
<1> QED
  BY <1>1, <1>2 DEF Counted

\* Each step keeps the count.
LEMMA NextCounted == Counted /\ [RetryNext]_retryvars => Counted'
<1> SUFFICES ASSUME Counted, [RetryNext]_retryvars PROVE Counted'
  OBVIOUS
<1> USE DEF Counted
<1>0. policy.attempts \in Nat
  BY DEF Policy
<1>1. ASSUME NEW e \in Outcomes, AttemptEnds(e) PROVE Counted'
  <2>1. CASE Retryable(e) /\ MayRetry
    BY <1>1, <2>1 DEF AttemptEnds, MayRetry
  <2>2. CASE ~(Retryable(e) /\ MayRetry)
    <3>1. pc' = e /\ number' = number /\ policy' = policy
      BY <1>1, <2>2 DEF AttemptEnds
    <3>2. e \in {"connection", "busy"} => number = policy.attempts
      BY <1>0, <1>1, <2>2 DEF AttemptEnds, Retryable, MayRetry
    <3> QED
      BY <3>1, <3>2 DEF Outcomes
  <2> QED
    BY <2>1, <2>2
<1>2. CASE NextAttempt
  BY <1>0, <1>2 DEF NextAttempt
<1>3. CASE Tick
  BY <1>3 DEF Tick
<1>4. CASE BudgetSpent
  BY <1>4 DEF BudgetSpent
<1>5. CASE UNCHANGED retryvars
  BY <1>5 DEF retryvars
<1> QED
  BY <1>1, <1>2, <1>3, <1>4, <1>5 DEF RetryNext

\* The count is right in every reachable state.
LEMMA AlwaysCounted == RetrySpec => []Counted
BY InitCounted, NextCounted, PTL DEF RetrySpec

\* run never falls out of its loop, whatever the policy and however the
\* attempts end: the `unreachable!()' behind the loop is unreachable.
THEOREM LoopAlwaysReturns == RetrySpec => []LoopReturns
<1>1. Counted => LoopReturns
  BY DEF Counted, LoopReturns
<1> QED
  BY <1>1, AlwaysCounted, PTL

\* A lost connection or a busy server is the result of a command only after
\* all attempts its policy allows.
THEOREM ReportsOnlyLastFailure == RetrySpec => []GivesUpLast
<1>1. Counted => GivesUpLast
  BY DEF Counted, GivesUpLast
<1> QED
  BY <1>1, AlwaysCounted, PTL

\* AttemptsAreCounted, the run's property: both together.
THEOREM AttemptsAlwaysCounted == RetrySpec => []AttemptsAreCounted
<1>1. Counted => AttemptsAreCounted
  BY DEF Counted, AttemptsAreCounted, LoopReturns, GivesUpLast
<1> QED
  BY <1>1, AlwaysCounted, PTL

-----------------------------------------------------------------------------
(* The pauses.                                                             *)

\* f doubles from 1 on, up to n.
Doubles(f, n) ==
    f \in [0 .. n -> Nat] /\ f[0] = 1 /\ \A i \in 1 .. n : f[i] = 2 * f[i - 1]

\* There is such a function for every n, and two of them agree at n.
LEMMA DoublingExists == \A n \in Nat : \E f : Doubles(f, n)
<1> DEFINE T == {n \in Nat : \E f : Doubles(f, n)}
<1>1. 0 \in T
  <2>1. Doubles([i \in 0 .. 0 |-> 1], 0)
    BY DEF Doubles
  <2> QED
    BY <2>1
<1>2. ASSUME NEW n \in Nat, n \in T PROVE n + 1 \in T
  <2>1. PICK f : Doubles(f, n)
    BY <1>2
  <2> DEFINE g == [i \in 0 .. n + 1 |-> IF i = n + 1 THEN 2 * f[n] ELSE f[i]]
  <2>2. Doubles(g, n + 1)
    <3>1. f[n] \in Nat /\ f[0] = 1 /\ \A i \in 0 .. n : f[i] \in Nat
      BY <2>1 DEF Doubles
    <3>2. g \in [0 .. n + 1 -> Nat] /\ g[0] = 1
      BY <3>1
    <3>3. ASSUME NEW i \in 1 .. n + 1 PROVE g[i] = 2 * g[i - 1]
      BY <2>1 DEF Doubles
    <3> QED
      BY <3>2, <3>3 DEF Doubles
  <2> QED
    BY <2>2
<1> HIDE DEF T
<1>3. Nat \subseteq T
  BY <1>1, <1>2, Induction
<1> QED
  BY <1>3 DEF T

LEMMA DoublingIsUnique ==
    ASSUME NEW m \in Nat, NEW n \in m .. m + 1, NEW f, Doubles(f, m), NEW g, Doubles(g, n)
    PROVE  f[m] = g[m]
<1> DEFINE T == {i \in Nat : i <= m => f[i] = g[i]}
<1>1. 0 \in T
  BY DEF Doubles
<1>2. ASSUME NEW i \in Nat, i \in T PROVE i + 1 \in T
  <2> SUFFICES ASSUME i + 1 <= m PROVE f[i + 1] = g[i + 1]
    OBVIOUS
  <2>1. i + 1 \in 1 .. m /\ i + 1 \in 1 .. n /\ (i + 1) - 1 = i /\ f[i] = g[i]
    BY <1>2
  <2>2. f[i + 1] = 2 * f[(i + 1) - 1] /\ g[i + 1] = 2 * g[(i + 1) - 1]
    BY <2>1 DEF Doubles
  <2> QED
    BY <2>1, <2>2
<1> HIDE DEF T
<1>3. Nat \subseteq T
  BY <1>1, <1>2, Induction
<1> QED
  BY <1>3 DEF T

\* So the recursive definition defines a function: 1, 2, 4 and so on.
LEMMA PowersDouble ==
    /\ Power[0] = 1
    /\ \A n \in Nat : Power[n] \in Nat \ {0} /\ Power[n + 1] = 2 * Power[n]
<1> DEFINE h == [n \in Nat |-> (CHOOSE f : Doubles(f, n))[n]]
<1>1. ASSUME NEW n \in Nat
      PROVE  Doubles(CHOOSE f : Doubles(f, n), n)
  BY DoublingExists
<1>2. h[0] = 1
  BY <1>1 DEF Doubles
<1>3. ASSUME NEW n \in Nat \ {0} PROVE h[n] = 2 * h[n - 1]
  <2> DEFINE f == CHOOSE x : Doubles(x, n - 1)
             g == CHOOSE x : Doubles(x, n)
  <2>1. n - 1 \in Nat /\ n \in n - 1 .. (n - 1) + 1
    OBVIOUS
  <2>2. Doubles(f, n - 1) /\ Doubles(g, n) /\ h[n] = g[n] /\ h[n - 1] = f[n - 1]
    BY <1>1, <2>1
  <2> HIDE DEF f, g, h
  <2>3. f[n - 1] = g[n - 1]
    BY <2>1, <2>2, DoublingIsUnique
  <2>4. g[n] = 2 * g[n - 1]
    BY <2>2 DEF Doubles
  <2> QED
    BY <2>2, <2>3, <2>4
<1>4. \E f : f = [n \in Nat |-> IF n = 0 THEN 1 ELSE 2 * f[n - 1]]
  <2> HIDE DEF h
  <2>1. h = [n \in Nat |-> IF n = 0 THEN 1 ELSE 2 * h[n - 1]]
    <3>1. h = [n \in Nat |-> h[n]]
      BY DEF h
    <3> QED
      BY <1>2, <1>3, <3>1
  <2> QED
    BY <2>1
<1>5. Power = [n \in Nat |-> IF n = 0 THEN 1 ELSE 2 * Power[n - 1]]
  BY <1>4 DEF Power
<1>6. \A n \in Nat : Power[n] = IF n = 0 THEN 1 ELSE 2 * Power[n - 1]
  BY <1>5
<1> DEFINE T == {n \in Nat : Power[n] \in Nat \ {0}}
<1>7. 0 \in T
  BY <1>6
<1>8. ASSUME NEW n \in Nat
      PROVE  Power[n + 1] = 2 * Power[n] /\ (n \in T => n + 1 \in T)
  <2>1. Power[n + 1] = 2 * Power[(n + 1) - 1] /\ (n + 1) - 1 = n
    BY <1>6
  <2> QED
    BY <2>1
<1>9. Nat \subseteq T
  <2> HIDE DEF T
  <2> QED
    BY <1>7, <1>8, Induction
<1> QED
  BY <1>6, <1>8, <1>9

\* Delay caps the product, so it starts positive and at most doubles.
LEMMA DelayGrows ==
    ASSUME NEW p \in Policy, p.delay > 0, p.maxDelay >= p.delay, NEW n \in Nat
    PROVE  /\ Delay(p, n) \in 1 .. p.maxDelay
           /\ Delay(p, n + 1) \in Delay(p, n) .. 2 * Delay(p, n)
<1>1. ASSUME NEW x \in Nat, NEW y \in Nat
      PROVE  Min({x, y}) = IF x <= y THEN x ELSE y
  BY DEF Min
<1>2. p.delay \in Nat \ {0} /\ p.maxDelay \in Nat \ {0}
  BY DEF Policy
<1> DEFINE a == p.delay * Power[n]
<1>3. Power[n] \in Nat \ {0} /\ Power[n + 1] = 2 * Power[n] /\ n + 1 \in Nat
  BY PowersDouble
<1>4. a \in Nat \ {0}
  BY <1>2, <1>3
<1>5. p.delay * Power[n + 1] = 2 * a
  BY <1>2, <1>3
<1> HIDE DEF a
<1>6. Delay(p, n) = IF a <= p.maxDelay THEN a ELSE p.maxDelay
  BY <1>1, <1>2, <1>4 DEF Delay, a
<1>7. 2 * a \in Nat
  BY <1>4
<1>8. Delay(p, n + 1) = IF 2 * a <= p.maxDelay THEN 2 * a ELSE p.maxDelay
  BY <1>1, <1>2, <1>5, <1>7 DEF Delay
<1> QED
  BY <1>2, <1>4, <1>6, <1>8

\* The pauses so far are the delays of the attempts so far.
Paced ==
    /\ ReconnectTypeOK
    /\ pc # "invalid" => Valid(policy)
    /\ pc = "invalid" => pauses = <<>>
    /\ Len(pauses) \in number .. number + 1
    /\ pc = "attempt" => Len(pauses) = number
    /\ pc = "pause" => Len(pauses) = number + 1
    /\ \A k \in DOMAIN pauses : pauses[k] = Delay(policy, k - 1)

LEMMA InitPaced == RetryInit => Paced
<1> SUFFICES ASSUME RetryInit PROVE Paced
  OBVIOUS
<1>1. policy \in Policy
  BY PoliciesAssumption DEF RetryInit
<1>2. ReconnectTypeOK
  BY <1>1 DEF RetryInit, ReconnectTypeOK, Policy
<1> QED
  BY <1>2 DEF RetryInit, Paced

LEMMA AttemptPaced ==
    ASSUME Paced, NEW e \in Outcomes, AttemptEnds(e)
    PROVE  Paced'
<1>1. policy \in Policy /\ Valid(policy) /\ policy' = policy
  BY PoliciesAssumption DEF Paced, ReconnectTypeOK, AttemptEnds
<1>2. CASE pc' = e /\ UNCHANGED <<left, pauses>>
  BY <1>1, <1>2 DEF Paced, ReconnectTypeOK, AttemptEnds, Outcomes, Retrying, Enabled
<1>3. CASE /\ pc' = "pause" /\ left' = Delay(policy, number)
           /\ pauses' = Append(pauses, Delay(policy, number))
  <2>0. policy.delay > 0 /\ policy.maxDelay >= policy.delay
    BY <1>1 DEF Valid, Policy
  <2>1. number \in Nat /\ policy.delay > 0 /\ policy.maxDelay >= policy.delay
    BY <2>0 DEF Paced, ReconnectTypeOK
  <2>2. Delay(policy, number) \in Nat
    <3>1. Delay(policy, number) \in 1 .. policy.maxDelay
      BY <1>1, <2>1, DelayGrows
    <3> QED
      BY <1>1, <3>1 DEF Policy
  <2>3. pauses \in Seq(Nat) /\ Len(pauses) = number
    BY DEF Paced, ReconnectTypeOK, AttemptEnds
  <2>4. /\ pauses' \in Seq(Nat) /\ Len(pauses') = number + 1
        /\ \A k \in DOMAIN pauses' :
              pauses'[k] = IF k = number + 1 THEN Delay(policy, number) ELSE pauses[k]
        /\ DOMAIN pauses' = 1 .. number + 1 /\ DOMAIN pauses = 1 .. number
    BY <1>3, <2>1, <2>2, <2>3
  <2>5. ReconnectTypeOK'
    BY <1>1, <1>3, <2>2, <2>4 DEF Paced, ReconnectTypeOK, AttemptEnds, Retrying, Enabled
  <2>6. \A k \in DOMAIN pauses' : pauses'[k] = Delay(policy', k - 1)
    <3> TAKE k \in DOMAIN pauses'
    <3>1. CASE k = number + 1
      BY <1>1, <2>1, <2>4, <3>1
    <3>2. CASE k # number + 1
      <4>1. k \in DOMAIN pauses
        BY <2>1, <2>4, <3>2
      <4> QED
        BY <1>1, <2>4, <3>2, <4>1 DEF Paced
    <3> QED
      BY <3>1, <3>2
  <2> QED
    BY <1>1, <1>3, <2>1, <2>4, <2>5, <2>6 DEF Paced, AttemptEnds
<1> QED
  BY <1>2, <1>3 DEF AttemptEnds

LEMMA NextPaced == Paced /\ [RetryNext]_retryvars => Paced'
<1> SUFFICES ASSUME Paced, [RetryNext]_retryvars PROVE Paced'
  OBVIOUS
<1>0. policy \in Policy
  BY PoliciesAssumption DEF Paced, ReconnectTypeOK
<1>1. CASE \E e \in Outcomes : AttemptEnds(e)
  BY <1>1, AttemptPaced
<1>2. CASE NextAttempt
  BY <1>0, <1>2 DEF Paced, ReconnectTypeOK, NextAttempt, Retrying, Enabled
<1>3. CASE Tick
  <2>1. left' \in Nat /\ elapsed' \in Nat
    BY <1>3 DEF Paced, ReconnectTypeOK, Tick
  <2>2. Enabled => elapsed' <= policy.maxElapsed
    BY <1>0, <1>3 DEF Paced, ReconnectTypeOK, Tick, Policy
  <2> QED
    BY <1>3, <2>1, <2>2 DEF Paced, ReconnectTypeOK, Tick, Retrying, Enabled
<1>4. CASE BudgetSpent
  BY <1>4 DEF Paced, ReconnectTypeOK, BudgetSpent, Retrying, Enabled
<1>5. CASE UNCHANGED retryvars
  BY <1>5 DEF Paced, ReconnectTypeOK, retryvars, Retrying, Enabled
<1> QED
  BY <1>1, <1>2, <1>3, <1>4, <1>5 DEF RetryNext

\* ReconnectInvariant, the run's property, for every policy: a running
\* command is within its budget, and its pauses start positive, never
\* shrink, at most double and never pass the maximum (reconnect.rs:39).
THEOREM BackoffAlwaysBounded == RetrySpec => []ReconnectInvariant
<1>1. Paced => ReconnectInvariant
  <2> SUFFICES ASSUME Paced PROVE BackoffIsBounded
    BY DEF Paced, ReconnectInvariant
  <2>1. ASSUME NEW k \in DOMAIN pauses
        PROVE  /\ pauses[k] \in 1 .. policy.maxDelay
               /\ k > 1 => pauses[k] \in pauses[k - 1] .. 2 * pauses[k - 1]
    <3>1. k \in Nat \ {0} /\ k \in 1 .. Len(pauses) /\ DOMAIN pauses = 1 .. Len(pauses)
      BY DEF Paced, ReconnectTypeOK
    <3>2. policy \in Policy
      BY PoliciesAssumption DEF Paced, ReconnectTypeOK
    <3> DEFINE P == pauses
    <3>7. P # <<>> /\ (pc = "invalid" => P = <<>>)
      BY <3>1 DEF Paced
    <3>8. Valid(policy)
      BY <3>7 DEF Paced
    <3>3. policy.delay > 0 /\ policy.maxDelay >= policy.delay
      BY <3>2, <3>8 DEF Valid, Policy
    <3>4. k - 1 \in Nat /\ pauses[k] = Delay(policy, k - 1)
      BY <3>1 DEF Paced
    <3>5. pauses[k] \in 1 .. policy.maxDelay
      BY <3>2, <3>3, <3>4, DelayGrows
    <3>6. ASSUME k > 1
          PROVE  pauses[k] \in pauses[k - 1] .. 2 * pauses[k - 1]
      <4>1. k - 1 \in DOMAIN pauses /\ k - 2 \in Nat /\ (k - 2) + 1 = k - 1 /\ (k - 1) - 1 = k - 2
        BY <3>1, <3>6
      <4>2. pauses[k - 1] = Delay(policy, k - 2)
        BY <4>1 DEF Paced
      <4> QED
        BY <3>2, <3>3, <3>4, <4>1, <4>2, DelayGrows
    <3> QED
      BY <3>5, <3>6
  <2> QED
    BY <2>1 DEF Paced, BackoffIsBounded
<1> QED
  BY <1>1, InitPaced, NextPaced, PTL DEF RetrySpec
==============================================================================
