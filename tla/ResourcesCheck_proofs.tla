----------------------- MODULE ResourcesCheck_proofs -----------------------
(***************************************************************************)
(* What the loops over Status.Traffic compute, for traffic of any length:  *)
(* the hostnames of each Gateway's listeners, and those of the HTTPRoute,  *)
(* which are the same.                                                     *)
(***************************************************************************)
EXTENDS ResourcesCheck, FiniteSetTheorems, SequenceTheorems, WellFoundedInduction, TLAPS

-----------------------------------------------------------------------------
(* One turn of reconcileGateway's loop, and one of makeHTTPRouteSpec's.    *)

Begin(loop) == IF loop = "listeners" THEN << >> ELSE {<< >>}

Turn(loop, conf, r, lmap, target, acc) ==
  IF loop = "listeners"
  THEN UnionMaps(acc, VisibilityToDomain(conf, r, lmap, target.tag))
  ELSE {s \o h : s \in acc, h \in TargetHostLists(conf, r, lmap, target.tag)}

Top(s) == CHOOSE x \in s : \A y \in s : x >= y

(* f folds the loop over every set of positions up to n.                   *)
FoldsUpTo(f, loop, conf, r, lmap, targets, n) ==
  f = [s \in SUBSET (1 .. n) |->
         IF s = {} THEN Begin(loop)
         ELSE Turn(loop, conf, r, lmap, targets[Top(s)], f[s \ {Top(s)}])]

(* A set of natural numbers that is not empty has a least one.             *)
LEMMA LeastPosition ==
  ASSUME NEW S \in SUBSET Nat, S # {}
  PROVE  \E m \in S : \A n \in S : m <= n
<1>1. PICK m \in S : \A n \in S : <<n, m>> \notin OpToRel(<, Nat)
  BY NatLessThanWellFounded, WFMin, Zenon
<1>2. \A n \in S : ~(n < m)
  BY <1>1 DEF OpToRel
<1> QED BY <1>2

(* The position a fold takes first is the last.                            *)
LEMMA TopIsLast ==
  ASSUME NEW m \in Nat, NEW s \in SUBSET (1 .. m)
  PROVE  m \in s => Top(s) = m
<1> SUFFICES ASSUME m \in s PROVE Top(s) = m
  OBVIOUS
<1>1. \A y \in s : y \in Nat /\ m >= y
  OBVIOUS
<1>2. \E x \in s : \A y \in s : x >= y
  BY <1>1
<1>3. Top(s) \in s /\ Top(s) >= m
  BY <1>2 DEF Top
<1>4. Top(s) \in Nat /\ m >= Top(s)
  BY <1>1, <1>3
<1> QED BY <1>3, <1>4

(* There is such a fold: with one position more, it goes one turn on.      *)
LEMMA FoldsExist ==
  ASSUME NEW loop, NEW conf, NEW r, NEW lmap, NEW targets
  PROVE  \A n \in Nat : \E f : FoldsUpTo(f, loop, conf, r, lmap, targets, n)
<1> DEFINE P(n) == \E f : FoldsUpTo(f, loop, conf, r, lmap, targets, n)
           T(n, acc) == Turn(loop, conf, r, lmap, targets[n], acc)
           Bad == {n \in Nat : ~P(n)}
<1>1. P(0)
  <2>1. SUBSET (1 .. 0) = {{}}
    OBVIOUS
  <2> DEFINE f == [s \in SUBSET (1 .. 0) |-> Begin(loop)]
  <2>2. FoldsUpTo(f, loop, conf, r, lmap, targets, 0)
    BY <2>1 DEF FoldsUpTo
  <2> QED BY <2>2
<1>2. ASSUME NEW n \in Nat, P(n) PROVE P(n + 1)
  <2>1. PICK f : FoldsUpTo(f, loop, conf, r, lmap, targets, n)
    BY <1>2
  <2> DEFINE m == n + 1
             g == [s \in SUBSET (1 .. m) |->
                     IF m \in s THEN T(m, f[s \ {m}]) ELSE f[s]]
             body(s) == IF s = {} THEN Begin(loop)
                        ELSE T(Top(s), g[s \ {Top(s)}])
  <2>2. ASSUME NEW s \in SUBSET (1 .. n)
        PROVE  f[s] = IF s = {} THEN Begin(loop) ELSE T(Top(s), f[s \ {Top(s)}])
    BY <2>1 DEF FoldsUpTo
  <2>3. ASSUME NEW s \in SUBSET (1 .. n)
        PROVE  s \in SUBSET (1 .. m) /\ g[s] = f[s]
    OBVIOUS
  <2>4. ASSUME NEW s \in SUBSET (1 .. m)
        PROVE  g[s] = body(s)
    <3>1. CASE m \in s
      <4>1. s # {} /\ Top(s) = m /\ s \ {m} \in SUBSET (1 .. n)
        BY <3>1, TopIsLast
      <4>2. g[s] = T(m, f[s \ {m}]) /\ g[s \ {m}] = f[s \ {m}]
        BY <2>3, <3>1, <4>1
      <4> HIDE DEF g, m, T
      <4>3. body(s) = T(m, g[s \ {m}])
        BY <4>1
      <4> QED BY <4>2, <4>3
    <3>2. CASE m \notin s
      <4>0. s \in SUBSET (1 .. n)
        <5>1. ASSUME NEW x \in s PROVE x \in 1 .. n
          BY <3>2
        <5> QED BY <5>1
      <4>1. s \in SUBSET (1 .. n) /\ g[s] = f[s] /\ \A x : s \ {x} \in SUBSET (1 .. n)
        <5> HIDE DEF g
        <5> QED BY <2>3, <4>0
      <4>2. g[s \ {Top(s)}] = f[s \ {Top(s)}]
        BY <2>3, <4>1
      <4> QED BY <2>2, <4>1, <4>2
    <3> QED BY <3>1, <3>2
  <2>5. g = [s \in SUBSET (1 .. m) |-> body(s)]
    <3> DEFINE h == [s \in SUBSET (1 .. m) |-> body(s)]
    <3>1. DOMAIN g = SUBSET (1 .. m) /\ DOMAIN h = SUBSET (1 .. m)
      OBVIOUS
    <3>2. \A s \in SUBSET (1 .. m) : h[s] = body(s)
      OBVIOUS
    <3> HIDE DEF body
    <3> QED BY <2>4
  <2>6. FoldsUpTo(g, loop, conf, r, lmap, targets, m)
    BY <2>5 DEF FoldsUpTo
  <2> QED BY <2>6
<1>3. Bad = {}
  <2> SUFFICES ASSUME Bad # {} PROVE FALSE
    OBVIOUS
  <2> HIDE DEF P
  <2>1. PICK b \in Bad : \A n \in Bad : b <= n
    BY LeastPosition
  <2>2. b # 0 /\ b - 1 \in Nat /\ P(b - 1)
    BY <1>1, <2>1
  <2>3. P(b - 1 + 1)
    BY <1>2, <2>2
  <2> QED BY <2>1, <2>3
<1> QED BY <1>3

(* Its values on the initial segments are the loop's after each turn.      *)
LEMMA FoldTurns ==
  ASSUME NEW loop, NEW conf, NEW r, NEW lmap, NEW targets, NEW n \in Nat,
         NEW f, FoldsUpTo(f, loop, conf, r, lmap, targets, n)
  PROVE  /\ f[1 .. 0] = Begin(loop)
         /\ \A m \in 1 .. n :
              f[1 .. m] = Turn(loop, conf, r, lmap, targets[m], f[1 .. (m - 1)])
<1>1. \A s \in SUBSET (1 .. n) :
        f[s] = IF s = {} THEN Begin(loop)
               ELSE Turn(loop, conf, r, lmap, targets[Top(s)], f[s \ {Top(s)}])
  BY DEF FoldsUpTo
<1>2. f[1 .. 0] = Begin(loop)
  <2>1. 1 .. 0 = {} /\ {} \in SUBSET (1 .. n)
    OBVIOUS
  <2> QED BY <1>1, <2>1
<1>3. ASSUME NEW m \in 1 .. n
      PROVE  f[1 .. m] = Turn(loop, conf, r, lmap, targets[m], f[1 .. (m - 1)])
  <2>1. (1 .. m) \in SUBSET (1 .. n) /\ 1 .. m # {} /\ m \in 1 .. m
        /\ (1 .. m) \in SUBSET (1 .. m) /\ (1 .. m) \ {m} = 1 .. (m - 1)
    OBVIOUS
  <2>2. Top(1 .. m) = m
    BY <2>1, TopIsLast
  <2> QED BY <1>1, <2>1, <2>2
<1> QED BY <1>2, <1>3

LEMMA ListenersFold ==
  ASSUME NEW conf, NEW r, NEW lmap, NEW S, NEW targets \in Seq(S)
  PROVE  \E f : /\ FoldsUpTo(f, "listeners", conf, r, lmap, targets, Len(targets))
                /\ VisibilityHosts(conf, r, lmap, targets) = f[1 .. Len(targets)]
<1> DEFINE n == Len(targets)
           body(f) == [s \in SUBSET DOMAIN targets |->
                         IF s = {} THEN << >>
                         ELSE UnionMaps(f[s \ {CHOOSE x \in s : \A y \in s : x >= y}],
                                VisibilityToDomain(conf, r, lmap,
                                  targets[CHOOSE x \in s : \A y \in s : x >= y].tag))]
           chosen == CHOOSE f : f = body(f)
<1>1. VisibilityHosts(conf, r, lmap, targets) = chosen[DOMAIN targets]
  BY DEF VisibilityHosts, Seqs!FoldLeft, Seqs!MapThenFoldSet, Seqs!Max
<1>2. DOMAIN targets = 1 .. n /\ n \in Nat
  BY LenProperties
<1>3. ASSUME NEW f
      PROVE  FoldsUpTo(f, "listeners", conf, r, lmap, targets, n) <=> f = body(f)
  BY <1>2 DEF FoldsUpTo, Turn, Begin, Top
<1>4. \E f : f = body(f)
  <2>1. PICK f : FoldsUpTo(f, "listeners", conf, r, lmap, targets, n)
    BY <1>2, FoldsExist
  <2> HIDE DEF body
  <2> QED BY <1>3, <2>1
<1>5. chosen = body(chosen)
  <2> HIDE DEF body
  <2> QED BY <1>4
<1> HIDE DEF body, chosen
<1> QED BY <1>1, <1>2, <1>3, <1>5

LEMMA HostListsFold ==
  ASSUME NEW conf, NEW r, NEW lmap, NEW S, NEW targets \in Seq(S)
  PROVE  \E f : /\ FoldsUpTo(f, "hostnames", conf, r, lmap, targets, Len(targets))
                /\ HostLists(conf, r, lmap, targets) = f[1 .. Len(targets)]
<1> DEFINE n == Len(targets)
           body(f) == [s \in SUBSET DOMAIN targets |->
                         IF s = {} THEN {<< >>}
                         ELSE {l \o h : l \in f[s \ {CHOOSE x \in s : \A y \in s : x >= y}],
                                h \in TargetHostLists(conf, r, lmap,
                                  targets[CHOOSE x \in s : \A y \in s : x >= y].tag)}]
           chosen == CHOOSE f : f = body(f)
<1>1. HostLists(conf, r, lmap, targets) = chosen[DOMAIN targets]
  BY DEF HostLists, Seqs!FoldLeft, Seqs!MapThenFoldSet, Seqs!Max
<1>2. DOMAIN targets = 1 .. n /\ n \in Nat
  BY LenProperties
<1>3. ASSUME NEW f
      PROVE  FoldsUpTo(f, "hostnames", conf, r, lmap, targets, n) <=> f = body(f)
  BY <1>2 DEF FoldsUpTo, Turn, Begin, Top
<1>4. \E f : f = body(f)
  <2>1. PICK f : FoldsUpTo(f, "hostnames", conf, r, lmap, targets, n)
    BY <1>2, FoldsExist
  <2> HIDE DEF body
  <2> QED BY <1>3, <2>1
<1>5. chosen = body(chosen)
  <2> HIDE DEF body
  <2> QED BY <1>4
<1> HIDE DEF body, chosen
<1> QED BY <1>1, <1>2, <1>3, <1>5

-----------------------------------------------------------------------------
(* The hostnames of a target.                                              *)

RouteVisibilitySet(lmap) == {Visibility(lmap), "cluster-local"}

(* How many names a target has under a visibility.                         *)
Width(v) == IF v = "cluster-local" THEN 3 ELSE 1

NameSet(conf, r, targets) ==
  {<<r, targets[n].tag, d>> : n \in DOMAIN targets,
                              d \in {"ns", "ns.svc", "ns.svc.cluster.local", conf.domain}}

(* The j-th name that the n-th target has under visibility v.              *)
TargetName(conf, r, lmap, targets, n, v, j) ==
  VisibilityToDomain(conf, r, lmap, targets[n].tag)[v][j]

LEMMA NamesOfTarget ==
  ASSUME NEW conf, NEW r, NEW lmap, NEW targets, NEW n \in DOMAIN targets,
         NEW v \in RouteVisibilitySet(lmap)
  PROVE  LET names == VisibilityToDomain(conf, r, lmap, targets[n].tag)
         IN  /\ DOMAIN names = RouteVisibilitySet(lmap)
             /\ names[v] \in Seq(NameSet(conf, r, targets))
             /\ Len(names[v]) = Width(v)
<1> DEFINE N == NameSet(conf, r, targets)
           tag == targets[n].tag
           names == VisibilityToDomain(conf, r, lmap, tag)
           name(d) == <<r, tag, d>>
<1>1. /\ name("ns") \in N /\ name("ns.svc") \in N
      /\ name("ns.svc.cluster.local") \in N /\ name(conf.domain) \in N
  BY DEF NameSet
<1>2. /\ DOMAIN names = RouteVisibilitySet(lmap)
      /\ v = "cluster-local"
           => names[v] = << name("ns"), name("ns.svc"), name("ns.svc.cluster.local") >>
      /\ v # "cluster-local" => names[v] = << name(conf.domain) >>
  BY DEF VisibilityToDomain, RouteVisibilitySet, LocalHosts
<1> HIDE DEF N, name
<1> HIDE DEF names
<1>3. v = "cluster-local" => names[v] \in Seq(N) /\ Len(names[v]) = 3
  <2> DEFINE a == name("ns")
             b == name("ns.svc")
             c == name("ns.svc.cluster.local")
  <2>1. a \in N /\ b \in N /\ c \in N
    BY <1>1
  <2> HIDE DEF a, b, c
  <2>2. <<a, b, c>> \in Seq(N) /\ Len(<<a, b, c>>) = 3
    BY <2>1
  <2> QED BY <1>2, <2>2 DEF a, b, c
<1>4. v # "cluster-local" => names[v] \in Seq(N) /\ Len(names[v]) = 1
  <2> DEFINE a == name(conf.domain)
  <2>1. a \in N
    BY <1>1
  <2> HIDE DEF a
  <2>2. <<a>> \in Seq(N) /\ Len(<<a>>) = 1
    BY <2>1
  <2> QED BY <1>2, <2>2 DEF a
<1>5. Len(names[v]) = Width(v) /\ names[v] \in Seq(N)
  BY <1>3, <1>4 DEF Width
<1> QED BY <1>2, <1>5 DEF N, names

(* Of two sequences one after the other.                                   *)
LEMMA Concatenated ==
  ASSUME NEW N, NEW s \in Seq(N), NEW t \in Seq(N)
  PROVE  /\ s \o t \in Seq(N) /\ Len(s \o t) = Len(s) + Len(t)
         /\ Len(s) \in Nat /\ Len(t) \in Nat
         /\ \A i \in 1 .. Len(s) : (s \o t)[i] = s[i]
         /\ \A i \in 1 .. Len(t) : (s \o t)[Len(s) + i] = t[i]
  BY ConcatProperties, LenProperties

-----------------------------------------------------------------------------
(* The map that reconcileGateway accumulates.                              *)

HostsAt(hosts, v) == IF v \in DOMAIN hosts THEN hosts[v] ELSE << >>

(* These are the names that the first m targets have under v, in order.    *)
NamesInOrder(list, conf, r, lmap, targets, v, m) ==
  /\ list \in Seq(NameSet(conf, r, targets))
  /\ Len(list) = Width(v) * m
  /\ \A n \in 1 .. m, j \in 1 .. Width(v) :
       list[Width(v) * (n - 1) + j] = TargetName(conf, r, lmap, targets, n, v, j)

Accumulated(hosts, conf, r, lmap, targets, m) ==
  /\ DOMAIN hosts = IF m = 0 THEN {} ELSE RouteVisibilitySet(lmap)
  /\ \A v \in RouteVisibilitySet(lmap) :
       NamesInOrder(HostsAt(hosts, v), conf, r, lmap, targets, v, m)

LEMMA UnionOfNames ==
  ASSUME NEW m1, NEW m2, NEW Vs, DOMAIN m1 \subseteq Vs, DOMAIN m2 = Vs
  PROVE  /\ DOMAIN UnionMaps(m1, m2) = Vs
         /\ \A v \in Vs : HostsAt(UnionMaps(m1, m2), v) = HostsAt(m1, v) \o m2[v]
  BY DEF UnionMaps, HostsAt

LEMMA NamesGoOn ==
  ASSUME NEW conf, NEW r, NEW lmap, NEW S, NEW targets \in Seq(S),
         NEW v \in RouteVisibilitySet(lmap), NEW m \in 1 .. Len(targets), NEW s,
         NamesInOrder(s, conf, r, lmap, targets, v, m - 1)
  PROVE  NamesInOrder(s \o VisibilityToDomain(conf, r, lmap, targets[m].tag)[v],
                      conf, r, lmap, targets, v, m)
<1> DEFINE t == VisibilityToDomain(conf, r, lmap, targets[m].tag)[v]
           w == Width(v)
           N == NameSet(conf, r, targets)
           name(n, j) == TargetName(conf, r, lmap, targets, n, v, j)
<1>0. m \in DOMAIN targets /\ Len(targets) \in Nat
  BY LenProperties
<1>1. t \in Seq(N) /\ Len(t) = w /\ (w = 3 \/ w = 1)
  BY <1>0, NamesOfTarget DEF Width
<1>2. s \in Seq(N) /\ Len(s) = w * (m - 1)
  BY DEF NamesInOrder
<1>3. \A n \in 1 .. m - 1, j \in 1 .. w : s[w * (n - 1) + j] = name(n, j)
  BY DEF NamesInOrder
<1>4. \A j \in 1 .. w : t[j] = name(m, j)
  BY DEF TargetName
<1> HIDE DEF t, w, N, name
<1>5. /\ s \o t \in Seq(N) /\ Len(s \o t) = Len(s) + Len(t)
      /\ \A i \in 1 .. Len(s) : (s \o t)[i] = s[i]
      /\ \A i \in 1 .. Len(t) : (s \o t)[Len(s) + i] = t[i]
  <2>1. s \in Seq(N) /\ t \in Seq(N)
    BY <1>1, <1>2
  <2> QED BY <2>1, Concatenated
<1>6. Len(s \o t) = w * m
  BY <1>1, <1>2, <1>5
<1>7. ASSUME NEW n \in 1 .. m, NEW j \in 1 .. w
      PROVE  (s \o t)[w * (n - 1) + j] = name(n, j)
  <2>1. CASE n = m
    BY <1>1, <1>2, <1>4, <1>5, <2>1
  <2>2. CASE n # m
    <3>1. n \in 1 .. m - 1 /\ w * (n - 1) + j \in 1 .. w * (m - 1)
      BY <1>1, <2>2
    <3> QED BY <1>2, <1>3, <1>5, <3>1
  <2> QED BY <2>1, <2>2
<1> QED BY <1>5, <1>6, <1>7 DEF w, name, N, t, NamesInOrder

LEMMA ListenersAfter ==
  ASSUME NEW conf, NEW r, NEW lmap, NEW S, NEW targets \in Seq(S), NEW f,
         FoldsUpTo(f, "listeners", conf, r, lmap, targets, Len(targets))
  PROVE  \A m \in 0 .. Len(targets) : Accumulated(f[1 .. m], conf, r, lmap, targets, m)
<1> DEFINE Vs == RouteVisibilitySet(lmap)
           P(m) == Accumulated(f[1 .. m], conf, r, lmap, targets, m)
           Bad == {m \in 0 .. Len(targets) : ~P(m)}
<1>0. Len(targets) \in Nat
  BY LenProperties
<1>1. P(0)
  <2>1. f[1 .. 0] = << >>
    BY <1>0, FoldTurns DEF Begin
  <2>2. ASSUME NEW v \in Vs
        PROVE  NamesInOrder(<< >>, conf, r, lmap, targets, v, 0)
    <3>1. Width(v) * 0 = 0 /\ 1 .. 0 = {}
      BY DEF Width
    <3>2. << >> \in Seq(NameSet(conf, r, targets)) /\ Len(<< >>) = 0
      BY EmptySeq
    <3> QED BY <3>1, <3>2 DEF NamesInOrder
  <2> QED BY <2>1, <2>2 DEF Accumulated, HostsAt
<1>2. ASSUME NEW m \in 1 .. Len(targets), P(m - 1) PROVE P(m)
  <2> DEFINE names == VisibilityToDomain(conf, r, lmap, targets[m].tag)
             before == f[1 .. (m - 1)]
  <2>1. f[1 .. m] = UnionMaps(before, names)
    <3>1. f[1 .. m] = Turn("listeners", conf, r, lmap, targets[m], before)
      BY <1>0, FoldTurns
    <3> QED BY <3>1 DEF Turn
  <2>2. DOMAIN before \subseteq Vs /\ DOMAIN names = Vs
    BY <1>2 DEF Accumulated, VisibilityToDomain, RouteVisibilitySet
  <2>3. \A v \in Vs : NamesInOrder(HostsAt(before, v), conf, r, lmap, targets, v, m - 1)
    BY <1>2 DEF Accumulated
  <2>4. \A v \in Vs : NamesInOrder(HostsAt(before, v) \o names[v], conf, r, lmap, targets, v, m)
    BY <2>3, NamesGoOn
  <2> HIDE DEF before, names, Vs
  <2>5. /\ DOMAIN f[1 .. m] = Vs
        /\ \A v \in Vs : HostsAt(f[1 .. m], v) = HostsAt(before, v) \o names[v]
    BY <2>1, <2>2, UnionOfNames
  <2>6. m # 0
    BY <1>0
  <2> QED BY <2>4, <2>5, <2>6 DEF Accumulated, Vs
<1>3. Bad = {}
  <2> SUFFICES ASSUME Bad # {} PROVE FALSE
    OBVIOUS
  <2> HIDE DEF P
  <2>1. Bad \in SUBSET Nat
    BY <1>0
  <2>2. PICK b \in Bad : \A n \in Bad : b <= n
    BY <2>1, LeastPosition
  <2>3. b \in 1 .. Len(targets) /\ b - 1 \in 0 .. Len(targets) /\ b - 1 \notin Bad
    BY <1>0, <1>1, <2>2
  <2>4. P(b - 1)
    BY <2>3
  <2>5. P(b)
    BY <1>2, <2>3, <2>4
  <2> QED BY <2>2, <2>5
<1>4. \A m \in 0 .. Len(targets) : P(m)
  <2> HIDE DEF P
  <2> QED BY <1>3
<1> QED BY <1>4

(* For every visibility, the listeners that reconcileGateway accumulates   *)
(* have the names of all targets, in order and complete.                   *)
THEOREM ListenersOfEveryTraffic ==
  ASSUME NEW conf, NEW r, NEW lmap, NEW S, NEW targets \in Seq(S)
  PROVE  LET hosts == VisibilityHosts(conf, r, lmap, targets)
         IN  /\ DOMAIN hosts = IF targets = << >> THEN {} ELSE RouteVisibilitySet(lmap)
             /\ \A v \in DOMAIN hosts :
                  NamesInOrder(hosts[v], conf, r, lmap, targets, v, Len(targets))
<1> DEFINE hosts == VisibilityHosts(conf, r, lmap, targets)
           k == Len(targets)
<1>1. k \in Nat /\ (k = 0 <=> targets = << >>)
  BY EmptySeq, LenProperties
<1>2. PICK f : FoldsUpTo(f, "listeners", conf, r, lmap, targets, k) /\ hosts = f[1 .. k]
  BY ListenersFold
<1>3. Accumulated(f[1 .. k], conf, r, lmap, targets, k)
  <2>1. FoldsUpTo(f, "listeners", conf, r, lmap, targets, k)
    BY <1>2
  <2>2. k \in 0 .. k
    BY <1>1
  <2> QED BY <2>1, <2>2, ListenersAfter
<1> HIDE DEF hosts, k
<1> QED BY <1>1, <1>2, <1>3 DEF hosts, k, Accumulated, HostsAt

-----------------------------------------------------------------------------
(* The hostnames of makeHTTPRouteSpec.                                     *)

TargetWidth(lmap) == IF Visibility(lmap) = "cluster-local" THEN 3 ELSE 4

(* x is a name of target n.                                                *)
NamesTarget(x, conf, r, lmap, targets, n) ==
  \E v \in RouteVisibilitySet(lmap) : \E j \in 1 .. Width(v) :
    x = TargetName(conf, r, lmap, targets, n, v, j)

Lists(h, x) == \E i \in 1 .. Len(h) : h[i] = x

(* h lists the names of the targets from k to m, in any order.             *)
ListsNames(h, conf, r, lmap, targets, k, m) ==
  /\ h \in Seq(NameSet(conf, r, targets))
  /\ \A i \in 1 .. Len(h) : \E n \in k .. m : NamesTarget(h[i], conf, r, lmap, targets, n)
  /\ \A n \in k .. m : \A x :
       NamesTarget(x, conf, r, lmap, targets, n) => Lists(h, x)

LEMMA ConcatLists ==
  ASSUME NEW N, NEW s \in Seq(N), NEW t \in Seq(N), NEW x
  PROVE  Lists(s \o t, x) <=> Lists(s, x) \/ Lists(t, x)
<1>1. /\ Len(s \o t) = Len(s) + Len(t)
      /\ Len(s) \in Nat /\ Len(t) \in Nat
      /\ \A i \in 1 .. Len(s) : (s \o t)[i] = s[i]
      /\ \A i \in 1 .. Len(t) : (s \o t)[Len(s) + i] = t[i]
  BY Concatenated
<1>2. ASSUME NEW i \in 1 .. Len(s), s[i] = x PROVE Lists(s \o t, x)
  <2>1. i \in 1 .. Len(s \o t) /\ (s \o t)[i] = x
    BY <1>1, <1>2
  <2> QED BY <2>1 DEF Lists
<1>3. ASSUME NEW i \in 1 .. Len(t), t[i] = x PROVE Lists(s \o t, x)
  <2>1. Len(s) + i \in 1 .. Len(s \o t) /\ (s \o t)[Len(s) + i] = x
    BY <1>1, <1>3
  <2> QED BY <2>1 DEF Lists
<1>4. ASSUME NEW i \in 1 .. Len(s \o t), (s \o t)[i] = x
      PROVE  Lists(s, x) \/ Lists(t, x)
  <2>1. CASE i \in 1 .. Len(s)
    BY <1>1, <1>4, <2>1 DEF Lists
  <2>2. CASE i \notin 1 .. Len(s)
    <3>1. i - Len(s) \in 1 .. Len(t) /\ Len(s) + (i - Len(s)) = i
      BY <1>1, <2>2
    <3>2. t[i - Len(s)] = x
      BY <1>1, <1>4, <3>1
    <3> QED BY <3>1, <3>2 DEF Lists
  <2> QED BY <2>1, <2>2
<1> QED BY <1>2, <1>3, <1>4 DEF Lists

(* Both orders of a target's hostnames list all of its names.              *)
LEMMA TargetListed ==
  ASSUME NEW conf, NEW r, NEW lmap, NEW targets, NEW n \in DOMAIN targets, n \in Nat,
         NEW t \in TargetHostLists(conf, r, lmap, targets[n].tag)
  PROVE  ListsNames(t, conf, r, lmap, targets, n, n) /\ Len(t) = TargetWidth(lmap)
<1> DEFINE names == VisibilityToDomain(conf, r, lmap, targets[n].tag)
           N == NameSet(conf, r, targets)
           cl == names["cluster-local"]
           own == names[Visibility(lmap)]
<1>0. \A v \in RouteVisibilitySet(lmap) : names[v] \in Seq(N) /\ Len(names[v]) = Width(v)
  BY NamesOfTarget
<1>1. cl \in Seq(N) /\ Len(cl) = 3
  <2>1. "cluster-local" \in RouteVisibilitySet(lmap) /\ Width("cluster-local") = 3
    BY DEF RouteVisibilitySet, Width
  <2> HIDE DEF names, N
  <2> QED BY <1>0, <2>1
<1>2. own \in Seq(N) /\ (Visibility(lmap) # "cluster-local" => Len(own) = 1)
  <2>1. /\ Visibility(lmap) \in RouteVisibilitySet(lmap)
        /\ Visibility(lmap) # "cluster-local" => Width(Visibility(lmap)) = 1
    BY DEF RouteVisibilitySet, Width
  <2> HIDE DEF names, N
  <2> QED BY <1>0, <2>1
<1>3. \/ t = cl /\ Visibility(lmap) = "cluster-local"
      \/ t \in {own \o cl, cl \o own} /\ Visibility(lmap) # "cluster-local"
  BY DEF TargetHostLists, Visibility
<1>4. ASSUME NEW x
      PROVE  NamesTarget(x, conf, r, lmap, targets, n) <=> Lists(cl, x) \/ Lists(own, x)
  <2>1. /\ Len(own) = Width(Visibility(lmap)) /\ Len(cl) = Width("cluster-local")
    <3>1. "cluster-local" \in RouteVisibilitySet(lmap) /\ Visibility(lmap) \in RouteVisibilitySet(lmap)
      BY DEF RouteVisibilitySet
    <3> HIDE DEF names, N
    <3> QED BY <1>0, <3>1
  <2> QED BY <2>1 DEF NamesTarget, Lists, TargetName, RouteVisibilitySet
<1> HIDE DEF cl, own, N
<1>5. /\ t \in Seq(N) /\ Len(t) = TargetWidth(lmap)
      /\ \A x : Lists(t, x) <=> Lists(cl, x) \/ Lists(own, x)
  <2>1. CASE t = cl /\ Visibility(lmap) = "cluster-local"
    BY <1>1, <2>1 DEF TargetWidth, cl, own
  <2>2. CASE Visibility(lmap) # "cluster-local" /\ t = own \o cl
    <3>1. own \in Seq(N) /\ cl \in Seq(N)
      BY <1>1, <1>2
    <3>2. \A x : Lists(own \o cl, x) <=> Lists(own, x) \/ Lists(cl, x)
      BY <3>1, ConcatLists
    <3>3. own \o cl \in Seq(N) /\ Len(own \o cl) = Len(own) + Len(cl)
      BY <3>1, Concatenated
    <3>4. Len(t) = TargetWidth(lmap)
      <4>1. Len(own) = 1 /\ Len(cl) = 3 /\ TargetWidth(lmap) = 4
        BY <1>1, <1>2, <2>2 DEF TargetWidth
      <4>2. Len(t) = 1 + 3
        BY <2>2, <3>3, <4>1
      <4> QED BY <4>1, <4>2
    <3> QED BY <2>2, <3>2, <3>3, <3>4
  <2>3. CASE Visibility(lmap) # "cluster-local" /\ t = cl \o own
    <3>1. own \in Seq(N) /\ cl \in Seq(N)
      BY <1>1, <1>2
    <3>2. \A x : Lists(cl \o own, x) <=> Lists(cl, x) \/ Lists(own, x)
      BY <3>1, ConcatLists
    <3>3. cl \o own \in Seq(N) /\ Len(cl \o own) = Len(cl) + Len(own)
      BY <3>1, Concatenated
    <3>4. Len(t) = TargetWidth(lmap)
      <4>1. Len(own) = 1 /\ Len(cl) = 3 /\ TargetWidth(lmap) = 4
        BY <1>1, <1>2, <2>3 DEF TargetWidth
      <4>2. Len(t) = 1 + 3
        BY <2>3, <3>3, <4>1
      <4> QED BY <4>1, <4>2
    <3> QED BY <2>3, <3>2, <3>3, <3>4
  <2> QED BY <1>3, <2>1, <2>2, <2>3
<1>6. n .. n = {n}
  OBVIOUS
<1>7. \A i \in 1 .. Len(t) : NamesTarget(t[i], conf, r, lmap, targets, n)
  BY <1>4, <1>5 DEF Lists
<1>8. \A x : NamesTarget(x, conf, r, lmap, targets, n) => Lists(t, x)
  BY <1>4, <1>5
<1> QED BY <1>5, <1>6, <1>7, <1>8 DEF ListsNames, N

LEMMA ListsGoOn ==
  ASSUME NEW conf, NEW r, NEW lmap, NEW targets, NEW m \in Nat,
         NEW s, ListsNames(s, conf, r, lmap, targets, 1, m),
         NEW t, ListsNames(t, conf, r, lmap, targets, m + 1, m + 1)
  PROVE  ListsNames(s \o t, conf, r, lmap, targets, 1, m + 1)
<1> DEFINE N == NameSet(conf, r, targets)
           names(x, n) == NamesTarget(x, conf, r, lmap, targets, n)
<1>1. s \in Seq(N) /\ t \in Seq(N)
  BY DEF ListsNames
<1>2. s \o t \in Seq(N)
  BY <1>1, Concatenated
<1>3. \A x : Lists(s \o t, x) <=> Lists(s, x) \/ Lists(t, x)
  BY <1>1, ConcatLists
<1>4. 1 .. m + 1 = (1 .. m) \cup (m + 1 .. m + 1)
  OBVIOUS
<1>5. \A x : Lists(s, x) => \E n \in 1 .. m : names(x, n)
  BY DEF ListsNames, Lists
<1>6. \A x : Lists(t, x) => \E n \in m + 1 .. m + 1 : names(x, n)
  BY DEF ListsNames, Lists
<1>7. \A i \in 1 .. Len(s \o t) : Lists(s \o t, (s \o t)[i])
  BY DEF Lists
<1>8. \A i \in 1 .. Len(s \o t) : \E n \in 1 .. m + 1 : names((s \o t)[i], n)
  <2> HIDE DEF names
  <2> QED BY <1>3, <1>4, <1>5, <1>6, <1>7
<1>9. \A n \in 1 .. m + 1 : \A x : names(x, n) => Lists(s \o t, x)
  <2>1. \A n \in 1 .. m : \A x : names(x, n) => Lists(s, x)
    BY DEF ListsNames
  <2>2. \A n \in m + 1 .. m + 1 : \A x : names(x, n) => Lists(t, x)
    BY DEF ListsNames
  <2> HIDE DEF names
  <2> QED BY <1>3, <1>4, <2>1, <2>2
<1> QED BY <1>2, <1>8, <1>9 DEF ListsNames, N

(* h is one of the lists that makeHTTPRouteSpec may have after m targets.  *)
Listing(h, conf, r, lmap, targets, m) ==
  ListsNames(h, conf, r, lmap, targets, 1, m) /\ Len(h) = TargetWidth(lmap) * m

LEMMA ListingGoesOn ==
  ASSUME NEW conf, NEW r, NEW lmap, NEW S, NEW targets \in Seq(S),
         NEW m \in 1 .. Len(targets), NEW s, Listing(s, conf, r, lmap, targets, m - 1),
         NEW t \in TargetHostLists(conf, r, lmap, targets[m].tag)
  PROVE  Listing(s \o t, conf, r, lmap, targets, m)
<1> DEFINE k == m - 1
           w == TargetWidth(lmap)
           N == NameSet(conf, r, targets)
<1>0. m \in DOMAIN targets /\ m \in Nat /\ k \in Nat /\ k + 1 = m
  BY LenProperties
<1>1. ListsNames(s, conf, r, lmap, targets, 1, k) /\ Len(s) = w * k
  BY DEF Listing
<1>2. ListsNames(t, conf, r, lmap, targets, m, m) /\ Len(t) = w
  BY <1>0, TargetListed
<1>3. s \in Seq(N) /\ t \in Seq(N)
  BY <1>1, <1>2 DEF ListsNames
<1> HIDE DEF k, N
<1>4. ListsNames(s \o t, conf, r, lmap, targets, 1, k + 1)
  <2>1. k \in Nat
    BY <1>0
  <2>2. ListsNames(s, conf, r, lmap, targets, 1, k)
    BY <1>1
  <2>3. ListsNames(t, conf, r, lmap, targets, k + 1, k + 1)
    BY <1>0, <1>2
  <2> QED BY <2>1, <2>2, <2>3, ListsGoOn
<1>5. Len(s \o t) = Len(s) + Len(t)
  BY <1>3, Concatenated
<1>6. Len(s \o t) = w * m
  <2>1. w = 3 \/ w = 4
    BY DEF TargetWidth
  <2> HIDE DEF w
  <2>2. Len(s \o t) = w * k + w
    BY <1>1, <1>2, <1>5
  <2> QED BY <1>0, <2>1, <2>2
<1> QED BY <1>0, <1>4, <1>6 DEF Listing

LEMMA TurnOfEach ==
  ASSUME NEW conf, NEW r, NEW lmap, NEW target, NEW lists,
         NEW h \in Turn("hostnames", conf, r, lmap, target, lists)
  PROVE  \E s \in lists : \E t \in TargetHostLists(conf, r, lmap, target.tag) : h = s \o t
<1> DEFINE B == TargetHostLists(conf, r, lmap, target.tag)
<1>1. h \in {s \o t : s \in lists, t \in B}
  BY DEF Turn
<1> HIDE DEF B
<1>2. \E s \in lists : \E t \in B : h = s \o t
  BY <1>1
<1> QED BY <1>2 DEF B

LEMMA HostListsAfter ==
  ASSUME NEW conf, NEW r, NEW lmap, NEW S, NEW targets \in Seq(S), NEW f,
         FoldsUpTo(f, "hostnames", conf, r, lmap, targets, Len(targets))
  PROVE  \A m \in 0 .. Len(targets) : \A h \in f[1 .. m] :
           Listing(h, conf, r, lmap, targets, m)
<1> DEFINE P(m) == \A h \in f[1 .. m] : Listing(h, conf, r, lmap, targets, m)
           Bad == {m \in 0 .. Len(targets) : ~P(m)}
<1>0. Len(targets) \in Nat
  BY LenProperties
<1>1. P(0)
  <2>1. f[1 .. 0] = {<< >>}
    BY <1>0, FoldTurns DEF Begin
  <2>2. Len(<< >>) = 0 /\ 1 .. 0 = {} /\ << >> \in Seq(NameSet(conf, r, targets))
    BY EmptySeq
  <2>3. TargetWidth(lmap) * 0 = 0
    BY DEF TargetWidth
  <2>4. Listing(<< >>, conf, r, lmap, targets, 0)
    BY <2>2, <2>3 DEF Listing, ListsNames
  <2> QED BY <2>1, <2>4
<1>2. ASSUME NEW m \in 1 .. Len(targets), P(m - 1) PROVE P(m)
  <2> DEFINE A == f[1 .. (m - 1)]
             B == TargetHostLists(conf, r, lmap, targets[m].tag)
  <2>1. f[1 .. m] = Turn("hostnames", conf, r, lmap, targets[m], A)
    BY <1>0, FoldTurns
  <2>2. ASSUME NEW s \in A, NEW t \in B
        PROVE  Listing(s \o t, conf, r, lmap, targets, m)
    <3>1. Listing(s, conf, r, lmap, targets, m - 1)
      BY <1>2
    <3> QED BY <3>1, ListingGoesOn
  <2>3. ASSUME NEW h \in f[1 .. m]
        PROVE  Listing(h, conf, r, lmap, targets, m)
    <3> DEFINE target == targets[m]
    <3>1. h \in Turn("hostnames", conf, r, lmap, target, A)
      BY <2>1
    <3>2. \E s \in A : \E t \in B : h = s \o t
      <4> HIDE DEF A, target
      <4>1. \E s \in A : \E t \in TargetHostLists(conf, r, lmap, target.tag) : h = s \o t
        BY <3>1, TurnOfEach
      <4> QED BY <4>1 DEF target
    <3> HIDE DEF A
    <3> HIDE DEF B
    <3>3. PICK s \in A : \E t \in B : h = s \o t
      BY <3>2
    <3>4. PICK t \in B : h = s \o t
      BY <3>3
    <3>5. Listing(s \o t, conf, r, lmap, targets, m)
      BY <2>2
    <3> QED BY <3>4, <3>5
  <2> QED BY <2>3
<1>3. Bad = {}
  <2> SUFFICES ASSUME Bad # {} PROVE FALSE
    OBVIOUS
  <2> HIDE DEF P
  <2>1. Bad \in SUBSET Nat
    BY <1>0
  <2>2. PICK b \in Bad : \A n \in Bad : b <= n
    BY <2>1, LeastPosition
  <2>3. b \in 1 .. Len(targets) /\ b - 1 \in 0 .. Len(targets) /\ b - 1 \notin Bad
    BY <1>0, <1>1, <2>2
  <2>4. P(b - 1)
    BY <2>3
  <2>5. P(b)
    BY <1>2, <2>3, <2>4
  <2> QED BY <2>2, <2>5
<1>4. \A m \in 0 .. Len(targets) : P(m)
  <2> HIDE DEF P
  <2> QED BY <1>3
<1> QED BY <1>4

(* Whatever order Go's maps give, the hostnames that makeHTTPRouteSpec     *)
(* lists are the names of all targets, three or four for each.             *)
THEOREM HostnamesOfEveryTraffic ==
  ASSUME NEW conf, NEW r, NEW lmap, NEW S, NEW targets \in Seq(S),
         NEW h \in HostLists(conf, r, lmap, targets)
  PROVE  /\ ListsNames(h, conf, r, lmap, targets, 1, Len(targets))
         /\ Len(h) = TargetWidth(lmap) * Len(targets)
<1> DEFINE k == Len(targets)
<1>1. PICK f : /\ FoldsUpTo(f, "hostnames", conf, r, lmap, targets, k)
               /\ HostLists(conf, r, lmap, targets) = f[1 .. k]
  BY HostListsFold
<1>2. k \in 0 .. k
  BY LenProperties
<1>3. FoldsUpTo(f, "hostnames", conf, r, lmap, targets, k)
  BY <1>1
<1>4. \A m \in 0 .. k : \A g \in f[1 .. m] : Listing(g, conf, r, lmap, targets, m)
  BY <1>3, HostListsAfter
<1>5. Listing(h, conf, r, lmap, targets, k)
  BY <1>1, <1>2, <1>4
<1> QED BY <1>5 DEF Listing

(* Hence reconcileGateway and makeHTTPRouteSpec, which each derive the     *)
(* hostnames on their own, agree: the HTTPRoute has exactly the names of   *)
(* the Gateways' listeners, for traffic of any length.                     *)
THEOREM HostnamesAreOfListeners ==
  ASSUME NEW conf, NEW r, NEW lmap, NEW S, NEW targets \in Seq(S),
         NEW h \in HostLists(conf, r, lmap, targets), NEW x
  PROVE  LET hosts == VisibilityHosts(conf, r, lmap, targets)
         IN  Lists(h, x) <=> \E v \in DOMAIN hosts : Lists(hosts[v], x)
<1> DEFINE hosts == VisibilityHosts(conf, r, lmap, targets)
           k == Len(targets)
           Vs == RouteVisibilitySet(lmap)
           names(n) == NamesTarget(x, conf, r, lmap, targets, n)
<1>0. k \in Nat /\ (k = 0 <=> targets = << >>)
  BY EmptySeq, LenProperties
<1>1. Lists(h, x) <=> \E n \in 1 .. k : names(n)
  <2>1. ListsNames(h, conf, r, lmap, targets, 1, k)
    BY HostnamesOfEveryTraffic
  <2> QED BY <2>1 DEF ListsNames, Lists
<1>2. /\ DOMAIN hosts = IF targets = << >> THEN {} ELSE Vs
      /\ \A v \in DOMAIN hosts : NamesInOrder(hosts[v], conf, r, lmap, targets, v, k)
  BY ListenersOfEveryTraffic
<1> HIDE DEF hosts
<1>3. ASSUME NEW n \in 1 .. k, names(n)
      PROVE  \E v \in DOMAIN hosts : Lists(hosts[v], x)
  <2>0. PICK v \in Vs : \E j \in 1 .. Width(v) : x = TargetName(conf, r, lmap, targets, n, v, j)
    BY <1>3 DEF NamesTarget
  <2>1. PICK j \in 1 .. Width(v) : x = TargetName(conf, r, lmap, targets, n, v, j)
    BY <2>0
  <2>2. v \in DOMAIN hosts /\ NamesInOrder(hosts[v], conf, r, lmap, targets, v, k)
    BY <1>0, <1>2
  <2>3. hosts[v][Width(v) * (n - 1) + j] = x /\ Len(hosts[v]) = Width(v) * k
    BY <2>1, <2>2 DEF NamesInOrder
  <2>4. Width(v) * (n - 1) + j \in 1 .. Width(v) * k
    <3>1. (Width(v) = 3 \/ Width(v) = 1) /\ n \in 1 .. k /\ j \in 1 .. Width(v)
      BY DEF Width
    <3> QED BY <1>0, <3>1
  <2> QED BY <2>2, <2>3, <2>4 DEF Lists
<1>4. ASSUME NEW v \in DOMAIN hosts, Lists(hosts[v], x)
      PROVE  \E n \in 1 .. k : names(n)
  <2> DEFINE w == Width(v)
  <2>1. v \in Vs /\ (w = 3 \/ w = 1)
    BY <1>2 DEF Width
  <2>2. PICK i \in 1 .. w * k : hosts[v][i] = x
    BY <1>2, <1>4 DEF Lists, NamesInOrder
  <2>3. \E n \in 1 .. k : \E j \in 1 .. w : i = w * (n - 1) + j
    <3>1. CASE w = 1
      <4>1. i \in 1 .. k /\ 1 \in 1 .. w /\ i = w * (i - 1) + 1
        BY <1>0, <3>1
      <4> QED BY <4>1
    <3>2. CASE w = 3
      <4> DEFINE n == ((i - 1) \div 3) + 1
                 j == ((i - 1) % 3) + 1
      <4>1. i \in 1 .. 3 * k
        BY <3>2
      <4>2. n \in 1 .. k /\ j \in 1 .. 3 /\ i = 3 * (n - 1) + j
        BY <1>0, <4>1
      <4> QED BY <3>2, <4>2
    <3> QED BY <2>1, <3>1, <3>2
  <2>4. PICK n \in 1 .. k : \E j \in 1 .. w : i = w * (n - 1) + j
    BY <2>3
  <2>5. PICK j \in 1 .. w : i = w * (n - 1) + j
    BY <2>4
  <2>6. x = TargetName(conf, r, lmap, targets, n, v, j)
    BY <1>2, <2>2, <2>5 DEF NamesInOrder
  <2>7. names(n)
    BY <2>1, <2>6 DEF NamesTarget
  <2> QED BY <2>7
<1> QED BY <1>1, <1>3, <1>4 DEF hosts

(* So every hostname of the HTTPRoute has its listener.                    *)
LEMMA EveryHostListens ==
  ASSUME NEW conf, NEW r, NEW lmap, NEW S, NEW targets \in Seq(S),
         NEW h \in HostLists(conf, r, lmap, targets), NEW i \in DOMAIN h
  PROVE  LET hosts == VisibilityHosts(conf, r, lmap, targets)
         IN  \E v \in DOMAIN hosts :
               /\ targets # << >> /\ v \in {Visibility(lmap), "cluster-local"}
               /\ \E j \in DOMAIN hosts[v] : hosts[v][j] = h[i]
<1> DEFINE hosts == VisibilityHosts(conf, r, lmap, targets)
           N == NameSet(conf, r, targets)
<1>1. h \in Seq(N)
  BY HostnamesOfEveryTraffic DEF ListsNames
<1>2. Lists(h, h[i])
  <2> HIDE DEF N
  <2>1. i \in 1 .. Len(h)
    BY <1>1
  <2> QED BY <2>1 DEF Lists
<1>3. Lists(h, h[i]) <=> \E v \in DOMAIN hosts : Lists(hosts[v], h[i])
  BY HostnamesAreOfListeners
<1>4. /\ DOMAIN hosts = IF targets = << >> THEN {} ELSE RouteVisibilitySet(lmap)
      /\ \A v \in DOMAIN hosts : NamesInOrder(hosts[v], conf, r, lmap, targets, v, Len(targets))
  BY ListenersOfEveryTraffic
<1> HIDE DEF hosts
<1>5. PICK v \in DOMAIN hosts : Lists(hosts[v], h[i])
  BY <1>2, <1>3
<1>6. targets # << >> /\ v \in {Visibility(lmap), "cluster-local"}
  BY <1>4, <1>5 DEF RouteVisibilitySet
<1>7. hosts[v] \in Seq(N)
  BY <1>4 DEF NamesInOrder
<1>8. PICK j \in 1 .. Len(hosts[v]) : hosts[v][j] = h[i]
  BY <1>5 DEF Lists
<1>9. j \in DOMAIN hosts[v]
  <2> HIDE DEF N
  <2> QED BY <1>7, <1>8
<1> QED BY <1>6, <1>8, <1>9 DEF hosts

-----------------------------------------------------------------------------
(* The machine that walks the traffic.                                     *)

WalkInv ==
  /\ cfg \in Configs
  /\ labels \in LabelMaps
  /\ traffic \in Seq([tag : Tags, split : Splittings])

LEMMA AlwaysWalking == Spec => []WalkInv
<1>1. Init => WalkInv
  BY DEF Init, WalkInv
<1>2. WalkInv /\ [Next]_vars => WalkInv'
  <2> DEFINE Targets == [tag : Tags, split : Splittings]
  <2> SUFFICES ASSUME WalkInv, [Next]_vars PROVE WalkInv'
    OBVIOUS
  <2>1. ASSUME NEW tag \in Tags, NEW split \in Splittings, AddTarget(tag, split)
        PROVE  WalkInv'
    <3>1. [tag |-> tag, split |-> split] \in Targets
      OBVIOUS
    <3> DEFINE target == [tag |-> tag, split |-> split]
    <3>2. traffic \in Seq(Targets) /\ traffic' = Append(traffic, target)
      BY <2>1 DEF WalkInv, AddTarget
    <3>3. traffic' \in Seq(Targets)
      <4> HIDE DEF Targets, target
      <4> QED BY <3>1, <3>2 DEF target
    <3> QED BY <2>1, <3>3 DEF WalkInv, AddTarget
  <2>2. CASE UNCHANGED vars
    BY <2>2 DEF WalkInv, vars
  <2> QED BY <2>1, <2>2 DEF Next
<1> QED BY <1>1, <1>2, PTL DEF Spec

LEMMA WalkComplete == WalkInv => HostsComplete
<1> SUFFICES ASSUME WalkInv, NEW r \in Routes
             PROVE  /\ DOMAIN Hosts(r) = RouteVisibilities(route)
                    /\ \A v \in DOMAIN Hosts(r) : Hosts(r)[v] = ReferenceHosts(r, v)
  BY DEF HostsComplete
<1> DEFINE hosts == VisibilityHosts(cfg, r, labels, traffic)
           k == Len(traffic)
           N == NameSet(cfg, r, traffic)
           Targets == [tag : Tags, split : Splittings]
<1>1. traffic \in Seq(Targets) /\ Hosts(r) = hosts
  BY DEF WalkInv, Hosts
<1>2. k \in Nat /\ DOMAIN traffic = 1 .. k
  <2> HIDE DEF Targets
  <2> QED BY <1>1
<1>3. /\ DOMAIN hosts = IF traffic = << >> THEN {} ELSE RouteVisibilitySet(labels)
      /\ \A v \in DOMAIN hosts : NamesInOrder(hosts[v], cfg, r, labels, traffic, v, k)
  BY <1>1, ListenersOfEveryTraffic
<1> HIDE DEF hosts
<1>4. DOMAIN hosts = RouteVisibilities(route)
  BY <1>3 DEF RouteVisibilities, RouteVisibilitySet, route
<1>5. ASSUME NEW v \in DOMAIN hosts
      PROVE  hosts[v] = ReferenceHosts(r, v)
  <2> DEFINE w == Width(v)
  <2>1. /\ hosts[v] \in Seq(N) /\ Len(hosts[v]) = w * k
        /\ \A n \in 1 .. k, j \in 1 .. w :
             hosts[v][w * (n - 1) + j] = TargetName(cfg, r, labels, traffic, n, v, j)
    BY <1>3 DEF NamesInOrder
  <2>2. hosts[v] = [p \in 1 .. w * k |-> hosts[v][p]]
    <3> HIDE DEF N, w
    <3> QED BY <2>1
  <2>3. v \in {Visibility(labels), "cluster-local"}
    BY <1>3 DEF RouteVisibilitySet
  <2>4. CASE v = "cluster-local"
    <3>1. w = 3
      BY <2>4 DEF Width
    <3>2. ASSUME NEW p \in 1 .. 3 * k
          PROVE  hosts[v][p] = LocalHosts(r, traffic[((p - 1) \div 3) + 1].tag)[((p - 1) % 3) + 1]
      <4> DEFINE n == ((p - 1) \div 3) + 1
                 j == ((p - 1) % 3) + 1
      <4>1. n \in 1 .. k /\ j \in 1 .. 3 /\ p = 3 * (n - 1) + j
        BY <1>2
      <4> HIDE DEF n, j
      <4>2. hosts[v][p] = TargetName(cfg, r, labels, traffic, n, v, j)
        BY <2>1, <3>1, <4>1
      <4>3. TargetName(cfg, r, labels, traffic, n, v, j) = LocalHosts(r, traffic[n].tag)[j]
        BY <2>3, <2>4 DEF TargetName, VisibilityToDomain
      <4> QED BY <4>2, <4>3 DEF n, j
    <3>3. ReferenceHosts(r, v)
            = [p \in 1 .. 3 * k |->
                 LocalHosts(r, traffic[((p - 1) \div 3) + 1].tag)[((p - 1) % 3) + 1]]
      BY <2>4 DEF ReferenceHosts
    <3> HIDE DEF w
    <3> QED BY <2>2, <3>1, <3>2, <3>3
  <2>5. CASE v # "cluster-local"
    <3>1. w = 1 /\ 1 \in 1 .. w
      BY <2>5 DEF Width
    <3>2. ASSUME NEW n \in 1 .. k
          PROVE  hosts[v][n] = <<r, traffic[n].tag, cfg.domain>>
      <4>1. hosts[v][n] = TargetName(cfg, r, labels, traffic, n, v, 1)
        <5>1. w * (n - 1) + 1 = n
          BY <1>2, <3>1
        <5> QED BY <2>1, <3>1, <5>1
      <4>2. TargetName(cfg, r, labels, traffic, n, v, 1) = <<r, traffic[n].tag, cfg.domain>>
        BY <2>3, <2>5 DEF TargetName, VisibilityToDomain
      <4> QED BY <4>1, <4>2
    <3>3. ReferenceHosts(r, v) = [n \in 1 .. k |-> <<r, traffic[n].tag, cfg.domain>>]
      BY <2>5 DEF ReferenceHosts
    <3> HIDE DEF w
    <3>4. w * k = k
      <4> HIDE DEF k
      <4> QED BY <1>2, <3>1
    <3> QED BY <2>2, <3>2, <3>3, <3>4
  <2> QED BY <2>4, <2>5
<1> QED BY <1>1, <1>4, <1>5

(* UnionMaps, called once for each target, neither loses nor repeats a     *)
(* name: reconcileGateway gives each Gateway the names of all targets, in  *)
(* their order, however many there are.                                    *)
THEOREM HostsAlwaysComplete == Spec => []HostsComplete
  BY WalkComplete, AlwaysWalking, PTL

(* The API server's limit on the hostnames of an HTTPRoute is a limit on   *)
(* the targets, whichever order Go's maps give.                            *)
THEOREM HostnamesAlwaysFit == Spec => []HostnamesFit
<1>1. WalkInv => HostnamesFit
  <2> SUFFICES ASSUME WalkInv, NEW r \in Routes, NEW h \in HostLists(cfg, r, labels, traffic)
               PROVE  Len(h) <= MaxHostnames <=>
                        Len(traffic) <= (IF Visibility(labels) = "cluster-local" THEN 5 ELSE 4)
    BY DEF HostnamesFit
  <2> DEFINE Targets == [tag : Tags, split : Splittings]
  <2>1. traffic \in Seq(Targets)
    BY DEF WalkInv
  <2>2. Len(h) = TargetWidth(labels) * Len(traffic)
    BY <2>1, HostnamesOfEveryTraffic
  <2>3. Len(traffic) \in Nat
    <3> HIDE DEF Targets
    <3> QED BY <2>1
  <2>4. TargetWidth(labels) = IF Visibility(labels) = "cluster-local" THEN 3 ELSE 4
    BY DEF TargetWidth
  <2> QED BY <2>2, <2>3, <2>4 DEF MaxHostnames
<1> QED BY <1>1, AlwaysWalking, PTL

-----------------------------------------------------------------------------
(* How often a name occurs.                                                *)

LEMMA CountedFinitely ==
  ASSUME NEW N, NEW s \in Seq(N), NEW x
  PROVE  /\ IsFiniteSet({i \in DOMAIN s : s[i] = x})
         /\ Occurrences(s, x) \in Nat
<1> DEFINE A == {i \in DOMAIN s : s[i] = x}
<1>1. DOMAIN s = 1 .. Len(s) /\ Len(s) \in Nat
  OBVIOUS
<1>2. IsFiniteSet(DOMAIN s)
  BY <1>1, FS_Interval
<1>3. A \in SUBSET DOMAIN s
  OBVIOUS
<1> HIDE DEF A
<1>4. IsFiniteSet(A)
  BY <1>2, <1>3, FS_Subset
<1> QED BY <1>4, FS_CardinalityType DEF A, Occurrences

LEMMA CountsAdd ==
  ASSUME NEW N, NEW s \in Seq(N), NEW t \in Seq(N), NEW x
  PROVE  Occurrences(s \o t, x) = Occurrences(s, x) + Occurrences(t, x)
<1> DEFINE a == Len(s)
           A == {i \in DOMAIN s : s[i] = x}
           B == {i \in DOMAIN t : t[i] = x}
           C == {i \in DOMAIN (s \o t) : (s \o t)[i] = x}
           D == {a + i : i \in B}
           f == [i \in B |-> a + i]
<1>1. /\ s \o t \in Seq(N) /\ Len(s \o t) = a + Len(t)
      /\ a \in Nat /\ Len(t) \in Nat
      /\ \A i \in 1 .. a : (s \o t)[i] = s[i]
      /\ \A i \in 1 .. Len(t) : (s \o t)[a + i] = t[i]
  BY Concatenated
<1>2. DOMAIN s = 1 .. a /\ DOMAIN t = 1 .. Len(t) /\ DOMAIN (s \o t) = 1 .. a + Len(t)
  BY <1>1
<1>3. IsFiniteSet(A) /\ IsFiniteSet(B)
  BY CountedFinitely
<1>4. f \in Bijection(B, D)
  <2>1. f \in [B -> D]
    OBVIOUS
  <2>2. \A i, j \in B : f[i] = f[j] => i = j
    BY <1>1, <1>2
  <2>3. \A d \in D : \E i \in B : f[i] = d
    OBVIOUS
  <2> HIDE DEF f, D, B
  <2> QED BY <2>1, <2>2, <2>3 DEF Bijection, Injection, Surjection, IsInjective
<1>5. IsFiniteSet(D) /\ Cardinality(D) = Cardinality(B)
  <2>1. ExistsBijection(B, D)
    BY <1>4 DEF ExistsBijection
  <2> HIDE DEF B, D
  <2> QED BY <1>3, <2>1, FS_Bijection
<1>6. C = A \cup D
  <2>1. ASSUME NEW i \in C PROVE i \in A \cup D
    <3>1. CASE i \in 1 .. a
      BY <1>1, <1>2, <3>1
    <3>2. CASE i \notin 1 .. a
      <4>1. i - a \in 1 .. Len(t) /\ i = a + (i - a)
        BY <1>1, <1>2, <3>2
      <4>2. t[i - a] = x
        BY <1>1, <4>1
      <4>3. i - a \in B
        BY <1>2, <4>1, <4>2
      <4> HIDE DEF B
      <4> QED BY <4>1, <4>3
    <3> QED BY <3>1, <3>2
  <2>2. ASSUME NEW i \in A PROVE i \in C
    <3>1. i \in 1 .. a /\ i \in 1 .. a + Len(t)
      BY <1>1, <1>2
    <3> QED BY <1>1, <1>2, <3>1
  <2>3. ASSUME NEW d \in D PROVE d \in C
    <3>1. PICK i \in B : d = a + i
      OBVIOUS
    <3>2. i \in 1 .. Len(t) /\ t[i] = x
      BY <1>2
    <3>3. d \in 1 .. a + Len(t) /\ (s \o t)[d] = x
      BY <1>1, <3>1, <3>2
    <3> QED BY <1>2, <3>3
  <2> HIDE DEF A, C, D
  <2> QED BY <2>1, <2>2, <2>3
<1>7. A \cap D = {}
  <2>1. ASSUME NEW d \in D PROVE d \notin A
    <3>1. PICK i \in B : d = a + i
      OBVIOUS
    <3>2. i \in 1 .. Len(t)
      BY <1>2
    <3>3. d \notin 1 .. a
      BY <1>1, <3>1, <3>2
    <3> QED BY <1>2, <3>3
  <2> HIDE DEF A, D
  <2> QED BY <2>1
<1> HIDE DEF A, B, C, D
<1>8. Cardinality(C) = Cardinality(A) + Cardinality(B)
  <2>1. Cardinality(A \cup D) = Cardinality(A) + Cardinality(D) - Cardinality(A \cap D)
    BY <1>3, <1>5, FS_Union
  <2>2. Cardinality(A \cap D) = 0
    BY <1>7, FS_EmptySet
  <2>3. Cardinality(A) \in Nat /\ Cardinality(B) \in Nat
    BY <1>3, FS_CardinalityType
  <2> QED BY <1>5, <1>6, <2>1, <2>2, <2>3
<1> QED BY <1>8 DEF A, B, C, Occurrences

LEMMA NothingOccurs ==
  ASSUME NEW x
  PROVE  Occurrences(<< >>, x) = 0
<1>1. {i \in DOMAIN << >> : << >>[i] = x} = {}
  <2>1. DOMAIN << >> = {}
    OBVIOUS
  <2> QED BY <2>1
<1> QED BY <1>1, FS_EmptySet DEF Occurrences

(* How many listeners have the name x, over all Gateways.                  *)
ListenersNamed(hosts, x) ==
  Occurrences(HostsAt(hosts, "default"), x) + Occurrences(HostsAt(hosts, "cluster-local"), x)

SameCounts(h, hosts) == \A x : Occurrences(h, x) = ListenersNamed(hosts, x)

LEMMA UnionAt ==
  ASSUME NEW N, NEW m1, NEW m2, NEW v, HostsAt(m1, v) \in Seq(N), HostsAt(m2, v) \in Seq(N)
  PROVE  HostsAt(UnionMaps(m1, m2), v) = HostsAt(m1, v) \o HostsAt(m2, v)
<1>1. CASE v \in DOMAIN m1 \cup DOMAIN m2
  BY <1>1 DEF UnionMaps, HostsAt
<1>2. CASE v \notin DOMAIN m1 \cup DOMAIN m2
  <2>1. HostsAt(m1, v) = << >> /\ HostsAt(m2, v) = << >>
    BY <1>2 DEF HostsAt
  <2>2. HostsAt(UnionMaps(m1, m2), v) = << >>
    BY <1>2 DEF HostsAt, UnionMaps
  <2>3. << >> \o << >> = << >>
    OBVIOUS
  <2> QED BY <2>1, <2>2, <2>3
<1> QED BY <1>1, <1>2

LEMMA NamesAt ==
  ASSUME NEW conf, NEW r, NEW lmap, NEW targets, NEW n \in DOMAIN targets, NEW v
  PROVE  HostsAt(VisibilityToDomain(conf, r, lmap, targets[n].tag), v)
           \in Seq(NameSet(conf, r, targets))
<1> DEFINE names == VisibilityToDomain(conf, r, lmap, targets[n].tag)
           N == NameSet(conf, r, targets)
<1>1. DOMAIN names = RouteVisibilitySet(lmap)
  BY DEF VisibilityToDomain, RouteVisibilitySet
<1>2. v \in RouteVisibilitySet(lmap) => names[v] \in Seq(N)
  BY NamesOfTarget
<1> HIDE DEF names, N
<1>3. HostsAt(names, v) \in Seq(N)
  BY <1>1, <1>2 DEF HostsAt
<1> QED BY <1>3 DEF names, N

(* One target adds to the HTTPRoute what it adds to the Gateways.          *)
LEMMA TargetCounts ==
  ASSUME NEW conf, NEW r, NEW lmap, NEW targets, NEW n \in DOMAIN targets,
         NEW t \in TargetHostLists(conf, r, lmap, targets[n].tag)
  PROVE  /\ t \in Seq(NameSet(conf, r, targets))
         /\ SameCounts(t, VisibilityToDomain(conf, r, lmap, targets[n].tag))
<1> DEFINE names == VisibilityToDomain(conf, r, lmap, targets[n].tag)
           N == NameSet(conf, r, targets)
           own == HostsAt(names, "default")
           cl == HostsAt(names, "cluster-local")
<1>1. own \in Seq(N) /\ cl \in Seq(N)
  BY NamesAt
<1>2. \/ Visibility(lmap) = "cluster-local" /\ t = cl /\ own = << >>
      \/ t = own \o cl
      \/ t = cl \o own
  BY DEF TargetHostLists, Visibility, VisibilityToDomain, HostsAt
<1> HIDE DEF own, cl, N
<1>3. \A x : Occurrences(own, x) \in Nat /\ Occurrences(cl, x) \in Nat
  BY <1>1, CountedFinitely
<1>4. ASSUME NEW x
      PROVE  t \in Seq(N) /\ Occurrences(t, x) = Occurrences(own, x) + Occurrences(cl, x)
  <2>1. CASE t = cl /\ own = << >>
    BY <1>1, <1>3, <2>1, NothingOccurs
  <2>2. CASE t = own \o cl
    <3>1. own \o cl \in Seq(N)
      BY <1>1, Concatenated
    <3>2. Occurrences(own \o cl, x) = Occurrences(own, x) + Occurrences(cl, x)
      BY <1>1, CountsAdd
    <3> QED BY <2>2, <3>1, <3>2
  <2>3. CASE t = cl \o own
    <3>1. cl \o own \in Seq(N)
      BY <1>1, Concatenated
    <3>2. Occurrences(cl \o own, x) = Occurrences(cl, x) + Occurrences(own, x)
      BY <1>1, CountsAdd
    <3> QED BY <1>3, <2>3, <3>1, <3>2
  <2> QED BY <1>2, <2>1, <2>2, <2>3
<1>5. \A x : Occurrences(t, x) = ListenersNamed(names, x)
  BY <1>4 DEF ListenersNamed, own, cl
<1> QED BY <1>4, <1>5 DEF N, SameCounts

(* After m targets, h has each name as often as all Gateways together.     *)
Counted(h, conf, r, targets, hosts) ==
  /\ h \in Seq(NameSet(conf, r, targets))
  /\ \A v \in Visibilities : HostsAt(hosts, v) \in Seq(NameSet(conf, r, targets))
  /\ SameCounts(h, hosts)

LEMMA CountingGoesOn ==
  ASSUME NEW conf, NEW r, NEW lmap, NEW targets, NEW n \in DOMAIN targets,
         NEW s, NEW hosts, Counted(s, conf, r, targets, hosts),
         NEW t \in TargetHostLists(conf, r, lmap, targets[n].tag)
  PROVE  Counted(s \o t, conf, r, targets,
                 UnionMaps(hosts, VisibilityToDomain(conf, r, lmap, targets[n].tag)))
<1> DEFINE names == VisibilityToDomain(conf, r, lmap, targets[n].tag)
           both == UnionMaps(hosts, names)
           N == NameSet(conf, r, targets)
           old(v) == HostsAt(hosts, v)
           new(v) == HostsAt(names, v)
<1>1. /\ s \in Seq(N) /\ t \in Seq(N)
      /\ \A v \in Visibilities : old(v) \in Seq(N) /\ new(v) \in Seq(N)
  BY NamesAt, TargetCounts DEF Counted
<1>2. /\ \A x : Occurrences(s, x) = ListenersNamed(hosts, x)
      /\ \A x : Occurrences(t, x) = ListenersNamed(names, x)
  <2>1. SameCounts(t, names)
    BY TargetCounts
  <2> HIDE DEF names
  <2> QED BY <2>1 DEF Counted, SameCounts
<1> HIDE DEF names, N
<1>3. \A v \in Visibilities : HostsAt(both, v) = old(v) \o new(v)
  BY <1>1, UnionAt
<1>4. "default" \in Visibilities /\ "cluster-local" \in Visibilities
  BY DEF Visibilities
<1> HIDE DEF both, old, new
<1>5. ASSUME NEW v \in Visibilities, NEW x
      PROVE  /\ old(v) \o new(v) \in Seq(N)
             /\ Occurrences(old(v), x) \in Nat /\ Occurrences(new(v), x) \in Nat
             /\ Occurrences(old(v) \o new(v), x) = Occurrences(old(v), x) + Occurrences(new(v), x)
  <2> DEFINE a == old(v)
             b == new(v)
  <2>1. a \in Seq(N) /\ b \in Seq(N)
    BY <1>1
  <2> HIDE DEF a, b
  <2>2. /\ a \o b \in Seq(N)
        /\ Occurrences(a, x) \in Nat /\ Occurrences(b, x) \in Nat
        /\ Occurrences(a \o b, x) = Occurrences(a, x) + Occurrences(b, x)
    BY <2>1, Concatenated, CountedFinitely, CountsAdd
  <2> QED BY <2>2 DEF a, b
<1>6. ASSUME NEW x
      PROVE  Occurrences(s \o t, x) = ListenersNamed(both, x)
  <2>1. Occurrences(s \o t, x) = Occurrences(s, x) + Occurrences(t, x)
    BY <1>1, CountsAdd
  <2>2. Occurrences(s, x) = Occurrences(old("default"), x) + Occurrences(old("cluster-local"), x)
    BY <1>2 DEF ListenersNamed, old
  <2>3. Occurrences(t, x) = Occurrences(new("default"), x) + Occurrences(new("cluster-local"), x)
    BY <1>2 DEF ListenersNamed, new
  <2>4. ListenersNamed(both, x) = Occurrences(old("default") \o new("default"), x)
                                    + Occurrences(old("cluster-local") \o new("cluster-local"), x)
    BY <1>3, <1>4 DEF ListenersNamed
  <2>5. \A v \in Visibilities :
          /\ Occurrences(old(v), x) \in Nat /\ Occurrences(new(v), x) \in Nat
          /\ Occurrences(old(v) \o new(v), x) = Occurrences(old(v), x) + Occurrences(new(v), x)
    BY <1>5
  <2> QED BY <1>4, <2>1, <2>2, <2>3, <2>4, <2>5
<1>7. s \o t \in Seq(N)
  BY <1>1, Concatenated
<1>8. \A v \in Visibilities : HostsAt(both, v) \in Seq(N)
  BY <1>3, <1>5
<1> QED BY <1>6, <1>7, <1>8 DEF Counted, SameCounts, both, names, N

LEMMA CountsAfter ==
  ASSUME NEW conf, NEW r, NEW lmap, NEW S, NEW targets \in Seq(S),
         NEW f, FoldsUpTo(f, "hostnames", conf, r, lmap, targets, Len(targets)),
         NEW g, FoldsUpTo(g, "listeners", conf, r, lmap, targets, Len(targets))
  PROVE  \A m \in 0 .. Len(targets) : \A h \in f[1 .. m] :
           Counted(h, conf, r, targets, g[1 .. m])
<1> DEFINE P(m) == \A h \in f[1 .. m] : Counted(h, conf, r, targets, g[1 .. m])
           Bad == {m \in 0 .. Len(targets) : ~P(m)}
<1>0. Len(targets) \in Nat /\ DOMAIN targets = 1 .. Len(targets)
  BY LenProperties
<1>1. P(0)
  <2>1. f[1 .. 0] = {<< >>} /\ g[1 .. 0] = << >>
    BY <1>0, FoldTurns DEF Begin
  <2>2. << >> \in Seq(NameSet(conf, r, targets)) /\ \A v : HostsAt(<< >>, v) = << >>
    BY EmptySeq DEF HostsAt
  <2>3. \A x : Occurrences(<< >>, x) = 0 /\ ListenersNamed(<< >>, x) = 0
    BY <2>2, NothingOccurs DEF ListenersNamed
  <2>4. Counted(<< >>, conf, r, targets, << >>)
    BY <2>2, <2>3 DEF Counted, SameCounts
  <2> QED BY <2>1, <2>4
<1>2. ASSUME NEW m \in 1 .. Len(targets), P(m - 1) PROVE P(m)
  <2> DEFINE A == f[1 .. (m - 1)]
             target == targets[m]
             hosts == g[1 .. (m - 1)]
  <2>1. f[1 .. m] = Turn("hostnames", conf, r, lmap, target, A)
    BY <1>0, FoldTurns
  <2>2. g[1 .. m] = UnionMaps(hosts, VisibilityToDomain(conf, r, lmap, target.tag))
    <3>1. g[1 .. m] = Turn("listeners", conf, r, lmap, target, hosts)
      BY <1>0, FoldTurns
    <3> QED BY <3>1 DEF Turn
  <2>3. ASSUME NEW s \in A, NEW t \in TargetHostLists(conf, r, lmap, target.tag)
        PROVE  Counted(s \o t, conf, r, targets, g[1 .. m])
    <3>1. Counted(s, conf, r, targets, hosts)
      BY <1>2
    <3>2. m \in DOMAIN targets
      BY <1>0
    <3>3. Counted(s \o t, conf, r, targets,
                  UnionMaps(hosts, VisibilityToDomain(conf, r, lmap, targets[m].tag)))
      <4> HIDE DEF hosts, A
      <4> QED BY <3>1, <3>2, CountingGoesOn
    <3> QED BY <2>2, <3>3
  <2>4. ASSUME NEW h \in f[1 .. m]
        PROVE  Counted(h, conf, r, targets, g[1 .. m])
    <3>1. h \in Turn("hostnames", conf, r, lmap, target, A)
      BY <2>1
    <3> HIDE DEF A, target
    <3>2. \E s \in A : \E t \in TargetHostLists(conf, r, lmap, target.tag) : h = s \o t
      BY <3>1, TurnOfEach
    <3>3. PICK s \in A : \E t \in TargetHostLists(conf, r, lmap, target.tag) : h = s \o t
      BY <3>2
    <3>4. PICK t \in TargetHostLists(conf, r, lmap, target.tag) : h = s \o t
      BY <3>3
    <3>5. Counted(s \o t, conf, r, targets, g[1 .. m])
      BY <2>3
    <3> QED BY <3>4, <3>5
  <2> QED BY <2>4
<1>3. Bad = {}
  <2> SUFFICES ASSUME Bad # {} PROVE FALSE
    OBVIOUS
  <2> HIDE DEF P
  <2>1. Bad \in SUBSET Nat
    BY <1>0
  <2>2. PICK b \in Bad : \A n \in Bad : b <= n
    BY <2>1, LeastPosition
  <2>3. b \in 1 .. Len(targets) /\ b - 1 \in 0 .. Len(targets) /\ b - 1 \notin Bad
    BY <1>0, <1>1, <2>2
  <2>4. P(b - 1)
    BY <2>3
  <2>5. P(b)
    BY <1>2, <2>3, <2>4
  <2> QED BY <2>2, <2>5
<1>4. \A m \in 0 .. Len(targets) : P(m)
  <2> HIDE DEF P
  <2> QED BY <1>3
<1> QED BY <1>4

ListenerNames(hosts) == UNION {{hosts[v][i] : i \in DOMAIN hosts[v]} : v \in DOMAIN hosts}

(* The HTTPRoute and the Gateways have not only the same names: however    *)
(* many targets there are and in whichever order Go's maps come, a name is *)
(* a hostname as often as it is a listener's.                              *)
THEOREM HostnamesAlwaysListeners == Spec => []HostnamesAreListeners
<1>1. ASSUME WalkInv, NEW r \in Routes, NEW h \in HostLists(cfg, r, labels, traffic)
      PROVE  /\ {h[i] : i \in DOMAIN h} = ListenerNames(Hosts(r))
             /\ \A x : Occurrences(h, x) = ListenersNamed(Hosts(r), x)
  <2> DEFINE Targets == [tag : Tags, split : Splittings]
             N == NameSet(cfg, r, traffic)
             k == Len(traffic)
             hosts == VisibilityHosts(cfg, r, labels, traffic)
  <2>1. traffic \in Seq(Targets) /\ Hosts(r) = hosts
    BY <1>1 DEF WalkInv, Hosts
  <2> HIDE DEF Targets
  <2>2. h \in Seq(N)
    BY <2>1, HostnamesOfEveryTraffic DEF ListsNames
  <2>3. \A v \in DOMAIN hosts : hosts[v] \in Seq(N)
    BY <2>1, ListenersOfEveryTraffic DEF NamesInOrder
  <2>4. \A x : Lists(h, x) <=> \E v \in DOMAIN hosts : Lists(hosts[v], x)
    BY <2>1, HostnamesAreOfListeners
  <2>5. PICK f : /\ FoldsUpTo(f, "hostnames", cfg, r, labels, traffic, k)
                 /\ HostLists(cfg, r, labels, traffic) = f[1 .. k]
    BY <2>1, HostListsFold
  <2>6. PICK g : FoldsUpTo(g, "listeners", cfg, r, labels, traffic, k) /\ hosts = g[1 .. k]
    BY <2>1, ListenersFold
  <2>7. \A m \in 0 .. k : \A l \in f[1 .. m] : Counted(l, cfg, r, traffic, g[1 .. m])
    <3>1. /\ FoldsUpTo(f, "hostnames", cfg, r, labels, traffic, k)
          /\ FoldsUpTo(g, "listeners", cfg, r, labels, traffic, k)
      BY <2>5, <2>6
    <3> QED BY <2>1, <3>1, CountsAfter
  <2>8. k \in 0 .. k
    BY <2>1, LenProperties
  <2>9. Counted(h, cfg, r, traffic, hosts)
    BY <1>1, <2>5, <2>6, <2>7, <2>8
  <2> HIDE DEF hosts, N, k
  <2>10. DOMAIN h = 1 .. Len(h) /\ \A v \in DOMAIN hosts : DOMAIN hosts[v] = 1 .. Len(hosts[v])
    BY <2>2, <2>3
  <2>11. {h[i] : i \in DOMAIN h} = ListenerNames(hosts)
    <3>1. \A x : x \in {h[i] : i \in DOMAIN h} <=> Lists(h, x)
      BY <2>10 DEF Lists
    <3>2. \A v \in DOMAIN hosts : \A x : x \in {hosts[v][i] : i \in DOMAIN hosts[v]} <=> Lists(hosts[v], x)
      BY <2>10 DEF Lists
    <3>3. \A x : x \in ListenerNames(hosts) <=> \E v \in DOMAIN hosts : Lists(hosts[v], x)
      BY <3>2 DEF ListenerNames
    <3> QED BY <2>4, <3>1, <3>3
  <2>12. \A x : Occurrences(h, x) = ListenersNamed(hosts, x)
    BY <2>9 DEF Counted, SameCounts
  <2>13. hosts = Hosts(r)
    BY <2>1
  <2> QED BY <2>11, <2>12, <2>13
<1>2. \A hosts, x : ListenersNamed(hosts, x)
        = (IF "default" \in DOMAIN hosts THEN Occurrences(hosts["default"], x) ELSE 0)
          + (IF "cluster-local" \in DOMAIN hosts THEN Occurrences(hosts["cluster-local"], x) ELSE 0)
  BY NothingOccurs DEF ListenersNamed, HostsAt
<1>3. WalkInv => HostnamesAreListeners
  BY <1>1, <1>2 DEF HostnamesAreListeners, ListenerNames
<1> QED BY <1>3, AlwaysWalking, PTL

=============================================================================
