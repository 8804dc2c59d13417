------------------------- MODULE GatewayAPI_proofs -------------------------
(***************************************************************************)
(* What the modules that talk to the API server rely on: which request a   *)
(* client sends, what the objects of a log are at a version, and what each *)
(* request does to the log.                                                *)
(***************************************************************************)
EXTENDS GatewayAPI, FiniteSetTheorems, SequenceTheorems, TLAPS

-----------------------------------------------------------------------------
(* The least and the greatest number of a set.                             *)

\* A set of natural numbers that is not empty has a least one; the order in
\* which a watch delivers rests on it.
LEMMA LeastNumber ==
  ASSUME NEW S \in SUBSET Nat, S # {}
  PROVE  \E m \in S : \A n \in S : m <= n
<1>1. PICK m \in S : \A n \in S : <<n, m>> \notin OpToRel(<, Nat)
  BY NatLessThanWellFounded, WFMin, Zenon
<1>2. \A n \in S : ~(n < m)
  BY <1>1 DEF OpToRel
<1> QED BY <1>2

\* Min of such a set is its least number.
LEMMA MinOf ==
  ASSUME NEW S \in SUBSET Nat, S # {}
  PROVE  Min(S) \in S /\ \A n \in S : Min(S) <= n
<1>1. \E m \in S : \A n \in S : m <= n
  BY LeastNumber
<1> QED BY <1>1 DEF Min

\* Max of a bounded set of natural numbers is its greatest number; the
\* object at a version is the last entry up to it.
LEMMA MaxOf ==
  ASSUME NEW b \in Nat, NEW S \in SUBSET (0 .. b), S # {}
  PROVE  Max(S) \in S /\ \A n \in S : n <= Max(S)
<1> DEFINE T == {b - n : n \in S}
<1>1. T \in SUBSET Nat /\ T # {}
  <2>1. \A n \in S : n \in Int /\ 0 <= n /\ n <= b
    OBVIOUS
  <2>2. \A n \in S : b - n \in Nat
    BY <2>1
  <2> QED BY <2>2
<1>2. PICK m \in T : \A n \in T : m <= n
  BY <1>1, LeastNumber
<1>3. PICK g \in S : m = b - g
  BY <1>2
<1>4. \A n \in S : b - g <= b - n
  BY <1>2, <1>3
<1>5. \A n \in S : n <= g
  BY <1>4
<1>6. \E x \in S : \A y \in S : x >= y
  BY <1>5
<1> QED BY <1>6 DEF Max

\* A sequence that does not change from one position to the next ends as it
\* started; used for the deltas the handlers are not told of.
LEMMA Unchanging ==
  ASSUME NEW m \in Nat, NEW n \in Nat, m <= n, NEW s,
         \A i \in m + 1 .. n : s[i] = s[i - 1]
  PROVE  s[n] = s[m]
<1> SUFFICES ASSUME s[n] # s[m] PROVE FALSE
  OBVIOUS
<1> DEFINE S == {i \in m .. n : s[i] # s[m]}
<1>1. S \in SUBSET Nat /\ n \in S
  OBVIOUS
<1>2. PICK l \in S : \A i \in S : l <= i
  BY <1>1, LeastNumber
<1>3. l \in m + 1 .. n /\ l - 1 \in m .. n /\ l - 1 \notin S
  BY <1>2
<1> QED BY <1>2, <1>3

-----------------------------------------------------------------------------
(* Sequences made from sets.                                               *)

\* A sequence is one over any set that has its elements.
LEMMA SeqOver ==
  ASSUME NEW S, NEW s \in Seq(S), NEW T, \A i \in 1 .. Len(s) : s[i] \in T
  PROVE  s \in Seq(T)
<1>1. Len(s) \in Nat /\ s \in [1 .. Len(s) -> S]
  BY LenProperties
<1>2. s \in [1 .. Len(s) -> T]
  BY <1>1
<1> QED BY <1>1, <1>2, SeqDef

\* SetToSeq lists the elements of a finite set, each once.
LEMMA SetToSeqOf ==
  ASSUME NEW S, IsFiniteSet(S)
  PROVE  /\ SetToSeq(S) \in Seq(S)
         /\ Len(SetToSeq(S)) = Cardinality(S)
         /\ \A i, j \in 1 .. Len(SetToSeq(S)) : SetToSeq(S)[i] = SetToSeq(S)[j] => i = j
         /\ \A x \in S : \E i \in 1 .. Len(SetToSeq(S)) : SetToSeq(S)[i] = x
<1> DEFINE n == Cardinality(S)
           f == SetToSeq(S)
<1>1. n \in Nat /\ ExistsBijection(1 .. n, S)
  BY FS_CardinalityType
<1>2. \E g \in [1 .. n -> S] : IsInjective(g)
  BY <1>1 DEF ExistsBijection, Bijection, Injection
<1>3. f \in [1 .. n -> S] /\ IsInjective(f)
  BY <1>2 DEF SetToSeq
<1>4. f \in Injection(1 .. n, S)
  BY <1>3 DEF Injection
<1>5. IsFiniteSet(1 .. n) /\ Cardinality(1 .. n) = n
  BY <1>1, FS_Interval
<1>6. f \in Surjection(1 .. n, S)
  BY <1>4, <1>5, FS_Injection
<1>7. f \in Seq(S) /\ Len(f) = n
  BY <1>1, <1>3
<1> QED BY <1>1, <1>3, <1>6, <1>7 DEF IsInjective, Surjection

\* The sequence of a set with one element.
LEMMA SetToSeqOfOne ==
  ASSUME NEW x
  PROVE  SetToSeq({x}) = <<x>>
<1>1. IsFiniteSet({x}) /\ Cardinality({x}) = 1
  BY FS_Singleton
<1>2. SetToSeq({x}) \in Seq({x}) /\ Len(SetToSeq({x})) = 1
  BY <1>1, SetToSeqOf
<1>3. <<x>> \in Seq({x}) /\ Len(<<x>>) = 1
  OBVIOUS
<1> DEFINE s == SetToSeq({x})
<1>4. s[1] \in {x}
  BY <1>2, ElementOfSeq
<1>5. \A i \in 1 .. Len(s) : s[i] = <<x>>[i]
  BY <1>2, <1>4
<1> HIDE DEF s
<1>6. s = <<x>>
  BY <1>2, <1>3, <1>5, SeqEqual DEF s
<1> QED BY <1>6 DEF s

Distinct(s)  == \A i, j \in 1 .. Len(s) : s[i] = s[j] => i = j
Occurs(s, x) == \E i \in 1 .. Len(s) : s[i] = x

\* Two sequences without repetitions and without a common element make one
\* without repetitions.
LEMMA ConcatDistinct ==
  ASSUME NEW S, NEW s \in Seq(S), NEW t \in Seq(S), Distinct(s), Distinct(t),
         \A x \in S : ~(Occurs(s, x) /\ Occurs(t, x))
  PROVE  /\ Distinct(s \o t)
         /\ \A x \in S : Occurs(s \o t, x) <=> Occurs(s, x) \/ Occurs(t, x)
<1> DEFINE m == Len(s)
           n == Len(t)
           c == s \o t
<1>1. m \in Nat /\ n \in Nat
  BY LenProperties
<1>2. /\ Len(c) = m + n
      /\ \A i \in 1 .. m + n : c[i] = IF i <= m THEN s[i] ELSE t[i - m]
  BY ConcatProperties
<1>3. \A i, j \in 1 .. m : s[i] = s[j] => i = j
  BY DEF Distinct
<1>4. \A i, j \in 1 .. n : t[i] = t[j] => i = j
  BY DEF Distinct
<1>5. \A i \in 1 .. m, j \in 1 .. n : s[i] # t[j]
  BY ElementOfSeq DEF Occurs
<1> HIDE DEF m, n, c
<1>6. \A i \in 1 .. m + n : i <= m => i \in 1 .. m
  BY <1>1
<1>7. \A i \in 1 .. m + n : ~(i <= m) => i - m \in 1 .. n
  BY <1>1
<1>8. ASSUME NEW i \in 1 .. m + n, NEW j \in 1 .. m + n, c[i] = c[j]
      PROVE  i = j
  <2>1. CASE i <= m /\ j <= m
    BY <1>2, <1>3, <1>6, <1>8, <2>1
  <2>2. CASE ~(i <= m) /\ ~(j <= m)
    <3>1. t[i - m] = t[j - m]
      BY <1>2, <1>8, <2>2
    <3>2. i - m = j - m
      BY <1>4, <1>7, <2>2, <3>1
    <3> QED BY <1>1, <3>2
  <2>3. CASE i <= m /\ ~(j <= m)
    BY <1>2, <1>5, <1>6, <1>7, <1>8, <2>3
  <2>4. CASE ~(i <= m) /\ j <= m
    BY <1>2, <1>5, <1>6, <1>7, <1>8, <2>4
  <2> QED BY <2>1, <2>2, <2>3, <2>4
<1>9. ASSUME NEW x \in S
      PROVE  (\E i \in 1 .. m + n : c[i] = x) <=> (\E i \in 1 .. m : s[i] = x) \/ \E i \in 1 .. n : t[i] = x
  <2>1. ASSUME NEW i \in 1 .. m + n, c[i] = x
        PROVE  (\E j \in 1 .. m : s[j] = x) \/ \E j \in 1 .. n : t[j] = x
    BY <1>2, <1>6, <1>7, <2>1
  <2>2. ASSUME NEW i \in 1 .. m, s[i] = x
        PROVE  \E j \in 1 .. m + n : c[j] = x
    <3>1. i \in 1 .. m + n /\ i <= m
      BY <1>1
    <3> QED BY <1>2, <2>2, <3>1
  <2>3. ASSUME NEW i \in 1 .. n, t[i] = x
        PROVE  \E j \in 1 .. m + n : c[j] = x
    <3>1. m + i \in 1 .. m + n /\ ~(m + i <= m) /\ (m + i) - m = i
      BY <1>1
    <3> QED BY <1>2, <2>3, <3>1
  <2> QED BY <2>1, <2>2, <2>3
<1> QED BY <1>2, <1>8, <1>9 DEF m, n, c, Distinct, Occurs

-----------------------------------------------------------------------------
(* The log and the objects at a version.                                   *)

Entries(keys) == [key : keys, obj : Objects(keys, Nat) \cup {Absent}]

(* A log as the server writes it: an entry holds the object under its key, *)
(* and the position of the entry is the object's resourceVersion.          *)
WellFormed(log, keys) ==
  /\ log \in Seq(Entries(keys))
  /\ \A i \in 1 .. Len(log) :
       log[i].obj # Absent => log[i].obj.key = log[i].key /\ log[i].obj.rv = i

(* An object that the server has stored under its key at some version.     *)
Genuine(log, o) ==
  o.rv \in 1 .. Len(log) /\ log[o.rv].key = o.key /\ log[o.rv].obj = o

EntriesOf(log, v, k) == {i \in 1 .. v : log[i].key = k}

\* The object at a version is what the last entry up to it left.
LEMMA AtLast ==
  ASSUME NEW log, NEW v \in Nat, NEW keys, NEW k \in keys
  PROVE  \/ EntriesOf(log, v, k) = {} /\ At(log, v, keys)[k] = Absent
         \/ \E m \in EntriesOf(log, v, k) :
              /\ \A i \in EntriesOf(log, v, k) : i <= m
              /\ At(log, v, keys)[k] = log[m].obj
<1> DEFINE E == EntriesOf(log, v, k)
<1>1. At(log, v, keys)[k] = IF E = {} THEN Absent ELSE log[Max(E)].obj
  BY DEF At, EntriesOf
<1>2. CASE E # {}
  <2>1. E \in SUBSET (0 .. v)
    BY DEF EntriesOf
  <2>2. Max(E) \in E /\ \A i \in E : i <= Max(E)
    BY <1>2, <2>1, MaxOf
  <2> QED BY <1>1, <1>2, <2>2
<1> QED BY <1>1, <1>2

\* What a log says of a version does not change when the log grows.
LEMMA AtPrefix ==
  ASSUME NEW log, NEW later, NEW v \in Nat, NEW keys,
         \A i \in 1 .. v : later[i] = log[i]
  PROVE  At(later, v, keys) = At(log, v, keys)
<1>1. ASSUME NEW k \in keys
      PROVE  At(later, v, keys)[k] = At(log, v, keys)[k]
  <2> DEFINE E == {i \in 1 .. v : log[i].key = k}
             F == {i \in 1 .. v : later[i].key = k}
  <2>1. E = F
    OBVIOUS
  <2>2. CASE E = {}
    BY <2>1, <2>2 DEF At
  <2>3. CASE E # {}
    <3>1. Max(E) \in E
      <4>1. E \in SUBSET (0 .. v)
        OBVIOUS
      <4> QED BY <2>3, <4>1, MaxOf
    <3>2. log[Max(E)] = later[Max(E)]
      BY <3>1
    <3> HIDE DEF E, F
    <3>3. At(log, v, keys)[k] = log[Max(E)].obj
      BY <2>3 DEF At, E
    <3>4. At(later, v, keys)[k] = later[Max(F)].obj
      BY <2>1, <2>3 DEF At, F
    <3> QED BY <2>1, <3>2, <3>3, <3>4
  <2> QED BY <2>2, <2>3
<1> QED BY <1>1 DEF At

\* The object of a well-formed log at a version is genuine, not newer than
\* the version, and no later entry of its key comes before the version.
LEMMA AtGenuine ==
  ASSUME NEW keys, NEW log, WellFormed(log, keys), NEW v \in 0 .. Len(log), NEW k \in keys,
         At(log, v, keys)[k] # Absent
  PROVE  LET o == At(log, v, keys)[k]
         IN  /\ o \in Objects(keys, Nat) /\ o.key = k
             /\ o.rv \in 1 .. v /\ Genuine(log, o)
             /\ \A i \in o.rv + 1 .. v : log[i].key # k
<1> DEFINE o == At(log, v, keys)[k]
           E == EntriesOf(log, v, k)
<1>0. v \in Nat /\ Len(log) \in Nat
  BY DEF WellFormed
<1>1. PICK m \in E : (\A i \in E : i <= m) /\ o = log[m].obj
  BY <1>0, AtLast
<1>2. m \in 1 .. v /\ m \in 1 .. Len(log) /\ log[m].key = k
  BY <1>0, <1>1 DEF EntriesOf
<1>3. log[m] \in Entries(keys)
  BY <1>2 DEF WellFormed
<1> HIDE DEF o
<1>4. o # Absent
  BY DEF o
<1>5. o.key = k /\ o.rv = m /\ o \in Objects(keys, Nat)
  BY <1>1, <1>2, <1>3, <1>4 DEF WellFormed, Entries
<1>6. \A i \in m + 1 .. v : log[i].key # k
  BY <1>0, <1>1, <1>2 DEF EntriesOf
<1>7. Genuine(log, o)
  BY <1>1, <1>2, <1>5 DEF Genuine
<1> QED BY <1>2, <1>5, <1>6, <1>7 DEF o

\* An object with no later entry of its key is the object at the version.
LEMMA AtCurrent ==
  ASSUME NEW keys, NEW log, WellFormed(log, keys), NEW v \in 0 .. Len(log), NEW o,
         o.key \in keys, Genuine(log, o), o.rv <= v,
         \A i \in o.rv + 1 .. v : log[i].key # o.key
  PROVE  At(log, v, keys)[o.key] = o
<1> DEFINE E == EntriesOf(log, v, o.key)
<1>0. v \in Nat /\ Len(log) \in Nat
  BY DEF WellFormed
<1>1. o.rv \in E
  BY <1>0 DEF Genuine, EntriesOf
<1>2. PICK m \in E : (\A i \in E : i <= m) /\ At(log, v, keys)[o.key] = log[m].obj
  BY <1>0, <1>1, AtLast
<1>3. m = o.rv
  BY <1>0, <1>1, <1>2 DEF EntriesOf
<1> QED BY <1>2, <1>3 DEF Genuine

\* The object at a version is at least as new as any entry of its key.
LEMMA AtNewest ==
  ASSUME NEW keys, NEW log, WellFormed(log, keys), NEW v \in 0 .. Len(log), NEW k \in keys,
         At(log, v, keys)[k] # Absent, NEW i \in 1 .. v, log[i].key = k
  PROVE  At(log, v, keys)[k].rv >= i
<1>1. /\ At(log, v, keys)[k].rv \in 1 .. v
      /\ \A j \in At(log, v, keys)[k].rv + 1 .. v : log[j].key # k
  BY AtGenuine
<1>2. v \in Nat
  BY DEF WellFormed
<1> QED BY <1>1, <1>2

\* One more entry changes the object of its key.
LEMMA AtStep ==
  ASSUME NEW log, NEW v \in Nat, v > 0, NEW keys
  PROVE  At(log, v, keys)
           = [k \in keys |-> IF log[v].key = k THEN log[v].obj ELSE At(log, v - 1, keys)[k]]
<1>1. ASSUME NEW k \in keys
      PROVE  At(log, v, keys)[k] = IF log[v].key = k THEN log[v].obj ELSE At(log, v - 1, keys)[k]
  <2>1. CASE log[v].key = k
    <3>1. v \in EntriesOf(log, v, k)
      BY <2>1 DEF EntriesOf
    <3>2. PICK m \in EntriesOf(log, v, k) :
            (\A i \in EntriesOf(log, v, k) : i <= m) /\ At(log, v, keys)[k] = log[m].obj
      BY <3>1, AtLast
    <3>3. m = v
      BY <3>1, <3>2 DEF EntriesOf
    <3> QED BY <2>1, <3>2, <3>3
  <2>2. CASE log[v].key # k
    <3>1. {i \in 1 .. v : log[i].key = k} = {i \in 1 .. v - 1 : log[i].key = k}
      BY <2>2
    <3> QED BY <2>2, <3>1 DEF At
  <2> QED BY <2>1, <2>2
<1> QED BY <1>1 DEF At

-----------------------------------------------------------------------------
(* Requests and what they do.                                              *)

\* The client of a kind sends its requests under the plural of its kind and
\* the namespace it was given, which is empty for a GatewayClass.
LEMMA SentUnderPlural ==
  ASSUME NEW kind \in Kinds, NEW ns \in ScopeOf(kind) \cup {AllNamespaces}, NEW call
  PROVE  NetworkingV1alpha1(kind, ns, call) = Send(Plural[kind], ns, call)
<1>1. CASE kind = "GatewayClass"
  BY <1>1 DEF NetworkingV1alpha1, GatewayClasses, Plural, ScopeOf
<1>2. CASE kind # "GatewayClass"
  BY <1>2 DEF Kinds, NetworkingV1alpha1, Plural, BackendPolicies, Gateways, HTTPRoutes, TCPRoutes,
              TLSRoutes, UDPRoutes
<1> QED BY <1>1, <1>2

\* A key is its namespace and its name, and its name is not empty.
LEMMA KeyParts ==
  ASSUME NEW kind \in Kinds, NEW k \in KeysOf(kind)
  PROVE  /\ k = <<k[1], k[2]>> /\ k[1] \in ScopeOf(kind) /\ k[2] \in Names /\ k[2] # NoName
<1> QED BY NamesAssumption DEF NamesAssumption, KeysOf

\* There are finitely many keys.
LEMMA KeysOfFinite ==
  ASSUME NEW kind \in Kinds
  PROVE  IsFiniteSet(KeysOf(kind))
<1>1. IsFiniteSet({AllNamespaces})
  BY FS_Singleton
<1>2. IsFiniteSet(ScopeOf(kind))
  BY <1>1, NamesAssumption DEF NamesAssumption, ScopeOf
<1> QED BY <1>2, NamesAssumption, FS_Product DEF NamesAssumption, KeysOf

\* No object is the value that stands for none.
LEMMA AbsentIsNoObject ==
  ASSUME NEW kind \in Kinds
  PROVE  Absent \notin Objects(KeysOf(kind), Nat)
<1> QED BY ContentsAssumption DEF ContentsAssumption

\* The removal of one object is one entry.
LEMMA RemovalOfOne ==
  ASSUME NEW o
  PROVE  Removals({o}) = <<[key |-> o.key, obj |-> Absent]>>
<1>1. {[key |-> p.key, obj |-> Absent] : p \in {o}} = {[key |-> o.key, obj |-> Absent]}
  OBVIOUS
<1> QED BY <1>1, SetToSeqOfOne DEF Removals

(* What Create makes of the object it is given, and what it does with it.  *)
Created(log, o) == [o EXCEPT !.status = Empty, !.rv = Len(log) + 1]
Appended(log, k, obj) ==
  [log |-> Append(log, [key |-> k, obj |-> obj]), answer |-> OK({obj})]

\* Create appends the object under its key, or is refused because there is
\* one already.
LEMMA CreateServed ==
  ASSUME NEW kind \in Kinds, NEW log, NEW k \in KeysOf(kind), NEW call,
         call.method = "Create", call.body.key = k
  PROVE  Serve(log, KeysOf(kind), NetworkingV1alpha1(kind, k[1], call))
           = IF At(log, Len(log), KeysOf(kind))[k] # Absent THEN Refused(log, "AlreadyExists")
             ELSE Appended(log, k, Created(log, call.body))
<1> DEFINE req == Send(Plural[kind], k[1], call)
           objects == At(log, Len(log), KeysOf(kind))
<1>1. NetworkingV1alpha1(kind, k[1], call) = req
  BY SentUnderPlural, KeyParts
<1>2. req.verb = "POST" /\ req.ns = k[1] /\ req.body = call.body
  BY DEF Send, Request
<1>3. DOMAIN objects = KeysOf(kind) /\ Lookup(objects, k) = objects[k]
  BY DEF At, Lookup
<1>4. InNamespace(req.ns, k)
  BY <1>2 DEF InNamespace
<1> HIDE DEF req, objects
<1>5. Serve(log, KeysOf(kind), req) = ServeCreate(log, objects, req)
  BY <1>2 DEF Serve, objects
<1>6. ServeCreate(log, objects, req)
        = IF objects[k] # Absent THEN Refused(log, "AlreadyExists")
          ELSE Appended(log, k, Created(log, call.body))
  BY <1>2, <1>3, <1>4 DEF ServeCreate, Appended, Created
<1> QED BY <1>1, <1>5, <1>6 DEF objects

\* Requests on one object, by name.
Stored(log, old, new) ==
  LET l == Store(log, old, new)
  IN  [log |-> l, answer |-> OK({IF l = log THEN old ELSE Last(l).obj})]

\* Get answers with the object and changes nothing.
LEMMA GetServed ==
  ASSUME NEW kind \in Kinds, NEW log, NEW k \in KeysOf(kind), NEW call,
         call.method = "Get", call.name = k[2]
  PROVE  LET old == At(log, Len(log), KeysOf(kind))[k]
         IN  Serve(log, KeysOf(kind), NetworkingV1alpha1(kind, k[1], call))
               = IF old = Absent THEN Refused(log, "NotFound")
                 ELSE [log |-> log, answer |-> OK({old})]
<1> DEFINE req == Send(Plural[kind], k[1], call)
           objects == At(log, Len(log), KeysOf(kind))
<1>1. NetworkingV1alpha1(kind, k[1], call) = req
  BY SentUnderPlural, KeyParts
<1>2. req.verb = "GET" /\ req.ns = k[1] /\ req.name = k[2]
  BY DEF Send, Request
<1>3. Lookup(objects, <<k[1], k[2]>>) = objects[k]
  BY KeyParts DEF At, Lookup
<1> HIDE DEF req, objects
<1>4. Serve(log, KeysOf(kind), req) = ServeObject(log, objects, req)
  BY <1>2, KeyParts DEF Serve, objects
<1>5. ServeObject(log, objects, req)
        = IF objects[k] = Absent THEN Refused(log, "NotFound")
          ELSE [log |-> log, answer |-> OK({objects[k]})]
  BY <1>2, <1>3 DEF ServeObject
<1> QED BY <1>1, <1>4, <1>5 DEF objects

\* Delete appends the removal of the object.
LEMMA DeleteServed ==
  ASSUME NEW kind \in Kinds, NEW log, NEW k \in KeysOf(kind), NEW call,
         call.method = "Delete", call.name = k[2]
  PROVE  LET old == At(log, Len(log), KeysOf(kind))[k]
         IN  Serve(log, KeysOf(kind), NetworkingV1alpha1(kind, k[1], call))
               = IF old = Absent THEN Refused(log, "NotFound")
                 ELSE [log |-> log \o <<[key |-> old.key, obj |-> Absent]>>, answer |-> OK({})]
<1> DEFINE req == Send(Plural[kind], k[1], call)
           objects == At(log, Len(log), KeysOf(kind))
<1>1. NetworkingV1alpha1(kind, k[1], call) = req
  BY SentUnderPlural, KeyParts
<1>2. req.verb = "DELETE" /\ req.ns = k[1] /\ req.name = k[2]
  BY DEF Send, Request
<1>3. Lookup(objects, <<k[1], k[2]>>) = objects[k]
  BY KeyParts DEF At, Lookup
<1> HIDE DEF req, objects
<1>4. Serve(log, KeysOf(kind), req) = ServeObject(log, objects, req)
  BY <1>2, KeyParts DEF Serve, objects
<1>5. ServeObject(log, objects, req)
        = IF objects[k] = Absent THEN Refused(log, "NotFound")
          ELSE [log |-> log \o Removals({objects[k]}), answer |-> OK({})]
  BY <1>2, <1>3 DEF ServeObject
<1> QED BY <1>1, <1>4, <1>5, RemovalOfOne DEF objects

(* What Patch sends of its arguments. *)
PatchArguments(call) == [sub |-> call.sub, body |-> call.body]

\* Patch stores the merged object.
LEMMA PatchServed ==
  ASSUME NEW kind \in Kinds, NEW log, NEW k \in KeysOf(kind), NEW call,
         call.method = "Patch", call.name = k[2]
  PROVE  LET old == At(log, Len(log), KeysOf(kind))[k]
         IN  Serve(log, KeysOf(kind), NetworkingV1alpha1(kind, k[1], call))
               = IF old = Absent THEN Refused(log, "NotFound")
                 ELSE Stored(log, old, Patch(old, PatchArguments(call)))
<1> DEFINE req == Send(Plural[kind], k[1], call)
           objects == At(log, Len(log), KeysOf(kind))
<1>1. NetworkingV1alpha1(kind, k[1], call) = req
  BY SentUnderPlural, KeyParts
<1>2. /\ req.verb = "PATCH" /\ req.ns = k[1] /\ req.name = k[2]
      /\ req.sub = call.sub /\ req.body = call.body
  BY DEF Send, Request
<1>3. Lookup(objects, <<k[1], k[2]>>) = objects[k]
  BY KeyParts DEF At, Lookup
<1> HIDE DEF req, objects
<1>4. Serve(log, KeysOf(kind), req) = ServeObject(log, objects, req)
  BY <1>2, KeyParts DEF Serve, objects
<1>5. ServeObject(log, objects, req)
        = IF objects[k] = Absent THEN Refused(log, "NotFound")
          ELSE Stored(log, objects[k], Patch(objects[k], req))
  BY <1>2, <1>3 DEF ServeObject, Stored
<1>6. Patch(objects[k], req) = Patch(objects[k], PatchArguments(call))
  BY <1>2 DEF Patch, PatchArguments
<1> QED BY <1>1, <1>4, <1>5, <1>6 DEF objects

Matching(objects, ns, selector) ==
  {objects[k] : k \in {k \in DOMAIN objects :
     objects[k] # Absent /\ InNamespace(ns, k) /\ Matches(selector, objects[k])}}

\* A list answers with the objects of the namespace that match.
LEMMA ListServed ==
  ASSUME NEW kind \in Kinds, NEW log, NEW objects, NEW ns \in ScopeOf(kind) \cup {AllNamespaces},
         NEW call, call.method = "List"
  PROVE  LET req == NetworkingV1alpha1(kind, ns, call)
         IN  /\ req.verb = "GET" /\ req.name = NoName
             /\ ServeCollection(log, objects, req)
                  = [log |-> log, answer |-> OK(Matching(objects, ns, call.selector))]
<1> DEFINE req == Send(Plural[kind], ns, call)
<1>1. NetworkingV1alpha1(kind, ns, call) = req
  BY SentUnderPlural
<1>2. req.verb = "GET" /\ req.name = NoName /\ req.ns = ns /\ req.selector = call.selector
  BY DEF Send, Request
<1> HIDE DEF req
<1>3. Selected(objects, req) = Matching(objects, ns, call.selector)
  BY <1>2 DEF Selected, Matching
<1>4. ServeCollection(log, objects, req) = [log |-> log, answer |-> OK(Selected(objects, req))]
  BY <1>2 DEF ServeCollection
<1> QED BY <1>1, <1>2, <1>3, <1>4

-----------------------------------------------------------------------------
(* Writes.                                                                 *)

(* An entry that the server may add next: a removal, or the object under   *)
(* its key with the next version.                                          *)
NextEntry(log, e, keys) ==
  e \in Entries(keys) /\ (e.obj # Absent => e.obj.key = e.key /\ e.obj.rv = Len(log) + 1)

\* What Create makes of the object it is given.
LEMMA CreatedObject ==
  ASSUME NEW keys, NEW o \in Objects(keys, Nat), NEW n \in Nat
  PROVE  LET obj == [o EXCEPT !.status = Empty, !.rv = n]
         IN  obj \in Objects(keys, Nat) /\ obj.key = o.key /\ obj.rv = n
<1> QED BY ContentsAssumption DEF Objects, ContentsAssumption

\* A log stays well formed when the server adds an entry.
LEMMA AppendedEntry ==
  ASSUME NEW keys, NEW log, WellFormed(log, keys), NEW e, NextEntry(log, e, keys)
  PROVE  /\ WellFormed(Append(log, e), keys) /\ Len(Append(log, e)) = Len(log) + 1
         /\ \A i \in 1 .. Len(log) : Append(log, e)[i] = log[i]
<1> DEFINE l == Append(log, e)
<1>1. log \in Seq(Entries(keys)) /\ e \in Entries(keys) /\ Len(log) \in Nat
  BY DEF WellFormed, NextEntry
<1>2. /\ l \in Seq(Entries(keys)) /\ Len(l) = Len(log) + 1
      /\ \A i \in 1 .. Len(log) : l[i] = log[i]
      /\ l[Len(log) + 1] = e
  BY <1>1, AppendProperties
<1> HIDE DEF l
<1>3. \A i \in 1 .. Len(l) : i \in 1 .. Len(log) \/ i = Len(log) + 1
  BY <1>1, <1>2
<1>4. \A i \in 1 .. Len(l) : l[i].obj # Absent => l[i].obj.key = l[i].key /\ l[i].obj.rv = i
  BY <1>2, <1>3 DEF WellFormed, NextEntry
<1>5. WellFormed(l, keys)
  BY <1>2, <1>4 DEF WellFormed
<1> QED BY <1>2, <1>5 DEF l

\* What Store does with an object in place of the one under its key: nothing,
\* or one entry.
LEMMA StoredEntry ==
  ASSUME NEW keys, NEW log, Len(log) \in Nat, NEW old, NEW new \in Objects(keys, Nat)
  PROVE  \/ Store(log, old, new) = log
         \/ \E e : NextEntry(log, e, keys) /\ Store(log, old, new) = Append(log, e)
<1> DEFINE obj == [new EXCEPT !.rv = Len(log) + 1]
           e == [key |-> obj.key, obj |-> obj]
<1>1. obj \in Objects(keys, Nat) /\ obj.key \in keys /\ obj.rv = Len(log) + 1
  BY DEF Objects
<1>2. new = old \/ Store(log, old, new) = Append(log, e)
  BY DEF Store
<1>3. NextEntry(log, e, keys)
  <2> HIDE DEF obj
  <2>1. e \in Entries(keys) /\ e.key = obj.key /\ e.obj = obj
    BY <1>1 DEF Entries
  <2> QED BY <1>1, <2>1 DEF NextEntry
<1>4. new = old => Store(log, old, new) = log
  BY DEF Store
<1> QED BY <1>2, <1>3, <1>4

(* What a PUT stores: the status alone, or everything but the status.      *)
Written(old, call) ==
  IF call.method = "UpdateStatus" THEN [old EXCEPT !.status = call.body.status]
                                  ELSE [call.body EXCEPT !.status = old.status]

\* Update and UpdateStatus store the object if it carries the stored version.
LEMMA PutServed ==
  ASSUME NEW kind \in Kinds, NEW log, NEW k \in KeysOf(kind), NEW call,
         call.method \in {"Update", "UpdateStatus"}, call.body.key = k
  PROVE  LET old == At(log, Len(log), KeysOf(kind))[k]
         IN  Serve(log, KeysOf(kind), NetworkingV1alpha1(kind, k[1], call))
               = IF old = Absent THEN Refused(log, "NotFound")
                 ELSE IF call.body.rv # old.rv THEN Refused(log, "Conflict")
                 ELSE Stored(log, old, Written(old, call))
<1> DEFINE req == Send(Plural[kind], k[1], call)
           objects == At(log, Len(log), KeysOf(kind))
<1>1. NetworkingV1alpha1(kind, k[1], call) = req
  BY SentUnderPlural, KeyParts
<1>2. /\ req.verb = "PUT" /\ req.ns = k[1] /\ req.name = k[2] /\ req.body = call.body
      /\ req.sub = (IF call.method = "UpdateStatus" THEN "status" ELSE "")
  BY DEF Send, Request
<1>3. Lookup(objects, <<k[1], k[2]>>) = objects[k]
  BY KeyParts DEF At, Lookup
<1> HIDE DEF req, objects
<1>4. Serve(log, KeysOf(kind), req) = ServeObject(log, objects, req)
  BY <1>2, KeyParts DEF Serve, objects
<1>5. ServeObject(log, objects, req)
        = IF objects[k] = Absent THEN Refused(log, "NotFound")
          ELSE IF call.body.rv # objects[k].rv THEN Refused(log, "Conflict")
          ELSE Stored(log, objects[k], Put(objects[k], req))
  BY <1>2, <1>3 DEF ServeObject, Stored
<1>6. Put(objects[k], req) = Written(objects[k], call)
  BY <1>2 DEF Put, Written
<1> QED BY <1>1, <1>4, <1>5, <1>6 DEF objects

\* A list changes nothing.
LEMMA ListAnswered ==
  ASSUME NEW kind \in Kinds, NEW log, NEW ns \in ScopeOf(kind) \cup {AllNamespaces},
         NEW call, call.method = "List"
  PROVE  Serve(log, KeysOf(kind), NetworkingV1alpha1(kind, ns, call))
           = [log |-> log,
              answer |-> OK(Matching(At(log, Len(log), KeysOf(kind)), ns, call.selector))]
<1> DEFINE objects == At(log, Len(log), KeysOf(kind))
           req == NetworkingV1alpha1(kind, ns, call)
<1>1. /\ req.verb = "GET" /\ req.name = NoName
      /\ ServeCollection(log, objects, req)
           = [log |-> log, answer |-> OK(Matching(objects, ns, call.selector))]
  BY ListServed
<1> HIDE DEF req
<1>2. Serve(log, KeysOf(kind), req) = ServeCollection(log, objects, req)
  BY <1>1 DEF Serve
<1> QED BY <1>1, <1>2 DEF req

\* DeleteCollection removes the objects of the namespace that match.
LEMMA CollectionDeleted ==
  ASSUME NEW kind \in Kinds, NEW log, NEW ns \in ScopeOf(kind) \cup {AllNamespaces},
         NEW call, call.method = "DeleteCollection"
  PROVE  Serve(log, KeysOf(kind), NetworkingV1alpha1(kind, ns, call))
           = [log |-> log \o Removals(Matching(At(log, Len(log), KeysOf(kind)), ns, call.selector)),
              answer |-> OK({})]
<1> DEFINE objects == At(log, Len(log), KeysOf(kind))
           req == Send(Plural[kind], ns, call)
<1>1. NetworkingV1alpha1(kind, ns, call) = req
  BY SentUnderPlural
<1>2. req.verb = "DELETE" /\ req.name = NoName /\ req.ns = ns /\ req.selector = call.selector
  BY DEF Send, Request
<1> HIDE DEF req, objects
<1>3. Selected(objects, req) = Matching(objects, ns, call.selector)
  BY <1>2 DEF Selected, Matching
<1>4. Serve(log, KeysOf(kind), req) = ServeCollection(log, objects, req)
  BY <1>2 DEF Serve, objects
<1>5. ServeCollection(log, objects, req)
        = [log |-> log \o Removals(Selected(objects, req)), answer |-> OK({})]
  BY <1>2 DEF ServeCollection
<1> QED BY <1>1, <1>3, <1>4, <1>5 DEF objects

(* A later log: it begins with the log, and each entry it adds is of one   *)
(* of the keys and is a removal unless it is the next one.                 *)
Extends(log, later, keys, changed) ==
  /\ WellFormed(later, keys) /\ Len(log) <= Len(later)
  /\ \A i \in 1 .. Len(log) : later[i] = log[i]
  /\ \A i \in Len(log) + 1 .. Len(later) :
       later[i].key \in changed /\ (later[i].obj # Absent => i = Len(log) + 1)

\* An object that no entry is about stays as it is.
LEMMA AtUntouched ==
  ASSUME NEW keys, NEW log, WellFormed(log, keys), NEW later, NEW changed,
         Extends(log, later, keys, changed), NEW k \in keys, k \notin changed
  PROVE  At(later, Len(later), keys)[k] = At(log, Len(log), keys)[k]
<1>1. Len(log) \in Nat /\ Len(later) \in Nat /\ Len(log) <= Len(later)
  BY DEF WellFormed, Extends
<1>2. /\ \A i \in 1 .. Len(log) : later[i] = log[i]
      /\ \A i \in Len(log) + 1 .. Len(later) : later[i].key # k
  BY DEF Extends
<1>3. EntriesOf(later, Len(later), k) = EntriesOf(log, Len(log), k)
  <2>1. \A i \in 1 .. Len(later) : i \in 1 .. Len(log) \/ i \in Len(log) + 1 .. Len(later)
    BY <1>1
  <2>2. \A i \in 1 .. Len(log) : i \in 1 .. Len(later)
    BY <1>1
  <2> QED BY <1>2, <2>1, <2>2 DEF EntriesOf
<1> DEFINE E == EntriesOf(log, Len(log), k)
<1>4. CASE E = {}
  BY <1>1, <1>3, <1>4, AtLast
<1>5. CASE E # {}
  <2>1. PICK m \in E : (\A i \in E : i <= m) /\ At(log, Len(log), keys)[k] = log[m].obj
    BY <1>1, <1>5, AtLast
  <2>2. PICK h \in E : (\A i \in E : i <= h) /\ At(later, Len(later), keys)[k] = later[h].obj
    BY <1>1, <1>3, <1>5, AtLast
  <2>3. h \in 1 .. Len(log) /\ m \in 1 .. Len(log)
    BY DEF EntriesOf
  <2>4. h = m
    BY <1>1, <2>1, <2>2, <2>3
  <2> QED BY <1>2, <2>1, <2>2, <2>3, <2>4
<1> QED BY <1>4, <1>5

\* The same log is a later one.
LEMMA ExtendsItself ==
  ASSUME NEW keys, NEW log, WellFormed(log, keys), NEW changed
  PROVE  Extends(log, log, keys, changed)
<1>1. Len(log) \in Nat
  BY DEF WellFormed
<1> QED BY <1>1 DEF Extends

\* A log with one more entry is a later one.
LEMMA AppendExtends ==
  ASSUME NEW keys, NEW log, WellFormed(log, keys), NEW e, NextEntry(log, e, keys)
  PROVE  /\ Extends(log, Append(log, e), keys, {e.key})
         /\ Append(log, e)[Len(log) + 1] = e /\ Append(log, e) # log
<1> DEFINE l == Append(log, e)
<1>1. /\ WellFormed(l, keys) /\ Len(l) = Len(log) + 1 /\ Len(log) \in Nat
      /\ \A i \in 1 .. Len(log) : l[i] = log[i]
  BY AppendedEntry DEF WellFormed
<1>2. l[Len(log) + 1] = e
  BY <1>1, AppendProperties DEF WellFormed, NextEntry
<1> HIDE DEF l
<1>3. \A i \in Len(log) + 1 .. Len(l) : i = Len(log) + 1
  BY <1>1
<1>4. Extends(log, l, keys, {e.key})
  BY <1>1, <1>2, <1>3 DEF Extends
<1>5. l # log
  BY <1>1
<1> QED BY <1>2, <1>4, <1>5 DEF l

\* The objects are as before but for the object of the entry's key.
LEMMA AppendedObject ==
  ASSUME NEW keys, NEW log, WellFormed(log, keys), NEW e, NextEntry(log, e, keys), NEW k \in keys
  PROVE  At(Append(log, e), Len(Append(log, e)), keys)[k]
           = IF k = e.key THEN e.obj ELSE At(log, Len(log), keys)[k]
<1> DEFINE l == Append(log, e)
<1>1. /\ WellFormed(l, keys) /\ Len(l) = Len(log) + 1 /\ Len(log) \in Nat
      /\ \A i \in 1 .. Len(log) : l[i] = log[i]
  BY AppendedEntry DEF WellFormed
<1>2. l[Len(log) + 1] = e
  BY AppendExtends
<1> HIDE DEF l
<1>3. Len(l) \in Nat /\ Len(l) > 0 /\ Len(l) - 1 = Len(log) /\ l[Len(l)] = e
  BY <1>1, <1>2
<1>4. At(l, Len(l), keys)
        = [x \in keys |-> IF l[Len(l)].key = x THEN l[Len(l)].obj ELSE At(l, Len(l) - 1, keys)[x]]
  BY <1>3, AtStep
<1>5. At(l, Len(log), keys) = At(log, Len(log), keys)
  BY <1>1, AtPrefix
<1>6. At(l, Len(l), keys)[k] = IF k = e.key THEN e.obj ELSE At(log, Len(log), keys)[k]
  BY <1>3, <1>4, <1>5
<1> QED BY <1>6 DEF l

\* The removals of a collection make a later log.
LEMMA RemovalsExtend ==
  ASSUME NEW keys, NEW log, WellFormed(log, keys), NEW S, IsFiniteSet(S), NEW changed \in SUBSET keys,
         \A o \in S : o.key \in changed
  PROVE  Extends(log, log \o Removals(S), keys, changed)
<1> DEFINE R == {[key |-> o.key, obj |-> Absent] : o \in S}
           s == SetToSeq(R)
           l == log \o s
<1>1. Removals(S) = s
  BY DEF Removals
<1>2. IsFiniteSet(R)
  <2> DEFINE f == [o \in S |-> [key |-> o.key, obj |-> Absent]]
  <2>1. f \in Surjection(S, R)
    BY DEF Surjection
  <2> QED BY <2>1, FS_Surjection
<1>3. \A e \in R : e \in Entries(keys) /\ e.key \in changed /\ e.obj = Absent
  BY DEF Entries
<1> HIDE DEF R
<1>4. s \in Seq(R)
  BY <1>2, SetToSeqOf
<1> HIDE DEF s
<1>5. s \in Seq(Entries(keys)) /\ Len(s) \in Nat /\ \A i \in 1 .. Len(s) : s[i] \in R
  <2>1. R \subseteq Entries(keys)
    BY <1>3
  <2>2. s \in Seq(Entries(keys))
    BY <1>4, <2>1, SeqMonotonic
  <2>3. \A i \in 1 .. Len(s) : s[i] \in R
    BY <1>4, ElementOfSeq
  <2> QED BY <2>2, <2>3, LenProperties
<1>6. log \in Seq(Entries(keys)) /\ Len(log) \in Nat
  BY DEF WellFormed
<1>7. /\ l \in Seq(Entries(keys)) /\ Len(l) = Len(log) + Len(s)
      /\ \A i \in 1 .. Len(log) + Len(s) : l[i] = IF i <= Len(log) THEN log[i] ELSE s[i - Len(log)]
  BY <1>5, <1>6, ConcatProperties
<1> HIDE DEF l
<1>8. \A i \in 1 .. Len(log) : l[i] = log[i]
  BY <1>5, <1>6, <1>7
<1>9. \A i \in Len(log) + 1 .. Len(l) : l[i].key \in changed /\ l[i].obj = Absent
  <2> TAKE i \in Len(log) + 1 .. Len(l)
  <2>1. i \in 1 .. Len(log) + Len(s) /\ ~(i <= Len(log)) /\ i - Len(log) \in 1 .. Len(s)
    BY <1>5, <1>6, <1>7
  <2>2. l[i] = s[i - Len(log)]
    BY <1>7, <2>1
  <2>3. l[i] \in R
    BY <1>5, <2>1, <2>2
  <2> QED BY <1>3, <2>3
<1>10. \A i \in 1 .. Len(l) : l[i].obj # Absent => l[i].obj.key = l[i].key /\ l[i].obj.rv = i
  <2>1. \A i \in 1 .. Len(l) : i \in 1 .. Len(log) \/ i \in Len(log) + 1 .. Len(l)
    BY <1>5, <1>6, <1>7
  <2> QED BY <1>8, <1>9, <2>1 DEF WellFormed
<1>11. Len(log) <= Len(l)
  BY <1>5, <1>6, <1>7
<1>12. Extends(log, l, keys, changed)
  BY <1>7, <1>8, <1>9, <1>10, <1>11 DEF Extends, WellFormed
<1> QED BY <1>1, <1>12 DEF l
=============================================================================
