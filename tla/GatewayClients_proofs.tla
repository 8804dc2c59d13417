----------------------- MODULE GatewayClients_proofs -----------------------
(***************************************************************************)
(* Proofs about GatewayClients for every kind, every set of names and      *)
(* callers and every number of changes: its type invariant, that the fake  *)
(* clientset stands in for the API server, that no writer undoes what      *)
(* another has written, and that a call stays in one namespace.            *)
(***************************************************************************)
EXTENDS GatewayClients, GatewayAPI_proofs

-----------------------------------------------------------------------------
(* The inductive invariant.                                                *)

(* What the tracker holds under a resource name.                           *)
Tracked == [Keys -> Objects(Keys, {0}) \cup {Absent}]

(* The tracker's objects are those of a log, without their versions.       *)
Mirrors(objects, l) ==
  /\ objects \in Tracked
  /\ \A k \in Keys : objects[k] = Untracked(At(l, Len(l), Keys)[k])

ServerInv ==
  /\ kind \in Kinds
  /\ WellFormed(log, Keys)
  /\ \A i \in 1 .. Len(log) : log[i].obj # Absent => i <= MaxVersions

HeldInv ==
  /\ held \in [Callers -> Objects(Keys, Nat) \cup {Absent}]
  /\ \A c \in Callers : held[c] # Absent => Genuine(log, held[c])

TrackerInv ==
  /\ parted \in BOOLEAN /\ agree \in BOOLEAN
  /\ ~parted => /\ agree
                /\ tracker \in [Resources(kind) -> Tracked]
                /\ Mirrors(tracker[Plural[kind]], log)

CInv == ServerInv /\ HeldInv /\ TrackerInv

-----------------------------------------------------------------------------
(* Objects without their versions.                                         *)

\* The copy of an object in the tracker has the same key, spec, status and
\* label, and no version.
LEMMA UntrackedObject ==
  ASSUME kind \in Kinds, NEW o \in Objects(Keys, Nat)
  PROVE  /\ o # Absent /\ Untracked(o) # Absent /\ Untracked(o) \in Objects(Keys, {0})
         /\ Untracked(o) \in Objects(Keys, Nat)
         /\ Untracked(o).key = o.key /\ Untracked(o).spec = o.spec
         /\ Untracked(o).status = o.status /\ Untracked(o).label = o.label
<1>1. Absent \notin Objects(Keys, Nat)
  BY AbsentIsNoObject DEF Keys
<1>2. o # Absent
  BY <1>1
<1> DEFINE u == [o EXCEPT !.rv = 0]
<1>3. Untracked(o) = u
  BY <1>2 DEF Untracked
<1>4. /\ u \in Objects(Keys, {0}) /\ u \in Objects(Keys, Nat) /\ u.key = o.key
      /\ u.spec = o.spec /\ u.status = o.status
  BY DEF Objects
<1>5. u.label = o.label
  BY DEF Objects
<1> HIDE DEF u
<1> QED BY <1>1, <1>2, <1>3, <1>4, <1>5

\* Objects that differ in their versions only have the same copy.
LEMMA SameButVersion ==
  ASSUME kind \in Kinds, NEW o \in Objects(Keys, Nat), NEW p \in Objects(Keys, Nat),
         o.key = p.key, o.spec = p.spec, o.status = p.status, o.label = p.label
  PROVE  Untracked(o) = Untracked(p)
<1>1. o # Absent /\ p # Absent
  BY UntrackedObject
<1>2. /\ o = [key |-> o.key, spec |-> o.spec, status |-> o.status, label |-> o.label, rv |-> o.rv]
      /\ p = [key |-> p.key, spec |-> p.spec, status |-> p.status, label |-> p.label, rv |-> p.rv]
  BY DEF Objects
<1>3. /\ [o EXCEPT !.rv = 0]
           = [key |-> o.key, spec |-> o.spec, status |-> o.status, label |-> o.label, rv |-> 0]
      /\ [p EXCEPT !.rv = 0]
           = [key |-> p.key, spec |-> p.spec, status |-> p.status, label |-> p.label, rv |-> 0]
  BY <1>2
<1> QED BY <1>1, <1>3 DEF Untracked

\* Two copies with the same parts are one.
LEMMA SameCopy ==
  ASSUME kind \in Kinds, NEW o \in Objects(Keys, {0}), NEW p \in Objects(Keys, {0}),
         o.key = p.key, o.spec = p.spec, o.status = p.status, o.label = p.label
  PROVE  o = p
<1>1. o.rv = 0 /\ p.rv = 0
  BY DEF Objects
<1>2. /\ o = [key |-> o.key, spec |-> o.spec, status |-> o.status, label |-> o.label, rv |-> o.rv]
      /\ p = [key |-> p.key, spec |-> p.spec, status |-> p.status, label |-> p.label, rv |-> p.rv]
  BY DEF Objects
<1> QED BY <1>1, <1>2

\* The server's objects, and which the tracker has.
LEMMA ServerObject ==
  ASSUME ServerInv, NEW k \in Keys
  PROVE  /\ Server[k] # Absent => /\ Server[k] \in Objects(Keys, Nat) /\ Server[k].key = k
                                  /\ Genuine(log, Server[k])
         /\ Untracked(Server[k]) # Absent <=> Server[k] # Absent
<1>1. Len(log) \in Nat /\ Len(log) \in 0 .. Len(log)
  BY DEF ServerInv, WellFormed
<1>2. Server[k] # Absent => /\ Server[k] \in Objects(Keys, Nat) /\ Server[k].key = k
                            /\ Genuine(log, Server[k])
  BY <1>1, AtGenuine DEF Server, ServerInv
<1>3. Server[k] # Absent => Untracked(Server[k]) # Absent
  BY <1>2, UntrackedObject DEF ServerInv
<1> QED BY <1>2, <1>3 DEF Untracked

-----------------------------------------------------------------------------
(* What a call does on both sides.                                         *)

Served(ns, call) == Serve(log, Keys, NetworkingV1alpha1(kind, ns, call))
Faked(objects, ns, call) == ObjectReaction(objects, Invoke(Plural[kind], ns, call))

(* The server's log grows by entries of the keys, and it answers with      *)
(* objects it has in its log.                                              *)
Outcome(s, changed) ==
  /\ Extends(log, s.log, Keys, changed)
  /\ \A o \in s.answer.objects : o \in Objects(Keys, Nat) /\ Genuine(s.log, o)

AsFaked(s, f) == SameAnswer(s.answer, f.answer) /\ Mirrors(f.objects, s.log)

Sound(ns, call, changed) ==
  /\ Outcome(Served(ns, call), changed)
  /\ \A objects \in Tracked :
       Mirrors(objects, log) /\ ~OnlyOneKnows(ns, call)
         => AsFaked(Served(ns, call), Faked(objects, ns, call))

\* The methods of the fake clients are one text up to the resource name.
LEMMA InvokedUnderPlural ==
  ASSUME NEW k \in Kinds, NEW ns \in ScopeOf(k) \cup {AllNamespaces}, NEW call
  PROVE  FakeNetworkingV1alpha1(k, ns, call) = Invoke(Plural[k], ns, call)
<1>1. k = "GatewayClass" => ns = AllNamespaces
  BY DEF ScopeOf
<1> QED BY <1>1 DEF Kinds, FakeNetworkingV1alpha1, Plural, FakeBackendPolicies, FakeGateways,
               FakeGatewayClasses, FakeHTTPRoutes, FakeTCPRoutes, FakeTLSRoutes, FakeUDPRoutes

\* A call that is sound on both sides keeps the invariant, whether or not the
\* two have parted.
LEMMA ExchangeKeeps ==
  ASSUME CInv, NEW c \in Callers, NEW ns \in ScopeOf(kind) \cup {AllNamespaces}, NEW call,
         NEW changed, Exchange(c, ns, call), Sound(ns, call, changed)
  PROVE  CInv' /\ kind' = kind /\ Extends(log, log', Keys, changed)
<1> DEFINE s == Served(ns, call)
           r == Plural[kind]
           act == FakeNetworkingV1alpha1(kind, ns, call)
           f == Faked(tracker[r], ns, call)
<1>1. kind' = kind /\ Keys' = Keys
  BY DEF Exchange, Keys
<1>2. /\ s.log # log => Len(log) < MaxVersions
      /\ log' = s.log
      /\ held' = IF call.method # "List" /\ s.answer.objects # {}
                 THEN [held EXCEPT ![c] = Into(call, s.answer)] ELSE held
      /\ parted' = (parted \/ OnlyOneKnows(ns, call))
  BY DEF Exchange, Served
<1>3. act = Invoke(r, ns, call) /\ act.resource = r
  <2>1. act = Invoke(r, ns, call)
    BY InvokedUnderPlural DEF CInv, ServerInv
  <2> QED BY <2>1 DEF Invoke
<1>4. ~parted' => /\ tracker' = [tracker EXCEPT ![r] = f.objects]
                  /\ agree' = SameAnswer(s.answer, f.answer)
  <2>1. ~parted' => /\ tracker' = [tracker EXCEPT ![act.resource] =
                                     ObjectReaction(tracker[act.resource], act).objects]
                    /\ agree' = SameAnswer(s.answer, ObjectReaction(tracker[act.resource], act).answer)
    BY DEF Exchange, Served
  <2> HIDE DEF act, r, s
  <2>2. ObjectReaction(tracker[act.resource], act) = ObjectReaction(tracker[r], Invoke(r, ns, call))
    BY <1>3
  <2> QED BY <1>3, <2>1, <2>2 DEF Faked, r
<1>5. Extends(log, s.log, Keys, changed) /\ \A o \in s.answer.objects : o \in Objects(Keys, Nat) /\ Genuine(s.log, o)
  BY DEF Sound, Outcome
<1>6. parted' => agree' = TRUE
  BY DEF Exchange
<1> HIDE DEF s, f, act
<1>7. WellFormed(log', Keys) /\ Len(log) <= Len(log') /\ \A i \in 1 .. Len(log) : log'[i] = log[i]
  BY <1>2, <1>5 DEF Extends
<1>8. Len(log) \in Nat /\ Len(log') \in Nat /\ MaxVersions \in Nat
  BY <1>7, VersionsAssumption DEF CInv, ServerInv, WellFormed, VersionsAssumption
<1>9. ServerInv'
  <2>1. ASSUME NEW i \in 1 .. Len(log'), log'[i].obj # Absent
        PROVE  i <= MaxVersions
    <3>1. CASE i \in 1 .. Len(log)
      BY <1>7, <2>1, <3>1 DEF CInv, ServerInv
    <3>2. CASE i \in Len(log) + 1 .. Len(log')
      <4>1. i = Len(log) + 1
        BY <1>2, <1>5, <2>1, <3>2 DEF Extends
      <4>2. s.log # log
        BY <1>2, <1>8, <3>2
      <4> QED BY <1>2, <1>8, <4>1, <4>2
    <3> QED BY <1>8, <3>1, <3>2
  <2> QED BY <1>1, <1>7, <2>1 DEF CInv, ServerInv
<1>10. \A o : Genuine(log, o) => Genuine(log', o)
  <2> SUFFICES ASSUME NEW o, Genuine(log, o) PROVE Genuine(log', o)
    OBVIOUS
  <2>1. o.rv \in 1 .. Len(log) /\ o.rv \in 1 .. Len(log')
    BY <1>7, <1>8 DEF Genuine
  <2> QED BY <1>7, <2>1 DEF Genuine
<1>11. HeldInv'
  <2>1. held \in [Callers -> Objects(Keys, Nat) \cup {Absent}]
    BY DEF CInv, HeldInv
  <2>2. \A x \in Callers : held[x] # Absent => Genuine(log', held[x])
    BY <1>10 DEF CInv, HeldInv
  <2>3. CASE held' = held
    BY <1>1, <2>1, <2>2, <2>3 DEF HeldInv
  <2>4. CASE s.answer.objects # {} /\ held' = [held EXCEPT ![c] = Into(call, s.answer)]
    <3>1. Into(call, s.answer) \in s.answer.objects
      BY <2>4 DEF Into
    <3>2. Into(call, s.answer) \in Objects(Keys, Nat) /\ Genuine(log', Into(call, s.answer))
      BY <1>2, <1>5, <3>1
    <3>3. held' \in [Callers -> Objects(Keys, Nat) \cup {Absent}]
      BY <2>1, <2>4, <3>2
    <3>4. \A x \in Callers : held'[x] # Absent => Genuine(log', held'[x])
      BY <2>1, <2>2, <2>4, <3>2
    <3> QED BY <1>1, <3>3, <3>4 DEF HeldInv
  <2> QED BY <1>2, <2>3, <2>4
<1>12. parted' \in BOOLEAN
  BY <1>2 DEF OnlyOneKnows
<1>13. CASE parted'
  <2>1. TrackerInv'
    BY <1>6, <1>12, <1>13 DEF TrackerInv
  <2> QED BY <1>1, <1>2, <1>5, <1>9, <1>11, <2>1 DEF CInv
<1>14. CASE ~parted'
  <2>1. ~parted /\ ~OnlyOneKnows(ns, call)
    BY <1>2, <1>14
  <2>2. tracker \in [Resources(kind) -> Tracked] /\ Mirrors(tracker[r], log)
    BY <2>1 DEF CInv, TrackerInv
  <2>3. r \in Resources(kind) /\ tracker[r] \in Tracked
    BY <2>2 DEF Resources
  <2>4. AsFaked(s, f)
    BY <2>1, <2>2, <2>3 DEF Sound, s, f
  <2>5. agree' = TRUE /\ Mirrors(f.objects, log') /\ f.objects \in Tracked
    <3>1. SameAnswer(s.answer, f.answer) = TRUE
      BY <2>4 DEF AsFaked, SameAnswer
    <3> QED BY <1>2, <1>4, <1>14, <2>4, <3>1 DEF AsFaked, Mirrors
  <2>6. tracker' = [tracker EXCEPT ![r] = f.objects]
    BY <1>4, <1>14
  <2> HIDE DEF r
  <2>7. tracker' \in [Resources(kind) -> Tracked] /\ tracker'[r] = f.objects
    BY <2>2, <2>3, <2>5, <2>6
  <2>8. Tracked' = Tracked /\ Resources(kind)' = Resources(kind) /\ Plural[kind]' = r
    BY <1>1 DEF Tracked, Resources, r
  <2>9. Mirrors(tracker[Plural[kind]], log)'
    BY <1>1, <2>5, <2>7, <2>8 DEF Mirrors
  <2>10. TrackerInv'
    BY <1>12, <2>5, <2>7, <2>8, <2>9 DEF TrackerInv
  <2> QED BY <1>1, <1>2, <1>5, <1>9, <1>11, <2>10 DEF CInv
<1> QED BY <1>13, <1>14

-----------------------------------------------------------------------------
(* Writes of one object on either side.                                    *)

(* The answer to a write is the object that is stored now.                 *)
Writes(s, k, o) ==
  /\ s.answer = OK({o}) /\ o \in Objects(Keys, Nat) /\ o.key = k
  /\ \A x \in Keys : At(s.log, Len(s.log), Keys)[x] = IF x = k THEN o ELSE Server[x]

SameParts(o, p) ==
  o.key = p.key /\ o.spec = p.spec /\ o.status = p.status /\ o.label = p.label

\* One more entry on the server changes the object of its key.
LEMMA EntryAppended ==
  ASSUME ServerInv, NEW e, NextEntry(log, e, Keys)
  PROVE  /\ Extends(log, Append(log, e), Keys, {e.key})
         /\ Append(log, e)[Len(log) + 1] = e /\ Append(log, e) # log
         /\ \A x \in Keys : At(Append(log, e), Len(Append(log, e)), Keys)[x]
                              = IF x = e.key THEN e.obj ELSE Server[x]
<1> DEFINE l == Append(log, e)
<1>1. WellFormed(log, Keys)
  BY DEF ServerInv
<1>2. Extends(log, l, Keys, {e.key})
  BY <1>1, AppendExtends
<1>3. l[Len(log) + 1] = e
  BY <1>1, AppendExtends
<1>4. l # log
  BY <1>1, AppendExtends
<1>5. \A x \in Keys : At(l, Len(l), Keys)[x] = IF x = e.key THEN e.obj ELSE At(log, Len(log), Keys)[x]
  <2> TAKE x \in Keys
  <2> QED BY <1>1, AppendedObject
<1> QED BY <1>2, <1>3, <1>4, <1>5 DEF Server

\* Store leaves the object as it is if nothing changes, and else adds it to
\* the log with a new version.
LEMMA StoredOutcome ==
  ASSUME ServerInv, NEW k \in Keys, NEW old, old = Server[k], old # Absent,
         NEW new \in Objects(Keys, Nat), new.key = k
  PROVE  /\ Outcome(Stored(log, old, new), {k})
         /\ \E o : Writes(Stored(log, old, new), k, o) /\ SameParts(o, new)
<1> DEFINE s == Stored(log, old, new)
<1>1. WellFormed(log, Keys) /\ Len(log) \in Nat
  BY DEF ServerInv, WellFormed
<1>2. old \in Objects(Keys, Nat) /\ old.key = k /\ Genuine(log, old)
  BY ServerObject
<1>3. CASE new = old
  <2>1. s = [log |-> log, answer |-> OK({old})]
    BY <1>3 DEF Stored, Store
  <2>2. Extends(log, log, Keys, {k})
    BY <1>1, ExtendsItself
  <2>3. \A x \in Keys : Server[x] = IF x = k THEN old ELSE Server[x]
    OBVIOUS
  <2> HIDE DEF s
  <2>4. s.log = log /\ s.answer = OK({old}) /\ s.answer.objects = {old}
    BY <2>1 DEF OK, Answer
  <2>5. Outcome(s, {k})
    BY <1>2, <2>2, <2>4 DEF Outcome
  <2>6. Writes(s, k, old) /\ SameParts(old, new)
    BY <1>2, <1>3, <2>3, <2>4 DEF Writes, SameParts, Server
  <2> QED BY <2>5, <2>6 DEF s
<1>4. CASE new # old
  <2> DEFINE n == Len(log) + 1
             obj == [new EXCEPT !.rv = n]
             e == [key |-> obj.key, obj |-> obj]
             l == Append(log, e)
  <2>1. Store(log, old, new) = l
    BY <1>4 DEF Store
  <2>2. n \in Nat /\ n = Len(log) + 1
    BY <1>1
  <2> HIDE DEF n
  <2>3. /\ obj \in Objects(Keys, Nat) /\ obj.key = k /\ obj.rv = n
        /\ obj.spec = new.spec /\ obj.status = new.status
    BY <2>2 DEF Objects
  <2>4. obj.label = new.label
    BY DEF Objects
  <2> HIDE DEF obj
  <2>5. e \in Entries(Keys) /\ e.key = k /\ e.obj = obj
    BY <2>3 DEF Entries
  <2> HIDE DEF e
  <2>6. NextEntry(log, e, Keys)
    BY <2>2, <2>3, <2>5 DEF NextEntry
  <2>7. /\ Extends(log, l, Keys, {k}) /\ l[n] = e /\ l # log
        /\ \A x \in Keys : At(l, Len(l), Keys)[x] = IF x = k THEN obj ELSE Server[x]
    <3>1. /\ Extends(log, l, Keys, {e.key}) /\ l[Len(log) + 1] = e /\ l # log
          /\ \A x \in Keys : At(l, Len(l), Keys)[x] = IF x = e.key THEN e.obj ELSE Server[x]
      BY <2>6, EntryAppended
    <3> HIDE DEF l
    <3> QED BY <2>2, <2>5, <3>1
  <2>8. WellFormed(l, Keys) /\ Len(l) = n
    BY <1>1, <2>2, <2>6, AppendedEntry
  <2>9. Last(l) = e
    BY <2>7, <2>8 DEF Last
  <2> HIDE DEF l
  <2>10. s.log = l /\ s.answer = OK({obj}) /\ s.answer.objects = {obj}
    BY <2>1, <2>5, <2>7, <2>9 DEF Stored, OK, Answer
  <2> HIDE DEF s
  <2>11. Genuine(l, obj)
    BY <2>2, <2>3, <2>5, <2>7, <2>8 DEF Genuine
  <2>12. Outcome(s, {k})
    BY <2>3, <2>7, <2>10, <2>11 DEF Outcome
  <2>13. Writes(s, k, obj) /\ SameParts(obj, new)
    BY <1>2, <2>3, <2>4, <2>7, <2>10 DEF Writes, SameParts
  <2> QED BY <2>12, <2>13 DEF s
<1> QED BY <1>3, <1>4

(* What the tracker does with an object it stores.                         *)
Kept(objects, k, p) ==
  [objects |-> [objects EXCEPT ![k] = Untracked(p)], answer |-> OK({Untracked(p)})]

\* tracker.add stores the object as it is if it may exist or must.
LEMMA Added ==
  ASSUME NEW objects, NEW key, NEW obj, NEW replaceExisting \in BOOLEAN,
         (objects[key] # Absent) <=> replaceExisting
  PROVE  Add(objects, key, obj, replaceExisting) = Kept(objects, key, obj)
<1>1. CASE replaceExisting
  BY <1>1 DEF Add, Kept
<1>2. CASE ~replaceExisting
  BY <1>2 DEF Add, Kept
<1> QED BY <1>1, <1>2

\* A write that stores the same parts on both sides gives the same answer and
\* leaves the same objects.
LEMMA WrittenAsFaked ==
  ASSUME ServerInv, NEW k \in Keys, NEW objects \in Tracked, Mirrors(objects, log),
         NEW s, NEW o, Writes(s, k, o), NEW f, NEW p \in Objects(Keys, Nat), SameParts(o, p),
         f = [objects |-> [objects EXCEPT ![k] = Untracked(p)], answer |-> OK({Untracked(p)})]
  PROVE  AsFaked(s, f)
<1>1. kind \in Kinds /\ o \in Objects(Keys, Nat) /\ s.answer = OK({o})
  BY DEF ServerInv, Writes
<1>2. Untracked(o) = Untracked(p) /\ Untracked(p) \in Objects(Keys, {0})
  BY <1>1, SameButVersion, UntrackedObject DEF SameParts
<1>3. SameAnswer(s.answer, f.answer)
  BY <1>1, <1>2 DEF SameAnswer, OK, Answer
<1>4. f.objects = [objects EXCEPT ![k] = Untracked(p)]
  OBVIOUS
<1>5. \A x \in Keys : objects[x] = Untracked(Server[x])
  BY DEF Mirrors, Server
<1>6. \A x \in Keys : At(s.log, Len(s.log), Keys)[x] = IF x = k THEN o ELSE Server[x]
  BY DEF Writes
<1>7. f.objects \in Tracked /\ \A x \in Keys : f.objects[x] = Untracked(At(s.log, Len(s.log), Keys)[x])
  BY <1>2, <1>4, <1>5, <1>6 DEF Tracked
<1> QED BY <1>3, <1>7 DEF AsFaked, Mirrors

\* A call that is refused, or that only reads, changes nothing on the server.
LEMMA Unwritten ==
  ASSUME ServerInv, NEW answer, NEW changed,
         \A o \in answer.objects : o \in Objects(Keys, Nat) /\ Genuine(log, o)
  PROVE  Outcome([log |-> log, answer |-> answer], changed)
<1>1. Extends(log, log, Keys, changed)
  BY ExtendsItself DEF ServerInv
<1> QED BY <1>1 DEF Outcome

\* The tracker does the same if it leaves its objects and gives the same answer.
LEMMA UnwrittenAsFaked ==
  ASSUME NEW objects \in Tracked, Mirrors(objects, log), NEW answer, NEW other,
         SameAnswer(answer, other)
  PROVE  AsFaked([log |-> log, answer |-> answer], [objects |-> objects, answer |-> other])
<1> QED BY DEF AsFaked

-----------------------------------------------------------------------------
(* Each call, on both sides.                                               *)

\* The tracker has an object where the server has one, but for its version.
LEMMA MirroredObject ==
  ASSUME ServerInv, NEW objects, Mirrors(objects, log), NEW k \in Keys
  PROVE  objects[k] = Untracked(Server[k]) /\ (objects[k] = Absent <=> Server[k] = Absent)
<1>1. objects[k] = Untracked(Server[k])
  BY DEF Mirrors, Server
<1> QED BY <1>1, ServerObject

\* The key of a call on one object.
LEMMA CalledKey ==
  ASSUME ServerInv, NEW k \in Keys
  PROVE  /\ kind \in Kinds /\ <<k[1], k[2]>> = k /\ k[1] \in ScopeOf(kind)
         /\ Lookup(Server, k) = Server[k] /\ Lookup(Server, <<k[1], k[2]>>) = Server[k]
<1>1. kind \in Kinds
  BY DEF ServerInv
<1>2. <<k[1], k[2]>> = k /\ k[1] \in ScopeOf(kind)
  BY <1>1, KeyParts DEF Keys
<1>3. Lookup(Server, k) = Server[k]
  BY DEF Lookup, Server, At
<1> QED BY <1>1, <1>2, <1>3

\* A refusal changes nothing on either side.
LEMMA RefusedSound ==
  ASSUME ServerInv, NEW ns, NEW call, NEW changed, NEW code,
         Served(ns, call) = Refused(log, code),
         \A objects \in Tracked : Mirrors(objects, log) /\ ~OnlyOneKnows(ns, call)
           => Faked(objects, ns, call) = [objects |-> objects, answer |-> Refuse(code)]
  PROVE  Sound(ns, call, changed)
<1> DEFINE answer == Refuse(code)
<1>1. answer.objects = {} /\ SameAnswer(answer, answer)
  BY DEF Refuse, Answer, SameAnswer
<1>2. Served(ns, call) = [log |-> log, answer |-> answer]
  BY DEF Refused
<1> HIDE DEF answer
<1>3. Outcome(Served(ns, call), changed)
  <2>1. \A o \in answer.objects : o \in Objects(Keys, Nat) /\ Genuine(log, o)
    BY <1>1
  <2>2. Outcome([log |-> log, answer |-> answer], changed)
    BY <2>1, Unwritten
  <2> QED BY <1>2, <2>2
<1>4. ASSUME NEW objects \in Tracked, Mirrors(objects, log), ~OnlyOneKnows(ns, call)
      PROVE  AsFaked(Served(ns, call), Faked(objects, ns, call))
  <2>1. AsFaked([log |-> log, answer |-> answer], [objects |-> objects, answer |-> answer])
    BY <1>1, <1>4, UnwrittenAsFaked
  <2> QED BY <1>2, <1>4, <2>1 DEF answer
<1> QED BY <1>3, <1>4 DEF Sound

\* Get answers with the stored object on both sides.
LEMMA GetSound ==
  ASSUME ServerInv, NEW k \in Keys, NEW call, call.method = "Get", call.name = k[2]
  PROVE  Sound(k[1], call, {})
<1>1. Served(k[1], call) = IF Server[k] = Absent THEN Refused(log, "NotFound")
                           ELSE [log |-> log, answer |-> OK({Server[k]})]
  BY GetServed DEF Served, Server, Keys, ServerInv
<1>2. \A objects : Faked(objects, k[1], call)
                     = [objects |-> objects,
                        answer |-> IF objects[k] = Absent THEN Refuse("NotFound") ELSE OK({objects[k]})]
  <2> DEFINE act == Invoke(Plural[kind], k[1], call)
  <2>1. act.action = "Get" /\ act.ns = k[1] /\ act.name = k[2]
    BY DEF Invoke
  <2> HIDE DEF act
  <2>2. <<act.ns, act.name>> = k
    BY <2>1, CalledKey
  <2>3. \A objects : ObjectReaction(objects, act)
                       = [objects |-> objects,
                          answer |-> IF objects[k] = Absent THEN Refuse("NotFound") ELSE OK({objects[k]})]
    BY <2>1, <2>2 DEF ObjectReaction
  <2> QED BY <2>3 DEF Faked, act
<1>3. CASE Server[k] = Absent
  <2>1. Served(k[1], call) = Refused(log, "NotFound")
    BY <1>1, <1>3
  <2>2. \A objects \in Tracked : Mirrors(objects, log)
          => Faked(objects, k[1], call) = [objects |-> objects, answer |-> Refuse("NotFound")]
    BY <1>2, <1>3, MirroredObject
  <2> QED BY <2>1, <2>2, RefusedSound
<1>4. CASE Server[k] # Absent
  <2> DEFINE answer == OK({Server[k]})
  <2>1. Served(k[1], call) = [log |-> log, answer |-> answer]
    BY <1>1, <1>4
  <2>2. answer.objects = {Server[k]}
    BY DEF OK, Answer
  <2>3. \A objects : SameAnswer(answer, OK({Untracked(Server[k])}))
    BY DEF SameAnswer, OK, Answer
  <2> HIDE DEF answer
  <2>4. \A o \in answer.objects : o \in Objects(Keys, Nat) /\ Genuine(log, o)
    BY <1>4, <2>2, ServerObject
  <2>5. Outcome(Served(k[1], call), {})
    BY <2>1, <2>4, Unwritten
  <2>6. ASSUME NEW objects \in Tracked, Mirrors(objects, log)
        PROVE  AsFaked(Served(k[1], call), Faked(objects, k[1], call))
    <3>1. Faked(objects, k[1], call) = [objects |-> objects, answer |-> OK({Untracked(Server[k])})]
      BY <1>2, <1>4, <2>6, MirroredObject
    <3> QED BY <2>1, <2>3, <2>6, <3>1, UnwrittenAsFaked
  <2> QED BY <2>5, <2>6 DEF Sound
<1> QED BY <1>3, <1>4

\* List answers with the same objects on both sides.
LEMMA ListSound ==
  ASSUME ServerInv, NEW ns \in ScopeOf(kind) \cup {AllNamespaces}, NEW call, call.method = "List"
  PROVE  Sound(ns, call, {})
<1> DEFINE found == Matching(Server, ns, call.selector)
           answer == OK(found)
           act == Invoke(Plural[kind], ns, call)
<1>1. Served(ns, call) = [log |-> log, answer |-> answer]
  BY ListAnswered DEF Served, Server, Keys, ServerInv
<1>2. \A objects : Faked(objects, ns, call)
                     = [objects |-> objects, answer |-> OK(Matching(objects, ns, call.selector))]
  <2>1. act.action = "List" /\ act.ns = ns /\ act.selector = call.selector
    BY DEF Invoke
  <2> HIDE DEF act
  <2>2. \A objects : Selected(objects, act) = Matching(objects, ns, call.selector)
    BY <2>1 DEF Selected, Matching
  <2>3. \A objects : ObjectReaction(objects, act)
                       = [objects |-> objects, answer |-> OK(Selected(objects, act))]
    BY <2>1 DEF ObjectReaction
  <2> QED BY <2>2, <2>3 DEF Faked, act
<1>3. DOMAIN Server = Keys
  BY DEF Server, At
<1>4. \A o \in answer.objects : o \in Objects(Keys, Nat) /\ Genuine(log, o)
  <2>1. answer.objects = found
    BY DEF OK, Answer
  <2>2. \A o \in found : \E k \in Keys : o = Server[k] /\ Server[k] # Absent
    BY <1>3 DEF Matching
  <2> QED BY <2>1, <2>2, ServerObject
<1>5. ASSUME NEW objects \in Tracked, Mirrors(objects, log)
      PROVE  {Untracked(o) : o \in found} = Matching(objects, ns, call.selector)
  <2>1. DOMAIN objects = Keys
    BY DEF Tracked
  <2>2. \A k \in Keys : objects[k] = Untracked(Server[k]) /\ (objects[k] = Absent <=> Server[k] = Absent)
    BY <1>5, MirroredObject
  <2>3. \A k \in Keys : Server[k] # Absent
          => (Matches(call.selector, objects[k]) <=> Matches(call.selector, Server[k]))
    <3> TAKE k \in Keys
    <3>1. Server[k] # Absent => objects[k].label = Server[k].label
      BY <2>2, ServerObject, UntrackedObject DEF ServerInv
    <3> QED BY <3>1 DEF Matches
  <2> QED BY <1>3, <2>1, <2>2, <2>3 DEF Matching
<1> HIDE DEF found
<1>6. \A objects \in Tracked : Mirrors(objects, log)
        => SameAnswer(answer, OK(Matching(objects, ns, call.selector)))
  BY <1>5 DEF SameAnswer, OK, Answer
<1> HIDE DEF answer
<1>7. Outcome(Served(ns, call), {})
  BY <1>1, <1>4, Unwritten
<1>8. ASSUME NEW objects \in Tracked, Mirrors(objects, log)
      PROVE  AsFaked(Served(ns, call), Faked(objects, ns, call))
  BY <1>1, <1>2, <1>6, <1>8, UnwrittenAsFaked
<1> QED BY <1>7, <1>8 DEF Sound

\* A write is sound if the tracker keeps an object with the same parts.
LEMMA WrittenSound ==
  ASSUME ServerInv, NEW k \in Keys, NEW ns, NEW call, NEW o,
         Outcome(Served(ns, call), {k}), Writes(Served(ns, call), k, o),
         \A objects \in Tracked : Mirrors(objects, log) /\ ~OnlyOneKnows(ns, call)
           => \E p \in Objects(Keys, Nat) :
                SameParts(o, p) /\ Faked(objects, ns, call) = Kept(objects, k, p)
  PROVE  Sound(ns, call, {k})
<1> DEFINE s == Served(ns, call)
<1>1. Outcome(s, {k}) /\ Writes(s, k, o)
  OBVIOUS
<1>2. ASSUME NEW objects \in Tracked, Mirrors(objects, log), ~OnlyOneKnows(ns, call)
      PROVE  AsFaked(Served(ns, call), Faked(objects, ns, call))
  <2> DEFINE f == Faked(objects, ns, call)
  <2>1. PICK p \in Objects(Keys, Nat) : SameParts(o, p) /\ f = Kept(objects, k, p)
    BY <1>2
  <2> HIDE DEF s, f
  <2>2. f = [objects |-> [objects EXCEPT ![k] = Untracked(p)], answer |-> OK({Untracked(p)})]
    BY <2>1 DEF Kept
  <2>3. AsFaked(s, f)
    BY <1>1, <1>2, <2>1, <2>2, WrittenAsFaked
  <2> QED BY <2>3 DEF s, f
<1> QED BY <1>1, <1>2 DEF Sound

\* Create stores the object without its status on the server and as it is in
\* the tracker, unless there is one.
LEMMA CreateSound ==
  ASSUME ServerInv, NEW k \in Keys, NEW call, call.method = "Create",
         call.body \in Objects(Keys, Nat), call.body.key = k
  PROVE  Sound(k[1], call, {k})
<1> DEFINE n == Len(log) + 1
           obj == [call.body EXCEPT !.status = Empty, !.rv = n]
           e == [key |-> k, obj |-> obj]
<1>1. Served(k[1], call) = IF Server[k] # Absent THEN Refused(log, "AlreadyExists")
                           ELSE [log |-> Append(log, e), answer |-> OK({obj})]
  <2>1. kind \in Kinds /\ k \in KeysOf(kind)
    BY DEF ServerInv, Keys
  <2>2. Serve(log, KeysOf(kind), NetworkingV1alpha1(kind, k[1], call))
          = IF At(log, Len(log), KeysOf(kind))[k] # Absent THEN Refused(log, "AlreadyExists")
            ELSE Appended(log, k, Created(log, call.body))
    BY <2>1, CreateServed
  <2>3. Appended(log, k, Created(log, call.body)) = [log |-> Append(log, e), answer |-> OK({obj})]
    BY DEF Appended, Created
  <2> QED BY <2>2, <2>3 DEF Served, Server, Keys
<1>2. n \in Nat /\ n = Len(log) + 1
  BY DEF ServerInv, WellFormed
<1> HIDE DEF n
<1>3. obj \in Objects(Keys, Nat) /\ obj.key = k /\ obj.rv = n
  <2>1. [call.body EXCEPT !.status = Empty, !.rv = n] \in Objects(Keys, Nat)
    BY <1>2, CreatedObject
  <2>2. obj.key = k /\ obj.rv = n
    BY <1>2 DEF Objects
  <2> QED BY <2>1, <2>2
<1>4. obj.spec = call.body.spec /\ obj.status = Empty
  BY DEF Objects
<1>5. obj.label = call.body.label
  BY DEF Objects
<1> HIDE DEF obj
<1>6. e.key = k /\ e.obj = obj /\ e \in Entries(Keys)
  BY <1>3 DEF Entries
<1> HIDE DEF e
<1>7. NextEntry(log, e, Keys)
  BY <1>2, <1>3, <1>6 DEF NextEntry
<1>8. \A objects : Faked(objects, k[1], call) = Add(objects, k, call.body, FALSE)
  <2> DEFINE act == Invoke(Plural[kind], k[1], call)
  <2>1. act.action = "Create" /\ act.ns = k[1] /\ act.name = k[2] /\ act.body = call.body
    BY DEF Invoke
  <2> HIDE DEF act
  <2>2. <<act.ns, act.name>> = k
    BY <2>1, CalledKey
  <2>3. \A objects : ObjectReaction(objects, act) = Add(objects, k, call.body, FALSE)
    BY <2>1, <2>2 DEF ObjectReaction
  <2> QED BY <2>3 DEF Faked, act
<1>9. CASE Server[k] # Absent
  <2>1. Served(k[1], call) = Refused(log, "AlreadyExists")
    BY <1>1, <1>9
  <2>2. ASSUME NEW objects \in Tracked, Mirrors(objects, log)
        PROVE  Faked(objects, k[1], call) = [objects |-> objects, answer |-> Refuse("AlreadyExists")]
    <3>1. objects[k] # Absent
      BY <1>9, <2>2, MirroredObject
    <3> QED BY <1>8, <3>1 DEF Add
  <2> QED BY <2>1, <2>2, RefusedSound
<1>10. CASE Server[k] = Absent
  <2> DEFINE s == Served(k[1], call)
             l == Append(log, e)
  <2>1. s = [log |-> l, answer |-> OK({obj})]
    BY <1>1, <1>10
  <2>2. Extends(log, l, Keys, {k}) /\ l[n] = e
    BY <1>2, <1>6, <1>7, EntryAppended
  <2>3. \A x \in Keys : At(l, Len(l), Keys)[x] = IF x = k THEN obj ELSE Server[x]
    <3>1. \A x \in Keys : At(l, Len(l), Keys)[x] = IF x = e.key THEN e.obj ELSE Server[x]
      BY <1>7, EntryAppended
    <3> HIDE DEF l
    <3> QED BY <1>6, <3>1
  <2>4. Len(l) = n
    BY <1>2, <1>7, AppendedEntry DEF ServerInv
  <2> HIDE DEF l, s
  <2>5. s.log = l /\ s.answer = OK({obj}) /\ s.answer.objects = {obj}
    BY <2>1 DEF OK, Answer
  <2>6. Genuine(l, obj)
    BY <1>2, <1>3, <1>6, <2>2, <2>4 DEF Genuine
  <2>7. Outcome(s, {k})
    BY <1>3, <2>2, <2>5, <2>6 DEF Outcome
  <2>8. Writes(s, k, obj)
    BY <1>3, <2>3, <2>5 DEF Writes
  <2>9. ASSUME NEW objects \in Tracked, Mirrors(objects, log), ~OnlyOneKnows(k[1], call)
        PROVE  \E p \in Objects(Keys, Nat) :
                 SameParts(obj, p) /\ Faked(objects, k[1], call) = Kept(objects, k, p)
    <3>1. call.body.status = Empty
      BY <2>9 DEF OnlyOneKnows
    <3>2. SameParts(obj, call.body)
      BY <1>3, <1>4, <1>5, <3>1 DEF SameParts
    <3>3. FALSE \in BOOLEAN /\ ((objects[k] # Absent) <=> FALSE)
      BY <1>10, <2>9, MirroredObject
    <3>4. Faked(objects, k[1], call) = Kept(objects, k, call.body)
      BY <1>8, <3>3, Added
    <3> QED BY <3>2, <3>4
  <2> QED BY <2>7, <2>8, <2>9, WrittenSound DEF s
<1> QED BY <1>9, <1>10

\* Delete removes the object on both sides.
LEMMA DeleteSound ==
  ASSUME ServerInv, NEW k \in Keys, NEW call, call.method = "Delete", call.name = k[2]
  PROVE  Sound(k[1], call, {k})
<1> DEFINE e == [key |-> k, obj |-> Absent]
<1>1. Served(k[1], call) = IF Server[k] = Absent THEN Refused(log, "NotFound")
                           ELSE [log |-> log \o <<[key |-> Server[k].key, obj |-> Absent]>>,
                                 answer |-> OK({})]
  BY DeleteServed DEF Served, Server, Keys, ServerInv
<1>2. \A objects : Faked(objects, k[1], call)
                     = IF objects[k] = Absent THEN [objects |-> objects, answer |-> Refuse("NotFound")]
                       ELSE [objects |-> [objects EXCEPT ![k] = Absent], answer |-> OK({})]
  <2> DEFINE act == Invoke(Plural[kind], k[1], call)
  <2>1. act.action = "Delete" /\ act.ns = k[1] /\ act.name = k[2]
    BY DEF Invoke
  <2> HIDE DEF act
  <2>2. <<act.ns, act.name>> = k
    BY <2>1, CalledKey
  <2>3. \A objects : ObjectReaction(objects, act)
                       = IF objects[k] = Absent THEN [objects |-> objects, answer |-> Refuse("NotFound")]
                         ELSE [objects |-> [objects EXCEPT ![k] = Absent], answer |-> OK({})]
    <3> TAKE objects
    <3>1. CASE objects[k] = Absent
      BY <2>1, <2>2, <3>1 DEF ObjectReaction
    <3>2. CASE objects[k] # Absent
      BY <2>1, <2>2, <3>2 DEF ObjectReaction
    <3> QED BY <3>1, <3>2
  <2> QED BY <2>3 DEF Faked, act
<1>3. CASE Server[k] = Absent
  <2>1. Served(k[1], call) = Refused(log, "NotFound")
    BY <1>1, <1>3
  <2>2. ASSUME NEW objects \in Tracked, Mirrors(objects, log)
        PROVE  Faked(objects, k[1], call) = [objects |-> objects, answer |-> Refuse("NotFound")]
    <3>1. objects[k] = Absent
      BY <1>3, <2>2, MirroredObject
    <3> QED BY <1>2, <3>1
  <2> QED BY <2>1, <2>2, RefusedSound
<1>4. CASE Server[k] # Absent
  <2> DEFINE s == Served(k[1], call)
             l == Append(log, e)
             answer == OK({})
  <2>1. e.key = k /\ e.obj = Absent /\ e \in Entries(Keys)
    BY DEF Entries
  <2>2. Server[k].key = k
    BY <1>4, ServerObject
  <2>3. s = [log |-> log \o <<e>>, answer |-> answer]
    BY <1>1, <1>4, <2>2
  <2> HIDE DEF e
  <2>4. log \o <<e>> = l
    BY <2>1, AppendIsConcat DEF ServerInv, WellFormed
  <2>5. NextEntry(log, e, Keys)
    BY <2>1 DEF NextEntry
  <2>6. Extends(log, l, Keys, {k})
    BY <2>1, <2>5, EntryAppended
  <2>7. \A x \in Keys : At(l, Len(l), Keys)[x] = IF x = k THEN Absent ELSE Server[x]
    <3>1. \A x \in Keys : At(l, Len(l), Keys)[x] = IF x = e.key THEN e.obj ELSE Server[x]
      BY <2>5, EntryAppended
    <3> HIDE DEF l
    <3> QED BY <2>1, <3>1
  <2>8. answer.objects = {} /\ SameAnswer(answer, answer)
    BY DEF OK, Answer, SameAnswer
  <2> HIDE DEF l, s, answer
  <2>9. s.log = l /\ s.answer = answer
    BY <2>3, <2>4
  <2>10. Outcome(s, {k})
    BY <2>6, <2>8, <2>9 DEF Outcome
  <2>11. ASSUME NEW objects \in Tracked, Mirrors(objects, log)
         PROVE  AsFaked(s, Faked(objects, k[1], call))
    <3> DEFINE f == Faked(objects, k[1], call)
    <3>1. f = [objects |-> [objects EXCEPT ![k] = Absent], answer |-> answer]
      <4>1. objects[k] # Absent
        BY <1>4, <2>11, MirroredObject
      <4> QED BY <1>2, <4>1 DEF answer
    <3> HIDE DEF f
    <3>2. f.objects = [objects EXCEPT ![k] = Absent] /\ f.answer = answer
      BY <3>1
    <3>3. \A x \in Keys : objects[x] = Untracked(Server[x])
      BY <2>11, MirroredObject
    <3>4. Untracked(Absent) = Absent
      BY DEF Untracked
    <3>5. f.objects \in Tracked /\ \A x \in Keys : f.objects[x] = Untracked(At(l, Len(l), Keys)[x])
      BY <2>7, <3>2, <3>3, <3>4 DEF Tracked
    <3>6. AsFaked(s, f)
      BY <2>8, <2>9, <3>2, <3>5 DEF AsFaked, Mirrors
    <3> QED BY <3>6 DEF f
  <2> QED BY <2>10, <2>11 DEF Sound, s
<1> QED BY <1>3, <1>4

\* What a PUT stores: UpdateStatus the caller's status, Update the rest.
LEMMA WrittenParts ==
  ASSUME NEW keys, NEW old \in Objects(keys, Nat), NEW call, call.body \in Objects(keys, Nat),
         call.body.key = old.key
  PROVE  LET new == Written(old, call)
         IN  /\ new \in Objects(keys, Nat) /\ new.key = old.key
             /\ call.method = "UpdateStatus"
                  => new.spec = old.spec /\ new.label = old.label /\ new.status = call.body.status
             /\ call.method # "UpdateStatus"
                  => new.status = old.status /\ new.spec = call.body.spec /\ new.label = call.body.label
<1> DEFINE new == Written(old, call)
<1>1. CASE call.method = "UpdateStatus"
  <2>1. new = [old EXCEPT !.status = call.body.status]
    BY <1>1 DEF Written
  <2>2. new \in Objects(keys, Nat)
    BY <2>1 DEF Objects
  <2>3. new.key = old.key /\ new.spec = old.spec /\ new.status = call.body.status
    BY <2>1 DEF Objects
  <2>4. new.label = old.label
    BY <2>1 DEF Objects
  <2> QED BY <1>1, <2>2, <2>3, <2>4
<1>2. CASE call.method # "UpdateStatus"
  <2>1. new = [call.body EXCEPT !.status = old.status]
    BY <1>2 DEF Written
  <2>2. new \in Objects(keys, Nat)
    BY <2>1 DEF Objects
  <2>3. new.key = old.key /\ new.spec = call.body.spec /\ new.status = old.status
    BY <2>1 DEF Objects
  <2>4. new.label = call.body.label
    BY <2>1 DEF Objects
  <2> QED BY <1>2, <2>2, <2>3, <2>4
<1> QED BY <1>1, <1>2

\* Update and UpdateStatus write the same on both sides if the copy is not
\* outdated and differs in the part that the call writes only.
LEMMA PutSound ==
  ASSUME ServerInv, NEW k \in Keys, NEW call, call.method \in {"Update", "UpdateStatus"},
         call.body \in Objects(Keys, Nat), call.body.key = k
  PROVE  Sound(k[1], call, {k})
<1> DEFINE old == Server[k]
           new == Written(old, call)
<1>1. Served(k[1], call) = IF old = Absent THEN Refused(log, "NotFound")
                           ELSE IF call.body.rv # old.rv THEN Refused(log, "Conflict")
                           ELSE Stored(log, old, new)
  BY PutServed DEF Served, Server, Keys, ServerInv
<1>2. \A objects : Faked(objects, k[1], call) = Add(objects, k, call.body, TRUE)
  <2> DEFINE act == Invoke(Plural[kind], k[1], call)
  <2>1. act.action = "Update" /\ act.ns = k[1] /\ act.name = k[2] /\ act.body = call.body
    BY DEF Invoke
  <2> HIDE DEF act
  <2>2. <<act.ns, act.name>> = k
    BY <2>1, CalledKey
  <2>3. \A objects : ObjectReaction(objects, act) = Add(objects, k, call.body, TRUE)
    BY <2>1, <2>2 DEF ObjectReaction
  <2> QED BY <2>3 DEF Faked, act
<1>3. CASE old = Absent
  <2>1. Served(k[1], call) = Refused(log, "NotFound")
    BY <1>1, <1>3
  <2>2. ASSUME NEW objects \in Tracked, Mirrors(objects, log)
        PROVE  Faked(objects, k[1], call) = [objects |-> objects, answer |-> Refuse("NotFound")]
    <3>1. objects[k] = Absent
      BY <1>3, <2>2, MirroredObject
    <3> QED BY <1>2, <3>1 DEF Add
  <2> QED BY <2>1, <2>2, RefusedSound
<1>4. CASE old # Absent /\ call.body.rv # old.rv
  <2>1. Served(k[1], call) = Refused(log, "Conflict")
    BY <1>1, <1>4
  <2>2. OnlyOneKnows(k[1], call)
    BY <1>4, CalledKey DEF OnlyOneKnows
  <2> QED BY <2>1, <2>2, RefusedSound
<1>5. CASE old # Absent /\ call.body.rv = old.rv
  <2> DEFINE s == Served(k[1], call)
  <2>1. s = Stored(log, old, new)
    BY <1>1, <1>5
  <2>2. old \in Objects(Keys, Nat) /\ old.key = k
    BY <1>5, ServerObject
  <2> HIDE DEF old
  <2>3. /\ new \in Objects(Keys, Nat) /\ new.key = k
        /\ call.method = "UpdateStatus"
             => new.spec = old.spec /\ new.label = old.label /\ new.status = call.body.status
        /\ call.method # "UpdateStatus"
             => new.status = old.status /\ new.spec = call.body.spec /\ new.label = call.body.label
    BY <2>2, WrittenParts
  <2> HIDE DEF new, s
  <2>4. Outcome(s, {k}) /\ \E o : Writes(s, k, o) /\ SameParts(o, new)
    BY <1>5, <2>1, <2>3, StoredOutcome DEF old
  <2>5. PICK o : Writes(s, k, o) /\ SameParts(o, new)
    BY <2>4
  <2>6. ~OnlyOneKnows(k[1], call) => SameParts(new, call.body)
    <3> SUFFICES ASSUME ~OnlyOneKnows(k[1], call) PROVE SameParts(new, call.body)
      OBVIOUS
    <3>1. CASE call.method = "Update"
      <4>1. call.body.status = old.status
        BY <1>5, <3>1, CalledKey DEF OnlyOneKnows, old
      <4> QED BY <2>3, <3>1, <4>1 DEF SameParts
    <3>2. CASE call.method = "UpdateStatus"
      <4>1. [call.body EXCEPT !.status = Empty] = [old EXCEPT !.status = Empty]
        BY <1>5, <3>2, CalledKey DEF OnlyOneKnows, old
      <4>2. call.body.spec = old.spec
        BY <2>2, <4>1 DEF Objects
      <4>3. call.body.label = old.label
        <5>1. [call.body EXCEPT !.status = Empty].label = call.body.label
          BY DEF Objects
        <5>2. [old EXCEPT !.status = Empty].label = old.label
          BY <2>2 DEF Objects
        <5> QED BY <4>1, <5>1, <5>2
      <4> QED BY <2>3, <3>2, <4>2, <4>3 DEF SameParts
    <3> QED BY <3>1, <3>2
  <2>7. ASSUME NEW objects \in Tracked, Mirrors(objects, log), ~OnlyOneKnows(k[1], call)
        PROVE  \E p \in Objects(Keys, Nat) :
                 SameParts(o, p) /\ Faked(objects, k[1], call) = Kept(objects, k, p)
    <3>1. SameParts(o, call.body)
      BY <2>5, <2>6, <2>7 DEF SameParts
    <3>2. TRUE \in BOOLEAN /\ ((objects[k] # Absent) <=> TRUE)
      BY <1>5, <2>7, MirroredObject DEF old
    <3>3. Faked(objects, k[1], call) = Kept(objects, k, call.body)
      BY <1>2, <3>2, Added
    <3> QED BY <3>1, <3>3
  <2> QED BY <2>4, <2>5, <2>7, WrittenSound DEF s
<1> QED BY <1>3, <1>4, <1>5

\* A merge patch changes the one part it names.
LEMMA MergedParts ==
  ASSUME NEW keys, NEW versions, NEW o \in Objects(keys, versions), NEW patch \in Patches
  PROVE  LET m == Merge(o, patch)
         IN  /\ m \in Objects(keys, versions) /\ m.key = o.key /\ m.rv = o.rv
             /\ m.spec = IF "spec" \in DOMAIN patch THEN patch["spec"] ELSE o.spec
             /\ m.status = IF "status" \in DOMAIN patch THEN patch["status"] ELSE o.status
             /\ m.label = IF "label" \in DOMAIN patch THEN patch["label"] ELSE o.label
<1> DEFINE m == Merge(o, patch)
           P(f) == IF f \in DOMAIN patch THEN patch[f] ELSE o[f]
<1>1. DOMAIN o = {"key", "spec", "status", "label", "rv"}
  BY DEF Objects
<1>2. m = [f \in {"key", "spec", "status", "label", "rv"} |-> P(f)]
  BY <1>1 DEF Merge
<1>3. "key" \notin DOMAIN patch /\ "rv" \notin DOMAIN patch
  BY DEF Patches
<1>4. m.key = o.key /\ m.rv = o.rv /\ m.spec = P("spec") /\ m.status = P("status") /\ m.label = P("label")
  BY <1>2, <1>3
<1>5. o.key \in keys /\ o.rv \in versions
  BY DEF Objects
<1>6. P("spec") \in Contents /\ P("status") \in Contents
  BY DEF Objects, Patches
<1>7. P("label") \in BOOLEAN
  BY DEF Objects, Patches
<1>8. m = [key |-> m.key, spec |-> m.spec, status |-> m.status, label |-> m.label, rv |-> m.rv]
  BY <1>2
<1> HIDE DEF m, P
<1>9. m.key \in keys /\ m.rv \in versions /\ m.spec \in Contents /\ m.status \in Contents
  BY <1>4, <1>5, <1>6
<1>10. m.label \in BOOLEAN
  BY <1>4, <1>7
<1>11. m \in Objects(keys, versions)
  BY <1>8, <1>9, <1>10 DEF Objects
<1> QED BY <1>4, <1>11 DEF m, P

\* A patch stores the same on both sides if it keeps to the part of its path.
LEMMA PatchSound ==
  ASSUME ServerInv, NEW k \in Keys, NEW call, call.method = "Patch", call.name = k[2],
         call.body \in Patches
  PROVE  Sound(k[1], call, {k})
<1> DEFINE old == Server[k]
           m == Merge(old, call.body)
           new == Patch(old, PatchArguments(call))
<1>1. Served(k[1], call) = IF old = Absent THEN Refused(log, "NotFound") ELSE Stored(log, old, new)
  BY PatchServed DEF Served, Server, Keys, ServerInv
<1>2. \A objects : Faked(objects, k[1], call)
                     = IF objects[k] = Absent THEN [objects |-> objects, answer |-> Refuse("NotFound")]
                       ELSE Add(objects, k, Merge(objects[k], call.body), TRUE)
  <2> DEFINE act == Invoke(Plural[kind], k[1], call)
  <2>1. act.action = "Patch" /\ act.ns = k[1] /\ act.name = k[2] /\ act.body = call.body
    BY DEF Invoke
  <2> HIDE DEF act
  <2>2. <<act.ns, act.name>> = k
    BY <2>1, CalledKey
  <2>3. \A objects : ObjectReaction(objects, act)
                       = IF objects[k] = Absent THEN [objects |-> objects, answer |-> Refuse("NotFound")]
                         ELSE Add(objects, k, Merge(objects[k], call.body), TRUE)
    <3> TAKE objects
    <3>1. CASE objects[k] = Absent
      BY <2>1, <2>2, <3>1 DEF ObjectReaction
    <3>2. CASE objects[k] # Absent
      BY <2>1, <2>2, <3>2 DEF ObjectReaction
    <3> QED BY <3>1, <3>2
  <2> QED BY <2>3 DEF Faked, act
<1>3. CASE old = Absent
  <2>1. Served(k[1], call) = Refused(log, "NotFound")
    BY <1>1, <1>3
  <2>2. ASSUME NEW objects \in Tracked, Mirrors(objects, log)
        PROVE  Faked(objects, k[1], call) = [objects |-> objects, answer |-> Refuse("NotFound")]
    <3>1. objects[k] = Absent
      BY <1>3, <2>2, MirroredObject
    <3> QED BY <1>2, <3>1
  <2> QED BY <2>1, <2>2, RefusedSound
<1>4. CASE old # Absent
  <2> DEFINE s == Served(k[1], call)
  <2>1. s = Stored(log, old, new)
    BY <1>1, <1>4
  <2>2. old \in Objects(Keys, Nat) /\ old.key = k
    BY <1>4, ServerObject
  <2> HIDE DEF old
  <2>3. /\ m \in Objects(Keys, Nat) /\ m.key = k
        /\ m.spec = IF "spec" \in DOMAIN call.body THEN call.body["spec"] ELSE old.spec
        /\ m.status = IF "status" \in DOMAIN call.body THEN call.body["status"] ELSE old.status
        /\ m.label = IF "label" \in DOMAIN call.body THEN call.body["label"] ELSE old.label
    BY <2>2, MergedParts
  <2>4. new = IF call.sub = "status" THEN [old EXCEPT !.status = m.status]
              ELSE [m EXCEPT !.status = old.status]
    BY DEF Patch, PatchArguments
  <2>5. ~OnlyOneKnows(k[1], call)
          => IF call.sub = "status" THEN [m EXCEPT !.status = Empty] = [old EXCEPT !.status = Empty]
             ELSE m.status = old.status
    BY <1>4, CalledKey DEF OnlyOneKnows, old
  <2> HIDE DEF m, new, s
  <2>6. new \in Objects(Keys, Nat) /\ new.key = k
    <3>1. old.status \in Contents /\ m.status \in Contents
      BY <2>2, <2>3 DEF Objects
    <3>2. CASE call.sub = "status"
      BY <2>2, <2>4, <3>1, <3>2 DEF Objects
    <3>3. CASE call.sub # "status"
      BY <2>3, <2>4, <3>1, <3>3 DEF Objects
    <3> QED BY <3>2, <3>3
  <2>7. Outcome(s, {k}) /\ \E o : Writes(s, k, o) /\ SameParts(o, new)
    BY <1>4, <2>1, <2>6, StoredOutcome DEF old
  <2>8. PICK o : Writes(s, k, o) /\ SameParts(o, new)
    BY <2>7
  <2>9. ~OnlyOneKnows(k[1], call) => SameParts(new, m)
    <3> SUFFICES ASSUME ~OnlyOneKnows(k[1], call) PROVE SameParts(new, m)
      OBVIOUS
    <3>1. CASE call.sub = "status"
      <4>1. [m EXCEPT !.status = Empty] = [old EXCEPT !.status = Empty]
        BY <2>5, <3>1
      <4>2. m.spec = old.spec
        BY <2>2, <2>3, <4>1 DEF Objects
      <4>3. m.label = old.label
        <5>1. [m EXCEPT !.status = Empty].label = m.label
          BY <2>3 DEF Objects
        <5>2. [old EXCEPT !.status = Empty].label = old.label
          BY <2>2 DEF Objects
        <5> QED BY <4>1, <5>1, <5>2
      <4>4. new = [old EXCEPT !.status = m.status]
        BY <2>4, <3>1
      <4>5. new.spec = old.spec /\ new.status = m.status
        BY <2>2, <4>4 DEF Objects
      <4>6. new.label = old.label
        BY <2>2, <4>4 DEF Objects
      <4> QED BY <2>3, <2>6, <4>2, <4>3, <4>5, <4>6 DEF SameParts
    <3>2. CASE call.sub # "status"
      <4>1. m.status = old.status
        BY <2>5, <3>2
      <4>2. new = [m EXCEPT !.status = old.status]
        BY <2>4, <3>2
      <4>3. new.spec = m.spec /\ new.status = old.status
        BY <2>3, <4>2 DEF Objects
      <4>4. new.label = m.label
        BY <2>3, <4>2 DEF Objects
      <4> QED BY <2>3, <2>6, <4>1, <4>3, <4>4 DEF SameParts
    <3> QED BY <3>1, <3>2
  <2>10. ASSUME NEW objects \in Tracked, Mirrors(objects, log), ~OnlyOneKnows(k[1], call)
         PROVE  \E p \in Objects(Keys, Nat) :
                  SameParts(o, p) /\ Faked(objects, k[1], call) = Kept(objects, k, p)
    <3> DEFINE p == Merge(objects[k], call.body)
    <3>1. objects[k] = Untracked(old) /\ objects[k] # Absent
      BY <1>4, <2>10, MirroredObject DEF old
    <3>2. /\ objects[k] \in Objects(Keys, Nat)
          /\ objects[k].key = k /\ objects[k].spec = old.spec
          /\ objects[k].status = old.status /\ objects[k].label = old.label
      BY <2>2, <3>1, UntrackedObject DEF ServerInv
    <3>3. /\ p \in Objects(Keys, Nat) /\ p.key = k
          /\ p.spec = IF "spec" \in DOMAIN call.body THEN call.body["spec"] ELSE old.spec
          /\ p.status = IF "status" \in DOMAIN call.body THEN call.body["status"] ELSE old.status
          /\ p.label = IF "label" \in DOMAIN call.body THEN call.body["label"] ELSE old.label
      BY <3>2, MergedParts
    <3>4. TRUE \in BOOLEAN /\ ((objects[k] # Absent) <=> TRUE)
      BY <3>1
    <3>5. Faked(objects, k[1], call) = Kept(objects, k, p)
      BY <1>2, <3>1, <3>4, Added
    <3> HIDE DEF p
    <3>6. SameParts(m, p)
      BY <2>3, <3>3 DEF SameParts
    <3>7. SameParts(o, p)
      BY <2>8, <2>9, <2>10, <3>6 DEF SameParts
    <3> QED BY <3>3, <3>5, <3>7
  <2> QED BY <2>7, <2>8, <2>10, WrittenSound DEF s
<1> QED BY <1>3, <1>4

\* DeleteCollection removes the objects of one namespace that match, and the
\* tracker, which removes none, does the same if there are none.
LEMMA DeleteCollectionSound ==
  ASSUME ServerInv, NEW ns \in ScopeOf(kind), NEW call, call.method = "DeleteCollection"
  PROVE  Sound(ns, call, {k \in Keys : InNamespace(ns, k)})
<1> DEFINE found == Matching(Server, ns, call.selector)
           changed == {k \in Keys : InNamespace(ns, k)}
           s == Served(ns, call)
           answer == OK({})
<1>1. s = [log |-> log \o Removals(found), answer |-> answer]
  BY CollectionDeleted DEF Served, Server, Keys, ServerInv
<1>2. DOMAIN Server = Keys /\ WellFormed(log, Keys)
  BY DEF Server, At, ServerInv
<1>3. IsFiniteSet(found)
  <2> DEFINE K == {k \in Keys : Server[k] # Absent /\ InNamespace(ns, k)
                                /\ Matches(call.selector, Server[k])}
             f == [k \in K |-> Server[k]]
  <2>1. IsFiniteSet(K)
    BY KeysOfFinite, FS_Subset DEF ServerInv, Keys
  <2>2. found = {Server[k] : k \in K}
    BY <1>2 DEF Matching
  <2>3. f \in Surjection(K, found)
    BY <2>2 DEF Surjection
  <2> QED BY <2>1, <2>3, FS_Surjection
<1>4. \A o \in found : o.key \in changed
  <2>1. \A o \in found : \E k \in Keys : o = Server[k] /\ Server[k] # Absent /\ InNamespace(ns, k)
    BY <1>2 DEF Matching
  <2> QED BY <2>1, ServerObject
<1>5. answer.objects = {} /\ SameAnswer(answer, answer)
  BY DEF OK, Answer, SameAnswer
<1>6. ~OnlyOneKnows(ns, call) => found = {}
  <2>1. ~OnlyOneKnows(ns, call)
          => \A k \in Keys : ~(Server[k] # Absent /\ InNamespace(ns, k) /\ Matches(call.selector, Server[k]))
    BY DEF OnlyOneKnows
  <2> QED BY <1>2, <2>1 DEF Matching
<1>7. \A objects : Faked(objects, ns, call) = [objects |-> objects, answer |-> answer]
  <2> DEFINE act == Invoke(Plural[kind], ns, call)
  <2>1. act.action = "DeleteCollection"
    BY DEF Invoke
  <2> HIDE DEF act
  <2>2. \A objects : ObjectReaction(objects, act) = [objects |-> objects, answer |-> answer]
    BY <2>1 DEF ObjectReaction
  <2> QED BY <2>2 DEF Faked, act
<1>8. changed \in SUBSET Keys
  OBVIOUS
<1> HIDE DEF found, changed, s, answer
<1>9. Extends(log, log \o Removals(found), Keys, changed)
  BY <1>2, <1>3, <1>4, <1>8, RemovalsExtend
<1>10. Outcome(s, changed)
  BY <1>1, <1>5, <1>9 DEF Outcome
<1>11. ASSUME NEW objects \in Tracked, Mirrors(objects, log), ~OnlyOneKnows(ns, call)
       PROVE  AsFaked(s, Faked(objects, ns, call))
  <2>1. log \o Removals(found) = log
    <3>1. Removals({}) = << >>
      <4>1. {[key |-> o.key, obj |-> Absent] : o \in {}} = {}
        OBVIOUS
      <4>2. IsFiniteSet({}) /\ Cardinality({}) = 0
        BY FS_EmptySet
      <4>3. SetToSeq({}) \in Seq({}) /\ Len(SetToSeq({})) = 0
        BY <4>2, SetToSeqOf
      <4>4. SetToSeq({}) = << >>
        BY <4>3, EmptySeq
      <4> QED BY <4>1, <4>4 DEF Removals
    <3>2. log \o << >> = log
      BY <1>2, ConcatEmptySeq DEF WellFormed
    <3> QED BY <1>6, <1>11, <3>1, <3>2
  <2>2. s = [log |-> log, answer |-> answer]
    BY <1>1, <2>1
  <2>3. AsFaked([log |-> log, answer |-> answer], [objects |-> objects, answer |-> answer])
    BY <1>5, <1>11, UnwrittenAsFaked
  <2> QED BY <1>7, <2>2, <2>3
<1> QED BY <1>10, <1>11 DEF Sound, s, changed

-----------------------------------------------------------------------------
(* Every step keeps the invariant.                                         *)

(* The log grows by entries of one namespace.                              *)
GrowsIn(ns) == Extends(log, log', Keys, {k \in Keys : k[1] = ns})

\* Fewer keys may change than are said to.
LEMMA ExtendsMore ==
  ASSUME NEW keys, NEW l, NEW later, NEW changed, NEW more, Extends(l, later, keys, changed),
         changed \subseteq more
  PROVE  Extends(l, later, keys, more)
<1> QED BY DEF Extends

\* A call on one object.
LEMMA ExchangeOfOne ==
  ASSUME CInv, NEW c \in Callers, NEW k \in Keys, NEW call, Exchange(c, k[1], call),
         Sound(k[1], call, {k}) \/ Sound(k[1], call, {})
  PROVE  CInv' /\ kind' = kind /\ \E ns : GrowsIn(ns)
<1>1. k[1] \in ScopeOf(kind) \cup {AllNamespaces}
  BY CalledKey DEF CInv
<1>2. PICK changed : Sound(k[1], call, changed) /\ changed \subseteq {x \in Keys : x[1] = k[1]}
  OBVIOUS
<1>3. CInv' /\ kind' = kind /\ Extends(log, log', Keys, changed)
  BY <1>1, <1>2, ExchangeKeeps
<1>4. GrowsIn(k[1])
  BY <1>2, <1>3, ExtendsMore DEF GrowsIn
<1> QED BY <1>3, <1>4

LEMMA GetKeeps ==
  ASSUME CInv, NEW c \in Callers, Get(c)
  PROVE  CInv' /\ kind' = kind /\ \E ns : GrowsIn(ns)
<1>1. PICK k \in Keys : Exchange(c, k[1], [NewCall("Get") EXCEPT !.name = k[2]])
  BY DEF Get
<1> DEFINE call == [NewCall("Get") EXCEPT !.name = k[2]]
<1>2. call.method = "Get" /\ call.name = k[2] /\ ServerInv
  BY DEF NewCall, CInv
<1>3. Exchange(c, k[1], call)
  BY <1>1
<1> HIDE DEF call
<1>4. Sound(k[1], call, {})
  BY <1>2, GetSound
<1> QED BY <1>3, <1>4, ExchangeOfOne

LEMMA ListKeeps ==
  ASSUME CInv, NEW c \in Callers, List(c)
  PROVE  CInv' /\ kind' = kind /\ \E ns : GrowsIn(ns)
<1>1. PICK ns \in ScopeOf(kind) \cup {AllNamespaces}, selector \in Selectors :
        Exchange(c, ns, [NewCall("List") EXCEPT !.selector = selector])
  BY DEF List
<1> DEFINE call == [NewCall("List") EXCEPT !.selector = selector]
<1>2. call.method = "List" /\ ServerInv
  BY DEF NewCall, CInv
<1>3. Exchange(c, ns, call)
  BY <1>1
<1> HIDE DEF call
<1>4. Sound(ns, call, {})
  BY <1>2, ListSound
<1>5. CInv' /\ kind' = kind /\ Extends(log, log', Keys, {})
  BY <1>3, <1>4, ExchangeKeeps
<1>6. GrowsIn(ns)
  BY <1>5, ExtendsMore DEF GrowsIn
<1> QED BY <1>5, <1>6

LEMMA CreateKeeps ==
  ASSUME CInv, NEW c \in Callers, Create(c)
  PROVE  CInv' /\ kind' = kind /\ \E ns : GrowsIn(ns)
<1>1. PICK k \in Keys, spec \in Contents, status \in Contents, label \in BOOLEAN :
        Exchange(c, k[1], [NewCall("Create") EXCEPT !.body = NewObject(k, spec, status, label)])
  BY DEF Create
<1> DEFINE body == NewObject(k, spec, status, label)
           call == [NewCall("Create") EXCEPT !.body = body]
<1>2. body \in Objects(Keys, Nat) /\ body.key = k
  BY DEF NewObject, Objects
<1>3. Exchange(c, k[1], call)
  BY <1>1
<1> HIDE DEF body
<1>4. call.method = "Create" /\ call.body = body /\ ServerInv
  BY DEF NewCall, CInv
<1> HIDE DEF call
<1>5. call.body \in Objects(Keys, Nat) /\ call.body.key = k
  BY <1>2, <1>4
<1>6. Sound(k[1], call, {k})
  BY <1>4, <1>5, CreateSound
<1> QED BY <1>3, <1>6, ExchangeOfOne

LEMMA WriteKeeps ==
  ASSUME CInv, NEW c \in Callers, NEW method \in {"Update", "UpdateStatus"}, Write(c, method)
  PROVE  CInv' /\ kind' = kind /\ \E ns : GrowsIn(ns)
<1>1. PICK spec \in Contents, status \in Contents, label \in BOOLEAN :
        Exchange(c, held[c].key[1], [NewCall(method) EXCEPT !.body =
          [held[c] EXCEPT !.spec = spec, !.status = status, !.label = label]])
  BY DEF Write
<1>2. held[c] \in Objects(Keys, Nat)
  BY DEF Write, CInv, HeldInv
<1> DEFINE k == held[c].key
           body == [held[c] EXCEPT !.spec = spec, !.status = status, !.label = label]
           call == [NewCall(method) EXCEPT !.body = body]
<1>3. k \in Keys /\ body \in Objects(Keys, Nat) /\ body.key = k
  BY <1>2 DEF Objects
<1>4. Exchange(c, k[1], call)
  BY <1>1
<1> HIDE DEF body, k
<1>5. call.method = method /\ call.body = body /\ ServerInv
  BY DEF NewCall, CInv
<1> HIDE DEF call
<1>6. /\ call.method \in {"Update", "UpdateStatus"}
      /\ call.body \in Objects(Keys, Nat) /\ call.body.key = k
  BY <1>3, <1>5
<1>7. Sound(k[1], call, {k})
  BY <1>3, <1>5, <1>6, PutSound
<1> QED BY <1>3, <1>4, <1>7, ExchangeOfOne

LEMMA DeleteKeeps ==
  ASSUME CInv, NEW c \in Callers, Delete(c)
  PROVE  CInv' /\ kind' = kind /\ \E ns : GrowsIn(ns)
<1>1. PICK k \in Keys : Exchange(c, k[1], [NewCall("Delete") EXCEPT !.name = k[2]])
  BY DEF Delete
<1> DEFINE call == [NewCall("Delete") EXCEPT !.name = k[2]]
<1>2. call.method = "Delete" /\ call.name = k[2] /\ ServerInv
  BY DEF NewCall, CInv
<1>3. Exchange(c, k[1], call)
  BY <1>1
<1> HIDE DEF call
<1>4. Sound(k[1], call, {k})
  BY <1>2, DeleteSound
<1> QED BY <1>3, <1>4, ExchangeOfOne

LEMMA DeleteCollectionKeeps ==
  ASSUME CInv, NEW c \in Callers, DeleteCollection(c)
  PROVE  CInv' /\ kind' = kind /\ \E ns : GrowsIn(ns)
<1>1. PICK ns \in ScopeOf(kind), selector \in Selectors :
        Exchange(c, ns, [NewCall("DeleteCollection") EXCEPT !.selector = selector])
  BY DEF DeleteCollection
<1> DEFINE call == [NewCall("DeleteCollection") EXCEPT !.selector = selector]
<1>2. call.method = "DeleteCollection" /\ ServerInv
  BY DEF NewCall, CInv
<1>3. Exchange(c, ns, call)
  BY <1>1
<1> HIDE DEF call
<1>4. Sound(ns, call, {k \in Keys : InNamespace(ns, k)})
  BY <1>2, DeleteCollectionSound
<1>5. CInv' /\ kind' = kind /\ Extends(log, log', Keys, {k \in Keys : InNamespace(ns, k)})
  BY <1>3, <1>4, ExchangeKeeps
<1>6. {k \in Keys : InNamespace(ns, k)} \subseteq {k \in Keys : k[1] = ns}
  <2> SUFFICES ASSUME NEW k \in Keys, InNamespace(ns, k) PROVE k[1] = ns
    OBVIOUS
  <2>1. k[1] \in ScopeOf(kind)
    BY <1>2, CalledKey
  <2>2. ns = AllNamespaces => kind = "GatewayClass"
    BY NamesAssumption DEF NamesAssumption, ScopeOf
  <2> QED BY <2>1, <2>2 DEF InNamespace, ScopeOf
<1>7. GrowsIn(ns)
  BY <1>5, <1>6, ExtendsMore DEF GrowsIn
<1> QED BY <1>5, <1>7

LEMMA PatchObjectKeeps ==
  ASSUME CInv, NEW c \in Callers, PatchObject(c)
  PROVE  CInv' /\ kind' = kind /\ \E ns : GrowsIn(ns)
<1>1. PICK k \in Keys, patch \in Patches, sub \in {"", "status"} :
        Exchange(c, k[1], [NewCall("Patch") EXCEPT !.name = k[2], !.body = patch, !.sub = sub])
  BY DEF PatchObject
<1> DEFINE call == [NewCall("Patch") EXCEPT !.name = k[2], !.body = patch, !.sub = sub]
<1>2. call.method = "Patch" /\ call.name = k[2] /\ call.body = patch /\ ServerInv
  BY DEF NewCall, CInv
<1>3. Exchange(c, k[1], call)
  BY <1>1
<1> HIDE DEF call
<1>4. Sound(k[1], call, {k})
  BY <1>2, PatchSound
<1> QED BY <1>3, <1>4, ExchangeOfOne

\* A step that changes nothing.
LEMMA StutterKeeps ==
  ASSUME CInv, UNCHANGED vars
  PROVE  CInv' /\ kind' = kind /\ \E ns : GrowsIn(ns)
<1>1. Keys' = Keys /\ kind' = kind /\ Server' = Server
  BY DEF vars, Keys, Server
<1>2. CInv'
  BY <1>1 DEF vars, CInv, ServerInv, HeldInv, TrackerInv, Tracked, Mirrors, Resources
<1>3. GrowsIn(AllNamespaces)
  BY ExtendsItself DEF vars, GrowsIn, CInv, ServerInv
<1> QED BY <1>1, <1>2, <1>3

LEMMA NextKeeps ==
  ASSUME CInv, [Next]_vars
  PROVE  CInv' /\ kind' = kind /\ \E ns : GrowsIn(ns)
<1>1. CASE Next
  <2>1. PICK c \in Callers : Get(c) \/ List(c) \/ Create(c) \/ Update(c) \/ UpdateStatus(c)
                               \/ Delete(c) \/ DeleteCollection(c) \/ PatchObject(c)
    BY <1>1 DEF Next
  <2>2. CASE Get(c)
    BY <2>2, GetKeeps
  <2>3. CASE List(c)
    BY <2>3, ListKeeps
  <2>4. CASE Create(c)
    BY <2>4, CreateKeeps
  <2>5. CASE Update(c)
    BY <2>5, WriteKeeps DEF Update
  <2>6. CASE UpdateStatus(c)
    BY <2>6, WriteKeeps DEF UpdateStatus
  <2>7. CASE Delete(c)
    BY <2>7, DeleteKeeps
  <2>8. CASE DeleteCollection(c)
    BY <2>8, DeleteCollectionKeeps
  <2>9. CASE PatchObject(c)
    BY <2>9, PatchObjectKeeps
  <2> QED BY <2>1, <2>2, <2>3, <2>4, <2>5, <2>6, <2>7, <2>8, <2>9
<1>2. CASE UNCHANGED vars
  BY <1>2, StutterKeeps
<1> QED BY <1>1, <1>2

\* The object that NewSimpleClientset is given, in its first version.
LEMMA SeedObject ==
  ASSUME kind \in Kinds, NEW k \in Keys
  PROVE  LET new == NewObject(k, Empty, Empty, FALSE)
             obj == [new EXCEPT !.rv = 1]
         IN  /\ new \in Objects(Keys, {0}) /\ obj \in Objects(Keys, Nat)
             /\ obj.key = k /\ obj.rv = 1 /\ Untracked(obj) = new
<1>1. ASSUME NEW label \in BOOLEAN
      PROVE  LET new == NewObject(k, Empty, Empty, label)
                 obj == [new EXCEPT !.rv = 1]
             IN  /\ new \in Objects(Keys, {0}) /\ obj \in Objects(Keys, Nat)
                 /\ obj.key = k /\ obj.rv = 1 /\ Untracked(obj) = new
  <2> DEFINE new == NewObject(k, Empty, Empty, label)
             obj == [new EXCEPT !.rv = 1]
  <2>1. Empty \in Contents
    BY ContentsAssumption DEF ContentsAssumption
  <2>2. /\ new = [key |-> k, spec |-> Empty, status |-> Empty, label |-> label, rv |-> 0]
        /\ obj = [key |-> k, spec |-> Empty, status |-> Empty, label |-> label, rv |-> 1]
    BY DEF NewObject
  <2>3. new \in Objects(Keys, {0})
    BY <2>1, <2>2 DEF Objects
  <2>4. obj \in Objects(Keys, Nat) /\ obj.key = k /\ obj.rv = 1
    BY <2>1, <2>2 DEF Objects
  <2>5. new.spec = obj.spec /\ new.status = obj.status /\ new.label = obj.label /\ new.key = k
    BY <2>2
  <2> HIDE DEF new, obj
  <2>6. /\ Untracked(obj) \in Objects(Keys, {0})
        /\ Untracked(obj).key = k /\ Untracked(obj).spec = obj.spec
        /\ Untracked(obj).status = obj.status /\ Untracked(obj).label = obj.label
    BY <2>4, UntrackedObject
  <2>7. Untracked(obj) = new
    BY <2>3, <2>5, <2>6, SameCopy
  <2> QED BY <2>3, <2>4, <2>7 DEF new, obj
<1> QED BY <1>1, Zenon

\* NewSimpleClientset starts with the server's objects, or has parted from it.
LEMMA InitCInv == Init => CInv
<1> SUFFICES ASSUME Init PROVE CInv
  OBVIOUS
<1>1. kind \in Kinds /\ agree = TRUE /\ held = [c \in Callers |-> Absent]
  BY DEF Init
<1>2. PICK seed \in {{}} \cup {{k} : k \in KeysOf(kind)} :
        /\ log = SetToSeq({[key |-> k, obj |-> [NewObject(k, Empty, Empty, FALSE) EXCEPT !.rv = 1]] : k \in seed})
        /\ tracker = NewSimpleClientset(kind, seed)
        /\ parted = (seed # {} /\ UnsafeGuessKindToResource[kind] # Plural[kind])
  BY DEF Init
<1>3. HeldInv
  BY <1>1 DEF HeldInv
<1>4. Absent \notin Objects(Keys, Nat) /\ Empty \in Contents
  BY <1>1, AbsentIsNoObject, ContentsAssumption DEF Keys, ContentsAssumption
<1>5. \A k \in Keys : /\ NewObject(k, Empty, Empty, FALSE) \in Objects(Keys, {0})
                      /\ [NewObject(k, Empty, Empty, FALSE) EXCEPT !.rv = 1] \in Objects(Keys, Nat)
                      /\ [NewObject(k, Empty, Empty, FALSE) EXCEPT !.rv = 1].key = k
                      /\ [NewObject(k, Empty, Empty, FALSE) EXCEPT !.rv = 1].rv = 1
                      /\ Untracked([NewObject(k, Empty, Empty, FALSE) EXCEPT !.rv = 1])
                           = NewObject(k, Empty, Empty, FALSE)
  BY <1>1, SeedObject
<1>6. /\ ServerInv
      /\ \A k \in Keys : Untracked(Server[k]) = IF k \in seed THEN NewObject(k, Empty, Empty, FALSE) ELSE Absent
  <2>1. CASE seed = {}
    <3>1. log = << >>
      <4>1. {[key |-> k, obj |-> [NewObject(k, Empty, Empty, FALSE) EXCEPT !.rv = 1]] : k \in seed} = {}
        BY <2>1
      <4>2. IsFiniteSet({}) /\ Cardinality({}) = 0
        BY FS_EmptySet
      <4>3. SetToSeq({}) \in Seq({}) /\ Len(SetToSeq({})) = 0
        BY <4>2, SetToSeqOf
      <4> QED BY <1>2, <4>1, <4>3, EmptySeq
    <3>2. Len(log) = 0 /\ \A k \in Keys : Server[k] = Absent
      BY <3>1 DEF Server, At
    <3>3. ServerInv
      BY <1>1, <3>1 DEF ServerInv, WellFormed
    <3> QED BY <2>1, <3>2, <3>3 DEF Untracked
  <2>2. ASSUME NEW x \in Keys, seed = {x}
        PROVE  /\ ServerInv
               /\ \A k \in Keys : Untracked(Server[k])
                                    = IF k \in seed THEN NewObject(k, Empty, Empty, FALSE) ELSE Absent
    <3> DEFINE obj == [NewObject(x, Empty, Empty, FALSE) EXCEPT !.rv = 1]
               e == [key |-> x, obj |-> obj]
    <3>1. log = <<e>>
      <4>1. {[key |-> k, obj |-> [NewObject(k, Empty, Empty, FALSE) EXCEPT !.rv = 1]] : k \in seed} = {e}
        BY <2>2
      <4> QED BY <1>2, <4>1, SetToSeqOfOne
    <3>2. /\ obj \in Objects(Keys, Nat) /\ obj.key = x /\ obj.rv = 1
          /\ Untracked(obj) = NewObject(x, Empty, Empty, FALSE)
      BY <1>5
    <3> HIDE DEF obj
    <3>3. e \in Entries(Keys) /\ e.key = x /\ e.obj = obj
      BY <3>2 DEF Entries
    <3> HIDE DEF e
    <3>4. log \in Seq(Entries(Keys)) /\ Len(log) = 1 /\ log[1] = e
      BY <3>1, <3>3
    <3>5. ServerInv
      BY <1>1, <3>2, <3>3, <3>4, VersionsAssumption DEF ServerInv, WellFormed, VersionsAssumption
    <3>6. \A k \in Keys : Server[k] = IF k = x THEN obj ELSE Absent
      <4> TAKE k \in Keys
      <4>1. Server[k] = IF e.key = k THEN e.obj ELSE At(log, 0, Keys)[k]
        <5>1. 1 \in Nat /\ 1 > 0 /\ 1 - 1 = 0
          OBVIOUS
        <5>2. At(log, 1, Keys) = [y \in Keys |-> IF log[1].key = y THEN log[1].obj ELSE At(log, 1 - 1, Keys)[y]]
          BY <5>1, AtStep
        <5> QED BY <3>4, <5>1, <5>2 DEF Server
      <4>2. At(log, 0, Keys)[k] = Absent
        BY DEF At
      <4> QED BY <3>3, <4>1, <4>2
    <3>7. obj # Absent
      BY <1>4, <3>2
    <3> QED BY <2>2, <3>2, <3>5, <3>6, <3>7 DEF Untracked
  <2> QED BY <1>2, <2>1, <2>2 DEF Keys
<1>7. parted \in BOOLEAN
  BY <1>2
<1>8. ASSUME ~parted
      PROVE  tracker \in [Resources(kind) -> Tracked] /\ Mirrors(tracker[Plural[kind]], log)
  <2>1. tracker = [r \in Resources(kind) |->
                     [key \in Keys |-> IF key \in seed /\ r = UnsafeGuessKindToResource[kind]
                                       THEN NewObject(key, Empty, Empty, FALSE) ELSE Absent]]
    BY <1>2 DEF NewSimpleClientset, Keys
  <2>2. tracker \in [Resources(kind) -> Tracked]
    BY <1>5, <2>1 DEF Tracked
  <2>3. Plural[kind] \in Resources(kind)
    BY DEF Resources
  <2>4. \A k \in Keys : tracker[Plural[kind]][k]
          = IF k \in seed /\ Plural[kind] = UnsafeGuessKindToResource[kind]
            THEN NewObject(k, Empty, Empty, FALSE) ELSE Absent
    BY <2>1, <2>3
  <2>5. \A k \in Keys : tracker[Plural[kind]][k] = Untracked(At(log, Len(log), Keys)[k])
    BY <1>2, <1>6, <1>8, <2>4 DEF Server
  <2>6. tracker[Plural[kind]] \in Tracked
    BY <2>2, <2>3
  <2> QED BY <2>2, <2>5, <2>6 DEF Mirrors
<1>9. TrackerInv
  BY <1>1, <1>7, <1>8 DEF TrackerInv
<1> QED BY <1>3, <1>6, <1>9 DEF CInv

\* Every program of any number of callers keeps the invariant.
THEOREM ClientsInv == Spec => []CInv
<1>1. CInv /\ [Next]_vars => CInv'
  BY NextKeeps
<1> QED BY <1>1, InitCInv, PTL DEF Spec

-----------------------------------------------------------------------------
(* What follows.                                                           *)

\* A program that keeps to what both sides know cannot tell the fake clientset
\* from the API server.
THEOREM FakeAlwaysStandsIn == Spec => []FakeStandsIn
<1> SUFFICES ASSUME CInv PROVE FakeStandsIn
  BY ClientsInv, PTL
<1> QED BY DEF CInv, TrackerInv, Mirrors, FakeStandsIn, Server

\* Every variable keeps its type, and what a client method returned is a
\* version that the server stored.
THEOREM ClientsTypeOK == Spec => []TypeOK
<1> SUFFICES ASSUME CInv PROVE TypeOK
  BY ClientsInv, PTL
<1>1. kind \in Kinds /\ WellFormed(log, Keys) /\ MaxVersions \in Nat
  BY VersionsAssumption DEF CInv, ServerInv, VersionsAssumption
<1>2. log \in Seq(Entries(Keys)) /\ Len(log) \in Nat /\ DOMAIN log = 1 .. Len(log)
  BY <1>1 DEF WellFormed
<1>3. \A i \in 1 .. Len(log) : log[i] \in LogEntries
  <2> TAKE i \in 1 .. Len(log)
  <2>1. log[i] \in Entries(Keys)
    BY <1>2, ElementOfSeq
  <2>2. log[i].obj # Absent => log[i].obj.rv \in 1 .. MaxVersions
    BY <1>1, <1>2 DEF CInv, ServerInv, WellFormed
  <2>3. \A o \in Objects(Keys, Nat) : o.rv \in 1 .. MaxVersions => o \in Objects(Keys, 1 .. MaxVersions)
    BY DEF Objects
  <2>4. log[i].obj \in Objects(Keys, 1 .. MaxVersions) \cup {Absent}
    BY <2>1, <2>2, <2>3 DEF Entries
  <2> QED BY <2>1, <2>4 DEF Entries, LogEntries
<1>4. log \in Seq(LogEntries)
  BY <1>2, <1>3, SeqOver
<1>5. \A c \in Callers : held[c] = Absent \/ \E i \in DOMAIN log : log[i].obj = held[c]
  BY <1>2 DEF CInv, HeldInv, Genuine
<1>6. parted \/ \A r \in Resources(kind), k \in Keys : tracker[r][k] \in Objects(Keys, {0}) \cup {Absent}
  <2> SUFFICES ASSUME ~parted, NEW r \in Resources(kind), NEW k \in Keys
               PROVE  tracker[r][k] \in Objects(Keys, {0}) \cup {Absent}
    OBVIOUS
  <2>1. tracker[r] \in Tracked
    BY DEF CInv, TrackerInv
  <2> QED BY <2>1 DEF Tracked
<1>7. parted \in BOOLEAN /\ agree \in BOOLEAN
  BY DEF CInv, TrackerInv
<1> QED BY <1>1, <1>4, <1>5, <1>6, <1>7 DEF TypeOK

\* One call changes objects of one namespace only.
THEOREM CallsStayInOneNamespace == Spec => OneNamespacePerCall
<1>1. ASSUME CInv, [Next]_vars
      PROVE  Cardinality({k[1] : k \in {k \in Keys : Server[k] # Server'[k]}}) <= 1
  <2> DEFINE changed == {k[1] : k \in {k \in Keys : Server[k] # Server'[k]}}
  <2>1. kind' = kind /\ Keys' = Keys
    BY <1>1, NextKeeps DEF Keys
  <2>2. PICK ns : GrowsIn(ns)
    BY <1>1, NextKeeps
  <2>3. WellFormed(log, Keys)
    BY <1>1 DEF CInv, ServerInv
  <2>4. ASSUME NEW k \in Keys, k[1] # ns
        PROVE  Server'[k] = Server[k]
    <3>1. Extends(log, log', Keys, {x \in Keys : x[1] = ns})
      BY <2>2 DEF GrowsIn
    <3>2. k \notin {x \in Keys : x[1] = ns}
      BY <2>4
    <3>3. At(log', Len(log'), Keys)[k] = At(log, Len(log), Keys)[k]
      BY <2>3, <3>1, <3>2, AtUntouched
    <3> QED BY <2>1, <3>3 DEF Server
  <2>5. changed \subseteq {ns}
    BY <2>4
  <2>6. IsFiniteSet({ns}) /\ Cardinality({ns}) = 1
    BY FS_Singleton
  <2> HIDE DEF changed
  <2>7. Cardinality(changed) <= 1
    BY <2>5, <2>6, FS_Subset
  <2> QED BY <2>7 DEF changed
<1>2. CInv /\ [Next]_vars => [Cardinality({k[1] : k \in {k \in Keys : Server[k] # Server'[k]}}) <= 1]_vars
  BY <1>1
<1> QED BY <1>2, ClientsInv, PTL DEF Spec, OneNamespacePerCall

\* Update keeps the status of the stored object, and UpdateStatus the rest; a
\* write that is accepted replaces what the caller holds.
LEMMA WriteEffect ==
  ASSUME CInv, NEW c \in Callers, NEW method \in {"Update", "UpdateStatus"}, Write(c, method),
         NEW k \in Keys, Server[k] # Absent
  PROVE  /\ method = "UpdateStatus" => Server'[k].spec = Server[k].spec /\ Server'[k].label = Server[k].label
         /\ method = "Update" => Server'[k].status = Server[k].status
         /\ Server'[k] # Server[k] => held[c] = Server[k] /\ Server'[k] # Absent
<1>1. PICK spec \in Contents, status \in Contents, label \in BOOLEAN :
        Exchange(c, held[c].key[1], [NewCall(method) EXCEPT !.body =
          [held[c] EXCEPT !.spec = spec, !.status = status, !.label = label]])
  BY DEF Write
<1>2. held[c] \in Objects(Keys, Nat)
  BY DEF Write, CInv, HeldInv
<1> DEFINE h == held[c].key
           body == [held[c] EXCEPT !.spec = spec, !.status = status, !.label = label]
           call == [NewCall(method) EXCEPT !.body = body]
<1>3. h \in Keys /\ body \in Objects(Keys, Nat) /\ body.key = h /\ body.rv = held[c].rv
  BY <1>2 DEF Objects
<1>4. Exchange(c, h[1], call)
  BY <1>1
<1> HIDE DEF body
<1>12. Genuine(log, held[c]) /\ held[c].key = h
  BY DEF Write, CInv, HeldInv
<1> HIDE DEF h
<1>5. call.method = method /\ call.body = body /\ ServerInv
  BY DEF NewCall, CInv
<1> HIDE DEF call
<1>6. /\ call.method \in {"Update", "UpdateStatus"}
      /\ call.body \in Objects(Keys, Nat) /\ call.body.key = h
  BY <1>3, <1>5
<1> DEFINE s == Served(h[1], call)
           old == Server[h]
           new == Written(old, call)
<1>7. log' = s.log /\ kind' = kind
  BY <1>4 DEF Exchange, Served
<1>8. Server'[k] = At(s.log, Len(s.log), Keys)[k]
  BY <1>7 DEF Server, Keys
<1>9. s = IF old = Absent THEN Refused(log, "NotFound")
          ELSE IF call.body.rv # old.rv THEN Refused(log, "Conflict")
          ELSE Stored(log, old, new)
  BY <1>3, <1>6, PutServed DEF Served, Server, Keys, CInv, ServerInv
<1> HIDE DEF s, old
<1>10. CASE s = Stored(log, old, new) /\ old # Absent /\ call.body.rv = old.rv
  <2>1. old \in Objects(Keys, Nat) /\ old.key = h
    BY <1>3, <1>5, <1>10, ServerObject DEF old
  <2>2. /\ new \in Objects(Keys, Nat) /\ new.key = h
        /\ call.method = "UpdateStatus" => new.spec = old.spec /\ new.label = old.label
        /\ call.method # "UpdateStatus" => new.status = old.status
    BY <1>6, <2>1, WrittenParts
  <2> HIDE DEF new
  <2>3. \E o : Writes(s, h, o) /\ SameParts(o, new)
    BY <1>3, <1>5, <1>10, <2>2, StoredOutcome DEF old
  <2>4. PICK o : Writes(s, h, o) /\ SameParts(o, new)
    BY <2>3
  <2>5. Server'[k] = IF k = h THEN o ELSE Server[k]
    BY <1>8, <2>4 DEF Writes
  <2>8. held[c] = old
    <3>1. old # Absent => Genuine(log, old) /\ old.key = h
      BY <1>3, <1>5, ServerObject DEF old
    <3>2. held[c].rv = old.rv
      BY <1>3, <1>5, <1>10
    <3> QED BY <1>10, <1>12, <3>1, <3>2 DEF Genuine
  <2>6. CASE k = h
    <3>1. o.spec = new.spec /\ o.status = new.status /\ o.label = new.label
      BY <2>4 DEF SameParts
    <3>2. Server'[k] = o /\ Server[k] = old
      BY <2>5, <2>6 DEF old
    <3>3. o # Absent
      BY <1>5, <2>4, UntrackedObject DEF Writes, ServerInv
    <3> QED BY <1>5, <2>2, <2>8, <3>1, <3>2, <3>3, Zenon
  <2>7. CASE k # h
    BY <2>5, <2>7
  <2> QED BY <2>6, <2>7
<1>11. CASE s = Refused(log, "NotFound") \/ s = Refused(log, "Conflict")
  <2>1. s.log = log
    BY <1>11 DEF Refused
  <2>2. Server'[k] = Server[k]
    BY <1>8, <2>1 DEF Server
  <2> QED BY <2>2
<1> QED BY <1>9, <1>10, <1>11

\* Whoever writes an object through either path replaces what it has read,
\* and its part only.
THEOREM NoWriteIsEverUndone == Spec => NoWriteIsUndone
<1> DEFINE Apart(c, k) ==
      /\ held[c] = Server[k] /\ Server'[k] # Absent
      /\ Update(c) => Server'[k].status = Server[k].status
      /\ UpdateStatus(c) => /\ Server'[k].spec = Server[k].spec
                            /\ Server'[k].label = Server[k].label
<1>1. ASSUME CInv, NEW c \in Callers, NEW k \in Keys, Update(c) \/ UpdateStatus(c),
             Server[k] # Absent, Server'[k] # Server[k]
      PROVE  Apart(c, k)
  <2>1. Update(c) => /\ held[c] = Server[k] /\ Server'[k] # Absent
                     /\ Server'[k].status = Server[k].status
    BY <1>1, WriteEffect DEF Update
  <2>2. UpdateStatus(c) => /\ held[c] = Server[k] /\ Server'[k] # Absent
                           /\ Server'[k].spec = Server[k].spec /\ Server'[k].label = Server[k].label
    BY <1>1, WriteEffect DEF UpdateStatus
  <2> QED BY <1>1, <2>1, <2>2
<1> DEFINE AllApart ==
      \A c \in Callers, k \in Keys :
        Server[k] # Absent /\ Server'[k] # Server[k] /\ (Update(c) \/ UpdateStatus(c))
          => /\ held[c] = Server[k] /\ Server'[k] # Absent
             /\ Update(c) => Server'[k].status = Server[k].status
             /\ UpdateStatus(c) => /\ Server'[k].spec = Server[k].spec
                                   /\ Server'[k].label = Server[k].label
<1>2. CInv /\ [Next]_vars => [AllApart]_vars
  BY <1>1
<1> QED BY <1>2, ClientsInv, PTL DEF Spec, NoWriteIsUndone
=============================================================================
