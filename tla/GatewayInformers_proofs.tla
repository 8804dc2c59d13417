---------------------- MODULE GatewayInformers_proofs ----------------------
(***************************************************************************)
(* Proofs about GatewayInformers for every kind, every set of names and    *)
(* all bounds: its type invariant, that the listers agree with each other, *)
(* that the handlers trail the cache, that the cache never goes backwards, *)
(* and that a synced informer has shown its first list.                    *)
(***************************************************************************)
EXTENDS GatewayInformers, GatewayAPI_proofs

-----------------------------------------------------------------------------
(* The inductive invariant.                                                *)

DeltaTypes == {"Added", "Updated", "Deleted", "Replaced", "Sync"}

DeltaTyped == [type : DeltaTypes, key : Keys, obj : Objects(Keys, Nat)]
FifoTyped ==
  [queue : Seq(Keys), deltas : [Keys -> Seq(DeltaTyped)], populated : BOOLEAN, initial : Nat]

Typed ==
  /\ kind \in Kinds /\ selector \in Selectors
  /\ WellFormed(log, Keys) /\ Len(log) <= MaxVersions
  /\ reflector \in [stage : {"list", "watch"}, last : {Never} \cup Nat, unavailable : BOOLEAN]
  /\ reflector.last <= Len(log)
  /\ fifo \in FifoTyped
  /\ items \in [Keys -> Objects(Keys, Nat) \cup {Absent}]
  /\ first \subseteq Objects(Keys, Nat)
  /\ budget \in [expiries : Nat, resyncs : Nat]

NoTwoDeletions(s) == \A i \in 2 .. Len(s) : s[i].type = "Deleted" => s[i - 1].type # "Deleted"

(* A key is in the queue once, and exactly when it has deltas, never two   *)
(* deletions in a row; the first list is at the head of the queue until it *)
(* has been popped.                                                        *)
Queued(f) ==
  /\ \A i, j \in 1 .. Len(f.queue) : f.queue[i] = f.queue[j] => i = j
  /\ \A k \in Keys : f.deltas[k] # << >> <=> \E i \in 1 .. Len(f.queue) : f.queue[i] = k
  /\ \A k \in Keys : NoTwoDeletions(f.deltas[k])
  /\ f.initial <= Len(f.queue)

(* An object of a log that a reflector has seen up to a version.           *)
Seen(l, last, k, o) == o.key = k /\ Genuine(l, o) /\ o.rv <= last

(* The i-th delta of a key: a Sync is the first and carries what is held,  *)
(* a deletion that is the first deletes what is held, and no delta but a   *)
(* deletion carries an older object than what is held.                     *)
Fits(l, last, held, k, i, d) ==
  /\ d.key = k /\ Seen(l, last, k, d.obj)
  /\ d.type = "Sync" => i = 1 /\ d.obj = held[k]
  /\ d.type = "Deleted" /\ i = 1 => held[k] # Absent
  /\ d.type # "Deleted" /\ held[k] # Absent => d.obj.rv >= held[k].rv

DeltasFit ==
  \A k \in Keys : \A i \in 1 .. Len(fifo.deltas[k]) :
    Fits(log, reflector.last, items, k, i, fifo.deltas[k][i])

(* What the handlers are told: q is a trail from t, what they know, to o.  *)
NotificationsOver(S) == [old : S, new : S, sync : BOOLEAN]
ToldBy(t, q, i)      == IF i = 0 THEN t ELSE q[i].new

Follows(old, n) ==
  /\ IF n.new = Absent THEN old # Absent ELSE n.old = old
  /\ n.sync => n.new = old

Trail(S, t, q, o) ==
  /\ t \in S /\ q \in Seq(NotificationsOver(S))
  /\ \A i \in 1 .. Len(q) : Follows(ToldBy(t, q, i - 1), q[i])
  /\ o = ToldBy(t, q, Len(q))

Logged == Objects(Keys, 1 .. Len(log)) \cup {Absent}

TrailInv ==
  /\ DOMAIN pending = Keys /\ notified \in [Keys -> Logged]
  /\ \A k \in Keys : Trail(Logged, notified[k], pending[k], items[k])

CacheInv ==
  /\ \A k \in Keys : items[k] # Absent => Seen(log, reflector.last, k, items[k])
  /\ TrailInv
  /\ index = [ns \in ScopeOf(kind) |-> {k \in Keys : items[k] # Absent /\ k[1] = ns}]

(* Before the first list there is nothing.                                 *)
PopulatedInv ==
  /\ reflector.stage = "watch" => fifo.populated /\ reflector.last # Never
  /\ ~fifo.populated => fifo.queue = << >> /\ first = {} /\ \A k \in Keys : items[k] = Absent

Changed(l, o) == \E i \in o.rv + 1 .. Len(l) : l[i].key = o.key

(* An object of the first list was shown, or is still to be popped with    *)
(* the first list, or has changed since; a deletion is such a change.      *)
FirstInv ==
  \A o \in first :
    /\ Seen(log, reflector.last, o.key, o) /\ Matches(selector, o)
    /\ \/ Changed(log, o)
       \/ items[o.key] # Absent
       \/ \E i \in 1 .. fifo.initial : fifo.queue[i] = o.key
    /\ \A i \in 1 .. Len(fifo.deltas[o.key]) :
         fifo.deltas[o.key][i].type = "Deleted" => Changed(log, o)

IInv == Typed /\ Queued(fifo) /\ DeltasFit /\ CacheInv /\ PopulatedInv /\ FirstInv

-----------------------------------------------------------------------------
(* The DeltaFIFO.                                                          *)

\* There are finitely many keys.
LEMMA KeysFinite ==
  ASSUME kind \in Kinds
  PROVE  IsFiniteSet(Keys)
<1> QED BY KeysOfFinite DEF Keys

\* Joined keeps the deltas there are and adds at most one, at the end.
LEMMA JoinedOf ==
  ASSUME NEW S, NEW s \in Seq(S), NEW d \in S
  PROVE  /\ Joined(s, d) \in Seq(S) /\ Joined(s, d) # << >>
         /\ \A i \in 1 .. Len(Joined(s, d)) :
              \/ i \in 1 .. Len(s) /\ Joined(s, d)[i] = s[i]
              \/ i = Len(s) + 1 /\ Joined(s, d)[i] = d
         /\ NoTwoDeletions(s) => NoTwoDeletions(Joined(s, d))
<1>1. Len(s) \in Nat /\ (s # << >> => Len(s) > 0) /\ Last(s) = s[Len(s)]
  BY EmptySeq, LenProperties DEF Last
<1>2. /\ Append(s, d) \in Seq(S) /\ Append(s, d) # << >> /\ Len(Append(s, d)) = Len(s) + 1
      /\ \A i \in 1 .. Len(s) : Append(s, d)[i] = s[i]
      /\ Append(s, d)[Len(s) + 1] = d
  BY AppendProperties
<1>3. CASE Joined(s, d) # Append(s, d)
  BY <1>3 DEF Joined
<1>4. CASE Joined(s, d) = Append(s, d)
  <2>1. s = << >> \/ Last(s).type # "Deleted" \/ d.type # "Deleted" \/ Append(s, d) = s
    BY <1>4 DEF Joined
  <2>2. Append(s, d) # s
    BY <1>1, <1>2
  <2> DEFINE a == Append(s, d)
  <2> HIDE DEF a
  <2>3. ASSUME NoTwoDeletions(s), NEW i \in 2 .. Len(a), a[i].type = "Deleted"
        PROVE  a[i - 1].type # "Deleted"
    <3>1. Len(a) = Len(s) + 1 /\ (\A j \in 1 .. Len(s) : a[j] = s[j]) /\ a[Len(s) + 1] = d
      BY <1>2 DEF a
    <3>2. i - 1 \in 1 .. Len(s) /\ a[i - 1] = s[i - 1]
      BY <1>1, <3>1
    <3>3. CASE i \in 2 .. Len(s)
      <4>1. i \in 1 .. Len(s) /\ a[i] = s[i]
        BY <1>1, <3>1, <3>3
      <4> QED BY <2>3, <3>2, <3>3, <4>1 DEF NoTwoDeletions
    <3>4. CASE i = Len(s) + 1
      <4>1. s # << >> /\ d.type = "Deleted" /\ s[i - 1] = Last(s)
        <5>1. Len(s) # 0
          BY <1>1, <3>2
        <5>2. i - 1 = Len(s)
          BY <1>1, <3>4
        <5>3. s # << >>
          BY <5>1, EmptySeq
        <5> QED BY <1>1, <2>3, <3>1, <3>4, <5>2, <5>3
      <4> QED BY <2>1, <2>2, <3>2, <4>1
    <3> QED BY <1>1, <3>1, <3>3, <3>4
  <2>4. NoTwoDeletions(s) => NoTwoDeletions(Joined(s, d))
    BY <1>4, <2>3 DEF NoTwoDeletions, a
  <2> QED BY <1>1, <1>2, <1>4, <2>4
<1> QED BY <1>3, <1>4

\* What queueActionLocked does for a set of deltas with at most one for a
\* key: it appends the keys that had none to the queue.
LEMMA QueueActionsOf ==
  ASSUME kind \in Kinds, NEW f \in FifoTyped, Queued(f), NEW ds \in SUBSET DeltaTyped,
         \A d, e \in ds : d.key = e.key => d = e
  PROVE  LET g == QueueActions(f, ds)
         IN  /\ g \in FifoTyped /\ Queued(g) /\ g.populated /\ g.initial = f.initial
             /\ Len(f.queue) <= Len(g.queue)
             /\ \A i \in 1 .. Len(f.queue) : g.queue[i] = f.queue[i]
             /\ \A d \in ds : g.deltas[d.key] = Joined(f.deltas[d.key], d)
             /\ \A k \in Keys : (\A d \in ds : d.key # k) => g.deltas[k] = f.deltas[k]
<1> DEFINE g == QueueActions(f, ds)
           new == {k \in {d.key : d \in ds} : f.deltas[k] = << >>}
           s == SetToSeq(new)
           q == f.queue
<1>1. new \subseteq Keys /\ IsFiniteSet(new)
  <2>1. new \subseteq Keys
    BY DEF DeltaTyped
  <2> QED BY <2>1, KeysFinite, FS_Subset
<1>2. \A k \in new : k \in Keys /\ f.deltas[k] = << >> /\ \E d \in ds : d.key = k
  BY <1>1
<1>3. \A k \in Keys : (\E d \in ds : d.key = k) /\ f.deltas[k] = << >> => k \in new
  OBVIOUS
<1>4. /\ q \in Seq(Keys) /\ f.deltas \in [Keys -> Seq(DeltaTyped)] /\ f.initial \in Nat
      /\ Len(q) \in Nat
  BY DEF FifoTyped
<1>5. /\ g.populated = TRUE /\ g.initial = f.initial /\ g.queue = q \o s
      /\ g.deltas = [k \in Keys |-> IF \E d \in ds : d.key = k
                                    THEN Joined(f.deltas[k], CHOOSE d \in ds : d.key = k)
                                    ELSE f.deltas[k]]
  BY DEF QueueActions, FifoTyped
<1> HIDE DEF new
<1>6. /\ s \in Seq(new)
      /\ \A i, j \in 1 .. Len(s) : s[i] = s[j] => i = j
      /\ \A k \in new : \E i \in 1 .. Len(s) : s[i] = k
  BY <1>1, SetToSeqOf
<1> HIDE DEF s
<1>7. s \in Seq(Keys) /\ Len(s) \in Nat /\ \A i \in 1 .. Len(s) : s[i] \in new
  <2>1. s \in Seq(Keys)
    BY <1>1, <1>6, SeqMonotonic
  <2>2. \A i \in 1 .. Len(s) : s[i] \in new
    BY <1>6, ElementOfSeq
  <2> QED BY <2>1, <2>2, LenProperties
<1>8. q \o s \in Seq(Keys) /\ Len(q \o s) = Len(q) + Len(s) /\ \A i \in 1 .. Len(q) : (q \o s)[i] = q[i]
  <2>1. \A i \in 1 .. Len(q) : i <= Len(q) /\ i \in 1 .. Len(q) + Len(s)
    BY <1>4, <1>7
  <2> HIDE DEF q
  <2> QED BY <1>4, <1>7, <2>1, ConcatProperties
<1>9. \A i \in 1 .. Len(q), j \in 1 .. Len(s) : q[i] # s[j]
  <2>1. \A i \in 1 .. Len(q) : f.deltas[q[i]] # << >>
    BY <1>4, ElementOfSeq DEF Queued
  <2> QED BY <1>2, <1>7, <2>1
<1>10. \A i, j \in 1 .. Len(q) : q[i] = q[j] => i = j
  BY DEF Queued
<1>11. \A k \in Keys : f.deltas[k] # << >> <=> \E i \in 1 .. Len(q) : q[i] = k
  BY DEF Queued
<1> HIDE DEF q
<1>12. Distinct(q \o s) /\ \A k \in Keys : Occurs(q \o s, k) <=> Occurs(q, k) \/ Occurs(s, k)
  <2>1. Distinct(q) /\ Distinct(s)
    BY <1>6, <1>10 DEF Distinct
  <2>2. \A k \in Keys : ~(Occurs(q, k) /\ Occurs(s, k))
    BY <1>9 DEF Occurs
  <2>3. q \in Seq(Keys) /\ s \in Seq(Keys)
    BY <1>4, <1>7
  <2> QED BY <2>1, <2>2, <2>3, ConcatDistinct
<1>13. \A d \in ds : d.key \in Keys /\ g.deltas[d.key] = Joined(f.deltas[d.key], d)
  <2> TAKE d \in ds
  <2>1. d.key \in Keys
    BY DEF DeltaTyped
  <2>2. (CHOOSE e \in ds : e.key = d.key) = d
    OBVIOUS
  <2> HIDE DEF g
  <2> QED BY <1>5, <2>1, <2>2
<1> HIDE DEF g
<1>14. \A k \in Keys : (\A d \in ds : d.key # k) => g.deltas[k] = f.deltas[k]
  BY <1>5
<1>15. \A d \in ds : /\ g.deltas[d.key] \in Seq(DeltaTyped) /\ g.deltas[d.key] # << >>
                     /\ NoTwoDeletions(g.deltas[d.key])
  <2> TAKE d \in ds
  <2>1. f.deltas[d.key] \in Seq(DeltaTyped) /\ NoTwoDeletions(f.deltas[d.key])
    BY <1>4, <1>13 DEF Queued
  <2>2. /\ Joined(f.deltas[d.key], d) \in Seq(DeltaTyped) /\ Joined(f.deltas[d.key], d) # << >>
        /\ NoTwoDeletions(Joined(f.deltas[d.key], d))
    BY <2>1, JoinedOf
  <2> QED BY <1>13, <2>2
<1>16. g.deltas \in [Keys -> Seq(DeltaTyped)]
  <2>1. \A k \in Keys : g.deltas[k] \in Seq(DeltaTyped)
    BY <1>4, <1>14, <1>15
  <2> QED BY <1>5, <2>1
<1>17. g \in FifoTyped
  <2>1. g = [f EXCEPT !.populated = g.populated, !.queue = g.queue, !.deltas = g.deltas]
    BY <1>5 DEF QueueActions, FifoTyped, g
  <2> QED BY <1>4, <1>5, <1>8, <1>16, <2>1 DEF FifoTyped
<1>18. \A k \in Keys : g.deltas[k] # << >> <=> \E i \in 1 .. Len(g.queue) : g.queue[i] = k
  <2> TAKE k \in Keys
  <2>1. (\E i \in 1 .. Len(s) : s[i] = k) <=> k \in new
    BY <1>6, <1>7
  <2>2. (\E i \in 1 .. Len(g.queue) : g.queue[i] = k) <=> (f.deltas[k] # << >> \/ k \in new)
    BY <1>5, <1>11, <1>12, <2>1 DEF Occurs
  <2>3. CASE \E d \in ds : d.key = k
    BY <1>3, <1>15, <2>2, <2>3
  <2>4. CASE \A d \in ds : d.key # k
    BY <1>2, <1>14, <2>2, <2>4
  <2> QED BY <2>3, <2>4
<1>19. g.initial <= Len(g.queue)
  BY <1>4, <1>5, <1>7, <1>8 DEF Queued, q
<1>20. Queued(g)
  <2>1. \A k \in Keys : NoTwoDeletions(g.deltas[k])
    BY <1>14, <1>15 DEF Queued
  <2> QED BY <1>5, <1>12, <1>18, <1>19, <2>1 DEF Queued, Distinct
<1>21. Len(f.queue) <= Len(g.queue) /\ \A i \in 1 .. Len(f.queue) : g.queue[i] = f.queue[i]
  BY <1>4, <1>5, <1>7, <1>8 DEF q
<1>22. g.populated /\ g.initial = f.initial /\ \A d \in ds : g.deltas[d.key] = Joined(f.deltas[d.key], d)
  BY <1>5, <1>13
<1> QED BY <1>14, <1>17, <1>20, <1>21, <1>22 DEF g

-----------------------------------------------------------------------------
(* What stays true while the log grows and the reflector moves on.         *)

Forward ==
  /\ kind' = kind /\ selector' = selector
  /\ Len(log') \in Nat /\ Len(log) <= Len(log')
  /\ \A i \in 1 .. Len(log) : log'[i] = log[i]
  /\ reflector'.last \in {Never} \cup Nat /\ reflector.last <= reflector'.last

\* The keys are those of the kind, which does not change.
LEMMA SameKeys ==
  ASSUME kind' = kind
  PROVE  Keys' = Keys /\ ScopeOf(kind') = ScopeOf(kind)
<1> QED BY DEF Keys

\* An object that the reflector has seen stays one it has seen.
LEMMA SeenLater ==
  ASSUME Typed, Forward, NEW k, NEW o, o.rv \in Nat, Seen(log, reflector.last, k, o)
  PROVE  Seen(log', reflector'.last, k, o)
<1>1. o.key = k /\ Genuine(log, o) /\ o.rv <= reflector.last
  BY DEF Seen
<1>2. o.rv \in 1 .. Len(log) /\ log[o.rv].key = o.key /\ log[o.rv].obj = o
  BY <1>1 DEF Genuine
<1>3. Len(log) \in Nat /\ reflector.last \in Int /\ reflector'.last \in Int
  BY DEF Typed, WellFormed, Forward, Never
<1>4. o.rv \in 1 .. Len(log') /\ log'[o.rv] = log[o.rv]
  BY <1>2, <1>3 DEF Forward
<1>5. Genuine(log', o)
  BY <1>2, <1>4 DEF Genuine
<1>6. o.rv <= reflector'.last
  BY <1>1, <1>3 DEF Forward
<1> QED BY <1>1, <1>5, <1>6 DEF Seen

\* A change stays a change.
LEMMA ChangedLater ==
  ASSUME Typed, Forward, NEW o, o.rv \in Nat, Changed(log, o)
  PROVE  Changed(log', o)
<1>1. PICK i \in o.rv + 1 .. Len(log) : log[i].key = o.key
  BY DEF Changed
<1>2. Len(log) \in Nat
  BY DEF Typed, WellFormed
<1>3. i \in 1 .. Len(log) /\ i \in o.rv + 1 .. Len(log')
  BY <1>1, <1>2 DEF Forward
<1>4. log'[i].key = o.key
  BY <1>1, <1>3 DEF Forward
<1> QED BY <1>3, <1>4 DEF Changed

\* A trail stays one when more objects are known.
LEMMA TrailOver ==
  ASSUME NEW S, NEW T, S \subseteq T, NEW t, NEW q, NEW o, Trail(S, t, q, o)
  PROVE  Trail(T, t, q, o)
<1>1. NotificationsOver(S) \subseteq NotificationsOver(T)
  BY DEF NotificationsOver
<1>2. q \in Seq(NotificationsOver(T))
  BY <1>1, SeqMonotonic DEF Trail
<1> QED BY <1>2 DEF Trail

\* What is in the log stays in it.
LEMMA LoggedLater ==
  ASSUME Typed, Forward
  PROVE  Logged \subseteq Logged'
<1>1. Len(log) \in Nat /\ Len(log') \in Nat /\ Len(log) <= Len(log')
  BY DEF Typed, WellFormed, Forward
<1>2. 1 .. Len(log) \subseteq 1 .. Len(log')
  BY <1>1
<1>3. Keys' = Keys
  BY SameKeys DEF Forward
<1>4. Objects(Keys, 1 .. Len(log)) \subseteq Objects(Keys, 1 .. Len(log'))
  BY <1>2 DEF Objects
<1>5. Objects(Keys', 1 .. Len(log')) = Objects(Keys, 1 .. Len(log'))
  BY <1>3
<1> QED BY <1>4, <1>5 DEF Logged

\* The indexer and the handlers' view are as good as before.
LEMMA CacheKept ==
  ASSUME IInv, Forward, UNCHANGED cacheVars
  PROVE  CacheInv'
<1>1. items' = items /\ index' = index /\ notified' = notified /\ pending' = pending
  BY DEF cacheVars
<1>2. Keys' = Keys /\ ScopeOf(kind') = ScopeOf(kind)
  BY SameKeys DEF Forward
<1>3. \A k \in Keys : items[k] # Absent => items[k].rv \in Nat
  BY DEF IInv, Typed, Objects
<1>4. \A k \in Keys : items[k] # Absent => Seen(log', reflector'.last, k, items[k])
  BY <1>3, SeenLater DEF IInv, CacheInv
<1>5. \A k \in Keys' : items'[k] # Absent => Seen(log', reflector'.last, k, items'[k])
  BY <1>1, <1>2, <1>4
<1>6. TrailInv'
  <2>1. Logged \subseteq Logged'
    BY LoggedLater DEF IInv
  <2>2. \A k \in Keys : Trail(Logged', notified[k], pending[k], items[k])
    BY <2>1, TrailOver DEF IInv, CacheInv, TrailInv
  <2>3. DOMAIN pending' = Keys' /\ notified' \in [Keys' -> Logged']
    BY <1>1, <1>2, <2>1 DEF IInv, CacheInv, TrailInv
  <2> QED BY <1>1, <1>2, <2>2, <2>3 DEF TrailInv
<1>7. index' = [ns \in ScopeOf(kind') |-> {k \in Keys' : items'[k] # Absent /\ k[1] = ns}]
  BY <1>1, <1>2 DEF IInv, CacheInv
<1> QED BY <1>5, <1>6, <1>7 DEF CacheInv

\* A delta that fits stays one while its key is not popped.
LEMMA FitsLater ==
  ASSUME Typed, Forward, items' = items, NEW k \in Keys, NEW i, NEW d, d.obj.rv \in Nat,
         Fits(log, reflector.last, items, k, i, d)
  PROVE  Fits(log', reflector'.last, items', k, i, d)
<1>1. Seen(log', reflector'.last, k, d.obj)
  BY SeenLater DEF Fits
<1> QED BY <1>1 DEF Fits

\* The deltas there were still fit.
LEMMA OldDeltasFit ==
  ASSUME IInv, Forward, items' = items, NEW k \in Keys, NEW i \in 1 .. Len(fifo.deltas[k])
  PROVE  Fits(log', reflector'.last, items', k, i, fifo.deltas[k][i])
<1>1. fifo.deltas[k] \in Seq(DeltaTyped)
  BY DEF IInv, Typed, FifoTyped
<1>2. fifo.deltas[k][i].obj.rv \in Nat
  <2>1. fifo.deltas[k][i] \in DeltaTyped
    BY <1>1, ElementOfSeq
  <2> QED BY <2>1 DEF DeltaTyped, Objects
<1>3. Fits(log, reflector.last, items, k, i, fifo.deltas[k][i])
  BY DEF IInv, DeltasFit
<1> QED BY <1>2, <1>3, FitsLater DEF IInv

\* The deltas of the FIFO after queueActionLocked: each that is added fits.
LEMMA DeltasFed ==
  ASSUME IInv, Forward, items' = items, NEW ds \in SUBSET DeltaTyped,
         \A d, e \in ds : d.key = e.key => d = e,
         fifo'.deltas = QueueActions(fifo, ds).deltas,
         \A d \in ds : Fits(log', reflector'.last, items', d.key, Len(fifo.deltas[d.key]) + 1, d)
  PROVE  DeltasFit'
<1> DEFINE g == QueueActions(fifo, ds)
<1>1. /\ \A d \in ds : g.deltas[d.key] = Joined(fifo.deltas[d.key], d)
      /\ \A k \in Keys : (\A d \in ds : d.key # k) => g.deltas[k] = fifo.deltas[k]
  BY QueueActionsOf DEF IInv, Typed
<1>2. fifo'.deltas = g.deltas
  OBVIOUS
<1> HIDE DEF g
<1>3. \A k \in Keys : fifo.deltas[k] \in Seq(DeltaTyped)
  BY DEF IInv, Typed, FifoTyped
<1>5. ASSUME NEW k \in Keys, NEW i \in 1 .. Len(fifo'.deltas[k])
      PROVE  Fits(log', reflector'.last, items', k, i, fifo'.deltas[k][i])
  <2>1. CASE \A d \in ds : d.key # k
    <3>1. fifo'.deltas[k] = fifo.deltas[k]
      BY <1>1, <1>2, <2>1
    <3> QED BY OldDeltasFit, <3>1
  <2>2. CASE \E d \in ds : d.key = k
    <3>1. PICK d \in ds : d.key = k
      BY <2>2
    <3>2. fifo'.deltas[k] = Joined(fifo.deltas[k], d)
      BY <1>1, <1>2, <3>1
    <3>3. CASE i \in 1 .. Len(fifo.deltas[k]) /\ fifo'.deltas[k][i] = fifo.deltas[k][i]
      BY <3>3, OldDeltasFit
    <3>4. CASE i = Len(fifo.deltas[k]) + 1 /\ fifo'.deltas[k][i] = d
      BY <3>1, <3>4
    <3>5. d \in DeltaTyped /\ fifo.deltas[k] \in Seq(DeltaTyped)
      BY <1>3
    <3>6. \/ i \in 1 .. Len(fifo.deltas[k]) /\ fifo'.deltas[k][i] = fifo.deltas[k][i]
          \/ i = Len(fifo.deltas[k]) + 1 /\ fifo'.deltas[k][i] = d
      <4>1. \A j \in 1 .. Len(Joined(fifo.deltas[k], d)) :
              \/ j \in 1 .. Len(fifo.deltas[k]) /\ Joined(fifo.deltas[k], d)[j] = fifo.deltas[k][j]
              \/ j = Len(fifo.deltas[k]) + 1 /\ Joined(fifo.deltas[k], d)[j] = d
        BY <3>5, JoinedOf
      <4> QED BY <3>2, <4>1
    <3> QED BY <3>3, <3>4, <3>6
  <2> QED BY <2>1, <2>2
<1>6. Keys' = Keys
  BY SameKeys DEF Forward
<1> QED BY <1>5, <1>6 DEF DeltasFit

\* The first list after queueActionLocked: what is added keeps the queue's
\* order, and a deletion that is added is a change.
LEMMA FirstFed ==
  ASSUME IInv, Forward, items' = items, first' = first, NEW ds \in SUBSET DeltaTyped,
         \A d, e \in ds : d.key = e.key => d = e,
         fifo' = QueueActions(fifo, ds),
         \A d \in ds : d.type = "Deleted" => \A o \in first : o.key = d.key => Changed(log', o)
  PROVE  FirstInv'
<1> DEFINE g == QueueActions(fifo, ds)
<1>1. /\ \A d \in ds : g.deltas[d.key] = Joined(fifo.deltas[d.key], d)
      /\ \A k \in Keys : (\A d \in ds : d.key # k) => g.deltas[k] = fifo.deltas[k]
      /\ \A i \in 1 .. Len(fifo.queue) : g.queue[i] = fifo.queue[i]
      /\ g.initial = fifo.initial
  BY QueueActionsOf DEF IInv, Typed
<1>2. fifo' = g
  OBVIOUS
<1> HIDE DEF g
<1>3. /\ \A k \in Keys : fifo.deltas[k] \in Seq(DeltaTyped)
      /\ fifo.initial \in Nat /\ Len(fifo.queue) \in Nat /\ fifo.initial <= Len(fifo.queue)
  BY DEF IInv, Typed, FifoTyped, Queued
<1>4. selector' = selector
  BY DEF Forward
<1>5. ASSUME NEW o \in first
      PROVE  /\ Seen(log', reflector'.last, o.key, o) /\ Matches(selector', o)
             /\ \/ Changed(log', o)
                \/ items'[o.key] # Absent
                \/ \E i \in 1 .. fifo'.initial : fifo'.queue[i] = o.key
             /\ \A i \in 1 .. Len(fifo'.deltas[o.key]) :
                  fifo'.deltas[o.key][i].type = "Deleted" => Changed(log', o)
  <2>1. o.rv \in Nat /\ o.key \in Keys
    BY DEF IInv, Typed, Objects
  <2>2. Seen(log', reflector'.last, o.key, o) /\ Matches(selector', o)
    BY <1>4, <2>1, SeenLater DEF IInv, FirstInv
  <2>3. Changed(log, o) => Changed(log', o)
    BY <2>1, ChangedLater DEF IInv
  <2>4. \A i \in 1 .. fifo.initial : i \in 1 .. Len(fifo.queue)
    BY <1>3
  <2>5. \/ Changed(log', o)
        \/ items'[o.key] # Absent
        \/ \E i \in 1 .. fifo'.initial : fifo'.queue[i] = o.key
    BY <1>1, <1>2, <2>3, <2>4 DEF IInv, FirstInv
  <2>6. ASSUME NEW i \in 1 .. Len(fifo'.deltas[o.key]), fifo'.deltas[o.key][i].type = "Deleted"
        PROVE  Changed(log', o)
    <3>1. \A j \in 1 .. Len(fifo.deltas[o.key]) :
            fifo.deltas[o.key][j].type = "Deleted" => Changed(log', o)
      BY <2>3 DEF IInv, FirstInv
    <3>2. CASE \A d \in ds : d.key # o.key
      BY <1>1, <1>2, <2>1, <2>6, <3>1, <3>2
    <3>3. CASE \E d \in ds : d.key = o.key
      <4>1. PICK d \in ds : d.key = o.key
        BY <3>3
      <4>2. fifo'.deltas[o.key] = Joined(fifo.deltas[o.key], d)
        BY <1>1, <1>2, <4>1
      <4>3. d \in DeltaTyped /\ fifo.deltas[o.key] \in Seq(DeltaTyped)
        BY <1>3, <2>1
      <4>4. \A j \in 1 .. Len(Joined(fifo.deltas[o.key], d)) :
              \/ j \in 1 .. Len(fifo.deltas[o.key]) /\ Joined(fifo.deltas[o.key], d)[j] = fifo.deltas[o.key][j]
              \/ j = Len(fifo.deltas[o.key]) + 1 /\ Joined(fifo.deltas[o.key], d)[j] = d
        BY <4>3, JoinedOf
      <4>5. CASE i \in 1 .. Len(fifo.deltas[o.key]) /\ fifo'.deltas[o.key][i] = fifo.deltas[o.key][i]
        BY <2>6, <3>1, <4>5
      <4>6. CASE fifo'.deltas[o.key][i] = d
        BY <2>6, <4>1, <4>6
      <4> QED BY <4>2, <4>4, <4>5, <4>6
    <3> QED BY <3>2, <3>3
  <2> QED BY <2>2, <2>5, <2>6
<1> QED BY <1>5 DEF FirstInv

\* Steps that leave the FIFO and the cache alone.
LEMMA Undisturbed ==
  ASSUME IInv, Forward, UNCHANGED <<fifo, cacheVars, first>>, Typed',
         reflector'.stage = "watch" => fifo.populated /\ reflector'.last # Never
  PROVE  IInv'
<1>1. items' = items /\ fifo' = fifo /\ first' = first
  BY DEF cacheVars
<1>2. Keys' = Keys
  BY SameKeys DEF Forward
<1>3. Queued(fifo)'
  BY <1>1, <1>2 DEF IInv, Queued
<1>4. DeltasFit'
  BY <1>1, <1>2, OldDeltasFit DEF DeltasFit
<1>5. CacheInv'
  BY CacheKept
<1>6. PopulatedInv'
  BY <1>1, <1>2 DEF IInv, PopulatedInv
<1>7. FirstInv'
  <2> SUFFICES ASSUME NEW o \in first
               PROVE  /\ Seen(log', reflector'.last, o.key, o) /\ Matches(selector', o)
                      /\ \/ Changed(log', o)
                         \/ items'[o.key] # Absent
                         \/ \E i \in 1 .. fifo'.initial : fifo'.queue[i] = o.key
                      /\ \A i \in 1 .. Len(fifo'.deltas[o.key]) :
                           fifo'.deltas[o.key][i].type = "Deleted" => Changed(log', o)
    BY <1>1 DEF FirstInv
  <2>1. o.rv \in Nat
    BY DEF IInv, Typed, Objects
  <2>2. Seen(log', reflector'.last, o.key, o) /\ Matches(selector', o)
    BY <2>1, SeenLater DEF IInv, FirstInv, Forward
  <2>3. Changed(log, o) => Changed(log', o)
    BY <2>1, ChangedLater DEF IInv
  <2> QED BY <1>1, <2>2, <2>3 DEF IInv, FirstInv
<1> QED BY <1>3, <1>4, <1>5, <1>6, <1>7 DEF IInv

\* Steps that queue deltas and leave the cache and the first list alone.
LEMMA Fed ==
  ASSUME IInv, Forward, UNCHANGED <<cacheVars, first>>,
         NEW ds \in SUBSET DeltaTyped, \A d, e \in ds : d.key = e.key => d = e,
         fifo' = QueueActions(fifo, ds),
         \A d \in ds : Fits(log', reflector'.last, items', d.key, Len(fifo.deltas[d.key]) + 1, d),
         \A d \in ds : d.type = "Deleted" => \A o \in first : o.key = d.key => Changed(log', o),
         fifo' \in FifoTyped => Typed', reflector'.stage = "watch" => reflector'.last # Never
  PROVE  IInv'
<1>1. items' = items /\ first' = first
  BY DEF cacheVars
<1>2. Keys' = Keys
  BY SameKeys DEF Forward
<1>3. fifo' \in FifoTyped /\ Queued(fifo') /\ fifo'.populated
  BY QueueActionsOf DEF IInv, Typed
<1>4. Queued(fifo)'
  BY <1>2, <1>3 DEF Queued
<1>5. DeltasFit'
  BY <1>1, DeltasFed
<1>6. FirstInv'
  BY <1>1, FirstFed
<1>7. PopulatedInv'
  BY <1>3 DEF PopulatedInv
<1>8. CacheInv'
  BY CacheKept
<1> QED BY <1>3, <1>4, <1>5, <1>6, <1>7, <1>8 DEF IInv

-----------------------------------------------------------------------------
(* What the reflector receives.                                            *)

\* The requests of an informer are for all namespaces, with its selector.
LEMMA ListWatchSent ==
  ASSUME kind \in Kinds, NEW method \in {"List", "Watch"}
  PROVE  ListWatch(method) = NetworkingV1alpha1(kind, AllNamespaces, Tweaked(method))
<1> QED BY DEF Kinds, ListWatch, NetworkingV1alpha1, BackendPolicyInformer, GatewayInformer,
               GatewayClassInformer, HTTPRouteInformer, TCPRouteInformer, TLSRouteInformer,
               UDPRouteInformer

\* What a list at a version returns: the objects at that version that match.
LEMMA Listed ==
  ASSUME Typed, NEW v \in 0 .. Len(log),
         NEW list, list = ServeCollection(log, At(log, v, Keys), ListWatch("List")).answer.objects
  PROVE  /\ \A o \in list : /\ o \in Objects(Keys, Nat) /\ Seen(log, v, o.key, o)
                            /\ Matches(selector, o) /\ o = At(log, v, Keys)[o.key]
         /\ \A k \in Keys : At(log, v, Keys)[k] # Absent /\ Matches(selector, At(log, v, Keys)[k])
                              => At(log, v, Keys)[k] \in list
<1> DEFINE objects == At(log, v, Keys)
           call == Tweaked("List")
           req == NetworkingV1alpha1(kind, AllNamespaces, call)
<1>1. call.method = "List" /\ call.selector = selector
  BY DEF Tweaked, ListCall
<1>2. ListWatch("List") = req
  BY ListWatchSent DEF Typed
<1>3. DOMAIN objects = Keys
  BY DEF At
<1> HIDE DEF objects, call
<1>4. ServeCollection(log, objects, req)
        = [log |-> log, answer |-> OK(Matching(objects, AllNamespaces, call.selector))]
  BY <1>1, ListServed DEF Typed
<1>5. list = {objects[k] : k \in {k \in Keys : objects[k] # Absent /\ Matches(selector, objects[k])}}
  <2>1. \A k : InNamespace(AllNamespaces, k)
    BY DEF InNamespace
  <2>2. list = ServeCollection(log, objects, req).answer.objects
    BY <1>2 DEF objects
  <2>3. list = Matching(objects, AllNamespaces, selector)
    BY <1>1, <1>4, <2>2 DEF OK, Answer
  <2> QED BY <1>3, <2>1, <2>3 DEF Matching
<1>6. \A k \in Keys : objects[k] # Absent
        => /\ objects[k] \in Objects(Keys, Nat) /\ objects[k].key = k
           /\ Seen(log, v, k, objects[k])
  <2> SUFFICES ASSUME NEW k \in Keys, objects[k] # Absent
               PROVE  /\ objects[k] \in Objects(Keys, Nat) /\ objects[k].key = k
                      /\ Seen(log, v, k, objects[k])
    OBVIOUS
  <2>1. /\ objects[k] \in Objects(Keys, Nat) /\ objects[k].key = k
        /\ objects[k].rv \in 1 .. v /\ Genuine(log, objects[k])
    BY AtGenuine DEF objects, Typed
  <2>2. objects[k].rv <= v
    BY <2>1
  <2> QED BY <2>1, <2>2 DEF Seen
<1> QED BY <1>5, <1>6 DEF objects

\* An event of a watch: it is of the version it leads to, unless it is a
\* deletion, and it carries an object the server has had by then.
LEMMA EventOf ==
  ASSUME Typed, NEW i \in 1 .. Len(log), NEW req, Event(i, req).type # "none"
  PROVE  LET d == Event(i, req)
         IN  /\ d \in DeltaTyped /\ d.key = log[i].key /\ Seen(log, i, d.key, d.obj)
             /\ d.type # "Sync" /\ (d.type # "Deleted" => d.obj.rv = i)
<1> DEFINE key == log[i].key
           old == Shown(i - 1, key, req)
           new == Shown(i, key, req)
           d == Event(i, req)
<1>1. Len(log) \in Nat /\ key \in Keys
  <2>1. log \in Seq(Entries(Keys))
    BY DEF Typed, WellFormed
  <2>2. log[i] \in Entries(Keys)
    BY <2>1, ElementOfSeq
  <2> QED BY <2>1, <2>2 DEF Entries
<1>2. old # Absent => old = At(log, i - 1, Keys)[key]
  BY DEF Shown
<1>3. new # Absent => new = At(log, i, Keys)[key]
  BY DEF Shown
<1>4. d = Delta(CASE old = Absent /\ new # Absent -> "Added"
                  [] old # Absent /\ new # Absent -> "Updated"
                  [] old # Absent /\ new = Absent -> "Deleted"
                  [] old = Absent /\ new = Absent -> "none",
                key, IF new = Absent THEN old ELSE new)
  BY DEF Event
<1> HIDE DEF old, new, key, d
<1>5. CASE new # Absent
  <2>1. /\ new \in Objects(Keys, Nat) /\ new.key = key /\ new.rv \in 1 .. i /\ Genuine(log, new)
    BY <1>1, <1>3, <1>5, AtGenuine DEF Typed
  <2>2. new.rv >= i
    BY <1>1, <1>3, <1>5, AtNewest DEF Typed, key
  <2>3. new.rv = i /\ new.rv <= i
    BY <2>1, <2>2
  <2>4. d.type \in {"Added", "Updated"} /\ d.key = key /\ d.obj = new /\ d \in DeltaTyped
    BY <1>1, <1>4, <1>5, <2>1 DEF Delta, DeltaTyped, DeltaTypes
  <2>5. Seen(log, i, d.key, d.obj)
    BY <2>1, <2>3, <2>4 DEF Seen
  <2> QED BY <2>3, <2>4, <2>5 DEF d, key
<1>6. CASE new = Absent
  <2>1. old # Absent
    BY <1>4, <1>6 DEF Delta, d
  <2>2. /\ old \in Objects(Keys, Nat) /\ old.key = key /\ old.rv \in 1 .. i - 1 /\ Genuine(log, old)
    <3>1. i - 1 \in 0 .. Len(log)
      BY <1>1
    <3> QED BY <1>1, <1>2, <2>1, <3>1, AtGenuine DEF Typed
  <2>3. d.type = "Deleted" /\ d.key = key /\ d.obj = old /\ d \in DeltaTyped
    BY <1>1, <1>4, <1>6, <2>1, <2>2 DEF Delta, DeltaTyped, DeltaTypes
  <2>4. old.rv <= i
    BY <2>2
  <2>5. Seen(log, i, d.key, d.obj)
    BY <2>2, <2>3, <2>4 DEF Seen
  <2> QED BY <2>3, <2>5 DEF d, key
<1> QED BY <1>5, <1>6

-----------------------------------------------------------------------------
(* The initial states and the actions of the reflector.                    *)

\* The informer starts empty.
LEMMA InitIInv == Init => IInv
<1> SUFFICES ASSUME Init PROVE IInv
  OBVIOUS
<1>1. /\ kind \in Kinds /\ selector \in Selectors /\ log = << >> /\ first = {}
      /\ reflector = [stage |-> "list", last |-> Never, unavailable |-> FALSE]
      /\ fifo = [queue |-> << >>, deltas |-> [k \in Keys |-> << >>], populated |-> FALSE, initial |-> 0]
      /\ items = [k \in Keys |-> Absent] /\ index = [ns \in ScopeOf(kind) |-> {}]
      /\ pending = [k \in Keys |-> << >>] /\ notified = [k \in Keys |-> Absent]
      /\ budget = [expiries |-> MaxExpiries, resyncs |-> MaxResyncs]
  BY DEF Init
<1>2. MaxVersions \in Nat /\ MaxExpiries \in Nat /\ MaxResyncs \in Nat
  BY BoundsAssumption DEF BoundsAssumption
<1>3. WellFormed(log, Keys) /\ Len(log) = 0
  BY <1>1 DEF WellFormed
<1>4. reflector.last <= Len(log)
  BY <1>1, <1>3 DEF Never
<1>5. Typed
  <2>1. fifo \in FifoTyped
    BY <1>1 DEF FifoTyped
  <2>2. items \in [Keys -> Objects(Keys, Nat) \cup {Absent}]
    BY <1>1
  <2>3. reflector \in [stage : {"list", "watch"}, last : {Never} \cup Nat, unavailable : BOOLEAN]
    BY <1>1
  <2>4. budget \in [expiries : Nat, resyncs : Nat]
    BY <1>1, <1>2
  <2> QED BY <1>1, <1>2, <1>3, <1>4, <2>1, <2>2, <2>3, <2>4 DEF Typed
<1>6. Queued(fifo)
  BY <1>1 DEF Queued, NoTwoDeletions
<1>7. DeltasFit
  BY <1>1 DEF DeltasFit
<1>8. CacheInv
  <2>1. Absent \in Logged
    BY DEF Logged
  <2>2. << >> \in Seq(NotificationsOver(Logged)) /\ Len(<< >>) = 0
    BY EmptySeq
  <2>3. Trail(Logged, Absent, << >>, Absent)
    BY <2>1, <2>2 DEF Trail, ToldBy
  <2>4. TrailInv
    BY <1>1, <2>1, <2>3 DEF TrailInv
  <2> QED BY <1>1, <2>4 DEF CacheInv
<1>9. PopulatedInv
  BY <1>1 DEF PopulatedInv
<1>10. FirstInv
  BY <1>1 DEF FirstInv
<1> QED BY <1>5, <1>6, <1>7, <1>8, <1>9, <1>10 DEF IInv

\* Typed survives a step that changes neither the server nor the indexer.
LEMMA TypedKept ==
  ASSUME Typed, UNCHANGED <<serverVars, items>>, first' \subseteq Objects(Keys, Nat), fifo' \in FifoTyped,
         reflector' \in [stage : {"list", "watch"}, last : {Never} \cup Nat, unavailable : BOOLEAN],
         reflector'.last <= Len(log), budget' \in [expiries : Nat, resyncs : Nat]
  PROVE  Typed'
<1>1. kind' = kind /\ selector' = selector /\ log' = log
  BY DEF serverVars
<1>2. Keys' = Keys
  BY <1>1, SameKeys
<1>3. FifoTyped' = FifoTyped
  BY <1>2 DEF FifoTyped, DeltaTyped
<1> QED BY <1>1, <1>2, <1>3 DEF Typed

\* A reflector that does not go back, on a server that does not change.
LEMMA ForwardStep ==
  ASSUME Typed, UNCHANGED serverVars, reflector'.last \in {Never} \cup Nat,
         reflector.last <= reflector'.last
  PROVE  Forward
<1>1. kind' = kind /\ selector' = selector /\ log' = log
  BY DEF serverVars
<1>2. Len(log) \in Nat
  BY DEF Typed, WellFormed
<1> QED BY <1>1, <1>2 DEF Forward

\* A list that expired is repeated; nothing else changes.
LEMMA ListExpiredKeeps == ASSUME IInv, ListExpired PROVE IInv'
<1>1. /\ UNCHANGED <<serverVars, fifo, cacheVars, first, budget>>
      /\ reflector' = [reflector EXCEPT !.unavailable = TRUE]
      /\ reflector.stage = "list"
  BY DEF ListExpired
<1>2. /\ reflector'.stage = "list" /\ reflector'.last = reflector.last
      /\ reflector' \in [stage : {"list", "watch"}, last : {Never} \cup Nat, unavailable : BOOLEAN]
      /\ reflector.last \in Int
  <2>1. /\ reflector \in [stage : {"list", "watch"}, last : {Never} \cup Nat, unavailable : BOOLEAN]
        /\ reflector.last \in Int
    BY DEF IInv, Typed, Never
  <2> QED BY <1>1, <2>1
<1>3. Forward
  BY <1>1, <1>2, ForwardStep DEF IInv, Typed
<1>4. Typed'
  <2>1. items' = items
    BY <1>1 DEF cacheVars
  <2> QED BY <1>1, <1>2, <2>1, TypedKept DEF IInv, Typed
<1> QED BY <1>1, <1>2, <1>3, <1>4, Undisturbed

\* A bookmark moves the reflector to the end of the log.
LEMMA BookmarkKeeps == ASSUME IInv, Bookmark PROVE IInv'
<1>1. /\ UNCHANGED <<serverVars, fifo, cacheVars, first, budget>>
      /\ reflector' = [reflector EXCEPT !.last = Len(log)]
      /\ reflector.stage = "watch"
  BY DEF Bookmark
<1>2. Len(log) \in Nat /\ reflector.last \in Int /\ reflector.last <= Len(log)
  BY DEF IInv, Typed, WellFormed, Never
<1>3. /\ reflector'.last = Len(log) /\ reflector'.last # Never
      /\ reflector' \in [stage : {"list", "watch"}, last : {Never} \cup Nat, unavailable : BOOLEAN]
  BY <1>1, <1>2 DEF IInv, Typed, Never
<1>4. Forward
  BY <1>1, <1>2, <1>3, ForwardStep DEF IInv, Typed
<1>5. Typed'
  <2>1. items' = items
    BY <1>1 DEF cacheVars
  <2> QED BY <1>1, <1>2, <1>3, <2>1, TypedKept DEF IInv, Typed
<1>6. fifo.populated
  BY <1>1 DEF IInv, PopulatedInv
<1> QED BY <1>1, <1>3, <1>4, <1>5, <1>6, Undisturbed

\* A watch that ended sends the reflector back to list.
LEMMA WatchExpiredKeeps == ASSUME IInv, WatchExpired PROVE IInv'
<1>1. /\ UNCHANGED <<serverVars, fifo, cacheVars, first>>
      /\ reflector' = [reflector EXCEPT !.stage = "list"]
      /\ budget.expiries > 0 /\ budget' = [budget EXCEPT !.expiries = @ - 1]
  BY DEF WatchExpired
<1>2. /\ reflector'.stage = "list" /\ reflector'.last = reflector.last
      /\ reflector' \in [stage : {"list", "watch"}, last : {Never} \cup Nat, unavailable : BOOLEAN]
      /\ reflector.last \in Int
  BY <1>1 DEF IInv, Typed, Never
<1>3. budget' \in [expiries : Nat, resyncs : Nat]
  BY <1>1 DEF IInv, Typed
<1>4. Forward
  BY <1>1, <1>2, ForwardStep DEF IInv, Typed
<1>5. Typed'
  <2>1. items' = items
    BY <1>1 DEF cacheVars
  <2> QED BY <1>1, <1>2, <1>3, <2>1, TypedKept DEF IInv, Typed
<1> QED BY <1>1, <1>2, <1>4, <1>5, Undisturbed

\* A resync queues what the indexer holds, for keys without deltas.
LEMMA ResyncKeeps == ASSUME IInv, Resync PROVE IInv'
<1> DEFINE ds == {Delta("Sync", k, items[k]) :
                    k \in {k \in Keys : items[k] # Absent /\ fifo.deltas[k] = << >>}}
<1>1. /\ UNCHANGED <<serverVars, reflector, cacheVars, first>>
      /\ fifo' = QueueActions(fifo, ds)
      /\ budget.resyncs > 0 /\ budget' = [budget EXCEPT !.resyncs = @ - 1]
      /\ reflector.stage = "watch"
  BY DEF Resync
<1>2. items' = items
  BY <1>1 DEF cacheVars
<1>3. \A d \in ds : /\ d.type = "Sync" /\ d.key \in Keys /\ d.obj = items[d.key] /\ items[d.key] # Absent
                    /\ fifo.deltas[d.key] = << >> /\ d = Delta("Sync", d.key, items[d.key])
  BY DEF Delta
<1> HIDE DEF ds
<1>4. \A d \in ds : d \in DeltaTyped
  <2>1. \A k \in Keys : items[k] # Absent => items[k] \in Objects(Keys, Nat)
    BY DEF IInv, Typed
  <2> QED BY <1>3, <2>1 DEF Delta, DeltaTyped, DeltaTypes
<1>5. \A d, e \in ds : d.key = e.key => d = e
  BY <1>3
<1>6. Forward
  <2>1. reflector.last \in {Never} \cup Nat /\ reflector.last <= reflector.last
    BY DEF IInv, Typed, Never
  <2> QED BY <1>1, <2>1, ForwardStep DEF IInv
<1>7. ASSUME NEW d \in ds
      PROVE  Fits(log', reflector'.last, items', d.key, Len(fifo.deltas[d.key]) + 1, d)
  <2>1. log' = log /\ reflector' = reflector
    BY <1>1 DEF serverVars
  <2>2. Len(fifo.deltas[d.key]) + 1 = 1
    BY <1>3
  <2>3. Seen(log, reflector.last, d.key, items[d.key]) /\ items[d.key].rv \in Nat
    BY <1>3 DEF IInv, CacheInv, Typed, Objects
  <2> QED BY <1>2, <1>3, <2>1, <2>2, <2>3 DEF Fits
<1>8. budget' \in [expiries : Nat, resyncs : Nat]
  BY <1>1 DEF IInv, Typed
<1>9. fifo' \in FifoTyped => Typed'
  BY <1>1, <1>2, <1>8, TypedKept DEF IInv, Typed
<1>10. reflector'.stage = "watch" => reflector'.last # Never
  BY <1>1 DEF IInv, PopulatedInv
<1>11. \A d \in ds : d.type = "Deleted" => \A o \in first : o.key = d.key => Changed(log', o)
  BY <1>3
<1>12. ds \in SUBSET DeltaTyped
  BY <1>4
<1>13. UNCHANGED <<cacheVars, first>>
  BY <1>1
<1> QED BY <1>1, <1>5, <1>6, <1>7, <1>9, <1>10, <1>11, <1>12, <1>13, Fed

\* A watch event queues the delta of one change, newer than all there is.
LEMMA WatchEventKeeps == ASSUME IInv, WatchEvent PROVE IInv'
<1> DEFINE req == ListWatch("Watch")
           i == Min(Undelivered(req))
           d == Event(i, req)
<1>1. /\ UNCHANGED <<serverVars, cacheVars, first, budget>>
      /\ Undelivered(req) # {} /\ reflector' = [reflector EXCEPT !.last = i]
      /\ fifo' = IF Known(fifo, d) THEN QueueActions(fifo, {d}) ELSE fifo
      /\ reflector.stage = "watch"
  BY DEF WatchEvent
<1>2. Len(log) \in Nat /\ reflector.last \in Nat /\ fifo.populated
  BY <1>1 DEF IInv, Typed, WellFormed, PopulatedInv
<1>3. i \in Undelivered(req)
  <2>1. Undelivered(req) \in SUBSET Nat
    BY <1>2 DEF Undelivered
  <2> QED BY <1>1, <2>1, MinOf
<1>4. i \in reflector.last + 1 .. Len(log) /\ i \in 1 .. Len(log) /\ i \in Nat /\ Event(i, req).type # "none"
  BY <1>2, <1>3 DEF Undelivered
<1> HIDE DEF req, i
<1>5. /\ d \in DeltaTyped /\ d.key = log[i].key /\ Seen(log, i, d.key, d.obj)
      /\ d.type # "Sync" /\ (d.type # "Deleted" => d.obj.rv = i)
  BY <1>4, EventOf DEF IInv
<1> HIDE DEF d
<1>6. /\ reflector'.last = i /\ reflector'.last # Never /\ reflector.last <= i
      /\ reflector' \in [stage : {"list", "watch"}, last : {Never} \cup Nat, unavailable : BOOLEAN]
  BY <1>1, <1>2, <1>4 DEF IInv, Typed, Never
<1>7. Forward
  BY <1>1, <1>4, <1>6, ForwardStep DEF IInv
<1>8. items' = items /\ log' = log
  BY <1>1 DEF cacheVars, serverVars
<1>9. fifo' \in FifoTyped => Typed'
  BY <1>1, <1>4, <1>6, <1>8, TypedKept DEF IInv, Typed
<1>10. CASE ~Known(fifo, d)
  <2>1. fifo' = fifo
    BY <1>1, <1>10
  <2>2. fifo' \in FifoTyped
    BY <2>1 DEF IInv, Typed
  <2> QED BY <1>1, <1>2, <1>6, <1>7, <1>9, <2>1, <2>2, Undisturbed
<1>11. CASE Known(fifo, d)
  <2>1. fifo' = QueueActions(fifo, {d})
    BY <1>1, <1>11
  <2>2. d.key \in Keys
    BY <1>5 DEF DeltaTyped
  <2>3. items[d.key] # Absent => items[d.key].rv \in Nat /\ items[d.key].rv <= reflector.last
    BY <2>2 DEF IInv, Typed, Objects, CacheInv, Seen
  <2>4. Fits(log', reflector'.last, items', d.key, Len(fifo.deltas[d.key]) + 1, d)
    <3>1. d.type = "Deleted" /\ Len(fifo.deltas[d.key]) + 1 = 1 => items'[d.key] # Absent
      <4>1. fifo.deltas[d.key] \in Seq(DeltaTyped)
        BY <2>2 DEF IInv, Typed, FifoTyped
      <4>2. fifo.deltas[d.key] # << >> => Len(fifo.deltas[d.key]) \in Nat \ {0}
        BY <4>1, EmptySeq
      <4>3. d.type = "Deleted" => items[d.key] # Absent \/ fifo.deltas[d.key] # << >>
        BY <1>11 DEF Known
      <4> QED BY <1>8, <4>2, <4>3
    <3> QED BY <1>2, <1>4, <1>5, <1>6, <1>8, <2>3, <3>1 DEF Fits
  <2>5. ASSUME NEW o \in first, o.key = d.key
        PROVE  Changed(log', o)
    <3>1. o.rv \in Nat /\ o.rv <= reflector.last
      BY DEF IInv, Typed, Objects, FirstInv, Seen
    <3>2. i \in o.rv + 1 .. Len(log)
      BY <1>2, <1>4, <3>1
    <3> QED BY <1>5, <1>8, <2>5, <3>2 DEF Changed
  <2>6. {d} \in SUBSET DeltaTyped /\ \A e, f \in {d} : e.key = f.key => e = f
    BY <1>5
  <2>7. UNCHANGED <<cacheVars, first>>
    BY <1>1
  <2>8. /\ \A e \in {d} : Fits(log', reflector'.last, items', e.key, Len(fifo.deltas[e.key]) + 1, e)
        /\ \A e \in {d} : e.type = "Deleted" => \A o \in first : o.key = e.key => Changed(log', o)
    BY <2>4, <2>5
  <2> QED BY <1>6, <1>7, <1>9, <2>1, <2>6, <2>7, <2>8, Fed
<1> QED BY <1>10, <1>11

-----------------------------------------------------------------------------
(* A list: Replace.                                                        *)

\* The deltas of a Replace are well typed, one for a key, and each fits.
LEMMA ReplacementsFit ==
  ASSUME IInv, NEW v \in 0 .. Len(log), reflector.last <= v,
         NEW list, list = ServeCollection(log, At(log, v, Keys), ListWatch("List")).answer.objects
  PROVE  LET ds == Replacements(list)
         IN  /\ ds \in SUBSET DeltaTyped
             /\ \A d, e \in ds : d.key = e.key => d = e
             /\ \A d \in ds : Fits(log, v, items, d.key, Len(fifo.deltas[d.key]) + 1, d)
             /\ \A d \in ds : d.type = "Deleted" => \A o \in first : o.key = d.key => Changed(log, o)
<1> DEFINE ds == Replacements(list)
           objects == At(log, v, Keys)
<1>1. Typed /\ WellFormed(log, Keys) /\ Len(log) \in Nat /\ reflector.last \in Int
  BY DEF IInv, Typed, WellFormed, Never
<1>2. \A o \in list : /\ o \in Objects(Keys, Nat) /\ Seen(log, v, o.key, o)
                      /\ Matches(selector, o) /\ o = objects[o.key]
  BY <1>1, Listed
<1>3. \A k \in Keys : objects[k] # Absent /\ Matches(selector, objects[k]) => objects[k] \in list
  BY <1>1, Listed
<1>4. \A d \in ds :
        \/ \E o \in list : d = Delta("Replaced", o.key, o)
        \/ /\ d = Delta("Deleted", d.key, items[d.key]) /\ d.key \in Keys
           /\ items[d.key] # Absent /\ \A o \in list : o.key # d.key
  BY DEF Replacements, Delta
<1>5. \A k \in Keys : items[k] # Absent =>
        /\ items[k] \in Objects(Keys, Nat) /\ items[k].rv \in Nat
        /\ Seen(log, reflector.last, k, items[k])
  BY DEF IInv, Typed, CacheInv, Objects
<1> HIDE DEF ds
<1>6. ds \in SUBSET DeltaTyped
  <2> SUFFICES ASSUME NEW d \in ds PROVE d \in DeltaTyped
    OBVIOUS
  <2>1. CASE \E o \in list : d = Delta("Replaced", o.key, o)
    <3>1. PICK o \in list : d = Delta("Replaced", o.key, o)
      BY <2>1
    <3>2. o \in Objects(Keys, Nat) /\ o.key \in Keys
      BY <1>2 DEF Objects
    <3> QED BY <3>1, <3>2 DEF Delta, DeltaTyped, DeltaTypes
  <2>2. CASE d = Delta("Deleted", d.key, items[d.key]) /\ d.key \in Keys /\ items[d.key] # Absent
    <3>1. items[d.key] \in Objects(Keys, Nat)
      BY <1>5, <2>2
    <3>2. Delta("Deleted", d.key, items[d.key]) \in DeltaTyped
      BY <2>2, <3>1 DEF Delta, DeltaTyped, DeltaTypes
    <3> QED BY <2>2, <3>2
  <2> QED BY <1>4, <2>1, <2>2
<1>7. ASSUME NEW d \in ds, NEW e \in ds, d.key = e.key
      PROVE  d = e
  <2>1. CASE \E o \in list : d = Delta("Replaced", o.key, o)
    <3>1. PICK o \in list : d = Delta("Replaced", o.key, o)
      BY <2>1
    <3>2. d.key = o.key
      BY <3>1 DEF Delta
    <3>3. PICK p \in list : e = Delta("Replaced", p.key, p)
      BY <1>4, <1>7, <3>2
    <3>4. e.key = p.key
      BY <3>3 DEF Delta
    <3>5. o = p
      BY <1>2, <1>7, <3>2, <3>4
    <3> QED BY <3>1, <3>3, <3>5
  <2>2. CASE /\ d = Delta("Deleted", d.key, items[d.key]) /\ d.key \in Keys
             /\ items[d.key] # Absent /\ \A o \in list : o.key # d.key
    <3>1. ASSUME NEW p \in list, e = Delta("Replaced", p.key, p)
          PROVE  FALSE
      <4>1. e.key = p.key
        BY <3>1 DEF Delta
      <4> QED BY <1>7, <2>2, <4>1
    <3>2. e = Delta("Deleted", e.key, items[e.key])
      BY <1>4, <3>1
    <3> QED BY <1>7, <2>2, <3>2
  <2> QED BY <1>4, <2>1, <2>2
<1>8. ASSUME NEW d \in ds
      PROVE  Fits(log, v, items, d.key, Len(fifo.deltas[d.key]) + 1, d)
  <2>1. CASE \E o \in list : d = Delta("Replaced", o.key, o)
    <3>1. PICK o \in list : d = Delta("Replaced", o.key, o)
      BY <2>1
    <3>2. d.key = o.key /\ d.obj = o /\ d.type = "Replaced"
      BY <3>1 DEF Delta
    <3>3. o \in Objects(Keys, Nat) /\ o.key \in Keys /\ Seen(log, v, o.key, o) /\ o = objects[o.key]
      BY <1>2 DEF Objects
    <3>4. ASSUME items[d.key] # Absent
          PROVE  o.rv >= items[d.key].rv
      <4>1. /\ items[d.key].rv \in 1 .. Len(log) /\ log[items[d.key].rv].key = items[d.key].key
            /\ items[d.key].key = d.key /\ items[d.key].rv <= reflector.last
        BY <1>5, <3>2, <3>3, <3>4 DEF Seen, Genuine
      <4>2. items[d.key].rv \in 1 .. v
        BY <1>1, <4>1
      <4>3. objects[o.key] # Absent
        BY <3>3, AbsentIsNoObject, <1>1 DEF Typed, Keys
      <4>4. objects[o.key].rv >= items[d.key].rv
        BY <1>1, <3>2, <3>3, <4>1, <4>2, <4>3, AtNewest
      <4> QED BY <3>3, <4>4
    <3> QED BY <3>2, <3>3, <3>4 DEF Fits
  <2>2. CASE d = Delta("Deleted", d.key, items[d.key]) /\ d.key \in Keys /\ items[d.key] # Absent
    <3>1. d.type = "Deleted" /\ d.obj = items[d.key]
      BY <2>2 DEF Delta
    <3>2. Seen(log, v, d.key, items[d.key])
      BY <1>1, <1>5, <2>2 DEF Seen
    <3> QED BY <2>2, <3>1, <3>2 DEF Fits
  <2> QED BY <1>4, <2>1, <2>2
<1>9. ASSUME NEW d \in ds, d.type = "Deleted", NEW o \in first, o.key = d.key
      PROVE  Changed(log, o)
  <2>1. \A p \in list : p.key # d.key
    BY <1>4, <1>9 DEF Delta
  <2> SUFFICES ASSUME ~Changed(log, o) PROVE FALSE
    OBVIOUS
  <2>2. /\ o \in Objects(Keys, Nat) /\ o.key \in Keys /\ o.rv \in Nat
        /\ Genuine(log, o) /\ o.rv <= reflector.last /\ Matches(selector, o)
    BY DEF IInv, Typed, Objects, FirstInv, Seen
  <2>3. \A i \in o.rv + 1 .. v : log[i].key # o.key
    BY <1>1, <2>2 DEF Changed
  <2>4. o.rv <= v
    BY <1>1, <2>2
  <2>5. objects[o.key] = o
    BY <1>1, <2>2, <2>3, <2>4, AtCurrent
  <2>6. o # Absent
    BY <1>1, <2>2, AbsentIsNoObject DEF Typed, Keys
  <2>7. o \in list
    BY <1>3, <2>2, <2>5, <2>6
  <2> QED BY <1>9, <2>1, <2>7
<1> QED BY <1>6, <1>7, <1>8, <1>9 DEF ds

\* The deltas of the first Replace are counted as they are queued.
LEMMA FirstCount ==
  ASSUME kind \in Kinds, NEW f \in FifoTyped, Queued(f), f.queue = << >>, NEW ds \in SUBSET DeltaTyped,
         \A d, e \in ds : d.key = e.key => d = e
  PROVE  /\ Cardinality(ds) = Len(QueueActions(f, ds).queue)
         /\ \A d \in ds : \E i \in 1 .. Cardinality(ds) : QueueActions(f, ds).queue[i] = d.key
<1> DEFINE g == QueueActions(f, ds)
           n == Len(g.queue)
<1>1. /\ g \in FifoTyped /\ Queued(g)
      /\ \A d \in ds : g.deltas[d.key] = Joined(f.deltas[d.key], d)
      /\ \A k \in Keys : (\A d \in ds : d.key # k) => g.deltas[k] = f.deltas[k]
  BY QueueActionsOf
<1> HIDE DEF g
<1>2. g.queue \in Seq(Keys) /\ n \in Nat /\ \A k \in Keys : f.deltas[k] \in Seq(DeltaTyped)
  BY <1>1 DEF FifoTyped
<1>3. \A k \in Keys : f.deltas[k] = << >>
  BY DEF Queued
<1>4. \A d \in ds : d.key \in Keys /\ \E i \in 1 .. n : g.queue[i] = d.key
  <2> TAKE d \in ds
  <2>1. d.key \in Keys
    BY DEF DeltaTyped
  <2>2. f.deltas[d.key] \in Seq(DeltaTyped) /\ d \in DeltaTyped
    BY <1>2, <2>1
  <2>3. Joined(f.deltas[d.key], d) # << >>
    BY <2>2, JoinedOf
  <2>4. g.deltas[d.key] # << >>
    BY <1>1, <2>3
  <2> QED BY <1>1, <2>1, <2>4 DEF Queued
<1>5. \A i \in 1 .. n : g.queue[i] \in Keys /\ \E d \in ds : d.key = g.queue[i]
  <2> TAKE i \in 1 .. n
  <2>1. g.queue[i] \in Keys
    BY <1>2, ElementOfSeq
  <2>2. g.deltas[g.queue[i]] # << >>
    BY <1>1, <2>1 DEF Queued
  <2> QED BY <1>1, <1>3, <2>1, <2>2
<1> DEFINE h == [i \in 1 .. n |-> CHOOSE d \in ds : d.key = g.queue[i]]
<1>6. \A i \in 1 .. n : h[i] \in ds /\ h[i].key = g.queue[i]
  BY <1>5
<1>7. h \in [1 .. n -> ds]
  BY <1>6
<1> HIDE DEF h
<1>8. ASSUME NEW i \in 1 .. n, NEW j \in 1 .. n, h[i] = h[j]
      PROVE  i = j
  <2>1. g.queue[i] = g.queue[j]
    BY <1>6, <1>8
  <2> QED BY <1>1, <2>1 DEF Queued
<1>9. \A d \in ds : \E i \in 1 .. n : h[i] = d
  BY <1>4, <1>6
<1> HIDE DEF n
<1>10. h \in Bijection(1 .. n, ds)
  BY <1>7, <1>8, <1>9 DEF Bijection, Injection, Surjection, IsInjective
<1>11. Cardinality(ds) = n
  BY <1>2, <1>10, FS_CountingElements DEF ExistsBijection
<1> QED BY <1>4, <1>11 DEF g, n

\* A list is as new as the reflector, and Replace keeps every part of the
\* invariant; the first one is also remembered.
LEMMA ListObjectsKeeps == ASSUME IInv, ListObjects PROVE IInv'
<1>1. PICK v \in RelistVersions : /\ reflector' = [stage |-> "watch", last |-> v, unavailable |-> FALSE]
        /\ \E list \in {ServeCollection(log, At(log, v, Keys), ListWatch("List")).answer.objects} :
             /\ fifo' = Replace(fifo, list) /\ first' = IF fifo.populated THEN first ELSE list
  BY DEF ListObjects
<1>2. UNCHANGED <<serverVars, cacheVars, budget>>
  BY DEF ListObjects
<1>3. Len(log) \in Nat /\ reflector.last \in {Never} \cup Nat /\ reflector.last \in Int /\ reflector.last <= Len(log)
  BY DEF IInv, Typed, WellFormed, Never
<1>4. v \in 0 .. Len(log) /\ v \in Nat /\ reflector.last <= v
  <2>1. CASE reflector.unavailable
    BY <1>3, <2>1 DEF RelistVersions
  <2>2. CASE ~reflector.unavailable /\ reflector.last = Never
    BY <1>3, <2>2 DEF RelistVersions, Never
  <2>3. CASE ~reflector.unavailable /\ reflector.last # Never
    BY <1>3, <2>3 DEF RelistVersions, Never
  <2> QED BY <2>1, <2>2, <2>3
<1>5. PICK list : /\ list = ServeCollection(log, At(log, v, Keys), ListWatch("List")).answer.objects
                  /\ fifo' = Replace(fifo, list) /\ first' = IF fifo.populated THEN first ELSE list
  BY <1>1
<1>6. reflector'.last = v /\ reflector'.stage = "watch" /\ v # Never
  BY <1>1, <1>4 DEF Never
<1>7. Forward
  BY <1>2, <1>4, <1>6, ForwardStep DEF IInv
<1> DEFINE ds == Replacements(list)
           g == QueueActions(fifo, ds)
<1>8. /\ ds \in SUBSET DeltaTyped /\ \A d, e \in ds : d.key = e.key => d = e
      /\ \A d \in ds : Fits(log, v, items, d.key, Len(fifo.deltas[d.key]) + 1, d)
      /\ \A d \in ds : d.type = "Deleted" => \A o \in first : o.key = d.key => Changed(log, o)
  BY <1>4, <1>5, ReplacementsFit
<1>9. items' = items /\ log' = log /\ selector' = selector
  BY <1>2 DEF cacheVars, serverVars
<1>10. \A d \in ds : Fits(log', reflector'.last, items', d.key, Len(fifo.deltas[d.key]) + 1, d)
  BY <1>6, <1>8, <1>9
<1>11. fifo' = [g EXCEPT !.initial = IF fifo.populated THEN @ ELSE Cardinality(ds)]
  BY <1>5 DEF Replace
<1>12. \A o \in list : /\ o \in Objects(Keys, Nat) /\ o.key \in Keys /\ Seen(log, v, o.key, o)
                       /\ Matches(selector, o) /\ Delta("Replaced", o.key, o) \in ds
  <2>1. \A o \in list : o \in Objects(Keys, Nat) /\ Seen(log, v, o.key, o) /\ Matches(selector, o)
    BY <1>4, <1>5, Listed DEF IInv
  <2> QED BY <2>1 DEF Replacements, Objects
<1>13. fifo \in FifoTyped /\ Queued(fifo) /\ kind \in Kinds
  BY DEF IInv, Typed
<1>14. /\ g \in FifoTyped /\ Queued(g) /\ g.populated /\ g.initial = fifo.initial
       /\ \A d \in ds : g.deltas[d.key] = Joined(fifo.deltas[d.key], d)
  BY <1>8, <1>13, QueueActionsOf
<1>15. fifo' \in FifoTyped => Typed'
  <2>1. first' \subseteq Objects(Keys, Nat)
    BY <1>5, <1>12 DEF IInv, Typed
  <2>2. reflector' \in [stage : {"list", "watch"}, last : {Never} \cup Nat, unavailable : BOOLEAN]
    BY <1>1, <1>4
  <2> QED BY <1>2, <1>4, <1>6, <1>9, <2>1, <2>2, TypedKept DEF IInv, Typed
<1>16. CASE fifo.populated
  <2>1. fifo' = g
    <3> HIDE DEF g
    <3> QED BY <1>11, <1>14, <1>16 DEF FifoTyped
  <2>2. UNCHANGED <<cacheVars, first>>
    BY <1>2, <1>5, <1>16
  <2>3. \A d \in ds : d.type = "Deleted" => \A o \in first : o.key = d.key => Changed(log', o)
    BY <1>8, <1>9
  <2> HIDE DEF ds
  <2> QED BY <1>6, <1>7, <1>8, <1>10, <1>15, <2>1, <2>2, <2>3, Fed
<1>17. CASE ~fifo.populated
  <2>1. fifo.queue = << >> /\ \A k \in Keys : items[k] = Absent
    BY <1>17 DEF IInv, PopulatedInv
  <2>2. first' = list
    BY <1>5, <1>17
  <2>3. \A d \in ds : d.type = "Replaced"
    BY <2>1 DEF Replacements, Delta
  <2> HIDE DEF ds
  <2>4. /\ Cardinality(ds) = Len(g.queue)
        /\ \A d \in ds : \E i \in 1 .. Cardinality(ds) : g.queue[i] = d.key
    BY <1>8, <1>13, <2>1, FirstCount
  <2> HIDE DEF g
  <2>5. Len(g.queue) \in Nat
    BY <1>14 DEF FifoTyped
  <2>6. /\ fifo' \in FifoTyped /\ fifo'.queue = g.queue /\ fifo'.deltas = g.deltas /\ fifo'.populated
        /\ fifo'.initial = Cardinality(ds)
    BY <1>11, <1>14, <1>17, <2>4, <2>5 DEF FifoTyped
  <2>7. Keys' = Keys
    BY <1>7, SameKeys DEF Forward
  <2>8. Queued(fifo)'
    BY <1>14, <2>4, <2>5, <2>6, <2>7 DEF Queued
  <2>9. DeltasFit'
    BY <1>7, <1>8, <1>9, <1>10, <2>6, DeltasFed DEF g
  <2>10. CacheInv'
    BY <1>2, <1>7, CacheKept
  <2>11. PopulatedInv'
    BY <1>6, <2>6 DEF PopulatedInv
  <2>12. ASSUME NEW o \in list
         PROVE  /\ Seen(log', reflector'.last, o.key, o) /\ Matches(selector', o)
                /\ \E i \in 1 .. fifo'.initial : fifo'.queue[i] = o.key
                /\ \A i \in 1 .. Len(fifo'.deltas[o.key]) : fifo'.deltas[o.key][i].type # "Deleted"
    <3> DEFINE d == Delta("Replaced", o.key, o)
    <3>1. d \in ds /\ d.key = o.key /\ d.type = "Replaced"
      BY <1>12 DEF Delta
    <3> HIDE DEF d
    <3>2. \E i \in 1 .. fifo'.initial : fifo'.queue[i] = o.key
      BY <2>4, <2>6, <3>1
    <3>3. fifo.deltas[o.key] = << >>
      BY <1>12, <1>13, <2>1 DEF Queued
    <3>4. fifo'.deltas[o.key] = Joined(<< >>, d)
      BY <1>14, <2>6, <3>1, <3>3
    <3>5. Joined(<< >>, d) = <<d>>
      BY DEF Joined
    <3>6. \A i \in 1 .. Len(fifo'.deltas[o.key]) : fifo'.deltas[o.key][i].type # "Deleted"
      BY <3>1, <3>4, <3>5
    <3> QED BY <1>6, <1>9, <1>12, <3>2, <3>6
  <2>13. FirstInv'
    BY <2>2, <2>12 DEF FirstInv
  <2> QED BY <1>15, <2>6, <2>8, <2>9, <2>10, <2>11, <2>13 DEF IInv
<1> QED BY <1>16, <1>17

-----------------------------------------------------------------------------
(* The server.                                                             *)

\* A patch of the label changes the label and nothing else.
LEMMA LabelPatched ==
  ASSUME NEW keys, NEW o \in Objects(keys, Nat), NEW label,
         NEW req, req.sub = "", req.body = [label |-> label]
  PROVE  Patch(o, req) = [o EXCEPT !.label = label]
<1> DEFINE m == Merge(o, [label |-> label])
<1>1. DOMAIN o = {"key", "spec", "status", "label", "rv"}
  BY DEF Objects
<1>2. o = [key |-> o.key, spec |-> o.spec, status |-> o.status, label |-> o.label, rv |-> o.rv]
  BY DEF Objects
<1>3. DOMAIN [label |-> label] = {"label"}
  OBVIOUS
<1>4. /\ DOMAIN m = {"key", "spec", "status", "label", "rv"}
      /\ m.key = o.key /\ m.spec = o.spec /\ m.status = o.status /\ m.label = label /\ m.rv = o.rv
      /\ m = [f \in {"key", "spec", "status", "label", "rv"} |-> m[f]]
  BY <1>1, <1>3 DEF Merge
<1> HIDE DEF m
<1>5. m = [key |-> o.key, spec |-> o.spec, status |-> o.status, label |-> label, rv |-> o.rv]
  BY <1>4
<1>6. Patch(o, req) = [m EXCEPT !.status = o.status]
  BY DEF Patch, m
<1> QED BY <1>2, <1>5, <1>6

\* A client writes at most one entry with a call.
LEMMA ServerChangeAppends ==
  ASSUME IInv, ServerChange
  PROVE  \E e : NextEntry(log, e, Keys) /\ log' = Append(log, e)
<1>1. PICK k \in Keys, label \in BOOLEAN :
        \E call \in {[ListCall("Create") EXCEPT !.body =
                        [key |-> k, spec |-> Empty, status |-> Empty, label |-> label, rv |-> 0]],
                     [ListCall("Patch") EXCEPT !.name = k[2], !.body = [label |-> label]],
                     [ListCall("Delete") EXCEPT !.name = k[2]]} :
          log' = Serve(log, Keys, NetworkingV1alpha1(kind, k[1], call)).log
  BY DEF ServerChange
<1>2. log' # log
  BY DEF ServerChange
<1>3. kind \in Kinds /\ WellFormed(log, Keys) /\ Len(log) \in Nat /\ Keys = KeysOf(kind) /\ k \in KeysOf(kind)
  BY DEF IInv, Typed, WellFormed, Keys
<1>4. Absent \notin Objects(Keys, Nat)
  BY <1>3, AbsentIsNoObject
<1> DEFINE old == At(log, Len(log), KeysOf(kind))[k]
<1>5. old # Absent => old \in Objects(Keys, Nat) /\ old.key = k
  BY <1>3, AtGenuine
<1> HIDE DEF old
<1>6. CASE log' = Serve(log, Keys, NetworkingV1alpha1(kind, k[1], [ListCall("Create") EXCEPT !.body =
                 [key |-> k, spec |-> Empty, status |-> Empty, label |-> label, rv |-> 0]])).log
  <2> DEFINE body == [key |-> k, spec |-> Empty, status |-> Empty, label |-> label, rv |-> 0]
             call == [ListCall("Create") EXCEPT !.body = body]
             n == Len(log) + 1
             obj == [body EXCEPT !.status = Empty, !.rv = n]
  <2>1. body \in Objects(Keys, Nat) /\ body.key = k /\ n \in Nat /\ n = Len(log) + 1
    BY <1>3, ContentsAssumption DEF Objects, ContentsAssumption
  <2>2. call.method = "Create" /\ call.body = body
    BY DEF ListCall
  <2>3. log' = Serve(log, KeysOf(kind), NetworkingV1alpha1(kind, k[1], call)).log
    BY <1>3, <1>6
  <2> HIDE DEF call, body
  <2>4. \/ log' = Refused(log, "AlreadyExists").log
        \/ log' = [log |-> Append(log, [key |-> k, obj |-> obj]), answer |-> OK({obj})].log
    <3>1. call.method = "Create" /\ call.body.key = k /\ kind \in Kinds /\ k \in KeysOf(kind)
      BY <1>3, <2>1, <2>2
    <3>2. Created(log, call.body) = obj
      BY <2>2 DEF Created
    <3> HIDE DEF obj
    <3>3. \/ Serve(log, KeysOf(kind), NetworkingV1alpha1(kind, k[1], call)) = Refused(log, "AlreadyExists")
          \/ Serve(log, KeysOf(kind), NetworkingV1alpha1(kind, k[1], call)) = Appended(log, k, obj)
      BY <3>1, <3>2, CreateServed
    <3> QED BY <2>3, <3>3 DEF Appended
  <2>5. log' = Append(log, [key |-> k, obj |-> obj])
    BY <1>2, <2>4 DEF Refused
  <2> HIDE DEF n
  <2>6. obj \in Objects(Keys, Nat) /\ obj.key = k /\ obj.rv = n
    <3>1. body \in Objects(Keys, Nat) /\ body.key = k /\ n \in Nat
      BY <2>1
    <3>2. [body EXCEPT !.status = Empty, !.rv = n] \in Objects(Keys, Nat)
      BY <3>1, CreatedObject
    <3>3. obj.key = k /\ obj.rv = n
      BY <3>1 DEF Objects
    <3> QED BY <3>2, <3>3
  <2>7. NextEntry(log, [key |-> k, obj |-> obj], Keys)
    <3> HIDE DEF obj
    <3> QED BY <1>3, <2>1, <2>6 DEF NextEntry, Entries
  <2> QED BY <2>5, <2>7
<1>7. CASE log' = Serve(log, Keys, NetworkingV1alpha1(kind, k[1],
                 [ListCall("Patch") EXCEPT !.name = k[2], !.body = [label |-> label]])).log
  <2> DEFINE call == [ListCall("Patch") EXCEPT !.name = k[2], !.body = [label |-> label]]
  <2>1. /\ call.method = "Patch" /\ call.name = k[2] /\ call.sub = "" /\ call.body = [label |-> label]
    BY DEF ListCall
  <2>2. log' = Serve(log, KeysOf(kind), NetworkingV1alpha1(kind, k[1], call)).log
    BY <1>3, <1>7
  <2> HIDE DEF call
  <2> DEFINE new == Patch(old, PatchArguments(call))
  <2>3. PatchArguments(call).sub = "" /\ PatchArguments(call).body = [label |-> label]
    BY <2>1 DEF PatchArguments
  <2>4. Serve(log, KeysOf(kind), NetworkingV1alpha1(kind, k[1], call))
          = IF old = Absent THEN Refused(log, "NotFound") ELSE Stored(log, old, new)
    <3>1. call.method = "Patch" /\ call.name = k[2] /\ kind \in Kinds /\ k \in KeysOf(kind)
      BY <1>3, <2>1
    <3> QED BY <3>1, PatchServed DEF old
  <2>5. old # Absent => new = [old EXCEPT !.label = label]
    BY <1>5, <2>3, LabelPatched
  <2> HIDE DEF new
  <2>6. Refused(log, "NotFound").log = log /\ Stored(log, old, new).log = Store(log, old, new)
    BY DEF Refused, Stored
  <2>7. old # Absent /\ log' = Store(log, old, new)
    BY <1>2, <2>2, <2>4, <2>6
  <2>8. new \in Objects(Keys, Nat)
    BY <1>5, <2>5, <2>7 DEF Objects
  <2>9. \/ Store(log, old, new) = log
        \/ \E e : NextEntry(log, e, Keys) /\ Store(log, old, new) = Append(log, e)
    BY <1>3, <2>8, StoredEntry
  <2> QED BY <1>2, <2>7, <2>9
<1>8. CASE log' = Serve(log, Keys, NetworkingV1alpha1(kind, k[1],
                 [ListCall("Delete") EXCEPT !.name = k[2]])).log
  <2> DEFINE call == [ListCall("Delete") EXCEPT !.name = k[2]]
             e == [key |-> k, obj |-> Absent]
  <2>1. call.method = "Delete" /\ call.name = k[2]
    BY DEF ListCall
  <2>2. log' = Serve(log, KeysOf(kind), NetworkingV1alpha1(kind, k[1], call)).log
    BY <1>3, <1>8
  <2> HIDE DEF call
  <2>3. Serve(log, KeysOf(kind), NetworkingV1alpha1(kind, k[1], call))
          = IF old = Absent THEN Refused(log, "NotFound")
            ELSE [log |-> log \o <<[key |-> old.key, obj |-> Absent]>>, answer |-> OK({})]
    BY <1>3, <2>1, DeleteServed DEF old
  <2>4. old # Absent /\ log' = log \o <<[key |-> old.key, obj |-> Absent]>>
    BY <1>2, <2>2, <2>3 DEF Refused
  <2>5. log' = log \o <<e>>
    BY <1>5, <2>4
  <2>6. e \in Entries(Keys) /\ e.obj = Absent
    BY <1>3 DEF Entries
  <2>7. log \in Seq(Entries(Keys))
    BY <1>3 DEF WellFormed
  <2> HIDE DEF e
  <2>8. log' = Append(log, e)
    BY <2>5, <2>6, <2>7, AppendIsConcat
  <2> QED BY <2>6, <2>8 DEF NextEntry
<1> QED BY <1>1, <1>6, <1>7, <1>8

\* A change on the server leaves the informer as it is until it hears of it.
LEMMA ServerChangeKeeps == ASSUME IInv, ServerChange PROVE IInv'
<1>1. PICK e : NextEntry(log, e, Keys) /\ log' = Append(log, e)
  BY ServerChangeAppends
<1>2. /\ UNCHANGED <<kind, selector, reflector, fifo, cacheVars, first, budget>>
      /\ Len(log) < MaxVersions
  BY DEF ServerChange
<1>3. /\ WellFormed(log', Keys) /\ Len(log') = Len(log) + 1
      /\ \A i \in 1 .. Len(log) : log'[i] = log[i]
  BY <1>1, AppendedEntry DEF IInv, Typed
<1>4. Len(log) \in Nat /\ reflector.last \in Int /\ MaxVersions \in Nat /\ reflector.last <= Len(log)
  BY BoundsAssumption DEF IInv, Typed, WellFormed, Never, BoundsAssumption
<1>5. Forward
  BY <1>2, <1>3, <1>4 DEF Forward, IInv, Typed
<1>6. Keys' = Keys /\ FifoTyped' = FifoTyped /\ items' = items
  BY <1>2, SameKeys DEF FifoTyped, DeltaTyped, cacheVars
<1>7. Len(log') <= MaxVersions /\ reflector'.last <= Len(log')
  BY <1>2, <1>3, <1>4
<1>8. Typed'
  BY <1>2, <1>3, <1>6, <1>7 DEF IInv, Typed
<1>9. reflector'.stage = "watch" => fifo.populated /\ reflector'.last # Never
  BY <1>2 DEF IInv, PopulatedInv
<1> QED BY <1>2, <1>5, <1>8, <1>9, Undisturbed

-----------------------------------------------------------------------------
(* A pop: HandleDeltas.                                                    *)

(* The object of a key before the first of its deltas and after each.      *)
States(key) ==
  [i \in 0 .. Len(fifo.deltas[key]) |-> IF i = 0 THEN items[key] ELSE After(fifo.deltas[key][i])]

\* What is known of the deltas at the head of the queue.
LEMMA Popped ==
  ASSUME IInv, fifo.queue # << >>
  PROVE  LET key == Head(fifo.queue)
             n == Len(fifo.deltas[key])
         IN  /\ key \in Keys /\ fifo.deltas[key] \in Seq(DeltaTyped) /\ fifo.deltas[key] # << >>
             /\ fifo.queue[1] = key /\ n \in Nat /\ n > 0 /\ DOMAIN fifo.deltas[key] = 1 .. n
             /\ Last(fifo.deltas[key]) = fifo.deltas[key][n]
             /\ \A i \in 1 .. n : /\ fifo.deltas[key][i] \in DeltaTyped
                                  /\ Fits(log, reflector.last, items, key, i, fifo.deltas[key][i])
<1> DEFINE key == Head(fifo.queue)
           deltas == fifo.deltas[key]
<1>1. fifo.queue \in Seq(Keys) /\ \A k \in Keys : fifo.deltas[k] \in Seq(DeltaTyped)
  BY DEF IInv, Typed, FifoTyped
<1>2. key \in Keys /\ fifo.queue[1] = key /\ Len(fifo.queue) \in Nat /\ Len(fifo.queue) >= 1
  BY <1>1, HeadTailProperties, EmptySeq
<1> HIDE DEF key
<1>3. deltas # << >>
  <2>1. 1 \in 1 .. Len(fifo.queue)
    BY <1>2
  <2> QED BY <1>2, <2>1 DEF IInv, Queued
<1>4. deltas \in Seq(DeltaTyped)
  BY <1>1, <1>2
<1>5. \A i \in 1 .. Len(deltas) : Fits(log, reflector.last, items, key, i, deltas[i])
  BY <1>2 DEF IInv, DeltasFit
<1> HIDE DEF deltas
<1>6. Len(deltas) \in Nat /\ Len(deltas) > 0 /\ DOMAIN deltas = 1 .. Len(deltas)
  BY <1>3, <1>4, LenProperties, EmptySeq
<1>7. \A i \in 1 .. Len(deltas) : deltas[i] \in DeltaTyped
  BY <1>4, ElementOfSeq
<1>8. Last(deltas) = deltas[Len(deltas)]
  BY DEF Last
<1> QED BY <1>2, <1>3, <1>4, <1>5, <1>6, <1>7, <1>8 DEF key, deltas

\* An object that a client has seen under a key at a version is the one the
\* log has there: two of the same version are the same.
LEMMA SameVersion ==
  ASSUME NEW l, NEW last, NEW k, NEW o, NEW p, Seen(l, last, k, o), Seen(l, last, k, p), o.rv = p.rv
  PROVE  o = p
<1> QED BY DEF Seen, Genuine

\* A delta that the handlers are not told of changes nothing.
LEMMA SyncChangesNothing ==
  ASSUME IInv, fifo.queue # << >>,
         NEW i \in 1 .. Len(fifo.deltas[Head(fifo.queue)]),
         IsSync(States(Head(fifo.queue))[i - 1], fifo.deltas[Head(fifo.queue)][i])
  PROVE  States(Head(fifo.queue))[i] = States(Head(fifo.queue))[i - 1]
<1> DEFINE key == Head(fifo.queue)
           deltas == fifo.deltas[key]
           s == States(key)
<1>1. /\ key \in Keys /\ Len(deltas) \in Nat
      /\ \A j \in 1 .. Len(deltas) : /\ deltas[j] \in DeltaTyped
                                     /\ Fits(log, reflector.last, items, key, j, deltas[j])
  BY Popped
<1>2. /\ i - 1 \in 0 .. Len(deltas) /\ i \in 0 .. Len(deltas) /\ i # 0
      /\ i - 1 = 0 \/ i - 1 \in 1 .. Len(deltas)
  BY <1>1
<1>3. s[i] = After(deltas[i]) /\ s[i - 1] = IF i - 1 = 0 THEN items[key] ELSE After(deltas[i - 1])
  BY <1>2 DEF States
<1>4. IsSync(s[i - 1], deltas[i])
  OBVIOUS
<1>5. items[key] # Absent => Seen(log, reflector.last, key, items[key])
  BY <1>1 DEF IInv, CacheInv
<1> SUFFICES s[i] = s[i - 1]
  OBVIOUS
<1> DEFINE d == deltas[i]
<1>6. Fits(log, reflector.last, items, key, i, d)
  BY <1>1
<1> HIDE DEF s, deltas, key, d
<1>7. s[i - 1] # Absent /\ d.type \in {"Sync", "Replaced"}
  BY <1>4 DEF IsSync, d
<1>8. s[i] = d.obj
  BY <1>3, <1>7 DEF After, d
<1>9. CASE d.type = "Sync"
  <2>1. i = 1 /\ d.obj = items[key]
    BY <1>9, <1>6 DEF Fits
  <2>2. i - 1 = 0
    BY <2>1
  <2>3. s[i - 1] = items[key]
    BY <1>3, <2>2
  <2> QED BY <1>8, <2>1, <2>3
<1>10. CASE d.type = "Replaced"
  <2>1. d.obj.rv = s[i - 1].rv
    BY <1>4, <1>10 DEF IsSync, d
  <2>2. Seen(log, reflector.last, key, d.obj)
    BY <1>6 DEF Fits
  <2>3. Seen(log, reflector.last, key, s[i - 1])
    <3>1. CASE i - 1 = 0
      BY <1>3, <1>5, <1>7, <3>1
    <3>2. CASE i - 1 \in 1 .. Len(deltas)
      <4>1. s[i - 1] = deltas[i - 1].obj
        BY <1>3, <1>7, <3>2 DEF After
      <4>2. Fits(log, reflector.last, items, key, i - 1, deltas[i - 1])
        BY <1>1, <3>2
      <4> QED BY <4>1, <4>2 DEF Fits
    <3> QED BY <1>2, <3>1, <3>2
  <2> QED BY <1>8, <2>1, <2>2, <2>3, SameVersion
<1> QED BY <1>7, <1>9, <1>10

\* Two trails of which the second begins where the first ends are one.
LEMMA TrailConcat ==
  ASSUME NEW S, NEW t, NEW q, NEW o, NEW r, NEW p, Trail(S, t, q, o), Trail(S, o, r, p)
  PROVE  Trail(S, t, q \o r, p)
<1> DEFINE N == NotificationsOver(S)
           c == q \o r
<1>1. t \in S /\ q \in Seq(N) /\ r \in Seq(N) /\ o = ToldBy(t, q, Len(q)) /\ p = ToldBy(o, r, Len(r))
  BY DEF Trail
<1>2. /\ \A i \in 1 .. Len(q) : Follows(ToldBy(t, q, i - 1), q[i])
      /\ \A i \in 1 .. Len(r) : Follows(ToldBy(o, r, i - 1), r[i])
  BY DEF Trail
<1> HIDE DEF N
<1>3. /\ c \in Seq(N) /\ Len(c) = Len(q) + Len(r) /\ Len(q) \in Nat /\ Len(r) \in Nat
      /\ \A i \in 1 .. Len(q) + Len(r) : c[i] = IF i <= Len(q) THEN q[i] ELSE r[i - Len(q)]
  BY <1>1, ConcatProperties, LenProperties
<1> HIDE DEF c
<1>4. \A i \in 0 .. Len(q) : ToldBy(t, c, i) = ToldBy(t, q, i)
  <2> SUFFICES ASSUME NEW i \in 0 .. Len(q) PROVE ToldBy(t, c, i) = ToldBy(t, q, i)
    OBVIOUS
  <2>1. i # 0 => c[i] = q[i]
    BY <1>3
  <2> QED BY <2>1 DEF ToldBy
<1>5. \A i \in 0 .. Len(r) : ToldBy(t, c, Len(q) + i) = ToldBy(o, r, i)
  <2> SUFFICES ASSUME NEW i \in 0 .. Len(r) PROVE ToldBy(t, c, Len(q) + i) = ToldBy(o, r, i)
    OBVIOUS
  <2>1. CASE i = 0
    <3>1. ToldBy(t, c, Len(q) + i) = ToldBy(t, q, Len(q))
      BY <1>3, <1>4, <2>1
    <3> QED BY <1>1, <2>1, <3>1 DEF ToldBy
  <2>2. CASE i # 0
    <3>1. Len(q) + i \in 1 .. Len(q) + Len(r) /\ ~(Len(q) + i <= Len(q)) /\ Len(q) + i - Len(q) = i
      BY <1>3, <2>2
    <3>2. c[Len(q) + i] = r[i] /\ Len(q) + i # 0
      BY <1>3, <3>1
    <3> QED BY <2>2, <3>2 DEF ToldBy
  <2> QED BY <2>1, <2>2
<1>6. ASSUME NEW i \in 1 .. Len(c)
      PROVE  Follows(ToldBy(t, c, i - 1), c[i])
  <2>1. CASE i <= Len(q)
    <3>1. i \in 1 .. Len(q) /\ i - 1 \in 0 .. Len(q) /\ c[i] = q[i]
      BY <1>3, <2>1
    <3> QED BY <1>2, <1>4, <3>1
  <2>2. CASE ~(i <= Len(q))
    <3> DEFINE j == i - Len(q)
    <3>1. j \in 1 .. Len(r) /\ j - 1 \in 0 .. Len(r) /\ i - 1 = Len(q) + (j - 1) /\ c[i] = r[j]
      BY <1>3, <2>2
    <3> HIDE DEF j
    <3>2. ToldBy(t, c, i - 1) = ToldBy(o, r, j - 1)
      BY <1>5, <3>1
    <3> QED BY <1>2, <3>1, <3>2
  <2> QED BY <2>1, <2>2
<1>7. p = ToldBy(t, c, Len(c))
  <2>1. Len(r) \in 0 .. Len(r)
    BY <1>3
  <2> QED BY <1>1, <1>3, <1>5, <2>1
<1> QED BY <1>1, <1>3, <1>6, <1>7 DEF Trail, N, c

\* Delivering the first notification of a trail leaves a trail; a sync tells
\* nothing new.
LEMMA TrailTail ==
  ASSUME NEW S, NEW t, NEW q, NEW o, Trail(S, t, q, o), q # << >>
  PROVE  Trail(S, Head(q).new, Tail(q), o) /\ (Head(q).sync => Head(q).new = t)
<1> DEFINE N == NotificationsOver(S)
           r == Tail(q)
<1>1. t \in S /\ q \in Seq(N) /\ o = ToldBy(t, q, Len(q))
  BY DEF Trail
<1>2. \A i \in 1 .. Len(q) : Follows(ToldBy(t, q, i - 1), q[i])
  BY DEF Trail
<1> HIDE DEF N
<1>3. /\ Head(q) \in N /\ r \in Seq(N) /\ Len(r) = Len(q) - 1 /\ Len(q) \in Nat /\ Len(q) >= 1
      /\ \A i \in 1 .. Len(r) : r[i] = q[i + 1]
  BY <1>1, HeadTailProperties, EmptySeq
<1>4. Head(q) = q[1] /\ Head(q).new \in S
  BY <1>1, <1>3 DEF N, NotificationsOver
<1> HIDE DEF r
<1>5. \A i \in 0 .. Len(r) : ToldBy(Head(q).new, r, i) = ToldBy(t, q, i + 1)
  <2> SUFFICES ASSUME NEW i \in 0 .. Len(r) PROVE ToldBy(Head(q).new, r, i) = ToldBy(t, q, i + 1)
    OBVIOUS
  <2>1. i + 1 # 0 /\ (i # 0 => i \in 1 .. Len(r))
    BY <1>3
  <2>2. CASE i = 0
    BY <1>4, <2>1, <2>2 DEF ToldBy
  <2>3. CASE i # 0
    BY <1>3, <2>1, <2>3 DEF ToldBy
  <2> QED BY <2>2, <2>3
<1>6. ASSUME NEW i \in 1 .. Len(r)
      PROVE  Follows(ToldBy(Head(q).new, r, i - 1), r[i])
  <2>1. i - 1 \in 0 .. Len(r) /\ i + 1 \in 1 .. Len(q) /\ (i - 1) + 1 = i /\ (i + 1) - 1 = i
    BY <1>3
  <2>2. ToldBy(Head(q).new, r, i - 1) = ToldBy(t, q, i)
    BY <1>5, <2>1
  <2>3. Follows(ToldBy(t, q, i), q[i + 1])
    BY <1>2, <2>1
  <2> QED BY <1>3, <2>2, <2>3
<1>7. o = ToldBy(Head(q).new, r, Len(r))
  <2>1. Len(r) \in 0 .. Len(r) /\ Len(r) + 1 = Len(q)
    BY <1>3
  <2> QED BY <1>1, <1>5, <2>1
<1>8. Head(q).sync => Head(q).new = t
  <2>1. 1 \in 1 .. Len(q) /\ 1 - 1 = 0
    BY <1>3
  <2>2. Follows(ToldBy(t, q, 0), q[1])
    BY <1>2, <2>1
  <2> QED BY <1>4, <2>2 DEF Follows, ToldBy
<1> QED BY <1>3, <1>4, <1>6, <1>7, <1>8 DEF Trail, N, r

\* What a notification carries.
LEMMA NotificationOf ==
  ASSUME NEW old, NEW d
  PROVE  /\ Notification(old, d).old = IF d.type = "Deleted" THEN d.obj ELSE old
         /\ Notification(old, d).new = After(d)
         /\ Notification(old, d).sync <=> IsSync(old, d)
         /\ Notification(old, d).sync \in BOOLEAN
<1>1. /\ Notification(old, d).old = IF d.type = "Deleted" THEN d.obj ELSE old
      /\ Notification(old, d).new = After(d)
      /\ Notification(old, d).sync = IsSync(old, d)
  BY DEF Notification
<1>2. IsSync(old, d) \in BOOLEAN
  BY DEF IsSync
<1> QED BY <1>1, <1>2

\* The deltas of a pop are a trail from what the indexer held to what it holds
\* then.
LEMMA DeltasAreATrail ==
  ASSUME IInv, fifo.queue # << >>
  PROVE  LET key == Head(fifo.queue)
             deltas == fifo.deltas[key]
             old(i) == IF i = 1 THEN items[key] ELSE After(deltas[i - 1])
         IN  Trail(Logged, items[key], [i \in DOMAIN deltas |-> Notification(old(i), deltas[i])],
                   After(Last(deltas)))
<1> DEFINE key == Head(fifo.queue)
           deltas == fifo.deltas[key]
           n == Len(deltas)
           s == States(key)
           old(i) == IF i = 1 THEN items[key] ELSE After(deltas[i - 1])
           r == [i \in DOMAIN deltas |-> Notification(old(i), deltas[i])]
<1>1. /\ key \in Keys /\ n \in Nat /\ n > 0 /\ DOMAIN deltas = 1 .. n /\ Last(deltas) = deltas[n]
      /\ \A i \in 1 .. n : deltas[i] \in DeltaTyped /\ Fits(log, reflector.last, items, key, i, deltas[i])
  BY Popped
<1>2. /\ s[0] = items[key]
      /\ \A i \in 1 .. n : s[i] = After(deltas[i]) /\ old(i) = s[i - 1]
  <2>1. \A i \in 0 .. n : s[i] = IF i = 0 THEN items[key] ELSE After(deltas[i])
    BY DEF States
  <2>2. 0 \in 0 .. n /\ \A i \in 1 .. n : i \in 0 .. n /\ i - 1 \in 0 .. n /\ i # 0 /\ (i - 1 = 0 <=> i = 1)
    BY <1>1
  <2> HIDE DEF s, deltas, n, key
  <2> QED BY <2>1, <2>2
<1>3. \A i \in 1 .. n : IsSync(s[i - 1], deltas[i]) => s[i] = s[i - 1]
  BY SyncChangesNothing
<1>4. NoTwoDeletions(deltas)
  BY <1>1 DEF IInv, Queued
<1>5. /\ items[key] \in Objects(Keys, Nat) \cup {Absent}
      /\ items[key] # Absent => Seen(log, reflector.last, key, items[key])
  BY <1>1 DEF IInv, Typed, CacheInv
<1>6. \A o \in Objects(Keys, Nat) : o # Absent
  BY AbsentIsNoObject DEF IInv, Typed, Keys
<1> HIDE DEF s, n
<1>7. r \in [1 .. n -> {Notification(s[i - 1], deltas[i]) : i \in 1 .. n}]
  <2>1. \A i \in 1 .. n : Notification(old(i), deltas[i]) = Notification(s[i - 1], deltas[i])
    BY <1>2
  <2> HIDE DEF deltas, key, old
  <2> QED BY <1>1, <2>1
<1>8. \A i \in 1 .. n : r[i] = Notification(s[i - 1], deltas[i])
  BY <1>1, <1>2
<1> HIDE DEF r, deltas, key, old
<1>9. \A i \in 1 .. n : /\ deltas[i].obj \in Logged /\ deltas[i].obj # Absent
                        /\ s[i] \in Logged
  <2> SUFFICES ASSUME NEW i \in 1 .. n
               PROVE  deltas[i].obj \in Logged /\ deltas[i].obj # Absent /\ s[i] \in Logged
    OBVIOUS
  <2>1. deltas[i].obj \in Objects(Keys, Nat) /\ deltas[i].obj.rv \in 1 .. Len(log)
    BY <1>1 DEF DeltaTyped, Fits, Seen, Genuine
  <2>2. deltas[i].obj \in Objects(Keys, 1 .. Len(log))
    BY <2>1 DEF Objects
  <2>3. s[i] \in {deltas[i].obj, Absent}
    BY <1>2 DEF After
  <2> QED BY <1>6, <2>1, <2>2, <2>3 DEF Logged
<1>10. s[0] \in Logged
  <2>1. items[key] # Absent => items[key].rv \in 1 .. Len(log)
    BY <1>5 DEF Seen, Genuine
  <2>2. items[key] # Absent => items[key] \in Objects(Keys, 1 .. Len(log))
    BY <1>5, <2>1 DEF Objects
  <2> QED BY <1>2, <2>2 DEF Logged
<1>11. \A i \in 1 .. n : s[i - 1] \in Logged
  <2>1. \A i \in 1 .. n : i - 1 = 0 \/ i - 1 \in 1 .. n
    BY <1>1
  <2> QED BY <1>9, <1>10, <2>1
<1>12. \A i \in 1 .. n : Notification(s[i - 1], deltas[i]) \in NotificationsOver(Logged)
  <2> SUFFICES ASSUME NEW i \in 1 .. n
               PROVE  Notification(s[i - 1], deltas[i]) \in NotificationsOver(Logged)
    OBVIOUS
  <2>1. IsSync(s[i - 1], deltas[i]) \in BOOLEAN
    BY DEF IsSync
  <2>2. After(deltas[i]) \in Logged
    BY <1>2, <1>9
  <2>3. (IF deltas[i].type = "Deleted" THEN deltas[i].obj ELSE s[i - 1]) \in Logged
    BY <1>9, <1>11
  <2> QED BY <2>1, <2>2, <2>3 DEF Notification, NotificationsOver
<1>13. r \in Seq(NotificationsOver(Logged)) /\ Len(r) = n
  <2>1. r \in [1 .. n -> NotificationsOver(Logged)]
    BY <1>7, <1>8, <1>12
  <2>2. r \in Seq(NotificationsOver(Logged))
    BY <1>1, <2>1, SeqDef
  <2>3. DOMAIN r = 1 .. n /\ DOMAIN r = 1 .. Len(r) /\ Len(r) \in Nat
    BY <2>1, <2>2, LenProperties
  <2>4. Len(r) = n
    BY <1>1, <2>3
  <2> QED BY <2>2, <2>4
<1>14. \A i \in 0 .. n : ToldBy(items[key], r, i) = s[i]
  <2> SUFFICES ASSUME NEW i \in 0 .. n PROVE ToldBy(items[key], r, i) = s[i]
    OBVIOUS
  <2>1. CASE i = 0
    BY <1>2, <2>1 DEF ToldBy
  <2>2. CASE i # 0
    <3>1. i \in 1 .. n
      BY <1>1, <2>2
    <3>2. r[i].new = s[i]
      BY <1>2, <1>8, <3>1, NotificationOf
    <3> QED BY <2>2, <3>2 DEF ToldBy
  <2> QED BY <2>1, <2>2
<1>15. ASSUME NEW i \in 1 .. n
       PROVE  Follows(ToldBy(items[key], r, i - 1), r[i])
  <2>1. i - 1 \in 0 .. n /\ ToldBy(items[key], r, i - 1) = s[i - 1]
    BY <1>1, <1>14
  <2>2. r[i].sync => r[i].new = s[i - 1]
    BY <1>2, <1>3, <1>8, NotificationOf
  <2>3. CASE deltas[i].type = "Deleted"
    <3>1. r[i].new = Absent
      BY <1>8, <2>3, NotificationOf DEF After
    <3>2. CASE i = 1
      <4>1. items[key] # Absent
        BY <1>1, <2>3, <3>2 DEF Fits
      <4>2. s[i - 1] # Absent
        BY <1>2, <3>2, <4>1
      <4> QED BY <2>1, <2>2, <3>1, <4>2 DEF Follows
    <3>3. CASE i # 1
      <4>1. i \in 2 .. Len(deltas) /\ i - 1 \in 1 .. n
        BY <1>1, <3>3 DEF n
      <4>2. deltas[i - 1].type # "Deleted"
        BY <1>4, <2>3, <4>1 DEF NoTwoDeletions
      <4>3. s[i - 1] = deltas[i - 1].obj
        BY <1>2, <4>1, <4>2 DEF After
      <4>4. s[i - 1] # Absent
        BY <1>9, <4>1, <4>3
      <4> QED BY <2>1, <2>2, <3>1, <4>4 DEF Follows
    <3> QED BY <3>2, <3>3
  <2>4. CASE deltas[i].type # "Deleted"
    <3>1. r[i].new = deltas[i].obj /\ r[i].old = s[i - 1]
      BY <1>8, <2>4, NotificationOf DEF After
    <3>2. r[i].new # Absent
      BY <1>9, <3>1
    <3> QED BY <2>1, <2>2, <3>1, <3>2 DEF Follows
  <2> QED BY <2>3, <2>4
<1>16. After(Last(deltas)) = ToldBy(items[key], r, Len(r))
  <2>1. n \in 0 .. n /\ n \in 1 .. n
    BY <1>1
  <2> QED BY <1>1, <1>2, <1>13, <1>14, <2>1
<1>17. Trail(Logged, items[key], r, After(Last(deltas)))
  BY <1>2, <1>10, <1>13, <1>15, <1>16 DEF Trail
<1> QED BY <1>17 DEF r, deltas, key, old

\* The notifications of a pop continue the trail of its key.
LEMMA PopTrail ==
  ASSUME IInv, Pop
  PROVE  TrailInv'
<1> DEFINE key == Head(fifo.queue)
           deltas == fifo.deltas[key]
           old(i) == IF i = 1 THEN items[key] ELSE After(deltas[i - 1])
           r == [i \in DOMAIN deltas |-> Notification(old(i), deltas[i])]
           o == After(Last(deltas))
<1>1. /\ fifo.queue # << >>
      /\ items' = [items EXCEPT ![key] = o]
      /\ pending' = [pending EXCEPT ![key] = @ \o r]
      /\ notified' = notified /\ log' = log /\ kind' = kind
  BY DEF Pop, serverVars
<1>2. key \in Keys
  BY <1>1, Popped
<1>3. Trail(Logged, items[key], r, o)
  BY <1>1, DeltasAreATrail
<1> HIDE DEF key, deltas, old, r, o
<1>4. /\ DOMAIN pending = Keys /\ notified \in [Keys -> Logged] /\ DOMAIN items = Keys
      /\ \A k \in Keys : Trail(Logged, notified[k], pending[k], items[k])
  BY DEF IInv, CacheInv, TrailInv, Typed
<1>5. Keys' = Keys /\ Logged' = Logged
  <2>1. Keys' = Keys
    BY <1>1, SameKeys
  <2> QED BY <1>1, <2>1 DEF Logged
<1>6. Trail(Logged, notified[key], pending[key] \o r, o)
  BY <1>2, <1>3, <1>4, TrailConcat
<1>7. ASSUME NEW k \in Keys
      PROVE  Trail(Logged, notified'[k], pending'[k], items'[k])
  <2>1. CASE k = key
    <3>1. pending'[k] = pending[key] \o r /\ items'[k] = o /\ notified'[k] = notified[key]
      BY <1>1, <1>2, <1>4, <2>1
    <3> QED BY <1>6, <3>1
  <2>2. CASE k # key
    <3>1. pending'[k] = pending[k] /\ items'[k] = items[k] /\ notified'[k] = notified[k]
      BY <1>1, <1>2, <1>4, <2>2
    <3> QED BY <1>4, <3>1
  <2> QED BY <2>1, <2>2
<1>8. DOMAIN pending' = Keys /\ notified' \in [Keys -> Logged]
  BY <1>1, <1>4
<1> QED BY <1>5, <1>7, <1>8 DEF TrailInv

\* What a pop leaves: the popped key has the newest object and no deltas, and
\* the rest of the queue moves up by one.
LEMMA PopEffect ==
  ASSUME IInv, Pop
  PROVE  LET key == Head(fifo.queue)
             d == fifo.deltas[key][Len(fifo.deltas[key])]
         IN  /\ key \in Keys /\ d \in DeltaTyped
             /\ \E i \in 1 .. Len(fifo.deltas[key]) :
                  d = fifo.deltas[key][i] /\ Fits(log, reflector.last, items, key, i, d)
             /\ items' = [items EXCEPT ![key] = After(d)] /\ index' = Indexed(key, After(d))
             /\ fifo'.deltas = [fifo.deltas EXCEPT ![key] = << >>]
             /\ fifo'.queue \in Seq(Keys) /\ Len(fifo'.queue) = Len(fifo.queue) - 1
             /\ Len(fifo.queue) \in Nat /\ Len(fifo.queue) >= 1 /\ fifo.queue[1] = key
             /\ \A i \in 1 .. Len(fifo'.queue) : fifo'.queue[i] = fifo.queue[i + 1]
             /\ fifo'.initial = IF fifo.initial > 0 THEN fifo.initial - 1 ELSE 0
             /\ fifo'.populated = fifo.populated /\ fifo' \in FifoTyped
<1> DEFINE key == Head(fifo.queue)
           n == Len(fifo.deltas[key])
           d == fifo.deltas[key][n]
<1>1. /\ fifo.queue # << >>
      /\ items' = [items EXCEPT ![key] = After(Last(fifo.deltas[key]))]
      /\ index' = Indexed(key, After(Last(fifo.deltas[key])))
      /\ fifo' = [fifo EXCEPT !.queue = Tail(@), !.deltas[key] = << >>,
                              !.initial = IF @ > 0 THEN @ - 1 ELSE 0]
  BY DEF Pop
<1>2. /\ key \in Keys /\ n \in 1 .. n /\ Last(fifo.deltas[key]) = d /\ d \in DeltaTyped
      /\ Fits(log, reflector.last, items, key, n, d) /\ fifo.queue[1] = key
  <2>1. /\ key \in Keys /\ n \in Nat /\ n > 0 /\ Last(fifo.deltas[key]) = d /\ fifo.queue[1] = key
        /\ \A i \in 1 .. n : /\ fifo.deltas[key][i] \in DeltaTyped
                             /\ Fits(log, reflector.last, items, key, i, fifo.deltas[key][i])
    BY <1>1, Popped
  <2>2. n \in 1 .. n
    BY <2>1
  <2> HIDE DEF n, key
  <2> QED BY <2>1, <2>2
<1>3. /\ fifo.queue \in Seq(Keys) /\ fifo.deltas \in [Keys -> Seq(DeltaTyped)]
      /\ fifo.populated \in BOOLEAN /\ fifo.initial \in Nat
      /\ DOMAIN fifo = {"queue", "deltas", "populated", "initial"}
  BY DEF IInv, Typed, FifoTyped
<1> HIDE DEF d, n, key
<1>4. /\ Tail(fifo.queue) \in Seq(Keys) /\ Len(Tail(fifo.queue)) = Len(fifo.queue) - 1
      /\ \A i \in 1 .. Len(Tail(fifo.queue)) : Tail(fifo.queue)[i] = fifo.queue[i + 1]
      /\ Len(fifo.queue) \in Nat /\ Len(fifo.queue) >= 1
  BY <1>1, <1>3, HeadTailProperties, EmptySeq
<1>5. /\ fifo'.queue = Tail(fifo.queue) /\ fifo'.deltas = [fifo.deltas EXCEPT ![key] = << >>]
      /\ fifo'.initial = (IF fifo.initial > 0 THEN fifo.initial - 1 ELSE 0)
      /\ fifo'.populated = fifo.populated
  BY <1>1, <1>3
<1>6. fifo'.deltas \in [Keys -> Seq(DeltaTyped)]
  <2>1. << >> \in Seq(DeltaTyped)
    BY EmptySeq
  <2> QED BY <1>3, <1>5, <2>1
<1>7. fifo'.initial \in Nat
  BY <1>3, <1>5
<1>8. fifo' \in FifoTyped
  <2>1. fifo' = [queue |-> fifo'.queue, deltas |-> fifo'.deltas, populated |-> fifo'.populated,
                 initial |-> fifo'.initial]
    <3>1. fifo = [queue |-> fifo.queue, deltas |-> fifo.deltas, populated |-> fifo.populated,
                  initial |-> fifo.initial]
      BY DEF IInv, Typed, FifoTyped
    <3> QED BY <1>1, <3>1
  <2> QED BY <1>3, <1>4, <1>5, <1>6, <1>7, <2>1 DEF FifoTyped
<1>9. /\ key \in Keys /\ d \in DeltaTyped
      /\ \E i \in 1 .. n : d = fifo.deltas[key][i] /\ Fits(log, reflector.last, items, key, i, d)
  <2>1. d = fifo.deltas[key][n]
    BY DEF d
  <2> QED BY <1>2, <2>1
<1>10. items' = [items EXCEPT ![key] = After(d)] /\ index' = Indexed(key, After(d))
  BY <1>1, <1>2
<1>11. /\ fifo'.queue \in Seq(Keys) /\ Len(fifo'.queue) = Len(fifo.queue) - 1
       /\ \A i \in 1 .. Len(fifo'.queue) : fifo'.queue[i] = fifo.queue[i + 1]
  BY <1>4, <1>5
<1> QED BY <1>2, <1>4, <1>5, <1>8, <1>9, <1>10, <1>11 DEF key, d, n

\* HandleDeltas and the indexer keep every part of the invariant.
LEMMA PopKeeps == ASSUME IInv, Pop PROVE IInv'
<1> DEFINE key == Head(fifo.queue)
           d == fifo.deltas[key][Len(fifo.deltas[key])]
           q == fifo.queue
           n == Len(q)
<1>1. /\ key \in Keys /\ d \in DeltaTyped
      /\ items' = [items EXCEPT ![key] = After(d)] /\ index' = Indexed(key, After(d))
      /\ fifo'.deltas = [fifo.deltas EXCEPT ![key] = << >>]
      /\ Len(fifo'.queue) = n - 1 /\ n \in Nat /\ n >= 1 /\ q[1] = key
      /\ \A i \in 1 .. Len(fifo'.queue) : fifo'.queue[i] = q[i + 1]
      /\ fifo'.initial = IF fifo.initial > 0 THEN fifo.initial - 1 ELSE 0
      /\ fifo'.populated = fifo.populated /\ fifo' \in FifoTyped
  BY PopEffect
<1>2. PICK j \in 1 .. Len(fifo.deltas[key]) :
        d = fifo.deltas[key][j] /\ Fits(log, reflector.last, items, key, j, d)
  BY PopEffect
<1>3. UNCHANGED <<serverVars, reflector, first, budget>>
  BY DEF Pop
<1>4. log' = log /\ kind' = kind /\ selector' = selector /\ Keys' = Keys
  BY <1>3, SameKeys DEF serverVars
<1>5. q # << >> /\ fifo.populated
  BY DEF IInv, PopulatedInv, Pop
<1>6. /\ items \in [Keys -> Objects(Keys, Nat) \cup {Absent}]
      /\ fifo.deltas \in [Keys -> Seq(DeltaTyped)] /\ fifo.initial \in Nat /\ fifo.initial <= n
  BY DEF IInv, Typed, FifoTyped, Queued
<1>7. /\ \A a, b \in 1 .. n : q[a] = q[b] => a = b
      /\ \A k \in Keys : fifo.deltas[k] # << >> <=> \E i \in 1 .. n : q[i] = k
  BY DEF IInv, Queued
<1>8. d.obj \in Objects(Keys, Nat) /\ d.obj # Absent
  BY <1>1, AbsentIsNoObject DEF DeltaTyped, IInv, Typed, Keys
<1>9. TrailInv'
  BY PopTrail
<1> HIDE DEF key, d, n, q
<1>10. /\ items'[key] = After(d) /\ items' \in [Keys -> Objects(Keys, Nat) \cup {Absent}]
       /\ \A k \in Keys : k # key => items'[k] = items[k]
  BY <1>1, <1>6, <1>8 DEF After
<1>11. /\ fifo'.deltas[key] = << >> /\ \A k \in Keys : k # key => fifo'.deltas[k] = fifo.deltas[k]
  BY <1>1, <1>6
<1>12. Typed'
  <2>1. FifoTyped' = FifoTyped
    BY <1>4 DEF FifoTyped, DeltaTyped
  <2> QED BY <1>1, <1>3, <1>4, <1>10, <2>1 DEF IInv, Typed
<1>13. Queued(fifo)'
  <2>1. \A a, b \in 1 .. Len(fifo'.queue) : fifo'.queue[a] = fifo'.queue[b] => a = b
    <3> SUFFICES ASSUME NEW a \in 1 .. Len(fifo'.queue), NEW b \in 1 .. Len(fifo'.queue),
                        fifo'.queue[a] = fifo'.queue[b]
                 PROVE  a = b
      OBVIOUS
    <3>1. a + 1 \in 1 .. n /\ b + 1 \in 1 .. n
      BY <1>1
    <3>2. q[a + 1] = q[b + 1]
      BY <1>1
    <3>3. a + 1 = b + 1
      BY <1>7, <3>1, <3>2
    <3> QED BY <3>3
  <2>2. ASSUME NEW k \in Keys
        PROVE  fifo'.deltas[k] # << >> <=> \E i \in 1 .. Len(fifo'.queue) : fifo'.queue[i] = k
    <3>1. ASSUME NEW i \in 1 .. Len(fifo'.queue)
          PROVE  i + 1 \in 1 .. n /\ i + 1 # 1 /\ 1 \in 1 .. n /\ fifo'.queue[i] = q[i + 1]
      BY <1>1
    <3>2. ASSUME NEW i \in 1 .. n, i # 1
          PROVE  i - 1 \in 1 .. Len(fifo'.queue) /\ fifo'.queue[i - 1] = q[i]
      <4>1. i - 1 \in 1 .. Len(fifo'.queue) /\ (i - 1) + 1 = i
        BY <1>1, <3>2
      <4> QED BY <1>1, <4>1
    <3>3. CASE k = key
      <4>1. ASSUME NEW i \in 1 .. Len(fifo'.queue), fifo'.queue[i] = key
            PROVE  FALSE
        <5>1. i + 1 \in 1 .. n /\ 1 \in 1 .. n /\ i + 1 # 1 /\ q[i + 1] = q[1]
          BY <1>1, <3>1, <4>1
        <5>2. i + 1 = 1
          BY <1>7, <5>1
        <5> QED BY <5>1, <5>2
      <4> QED BY <1>11, <3>3, <4>1
    <3>4. CASE k # key
      <4>1. (\E i \in 1 .. n : q[i] = k) <=> \E i \in 1 .. Len(fifo'.queue) : fifo'.queue[i] = k
        <5>1. ASSUME NEW i \in 1 .. n, q[i] = k
              PROVE  \E h \in 1 .. Len(fifo'.queue) : fifo'.queue[h] = k
          <6>1. i # 1
            BY <1>1, <3>4, <5>1
          <6> QED BY <3>2, <5>1, <6>1
        <5>2. ASSUME NEW i \in 1 .. Len(fifo'.queue), fifo'.queue[i] = k
              PROVE  \E h \in 1 .. n : q[h] = k
          BY <3>1, <5>2
        <5> QED BY <5>1, <5>2
      <4> QED BY <1>7, <1>11, <3>4, <4>1
    <3> QED BY <3>3, <3>4
  <2>3. fifo'.initial <= Len(fifo'.queue)
    BY <1>1, <1>6
  <2>4. \A k \in Keys : NoTwoDeletions(fifo'.deltas[k])
    <3>1. \A k \in Keys : NoTwoDeletions(fifo.deltas[k])
      BY DEF IInv, Queued
    <3>2. NoTwoDeletions(<< >>)
      BY DEF NoTwoDeletions
    <3> QED BY <1>11, <3>1, <3>2
  <2> QED BY <1>4, <2>1, <2>2, <2>3, <2>4 DEF Queued
<1>14. DeltasFit'
  <2> SUFFICES ASSUME NEW k \in Keys, NEW i \in 1 .. Len(fifo'.deltas[k])
               PROVE  Fits(log, reflector.last, items', k, i, fifo'.deltas[k][i])
    BY <1>3, <1>4 DEF DeltasFit
  <2>1. k # key
    BY <1>11
  <2>2. Fits(log, reflector.last, items, k, i, fifo.deltas[k][i])
    BY <1>11, <2>1 DEF IInv, DeltasFit
  <2> QED BY <1>10, <1>11, <2>1, <2>2 DEF Fits
<1>15. CacheInv'
  <2>1. \A k \in Keys : items'[k] # Absent => Seen(log, reflector.last, k, items'[k])
    <3>1. After(d) # Absent => Seen(log, reflector.last, key, After(d))
      BY <1>2 DEF After, Fits
    <3> QED BY <1>10, <3>1 DEF IInv, CacheInv
  <2>2. index = [ns \in ScopeOf(kind) |-> {k \in Keys : items[k] # Absent /\ k[1] = ns}]
    BY DEF IInv, CacheInv
  <2>3. index' = [ns \in ScopeOf(kind) |-> IF ns = key[1] /\ After(d) # Absent THEN index[ns] \cup {key}
                                                                             ELSE index[ns] \ {key}]
    BY <1>1, <2>2 DEF Indexed
  <2>4. ASSUME NEW ns \in ScopeOf(kind)
        PROVE  (IF ns = key[1] /\ After(d) # Absent THEN index[ns] \cup {key} ELSE index[ns] \ {key})
                 = {k \in Keys : items'[k] # Absent /\ k[1] = ns}
    BY <1>1, <1>10, <2>2
  <2>5. index' = [ns \in ScopeOf(kind) |-> {k \in Keys : items'[k] # Absent /\ k[1] = ns}]
    BY <2>3, <2>4
  <2> QED BY <1>3, <1>4, <1>9, <2>1, <2>5 DEF CacheInv
<1>16. PopulatedInv'
  BY <1>1, <1>3, <1>5 DEF IInv, PopulatedInv
<1>17. FirstInv'
  <2> SUFFICES ASSUME NEW o \in first
               PROVE  /\ Seen(log, reflector.last, o.key, o) /\ Matches(selector, o)
                      /\ \/ Changed(log, o)
                         \/ items'[o.key] # Absent
                         \/ \E i \in 1 .. fifo'.initial : fifo'.queue[i] = o.key
                      /\ \A i \in 1 .. Len(fifo'.deltas[o.key]) :
                           fifo'.deltas[o.key][i].type = "Deleted" => Changed(log, o)
    BY <1>3, <1>4 DEF FirstInv
  <2>1. o.key \in Keys
    BY DEF IInv, Typed, Objects
  <2>2. /\ Seen(log, reflector.last, o.key, o) /\ Matches(selector, o)
        /\ \/ Changed(log, o)
           \/ items[o.key] # Absent
           \/ \E i \in 1 .. fifo.initial : q[i] = o.key
        /\ \A i \in 1 .. Len(fifo.deltas[o.key]) :
             fifo.deltas[o.key][i].type = "Deleted" => Changed(log, o)
    BY DEF IInv, FirstInv, q
  <2>3. CASE o.key = key
    <3>1. d.type = "Deleted" => Changed(log, o)
      BY <1>2, <2>2, <2>3
    <3>2. d.type # "Deleted" => items'[o.key] # Absent
      BY <1>8, <1>10, <2>3 DEF After
    <3>3. fifo'.deltas[o.key] = << >>
      BY <1>11, <2>3
    <3> QED BY <2>2, <3>1, <3>2, <3>3
  <2>4. CASE o.key # key
    <3>1. ASSUME NEW i \in 1 .. fifo.initial, q[i] = o.key
          PROVE  \E h \in 1 .. fifo'.initial : fifo'.queue[h] = o.key
      <4>1. i # 1
        BY <1>1, <2>4, <3>1
      <4>2. i - 1 \in 1 .. fifo'.initial /\ i - 1 \in 1 .. Len(fifo'.queue) /\ (i - 1) + 1 = i
        BY <1>1, <1>6, <4>1
      <4>3. fifo'.queue[i - 1] = q[i]
        BY <1>1, <4>2
      <4> QED BY <3>1, <4>2, <4>3
    <3>2. fifo'.deltas[o.key] = fifo.deltas[o.key] /\ items'[o.key] = items[o.key]
      BY <1>10, <1>11, <2>1, <2>4
    <3> QED BY <2>2, <3>1, <3>2
  <2> QED BY <2>3, <2>4
<1> QED BY <1>12, <1>13, <1>14, <1>15, <1>16, <1>17 DEF IInv

\* Delivering a notification changes nothing but what the handlers know.
LEMMA NotifyKeeps == ASSUME IInv, Notify PROVE IInv'
<1>1. PICK k \in Keys :
        /\ pending[k] # << >>
        /\ \/ notified' = [notified EXCEPT ![k] = Head(pending[k]).new]
           \/ Head(pending[k]).sync /\ UNCHANGED notified
        /\ pending' = [pending EXCEPT ![k] = Tail(@)]
  BY DEF Notify
<1>2. UNCHANGED <<serverVars, reflector, fifo, items, index, first, budget>>
  BY DEF Notify
<1>3. log' = log /\ kind' = kind /\ selector' = selector /\ Keys' = Keys /\ ScopeOf(kind') = ScopeOf(kind)
  BY <1>2, SameKeys DEF serverVars
<1>4. /\ DOMAIN pending = Keys /\ notified \in [Keys -> Logged]
      /\ \A j \in Keys : Trail(Logged, notified[j], pending[j], items[j])
  BY DEF IInv, CacheInv, TrailInv
<1>5. /\ Trail(Logged, Head(pending[k]).new, Tail(pending[k]), items[k])
      /\ Head(pending[k]).sync => Head(pending[k]).new = notified[k]
  BY <1>1, <1>4, TrailTail
<1>6. /\ notified'[k] = Head(pending[k]).new /\ notified' \in [Keys -> Logged]
      /\ \A j \in Keys : j # k => notified'[j] = notified[j]
  <2>1. Head(pending[k]).new \in Logged
    BY <1>5 DEF Trail
  <2> HIDE DEF Logged
  <2> QED BY <1>1, <1>4, <1>5, <2>1
<1>7. /\ pending'[k] = Tail(pending[k]) /\ DOMAIN pending' = Keys
      /\ \A j \in Keys : j # k => pending'[j] = pending[j]
  BY <1>1, <1>4
<1>8. \A j \in Keys : Trail(Logged, notified'[j], pending'[j], items'[j])
  BY <1>2, <1>4, <1>5, <1>6, <1>7
<1>9. Logged' = Logged
  BY <1>3 DEF Logged
<1>10. TrailInv'
  BY <1>3, <1>6, <1>7, <1>8, <1>9 DEF TrailInv
<1>11. CacheInv'
  BY <1>2, <1>3, <1>10 DEF IInv, CacheInv
<1>12. Typed'
  <2>1. FifoTyped' = FifoTyped
    BY <1>3 DEF FifoTyped, DeltaTyped
  <2> QED BY <1>2, <1>3, <2>1 DEF IInv, Typed
<1>13. Queued(fifo)' /\ DeltasFit' /\ PopulatedInv' /\ FirstInv'
  BY <1>2, <1>3 DEF IInv, Queued, DeltasFit, PopulatedInv, FirstInv
<1> QED BY <1>11, <1>12, <1>13 DEF IInv

-----------------------------------------------------------------------------
(* The invariant.                                                          *)

\* Nothing happens.
LEMMA StutterKeeps == ASSUME IInv, UNCHANGED vars PROVE IInv'
<1>1. UNCHANGED <<serverVars, reflector, fifo, cacheVars, first, budget>>
  BY DEF vars
<1>2. reflector.last \in {Never} \cup Nat /\ reflector.last <= reflector.last
  BY DEF IInv, Typed, Never
<1>3. Forward
  BY <1>1, <1>2, ForwardStep DEF IInv
<1>4. items' = items
  BY <1>1 DEF cacheVars
<1>5. Typed'
  BY <1>1, <1>4, TypedKept DEF IInv, Typed
<1>6. reflector'.stage = "watch" => fifo.populated /\ reflector'.last # Never
  BY <1>1 DEF IInv, PopulatedInv
<1> QED BY <1>1, <1>3, <1>5, <1>6, Undisturbed

\* Every step of the server, the reflector and the processor keeps IInv.
LEMMA NextKeeps == IInv /\ [Next]_vars => IInv'
<1> SUFFICES ASSUME IInv, [Next]_vars PROVE IInv'
  OBVIOUS
<1>1. CASE ListObjects
  BY <1>1, ListObjectsKeeps
<1>2. CASE ListExpired
  BY <1>2, ListExpiredKeeps
<1>3. CASE WatchEvent
  BY <1>3, WatchEventKeeps
<1>4. CASE Bookmark
  BY <1>4, BookmarkKeeps
<1>5. CASE WatchExpired
  BY <1>5, WatchExpiredKeeps
<1>6. CASE Resync
  BY <1>6, ResyncKeeps
<1>7. CASE Pop
  BY <1>7, PopKeeps
<1>8. CASE ServerChange
  BY <1>8, ServerChangeKeeps
<1>9. CASE Notify
  BY <1>9, NotifyKeeps
<1>10. CASE UNCHANGED vars
  BY <1>10, StutterKeeps
<1> QED BY <1>1, <1>2, <1>3, <1>4, <1>5, <1>6, <1>7, <1>8, <1>9, <1>10 DEF Next

\* What the reflector, the DeltaFIFO and the indexer maintain together.
THEOREM InformersInv == Spec => []IInv
<1> QED BY InitIInv, NextKeeps, PTL DEF Spec

\* The handlers trail the cache, however far behind they are: OnAdd is of an
\* object they do not know, OnUpdate goes from the version they know, OnDelete
\* is of an object they know, and what is pending ends with what the lister
\* shows.  A listener whose resync is not due misses nothing, as a Sync and a
\* Replaced of the version that is held change nothing.
THEOREM HandlersAlwaysTrailTheCache == Spec => []HandlersTrailTheCache
<1>1. ASSUME IInv, NEW k \in Keys
      PROVE  /\ \A i \in DOMAIN pending[k] :
                  IF pending[k][i].new = Absent THEN Told(k, i - 1) # Absent
                                                ELSE pending[k][i].old = Told(k, i - 1)
             /\ items[k] = Told(k, Len(pending[k]))
  <2>1. Trail(Logged, notified[k], pending[k], items[k])
    BY <1>1 DEF IInv, CacheInv, TrailInv
  <2>2. \A i : ToldBy(notified[k], pending[k], i) = Told(k, i)
    BY DEF ToldBy, Told
  <2>3. DOMAIN pending[k] = 1 .. Len(pending[k])
    BY <2>1, LenProperties DEF Trail
  <2> QED BY <2>1, <2>2, <2>3 DEF Trail, Follows
<1>2. IInv => HandlersTrailTheCache
  BY <1>1 DEF HandlersTrailTheCache
<1> QED BY <1>2, InformersInv, PTL

\* HasSynced is true only when the deltas that the first Replace counted have
\* been popped: each of its objects was in the indexer, and one that is no
\* longer there has changed on the server.
THEOREM SyncedAlwaysShowsFirstList == Spec => []SyncedShowsFirstList
<1>1. ASSUME IInv, HasSynced, NEW o \in first
      PROVE  items[o.key] # Absent \/ \E i \in o.rv + 1 .. Len(log) : log[i].key = o.key
  <2>1. fifo.initial = 0
    BY <1>1 DEF HasSynced
  <2>2. ~ \E i \in 1 .. fifo.initial : fifo.queue[i] = o.key
    BY <2>1
  <2> QED BY <1>1, <2>2 DEF IInv, FirstInv, Changed
<1>2. IInv => SyncedShowsFirstList
  BY <1>1 DEF SyncedShowsFirstList
<1> QED BY <1>2, InformersInv, PTL

\* A pop never replaces an object of the indexer by an older version, whatever
\* lists, watches and resyncs put into the DeltaFIFO.
THEOREM CacheNeverGoesBackwards == Spec => NeverBackwards
<1>1. ASSUME IInv, Next, NEW k \in Keys, items[k] # Absent, items'[k] # Absent
      PROVE  items'[k].rv >= items[k].rv
  <2>1. items[k].rv \in Nat
    BY <1>1 DEF IInv, Typed, Objects
  <2>2. CASE Pop
    <3> DEFINE key == Head(fifo.queue)
               d == fifo.deltas[key][Len(fifo.deltas[key])]
    <3>1. key \in Keys /\ items' = [items EXCEPT ![key] = After(d)]
      BY <1>1, <2>2, PopEffect
    <3>2. PICK i \in 1 .. Len(fifo.deltas[key]) : Fits(log, reflector.last, items, key, i, d)
      BY <1>1, <2>2, PopEffect
    <3> HIDE DEF key, d
    <3>3. items \in [Keys -> Objects(Keys, Nat) \cup {Absent}]
      BY <1>1 DEF IInv, Typed
    <3>4. CASE k = key
      <4>1. items'[k] = After(d)
        BY <3>1, <3>3, <3>4
      <4>2. d.type # "Deleted" /\ items'[k] = d.obj
        BY <1>1, <4>1 DEF After
      <4> QED BY <1>1, <3>2, <3>4, <4>2 DEF Fits
    <3>5. CASE k # key
      <4>1. items'[k] = items[k]
        BY <3>1, <3>3, <3>5
      <4> QED BY <2>1, <4>1
    <3> QED BY <3>4, <3>5
  <2>3. CASE ~Pop
    <3>1. items' = items
      BY <1>1, <2>3 DEF Next, ListObjects, ListExpired, WatchEvent, Bookmark, WatchExpired, Resync,
                        ServerChange, Notify, cacheVars
    <3> QED BY <2>1, <3>1
  <2> QED BY <2>2, <2>3
<1>2. IInv /\ [Next]_vars
        => [\A k \in Keys : items[k] # Absent /\ items'[k] # Absent => items'[k].rv >= items[k].rv]_vars
  BY <1>1
<1> QED BY <1>2, InformersInv, PTL DEF Spec, NeverBackwards

-----------------------------------------------------------------------------
(* The type invariant.                                                     *)

\* The first list is no longer than there are keys.
LEMMA QueueFits ==
  ASSUME IInv
  PROVE  Len(fifo.queue) <= Cardinality(Keys)
<1> DEFINE q == fifo.queue
           n == Len(q)
<1>1. q \in Seq(Keys) /\ n \in Nat
  BY DEF IInv, Typed, FifoTyped
<1>2. \A i, j \in 1 .. n : q[i] = q[j] => i = j
  BY DEF IInv, Queued
<1>3. IsFiniteSet(Keys)
  BY KeysFinite DEF IInv, Typed
<1> HIDE DEF q, n
<1>4. IsFiniteSet(1 .. n) /\ Cardinality(1 .. n) = n
  <2>1. n = n - 1 + 1
    BY <1>1
  <2> QED BY <1>1, FS_Interval
<1>5. q \in [1 .. n -> Keys]
  BY <1>1, LenProperties DEF n
<1>6. q \in Injection(1 .. n, Keys)
  BY <1>2, <1>5 DEF Injection, IsInjective
<1>7. Cardinality(1 .. n) <= Cardinality(Keys)
  BY <1>3, <1>6, FS_Injection DEF ExistsInjection
<1> QED BY <1>4, <1>7 DEF n, q

\* A key that is queued is queued at one place.
LEMMA QueuedOnce ==
  ASSUME IInv, NEW k \in Keys
  PROVE  Cardinality({i \in DOMAIN fifo.queue : fifo.queue[i] = k})
           = (IF fifo.deltas[k] = << >> THEN 0 ELSE 1)
<1> DEFINE P == {i \in DOMAIN fifo.queue : fifo.queue[i] = k}
<1>1. fifo.queue \in Seq(Keys) /\ DOMAIN fifo.queue = 1 .. Len(fifo.queue)
  <2>1. fifo.queue \in Seq(Keys)
    BY DEF IInv, Typed, FifoTyped
  <2> QED BY <2>1, LenProperties
<1>2. \A i, j \in P : i = j
  BY <1>1 DEF IInv, Queued
<1>3. fifo.deltas[k] # << >> <=> P # {}
  BY <1>1 DEF IInv, Queued
<1> HIDE DEF P
<1>4. CASE P = {}
  BY <1>3, <1>4, FS_EmptySet DEF P
<1>5. CASE P # {}
  <2>1. PICK i \in P : P = {i}
    BY <1>2, <1>5
  <2>2. Cardinality(P) = 1
    BY <2>1, FS_Singleton
  <2> QED BY <1>3, <1>5, <2>2 DEF P
<1> QED BY <1>4, <1>5

\* The log, the DeltaFIFO, the indexer and the reflector have their types; a
\* key waits in the queue once, and exactly when it has deltas, so that Pop
\* finds deltas for every key it takes.
THEOREM InformersTypeOK == Spec => []TypeOK
<1> SUFFICES ASSUME IInv PROVE TypeOK
  BY InformersInv, PTL
<1>1. /\ WellFormed(log, Keys) /\ Len(log) \in Nat /\ Len(log) <= MaxVersions /\ MaxVersions \in Nat
      /\ kind \in Kinds /\ selector \in Selectors /\ log \in Seq(Entries(Keys))
  BY BoundsAssumption DEF IInv, Typed, WellFormed, BoundsAssumption
<1>2. \A o \in Objects(Keys, Nat) : o.rv \in 1 .. Len(log) => o \in Objects(Keys, Versions)
  <2> SUFFICES ASSUME NEW o \in Objects(Keys, Nat), o.rv \in 1 .. Len(log)
               PROVE  o \in Objects(Keys, Versions)
    OBVIOUS
  <2>1. o.rv \in Versions
    BY <1>1 DEF Versions
  <2> QED BY <2>1 DEF Objects
<1>3. log \in Seq([key : Keys, obj : Objects(Keys, Versions) \cup {Absent}])
  <2>1. ASSUME NEW i \in 1 .. Len(log)
        PROVE  log[i] \in [key : Keys, obj : Objects(Keys, Versions) \cup {Absent}]
    <3>1. log[i] \in [key : Keys, obj : Objects(Keys, Nat) \cup {Absent}]
      BY <1>1, ElementOfSeq DEF Entries
    <3>2. log[i].obj # Absent => log[i].obj.rv = i
      BY <1>1 DEF WellFormed
    <3>3. log[i].obj # Absent => log[i].obj \in Objects(Keys, Versions)
      BY <1>2, <3>1, <3>2
    <3> QED BY <3>1, <3>3
  <2> QED BY <1>1, <2>1, SeqOver
<1>4. reflector \in [stage : {"list", "watch"}, last : {Never} \cup 0 .. MaxVersions,
                     unavailable : BOOLEAN]
  <2>1. reflector \in [stage : {"list", "watch"}, last : {Never} \cup Nat, unavailable : BOOLEAN]
    BY DEF IInv, Typed
  <2>2. reflector.last \in {Never} \cup 0 .. MaxVersions
    BY <1>1, <2>1 DEF IInv, Typed
  <2> QED BY <2>1, <2>2
<1>5. fifo.queue \in Seq(Keys) /\ fifo.initial \in Nat /\ \A k \in Keys : fifo.deltas[k] \in Seq(DeltaTyped)
  BY DEF IInv, Typed, FifoTyped
<1>6. ASSUME NEW k \in Keys
      PROVE  fifo.deltas[k] \in Seq(Deltas)
  <2>1. ASSUME NEW i \in 1 .. Len(fifo.deltas[k])
        PROVE  fifo.deltas[k][i] \in Deltas
    <3> DEFINE d == fifo.deltas[k][i]
    <3>1. d \in DeltaTyped
      BY <1>5, ElementOfSeq
    <3>2. Fits(log, reflector.last, items, k, i, d)
      BY DEF IInv, DeltasFit
    <3> HIDE DEF d
    <3>3. d.obj.rv \in 1 .. Len(log)
      BY <3>2 DEF Fits, Seen, Genuine
    <3>4. d.obj \in Objects(Keys, Versions)
      BY <1>2, <3>1, <3>3 DEF DeltaTyped
    <3>5. d \in Deltas
      BY <3>1, <3>4 DEF DeltaTyped, DeltaTypes, Deltas
    <3> QED BY <3>5 DEF d
  <2> QED BY <1>5, <2>1, SeqOver
<1>7. \A k \in Keys : Cardinality({i \in DOMAIN fifo.queue : fifo.queue[i] = k})
                        = (IF fifo.deltas[k] = << >> THEN 0 ELSE 1)
  BY QueuedOnce
<1>8. fifo.initial \in 0 .. Cardinality(Keys)
  <2>1. fifo.initial <= Len(fifo.queue) /\ Len(fifo.queue) \in Nat
    BY <1>5 DEF IInv, Queued
  <2>2. Cardinality(Keys) \in Nat
    BY <1>1, KeysFinite, FS_CardinalityType
  <2> QED BY <1>5, <2>1, <2>2, QueueFits
<1>9. items \in [Keys -> Objects(Keys, Versions) \cup {Absent}]
  <2>1. items \in [Keys -> Objects(Keys, Nat) \cup {Absent}]
    BY DEF IInv, Typed
  <2>2. \A k \in Keys : items[k] # Absent => items[k].rv \in 1 .. Len(log)
    BY DEF IInv, CacheInv, Seen, Genuine
  <2>3. \A k \in Keys : items[k] \in Objects(Keys, Versions) \cup {Absent}
    BY <1>2, <2>1, <2>2
  <2> QED BY <2>1, <2>3
<1>10. index \in [ScopeOf(kind) -> SUBSET Keys]
  BY DEF IInv, CacheInv
<1>11. Logged \subseteq Objects(Keys, Versions) \cup {Absent}
  <2>1. 1 .. Len(log) \subseteq Versions
    BY <1>1 DEF Versions
  <2>2. Objects(Keys, 1 .. Len(log)) \subseteq Objects(Keys, Versions)
    BY <2>1 DEF Objects
  <2> QED BY <2>2 DEF Logged
<1>12. ASSUME NEW k \in Keys
       PROVE  pending[k] \in Seq(Notifications) /\ notified[k] \in Objects(Keys, Versions) \cup {Absent}
  <2>1. notified[k] \in Logged /\ pending[k] \in Seq(NotificationsOver(Logged))
    BY DEF IInv, CacheInv, TrailInv, Trail
  <2>2. NotificationsOver(Logged) \subseteq Notifications
    BY <1>11 DEF NotificationsOver, Notifications
  <2> QED BY <1>11, <2>1, <2>2, SeqMonotonic
<1>13. notified \in [Keys -> Objects(Keys, Versions) \cup {Absent}]
  <2>1. notified \in [Keys -> Logged]
    BY DEF IInv, CacheInv, TrailInv
  <2> QED BY <1>11, <2>1
<1> QED BY <1>1, <1>3, <1>4, <1>5, <1>6, <1>7, <1>8, <1>9, <1>10, <1>12, <1>13 DEF TypeOK

-----------------------------------------------------------------------------
(* The listers.                                                            *)

\* The lister of each kind is the one text under its name; that of
\* GatewayClasses has no namespaces.
LEMMA ListerOf ==
  ASSUME kind \in Kinds, NEW query
  PROVE  /\ query.method = "List" => Lister(query) = OK(ListAll(query.selector))
         /\ query.method = "ListByNamespace" /\ kind # "GatewayClass"
              => Lister(query) = OK(ListAllByNamespace(query.ns, query.selector))
         /\ query.method = "Get"
              => Lister(query) = GetByKey(<<IF kind = "GatewayClass" THEN AllNamespaces ELSE query.ns,
                                            query.name>>)
<1>1. CASE kind = "GatewayClass"
  <2>1. Lister(query) = GatewayClassLister(query)
    BY <1>1 DEF Lister
  <2> QED BY <1>1, <2>1 DEF GatewayClassLister
<1>2. CASE kind # "GatewayClass"
  <2>1. Lister(query) = NamespacedLister(query)
    BY <1>2 DEF Kinds, Lister, BackendPolicyLister, GatewayLister, HTTPRouteLister, TCPRouteLister,
                TLSRouteLister, UDPRouteLister
  <2> QED BY <1>2, <2>1 DEF NamespacedLister
<1> QED BY <1>1, <1>2

\* The namespace index and the items show one set of objects: a namespace
\* list is the list filtered by namespace, and Get finds what List shows.
THEOREM ListersAlwaysAgree == Spec => []ListersAgree
<1> SUFFICES ASSUME IInv PROVE ListersAgree
  BY InformersInv, PTL
<1> DEFINE all == Lister([method |-> "List", selector |-> "everything"]).objects
<1>1. kind \in Kinds /\ Keys = KeysOf(kind)
  BY DEF IInv, Typed, Keys
<1>2. \A k \in Keys : items[k] # Absent => items[k].key = k
  BY DEF IInv, CacheInv, Seen
<1>3. all = {items[k] : k \in {k \in Keys : items[k] # Absent}}
  <2> DEFINE query == [method |-> "List", selector |-> "everything"]
  <2>1. query.method = "List" /\ query.selector = "everything"
    OBVIOUS
  <2> HIDE DEF query
  <2>2. Lister(query) = OK(ListAll("everything"))
    BY <1>1, <2>1, ListerOf
  <2>3. Lister(query).objects = ListAll("everything")
    BY <2>2 DEF OK, Answer
  <2>4. ListAll("everything") = Held(Keys)
    BY DEF ListAll, Matches
  <2> QED BY <2>3, <2>4 DEF Held, query
<1> HIDE DEF all
<1>4. ASSUME kind # "GatewayClass", NEW ns \in ScopeOf(kind), NEW sel \in Selectors
      PROVE  Lister([method |-> "ListByNamespace", ns |-> ns, selector |-> sel]).objects
               = {o \in all : o.key[1] = ns /\ Matches(sel, o)}
  <2> DEFINE query == [method |-> "ListByNamespace", ns |-> ns, selector |-> sel]
  <2>1. query.method = "ListByNamespace" /\ query.ns = ns /\ query.selector = sel
    OBVIOUS
  <2> HIDE DEF query
  <2>2. Lister(query) = OK(ListAllByNamespace(ns, sel))
    BY <1>1, <1>4, <2>1, ListerOf
  <2>3. Lister(query).objects = ListAllByNamespace(ns, sel)
    BY <2>2 DEF OK, Answer
  <2>4. ns # AllNamespaces
    BY <1>4, NamesAssumption DEF NamesAssumption, ScopeOf
  <2>5. index[ns] = {k \in Keys : items[k] # Absent /\ k[1] = ns}
    BY DEF IInv, CacheInv
  <2>6. ListAllByNamespace(ns, sel)
          = {o \in {items[k] : k \in index[ns]} : sel = "everything" \/ (o # Absent /\ o.label)}
    BY <2>4 DEF ListAllByNamespace
  <2>7. ListAllByNamespace(ns, sel) = {o \in all : o.key[1] = ns /\ Matches(sel, o)}
    BY <1>2, <1>3, <2>5, <2>6 DEF Matches
  <2> QED BY <2>3, <2>7 DEF query
<1>5. ASSUME NEW k \in Keys
      PROVE  Lister([method |-> "Get", ns |-> k[1], name |-> k[2]]).objects = {o \in all : o.key = k}
  <2> DEFINE query == [method |-> "Get", ns |-> k[1], name |-> k[2]]
  <2>1. query.method = "Get" /\ query.ns = k[1] /\ query.name = k[2]
    OBVIOUS
  <2> HIDE DEF query
  <2>2. k = <<k[1], k[2]>> /\ (kind = "GatewayClass" => k[1] = AllNamespaces)
    BY <1>1, KeyParts DEF ScopeOf
  <2>3. Lister(query) = GetByKey(k)
    BY <1>1, <2>1, <2>2, ListerOf
  <2>4. Lookup(items, k) = items[k]
    BY DEF IInv, Typed, Lookup
  <2>5. GetByKey(k).objects = IF items[k] = Absent THEN {} ELSE {items[k]}
    BY <2>4 DEF GetByKey, OK, Refuse, Answer
  <2>6. {o \in all : o.key = k} = IF items[k] = Absent THEN {} ELSE {items[k]}
    BY <1>2, <1>3
  <2> QED BY <2>3, <2>5, <2>6 DEF query
<1> QED BY <1>4, <1>5 DEF ListersAgree, all
=============================================================================
