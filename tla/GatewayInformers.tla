-------------------------- MODULE GatewayInformers --------------------------
(***************************************************************************)
(* A shared informer of the Gateway API: the reflector lists and watches   *)
(* through the typed client, the DeltaFIFO holds the changes until they    *)
(* are popped, the indexer keeps the objects and an index by namespace,    *)
(* and the listers read the indexer.                                       *)
(*                                                                         *)
(* A list may be served from the API server's watch cache: it returns any  *)
(* version at least as new as asked for.  A watch from a version delivers  *)
(* what the log holds after it, in order; with a selector, an object that  *)
(* starts or stops to match is added or deleted.                           *)
(***************************************************************************)
EXTENDS GatewayAPI

CONSTANTS MaxVersions,   \* changes on the server
          MaxExpiries,   \* watches that end
          MaxResyncs     \* periodic resyncs

BoundsAssumption == MaxVersions \in Nat /\ MaxExpiries \in Nat /\ MaxResyncs \in Nat
ASSUME BoundsAssumption

VARIABLES kind, selector,   \* the kind, and the filter of the list options
          log,              \* the server's changes
          reflector,        \* stage, last version seen, whether it expired
          fifo,             \* queue, deltas by key, keys of the first list to pop
          items, index,     \* the indexer
          pending,          \* notifications the listener has not delivered, by key
          notified,         \* what the event handlers were last told
          first, ghosts,    \* history: the first list; keys Replace missed
          budget

serverVars == <<kind, selector, log>>
cacheVars  == <<items, index, pending, notified>>
vars == <<serverVars, reflector, fifo, cacheVars, first, ghosts, budget>>

Keys   == KeysOf(kind)
Server == At(log, Len(log), Keys)
Never  == 0 - 1     \* no version seen yet

-----------------------------------------------------------------------------
(* The informers: ListFunc and WatchFunc of each kind call its client with *)
(* the list options as tweakListOptions leaves them.                       *)

ListCall(method) ==
  [method |-> method, name |-> NoName, sub |-> "", body |-> Absent, selector |-> "everything"]

Tweaked(method) == [ListCall(method) EXCEPT !.selector = selector]

BackendPolicyInformer(method) == BackendPolicies(AllNamespaces, Tweaked(method))
GatewayInformer(method)       == Gateways(AllNamespaces, Tweaked(method))
GatewayClassInformer(method)  == GatewayClasses(Tweaked(method))
(* Mutation: tweakListOptions is not applied by WatchFunc. *)
HTTPRouteInformerWatchUntweaked(method) ==
  HTTPRoutes(AllNamespaces, IF method = "Watch" THEN ListCall(method) ELSE Tweaked(method))

HTTPRouteInformer(method)     == HTTPRoutes(AllNamespaces, Tweaked(method))
TCPRouteInformer(method)      == TCPRoutes(AllNamespaces, Tweaked(method))
TLSRouteInformer(method)      == TLSRoutes(AllNamespaces, Tweaked(method))
UDPRouteInformer(method)      == UDPRoutes(AllNamespaces, Tweaked(method))

ListWatch(method) ==
  CASE kind = "BackendPolicy" -> BackendPolicyInformer(method)
    [] kind = "Gateway"       -> GatewayInformer(method)
    [] kind = "GatewayClass"  -> GatewayClassInformer(method)
    [] kind = "HTTPRoute"     -> HTTPRouteInformer(method)
    [] kind = "TCPRoute"      -> TCPRouteInformer(method)
    [] kind = "TLSRoute"      -> TLSRouteInformer(method)
    [] kind = "UDPRoute"      -> UDPRouteInformer(method)

-----------------------------------------------------------------------------
(* The listers, which read the indexer.                                    *)

Held(keys) == {items[k] : k \in {k \in keys : items[k] # Absent}}

ListAll(sel) == {o \in Held(Keys) : Matches(sel, o)}

(* The namespace index answers for one namespace, the items for all.       *)
ListAllByNamespace(ns, sel) ==
  IF ns = AllNamespaces THEN ListAll(sel)
  ELSE {o \in {items[k] : k \in index[ns]} : sel = "everything" \/ (o # Absent /\ o.label)}

GetByKey(key) == IF Lookup(items, key) = Absent THEN Refuse("NotFound") ELSE OK({items[key]})

(* A query is List(selector), X(namespace).List(selector) or               *)
(* X(namespace).Get(name).                                                 *)
NamespacedLister(query) ==
  CASE query.method = "List"            -> OK(ListAll(query.selector))
    [] query.method = "ListByNamespace" -> OK(ListAllByNamespace(query.ns, query.selector))
    [] query.method = "Get"             -> GetByKey(<<query.ns, query.name>>)

BackendPolicyLister(query) == NamespacedLister(query)
GatewayLister(query)       == NamespacedLister(query)
HTTPRouteLister(query)     == NamespacedLister(query)
TCPRouteLister(query)      == NamespacedLister(query)
TLSRouteLister(query)      == NamespacedLister(query)
UDPRouteLister(query)      == NamespacedLister(query)

(* GatewayClasses have no namespace lister.                                *)
GatewayClassLister(query) ==
  CASE query.method = "List" -> OK(ListAll(query.selector))
    [] query.method = "Get"  -> GetByKey(<<AllNamespaces, query.name>>)

Lister(query) ==
  CASE kind = "BackendPolicy" -> BackendPolicyLister(query)
    [] kind = "Gateway"       -> GatewayLister(query)
    [] kind = "GatewayClass"  -> GatewayClassLister(query)
    [] kind = "HTTPRoute"     -> HTTPRouteLister(query)
    [] kind = "TCPRoute"      -> TCPRouteLister(query)
    [] kind = "TLSRoute"      -> TLSRouteLister(query)
    [] kind = "UDPRoute"      -> UDPRouteLister(query)

-----------------------------------------------------------------------------
(* The DeltaFIFO.                                                          *)

Delta(type, key, obj) == [type |-> type, key |-> key, obj |-> obj]

(* Two deletions in a row are one.                                         *)
Joined(deltas, d) ==
  IF deltas # << >> /\ Last(deltas).type = "Deleted" /\ d.type = "Deleted"
  THEN deltas ELSE Append(deltas, d)

(* Mutation: the key is queued again with each delta. *)
QueueEachAction(f, ds) ==
  [f EXCEPT !.populated = TRUE,
            !.queue  = @ \o SetToSeq({d.key : d \in ds}),
            !.deltas = [k \in Keys |-> IF \E d \in ds : d.key = k
                                       THEN Joined(@[k], CHOOSE d \in ds : d.key = k)
                                       ELSE @[k]]]

(* queueActionLocked for each of the deltas, at most one for a key.        *)
QueueActions(f, ds) ==
  [f EXCEPT !.populated = TRUE,
            !.queue  = @ \o SetToSeq({k \in {d.key : d \in ds} : f.deltas[k] = << >>}),
            !.deltas = [k \in Keys |-> IF \E d \in ds : d.key = k
                                       THEN Joined(@[k], CHOOSE d \in ds : d.key = k)
                                       ELSE @[k]]]

(* The deltas of a Replace: what is listed, and what the indexer holds and *)
(* the list lacks.                                                         *)
Replacements(list) ==
  LET listed == {o.key : o \in list}
  IN  {Delta("Replaced", o.key, o) : o \in list}
      \cup {Delta("Deleted", k, items[k]) : k \in {k \in Keys : items[k] # Absent /\ k \notin listed}}

(* Mutation: the first list is not counted. *)
ReplaceUncounted(f, list) == QueueActions(f, Replacements(list))

Replace(f, list) ==
  LET deltas == Replacements(list)
      filled == QueueActions(f, deltas)
  IN  [filled EXCEPT !.initial = IF f.populated THEN @ ELSE Cardinality(deltas)]

(* The keys whose objects wait in the FIFO, are not in the indexer yet and *)
(* are gone from the list: Replace queues no deletion for them.            *)
MissedByReplace(list) ==
  {k \in Keys : /\ fifo.deltas[k] # << >> /\ Last(fifo.deltas[k]).type # "Deleted"
                /\ items[k] = Absent
                /\ \A o \in list : o.key # k}

HasSynced == fifo.populated /\ fifo.initial = 0

-----------------------------------------------------------------------------
(* The reflector.                                                          *)

(* Mutation: every list asks for version "0". *)
RelistVersionsFromZero ==
  IF reflector.unavailable THEN {Len(log)} ELSE 0 .. Len(log)

(* relistResourceVersion, and the versions the server may answer with.     *)
RelistVersions ==
  IF reflector.unavailable THEN {Len(log)}
  ELSE (IF reflector.last = Never THEN 0 ELSE reflector.last) .. Len(log)

ListObjects ==
  /\ reflector.stage = "list"
  /\ \E v \in RelistVersions :
       /\ reflector' = [stage |-> "watch", last |-> v, unavailable |-> FALSE]
       /\ \E list \in {ServeCollection(log, At(log, v, Keys), ListWatch("List")).answer.objects} :
            /\ fifo' = Replace(fifo, list)
            /\ first' = IF fifo.populated THEN first ELSE list
            /\ ghosts' = MissedByReplace(list)
  /\ UNCHANGED <<serverVars, cacheVars, budget>>

(* The version asked for is gone or not there yet: the list is repeated    *)
(* as a quorum read.                                                       *)
ListExpired ==
  /\ reflector.stage = "list"
  /\ reflector.last # Never
  /\ ~reflector.unavailable
  /\ reflector' = [reflector EXCEPT !.unavailable = TRUE]
  /\ UNCHANGED <<serverVars, fifo, cacheVars, first, ghosts, budget>>

Shown(v, key, req) ==
  LET obj == At(log, v, Keys)[key]
  IN  IF obj # Absent /\ InNamespace(req.ns, key) /\ Matches(req.selector, obj) THEN obj ELSE Absent

(* What a watch makes of the change that led to version i.                 *)
Event(i, req) ==
  LET key == log[i].key
      old == Shown(i - 1, key, req)
      new == Shown(i, key, req)
  IN  Delta(CASE old = Absent /\ new # Absent -> "Added"
              [] old # Absent /\ new # Absent -> "Updated"
              [] old # Absent /\ new = Absent -> "Deleted"
              [] old = Absent /\ new = Absent -> "none",
            key, IF new = Absent THEN old ELSE new)

Undelivered(req) == {i \in reflector.last + 1 .. Len(log) : Event(i, req).type # "none"}

(* Delete of the DeltaFIFO skips what neither it nor the indexer holds.    *)
Known(f, d) == d.type # "Deleted" \/ items[d.key] # Absent \/ f.deltas[d.key] # << >>

WatchEvent ==
  /\ reflector.stage = "watch"
  /\ reflector.last # Len(log)
  /\ \E req \in {ListWatch("Watch")} :
     \E later \in {Undelivered(req)} :
       /\ later # {}
       /\ reflector' = [reflector EXCEPT !.last = Min(later)]
       /\ \E d \in {Event(Min(later), req)} :
            /\ ghosts' = ghosts \ {d.key}
            /\ fifo' = IF Known(fifo, d) THEN QueueActions(fifo, {d}) ELSE fifo
  /\ UNCHANGED <<serverVars, cacheVars, first, budget>>

(* A bookmark: everything up to here has been delivered.                   *)
Bookmark ==
  /\ reflector.stage = "watch"
  /\ reflector.last # Len(log)
  /\ Undelivered(ListWatch("Watch")) = {}
  /\ reflector' = [reflector EXCEPT !.last = Len(log)]
  /\ UNCHANGED <<serverVars, fifo, cacheVars, first, ghosts, budget>>

(* The watch ends with an error; ListAndWatch starts over.                 *)
WatchExpired ==
  /\ reflector.stage = "watch"
  /\ budget.expiries > 0
  /\ budget' = [budget EXCEPT !.expiries = @ - 1]
  /\ reflector' = [reflector EXCEPT !.stage = "list"]
  /\ UNCHANGED <<serverVars, fifo, cacheVars, first, ghosts>>

(* DeltaFIFO.Resync: a Sync delta for each object with none queued.        *)
Resync ==
  /\ reflector.stage = "watch"
  /\ budget.resyncs > 0
  /\ budget' = [budget EXCEPT !.resyncs = @ - 1]
  /\ fifo' = QueueActions(fifo,
               {Delta("Sync", k, items[k]) :
                  k \in {k \in Keys : items[k] # Absent /\ fifo.deltas[k] = << >>}})
  /\ UNCHANGED <<serverVars, reflector, cacheVars, first, ghosts>>

-----------------------------------------------------------------------------
(* The indexer and the handlers.                                           *)

(* Mutation: deleteFromIndices is not called. *)
UpdateIndicesOnly(key, obj) ==
  [ns \in DOMAIN index |-> IF ns = key[1] /\ obj # Absent THEN index[ns] \cup {key} ELSE index[ns]]

(* updateIndices and deleteFromIndices for the namespace of a key.         *)
Indexed(key, obj) ==
  [ns \in DOMAIN index |-> IF ns = key[1] /\ obj # Absent THEN index[ns] \cup {key}
                                                         ELSE index[ns] \ {key}]

(* Mutation: a Replaced delta of a known object is always a resync. *)
ReplacedIsSync(old, d) == old # Absent /\ d.type \in {"Sync", "Replaced"}

(* A Sync, or a Replaced of the same version, is distributed to the        *)
(* listeners whose resync is due only.                                     *)
IsSync(old, d) ==
  /\ old # Absent
  /\ d.type = "Sync" \/ (d.type = "Replaced" /\ d.obj.rv = old.rv)

After(d) == IF d.type = "Deleted" THEN Absent ELSE d.obj

(* OnAdd(new) when old is Absent, OnUpdate(old, new), or OnDelete(old) when *)
(* new is Absent: with the object of the delta, which may be outdated.     *)
Notification(old, d) ==
  [old |-> IF d.type = "Deleted" THEN d.obj ELSE old, new |-> After(d), sync |-> IsSync(old, d)]

(* Pop hands all deltas of one key to HandleDeltas, which goes from oldest *)
(* to newest: the indexer ends with the newest object, and each delta is a *)
(* notification for the listener of the handlers.                          *)
Pop ==
  /\ fifo.queue # << >>
  /\ LET key    == Head(fifo.queue)
         deltas == fifo.deltas[key]
         old(i) == IF i = 1 THEN items[key] ELSE After(deltas[i - 1])
     IN  /\ items' = [items EXCEPT ![key] = After(Last(deltas))]
         /\ index' = Indexed(key, After(Last(deltas)))
         /\ pending' = [pending EXCEPT ![key] =
                          @ \o [i \in DOMAIN deltas |-> Notification(old(i), deltas[i])]]
         /\ fifo' = [fifo EXCEPT !.queue = Tail(@), !.deltas[key] = << >>,
                                 !.initial = IF @ > 0 THEN @ - 1 ELSE 0]
  /\ UNCHANGED <<serverVars, reflector, notified, first, ghosts, budget>>

(* The listener's own goroutines call the handlers, later: with the oldest *)
(* notification of an object, unless it is a sync and no resync was due.   *)
(* The ring buffer orders the notifications of different objects as well;  *)
(* any order between objects is allowed here.                              *)
Notify ==
  /\ \E k \in Keys :
       /\ pending[k] # << >>
       /\ \/ notified' = [notified EXCEPT ![k] = Head(pending[k]).new]
          \/ Head(pending[k]).sync /\ UNCHANGED notified
       /\ pending' = [pending EXCEPT ![k] = Tail(@)]
  /\ UNCHANGED <<serverVars, reflector, fifo, items, index, first, ghosts, budget>>

-----------------------------------------------------------------------------
(* Any client of the server.                                               *)
ServerChange ==
  /\ Len(log) < MaxVersions
  /\ \E k \in Keys, label \in BOOLEAN :
       \E call \in {[ListCall("Create") EXCEPT !.body =
                       [key |-> k, spec |-> Empty, status |-> Empty, label |-> label, rv |-> 0]],
                    [ListCall("Patch") EXCEPT !.name = k[2], !.body = [label |-> label]],
                    [ListCall("Delete") EXCEPT !.name = k[2]]} :
         log' = Serve(log, Keys, NetworkingV1alpha1(kind, k[1], call)).log
  /\ log' # log
  /\ UNCHANGED <<kind, selector, reflector, fifo, cacheVars, first, ghosts, budget>>

Init ==
  /\ kind \in Kinds
  /\ selector \in Selectors
  /\ log = << >>
  /\ reflector = [stage |-> "list", last |-> Never, unavailable |-> FALSE]
  /\ fifo = [queue |-> << >>, deltas |-> [k \in Keys |-> << >>], populated |-> FALSE, initial |-> 0]
  /\ items = [k \in Keys |-> Absent]
  /\ index = [ns \in ScopeOf(kind) |-> {}]
  /\ pending = [k \in Keys |-> << >>]
  /\ notified = [k \in Keys |-> Absent]
  /\ first = {}
  /\ ghosts = {}
  /\ budget = [expiries |-> MaxExpiries, resyncs |-> MaxResyncs]

Next ==
  \/ ListObjects
  \/ ListExpired
  \/ WatchEvent
  \/ Bookmark
  \/ WatchExpired
  \/ Resync
  \/ Pop
  \/ Notify
  \/ ServerChange

Spec == Init /\ [][Next]_vars

(* The reflector, the processor and the listener run; the server answers.  *)
Fairness == WF_vars(ListObjects) /\ WF_vars(WatchEvent) /\ WF_vars(Pop) /\ WF_vars(Notify)
FairSpec == Spec /\ Fairness

-----------------------------------------------------------------------------
(* Properties.                                                             *)

Versions == 1 .. MaxVersions
Deltas ==
  [type : {"Added", "Updated", "Deleted", "Replaced", "Sync"}, key : Keys, obj : Objects(Keys, Versions)]
Notifications ==
  [old : Objects(Keys, Versions) \cup {Absent}, new : Objects(Keys, Versions) \cup {Absent},
   sync : BOOLEAN]

(* The type of every variable of the informer and the server; a key is in  *)
(* the queue of the FIFO once, and exactly when it has deltas.             *)
TypeOK ==
  /\ kind \in Kinds /\ selector \in Selectors
  /\ log \in Seq([key : Keys, obj : Objects(Keys, Versions) \cup {Absent}])
  /\ reflector \in [stage : {"list", "watch"}, last : {Never} \cup 0 .. MaxVersions,
                    unavailable : BOOLEAN]
  /\ fifo.queue \in Seq(Keys)
  /\ \A k \in Keys : fifo.deltas[k] \in Seq(Deltas)
  /\ \A k \in Keys : Cardinality({i \in DOMAIN fifo.queue : fifo.queue[i] = k})
                       = (IF fifo.deltas[k] = << >> THEN 0 ELSE 1)
  /\ fifo.initial \in 0 .. Cardinality(Keys)
  /\ items \in [Keys -> Objects(Keys, Versions) \cup {Absent}]
  /\ \A k \in Keys : pending[k] \in Seq(Notifications)
  /\ notified \in [Keys -> Objects(Keys, Versions) \cup {Absent}]
  /\ index \in [ScopeOf(kind) -> SUBSET Keys]

(* The lister of a kind answers from one set of objects: a namespace list  *)
(* is the list filtered by namespace, and Get finds what List shows.       *)
ListersAgree ==
  LET all == Lister([method |-> "List", selector |-> "everything"]).objects
  IN
  /\ kind # "GatewayClass" =>
       \A ns \in ScopeOf(kind), sel \in Selectors :
         Lister([method |-> "ListByNamespace", ns |-> ns, selector |-> sel]).objects
           = {o \in all : o.key[1] = ns /\ Matches(sel, o)}
  /\ \A k \in Keys :
       Lister([method |-> "Get", ns |-> k[1], name |-> k[2]]).objects = {o \in all : o.key = k}

(* What the handlers know of an object once the i-th of its notifications  *)
(* has been delivered.                                                     *)
Told(k, i) == IF i = 0 THEN notified[k] ELSE pending[k][i].new

(* "Client notifications happen after the corresponding cache update", and *)
(* "for a given SharedInformer, client, and object ID, the notifications   *)
(* are delivered in order" (shared_informer.go:111-116).  However far the  *)
(* handlers are behind, OnAdd is of an object they do not know, OnUpdate   *)
(* goes from the version they know, OnDelete is of an object they know,    *)
(* and the last of what is pending brings them to what the lister shows,   *)
(* relists and resyncs included.                                           *)
HandlersTrailTheCache ==
  \A k \in Keys :
    /\ \A i \in DOMAIN pending[k] :
         IF pending[k][i].new = Absent THEN Told(k, i - 1) # Absent
                                       ELSE pending[k][i].old = Told(k, i - 1)
    /\ items[k] = Told(k, Len(pending[k]))

(* Once the informer has synced, the lister has shown every object of the  *)
(* first list: an object it does not hold has since been changed.          *)
SyncedShowsFirstList ==
  HasSynced => \A o \in first :
                 items[o.key] # Absent \/ \E i \in o.rv + 1 .. Len(log) : log[i].key = o.key

(* "ordering among the appearing states is correct": an object in the      *)
(* cache is never replaced by an older version, whatever expires.          *)
NeverBackwards ==
  [][\A k \in Keys : items[k] # Absent /\ items'[k] # Absent
                       => items'[k].rv >= items[k].rv]_vars

Visible(k) == Shown(Len(log), k, [ns |-> AllNamespaces, selector |-> selector])

(* When the server comes to rest, the cache becomes an exact copy of the   *)
(* objects that match the selector, and the handlers have been told of it, *)
(* except for objects that Replace missed while they waited in the FIFO.   *)
CacheCatchesUp ==
  <>[](\A k \in Keys \ ghosts : items[k] = Visible(k) /\ notified[k] = Visible(k))
=============================================================================
