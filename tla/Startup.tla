------------------------------ MODULE Startup ------------------------------
(***************************************************************************)
(* The process from its entry point to running workers: injection makes    *)
(* the informers, NewController takes their listers and puts handlers on   *)
(* them, the ConfigMap watcher fills the configuration store, the          *)
(* informers start and sync, and the workers and the elector run.  Each    *)
(* run of the reconciler loads the configuration piece by piece while      *)
(* ConfigMaps change, Routes appear and leadership moves.                  *)
(*                                                                         *)
(* A ConfigMap is a version, valid or not; what a run does with the Route  *)
(* is left to RouteReconciler, and the work queue is that of WorkQueue.    *)
(***************************************************************************)
EXTENDS Naturals, Sequences, FiniteSets, Functions

CONSTANTS Routes,
          MaxChanges,     \* ConfigMap changes after the first version
          MaxElections    \* times this process becomes the leader

BoundsAssumption == MaxChanges \in Nat /\ MaxElections \in Nat
ASSUME BoundsAssumption

(* The ConfigMaps of the store in the order Load reads them.               *)
LoadOrder == <<"config-domain", "config-gateway", "config-network", "config-features">>
ConfigNames == Range(LoadOrder)

\* The informers whose packages the controller links.
Kinds == {"Route", "Service", "HTTPRoute", "Gateway"}

Unset == 0       \* a store entry, a delivery or an informer that is not there
NoRun == << >>   \* no run yet
NoRoute == "none"

RoutesAssumption == NoRoute \notin Routes
ASSUME RoutesAssumption

VARIABLES main,        \* where sharedmain is
          configMaps,  \* the server's ConfigMaps
          watcher,     \* the version of each ConfigMap its handler saw last
          stored,      \* the configuration store
          callback,    \* ConfigMap whose onAfterStore is still to run, or ""
          factory,     \* informers by kind: the number of instances made
          context,     \* the instance of each kind in the injection context
          handlers,    \* the instance the controller put its handlers on
          lister,      \* the instance the reconciler's lister reads
          informers,   \* started and synced instances, as <<kind, instance>>
          routes,      \* Routes on the server
          cached,      \* Routes in the Route informer that runs
          leader,      \* the lease, the bucket, and the promotions under way
          queue, run,  \* keys in the work queue; the worker's run
          lastRun,     \* history: the configuration of each Route's last run
          budget

injectionVars == <<factory, context, handlers, lister>>
configVars    == <<configMaps, watcher, stored, callback>>
routeVars     == <<routes, cached>>
workVars      == <<leader, queue, run, lastRun>>
vars == <<main, injectionVars, configVars, informers, routeVars, workVars, budget>>

Idle == [route |-> NoRoute, loaded |-> << >>]

-----------------------------------------------------------------------------
(* Injection.                                                              *)

(* InformerFor: one informer for a type, made when first asked for.        *)
InformerFor(f, kind) == [f EXCEPT ![kind] = IF @ = Unset THEN 1 ELSE @]

(* SetupInformers: the clients, then the factories, then the informers,    *)
(* each in the order their packages registered.                            *)
WithClients ==
  /\ main = "clients"
  /\ main' = "factories"
  /\ UNCHANGED <<injectionVars, configVars, informers, routeVars, workVars, budget>>

WithInformerFactories ==
  /\ main = "factories"
  /\ main' = "inject"
  /\ UNCHANGED <<injectionVars, configVars, informers, routeVars, workVars, budget>>

WithInformer(kind) ==
  /\ main = "inject"
  /\ context[kind] = Unset
  /\ factory' = InformerFor(factory, kind)
  /\ context' = [context EXCEPT ![kind] = factory'[kind]]
  /\ main' = IF \A k \in Kinds : context'[k] # Unset THEN "construct" ELSE main
  /\ UNCHANGED <<handlers, lister, configVars, informers, routeVars, workVars, budget>>

(* NewController: Get panics on an informer that was not injected; the     *)
(* listers and the handlers are those of the informer the factory returns. *)
NewController ==
  /\ main = "construct"
  /\ IF \E kind \in Kinds : context[kind] = Unset
     THEN main' = "panic" /\ UNCHANGED injectionVars
     ELSE /\ main' = "watch"
          /\ factory' = [kind \in Kinds |-> InformerFor(factory, kind)[kind]]
          /\ handlers' = factory'
          /\ lister' = factory'
          /\ UNCHANGED context
  /\ UNCHANGED <<configVars, informers, routeVars, workVars, budget>>

-----------------------------------------------------------------------------
(* The ConfigMap watcher and the store.                                    *)

(* Mutation: configsToResync lacks the gateway configuration. *)
FilterWithoutGateway(name) == name \in {"config-domain", "config-network"}

(* TypeFilter of configsToResync.                                          *)
TypeFilter(name) == name \in {"config-domain", "config-gateway", "config-network"}

Watching == main \notin {"clients", "factories", "inject", "construct", "watch", "fatal", "panic"}

(* cmw.Start: the ConfigMap informer runs.                                 *)
StartWatcher ==
  /\ main = "watch"
  /\ main' = "first configs"
  /\ UNCHANGED <<injectionVars, configVars, informers, routeVars, workVars, budget>>

(* OnConfigChanged: an invalid first version is fatal, a later one is      *)
(* ignored.  Its handler runs one event after the other.                   *)
OnConfigChanged(name) ==
  /\ Watching
  /\ callback = ""
  /\ configMaps[name].version \notin {Unset, watcher[name]}
  /\ watcher' = [watcher EXCEPT ![name] = configMaps[name].version]
  /\ IF configMaps[name].valid
     THEN /\ stored' = [stored EXCEPT ![name] = configMaps[name].version]
          /\ callback' = name
          /\ UNCHANGED main
     ELSE /\ main' = IF stored[name] = Unset THEN "fatal" ELSE main
          /\ UNCHANGED <<stored, callback>>
  /\ UNCHANGED <<configMaps, injectionVars, informers, routeVars, workVars, budget>>

(* The onAfterStore callback: GlobalResync enqueues what the Route         *)
(* informer holds.                                                         *)
OnAfterStore ==
  /\ callback # ""
  /\ main \notin {"fatal", "panic"}
  /\ queue' = IF TypeFilter(callback) THEN queue \cup cached ELSE queue
  /\ callback' = ""
  /\ UNCHANGED <<main, configMaps, watcher, stored, injectionVars, informers, routeVars,
                 leader, run, lastRun, budget>>

(* Mutation: cmw.Start does not wait for the first versions. *)
ConfigsReadyAtOnce ==
  /\ main = "first configs"
  /\ main' = "start"
  /\ UNCHANGED <<injectionVars, configVars, informers, routeVars, workVars, budget>>

(* cmw.Start returns when every watched ConfigMap was handled once; one    *)
(* that does not exist is an error, and main dies.                         *)
ConfigsReady ==
  /\ main = "first configs"
  /\ \/ /\ \E name \in ConfigNames : configMaps[name].version = Unset
        /\ main' = "fatal"
     \/ /\ callback = ""
        /\ \A name \in ConfigNames : watcher[name] # Unset
        /\ main' = "start"
  /\ UNCHANGED <<injectionVars, configVars, informers, routeVars, workVars, budget>>

-----------------------------------------------------------------------------
(* The informers.                                                          *)

(* Mutation: the goroutines share the loop variable and run one informer. *)
StartInformersShared ==
  /\ main = "start"
  /\ main' = "sync"
  /\ \E k \in Kinds : informers' = [informers EXCEPT !.started = {<<k, context[k]>>}]
  /\ UNCHANGED <<injectionVars, configVars, routeVars, workVars, budget>>

(* StartInformers runs the injected informers and waits for each to sync.  *)
StartInformers ==
  /\ main = "start"
  /\ main' = "sync"
  /\ informers' = [informers EXCEPT !.started = {<<k, context[k]>> : k \in Kinds}]
  /\ UNCHANGED <<injectionVars, configVars, routeVars, workVars, budget>>

Alive == main \notin {"fatal", "panic"}

(* The handlers enqueue what comes, if they are on the informer that runs. *)
Enqueued(added) == IF <<"Route", handlers["Route"]>> \in informers.started THEN added ELSE {}

(* The first list of an informer reaches its cache and its handlers.       *)
InformerSyncs(kind) ==
  /\ Alive
  /\ <<kind, context[kind]>> \in informers.started \ informers.synced
  /\ informers' = [informers EXCEPT !.synced = @ \cup {<<kind, context[kind]>>}]
  /\ cached' = IF kind = "Route" THEN routes ELSE cached
  /\ queue' = IF kind = "Route" THEN queue \cup Enqueued(routes) ELSE queue
  /\ UNCHANGED <<main, injectionVars, configVars, routes, leader, run, lastRun, budget>>

(* A Route created later is watched.                                       *)
RouteAdded(r) ==
  /\ Alive
  /\ <<"Route", context["Route"]>> \in informers.synced
  /\ r \in routes \ cached
  /\ cached' = cached \cup {r}
  /\ queue' = queue \cup Enqueued({r})
  /\ UNCHANGED <<main, injectionVars, configVars, informers, routes, leader, run, lastRun, budget>>

(* Mutation: the controllers start while the informers sync. *)
InformersReadyAtOnce ==
  /\ main = "sync"
  /\ main' = "run"
  /\ UNCHANGED <<injectionVars, configVars, informers, routeVars, workVars, budget>>

InformersReady ==
  /\ main = "sync"
  /\ \A kind \in Kinds : <<kind, context[kind]>> \in informers.synced
  /\ main' = "run"
  /\ UNCHANGED <<injectionVars, configVars, informers, routeVars, workVars, budget>>

-----------------------------------------------------------------------------
(* The elector and the worker that RunContext starts.                      *)

(* The lease is ours: OnStartedLeading runs in a goroutine of its own.     *)
Elected ==
  /\ main = "run"
  /\ ~leader.elected
  /\ budget.elections > 0
  /\ leader' = [leader EXCEPT !.elected = TRUE, !.starting = @ + 1]
  /\ budget' = [budget EXCEPT !.elections = @ - 1]
  /\ UNCHANGED <<main, injectionVars, configVars, informers, routeVars, queue, run, lastRun>>

(* Such a goroutine calls Promote, which sets the bucket, also when the    *)
(* term that started it is over.                                           *)
Promote ==
  /\ Alive
  /\ leader.starting > 0
  /\ leader' = [leader EXCEPT !.bucket = TRUE, !.starting = @ - 1, !.enqueuing = @ + 1]
  /\ UNCHANGED <<main, injectionVars, configVars, informers, routeVars, queue, run, lastRun, budget>>

(* Mutation: Promote enqueues nothing. *)
PromoteFuncForgets ==
  /\ Alive
  /\ leader.enqueuing > 0
  /\ leader' = [leader EXCEPT !.enqueuing = @ - 1]
  /\ UNCHANGED <<main, injectionVars, configVars, informers, routeVars, queue, run, lastRun, budget>>

(* PromoteFunc then enqueues what the lister holds.                        *)
PromoteFunc ==
  /\ Alive
  /\ leader.enqueuing > 0
  /\ leader' = [leader EXCEPT !.enqueuing = @ - 1]
  /\ queue' = queue \cup cached
  /\ UNCHANGED <<main, injectionVars, configVars, informers, routeVars, run, lastRun, budget>>

(* The lease lapses: OnStoppedLeading, at any point of the goroutines.     *)
Demote ==
  /\ Alive
  /\ leader.elected
  /\ leader' = [leader EXCEPT !.elected = FALSE, !.bucket = FALSE]
  /\ UNCHANGED <<main, injectionVars, configVars, informers, routeVars, queue, run, lastRun, budget>>

(* A key is handed out; without the lead it is skipped.                    *)
WorkerGet(r) ==
  /\ main = "run"
  /\ run = Idle
  /\ r \in queue
  /\ queue' = queue \ {r}
  /\ run' = IF leader.bucket THEN [run EXCEPT !.route = r] ELSE Idle
  /\ UNCHANGED <<main, injectionVars, configVars, informers, routeVars, leader, lastRun, budget>>

(* Load reads one piece after the other; a piece that is not there is a    *)
(* nil that the type assertion panics on, except for the features.         *)
Load ==
  /\ main = "run"
  /\ run # Idle
  /\ Len(run.loaded) < Len(LoadOrder)
  /\ LET name == LoadOrder[Len(run.loaded) + 1]
     IN  /\ run' = [run EXCEPT !.loaded = Append(@, stored[name])]
         /\ main' = IF stored[name] = Unset /\ name # "config-features" THEN "panic" ELSE main
  /\ UNCHANGED <<injectionVars, configVars, informers, routeVars, leader, queue, lastRun, budget>>

(* The rest of the run, if the lister of the reconciler has the Route.     *)
Reconcile ==
  /\ main = "run"
  /\ run # Idle
  /\ Len(run.loaded) = Len(LoadOrder)
  /\ lastRun' = IF run.route \in cached /\ <<"Route", lister["Route"]>> \in informers.started
                THEN [lastRun EXCEPT ![run.route] = run.loaded] ELSE lastRun
  /\ run' = Idle
  /\ UNCHANGED <<main, injectionVars, configVars, informers, routeVars, leader, queue, budget>>

-----------------------------------------------------------------------------
(* Users and operators.                                                    *)

CreateRoute(r) ==
  /\ Alive
  /\ r \notin routes
  /\ routes' = routes \cup {r}
  /\ UNCHANGED <<main, injectionVars, configVars, informers, cached, workVars, budget>>

(* A ConfigMap is edited or created.  Deleting one has no effect once    *)
(* it was read.                                                            *)
EditConfigMap(name) ==
  /\ Alive
  /\ budget.changes > 0
  /\ \E valid \in BOOLEAN :
       configMaps' = [configMaps EXCEPT ![name] = [version |-> @.version + 1, valid |-> valid]]
  /\ budget' = [budget EXCEPT !.changes = @ - 1]
  /\ UNCHANGED <<main, injectionVars, watcher, stored, callback, informers, routeVars, workVars>>

Init ==
  /\ main = "clients"
  /\ \E odd \in ConfigNames, first \in [version : {Unset, 1}, valid : BOOLEAN] :
       configMaps = [n \in ConfigNames |->
                       IF n = odd THEN first ELSE [version |-> 1, valid |-> TRUE]]
  /\ watcher = [n \in ConfigNames |-> Unset]
  /\ stored = [n \in ConfigNames |-> Unset]
  /\ callback = ""
  /\ factory = [k \in Kinds |-> Unset]
  /\ context = [k \in Kinds |-> Unset]
  /\ handlers = [k \in Kinds |-> Unset]
  /\ lister = [k \in Kinds |-> Unset]
  /\ informers = [started |-> {}, synced |-> {}]
  /\ routes \in SUBSET Routes
  /\ cached = {}
  /\ leader = [elected |-> FALSE, bucket |-> FALSE, starting |-> 0, enqueuing |-> 0]
  /\ queue = {}
  /\ run = Idle
  /\ lastRun = [r \in Routes |-> NoRun]
  /\ budget = [changes |-> MaxChanges, elections |-> MaxElections]

Main ==
  \/ WithClients
  \/ WithInformerFactories
  \/ \E kind \in Kinds : WithInformer(kind)
  \/ NewController
  \/ StartWatcher
  \/ ConfigsReady
  \/ StartInformers
  \/ InformersReady

Configure == OnAfterStore \/ \E name \in ConfigNames : OnConfigChanged(name)
Elect     == Elected \/ Promote \/ PromoteFunc
Work      == Load \/ Reconcile \/ \E r \in Routes : WorkerGet(r)

Next ==
  \/ Main
  \/ Configure
  \/ \E kind \in Kinds : InformerSyncs(kind)
  \/ \E r \in Routes : RouteAdded(r)
  \/ Elect
  \/ Demote
  \/ Work
  \/ \E r \in Routes : CreateRoute(r)
  \/ \E name \in ConfigNames : EditConfigMap(name)

Spec == Init /\ [][Next]_vars

(* Every goroutine is scheduled and the server answers the informers.      *)
Fairness ==
  /\ WF_vars(Main)
  /\ WF_vars(Configure)
  /\ \A kind \in Kinds : WF_vars(InformerSyncs(kind))
  /\ \A r \in Routes : WF_vars(RouteAdded(r))
  /\ WF_vars(Promote) /\ WF_vars(PromoteFunc)
  /\ WF_vars(Work)

FairSpec == Spec /\ Fairness

-----------------------------------------------------------------------------
(* Properties.                                                             *)

Versions == 1 .. 1 + MaxChanges
Configs  == UNION {[1 .. n -> Versions] : n \in 0 .. Len(LoadOrder)}

(* The type of every variable: no run ever holds a piece of configuration  *)
(* that is nil.                                                            *)
TypeOK ==
  /\ main \in {"clients", "factories", "inject", "construct", "watch", "first configs",
               "start", "sync", "run", "fatal"}
  /\ configMaps \in [ConfigNames -> [version : {Unset} \cup Versions, valid : BOOLEAN]]
  /\ watcher \in [ConfigNames -> {Unset} \cup Versions]
  /\ stored \in [ConfigNames -> {Unset} \cup Versions]
  /\ callback \in ConfigNames \cup {""}
  /\ factory \in [Kinds -> {Unset, 1}] /\ context \in [Kinds -> {Unset, 1}]
  /\ handlers \in [Kinds -> {Unset, 1}] /\ lister \in [Kinds -> {Unset, 1}]
  /\ routes \subseteq Routes /\ cached \subseteq routes /\ queue \subseteq cached
  /\ leader \in [elected : BOOLEAN, bucket : BOOLEAN, starting : Nat, enqueuing : Nat]
  /\ run.route \in Routes \cup {NoRoute} /\ run.loaded \in Configs
  /\ lastRun \in [Routes -> Configs]

(* The process holds the bucket and no promotion has keys to enqueue.      *)
Promoted == leader.bucket /\ leader.enqueuing = 0

(* Nothing about Route r is on its way.                                    *)
Settled(r) ==
  /\ Promoted
  /\ r \in cached /\ r \notin queue /\ run.route # r
  /\ callback = ""

(* A Route whose last run mixed pieces of configurations, or used one that *)
(* has been replaced since, has another run coming: a settled Route was    *)
(* reconciled with what the store holds, the features excepted.            *)
RunsUseTheStore ==
  \A r \in Routes : Settled(r) =>
    /\ lastRun[r] # NoRun
    /\ \A i \in DOMAIN LoadOrder : LoadOrder[i] # "config-features" => lastRun[r][i] = stored[LoadOrder[i]]

(* The reconciler never works on caches that lack what the server had when *)
(* the process started: every informer it reads is synced.                 *)
RunsSeeSyncedCaches ==
  run # Idle => \A k \in Kinds : <<k, lister[k]>> \in informers.synced

(* Once nobody edits any more, every Route of the leader has been          *)
(* reconciled, and with every valid ConfigMap as it is now, whether it     *)
(* changed before, during or after startup or a change of leader.          *)
EditsReachRoutes ==
  <>[](main = "run" /\ leader.bucket =>
         \A r \in routes :
           /\ lastRun[r] # NoRun
           /\ \A i \in DOMAIN LoadOrder :
                LoadOrder[i] # "config-features" /\ configMaps[LoadOrder[i]].valid
                  => lastRun[r][i] = configMaps[LoadOrder[i]].version)

(* Startup ends, with workers running or the process dead: nothing it      *)
(* waits for fails to come.                                                *)
StartupEnds == <>(main \in {"run", "fatal"})
=============================================================================
