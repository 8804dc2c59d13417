--------------------------- MODULE Startup_proofs ---------------------------
(***************************************************************************)
(* Proofs about Startup for every set of Routes and all bounds: its type   *)
(* invariant, that no run works on an informer that has not synced, and    *)
(* that a settled Route was reconciled with what the store holds.          *)
(***************************************************************************)
EXTENDS Startup, SequenceTheorems, TLAPS

-----------------------------------------------------------------------------
(* The inductive invariant.                                                *)

Pieces == 1 .. 4

Started == {<<k, 1>> : k \in Kinds}

(* The number of configuration versions is what the edits left allow.      *)
ConfigTyped ==
  /\ configMaps \in [ConfigNames -> [version : {Unset} \cup Versions, valid : BOOLEAN]]
  /\ budget.changes \in Nat
  /\ budget \in [changes : Nat, elections : Nat]
  /\ \A n \in ConfigNames : configMaps[n].version + budget.changes <= 1 + MaxChanges
  /\ watcher \in [ConfigNames -> {Unset} \cup Versions]
  /\ stored \in [ConfigNames -> {Unset} \cup Versions]
  /\ callback \in ConfigNames \cup {""}

InjectionTyped ==
  /\ factory \in [Kinds -> {Unset, 1}] /\ context \in [Kinds -> {Unset, 1}]
  /\ handlers \in [Kinds -> {Unset, 1}] /\ lister \in [Kinds -> {Unset, 1}]

RunTyped ==
  /\ run \in [route : Routes \cup {NoRoute}, loaded : Seq(Versions)]
  /\ Len(run.loaded) <= 4
  /\ run.route = NoRoute => run = Idle
  /\ lastRun \in [Routes -> Seq(Versions)]
  /\ \A r \in Routes : Len(lastRun[r]) <= 4

Typed ==
  /\ main \in {"clients", "factories", "inject", "construct", "watch", "first configs",
               "start", "sync", "run", "fatal"}
  /\ ConfigTyped
  /\ InjectionTyped
  /\ RunTyped
  /\ routes \subseteq Routes /\ cached \subseteq routes /\ queue \subseteq cached
  /\ leader \in [elected : BOOLEAN, bucket : BOOLEAN, starting : Nat, enqueuing : Nat]

(* Injection is over before there is a controller, whose handlers and      *)
(* listers are on the one informer of a kind.                              *)
InjectInv ==
  /\ main \notin {"clients", "factories", "inject"} => \A k \in Kinds : context[k] = 1
  /\ main \notin {"clients", "factories", "inject", "construct"}
       => \A k \in Kinds : handlers[k] = 1 /\ lister[k] = 1

(* A ConfigMap that was handled is in the store, and all of them are when  *)
(* the informers start.                                                    *)
StoreInv ==
  /\ main # "fatal" => \A n \in ConfigNames : watcher[n] # Unset => stored[n] # Unset
  /\ main \in {"start", "sync", "run"} => \A n \in ConfigNames : stored[n] # Unset

(* The controllers run when every informer has synced.                     *)
SyncInv ==
  /\ informers.started = {} \/ (informers.started = Started /\ main \in {"sync", "run", "fatal"})
  /\ main \in {"sync", "run"} => informers.started = Started
  /\ informers.synced \subseteq informers.started
  /\ main = "run" => informers.synced = Started
  /\ run # Idle => main \in {"run", "fatal"} /\ informers.synced = Started
  /\ informers \in [started : SUBSET Started, synced : SUBSET Started]

(* What a run has loaded, or the last run used, is what the store holds,   *)
(* unless the Route will run again or the store's callback is still to     *)
(* see to that.                                                            *)
UseInv ==
  \A r \in Routes, i \in Pieces :
    /\ Promoted
    /\ r \in cached /\ r \notin queue
    /\ LoadOrder[i] # "config-features"
    /\ callback # LoadOrder[i]
    => IF run.route = r
       THEN i <= Len(run.loaded) => run.loaded[i] = stored[LoadOrder[i]]
       ELSE Len(lastRun[r]) = 4 /\ lastRun[r][i] = stored[LoadOrder[i]]

IInv == Typed /\ InjectInv /\ StoreInv /\ SyncInv /\ UseInv

-----------------------------------------------------------------------------
(* Facts about the constants.                                              *)

LEMMA Order ==
  /\ Len(LoadOrder) = 4 /\ DOMAIN LoadOrder = Pieces
  /\ \A i \in Pieces : LoadOrder[i] \in ConfigNames /\ LoadOrder[i] # ""
  /\ \A n \in ConfigNames : TypeFilter(n) \/ n = "config-features"
  /\ \A n \in ConfigNames : \E i \in Pieces : n = LoadOrder[i]
<1>1. Len(LoadOrder) = 4 /\ DOMAIN LoadOrder = Pieces
  BY DEF LoadOrder, Pieces
<1>2. \A i \in Pieces : LoadOrder[i] \in {"config-domain", "config-gateway", "config-network", "config-features"}
  BY DEF LoadOrder, Pieces
<1>3. ConfigNames = {LoadOrder[i] : i \in Pieces}
  BY <1>1 DEF ConfigNames, Range
<1> QED BY <1>1, <1>2, <1>3 DEF TypeFilter

LEMMA VersionsAreSet ==
  /\ Versions \subseteq Nat \ {Unset} /\ 1 \in Versions /\ Unset = 0
  /\ MaxChanges \in Nat /\ MaxElections \in Nat
  BY BoundsAssumption DEF BoundsAssumption, Versions, Unset

LEMMA IdleTyped ==
  /\ Idle \in [route : Routes \cup {NoRoute}, loaded : Seq(Versions)]
  /\ Idle.route = NoRoute /\ Idle.loaded = << >> /\ Len(Idle.loaded) = 0
  BY EmptySeq DEF Idle

-----------------------------------------------------------------------------
(* What leaves the variables of a part alone keeps the part.               *)

LEMMA ConfigFrame ==
  ASSUME ConfigTyped, UNCHANGED <<configVars, budget>>
  PROVE  ConfigTyped'
  BY DEF ConfigTyped, configVars

LEMMA StoreFrame ==
  ASSUME StoreInv, UNCHANGED <<main, configVars>>
  PROVE  StoreInv'
  BY DEF StoreInv, configVars

LEMMA InjectFrame ==
  ASSUME InjectionTyped, InjectInv, UNCHANGED <<main, injectionVars>>
  PROVE  InjectionTyped' /\ InjectInv'
  BY DEF InjectionTyped, InjectInv, injectionVars

LEMMA SyncFrame ==
  ASSUME SyncInv, UNCHANGED <<main, informers, run>>
  PROVE  SyncInv'
  BY DEF SyncInv

LEMMA RunFrame ==
  ASSUME RunTyped, UNCHANGED <<run, lastRun>>
  PROVE  RunTyped'
  BY DEF RunTyped

(* More keys in the queue make less to say.                                *)
LEMMA UseFrame ==
  ASSUME UseInv, UNCHANGED <<callback, stored, run, lastRun>>,
         leader' = leader \/ (Promoted' => Promoted \/ cached' \subseteq queue'),
         cached' \ queue' \subseteq cached \ queue
  PROVE  UseInv'
  BY DEF UseInv, Promoted

(* A step of main while nothing runs yet.                                  *)
LEMMA MainStep ==
  ASSUME IInv, UNCHANGED <<configVars, routeVars, workVars, budget>>,
         main' \in {"factories", "inject", "construct", "watch", "first configs",
                    "start", "sync", "run", "fatal"},
         InjectionTyped', InjectInv', StoreInv', SyncInv'
  PROVE  IInv'
<1> USE DEF IInv, Typed
<1>1. ConfigTyped' /\ RunTyped'
  BY ConfigFrame, RunFrame DEF workVars
<1>2. UseInv'
  BY UseFrame DEF configVars, routeVars, workVars
<1> QED BY <1>1, <1>2 DEF routeVars, workVars

-----------------------------------------------------------------------------
LEMMA InitInv == Init => IInv
<1> SUFFICES ASSUME Init PROVE IInv
  OBVIOUS
<1>1. ConfigTyped
  <2>1. PICK odd \in ConfigNames, first \in [version : {Unset, 1}, valid : BOOLEAN] :
          configMaps = [n \in ConfigNames |-> IF n = odd THEN first ELSE [version |-> 1, valid |-> TRUE]]
    BY DEF Init
  <2>2. \A n \in ConfigNames :
          /\ configMaps[n] \in [version : {Unset} \cup Versions, valid : BOOLEAN]
          /\ configMaps[n].version \in {0, 1}
    BY <2>1, VersionsAreSet
  <2>3. configMaps \in [ConfigNames -> [version : {Unset} \cup Versions, valid : BOOLEAN]]
    BY <2>1, <2>2
  <2>4. /\ budget = [changes |-> MaxChanges, elections |-> MaxElections]
        /\ watcher = [n \in ConfigNames |-> Unset] /\ stored = [n \in ConfigNames |-> Unset]
        /\ callback = ""
    BY DEF Init
  <2>5. \A n \in ConfigNames : configMaps[n].version + budget.changes <= 1 + MaxChanges
    <3>1. budget.changes = MaxChanges /\ MaxChanges \in Nat
      BY <2>4, VersionsAreSet
    <3> QED BY <2>2, <3>1
  <2> QED BY <2>3, <2>4, <2>5, VersionsAreSet DEF ConfigTyped
<1>2. InjectionTyped
  BY DEF Init, InjectionTyped
<1>3. RunTyped
  <2>1. run = Idle /\ lastRun = [r \in Routes |-> << >>]
    BY DEF Init, NoRun
  <2>2. << >> \in Seq(Versions) /\ Len(<< >>) = 0
    BY EmptySeq
  <2> QED BY <2>1, <2>2, IdleTyped DEF RunTyped
<1>4. InjectInv /\ StoreInv
  BY DEF Init, InjectInv, StoreInv
<1>5. SyncInv
  BY DEF Init, SyncInv
<1>6. UseInv
  BY DEF Init, UseInv
<1> QED BY <1>1, <1>2, <1>3, <1>4, <1>5, <1>6 DEF Init, IInv, Typed

LEMMA InjectionKeepsInv ==
  ASSUME IInv, WithClients \/ WithInformerFactories
  PROVE  IInv'
<1>1. /\ main \in {"clients", "factories"} /\ main' \in {"factories", "inject"}
      /\ UNCHANGED <<injectionVars, configVars, informers, routeVars, workVars, budget>>
  BY DEF WithClients, WithInformerFactories
<1>2. InjectionTyped' /\ InjectInv' /\ StoreInv'
  BY <1>1 DEF IInv, Typed, InjectionTyped, InjectInv, StoreInv, injectionVars, configVars
<1>3. SyncInv'
  BY <1>1 DEF IInv, SyncInv, workVars
<1> QED BY <1>1, <1>2, <1>3, MainStep

LEMMA WithInformerKeepsInv ==
  ASSUME IInv, NEW kind \in Kinds, WithInformer(kind)
  PROVE  IInv'
<1>1. /\ main = "inject" /\ main' \in {"inject", "construct"}
      /\ UNCHANGED <<handlers, lister, configVars, informers, routeVars, workVars, budget>>
      /\ main' = "construct" => \A k \in Kinds : context'[k] # Unset
  BY DEF WithInformer
<1>2. /\ factory' \in [Kinds -> {Unset, 1}] /\ factory'[kind] = 1
      /\ context' \in [Kinds -> {Unset, 1}]
  BY DEF WithInformer, InformerFor, IInv, Typed, InjectionTyped, Unset
<1>3. InjectionTyped' /\ InjectInv' /\ StoreInv'
  BY <1>1, <1>2 DEF IInv, Typed, InjectionTyped, InjectInv, StoreInv, configVars
<1>4. SyncInv'
  BY <1>1 DEF IInv, SyncInv, workVars
<1> QED BY <1>1, <1>3, <1>4, MainStep

LEMMA NewControllerKeepsInv ==
  ASSUME IInv, NewController
  PROVE  IInv'
<1>1. \A k \in Kinds : context[k] = 1 /\ context[k] # Unset
  BY DEF NewController, IInv, InjectInv, Unset
<1>2. /\ main = "construct" /\ main' = "watch"
      /\ factory' = [kind \in Kinds |-> InformerFor(factory, kind)[kind]]
      /\ handlers' = factory' /\ lister' = factory' /\ context' = context
      /\ UNCHANGED <<configVars, informers, routeVars, workVars, budget>>
  BY <1>1 DEF NewController
<1>3. \A k \in Kinds : InformerFor(factory, k)[k] = 1
  BY DEF InformerFor, IInv, Typed, InjectionTyped, Unset
<1>4. factory' \in [Kinds -> {Unset, 1}] /\ \A k \in Kinds : factory'[k] = 1
  BY <1>2, <1>3
<1>5. InjectionTyped' /\ InjectInv' /\ StoreInv'
  BY <1>1, <1>2, <1>4 DEF IInv, Typed, InjectionTyped, InjectInv, StoreInv, configVars
<1>6. SyncInv'
  BY <1>2 DEF IInv, SyncInv, workVars
<1> QED BY <1>2, <1>5, <1>6, MainStep

LEMMA StartWatcherKeepsInv ==
  ASSUME IInv, StartWatcher
  PROVE  IInv'
<1>1. /\ main = "watch" /\ main' = "first configs"
      /\ UNCHANGED <<injectionVars, configVars, informers, routeVars, workVars, budget>>
  BY DEF StartWatcher
<1>2. InjectionTyped' /\ InjectInv' /\ StoreInv'
  BY <1>1 DEF IInv, Typed, InjectionTyped, InjectInv, StoreInv, injectionVars, configVars
<1>3. SyncInv'
  BY <1>1 DEF IInv, SyncInv, workVars
<1> QED BY <1>1, <1>2, <1>3, MainStep

LEMMA ConfigsReadyKeepsInv ==
  ASSUME IInv, ConfigsReady
  PROVE  IInv'
<1>1. /\ main = "first configs" /\ main' \in {"start", "fatal"}
      /\ main' = "start" => \A name \in ConfigNames : watcher[name] # Unset
      /\ UNCHANGED <<injectionVars, configVars, informers, routeVars, workVars, budget>>
  BY DEF ConfigsReady
<1>2. InjectionTyped' /\ InjectInv' /\ StoreInv'
  BY <1>1 DEF IInv, Typed, InjectionTyped, InjectInv, StoreInv, injectionVars, configVars
<1>3. SyncInv'
  BY <1>1 DEF IInv, SyncInv, workVars
<1> QED BY <1>1, <1>2, <1>3, MainStep

LEMMA StartInformersKeepsInv ==
  ASSUME IInv, StartInformers
  PROVE  IInv'
<1>1. /\ main = "start" /\ main' = "sync"
      /\ informers' = [informers EXCEPT !.started = {<<k, context[k]>> : k \in Kinds}]
      /\ UNCHANGED <<injectionVars, configVars, routeVars, workVars, budget>>
  BY DEF StartInformers
<1>2. {<<k, context[k]>> : k \in Kinds} = Started
  <2>1. \A k \in Kinds : context[k] = 1
    BY <1>1 DEF IInv, InjectInv
  <2> QED BY <2>1 DEF Started
<1>3. InjectionTyped' /\ InjectInv' /\ StoreInv'
  BY <1>1 DEF IInv, Typed, InjectionTyped, InjectInv, StoreInv, injectionVars, configVars
<1>4. SyncInv'
  <2>1. informers' = [informers EXCEPT !.started = Started]
    BY <1>1, <1>2
  <2> QED BY <1>1, <2>1 DEF IInv, SyncInv, workVars
<1> QED BY <1>1, <1>3, <1>4, MainStep

LEMMA InformersReadyKeepsInv ==
  ASSUME IInv, InformersReady
  PROVE  IInv'
<1>1. /\ main = "sync" /\ main' = "run"
      /\ \A kind \in Kinds : <<kind, context[kind]>> \in informers.synced
      /\ UNCHANGED <<injectionVars, configVars, informers, routeVars, workVars, budget>>
  BY DEF InformersReady
<1>2. InjectionTyped' /\ InjectInv' /\ StoreInv'
  BY <1>1 DEF IInv, Typed, InjectionTyped, InjectInv, StoreInv, injectionVars, configVars
<1>3. informers.synced = Started
  <2>1. \A k \in Kinds : <<k, 1>> \in informers.synced
    BY <1>1 DEF IInv, InjectInv
  <2>2. informers.synced \subseteq Started
    BY DEF IInv, SyncInv
  <2> QED BY <2>1, <2>2 DEF Started
<1>4. SyncInv'
  BY <1>1, <1>3 DEF IInv, SyncInv, workVars
<1> QED BY <1>1, <1>2, <1>4, MainStep

-----------------------------------------------------------------------------
(* The configuration.                                                      *)

LEMMA OnConfigChangedKeepsInv ==
  ASSUME IInv, NEW name \in ConfigNames, OnConfigChanged(name)
  PROVE  IInv'
<1>1. /\ callback = ""
      /\ configMaps[name].version \in Versions
      /\ watcher' = [watcher EXCEPT ![name] = configMaps[name].version]
      /\ main \in {"first configs", "start", "sync", "run"}
      /\ UNCHANGED <<configMaps, injectionVars, informers, routeVars, workVars, budget>>
  BY DEF OnConfigChanged, Watching, IInv, Typed, ConfigTyped
<1>2. CASE configMaps[name].valid
  <2>1. /\ stored' = [stored EXCEPT ![name] = configMaps[name].version]
        /\ callback' = name /\ main' = main
    BY <1>2 DEF OnConfigChanged
  <2>2. ConfigTyped'
    BY <1>1, <2>1 DEF IInv, Typed, ConfigTyped
  <2>3. StoreInv'
    BY <1>1, <2>1, VersionsAreSet DEF IInv, StoreInv, Typed, ConfigTyped
  <2>4. UseInv'
    <3>1. \A i \in Pieces : LoadOrder[i] # name => stored'[LoadOrder[i]] = stored[LoadOrder[i]]
      BY <2>1, Order DEF IInv, Typed, ConfigTyped
    <3>2. \A i \in Pieces : callback # LoadOrder[i]
      BY <1>1, Order
    <3>3. UNCHANGED <<leader, cached, queue, run, lastRun>> /\ callback' = name /\ UseInv
      BY <1>1, <2>1 DEF IInv, routeVars, workVars
    <3> QED BY <3>1, <3>2, <3>3 DEF UseInv, Promoted
  <2>5. InjectionTyped' /\ InjectInv' /\ SyncInv' /\ RunTyped'
    BY <1>1, <2>1, InjectFrame, SyncFrame, RunFrame DEF IInv, Typed, workVars
  <2> QED BY <1>1, <2>1, <2>2, <2>3, <2>4, <2>5 DEF IInv, Typed, routeVars, workVars
<1>3. CASE ~configMaps[name].valid
  <2>1. /\ UNCHANGED <<stored, callback>>
        /\ main' = IF stored[name] = Unset THEN "fatal" ELSE main
    BY <1>3 DEF OnConfigChanged
  <2>2. ConfigTyped'
    BY <1>1, <2>1 DEF IInv, Typed, ConfigTyped
  <2>3. StoreInv'
    BY <1>1, <2>1 DEF IInv, StoreInv, Typed, ConfigTyped
  <2>4. UseInv' /\ RunTyped'
    BY <1>1, <2>1, UseFrame, RunFrame DEF IInv, Typed, routeVars, workVars
  <2>5. InjectionTyped' /\ InjectInv'
    BY <1>1, <2>1 DEF IInv, Typed, InjectionTyped, InjectInv, injectionVars
  <2>6. SyncInv'
    BY <1>1, <2>1 DEF IInv, SyncInv, workVars
  <2> QED BY <1>1, <2>1, <2>2, <2>3, <2>4, <2>5, <2>6 DEF IInv, Typed, routeVars, workVars
<1> QED BY <1>2, <1>3

(* After the callback of a piece the Routes run again.                     *)
LEMMA OnAfterStoreKeepsInv ==
  ASSUME IInv, OnAfterStore
  PROVE  IInv'
<1>1. /\ callback \in ConfigNames /\ callback' = ""
      /\ queue' = IF TypeFilter(callback) THEN queue \cup cached ELSE queue
      /\ UNCHANGED <<main, configMaps, watcher, stored, injectionVars, informers, routeVars,
                      leader, run, lastRun, budget>>
  BY DEF OnAfterStore, IInv, Typed, ConfigTyped
<1>2. ConfigTyped' /\ StoreInv'
  BY <1>1 DEF IInv, Typed, ConfigTyped, StoreInv
<1>3. UseInv'
  <2>1. CASE TypeFilter(callback)
    BY <1>1, <2>1 DEF UseInv, routeVars
  <2>2. CASE ~TypeFilter(callback)
    <3>1. callback = "config-features"
      BY <1>1, <2>2, Order
    <3> QED BY <1>1, <2>2, <3>1 DEF IInv, UseInv, Promoted, routeVars
  <2> QED BY <2>1, <2>2
<1>4. InjectionTyped' /\ InjectInv' /\ SyncInv' /\ RunTyped'
  BY <1>1, InjectFrame, SyncFrame, RunFrame DEF IInv, Typed
<1> QED BY <1>1, <1>2, <1>3, <1>4 DEF IInv, Typed, routeVars

LEMMA EditConfigMapKeepsInv ==
  ASSUME IInv, NEW name \in ConfigNames, EditConfigMap(name)
  PROVE  IInv'
<1>1. PICK valid \in BOOLEAN :
        configMaps' = [configMaps EXCEPT ![name] = [version |-> @.version + 1, valid |-> valid]]
  BY DEF EditConfigMap
<1>2. /\ budget.changes > 0 /\ budget' = [budget EXCEPT !.changes = @ - 1]
      /\ UNCHANGED <<main, injectionVars, watcher, stored, callback, informers, routeVars, workVars>>
  BY DEF EditConfigMap
<1>3. ConfigTyped'
  <2> DEFINE left == budget.changes
             version(n) == configMaps[n].version
  <2>1. /\ budget \in [changes : Nat, elections : Nat] /\ left \in Nat
        /\ configMaps \in [ConfigNames -> [version : {Unset} \cup Versions, valid : BOOLEAN]]
        /\ \A n \in ConfigNames : version(n) + left <= 1 + MaxChanges
    BY DEF IInv, Typed, ConfigTyped
  <2>2. \A n \in ConfigNames : version(n) \in Nat
    <3>1. \A n \in ConfigNames : version(n) \in {Unset} \cup Versions
      BY <2>1
    <3>2. {Unset} \cup Versions \subseteq Nat
      BY VersionsAreSet
    <3> QED BY <3>1, <3>2
  <2>3. /\ budget' \in [changes : Nat, elections : Nat] /\ left > 0
        /\ budget'.changes = left - 1 /\ budget'.changes \in Nat
    BY <1>2, <2>1
  <2>4. /\ configMaps'[name].version = version(name) + 1
        /\ \A n \in ConfigNames \ {name} : configMaps'[n].version = version(n)
    BY <1>1, <2>1
  <2>5. /\ \A n \in ConfigNames : configMaps'[n].version + budget'.changes <= 1 + MaxChanges
        /\ version(name) + 1 \in Versions
    <3>1. version(name) + left <= 1 + MaxChanges /\ version(name) \in Nat /\ MaxChanges \in Nat
      BY <2>1, <2>2, VersionsAreSet
    <3> HIDE DEF version, left
    <3>2. version(name) + 1 \in 1 .. 1 + MaxChanges
      BY <2>1, <2>3, <3>1
    <3>3. ASSUME NEW n \in ConfigNames
          PROVE  configMaps'[n].version + budget'.changes <= 1 + MaxChanges
      <4>1. CASE n = name
        BY <2>1, <2>3, <2>4, <3>1, <4>1
      <4>2. CASE n # name
        BY <2>1, <2>2, <2>3, <2>4, <3>1, <4>2
      <4> QED BY <4>1, <4>2
    <3> QED BY <3>2, <3>3 DEF Versions
  <2>6. configMaps' \in [ConfigNames -> [version : {Unset} \cup Versions, valid : BOOLEAN]]
    BY <1>1, <2>1, <2>5
  <2> QED BY <1>2, <2>3, <2>5, <2>6 DEF IInv, Typed, ConfigTyped
<1>4. StoreInv' /\ UseInv'
  BY <1>2, UseFrame DEF IInv, StoreInv, routeVars, workVars
<1>5. InjectionTyped' /\ InjectInv' /\ SyncInv' /\ RunTyped'
  BY <1>2, InjectFrame, SyncFrame, RunFrame DEF IInv, Typed, workVars
<1> QED BY <1>2, <1>3, <1>4, <1>5 DEF IInv, Typed, routeVars, workVars

-----------------------------------------------------------------------------
(* The informers and the Routes.                                           *)

LEMMA RouteHandlers ==
  ASSUME IInv, informers.started # {}
  PROVE  /\ \A k \in Kinds : context[k] = 1 /\ handlers[k] = 1 /\ lister[k] = 1
         /\ informers.started = Started
         /\ \A added : Enqueued(added) = added
<1>1. informers.started = Started /\ main \in {"sync", "run", "fatal"}
  BY DEF IInv, SyncInv
<1>2. \A k \in Kinds : context[k] = 1 /\ handlers[k] = 1 /\ lister[k] = 1
  BY <1>1 DEF IInv, InjectInv
<1>3. <<"Route", handlers["Route"]>> \in informers.started
  BY <1>1, <1>2 DEF Started, Kinds
<1> QED BY <1>1, <1>2, <1>3 DEF Enqueued

LEMMA InformerSyncsKeepsInv ==
  ASSUME IInv, NEW kind \in Kinds, InformerSyncs(kind)
  PROVE  IInv'
<1>1. /\ <<kind, context[kind]>> \in informers.started
      /\ informers' = [informers EXCEPT !.synced = @ \cup {<<kind, context[kind]>>}]
      /\ UNCHANGED <<main, injectionVars, configVars, routes, leader, run, lastRun, budget>>
  BY DEF InformerSyncs
<1>2. \/ cached' = cached /\ queue' = queue
      \/ cached' = routes /\ queue' = queue \cup routes
  BY <1>1, RouteHandlers DEF InformerSyncs
<1>3. SyncInv'
  <2>1. /\ informers'.started = informers.started
        /\ informers'.synced = informers.synced \cup {<<kind, context[kind]>>}
        /\ informers' \in [started : SUBSET Started, synced : SUBSET Started]
    BY <1>1, RouteHandlers DEF IInv, SyncInv
  <2> QED BY <1>1, <2>1 DEF IInv, SyncInv
<1>4. ConfigTyped' /\ StoreInv' /\ InjectionTyped' /\ InjectInv' /\ RunTyped'
  BY <1>1, ConfigFrame, StoreFrame, InjectFrame, RunFrame DEF IInv, Typed
<1>5. UseInv'
  <2>1. cached' \ queue' \subseteq cached \ queue
    BY <1>2 DEF IInv, Typed
  <2> QED BY <1>1, <2>1, UseFrame DEF IInv, configVars
<1> QED BY <1>1, <1>2, <1>3, <1>4, <1>5 DEF IInv, Typed

LEMMA RouteAddedKeepsInv ==
  ASSUME IInv, NEW r \in Routes, RouteAdded(r)
  PROVE  IInv'
<1>1. /\ <<"Route", context["Route"]>> \in informers.synced /\ r \in routes
      /\ cached' = cached \cup {r} /\ queue' = queue \cup Enqueued({r})
      /\ UNCHANGED <<main, injectionVars, configVars, informers, routes, leader, run, lastRun, budget>>
  BY DEF RouteAdded
<1>2. queue' = queue \cup {r}
  BY <1>1, RouteHandlers DEF IInv, SyncInv
<1>3. ConfigTyped' /\ StoreInv' /\ InjectionTyped' /\ InjectInv' /\ RunTyped' /\ SyncInv'
  BY <1>1, ConfigFrame, StoreFrame, InjectFrame, RunFrame, SyncFrame DEF IInv, Typed
<1>4. UseInv'
  <2>1. cached' \ queue' \subseteq cached \ queue
    BY <1>1, <1>2
  <2> QED BY <1>1, <2>1, UseFrame DEF IInv, configVars
<1> QED BY <1>1, <1>2, <1>3, <1>4 DEF IInv, Typed

LEMMA CreateRouteKeepsInv ==
  ASSUME IInv, NEW r \in Routes, CreateRoute(r)
  PROVE  IInv'
<1>1. /\ routes' = routes \cup {r}
      /\ UNCHANGED <<main, injectionVars, configVars, informers, cached, workVars, budget>>
  BY DEF CreateRoute
<1>2. ConfigTyped' /\ StoreInv' /\ InjectionTyped' /\ InjectInv' /\ RunTyped' /\ SyncInv'
  BY <1>1, ConfigFrame, StoreFrame, InjectFrame, RunFrame, SyncFrame DEF IInv, Typed, workVars
<1>3. UseInv'
  BY <1>1, UseFrame DEF IInv, configVars, workVars
<1> QED BY <1>1, <1>2, <1>3 DEF IInv, Typed, workVars

-----------------------------------------------------------------------------
(* The elector.                                                            *)

LEMMA ElectorKeepsInv ==
  ASSUME IInv, Elected \/ Promote \/ PromoteFunc \/ Demote
  PROVE  IInv'
<1> DEFINE Leaders == [elected : BOOLEAN, bucket : BOOLEAN, starting : Nat, enqueuing : Nat]
<1>1. /\ UNCHANGED <<main, injectionVars, configVars, informers, routeVars, run, lastRun>>
      /\ queue' = queue \/ (queue' = queue \cup cached)
  BY DEF Elected, Promote, PromoteFunc, Demote
<1>2. leader' \in Leaders /\ (Promoted' => Promoted \/ cached' \subseteq queue')
  <2>0. leader \in Leaders
    BY DEF IInv, Typed
  <2>1. CASE Elected
    <3>1. leader' = [leader EXCEPT !.elected = TRUE, !.starting = @ + 1]
      BY <2>1 DEF Elected
    <3>2. leader.starting \in Nat /\ leader.starting + 1 \in Nat
      BY <2>0
    <3>3. leader' \in Leaders /\ leader'.bucket = leader.bucket /\ leader'.enqueuing = leader.enqueuing
      BY <2>0, <3>1, <3>2
    <3> QED BY <3>3 DEF Promoted
  <2>2. CASE Promote
    <3>1. leader' = [leader EXCEPT !.bucket = TRUE, !.starting = @ - 1, !.enqueuing = @ + 1]
          /\ leader.starting > 0
      BY <2>2 DEF Promote
    <3>2. /\ leader.starting \in Nat /\ leader.enqueuing \in Nat
          /\ leader.starting - 1 \in Nat /\ leader.enqueuing + 1 \in Nat
      BY <2>0, <3>1
    <3>3. leader' \in Leaders /\ leader'.enqueuing = leader.enqueuing + 1
      BY <2>0, <3>1, <3>2
    <3>4. leader'.enqueuing # 0
      BY <3>2, <3>3
    <3> QED BY <3>3, <3>4 DEF Promoted
  <2>3. CASE PromoteFunc
    <3>1. leader' = [leader EXCEPT !.enqueuing = @ - 1] /\ leader.enqueuing > 0
      BY <2>3 DEF PromoteFunc
    <3>2. cached' \subseteq queue'
      BY <2>3 DEF PromoteFunc, routeVars
    <3> QED BY <2>0, <3>1, <3>2
  <2>4. CASE Demote
    <3>1. leader' = [leader EXCEPT !.elected = FALSE, !.bucket = FALSE]
      BY <2>4 DEF Demote
    <3> QED BY <2>0, <3>1 DEF Promoted
  <2> QED BY <2>1, <2>2, <2>3, <2>4
<1>3. ConfigTyped'
  <2>1. CASE Elected
    <3>1. /\ budget \in [changes : Nat, elections : Nat]
          /\ budget.elections > 0 /\ budget' = [budget EXCEPT !.elections = @ - 1]
      BY <2>1 DEF Elected, IInv, Typed, ConfigTyped
    <3>2. budget' \in [changes : Nat, elections : Nat] /\ budget'.changes = budget.changes
      BY <3>1
    <3> QED BY <1>1, <3>2 DEF IInv, Typed, ConfigTyped, configVars
  <2>2. CASE Promote \/ PromoteFunc \/ Demote
    BY <1>1, <2>2, ConfigFrame DEF Promote, PromoteFunc, Demote, IInv, Typed
  <2> QED BY <2>1, <2>2
<1>4. StoreInv' /\ InjectionTyped' /\ InjectInv' /\ RunTyped' /\ SyncInv'
  BY <1>1, StoreFrame, InjectFrame, RunFrame, SyncFrame DEF IInv, Typed
<1>5. UseInv'
  <2>1. cached' \ queue' \subseteq cached \ queue
    BY <1>1 DEF routeVars
  <2> QED BY <1>1, <1>2, <2>1, UseFrame DEF IInv, configVars
<1> QED BY <1>1, <1>2, <1>3, <1>4, <1>5 DEF IInv, Typed, routeVars

-----------------------------------------------------------------------------
(* The worker.                                                             *)

(* A step of the worker changes the queue, the run and the last runs.      *)
LEMMA WorkStep ==
  ASSUME IInv, main = "run", queue' \subseteq queue, RunTyped', UseInv',
         UNCHANGED <<main, injectionVars, configVars, informers, routeVars, leader, budget>>
  PROVE  IInv'
<1>1. ConfigTyped' /\ StoreInv' /\ InjectionTyped' /\ InjectInv'
  BY ConfigFrame, StoreFrame, InjectFrame DEF IInv, Typed
<1>2. SyncInv'
  BY DEF IInv, SyncInv
<1> QED BY <1>1, <1>2 DEF IInv, Typed, routeVars

LEMMA WorkerGetKeepsInv ==
  ASSUME IInv, NEW r \in Routes, WorkerGet(r)
  PROVE  IInv'
<1>1. /\ main = "run" /\ run = Idle /\ r \in queue /\ queue' = queue \ {r}
      /\ run' = IF leader.bucket THEN [run EXCEPT !.route = r] ELSE Idle
      /\ UNCHANGED <<main, injectionVars, configVars, informers, routeVars, leader, lastRun, budget>>
  BY DEF WorkerGet
<1>2. r # NoRoute
  BY RoutesAssumption DEF RoutesAssumption
<1>3. leader.bucket => /\ run'.route = r /\ run'.loaded = << >>
                       /\ run' \in [route : Routes \cup {NoRoute}, loaded : Seq(Versions)]
  BY <1>1, IdleTyped
<1>4. RunTyped'
  BY <1>1, <1>2, <1>3, IdleTyped DEF IInv, Typed, RunTyped
<1>5. UseInv'
  <2>1. CASE ~Promoted
    BY <1>1, <2>1 DEF UseInv, Promoted
  <2>2. CASE Promoted
    <3>1. run'.route = r /\ Len(run'.loaded) = 0 /\ \A q \in Routes : run.route # q
      BY <1>1, <1>3, <2>2, IdleTyped, RoutesAssumption DEF RoutesAssumption, Promoted
    <3>2. \A i \in Pieces : ~(i <= Len(run'.loaded))
      BY <3>1 DEF Pieces
    <3> QED BY <1>1, <2>2, <3>1, <3>2 DEF IInv, UseInv, configVars, routeVars
  <2> QED BY <2>1, <2>2
<1> QED BY <1>1, <1>4, <1>5, WorkStep

LEMMA LoadKeepsInv ==
  ASSUME IInv, Load
  PROVE  IInv'
<1> DEFINE n == Len(run.loaded)
           piece == stored[LoadOrder[n + 1]]
<1>1. /\ main = "run" /\ run # Idle /\ n < 4
      /\ run' = [run EXCEPT !.loaded = Append(@, piece)]
      /\ UNCHANGED <<injectionVars, configVars, informers, routeVars, leader, queue, lastRun, budget>>
  BY Order DEF Load
<1>2. /\ run \in [route : Routes \cup {NoRoute}, loaded : Seq(Versions)]
      /\ run.route # NoRoute /\ n \in Nat
  BY <1>1, LenProperties DEF IInv, Typed, RunTyped
<1>3. n + 1 \in Pieces
  BY <1>1, <1>2 DEF Pieces
<1>4. piece \in Versions /\ piece # Unset
  BY <1>1, <1>3, Order DEF IInv, StoreInv, Typed, ConfigTyped
<1>5. main' = main
  BY <1>4 DEF Load
<1>6. /\ Append(run.loaded, piece) \in Seq(Versions)
      /\ Len(Append(run.loaded, piece)) = n + 1
      /\ \A i \in 1 .. n : Append(run.loaded, piece)[i] = run.loaded[i]
      /\ Append(run.loaded, piece)[n + 1] = piece
  BY <1>2, <1>4, AppendProperties
<1>7. /\ run' \in [route : Routes \cup {NoRoute}, loaded : Seq(Versions)]
      /\ run'.route = run.route /\ run'.loaded = Append(run.loaded, piece)
  <2> HIDE DEF piece
  <2> QED BY <1>1, <1>2, <1>6
<1>8. RunTyped'
  BY <1>1, <1>2, <1>6, <1>7 DEF IInv, Typed, RunTyped
<1>9. UseInv'
  <2> SUFFICES ASSUME NEW r \in Routes, NEW i \in Pieces, Promoted, r \in cached, r \notin queue,
                      LoadOrder[i] # "config-features", callback # LoadOrder[i],
                      run.route = r, i <= n + 1
               PROVE  run'.loaded[i] = stored[LoadOrder[i]]
    <3>1. Promoted' <=> Promoted
      BY <1>1 DEF Promoted
    <3> QED BY <1>1, <1>6, <1>7, <3>1 DEF IInv, UseInv, configVars, routeVars
  <2>1. CASE i = n + 1
    BY <1>6, <1>7, <2>1
  <2>2. CASE i # n + 1
    <3>1. i <= n /\ i \in 1 .. n
      BY <1>2, <2>2 DEF Pieces
    <3>2. run.loaded[i] = stored[LoadOrder[i]]
      BY <3>1 DEF IInv, UseInv
    <3> QED BY <1>6, <1>7, <3>1, <3>2
  <2> QED BY <2>1, <2>2
<1> QED BY <1>1, <1>5, <1>8, <1>9, WorkStep

LEMMA ReconcileKeepsInv ==
  ASSUME IInv, Reconcile
  PROVE  IInv'
<1>1. /\ main = "run" /\ run # Idle /\ Len(run.loaded) = 4 /\ run' = Idle
      /\ UNCHANGED <<main, injectionVars, configVars, informers, routeVars, leader, queue, budget>>
  BY Order DEF Reconcile
<1>2. run.route \in Routes /\ run.loaded \in Seq(Versions)
  BY <1>1 DEF IInv, Typed, RunTyped
<1>3. <<"Route", lister["Route"]>> \in informers.started
  <2>1. informers.started = Started
    BY <1>1 DEF IInv, SyncInv
  <2>2. lister["Route"] = 1
    BY <1>1 DEF IInv, InjectInv, Kinds
  <2> QED BY <2>1, <2>2 DEF Started, Kinds
<1>4. lastRun' = IF run.route \in cached THEN [lastRun EXCEPT ![run.route] = run.loaded] ELSE lastRun
  BY <1>3 DEF Reconcile
<1>5. RunTyped'
  <2>1. lastRun \in [Routes -> Seq(Versions)] /\ \A r \in Routes : Len(lastRun[r]) <= 4
    BY DEF IInv, Typed, RunTyped
  <2>2. lastRun' \in [Routes -> Seq(Versions)]
    BY <1>2, <1>4, <2>1
  <2>3. \A r \in Routes : lastRun'[r] \in {lastRun[r], run.loaded}
    BY <1>4, <2>1
  <2>4. \A r \in Routes : Len(lastRun'[r]) <= 4
    <3>1. Len(run.loaded) <= 4
      BY DEF IInv, Typed, RunTyped
    <3> QED BY <2>1, <2>3, <3>1
  <2> QED BY <1>1, <2>2, <2>4, IdleTyped DEF RunTyped
<1>6. UseInv'
  <2> SUFFICES ASSUME NEW r \in Routes, NEW i \in Pieces, Promoted, r \in cached, r \notin queue,
                      LoadOrder[i] # "config-features", callback # LoadOrder[i]
               PROVE  Len(lastRun'[r]) = 4 /\ lastRun'[r][i] = stored[LoadOrder[i]]
    BY <1>1, IdleTyped, RoutesAssumption DEF RoutesAssumption, UseInv, Promoted, configVars, routeVars
  <2>1. CASE run.route = r
    <3>1. lastRun'[r] = run.loaded
      BY <1>2, <1>4, <2>1 DEF IInv, Typed, RunTyped
    <3>2. run.loaded[i] = stored[LoadOrder[i]]
      BY <1>1, <2>1 DEF IInv, UseInv, Pieces
    <3> QED BY <1>1, <3>1, <3>2
  <2>2. CASE run.route # r
    <3>1. lastRun'[r] = lastRun[r]
      BY <1>2, <1>4, <2>2 DEF IInv, Typed, RunTyped
    <3> QED BY <2>2, <3>1 DEF IInv, UseInv
  <2> QED BY <2>1, <2>2
<1> QED BY <1>1, <1>5, <1>6, WorkStep

-----------------------------------------------------------------------------
LEMMA NextKeepsInv == IInv /\ [Next]_vars => IInv'
<1> SUFFICES ASSUME IInv, [Next]_vars PROVE IInv'
  OBVIOUS
<1>1. ASSUME Main PROVE IInv'
  BY <1>1, InjectionKeepsInv, WithInformerKeepsInv, NewControllerKeepsInv, StartWatcherKeepsInv,
     ConfigsReadyKeepsInv, StartInformersKeepsInv, InformersReadyKeepsInv DEF Main
<1>2. ASSUME Configure PROVE IInv'
  BY <1>2, OnAfterStoreKeepsInv, OnConfigChangedKeepsInv DEF Configure
<1>3. ASSUME NEW kind \in Kinds, InformerSyncs(kind) PROVE IInv'
  BY <1>3, InformerSyncsKeepsInv
<1>4. ASSUME NEW r \in Routes, RouteAdded(r) \/ CreateRoute(r) PROVE IInv'
  BY <1>4, RouteAddedKeepsInv, CreateRouteKeepsInv
<1>5. ASSUME Elect \/ Demote PROVE IInv'
  BY <1>5, ElectorKeepsInv DEF Elect
<1>6. ASSUME Work PROVE IInv'
  BY <1>6, LoadKeepsInv, ReconcileKeepsInv, WorkerGetKeepsInv DEF Work
<1>7. ASSUME NEW name \in ConfigNames, EditConfigMap(name) PROVE IInv'
  BY <1>7, EditConfigMapKeepsInv
<1>8. ASSUME UNCHANGED vars PROVE IInv'
  BY <1>8, ConfigFrame, StoreFrame, InjectFrame, RunFrame, SyncFrame, UseFrame
     DEF vars, IInv, Typed, routeVars, workVars, configVars
<1> QED BY <1>1, <1>2, <1>3, <1>4, <1>5, <1>6, <1>7, <1>8 DEF Next

LEMMA AlwaysIInv == Spec => []IInv
  BY InitInv, NextKeepsInv, PTL DEF Spec

-----------------------------------------------------------------------------
(* The theorems.                                                           *)

(* A short sequence of versions is a configuration as a run loads it.      *)
LEMMA SequencesAreConfigs ==
  ASSUME NEW s \in Seq(Versions), Len(s) <= 4
  PROVE  s \in Configs
<1>1. Len(s) \in Nat /\ s \in [1 .. Len(s) -> Versions]
  BY LenProperties
<1>2. Len(s) \in 0 .. Len(LoadOrder)
  <2>1. Len(LoadOrder) = 4
    BY Order
  <2> QED BY <1>1, <2>1
<1> QED BY <1>1, <1>2 DEF Configs

(* Every variable has its type: no run, however early and whatever was     *)
(* edited or removed before, loads a piece of configuration that is nil.   *)
THEOREM TypeCorrect == Spec => []TypeOK
<1>1. IInv => TypeOK
  <2> SUFFICES ASSUME IInv PROVE TypeOK
    OBVIOUS
  <2>1. run.loaded \in Configs
    BY SequencesAreConfigs DEF IInv, Typed, RunTyped
  <2>2. lastRun \in [Routes -> Configs]
    BY SequencesAreConfigs DEF IInv, Typed, RunTyped
  <2> QED BY <2>1, <2>2 DEF TypeOK, IInv, Typed, ConfigTyped, InjectionTyped, RunTyped
<1> QED BY <1>1, AlwaysIInv, PTL

(* A Route with nothing on its way was last reconciled with the pieces of  *)
(* configuration that the store holds, whenever they came.                 *)
THEOREM SettledRoutesAreCurrent == Spec => []RunsUseTheStore
<1>1. IInv => RunsUseTheStore
  <2> SUFFICES ASSUME IInv, NEW r \in Routes, Settled(r)
               PROVE  /\ lastRun[r] # NoRun
                      /\ \A i \in DOMAIN LoadOrder : LoadOrder[i] # "config-features"
                                                     => lastRun[r][i] = stored[LoadOrder[i]]
    BY DEF RunsUseTheStore
  <2>1. /\ Promoted /\ r \in cached /\ r \notin queue /\ run.route # r
        /\ \A i \in Pieces : callback # LoadOrder[i]
    BY Order DEF Settled
  <2>2. \A i \in Pieces : LoadOrder[i] # "config-features"
                             => Len(lastRun[r]) = 4 /\ lastRun[r][i] = stored[LoadOrder[i]]
    BY <2>1 DEF IInv, UseInv
  <2>3. 1 \in Pieces /\ LoadOrder[1] # "config-features"
    BY DEF Pieces, LoadOrder
  <2>4. lastRun[r] # NoRun
    BY <2>2, <2>3, EmptySeq DEF NoRun
  <2> QED BY <2>2, <2>4, Order
<1> QED BY <1>1, AlwaysIInv, PTL

(* The workers start after every informer the reconciler reads has synced. *)
THEOREM CachesAreSynced == Spec => []RunsSeeSyncedCaches
<1>1. IInv => RunsSeeSyncedCaches
  <2> SUFFICES ASSUME IInv, run # Idle, NEW k \in Kinds
               PROVE  <<k, lister[k]>> \in informers.synced
    BY DEF RunsSeeSyncedCaches
  <2>1. informers.synced = Started /\ main \in {"run", "fatal"}
    BY DEF IInv, SyncInv
  <2>2. lister[k] = 1
    BY <2>1 DEF IInv, InjectInv
  <2> QED BY <2>1, <2>2 DEF Started
<1> QED BY <1>1, AlwaysIInv, PTL
=============================================================================
