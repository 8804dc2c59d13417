---------------------------- MODULE TwoLaneQueue ----------------------------
(***************************************************************************)
(* The two-lane work queue of a controller and the goroutines around it:   *)
(* one producer for each lane takes keys off the lane and offers them on a *)
(* channel, the consumer moves them from the channels to the consumer      *)
(* queue, and the workers of RunContext take them from there and reconcile *)
(* them.  Failed keys return to the fast lane after a delay.               *)
(***************************************************************************)
EXTENDS Naturals, Sequences, FiniteSets

CONSTANTS Keys, Workers, None,
          FastKeys, SlowKeys,   \* keys that are enqueued on each lane
          FailingKeys           \* keys whose Reconcile may return an error

KeysAssumption ==
  /\ FastKeys \subseteq Keys /\ SlowKeys \subseteq Keys /\ FailingKeys \subseteq Keys
  /\ None \notin Keys
ASSUME KeysAssumption

(* RunContext starts at least one worker: DefaultThreadsPerController is 2 *)
(* where no concurrency is given.                                          *)
WorkersAssumption == Workers # {}
ASSUME WorkersAssumption

Lanes == {"fast", "slow"}

VARIABLES lane,          \* the two rate limited queues
          producer,      \* process: where it is and the key it holds
          consumer,      \* runConsumer: which select, which lanes are not closed
          consumerQueue,
          retries,       \* keys that wait in the fast lane for their delay
          worker,        \* processNextWorkItem: where it is and its key
          main           \* RunContext

queueVars == <<lane, producer, consumer, consumerQueue>>
vars == <<queueVars, retries, worker, main>>

-----------------------------------------------------------------------------
(* workqueue.Type.                                                         *)

NewQueue == [queue |-> << >>, dirty |-> {}, processing |-> {}, shuttingDown |-> FALSE]

(* Mutation: an item in process is queued again at once. *)
AddWithoutProcessing(q, item) ==
  IF q.shuttingDown \/ item \in q.dirty THEN q
  ELSE [q EXCEPT !.dirty = @ \cup {item}, !.queue = Append(@, item)]

(* Mutation: an item in process is not marked dirty. *)
AddIgnoresProcessed(q, item) ==
  IF q.shuttingDown \/ item \in q.dirty \cup q.processing THEN q
  ELSE [q EXCEPT !.dirty = @ \cup {item}, !.queue = Append(@, item)]

Add(q, item) ==
  IF q.shuttingDown \/ item \in q.dirty THEN q
  ELSE [q EXCEPT !.dirty = @ \cup {item},
                 !.queue = IF item \in q.processing THEN @ ELSE Append(@, item)]

Get(q) ==
  LET item == Head(q.queue)
  IN  [q EXCEPT !.queue = Tail(@), !.processing = @ \cup {item}, !.dirty = @ \ {item}]

(* Mutation: an item that became dirty in process is not queued. *)
DoneWithoutRequeue(q, item) == [q EXCEPT !.processing = @ \ {item}]

Done(q, item) ==
  [q EXCEPT !.processing = @ \ {item},
            !.queue = IF item \in q.dirty THEN Append(@, item) ELSE @]

ShutDown(q) == [q EXCEPT !.shuttingDown = TRUE]

(* Get says that the caller should stop.                                   *)
Finished(q) == q.queue = << >> /\ q.shuttingDown

-----------------------------------------------------------------------------
(* process, once for each lane.                                            *)

ProducerGet(l) ==
  /\ producer[l].at = "get"
  /\ lane[l].queue # << >>
  /\ producer' = [producer EXCEPT ![l] = [at |-> "done", item |-> Head(lane[l].queue)]]
  /\ lane' = [lane EXCEPT ![l] = Get(@)]
  /\ UNCHANGED <<consumer, consumerQueue, retries, worker, main>>

(* q.Done, and the goroutine parks on the channel.                         *)
ProducerDone(l) ==
  /\ producer[l].at = "done"
  /\ producer' = [producer EXCEPT ![l].at = "send"]
  /\ lane' = [lane EXCEPT ![l] = Done(@, producer[l].item)]
  /\ UNCHANGED <<consumer, consumerQueue, retries, worker, main>>

ProducerClose(l) ==
  /\ producer[l].at = "get"
  /\ Finished(lane[l])
  /\ producer' = [producer EXCEPT ![l].at = "closed"]
  /\ UNCHANGED <<lane, consumer, consumerQueue, retries, worker, main>>

-----------------------------------------------------------------------------
(* runConsumer.                                                            *)

(* The first select looks at the fast lane only, the second at both.       *)
Listens(l) ==
  \/ consumer.at = "first" /\ l = "fast" /\ consumer.open["fast"]
  \/ consumer.at = "both"

(* The send and the receive of an unbuffered channel are one step.         *)
Receive(l) ==
  /\ Listens(l)
  /\ producer[l].at = "send"
  /\ consumerQueue' = Add(consumerQueue, producer[l].item)
  /\ producer' = [producer EXCEPT ![l] = [at |-> "get", item |-> None]]
  /\ consumer' = [consumer EXCEPT !.at = "first"]
  /\ UNCHANGED <<lane, retries, worker, main>>

(* Mutation: a closed fast lane ends the consumer. *)
ReceiveClosedEndsBoth(l) ==
  /\ Listens(l)
  /\ producer[l].at = "closed"
  /\ consumer' = [at |-> "first", open |-> [m \in Lanes |-> FALSE]]
  /\ UNCHANGED <<lane, producer, consumerQueue, retries, worker, main>>

ReceiveClosed(l) ==
  /\ Listens(l)
  /\ producer[l].at = "closed"
  /\ consumer' = [consumer EXCEPT !.at = "first", !.open[l] = FALSE]
  /\ UNCHANGED <<lane, producer, consumerQueue, retries, worker, main>>

SomeOpen == \E l \in Lanes : consumer.open[l]

(* The default case of the first select, which a closed fast lane skips.   *)
NothingFast ==
  /\ consumer.at = "first"
  /\ SomeOpen
  /\ consumer.open["fast"] => producer["fast"].at \notin {"send", "closed"}
  /\ consumer' = [consumer EXCEPT !.at = "both"]
  /\ UNCHANGED <<lane, producer, consumerQueue, retries, worker, main>>

ConsumerStop ==
  /\ consumer.at = "first"
  /\ ~SomeOpen
  /\ consumer' = [consumer EXCEPT !.at = "stopped"]
  /\ consumerQueue' = ShutDown(consumerQueue)
  /\ UNCHANGED <<lane, producer, retries, worker, main>>

-----------------------------------------------------------------------------
(* Whoever enqueues: EnqueueKey, EnqueueSlowKey.                           *)

EnqueueOn(l, key) ==
  /\ lane' = [lane EXCEPT ![l] = Add(@, key)]
  /\ UNCHANGED <<producer, consumer, consumerQueue, worker, main>>

EnqueueKey(key)     == key \in FastKeys /\ EnqueueOn("fast", key) /\ UNCHANGED retries
EnqueueSlowKey(key) == key \in SlowKeys /\ EnqueueOn("slow", key) /\ UNCHANGED retries

(* AddAfter of the fast lane.                                              *)
AddAfter(key) ==
  retries' = IF lane["fast"].shuttingDown THEN retries ELSE retries \cup {key}

(* waitingLoop, until the fast lane shuts down.                            *)
RetryIsDue(key) ==
  /\ key \in retries
  /\ ~lane["fast"].shuttingDown
  /\ EnqueueOn("fast", key)
  /\ retries' = retries \ {key}

-----------------------------------------------------------------------------
(* The workers: processNextWorkItem.                                       *)

WorkerGet(w) ==
  /\ worker[w].at = "get"
  /\ consumerQueue.queue # << >>
  /\ worker' = [worker EXCEPT ![w] = [at |-> "run", key |-> Head(consumerQueue.queue)]]
  /\ consumerQueue' = Get(consumerQueue)
  /\ UNCHANGED <<lane, producer, consumer, retries, main>>

(* Reconcile returns no error, a skip or a permanent error.                *)
Reconciled(w) ==
  /\ worker[w].at = "run"
  /\ worker' = [worker EXCEPT ![w].at = "done"]
  /\ UNCHANGED <<queueVars, retries, main>>

(* handleErr of an error that is not permanent.                            *)
ReconcileFails(w) ==
  /\ worker[w].at = "run"
  /\ worker[w].key \in FailingKeys
  /\ worker' = [worker EXCEPT ![w].at = "done"]
  /\ AddAfter(worker[w].key)
  /\ UNCHANGED <<queueVars, main>>

WorkerDone(w) ==
  /\ worker[w].at = "done"
  /\ worker' = [worker EXCEPT ![w] = [at |-> "get", key |-> None]]
  /\ consumerQueue' = Done(consumerQueue, worker[w].key)
  /\ UNCHANGED <<lane, producer, consumer, retries, main>>

WorkerExit(w) ==
  /\ worker[w].at = "get"
  /\ Finished(consumerQueue)
  /\ worker' = [worker EXCEPT ![w].at = "exited"]
  /\ UNCHANGED <<queueVars, retries, main>>

-----------------------------------------------------------------------------
(* The end of RunContext.  ShutDown shuts down one lane after the other;   *)
(* Len, which reads the three queues one after another, is called until it *)
(* is zero; then the workers are waited for.                               *)

ShutDownLane(l, from, to) ==
  /\ main = from
  /\ main' = to
  /\ lane' = [lane EXCEPT ![l] = ShutDown(@)]
  /\ UNCHANGED <<producer, consumer, consumerQueue, retries, worker>>

ShutDownLanes ==
  \/ ShutDownLane("fast", "running", "stopping")
  \/ ShutDownLane("slow", "stopping", "len fast")

ReadLen(q, from, to) ==
  /\ main = from
  /\ main' = IF q.queue = << >> THEN to ELSE "len fast"
  /\ UNCHANGED <<queueVars, retries, worker>>

WaitForLen ==
  \/ ReadLen(lane["fast"], "len fast", "len slow")
  \/ ReadLen(lane["slow"], "len slow", "len consumer")
  \/ ReadLen(consumerQueue, "len consumer", "wait")

(* Mutation: RunContext returns when Len is zero. *)
WaitForNoWorker ==
  /\ main = "wait"
  /\ main' = "returned"
  /\ UNCHANGED <<queueVars, retries, worker>>

WaitForWorkers ==
  /\ main = "wait"
  /\ \A w \in Workers : worker[w].at = "exited"
  /\ main' = "returned"
  /\ UNCHANGED <<queueVars, retries, worker>>

-----------------------------------------------------------------------------
Init ==
  /\ lane = [l \in Lanes |-> NewQueue]
  /\ producer = [l \in Lanes |-> [at |-> "get", item |-> None]]
  /\ consumer = [at |-> "first", open |-> [l \in Lanes |-> TRUE]]
  /\ consumerQueue = NewQueue
  /\ retries = {}
  /\ worker = [w \in Workers |-> [at |-> "get", key |-> None]]
  /\ main = "running"

Produce(l) == ProducerGet(l) \/ ProducerDone(l) \/ ProducerClose(l)
Consume    == NothingFast \/ ConsumerStop \/ \E l \in Lanes : Receive(l) \/ ReceiveClosed(l)
Enqueue(k) == EnqueueKey(k) \/ EnqueueSlowKey(k)
Work(w)    == \/ WorkerGet(w)
              \/ Reconciled(w)
              \/ ReconcileFails(w)
              \/ WorkerDone(w)
              \/ WorkerExit(w)

Next ==
  \/ \E l \in Lanes : Produce(l)
  \/ Consume
  \/ \E k \in Keys : Enqueue(k) \/ RetryIsDue(k)
  \/ \E w \in Workers : Work(w)
  \/ ShutDownLanes
  \/ WaitForLen
  \/ WaitForWorkers

Spec == Init /\ [][Next]_vars

(* Every goroutine is scheduled, a timer fires, Reconcile returns; a       *)
(* select picks at random among the channels that are ready.               *)
Fairness ==
  /\ \A l \in Lanes : WF_vars(Produce(l)) /\ SF_vars(Receive(l) \/ ReceiveClosed(l))
  /\ WF_vars(Consume)
  /\ \A k \in Keys : WF_vars(RetryIsDue(k))
  /\ \A w \in Workers : WF_vars(Work(w))
  /\ WF_vars(main # "running" /\ (ShutDownLanes \/ WaitForLen \/ WaitForWorkers))

FairSpec == Spec /\ Fairness

-----------------------------------------------------------------------------
(* Properties.                                                             *)

(* Every element of a queue is in the dirty set and not in process, once.  *)
QueueType(q) ==
  /\ q.queue \in Seq(Keys)
  /\ \A i \in DOMAIN q.queue : q.queue[i] \in q.dirty \ q.processing
  /\ \A i, j \in DOMAIN q.queue : q.queue[i] = q.queue[j] => i = j
  /\ q.dirty \subseteq Keys /\ q.processing \subseteq Keys
  /\ q.shuttingDown \in BOOLEAN

(* The type of every variable; the queues are as workqueue.Type describes  *)
(* them.                                                                   *)
TypeOK ==
  /\ DOMAIN lane = Lanes /\ \A l \in Lanes : QueueType(lane[l])
  /\ producer \in [Lanes -> [at : {"get", "done", "send", "closed"}, item : Keys \cup {None}]]
  /\ consumer \in [at : {"first", "both", "stopped"}, open : [Lanes -> BOOLEAN]]
  /\ QueueType(consumerQueue)
  /\ retries \subseteq Keys
  /\ worker \in [Workers -> [at : {"get", "run", "done", "exited"}, key : Keys \cup {None}]]
  /\ main \in {"running", "stopping", "len fast", "len slow", "len consumer", "wait", "returned"}

(* Keys on their way to a worker, wherever they are.                       *)
OnTheWay ==
  lane["fast"].dirty \cup lane["slow"].dirty \cup consumerQueue.dirty
    \cup {producer[l].item : l \in {l \in Lanes : producer[l].at \in {"done", "send"}}}

(* The two lanes, the goroutines that hold keys between them and the       *)
(* consumer queue make one work queue: no key is lost on the way and none  *)
(* is handed out to two workers.                                           *)
Queue == INSTANCE WorkQueue WITH
  pending <- OnTheWay,
  running <- consumerQueue.processing,
  open    <- \E l \in Lanes : ~lane[l].shuttingDown

IsWorkQueue == Queue!Spec

(* The workers reconcile different keys, however often and on whichever    *)
(* lane a key is enqueued meanwhile.                                       *)
OneWorkerPerKey ==
  \A v, w \in Workers : v # w /\ worker[v].key = worker[w].key => worker[v].key = None

(* RunContext returns only when every key the lanes accepted has been      *)
(* reconciled and no worker reconciles, whatever Len misses: a key in the  *)
(* hands of a producer is in none of the three queues.                     *)
ReturnsWhenDrained ==
  main = "returned" => OnTheWay = {} /\ \A w \in Workers : worker[w].at = "exited"

(* A key on the fast lane is reconciled after that, whatever the slow lane *)
(* holds and while keys keep coming.                                       *)
FastIsServed ==
  \A k \in Keys : k \in lane["fast"].dirty ~> k \in consumerQueue.processing

(* A key on the slow lane is reconciled once the fast lane falls silent.   *)
SlowIsServed ==
  \A k \in Keys :
    <>[](lane["fast"].dirty = {}) =>
      (k \in lane["slow"].dirty ~> k \in consumerQueue.processing)

(* A shutdown completes, with the lanes as full as they are.               *)
ShutdownCompletes == main # "running" ~> main = "returned"
=============================================================================
