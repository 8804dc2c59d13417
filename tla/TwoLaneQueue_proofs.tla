------------------------ MODULE TwoLaneQueue_proofs ------------------------
(***************************************************************************)
(* Proofs about TwoLaneQueue for every set of keys and workers: its type   *)
(* invariant, that workers reconcile different keys, that RunContext       *)
(* returns only when everything is drained, and that the two lanes and the *)
(* goroutines between them implement one WorkQueue.                        *)
(***************************************************************************)
EXTENDS TwoLaneQueue, SequenceTheorems, TLAPS

-----------------------------------------------------------------------------
(* The inductive invariant.                                                *)

Queues ==
  [queue : Seq(Keys), dirty : SUBSET Keys, processing : SUBSET Keys, shuttingDown : BOOLEAN]

(* A sequence lists the elements of a set, each once.                      *)
Lists(s, S) ==
  /\ s \in Seq(Keys)
  /\ \A i \in 1 .. Len(s) : s[i] \in S
  /\ \A i, j \in 1 .. Len(s) : s[i] = s[j] => i = j
  /\ \A k \in S : \E i \in 1 .. Len(s) : s[i] = k

(* The queue holds the dirty keys that are not in process.                 *)
QueueInv(q) == q \in Queues /\ Lists(q.queue, q.dirty \ q.processing)

Producers == [at : {"get", "done", "send", "closed"}, item : Keys \cup {None}]
Consumers == [at : {"first", "both", "stopped"}, open : [Lanes -> BOOLEAN]]
Threads   == [at : {"get", "run", "done", "exited"}, key : Keys \cup {None}]
Mains == {"running", "stopping", "len fast", "len slow", "len consumer", "wait", "returned"}

(* A lane has in process what its producer is about to mark done, and a    *)
(* producer closes its channel when the lane is empty for good.            *)
LaneInv(q, p) ==
  /\ QueueInv(q)
  /\ p \in Producers
  /\ p.at \in {"done", "send"} => p.item \in Keys
  /\ p.at \in {"get", "closed"} => p.item = None
  /\ q.processing = IF p.at = "done" THEN {p.item} ELSE {}
  /\ p.at = "closed" => q.shuttingDown /\ q.queue = << >>

ProducersInv ==
  /\ lane \in [Lanes -> Queues]
  /\ producer \in [Lanes -> Producers]
  /\ \A l \in Lanes : LaneInv(lane[l], producer[l])

(* The consumer queue shuts down after both channels are closed.           *)
ConsumerInv ==
  /\ consumer \in Consumers
  /\ \A l \in Lanes : consumer.open[l] \/ producer[l].at = "closed"
  /\ consumer.at = "stopped" => \A l \in Lanes : ~consumer.open[l]
  /\ consumerQueue.shuttingDown => consumer.at = "stopped"

Busy(w) == worker[w].at \in {"run", "done"}

(* The keys in process are those of the busy workers, one for each.        *)
WorkersInv ==
  /\ QueueInv(consumerQueue)
  /\ worker \in [Workers -> Threads]
  /\ \A w \in Workers : Busy(w) => worker[w].key \in consumerQueue.processing
  /\ \A w \in Workers : ~Busy(w) => worker[w].key = None
  /\ \A k \in consumerQueue.processing : \E w \in Workers : Busy(w) /\ worker[w].key = k
  /\ OneWorkerPerKey

(* The last worker to exit leaves the consumer queue empty.                *)
ExitInv ==
  /\ \A w \in Workers : worker[w].at = "exited" => consumerQueue.shuttingDown
  /\ (\A w \in Workers : worker[w].at = "exited") => consumerQueue.queue = << >>
  /\ main = "returned" => \A w \in Workers : worker[w].at = "exited"

IInv ==
  /\ ProducersInv
  /\ ConsumerInv
  /\ WorkersInv
  /\ ExitInv
  /\ retries \subseteq Keys
  /\ main \in Mains

-----------------------------------------------------------------------------
(* workqueue.Type.                                                         *)

LEMMA AppendLists ==
  ASSUME NEW s, NEW S, Lists(s, S), NEW item \in Keys, item \notin S
  PROVE  Lists(Append(s, item), S \cup {item})
<1> DEFINE t == Append(s, item)
<1>1. s \in Seq(Keys) /\ Len(s) \in Nat
  BY LenProperties DEF Lists
<1>2. /\ t \in Seq(Keys)
      /\ Len(t) = Len(s) + 1
      /\ \A i \in 1 .. Len(s) : t[i] = s[i]
      /\ t[Len(s) + 1] = item
  BY <1>1, AppendProperties
<1> HIDE DEF t
<1>3. /\ \A i \in 1 .. Len(t) : i \in 1 .. Len(s) \/ i = Len(s) + 1
      /\ \A i \in 1 .. Len(s) : i \in 1 .. Len(t)
      /\ Len(s) + 1 \in 1 .. Len(t)
  BY <1>1, <1>2
<1>4. \A i \in 1 .. Len(s) : t[i] \in S /\ t[i] # item
  BY <1>2 DEF Lists
<1>5. \A i \in 1 .. Len(t) : t[i] \in S \cup {item}
  BY <1>2, <1>3, <1>4
<1>6. \A i, j \in 1 .. Len(t) : t[i] = t[j] => i = j
  <2> SUFFICES ASSUME NEW i \in 1 .. Len(t), NEW j \in 1 .. Len(t), t[i] = t[j]
               PROVE  i = j
    OBVIOUS
  <2>1. CASE i \in 1 .. Len(s) /\ j \in 1 .. Len(s)
    BY <1>2, <2>1 DEF Lists
  <2>2. CASE i = Len(s) + 1 \/ j = Len(s) + 1
    BY <1>2, <1>3, <1>4, <2>2
  <2> QED BY <1>3, <2>1, <2>2
<1>7. \A k \in S \cup {item} : \E i \in 1 .. Len(t) : t[i] = k
  BY <1>2, <1>3 DEF Lists
<1> QED BY <1>2, <1>5, <1>6, <1>7 DEF Lists, t

LEMMA TailLists ==
  ASSUME NEW s, NEW S, Lists(s, S), s # << >>
  PROVE  /\ Head(s) \in Keys /\ Head(s) \in S
         /\ Lists(Tail(s), S \ {Head(s)})
<1> DEFINE t == Tail(s)
<1>1. s \in Seq(Keys) /\ Len(s) \in Nat \ {0} /\ Head(s) = s[1]
  BY EmptySeq DEF Lists
<1>2. /\ Head(s) \in Keys
      /\ t \in Seq(Keys)
      /\ Len(t) = Len(s) - 1
      /\ \A i \in 1 .. Len(t) : t[i] = s[i + 1]
  BY <1>1, HeadTailProperties
<1> HIDE DEF t
<1>3. \A i \in 1 .. Len(t) : i + 1 \in 1 .. Len(s) /\ i + 1 # 1
  BY <1>1, <1>2
<1>4. 1 \in 1 .. Len(s)
  BY <1>1
<1>5. \A i \in 1 .. Len(t) : t[i] \in S \ {Head(s)}
  BY <1>1, <1>2, <1>3, <1>4 DEF Lists
<1>6. \A i, j \in 1 .. Len(t) : t[i] = t[j] => i = j
  <2> SUFFICES ASSUME NEW i \in 1 .. Len(t), NEW j \in 1 .. Len(t), t[i] = t[j]
               PROVE  i = j
    OBVIOUS
  <2>1. i + 1 = j + 1
    BY <1>2, <1>3 DEF Lists
  <2> QED BY <2>1
<1>7. \A k \in S \ {Head(s)} : \E i \in 1 .. Len(t) : t[i] = k
  <2> SUFFICES ASSUME NEW k \in S, k # Head(s)
               PROVE  \E i \in 1 .. Len(t) : t[i] = k
    OBVIOUS
  <2>1. PICK i \in 1 .. Len(s) : s[i] = k
    BY DEF Lists
  <2>2. i # 1
    BY <1>1, <2>1
  <2>3. i - 1 \in 1 .. Len(t) /\ (i - 1) + 1 = i
    BY <1>1, <1>2, <2>2
  <2> QED BY <1>2, <2>1, <2>3
<1>8. Head(s) \in S
  BY <1>1, <1>4 DEF Lists
<1> QED BY <1>2, <1>5, <1>6, <1>7, <1>8 DEF Lists, t

LEMMA NewQueueInv == QueueInv(NewQueue)
<1>1. << >> \in Seq(Keys) /\ Len(<< >>) = 0
  BY EmptySeq
<1>2. Lists(<< >>, {} \ {})
  BY <1>1 DEF Lists
<1> QED BY <1>1, <1>2 DEF QueueInv, NewQueue, Queues

(* Add marks a key dirty unless the queue shuts down.                      *)
LEMMA AddEffect ==
  ASSUME NEW q, QueueInv(q), NEW item \in Keys
  PROVE  /\ QueueInv(Add(q, item))
         /\ Add(q, item).processing = q.processing
         /\ Add(q, item).shuttingDown = q.shuttingDown
         /\ Add(q, item).dirty = IF q.shuttingDown THEN q.dirty ELSE q.dirty \cup {item}
         /\ q.shuttingDown => Add(q, item) = q
<1>1. q \in Queues /\ Lists(q.queue, q.dirty \ q.processing)
  BY DEF QueueInv
<1>2. CASE q.shuttingDown \/ item \in q.dirty
  <2>1. Add(q, item) = q
    BY <1>2 DEF Add
  <2>2. q.shuttingDown \/ q.dirty \cup {item} = q.dirty
    BY <1>2
  <2> QED BY <2>1, <2>2
<1>3. CASE ~q.shuttingDown /\ item \notin q.dirty
  <2> DEFINE s == IF item \in q.processing THEN q.queue ELSE Append(q.queue, item)
  <2>1. Add(q, item) = [queue |-> s, dirty |-> q.dirty \cup {item},
                        processing |-> q.processing, shuttingDown |-> q.shuttingDown]
    BY <1>1, <1>3 DEF Add, Queues
  <2>2. Lists(s, (q.dirty \cup {item}) \ q.processing)
    <3>1. CASE item \in q.processing
      <4>1. (q.dirty \cup {item}) \ q.processing = q.dirty \ q.processing
        BY <3>1
      <4> QED BY <1>1, <3>1, <4>1
    <3>2. CASE item \notin q.processing
      <4>1. (q.dirty \cup {item}) \ q.processing = (q.dirty \ q.processing) \cup {item}
        BY <3>2
      <4>2. Lists(Append(q.queue, item), (q.dirty \ q.processing) \cup {item})
        BY <1>1, <1>3, AppendLists
      <4> QED BY <3>2, <4>1, <4>2
    <3> QED BY <3>1, <3>2
  <2>3. s \in Seq(Keys)
    BY <2>2 DEF Lists
  <2> HIDE DEF s
  <2> QED BY <1>1, <1>3, <2>1, <2>2, <2>3 DEF QueueInv, Queues
<1> QED BY <1>2, <1>3

(* Get hands out a dirty key that is not in process.                       *)
LEMMA GetEffect ==
  ASSUME NEW q, QueueInv(q), q.queue # << >>
  PROVE  /\ Head(q.queue) \in Keys
         /\ Head(q.queue) \in q.dirty \ q.processing
         /\ QueueInv(Get(q))
         /\ Get(q).processing = q.processing \cup {Head(q.queue)}
         /\ Get(q).dirty = q.dirty \ {Head(q.queue)}
         /\ Get(q).shuttingDown = q.shuttingDown
<1> DEFINE item == Head(q.queue)
           t == Tail(q.queue)
<1>1. q \in Queues /\ Lists(q.queue, q.dirty \ q.processing)
  BY DEF QueueInv
<1>2. Get(q) = [queue |-> t, dirty |-> q.dirty \ {item},
                processing |-> q.processing \cup {item}, shuttingDown |-> q.shuttingDown]
  <2>1. Get(q) = [q EXCEPT !.queue = t, !.processing = q.processing \cup {item},
                           !.dirty = q.dirty \ {item}]
    BY DEF Get
  <2> HIDE DEF t, item
  <2> QED BY <1>1, <2>1 DEF Queues
<1>3. /\ item \in Keys /\ item \in q.dirty \ q.processing
      /\ Lists(t, (q.dirty \ q.processing) \ {item})
  BY <1>1, TailLists
<1> HIDE DEF t, item
<1>4. (q.dirty \ {item}) \ (q.processing \cup {item}) = (q.dirty \ q.processing) \ {item}
  OBVIOUS
<1>5. t \in Seq(Keys)
  BY <1>3 DEF Lists
<1>6. QueueInv(Get(q))
  <2>1. Get(q) \in Queues
    BY <1>1, <1>2, <1>3, <1>5 DEF Queues
  <2>2. /\ Get(q).queue = t
        /\ Get(q).dirty \ Get(q).processing = (q.dirty \ q.processing) \ {item}
    BY <1>2, <1>4
  <2> QED BY <1>3, <2>1, <2>2 DEF QueueInv
<1> QED BY <1>2, <1>3, <1>6 DEF item

(* Done queues a key again that became dirty in process.                   *)
LEMMA DoneEffect ==
  ASSUME NEW q, QueueInv(q), NEW item \in q.processing
  PROVE  /\ QueueInv(Done(q, item))
         /\ Done(q, item).processing = q.processing \ {item}
         /\ Done(q, item).dirty = q.dirty
         /\ Done(q, item).shuttingDown = q.shuttingDown
<1> DEFINE s == IF item \in q.dirty THEN Append(q.queue, item) ELSE q.queue
<1>1. q \in Queues /\ Lists(q.queue, q.dirty \ q.processing) /\ item \in Keys
  BY DEF QueueInv, Queues
<1>2. Done(q, item) = [queue |-> s, dirty |-> q.dirty,
                       processing |-> q.processing \ {item}, shuttingDown |-> q.shuttingDown]
  <2>1. Done(q, item) = [q EXCEPT !.processing = q.processing \ {item}, !.queue = s]
    BY DEF Done
  <2> HIDE DEF s
  <2> QED BY <1>1, <2>1 DEF Queues
<1>3. Lists(s, q.dirty \ (q.processing \ {item}))
  <2>1. CASE item \in q.dirty
    <3>1. q.dirty \ (q.processing \ {item}) = (q.dirty \ q.processing) \cup {item}
      BY <2>1
    <3>2. Lists(Append(q.queue, item), (q.dirty \ q.processing) \cup {item})
      BY <1>1, AppendLists
    <3> QED BY <2>1, <3>1, <3>2
  <2>2. CASE item \notin q.dirty
    <3>1. q.dirty \ (q.processing \ {item}) = q.dirty \ q.processing
      BY <2>2
    <3> QED BY <1>1, <2>2, <3>1
  <2> QED BY <2>1, <2>2
<1>4. s \in Seq(Keys)
  BY <1>3 DEF Lists
<1> HIDE DEF s
<1>5. Done(q, item) \in Queues
  BY <1>1, <1>2, <1>4 DEF Queues
<1> QED BY <1>2, <1>3, <1>5 DEF QueueInv

LEMMA ShutDownEffect ==
  ASSUME NEW q, QueueInv(q)
  PROVE  /\ QueueInv(ShutDown(q))
         /\ ShutDown(q).queue = q.queue /\ ShutDown(q).dirty = q.dirty
         /\ ShutDown(q).processing = q.processing
         /\ ShutDown(q).shuttingDown
  BY DEF QueueInv, Queues, ShutDown

(* An empty queue with nothing in process has nothing dirty.               *)
LEMMA EmptyIsClean ==
  ASSUME NEW q, QueueInv(q), q.queue = << >>, q.processing = {}
  PROVE  q.dirty = {}
<1>1. Len(q.queue) = 0
  BY EmptySeq
<1> QED BY <1>1 DEF QueueInv, Queues, Lists

-----------------------------------------------------------------------------
(* Steps of a lane and its producer.                                       *)

LEMMA LaneStep ==
  ASSUME ProducersInv, NEW l \in Lanes, NEW q, NEW p, LaneInv(q, p),
         lane' = [lane EXCEPT ![l] = q], producer' = [producer EXCEPT ![l] = p]
  PROVE  ProducersInv'
<1>1. /\ lane'[l] = q /\ producer'[l] = p
      /\ \A m \in Lanes \ {l} : lane'[m] = lane[m] /\ producer'[m] = producer[m]
  BY DEF ProducersInv
<1>2. q \in Queues /\ p \in Producers
  BY DEF LaneInv, QueueInv
<1>3. lane' \in [Lanes -> Queues] /\ producer' \in [Lanes -> Producers]
  BY <1>2 DEF ProducersInv
<1>4. \A m \in Lanes : LaneInv(lane'[m], producer'[m])
  BY <1>1 DEF ProducersInv
<1> QED BY <1>3, <1>4 DEF ProducersInv

LEMMA OnlyLaneStep ==
  ASSUME ProducersInv, NEW l \in Lanes, NEW q, LaneInv(q, producer[l]),
         lane' = [lane EXCEPT ![l] = q], UNCHANGED producer
  PROVE  ProducersInv'
<1>1. producer' = [producer EXCEPT ![l] = producer[l]]
  BY DEF ProducersInv
<1> QED BY <1>1, LaneStep

(* A closed channel stays closed, so the consumer may go on.               *)
LEMMA ConsumerFrame ==
  ASSUME ConsumerInv, UNCHANGED <<consumer, consumerQueue>>,
         \A m \in Lanes : producer[m].at = "closed" => producer'[m].at = "closed"
  PROVE  ConsumerInv'
  BY DEF ConsumerInv

LEMMA WorkersFrame ==
  ASSUME WorkersInv, UNCHANGED <<consumerQueue, worker>>
  PROVE  WorkersInv'
  BY DEF WorkersInv, Busy, OneWorkerPerKey

LEMMA ExitFrame ==
  ASSUME ExitInv, UNCHANGED <<consumerQueue, worker, main>>
  PROVE  ExitInv'
  BY DEF ExitInv

(* What leaves the consumer, the consumer queue, the workers and RunContext *)
(* alone keeps what is said of them.                                       *)
LEMMA RestFrame ==
  ASSUME IInv, UNCHANGED <<consumer, consumerQueue, worker, main>>,
         \A m \in Lanes : producer[m].at = "closed" => producer'[m].at = "closed"
  PROVE  ConsumerInv' /\ WorkersInv' /\ ExitInv' /\ main' \in Mains
  BY ConsumerFrame, WorkersFrame, ExitFrame DEF IInv

LEMMA InitInv == Init => IInv
<1> SUFFICES ASSUME Init PROVE IInv
  OBVIOUS
<1> USE DEF Init
<1>1. QueueInv(NewQueue) /\ NewQueue \in Queues
  BY NewQueueInv DEF QueueInv
<1>2. ProducersInv
  <2>1. [at |-> "get", item |-> None] \in Producers
    BY DEF Producers
  <2>2. LaneInv(NewQueue, [at |-> "get", item |-> None])
    BY <1>1, <2>1 DEF LaneInv, NewQueue
  <2> QED BY <1>1, <2>1, <2>2 DEF ProducersInv
<1>3. ConsumerInv
  BY DEF ConsumerInv, Consumers, NewQueue
<1>4. WorkersInv
  BY <1>1 DEF WorkersInv, Threads, Busy, OneWorkerPerKey, NewQueue
<1>5. ExitInv
  BY DEF ExitInv, NewQueue
<1> QED BY <1>2, <1>3, <1>4, <1>5 DEF IInv, Mains

LEMMA ProducerGetKeepsInv ==
  ASSUME IInv, NEW l \in Lanes, ProducerGet(l)
  PROVE  IInv'
<1> DEFINE q == Get(lane[l])
           p == [at |-> "done", item |-> Head(lane[l].queue)]
<1>1. LaneInv(lane[l], producer[l]) /\ lane[l].queue # << >> /\ producer[l].at = "get"
  BY DEF IInv, ProducersInv, ProducerGet
<1>2. /\ p.item \in Keys /\ QueueInv(q)
      /\ q.processing = lane[l].processing \cup {p.item}
  BY <1>1, GetEffect DEF LaneInv
<1>3. lane[l].processing = {}
  BY <1>1 DEF LaneInv
<1>4. LaneInv(q, p)
  <2>1. p \in Producers /\ p.at = "done"
    BY <1>2 DEF Producers
  <2> HIDE DEF p, q
  <2> QED BY <1>2, <1>3, <2>1 DEF LaneInv
<1>5. lane' = [lane EXCEPT ![l] = q] /\ producer' = [producer EXCEPT ![l] = p]
  BY DEF ProducerGet
<1>6. ProducersInv'
  <2> HIDE DEF p, q
  <2> QED BY <1>4, <1>5, LaneStep DEF IInv
<1>7. \A m \in Lanes : producer[m].at = "closed" => producer'[m].at = "closed"
  BY <1>1, <1>5 DEF IInv, ProducersInv
<1> QED BY <1>6, <1>7, RestFrame DEF IInv, ProducerGet

LEMMA ProducerDoneKeepsInv ==
  ASSUME IInv, NEW l \in Lanes, ProducerDone(l)
  PROVE  IInv'
<1> DEFINE item == producer[l].item
           q == Done(lane[l], item)
           p == [producer[l] EXCEPT !.at = "send"]
<1>1. LaneInv(lane[l], producer[l]) /\ producer[l].at = "done"
  BY DEF IInv, ProducersInv, ProducerDone
<1>2. p \in Producers /\ p.at = "send" /\ p.item = item /\ item \in Keys
  BY <1>1 DEF LaneInv, Producers
<1>3. item \in lane[l].processing /\ QueueInv(lane[l])
  BY <1>1 DEF LaneInv
<1>4. QueueInv(q) /\ q.processing = {}
  BY <1>1, <1>3, DoneEffect DEF LaneInv
<1>5. LaneInv(q, p)
  <2> HIDE DEF p, q
  <2> QED BY <1>2, <1>4 DEF LaneInv
<1>6. lane' = [lane EXCEPT ![l] = q] /\ producer' = [producer EXCEPT ![l] = p]
  BY DEF ProducerDone
<1>7. ProducersInv'
  <2> HIDE DEF p, q
  <2> QED BY <1>5, <1>6, LaneStep DEF IInv
<1>8. \A m \in Lanes : producer[m].at = "closed" => producer'[m].at = "closed"
  BY <1>1, <1>6 DEF IInv, ProducersInv
<1> QED BY <1>7, <1>8, RestFrame DEF IInv, ProducerDone

LEMMA ProducerCloseKeepsInv ==
  ASSUME IInv, NEW l \in Lanes, ProducerClose(l)
  PROVE  IInv'
<1> DEFINE p == [producer[l] EXCEPT !.at = "closed"]
<1>1. LaneInv(lane[l], producer[l]) /\ producer[l].at = "get" /\ Finished(lane[l])
  BY DEF IInv, ProducersInv, ProducerClose
<1>2. p \in Producers /\ p.at = "closed" /\ p.item = None
  BY <1>1 DEF LaneInv, Producers
<1>3. LaneInv(lane[l], p)
  BY <1>1, <1>2 DEF LaneInv, Finished
<1>4. lane' = [lane EXCEPT ![l] = lane[l]] /\ producer' = [producer EXCEPT ![l] = p]
  BY DEF ProducerClose, IInv, ProducersInv
<1>5. ProducersInv'
  <2> HIDE DEF p
  <2> QED BY <1>3, <1>4, LaneStep DEF IInv
<1>6. \A m \in Lanes : producer[m].at = "closed" => producer'[m].at = "closed"
  BY <1>2, <1>4 DEF IInv, ProducersInv
<1> QED BY <1>5, <1>6, RestFrame DEF IInv, ProducerClose

-----------------------------------------------------------------------------
(* Steps of the consumer.                                                  *)

(* An Add to the consumer queue disturbs neither workers nor their exit,   *)
(* for no worker exits before it shuts down.                               *)
LEMMA ConsumerAddKeeps ==
  ASSUME WorkersInv, ExitInv, NEW item \in Keys,
         consumerQueue' = Add(consumerQueue, item), UNCHANGED <<worker, main>>
  PROVE  WorkersInv' /\ ExitInv'
<1>1. /\ QueueInv(consumerQueue')
      /\ consumerQueue'.processing = consumerQueue.processing
      /\ consumerQueue'.shuttingDown = consumerQueue.shuttingDown
      /\ consumerQueue.shuttingDown => consumerQueue' = consumerQueue
  BY AddEffect DEF WorkersInv
<1>2. WorkersInv'
  BY <1>1 DEF WorkersInv, Busy, OneWorkerPerKey
<1>3. (\A w \in Workers : worker[w].at = "exited") => consumerQueue.shuttingDown
  BY WorkersAssumption DEF WorkersAssumption, ExitInv
<1>4. ExitInv'
  BY <1>1, <1>3 DEF ExitInv
<1> QED BY <1>2, <1>4

LEMMA ReceiveKeepsInv ==
  ASSUME IInv, NEW l \in Lanes, Receive(l)
  PROVE  IInv'
<1> DEFINE p == [at |-> "get", item |-> None]
<1>1. LaneInv(lane[l], producer[l]) /\ producer[l].at = "send" /\ producer[l].item \in Keys
  BY DEF IInv, ProducersInv, LaneInv, Receive
<1>2. LaneInv(lane[l], p)
  BY <1>1 DEF LaneInv, Producers
<1>3. lane' = [lane EXCEPT ![l] = lane[l]] /\ producer' = [producer EXCEPT ![l] = p]
  BY DEF Receive, IInv, ProducersInv
<1>4. ProducersInv'
  <2> HIDE DEF p
  <2> QED BY <1>2, <1>3, LaneStep DEF IInv
<1>5. consumerQueue' = Add(consumerQueue, producer[l].item) /\ UNCHANGED <<worker, main>>
  BY DEF Receive
<1>6. WorkersInv' /\ ExitInv'
  BY <1>1, <1>5, ConsumerAddKeeps DEF IInv
<1>7. ConsumerInv'
  <2>1. \A m \in Lanes : producer[m].at = "closed" => producer'[m].at = "closed"
    BY <1>1, <1>3 DEF IInv, ProducersInv
  <2>2. consumer.at \in {"first", "both"} /\ consumer' = [consumer EXCEPT !.at = "first"]
    BY DEF Receive, Listens
  <2>3. ~consumerQueue'.shuttingDown
    <3>1. ~consumerQueue.shuttingDown /\ QueueInv(consumerQueue)
      BY <2>2 DEF IInv, ConsumerInv, WorkersInv
    <3> DEFINE item == producer[l].item
    <3>2. Add(consumerQueue, item).shuttingDown = consumerQueue.shuttingDown
      <4>1. item \in Keys
        BY <1>1
      <4> HIDE DEF item
      <4> QED BY <3>1, <4>1, AddEffect
    <3> QED BY <1>5, <3>1, <3>2
  <2>4. consumer' \in Consumers /\ consumer'.at = "first" /\ consumer'.open = consumer.open
    BY <2>2 DEF IInv, ConsumerInv, Consumers
  <2> QED BY <2>1, <2>3, <2>4 DEF IInv, ConsumerInv
<1> QED BY <1>4, <1>6, <1>7 DEF IInv, Receive

LEMMA ReceiveClosedKeepsInv ==
  ASSUME IInv, NEW l \in Lanes, ReceiveClosed(l)
  PROVE  IInv'
<1>1. ConsumerInv'
  <2>1. /\ consumer' \in Consumers /\ consumer'.at = "first"
        /\ consumer'.open = [consumer.open EXCEPT ![l] = FALSE]
    BY DEF ReceiveClosed, IInv, ConsumerInv, Consumers
  <2>2. ~consumerQueue.shuttingDown
    BY DEF ReceiveClosed, Listens, IInv, ConsumerInv
  <2>3. \A m \in Lanes : consumer'.open[m] \/ producer[m].at = "closed"
    BY <2>1 DEF ReceiveClosed, IInv, ConsumerInv, Consumers
  <2> QED BY <2>1, <2>2, <2>3 DEF ReceiveClosed, ConsumerInv
<1>2. WorkersInv' /\ ExitInv'
  BY WorkersFrame, ExitFrame DEF IInv, ReceiveClosed
<1>3. ProducersInv'
  BY DEF IInv, ReceiveClosed, ProducersInv
<1> QED BY <1>1, <1>2, <1>3 DEF IInv, ReceiveClosed

LEMMA NothingFastKeepsInv ==
  ASSUME IInv, NothingFast
  PROVE  IInv'
<1>1. /\ consumer' \in Consumers /\ consumer'.at = "both" /\ consumer'.open = consumer.open
  BY DEF NothingFast, IInv, ConsumerInv, Consumers
<1>2. ConsumerInv'
  BY <1>1 DEF NothingFast, IInv, ConsumerInv
<1>3. WorkersInv' /\ ExitInv'
  BY WorkersFrame, ExitFrame DEF IInv, NothingFast
<1>4. ProducersInv'
  BY DEF IInv, NothingFast, ProducersInv
<1> QED BY <1>2, <1>3, <1>4 DEF IInv, NothingFast

LEMMA ConsumerStopKeepsInv ==
  ASSUME IInv, ConsumerStop
  PROVE  IInv'
<1>1. /\ consumer' \in Consumers /\ consumer'.at = "stopped" /\ consumer'.open = consumer.open
  BY DEF ConsumerStop, IInv, ConsumerInv, Consumers
<1>2. ConsumerInv'
  BY <1>1 DEF ConsumerStop, SomeOpen, IInv, ConsumerInv
<1>3. /\ QueueInv(consumerQueue')
      /\ consumerQueue'.processing = consumerQueue.processing
      /\ consumerQueue'.queue = consumerQueue.queue
      /\ consumerQueue'.shuttingDown
  BY ShutDownEffect DEF ConsumerStop, IInv, WorkersInv
<1>4. WorkersInv'
  BY <1>3 DEF ConsumerStop, IInv, WorkersInv, Busy, OneWorkerPerKey
<1>5. ExitInv'
  BY <1>3 DEF ConsumerStop, IInv, ExitInv
<1>6. ProducersInv'
  BY DEF IInv, ConsumerStop, ProducersInv
<1> QED BY <1>2, <1>4, <1>5, <1>6 DEF IInv, ConsumerStop

-----------------------------------------------------------------------------
(* Steps of whoever enqueues.                                              *)

LEMMA EnqueueOnKeeps ==
  ASSUME IInv, NEW l \in Lanes, NEW key \in Keys, EnqueueOn(l, key)
  PROVE  ProducersInv' /\ ConsumerInv' /\ WorkersInv' /\ ExitInv' /\ main' \in Mains
<1> DEFINE q == Add(lane[l], key)
<1>1. LaneInv(lane[l], producer[l])
  BY DEF IInv, ProducersInv
<1>2. /\ QueueInv(q) /\ q.processing = lane[l].processing
      /\ lane[l].shuttingDown => q = lane[l]
  BY <1>1, AddEffect DEF LaneInv
<1>3. LaneInv(q, producer[l])
  <2> HIDE DEF q
  <2> QED BY <1>1, <1>2 DEF LaneInv
<1>4. lane' = [lane EXCEPT ![l] = q] /\ UNCHANGED <<producer, consumer, consumerQueue, worker, main>>
  BY DEF EnqueueOn
<1>5. ProducersInv'
  <2> HIDE DEF q
  <2> QED BY <1>3, <1>4, OnlyLaneStep DEF IInv
<1> QED BY <1>4, <1>5, RestFrame

LEMMA EnqueueKeepsInv ==
  ASSUME IInv, NEW key \in Keys, Enqueue(key) \/ RetryIsDue(key)
  PROVE  IInv'
<1>1. \E l \in Lanes : EnqueueOn(l, key)
  BY DEF Enqueue, EnqueueKey, EnqueueSlowKey, RetryIsDue, Lanes
<1>2. retries' \subseteq Keys
  BY DEF IInv, Enqueue, EnqueueKey, EnqueueSlowKey, RetryIsDue
<1> QED BY <1>1, <1>2, EnqueueOnKeeps DEF IInv

-----------------------------------------------------------------------------
(* Steps of the workers and of RunContext.                                 *)

(* What leaves the lanes, the producers and the consumer alone keeps what  *)
(* is said of them.                                                        *)
LEMMA LanesFrame ==
  ASSUME IInv, UNCHANGED <<lane, producer, consumer>>,
         consumerQueue'.shuttingDown = consumerQueue.shuttingDown
  PROVE  ProducersInv' /\ ConsumerInv'
  BY DEF IInv, ProducersInv, ConsumerInv

LEMMA WorkerGetKeepsInv ==
  ASSUME IInv, NEW w \in Workers, WorkerGet(w)
  PROVE  IInv'
<1> DEFINE key == Head(consumerQueue.queue)
           t == [at |-> "run", key |-> key]
<1>1. /\ QueueInv(consumerQueue) /\ consumerQueue.queue # << >> /\ worker[w].at = "get"
      /\ consumerQueue' = Get(consumerQueue)
      /\ worker' = [worker EXCEPT ![w] = t]
  BY DEF WorkerGet, IInv, WorkersInv
<1>2. /\ key \in Keys /\ key \notin consumerQueue.processing
      /\ QueueInv(consumerQueue')
      /\ consumerQueue'.processing = consumerQueue.processing \cup {key}
      /\ consumerQueue'.shuttingDown = consumerQueue.shuttingDown
  BY <1>1, GetEffect
<1>3. t \in Threads /\ t.at = "run" /\ t.key = key
  BY <1>2 DEF Threads
<1> HIDE DEF key, t
<1>4. /\ worker'[w] = t /\ \A v \in Workers \ {w} : worker'[v] = worker[v]
      /\ worker' \in [Workers -> Threads]
  BY <1>1, <1>3 DEF IInv, WorkersInv
<1>5. \A v \in Workers \ {w} : worker[v].key # key
  BY <1>2, KeysAssumption DEF KeysAssumption, IInv, WorkersInv, Busy
<1>6. OneWorkerPerKey'
  BY <1>3, <1>4, <1>5 DEF IInv, WorkersInv, OneWorkerPerKey
<1>7. WorkersInv'
  <2>1. \A v \in Workers : Busy(v)' => worker'[v].key \in consumerQueue'.processing
    BY <1>2, <1>3, <1>4 DEF IInv, WorkersInv, Busy
  <2>2. \A v \in Workers : ~Busy(v)' => worker'[v].key = None
    BY <1>3, <1>4 DEF IInv, WorkersInv, Busy
  <2>3. \A k \in consumerQueue'.processing : \E v \in Workers : Busy(v)' /\ worker'[v].key = k
    <3> SUFFICES ASSUME NEW k \in consumerQueue'.processing
                 PROVE  \E v \in Workers : Busy(v)' /\ worker'[v].key = k
      OBVIOUS
    <3>1. CASE k = key
      BY <1>3, <1>4, <3>1 DEF Busy
    <3>2. CASE k # key
      <4>1. PICK v \in Workers : Busy(v) /\ worker[v].key = k
        BY <1>2, <3>2 DEF IInv, WorkersInv
      <4>2. v # w
        BY <1>1, <4>1 DEF Busy
      <4> QED BY <1>4, <4>1, <4>2 DEF Busy
    <3> QED BY <3>1, <3>2
  <2> QED BY <1>2, <1>4, <1>6, <2>1, <2>2, <2>3 DEF WorkersInv
<1>8. ExitInv'
  BY <1>1, <1>2, <1>3, <1>4 DEF WorkerGet, IInv, ExitInv
<1> QED BY <1>2, <1>7, <1>8, LanesFrame DEF WorkerGet, IInv

(* A worker that goes on with its key.                                     *)
LEMMA WorkerRunsOn ==
  ASSUME IInv, NEW w \in Workers, worker[w].at = "run",
         worker' = [worker EXCEPT ![w].at = "done"], UNCHANGED <<queueVars, main>>,
         retries' \subseteq Keys
  PROVE  IInv'
<1>1. /\ worker'[w].at = "done" /\ worker'[w].key = worker[w].key
      /\ \A v \in Workers \ {w} : worker'[v] = worker[v]
      /\ worker' \in [Workers -> Threads]
  BY DEF IInv, WorkersInv, Threads
<1>2. \A v \in Workers : worker'[v].key = worker[v].key /\ (Busy(v)' <=> Busy(v))
  BY <1>1 DEF Busy
<1>3. WorkersInv'
  BY <1>1, <1>2 DEF queueVars, IInv, WorkersInv, OneWorkerPerKey
<1>4. \A v \in Workers : worker'[v].at = "exited" <=> worker[v].at = "exited"
  BY <1>1
<1>5. ExitInv'
  BY <1>4 DEF queueVars, IInv, ExitInv
<1> QED BY <1>3, <1>5, LanesFrame DEF queueVars, IInv

LEMMA ReconcileKeepsInv ==
  ASSUME IInv, NEW w \in Workers, Reconciled(w) \/ ReconcileFails(w)
  PROVE  IInv'
<1>1. worker[w].key \in Keys \cup {None} /\ (ReconcileFails(w) => worker[w].key \in Keys)
  BY KeysAssumption DEF KeysAssumption, IInv, WorkersInv, Threads, ReconcileFails
<1>2. retries' \subseteq Keys
  BY <1>1 DEF IInv, Reconciled, ReconcileFails, AddAfter
<1> QED BY <1>2, WorkerRunsOn DEF Reconciled, ReconcileFails

LEMMA WorkerDoneKeepsInv ==
  ASSUME IInv, NEW w \in Workers, WorkerDone(w)
  PROVE  IInv'
<1> DEFINE key == worker[w].key
           t == [at |-> "get", key |-> None]
<1>1. /\ QueueInv(consumerQueue) /\ worker[w].at = "done" /\ key \in consumerQueue.processing
      /\ consumerQueue' = Done(consumerQueue, key)
      /\ worker' = [worker EXCEPT ![w] = t]
  BY DEF WorkerDone, IInv, WorkersInv, Busy
<1>2. /\ QueueInv(consumerQueue')
      /\ consumerQueue'.processing = consumerQueue.processing \ {key}
      /\ consumerQueue'.shuttingDown = consumerQueue.shuttingDown
  BY <1>1, DoneEffect
<1>3. t \in Threads /\ t.at = "get" /\ t.key = None
  BY DEF Threads
<1>4. key # None
  BY <1>1, KeysAssumption DEF KeysAssumption, QueueInv, Queues
<1>5. \A v \in Workers \ {w} : worker[v].key # key
  BY <1>4 DEF IInv, WorkersInv, OneWorkerPerKey
<1> HIDE DEF t
<1>6. /\ worker'[w] = t /\ \A v \in Workers \ {w} : worker'[v] = worker[v]
      /\ worker' \in [Workers -> Threads]
  BY <1>1, <1>3 DEF IInv, WorkersInv
<1>7. OneWorkerPerKey'
  BY <1>3, <1>6 DEF IInv, WorkersInv, OneWorkerPerKey
<1>8. WorkersInv'
  <2>1. \A v \in Workers : Busy(v)' => worker'[v].key \in consumerQueue'.processing
    BY <1>2, <1>3, <1>5, <1>6 DEF IInv, WorkersInv, Busy
  <2>2. \A v \in Workers : ~Busy(v)' => worker'[v].key = None
    BY <1>3, <1>6 DEF IInv, WorkersInv, Busy
  <2>3. \A k \in consumerQueue'.processing : \E v \in Workers : Busy(v)' /\ worker'[v].key = k
    BY <1>2, <1>6 DEF IInv, WorkersInv, Busy
  <2> QED BY <1>2, <1>6, <1>7, <2>1, <2>2, <2>3 DEF WorkersInv
<1>9. ExitInv'
  BY <1>1, <1>2, <1>3, <1>6 DEF WorkerDone, IInv, ExitInv
<1> QED BY <1>2, <1>8, <1>9, LanesFrame DEF WorkerDone, IInv

LEMMA WorkerExitKeepsInv ==
  ASSUME IInv, NEW w \in Workers, WorkerExit(w)
  PROVE  IInv'
<1>1. /\ worker[w].at = "get" /\ Finished(consumerQueue)
      /\ worker' = [worker EXCEPT ![w].at = "exited"] /\ UNCHANGED <<queueVars, retries, main>>
  BY DEF WorkerExit
<1>2. /\ worker'[w].at = "exited" /\ worker'[w].key = worker[w].key
      /\ \A v \in Workers \ {w} : worker'[v] = worker[v]
      /\ worker' \in [Workers -> Threads]
  BY <1>1 DEF IInv, WorkersInv, Threads
<1>3. \A v \in Workers : worker'[v].key = worker[v].key /\ (Busy(v)' <=> Busy(v))
  BY <1>1, <1>2 DEF Busy
<1>4. WorkersInv'
  BY <1>1, <1>2, <1>3 DEF queueVars, IInv, WorkersInv, OneWorkerPerKey
<1>5. ExitInv'
  BY <1>1, <1>2 DEF queueVars, Finished, IInv, ExitInv
<1> QED BY <1>1, <1>4, <1>5, LanesFrame DEF queueVars, IInv

LEMMA MainKeepsInv ==
  ASSUME IInv, ShutDownLanes \/ WaitForLen \/ WaitForWorkers
  PROVE  IInv'
<1>1. ASSUME NEW l \in Lanes, NEW from, NEW to \in Mains \ {"returned"}, ShutDownLane(l, from, to)
      PROVE  IInv'
  <2> DEFINE q == ShutDown(lane[l])
  <2>1. LaneInv(lane[l], producer[l])
    BY DEF IInv, ProducersInv
  <2>2. LaneInv(q, producer[l])
    BY <2>1, ShutDownEffect DEF LaneInv
  <2>3. lane' = [lane EXCEPT ![l] = q] /\ main' = to
        /\ UNCHANGED <<producer, consumer, consumerQueue, retries, worker>>
    BY <1>1 DEF ShutDownLane
  <2>4. ProducersInv'
    <3> HIDE DEF q
    <3> QED BY <2>2, <2>3, OnlyLaneStep DEF IInv
  <2>5. ConsumerInv' /\ WorkersInv'
    BY <2>3, ConsumerFrame, WorkersFrame DEF IInv
  <2>6. ExitInv'
    BY <2>3 DEF IInv, ExitInv
  <2> QED BY <2>3, <2>4, <2>5, <2>6 DEF IInv
<1>2. ASSUME ShutDownLanes PROVE IInv'
  BY <1>1, <1>2 DEF ShutDownLanes, Lanes, Mains
<1>3. ASSUME UNCHANGED <<queueVars, retries, worker>>, main' \in Mains,
             main' = "returned" => \A w \in Workers : worker[w].at = "exited"
      PROVE  IInv'
  <2>1. ProducersInv' /\ ConsumerInv' /\ WorkersInv'
    BY <1>3, LanesFrame, WorkersFrame DEF queueVars, IInv
  <2>2. ExitInv'
    BY <1>3 DEF queueVars, IInv, ExitInv
  <2> QED BY <1>3, <2>1, <2>2 DEF IInv
<1>4. ASSUME WaitForLen PROVE IInv'
  BY <1>3, <1>4 DEF WaitForLen, ReadLen, Mains
<1>5. ASSUME WaitForWorkers PROVE IInv'
  BY <1>3, <1>5 DEF WaitForWorkers, Mains
<1> QED BY <1>2, <1>4, <1>5

LEMMA NextKeepsInv == IInv /\ [Next]_vars => IInv'
<1> SUFFICES ASSUME IInv, [Next]_vars PROVE IInv'
  OBVIOUS
<1>1. ASSUME NEW l \in Lanes, Produce(l) PROVE IInv'
  BY <1>1, ProducerGetKeepsInv, ProducerDoneKeepsInv, ProducerCloseKeepsInv DEF Produce
<1>2. ASSUME Consume PROVE IInv'
  BY <1>2, NothingFastKeepsInv, ConsumerStopKeepsInv, ReceiveKeepsInv, ReceiveClosedKeepsInv
     DEF Consume
<1>3. ASSUME NEW k \in Keys, Enqueue(k) \/ RetryIsDue(k) PROVE IInv'
  BY <1>3, EnqueueKeepsInv
<1>4. ASSUME NEW w \in Workers, Work(w) PROVE IInv'
  BY <1>4, WorkerGetKeepsInv, ReconcileKeepsInv, WorkerDoneKeepsInv, WorkerExitKeepsInv DEF Work
<1>5. ASSUME ShutDownLanes \/ WaitForLen \/ WaitForWorkers PROVE IInv'
  BY <1>5, MainKeepsInv
<1>6. ASSUME UNCHANGED vars PROVE IInv'
  BY <1>6, ConsumerFrame, WorkersFrame, ExitFrame DEF vars, queueVars, IInv, ProducersInv
<1> QED BY <1>1, <1>2, <1>3, <1>4, <1>5, <1>6 DEF Next

LEMMA AlwaysIInv == Spec => []IInv
  BY InitInv, NextKeepsInv, PTL DEF Spec

-----------------------------------------------------------------------------
(* The theorems.                                                           *)

LEMMA QueueInvIsTyped ==
  ASSUME NEW q, QueueInv(q)
  PROVE  QueueType(q)
<1>1. DOMAIN q.queue = 1 .. Len(q.queue)
  BY LenProperties DEF QueueInv, Queues
<1> QED BY <1>1 DEF QueueInv, Queues, Lists, QueueType

(* Every variable has its type, and the queues are as workqueue.Type       *)
(* describes them: an element is dirty, not in process, and there once.    *)
THEOREM TypeCorrect == Spec => []TypeOK
<1>1. IInv => TypeOK
  <2> SUFFICES ASSUME IInv PROVE TypeOK
    OBVIOUS
  <2>1. DOMAIN lane = Lanes /\ \A l \in Lanes : QueueType(lane[l])
    BY QueueInvIsTyped DEF IInv, ProducersInv, LaneInv
  <2>2. QueueType(consumerQueue)
    BY QueueInvIsTyped DEF IInv, WorkersInv
  <2> QED BY <2>1, <2>2 DEF TypeOK, IInv, ProducersInv, Producers, ConsumerInv, Consumers,
                            WorkersInv, Threads, Mains
<1> QED BY <1>1, AlwaysIInv, PTL

(* Whatever is enqueued on whichever lane, failed and retried, no two      *)
(* workers ever reconcile the same key.                                    *)
THEOREM WorkersApart == Spec => []OneWorkerPerKey
<1>1. IInv => OneWorkerPerKey
  BY DEF IInv, WorkersInv
<1> QED BY <1>1, AlwaysIInv, PTL

(* When RunContext returns every worker has exited, and no accepted key is *)
(* left in a queue or in the hands of a producer.                          *)
THEOREM Drained == Spec => []ReturnsWhenDrained
<1>1. IInv => ReturnsWhenDrained
  <2> SUFFICES ASSUME IInv, main = "returned"
               PROVE  OnTheWay = {} /\ \A w \in Workers : worker[w].at = "exited"
    BY DEF ReturnsWhenDrained
  <2>1. \A w \in Workers : worker[w].at = "exited"
    BY DEF IInv, ExitInv
  <2>2. consumerQueue.queue = << >> /\ consumer.at = "stopped"
    BY <2>1, WorkersAssumption DEF WorkersAssumption, IInv, ExitInv, ConsumerInv
  <2>3. consumerQueue.processing = {}
    BY <2>1 DEF IInv, WorkersInv, Busy
  <2>4. consumerQueue.dirty = {}
    BY <2>2, <2>3, EmptyIsClean DEF IInv, WorkersInv
  <2>5. \A l \in Lanes : producer[l].at = "closed"
    BY <2>2 DEF IInv, ConsumerInv
  <2>6. \A l \in Lanes : lane[l].dirty = {}
    BY <2>5, EmptyIsClean DEF IInv, ProducersInv, LaneInv
  <2> QED BY <2>1, <2>4, <2>5, <2>6 DEF OnTheWay, Lanes
<1> QED BY <1>1, AlwaysIInv, PTL

-----------------------------------------------------------------------------
(* The refinement: every step of the lanes, their goroutines and the       *)
(* consumer queue is a step of one WorkQueue, or none.                     *)

(* A lane has a key on the way when it waits there or its producer has it. *)
On(l, k) ==
  \/ k \in lane[l].dirty
  \/ producer[l].at \in {"done", "send"} /\ k = producer[l].item

LEMMA OnTheWayIs ==
  /\ \A k : k \in OnTheWay <=> k \in consumerQueue.dirty \/ \E l \in Lanes : On(l, k)
  /\ \A k : k \in OnTheWay' <=> k \in consumerQueue'.dirty \/ \E l \in Lanes : On(l, k)'
<1> DEFINE held == {producer[l].item : l \in {l \in Lanes : producer[l].at \in {"done", "send"}}}
<1>1. OnTheWay = lane["fast"].dirty \cup lane["slow"].dirty \cup consumerQueue.dirty \cup held
  BY DEF OnTheWay
<1>2. OnTheWay' = lane'["fast"].dirty \cup lane'["slow"].dirty \cup consumerQueue'.dirty \cup held'
  BY DEF OnTheWay
<1>3. /\ \A k : k \in held <=> \E l \in Lanes : producer[l].at \in {"done", "send"} /\ k = producer[l].item
      /\ \A k : k \in held' <=> \E l \in Lanes : producer'[l].at \in {"done", "send"} /\ k = producer'[l].item
  OBVIOUS
<1>4. /\ \A k : (\E l \in Lanes : k \in lane[l].dirty) <=> k \in lane["fast"].dirty \/ k \in lane["slow"].dirty
      /\ \A k : (\E l \in Lanes : k \in lane'[l].dirty) <=> k \in lane'["fast"].dirty \/ k \in lane'["slow"].dirty
  BY DEF Lanes
<1> HIDE DEF held
<1> QED BY <1>1, <1>2, <1>3, <1>4 DEF On

(* A step that moves a key along is no step of the WorkQueue.              *)
LEMMA MoveStutters ==
  ASSUME \A k : k \in OnTheWay' <=> k \in OnTheWay,
         consumerQueue'.processing = consumerQueue.processing,
         \A l \in Lanes : lane'[l].shuttingDown = lane[l].shuttingDown
  PROVE  UNCHANGED Queue!vars
<1>1. OnTheWay' = OnTheWay
  OBVIOUS
<1>2. (\E l \in Lanes : ~lane'[l].shuttingDown) = (\E l \in Lanes : ~lane[l].shuttingDown)
  OBVIOUS
<1> QED BY <1>1, <1>2 DEF Queue!vars

(* A step of one lane and its producer.                                    *)
LEMMA LaneMoves ==
  ASSUME ProducersInv, NEW l \in Lanes, NEW q, NEW p,
         lane' = [lane EXCEPT ![l] = q], producer' = [producer EXCEPT ![l] = p],
         \A k : (k \in q.dirty \/ (p.at \in {"done", "send"} /\ k = p.item)) <=> On(l, k),
         q.shuttingDown = lane[l].shuttingDown, UNCHANGED consumerQueue
  PROVE  UNCHANGED Queue!vars
<1>1. /\ lane'[l] = q /\ producer'[l] = p
      /\ \A m \in Lanes \ {l} : lane'[m] = lane[m] /\ producer'[m] = producer[m]
  BY DEF ProducersInv
<1>2. \A m \in Lanes : \A k : On(m, k)' <=> On(m, k)
  BY <1>1 DEF On
<1>3. \A m \in Lanes : lane'[m].shuttingDown = lane[m].shuttingDown
  BY <1>1
<1> QED BY <1>2, <1>3, OnTheWayIs, MoveStutters

LEMMA ProduceRefines ==
  ASSUME IInv, NEW l \in Lanes, Produce(l)
  PROVE  UNCHANGED Queue!vars
<1>1. LaneInv(lane[l], producer[l]) /\ ProducersInv
  BY DEF IInv, ProducersInv
<1>2. CASE ProducerGet(l)
  <2> DEFINE q == Get(lane[l])
             p == [at |-> "done", item |-> Head(lane[l].queue)]
  <2>1. lane' = [lane EXCEPT ![l] = q] /\ producer' = [producer EXCEPT ![l] = p]
        /\ producer[l].at = "get" /\ lane[l].queue # << >> /\ UNCHANGED consumerQueue
    BY <1>2 DEF ProducerGet
  <2>2. /\ q.dirty = lane[l].dirty \ {p.item} /\ p.item \in lane[l].dirty
        /\ q.shuttingDown = lane[l].shuttingDown /\ p.at = "done"
    BY <1>1, <2>1, GetEffect DEF LaneInv
  <2> HIDE DEF p, q
  <2> QED BY <1>1, <2>1, <2>2, LaneMoves DEF On
<1>3. CASE ProducerDone(l)
  <2> DEFINE q == Done(lane[l], producer[l].item)
             p == [producer[l] EXCEPT !.at = "send"]
  <2>1. lane' = [lane EXCEPT ![l] = q] /\ producer' = [producer EXCEPT ![l] = p]
        /\ producer[l].at = "done" /\ UNCHANGED consumerQueue
    BY <1>3 DEF ProducerDone
  <2>2. p.at = "send" /\ p.item = producer[l].item
    BY <1>1 DEF LaneInv, Producers
  <2>3. q.dirty = lane[l].dirty /\ q.shuttingDown = lane[l].shuttingDown
    BY <1>1, <2>1, DoneEffect DEF LaneInv
  <2> HIDE DEF p, q
  <2> QED BY <1>1, <2>1, <2>2, <2>3, LaneMoves DEF On
<1>4. CASE ProducerClose(l)
  <2> DEFINE p == [producer[l] EXCEPT !.at = "closed"]
  <2>1. lane' = [lane EXCEPT ![l] = lane[l]] /\ producer' = [producer EXCEPT ![l] = p]
        /\ producer[l].at = "get" /\ UNCHANGED consumerQueue
    BY <1>1, <1>4 DEF ProducerClose, ProducersInv
  <2>2. p.at = "closed"
    BY <1>1 DEF LaneInv, Producers
  <2> HIDE DEF p
  <2> QED BY <1>1, <2>1, <2>2, LaneMoves DEF On
<1> QED BY <1>2, <1>3, <1>4 DEF Produce

LEMMA ReceiveRefines ==
  ASSUME IInv, NEW l \in Lanes, Receive(l)
  PROVE  UNCHANGED Queue!vars
<1> DEFINE item == producer[l].item
<1>1. /\ producer[l].at = "send" /\ item \in Keys
      /\ QueueInv(consumerQueue) /\ ~consumerQueue.shuttingDown
      /\ consumerQueue' = Add(consumerQueue, item)
      /\ lane' = lane
      /\ producer' = [producer EXCEPT ![l] = [at |-> "get", item |-> None]]
  BY DEF Receive, Listens, IInv, ProducersInv, LaneInv, ConsumerInv, WorkersInv
<1>2. /\ consumerQueue'.processing = consumerQueue.processing
      /\ consumerQueue'.dirty = consumerQueue.dirty \cup {item}
  <2> HIDE DEF item
  <2> QED BY <1>1, AddEffect
<1>3. /\ producer'[l].at = "get"
      /\ \A m \in Lanes \ {l} : producer'[m] = producer[m]
  BY <1>1 DEF IInv, ProducersInv
<1>4. \A k : On(l, k) <=> k \in lane[l].dirty \/ k = item
  BY <1>1 DEF On
<1>5. \A k : On(l, k)' <=> k \in lane[l].dirty
  BY <1>1, <1>3 DEF On
<1>6. \A m \in Lanes \ {l} : \A k : On(m, k)' <=> On(m, k)
  BY <1>1, <1>3 DEF On
<1> HIDE DEF item
<1>7. \A k : k \in OnTheWay' <=> k \in OnTheWay
  BY <1>2, <1>4, <1>5, <1>6, OnTheWayIs
<1> QED BY <1>1, <1>2, <1>7, MoveStutters

(* A lane that takes a key adds it to the WorkQueue.                       *)
LEMMA EnqueueRefines ==
  ASSUME IInv, NEW l \in Lanes, NEW key \in Keys, EnqueueOn(l, key)
  PROVE  Queue!Add(key) \/ UNCHANGED Queue!vars
<1> DEFINE q == Add(lane[l], key)
<1>1. /\ LaneInv(lane[l], producer[l]) /\ ProducersInv
      /\ lane' = [lane EXCEPT ![l] = q] /\ producer' = producer /\ consumerQueue' = consumerQueue
  BY DEF IInv, ProducersInv, EnqueueOn
<1>2. /\ q.shuttingDown = lane[l].shuttingDown
      /\ q.dirty = IF lane[l].shuttingDown THEN lane[l].dirty ELSE lane[l].dirty \cup {key}
  BY <1>1, AddEffect DEF LaneInv
<1> HIDE DEF q
<1>3. lane'[l] = q /\ \A m \in Lanes \ {l} : lane'[m] = lane[m]
  BY <1>1 DEF ProducersInv
<1>4. \A m \in Lanes : lane'[m].shuttingDown = lane[m].shuttingDown
  BY <1>2, <1>3
<1>5. \A m \in Lanes \ {l} : \A k : On(m, k)' <=> On(m, k)
  BY <1>1, <1>3 DEF On
<1>6. CASE lane[l].shuttingDown
  <2>1. \A k : On(l, k)' <=> On(l, k)
    BY <1>1, <1>2, <1>3, <1>6 DEF On
  <2>2. \A k : k \in OnTheWay' <=> k \in OnTheWay
    BY <1>1, <1>5, <2>1, OnTheWayIs
  <2> QED BY <1>1, <1>4, <2>2, MoveStutters
<1>7. CASE ~lane[l].shuttingDown
  <2>1. \A k : On(l, k)' <=> On(l, k) \/ k = key
    BY <1>1, <1>2, <1>3, <1>7 DEF On
  <2>2. \A k : k \in OnTheWay' <=> k \in OnTheWay \/ k = key
    BY <1>1, <1>5, <2>1, OnTheWayIs
  <2>3. OnTheWay' = OnTheWay \cup {key}
    BY <2>2
  <2>4. (\E m \in Lanes : ~lane'[m].shuttingDown) = (\E m \in Lanes : ~lane[m].shuttingDown)
    BY <1>4
  <2>5. \E m \in Lanes : ~lane[m].shuttingDown
    BY <1>7
  <2> QED BY <1>1, <2>3, <2>4, <2>5 DEF Queue!Add
<1> QED BY <1>6, <1>7

LEMMA WorkerGetRefines ==
  ASSUME IInv, NEW w \in Workers, WorkerGet(w)
  PROVE  \E key \in Keys : Queue!Get(key)
<1> DEFINE key == Head(consumerQueue.queue)
<1>1. /\ QueueInv(consumerQueue) /\ consumerQueue.queue # << >>
      /\ consumerQueue' = Get(consumerQueue)
      /\ lane' = lane /\ producer' = producer
  BY DEF WorkerGet, IInv, WorkersInv
<1>2. /\ key \in Keys /\ key \in consumerQueue.dirty \ consumerQueue.processing
      /\ consumerQueue'.processing = consumerQueue.processing \cup {key}
      /\ consumerQueue'.dirty = consumerQueue.dirty \ {key}
  BY <1>1, GetEffect
<1> HIDE DEF key
<1>3. \A m \in Lanes : \A k : On(m, k)' <=> On(m, k)
  BY <1>1 DEF On
<1>4. key \in OnTheWay
  BY <1>2, OnTheWayIs
<1>5. \A k : k # key => (k \in OnTheWay' <=> k \in OnTheWay)
  BY <1>2, <1>3, OnTheWayIs
<1>6. OnTheWay' \in {OnTheWay, OnTheWay \ {key}}
  <2>1. CASE key \in OnTheWay'
    <3>1. OnTheWay' = OnTheWay
      BY <1>4, <1>5, <2>1
    <3> QED BY <3>1
  <2>2. CASE key \notin OnTheWay'
    <3>1. OnTheWay' = OnTheWay \ {key}
      BY <1>4, <1>5, <2>2
    <3> QED BY <3>1
  <2> QED BY <2>1, <2>2
<1>7. Queue!Get(key)
  BY <1>1, <1>2, <1>4, <1>6 DEF Queue!Get
<1> QED BY <1>2, <1>7

LEMMA WorkerDoneRefines ==
  ASSUME IInv, NEW w \in Workers, WorkerDone(w)
  PROVE  \E key \in Keys : Queue!Done(key)
<1> DEFINE key == worker[w].key
<1>1. /\ QueueInv(consumerQueue) /\ key \in consumerQueue.processing
      /\ consumerQueue' = Done(consumerQueue, key)
      /\ lane' = lane /\ producer' = producer
  BY DEF WorkerDone, IInv, WorkersInv, Busy
<1> HIDE DEF key
<1>2. /\ key \in Keys
      /\ consumerQueue'.processing = consumerQueue.processing \ {key}
      /\ consumerQueue'.dirty = consumerQueue.dirty
  BY <1>1, DoneEffect DEF QueueInv, Queues
<1>3. OnTheWay' = OnTheWay
  BY <1>1, <1>2 DEF OnTheWay
<1>4. Queue!Done(key)
  BY <1>1, <1>2, <1>3 DEF Queue!Done
<1> QED BY <1>2, <1>4

(* The WorkQueue stops accepting when the second lane shuts down.          *)
LEMMA ShutDownRefines ==
  ASSUME IInv, ShutDownLanes
  PROVE  Queue!ShutDown \/ UNCHANGED Queue!vars
<1>1. PICK l \in Lanes :
        /\ lane' = [lane EXCEPT ![l] = ShutDown(@)]
        /\ UNCHANGED <<producer, consumer, consumerQueue, retries, worker>>
  BY DEF ShutDownLanes, ShutDownLane, Lanes
<1>2. /\ lane'[l].dirty = lane[l].dirty /\ lane'[l].shuttingDown
      /\ \A m \in Lanes \ {l} : lane'[m] = lane[m]
  BY <1>1, ShutDownEffect DEF IInv, ProducersInv, LaneInv
<1>3. \A m \in Lanes : \A k : On(m, k)' <=> On(m, k)
  BY <1>1, <1>2 DEF On
<1>4. \A k : k \in OnTheWay' <=> k \in OnTheWay
  BY <1>1, <1>3, OnTheWayIs
<1>5. OnTheWay' = OnTheWay
  BY <1>4
<1>6. CASE \E m \in Lanes : ~lane'[m].shuttingDown
  <2>1. \E m \in Lanes : ~lane[m].shuttingDown
    BY <1>2, <1>6
  <2>2. (\E m \in Lanes : ~lane'[m].shuttingDown) = (\E m \in Lanes : ~lane[m].shuttingDown)
    BY <1>6, <2>1
  <2> QED BY <1>1, <1>5, <2>2 DEF Queue!vars
<1>7. CASE ~\E m \in Lanes : ~lane'[m].shuttingDown
  <2>1. (\E m \in Lanes : ~lane'[m].shuttingDown) = FALSE
    BY <1>7
  <2> QED BY <1>1, <1>5, <2>1 DEF Queue!ShutDown
<1> QED BY <1>6, <1>7

LEMMA InitRefines == Init => Queue!Init
<1> SUFFICES ASSUME Init PROVE Queue!Init
  OBVIOUS
<1>1. \A l \in Lanes : lane[l] = NewQueue /\ producer[l].at = "get"
  BY DEF Init
<1>2. \A k : k \notin OnTheWay
  BY <1>1, OnTheWayIs DEF On, Init, NewQueue
<1>3. OnTheWay = {}
  BY <1>2
<1>4. \E l \in Lanes : ~lane[l].shuttingDown
  BY <1>1 DEF NewQueue, Lanes
<1> QED BY <1>3, <1>4 DEF Queue!Init, Init, NewQueue

LEMMA NextRefines == IInv /\ [Next]_vars => [Queue!Next]_(Queue!vars)
<1> SUFFICES ASSUME IInv, [Next]_vars PROVE Queue!Next \/ UNCHANGED Queue!vars
  OBVIOUS
<1>1. ASSUME UNCHANGED <<lane, producer, consumerQueue>>
      PROVE  UNCHANGED Queue!vars
  <2>1. OnTheWay' = OnTheWay
    BY <1>1 DEF OnTheWay
  <2> QED BY <1>1, <2>1 DEF Queue!vars
<1>2. ASSUME NEW l \in Lanes, Produce(l) PROVE UNCHANGED Queue!vars
  BY <1>2, ProduceRefines
<1>3. ASSUME Consume PROVE UNCHANGED Queue!vars
  <2>1. ASSUME NEW l \in Lanes, Receive(l) PROVE UNCHANGED Queue!vars
    BY <2>1, ReceiveRefines
  <2>2. ASSUME NEW l \in Lanes, ReceiveClosed(l) PROVE UNCHANGED Queue!vars
    BY <1>1, <2>2 DEF ReceiveClosed
  <2>3. ASSUME NothingFast PROVE UNCHANGED Queue!vars
    BY <1>1, <2>3 DEF NothingFast
  <2>4. ASSUME ConsumerStop PROVE UNCHANGED Queue!vars
    <3>1. /\ lane' = lane /\ producer' = producer
          /\ consumerQueue'.dirty = consumerQueue.dirty
          /\ consumerQueue'.processing = consumerQueue.processing
      BY <2>4, ShutDownEffect DEF ConsumerStop, IInv, WorkersInv
    <3>2. OnTheWay' = OnTheWay
      BY <3>1 DEF OnTheWay
    <3> QED BY <3>1, <3>2 DEF Queue!vars
  <2> QED BY <1>3, <2>1, <2>2, <2>3, <2>4 DEF Consume
<1>4. ASSUME NEW k \in Keys, Enqueue(k) \/ RetryIsDue(k) PROVE Queue!Add(k) \/ UNCHANGED Queue!vars
  <2>1. \E l \in Lanes : EnqueueOn(l, k)
    BY <1>4 DEF Enqueue, EnqueueKey, EnqueueSlowKey, RetryIsDue, Lanes
  <2> QED BY <2>1, EnqueueRefines
<1>5. ASSUME NEW w \in Workers, Work(w) PROVE Queue!Next \/ UNCHANGED Queue!vars
  <2>1. CASE WorkerGet(w)
    BY <2>1, WorkerGetRefines DEF Queue!Next
  <2>2. CASE WorkerDone(w)
    BY <2>2, WorkerDoneRefines DEF Queue!Next
  <2>3. CASE Reconciled(w) \/ ReconcileFails(w) \/ WorkerExit(w)
    BY <1>1, <2>3 DEF Reconciled, ReconcileFails, WorkerExit, queueVars
  <2> QED BY <1>5, <2>1, <2>2, <2>3 DEF Work
<1>6. ASSUME ShutDownLanes PROVE Queue!ShutDown \/ UNCHANGED Queue!vars
  BY <1>6, ShutDownRefines
<1>7. ASSUME WaitForLen \/ WaitForWorkers \/ UNCHANGED vars PROVE UNCHANGED Queue!vars
  BY <1>1, <1>7 DEF WaitForLen, ReadLen, WaitForWorkers, queueVars, vars
<1> QED BY <1>2, <1>3, <1>4, <1>5, <1>6, <1>7 DEF Next, Queue!Next

(* The two lanes, the goroutines between them and the consumer queue are   *)
(* one WorkQueue: a key that a lane accepts is on its way until a worker   *)
(* gets it, and workers get only such keys, one worker each.               *)
THEOREM LanesAreAWorkQueue == Spec => IsWorkQueue
<1>1. Init => Queue!Init
  BY InitRefines
<1>2. IInv /\ [Next]_vars => [Queue!Next]_(Queue!vars)
  BY NextRefines
<1> QED BY <1>1, <1>2, AlwaysIInv, PTL DEF Spec, IsWorkQueue, Queue!Spec
=============================================================================
