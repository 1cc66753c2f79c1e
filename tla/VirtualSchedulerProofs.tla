----------------------- MODULE VirtualSchedulerProofs -----------------------
(***************************************************************************)
(* Proofs about VirtualScheduler for any number of workers and tasks, any  *)
(* behaviour of the tasks, with or without panics and Drop.                *)
(***************************************************************************)
EXTENDS VirtualScheduler, SequenceTheorems, FunctionTheorems,
        FiniteSetTheorems, TLAPS

(* The type invariant is inductive. *)
LEMMA TypeInit == Init => TypeOK
<1> SUFFICES ASSUME Init PROVE TypeOK
  OBVIOUS
<1> USE DEF Init
<1>1. next_worker \in Workers /\ unparked \in 0 .. NumWorkers
  BY ConstantsAssumption DEF ConstantsAssumption, Workers
<1>2. <<>> \in Seq(Tasks)
  OBVIOUS
<1>3. local \in [Workers -> Seq(Tasks)] /\ shared \in Seq(Tasks)
  BY <1>2
<1>. QED
  BY <1>1, <1>3 DEF TypeOK

(* Every step keeps every variable in its type. *)
LEMMA TypeNext == TypeOK /\ [Next]_vars => TypeOK'
<1> SUFFICES ASSUME TypeOK, [Next]_vars PROVE TypeOK'
  OBVIOUS
<1> USE ConstantsAssumption DEF ConstantsAssumption, TypeOK, workerVars, actorVars, dropVars, Workers, Actors
<1>1. ASSUME NEW a \in Actors, NEW t \in Tasks, Spawn(a, t) PROVE TypeOK'
  BY <1>1 DEF Spawn
<1>2. ASSUME NEW a \in Actors, Unpark(a) PROVE TypeOK'
  BY <1>2 DEF Unpark
<1>3. ASSUME NEW a \in Actors, NEW t \in Tasks, Await(a, t) PROVE TypeOK'
  BY <1>3 DEF Await
<1>4. ASSUME NEW a \in Actors, Receive(a) PROVE TypeOK'
  BY <1>4 DEF Receive
<1>5. ASSUME NEW a \in Actors, ReceiveError(a) PROVE TypeOK'
  <2>1. CASE a = Main /\ UNCHANGED <<workerVars, shared, shutdown, next_worker,
                                    chan, rxs, waking, dropVars>>
    BY <1>5, <2>1 DEF ReceiveError
  <2>2. ASSUME NEW w \in Workers, cur[w] = a, EndTask(w, a) PROVE TypeOK'
    BY <1>5, <2>2 DEF ReceiveError, EndTask
  <2>. QED
    BY <1>5, <2>1, <2>2 DEF ReceiveError
<1>6. ASSUME NEW w \in Workers, Finish(w) PROVE TypeOK'
  BY <1>6 DEF Finish, EndTask
<1>7. ASSUME NEW w \in Workers, Panic(w) PROVE TypeOK'
  BY <1>7 DEF Panic, Close
<1>8. ASSUME NEW w \in Workers, LoadShutdown(w) PROVE TypeOK'
  <2>1. CASE ~shutdown
    BY <1>8, <2>1 DEF LoadShutdown, Goto
  <2>2. CASE shutdown
    <3>1. <<>> \in Seq(Tasks)
      OBVIOUS
    <3>2. local' \in [Workers -> Seq(Tasks)]
      BY <1>8, <2>2, <3>1 DEF LoadShutdown
    <3>3. chan' \in [Tasks -> {"none", "open", "value", "closed"}]
      BY <1>8, <2>2 DEF LoadShutdown, Close
    <3>. QED
      BY <1>8, <2>2, <3>2, <3>3 DEF LoadShutdown, Goto
  <2>. QED
    BY <2>1, <2>2
<1>9. ASSUME NEW w \in Workers, Pop(w) PROVE TypeOK'
  <2>1. CASE local[w] = <<>>
    BY <1>9, <2>1 DEF Pop, Goto
  <2>2. CASE local[w] # <<>>
    <3>1. Head(local[w]) \in Tasks /\ Tail(local[w]) \in Seq(Tasks)
      BY <2>2
    <3>2. /\ cur' = [cur EXCEPT ![w] = Head(local[w])]
          /\ local' = [local EXCEPT ![w] = Tail(@)]
      BY <1>9, <2>2 DEF Pop
    <3>5. cur' \in [Workers -> Tasks \cup {NoTask}]
      BY <3>1, <3>2
    <3>6. local' \in [Workers -> Seq(Tasks)]
      BY <3>1, <3>2
    <3>3. pc' = [pc EXCEPT ![w] = "run"]
      BY <1>9, <2>2 DEF Pop, Goto
    <3>4. UNCHANGED <<token, shared, shutdown, next_worker, chan, rxs, waiting,
                      waking, drop, unparked>>
      BY <1>9 DEF Pop
    <3>. QED
      BY <3>5, <3>6, <3>3, <3>4
  <2>. QED
    BY <2>1, <2>2
<1>10. ASSUME NEW w \in Workers, StealSuccess(w) PROVE TypeOK'
  <2>1. PICK k \in 1 .. Len(shared) :
               /\ cur'    = [cur EXCEPT ![w] = shared[1]]
               /\ local'  = [local EXCEPT ![w] = @ \o SubSeq(shared, 2, k)]
               /\ shared' = SubSeq(shared, k + 1, Len(shared))
    BY <1>10 DEF StealSuccess
  <2>2. /\ SubSeq(shared, 2, k) \in Seq(Tasks)
        /\ SubSeq(shared, k + 1, Len(shared)) \in Seq(Tasks)
        /\ shared[1] \in Tasks
    BY <2>1
  <2>3. local[w] \o SubSeq(shared, 2, k) \in Seq(Tasks)
    BY <2>2
  <2>. QED
    BY <1>10, <2>1, <2>2, <2>3 DEF StealSuccess, Goto
<1>11. ASSUME NEW w \in Workers,
              StealEmpty(w) \/ StealRetry(w) \/ Park(w) \/ SpuriousWakeup(w)
       PROVE TypeOK'
  BY <1>11 DEF StealEmpty, StealRetry, Park, SpuriousWakeup, Goto
<1>12. CASE DropStep
  <2>1. CASE DropBegin
    <3>1. /\ drop = "no" /\ shutdown' = TRUE /\ drop' = "unpark" /\ unparked' = unparked
          /\ UNCHANGED <<workerVars, shared, next_worker, chan, actorVars>>
      BY <2>1 DEF DropBegin
    <3>. QED
      BY <3>1
  <2>2. CASE DropUnpark
    <3>1. /\ unparked' \in 0 .. NumWorkers
          /\ drop' \in {"unpark", "join"}
          /\ drop' = "unpark" => unparked' < NumWorkers
      BY <2>2 DEF DropUnpark
    <3>. QED
      BY <2>2, <3>1 DEF DropUnpark
  <2>3. CASE DropJoin
    <3>1. shared' \in Seq(Tasks)
      BY <2>3 DEF DropJoin
    <3>2. chan' \in [Tasks -> {"none", "open", "value", "closed"}]
      BY <2>3 DEF DropJoin, Close
    <3>. QED
      BY <2>3, <3>1, <3>2 DEF DropJoin
  <2>. QED
    BY <1>12, <2>1, <2>2, <2>3 DEF DropStep
<1>13. CASE UNCHANGED vars
  BY <1>13 DEF vars
<1>. QED
  BY <1>1, <1>2, <1>3, <1>4, <1>5, <1>6, <1>7, <1>8, <1>9, <1>10, <1>11,
     <1>12, <1>13 DEF Next, WorkerStep, ActorStep

(* Every variable of the scheduler keeps its type. *)
THEOREM TypeCorrect == Spec => []TypeOK
  BY TypeInit, TypeNext, PTL DEF Spec

----------------------------------------------------------------------------
(* No wakeup is lost.  The invariant is inductive given the types: every   *)
(* action that lets a worker sleep found the injector empty, and every     *)
(* push is followed by an unpark of its own.                               *)
LEMMA WakeupNext == TypeOK /\ NoLostWakeup /\ [Next]_vars => NoLostWakeup'
<1> SUFFICES ASSUME TypeOK, NoLostWakeup, [Next]_vars,
                    shared' # <<>>, ~shutdown', \A w \in Workers : pc'[w] # "dead"
             PROVE  (\E w \in Workers : Awake(w)') \/ (\E a \in Actors : waking'[a])
  BY DEF NoLostWakeup, Awake
<1> DEFINE Goal == (\E w \in Workers : Awake(w)') \/ (\E a \in Actors : waking'[a])
<1> USE DEF TypeOK, workerVars, actorVars, dropVars
<1>1. ASSUME NEW a \in Actors, NEW t \in Tasks, Spawn(a, t) PROVE Goal
  BY <1>1 DEF Spawn
<1>2. ASSUME NEW a \in Actors, Unpark(a) PROVE Goal
  BY <1>2 DEF Unpark, Awake
<1>3. ASSUME UNCHANGED <<pc, shared, shutdown, waking>>,
             \A w \in Workers : token[w] => token'[w]
      PROVE Goal
  BY <1>3 DEF NoLostWakeup, Awake
<1>4. ASSUME NEW w \in Workers, NEW t \in Tasks, EndTask(w, t) PROVE Goal
  BY <1>4 DEF EndTask, Awake
<1>5. ASSUME NEW a \in Actors,
             Receive(a) \/ \E t \in Tasks : Await(a, t) PROVE Goal
  BY <1>5, <1>3 DEF Await, Receive
<1>6. ASSUME NEW a \in Actors, ReceiveError(a) PROVE Goal
  <2>1. CASE UNCHANGED <<workerVars, shared, shutdown, next_worker, chan, rxs, waking,
                         dropVars>>
    BY <2>1, <1>3
  <2>2. ASSUME NEW w \in Workers, cur[w] = a, EndTask(w, a) PROVE Goal
    <3>1. CASE a \in Tasks
      BY <2>2, <3>1, <1>4
    <3>2. CASE a = Main
      BY <2>2, <3>2, ConstantsAssumption DEF ConstantsAssumption
    <3>. QED
      BY <3>1, <3>2 DEF Actors
  <2>. QED
    BY <1>6, <2>1, <2>2 DEF ReceiveError
<1>7. ASSUME NEW w \in Workers, Finish(w) PROVE Goal
  BY <1>7, <1>4 DEF Finish
<1>8. ASSUME NEW w \in Workers, Panic(w) PROVE Goal
  BY <1>8 DEF Panic
<1>9. ASSUME NEW w \in Workers, LoadShutdown(w) PROVE Goal
  BY <1>9 DEF LoadShutdown, Goto, Awake
<1>10. ASSUME NEW w \in Workers, Pop(w) PROVE Goal
  BY <1>10 DEF Pop, Goto, Awake
<1>11. ASSUME NEW w \in Workers, StealSuccess(w) PROVE Goal
  BY <1>11 DEF StealSuccess, Goto, Awake
<1>12. ASSUME NEW w \in Workers,
              StealRetry(w) \/ Park(w) \/ SpuriousWakeup(w) PROVE Goal
  BY <1>12 DEF StealRetry, Park, SpuriousWakeup, Goto, Awake
<1>13. ASSUME NEW w \in Workers, StealEmpty(w) PROVE Goal
  BY <1>13 DEF StealEmpty
<1>14. CASE DropStep
  <2>1. CASE DropBegin
    BY <2>1 DEF DropBegin
  <2>2. CASE DropUnpark
    BY <2>2, <1>3 DEF DropUnpark
  <2>3. CASE DropJoin
    BY <2>3 DEF DropJoin
  <2>. QED
    BY <1>14, <2>1, <2>2, <2>3 DEF DropStep
<1>15. CASE UNCHANGED vars
  BY <1>15, <1>3 DEF vars
<1>. QED
  BY <1>1, <1>2, <1>5, <1>6, <1>7, <1>8, <1>9, <1>10, <1>11, <1>12, <1>13,
     <1>14, <1>15 DEF Next, WorkerStep, ActorStep

(* Work in the injector never waits for a sleeping pool: some worker is on *)
(* its way to it, or busy, or about to be unparked.                        *)
THEOREM WakeupsKept == Spec => []NoLostWakeup
<1>1. Init => NoLostWakeup
  BY DEF Init, NoLostWakeup
<1>. QED
  BY <1>1, TypeCorrect, WakeupNext, PTL DEF Spec

----------------------------------------------------------------------------
(* Queues without repetition, seen as sets.                                *)
Inj(q) == \A i, j \in 1 .. Len(q) : q[i] = q[j] => i = j

(* An empty queue holds nothing. *)
LEMMA EmptyQueue == Elems(<<>>) = {} /\ Inj(<<>>)
  BY DEF Elems, Inj

(* A push of a new task (the spawn on the injector) adds it once. *)
LEMMA PushQueue ==
  ASSUME NEW q \in Seq(Tasks), NEW t \in Tasks, Inj(q), t \notin Elems(q)
  PROVE  Elems(Append(q, t)) = Elems(q) \cup {t} /\ Inj(Append(q, t))
<1>1. /\ Len(Append(q, t)) = Len(q) + 1
      /\ \A i \in 1 .. Len(q) : Append(q, t)[i] = q[i]
      /\ Append(q, t)[Len(q) + 1] = t
      /\ Len(q) \in Nat
  OBVIOUS
<1>2. 1 .. Len(q) + 1 = 1 .. Len(q) \cup {Len(q) + 1}
  BY <1>1
<1>3. Elems(Append(q, t)) = Elems(q) \cup {t}
  BY <1>1, <1>2 DEF Elems
<1>4. Inj(Append(q, t))
  BY <1>1, <1>2 DEF Elems, Inj
<1>. QED
  BY <1>3, <1>4

(* A pop takes exactly the head out of a queue without repetitions. *)
LEMMA PopQueue ==
  ASSUME NEW q \in Seq(Tasks), q # <<>>, Inj(q)
  PROVE  /\ Elems(q) = {Head(q)} \cup Elems(Tail(q))
         /\ Head(q) \notin Elems(Tail(q))
         /\ Inj(Tail(q))
<1>1. /\ Len(Tail(q)) = Len(q) - 1 /\ Len(q) \in Nat \ {0}
      /\ \A i \in 1 .. Len(q) - 1 : Tail(q)[i] = q[i + 1]
      /\ Head(q) = q[1]
  OBVIOUS
<1>2. \A i \in 1 .. Len(q) : i = 1 \/ i - 1 \in 1 .. Len(q) - 1
  BY <1>1
<1>3. ASSUME NEW x PROVE x \in Elems(q) <=> x = q[1] \/ x \in Elems(Tail(q))
  <2>1. ASSUME NEW i \in 1 .. Len(q), x = q[i], i # 1 PROVE x \in Elems(Tail(q))
    <3>1. i - 1 \in 1 .. Len(q) - 1 /\ Tail(q)[i - 1] = q[i]
      BY <1>1, <2>1
    <3>. QED
      BY <1>1, <2>1, <3>1 DEF Elems
  <2>2. ASSUME NEW i \in 1 .. Len(q) - 1, x = Tail(q)[i] PROVE x \in Elems(q)
    <3>1. i + 1 \in 1 .. Len(q) /\ Tail(q)[i] = q[i + 1]
      BY <1>1, <2>2
    <3>. QED
      BY <2>2, <3>1 DEF Elems
  <2>3. q[1] \in Elems(q)
    BY <1>1 DEF Elems
  <2>. QED
    BY <1>1, <2>1, <2>2, <2>3 DEF Elems
<1>4. Head(q) \notin Elems(Tail(q))
  BY <1>1 DEF Elems, Inj
<1>5. Inj(Tail(q))
  BY <1>1 DEF Inj
<1>. QED
  BY <1>1, <1>3, <1>4, <1>5

(* A steal of k tasks splits the injector in three: the task to execute,   *)
(* the batch, and what is left.                                            *)
LEMMA SplitQueue ==
  ASSUME NEW q \in Seq(Tasks), Inj(q), NEW k \in 1 .. Len(q)
  PROVE  LET b == SubSeq(q, 2, k)
             r == SubSeq(q, k + 1, Len(q))
         IN  /\ Elems(q) = {q[1]} \cup Elems(b) \cup Elems(r)
             /\ q[1] \notin Elems(b) /\ q[1] \notin Elems(r)
             /\ Elems(b) \cap Elems(r) = {}
             /\ Inj(b) /\ Inj(r)
<1> DEFINE b == SubSeq(q, 2, k)
           r == SubSeq(q, k + 1, Len(q))
<1>1. /\ Len(q) \in Nat \ {0}
      /\ Len(b) = k - 1 /\ \A i \in 1 .. k - 1 : b[i] = q[i + 1]
      /\ Len(r) = Len(q) - k /\ \A i \in 1 .. Len(q) - k : r[i] = q[i + k]
  OBVIOUS
<1> HIDE DEF b, r
<1>2. Elems(b) = {q[i] : i \in 2 .. k}
  <2>1. ASSUME NEW x, x \in Elems(b) PROVE \E i \in 2 .. k : x = q[i]
    <3>1. PICK j \in 1 .. k - 1 : x = b[j]
      BY <1>1, <2>1 DEF Elems
    <3>2. j + 1 \in 2 .. k /\ x = q[j + 1]
      BY <1>1, <3>1
    <3>. QED
      BY <3>2
  <2>2. ASSUME NEW i \in 2 .. k PROVE q[i] \in Elems(b)
    <3>1. i - 1 \in 1 .. k - 1 /\ b[i - 1] = q[i]
      BY <1>1
    <3>. QED
      BY <1>1, <3>1 DEF Elems
  <2>. QED
    BY <2>1, <2>2
<1>3. Elems(r) = {q[i] : i \in k + 1 .. Len(q)}
  <2>1. ASSUME NEW x, x \in Elems(r) PROVE \E i \in k + 1 .. Len(q) : x = q[i]
    BY <1>1, <2>1 DEF Elems
  <2>2. ASSUME NEW i \in k + 1 .. Len(q) PROVE q[i] \in Elems(r)
    <3>1. i - k \in 1 .. Len(q) - k /\ r[i - k] = q[i]
      BY <1>1
    <3>. QED
      BY <1>1, <3>1 DEF Elems
  <2>. QED
    BY <2>1, <2>2
<1>4. 1 .. Len(q) = {1} \cup 2 .. k \cup k + 1 .. Len(q)
  BY <1>1
<1>5. Elems(q) = {q[1]} \cup Elems(b) \cup Elems(r)
  BY <1>2, <1>3, <1>4 DEF Elems
<1>6. /\ q[1] \notin Elems(b) /\ q[1] \notin Elems(r)
      /\ Elems(b) \cap Elems(r) = {}
  <2>1. \A i, j \in 1 .. Len(q) : q[i] = q[j] => i = j
    BY DEF Inj
  <2>2. \A i \in 2 .. k : i \in 1 .. Len(q) /\ i # 1
    BY <1>1
  <2>3. \A i \in k + 1 .. Len(q) : i \in 1 .. Len(q) /\ i # 1 /\ i \notin 2 .. k
    BY <1>1
  <2>4. 1 \in 1 .. Len(q)
    BY <1>1
  <2>. QED
    BY <1>2, <1>3, <2>1, <2>2, <2>3, <2>4
<1>7. Inj(b)
  <2>1. \A i \in 1 .. Len(b) : b[i] = q[i + 1] /\ i + 1 \in 1 .. Len(q)
    BY <1>1
  <2>. QED
    BY <1>1, <2>1 DEF Inj
<1>8. Inj(r)
  <2>1. \A i \in 1 .. Len(r) : r[i] = q[i + k] /\ i + k \in 1 .. Len(q)
    BY <1>1
  <2>. QED
    BY <1>1, <2>1 DEF Inj
<1>. QED
  BY <1>5, <1>6, <1>7, <1>8 DEF b, r

----------------------------------------------------------------------------
(* The inductive invariant behind OnePlace: no queue repeats a task, no    *)
(* two places hold the same one, the open channels are those of the tasks  *)
(* that are somewhere, a worker executes a task exactly when its loop says *)
(* so, and reaches the injector only with its own queue empty.             *)
NoRepeats == Inj(shared) /\ \A w \in Workers : Inj(local[w])

Apart ==
  /\ \A v, w \in Workers : v # w => Elems(local[v]) \cap Elems(local[w]) = {}
  /\ \A w \in Workers : Elems(local[w]) \cap Elems(shared) = {}
  /\ \A v, w \in Workers : cur[v] \notin Elems(local[w])
  /\ \A w \in Workers : cur[w] \notin Elems(shared)
  /\ \A v, w \in Workers : v # w /\ cur[v] = cur[w] => cur[v] = NoTask

OpenIsPlaced ==
  \A t \in Tasks :
    chan[t] = "open" <=> \/ t \in Elems(shared)
                         \/ \E w \in Workers : t \in Elems(local[w])
                         \/ \E w \in Workers : cur[w] = t

LoopInv ==
  \A w \in Workers : /\ cur[w] # NoTask <=> pc[w] = "run"
                     /\ pc[w] \in {"steal", "park", "exit", "dead"} => local[w] = <<>>

PlaceInv == TypeOK /\ NoRepeats /\ Apart /\ OpenIsPlaced /\ LoopInv

(* At the start no task is anywhere and no channel is open. *)
LEMMA PlaceInit == Init => PlaceInv
<1> SUFFICES ASSUME Init PROVE PlaceInv
  OBVIOUS
<1>1. TypeOK
  BY TypeInit
<1>2. NoRepeats /\ Apart /\ LoopInv
  BY EmptyQueue DEF Init, NoRepeats, Apart, LoopInv
<1>3. OpenIsPlaced
  BY EmptyQueue, ConstantsAssumption DEF ConstantsAssumption, Init, OpenIsPlaced
<1>. QED
  BY <1>1, <1>2, <1>3 DEF PlaceInv

(* What a queue of tasks holds are tasks. *)
LEMMA ElemsAreTasks ==
  ASSUME NEW q \in Seq(Tasks) PROVE Elems(q) \subseteq Tasks
  BY DEF Elems

(* Steps that move no task keep the invariant.                             *)
LEMMA PlaceStutter ==
  ASSUME PlaceInv, TypeOK', UNCHANGED <<cur, local, shared, chan>>,
         \A w \in Workers :
           \/ pc'[w] = pc[w]
           \/ /\ cur[w] = NoTask /\ pc'[w] # "run"
              /\ pc'[w] \in {"load", "pop"} \/ local[w] = <<>>
  PROVE  PlaceInv'
  BY DEF PlaceInv, NoRepeats, Apart, OpenIsPlaced, LoopInv

(* The end of a task frees its worker and decides its channel.             *)
LEMMA PlaceEndTask ==
  ASSUME PlaceInv, TypeOK', NEW w \in Workers, NEW t \in Tasks, cur[w] = t, EndTask(w, t)
  PROVE  PlaceInv'
<1> USE DEF PlaceInv, TypeOK
<1>1. NoTask \notin Tasks
  BY ConstantsAssumption DEF ConstantsAssumption
<1>2. /\ UNCHANGED <<local, shared>>
      /\ chan' = [chan EXCEPT ![t] = "value"]
      /\ cur' = [cur EXCEPT ![w] = NoTask]
      /\ pc' = [pc EXCEPT ![w] = "load"]
  BY DEF EndTask
<1>3. NoRepeats'
  BY <1>2 DEF NoRepeats
<1>4. /\ \A v \in Workers : NoTask \notin Elems(local[v])
      /\ NoTask \notin Elems(shared)
  BY <1>1, ElemsAreTasks
<1>5. Apart'
  BY <1>2, <1>4 DEF Apart
<1>6. OpenIsPlaced'
  <2>1. /\ chan'[t] = "value" /\ t \notin Elems(shared)
        /\ \A v \in Workers : t \notin Elems(local[v]) /\ cur'[v] # t
    BY <1>1, <1>2 DEF Apart
  <2>2. ASSUME NEW u \in Tasks, u # t
        PROVE  chan'[u] = chan[u] /\ \A v \in Workers : cur'[v] = u <=> cur[v] = u
    BY <1>1, <1>2, <2>2
  <2> SUFFICES ASSUME NEW u \in Tasks
               PROVE  chan'[u] = "open" <=> \/ u \in Elems(shared')
                                            \/ \E v \in Workers : u \in Elems(local'[v])
                                            \/ \E v \in Workers : cur'[v] = u
    BY DEF OpenIsPlaced
  <2>3. CASE u = t
    BY <1>2, <2>1, <2>3
  <2>4. CASE u # t
    <3>1. /\ chan'[u] = chan[u]
          /\ \A v \in Workers : cur'[v] = u <=> cur[v] = u
      BY <2>2, <2>4
    <3>2. chan[u] = "open" <=> \/ u \in Elems(shared)
                               \/ \E v \in Workers : u \in Elems(local[v])
                               \/ \E v \in Workers : cur[v] = u
      BY DEF OpenIsPlaced
    <3>. QED
      BY <1>2, <3>1, <3>2
  <2>. QED
    BY <2>3, <2>4
<1>7. LoopInv'
  BY <1>1, <1>2 DEF LoopInv
<1>. QED
  BY <1>3, <1>5, <1>6, <1>7

(* A spawn puts a task that was nowhere into the injector. *)
LEMMA PlaceSpawn ==
  ASSUME PlaceInv, TypeOK', NEW a \in Actors, NEW t \in Tasks, Spawn(a, t)
  PROVE  PlaceInv'
<1> USE DEF PlaceInv, TypeOK
<1>1. NoTask \notin Tasks
  BY ConstantsAssumption DEF ConstantsAssumption
<1>2. /\ UNCHANGED <<pc, cur, local>>
      /\ chan[t] = "none" /\ chan' = [chan EXCEPT ![t] = "open"]
      /\ shared' = Append(shared, t)
  BY DEF Spawn, workerVars
<1>3. /\ t \notin Elems(shared)
      /\ \A w \in Workers : t \notin Elems(local[w]) /\ cur[w] # t
  BY <1>2 DEF OpenIsPlaced
<1>4. Elems(shared') = Elems(shared) \cup {t} /\ Inj(shared')
  BY <1>2, <1>3, PushQueue DEF NoRepeats
<1>5. NoRepeats'
  BY <1>2, <1>4 DEF NoRepeats
<1>6. Apart'
  BY <1>2, <1>3, <1>4 DEF Apart
<1>7. OpenIsPlaced'
  BY <1>2, <1>4 DEF OpenIsPlaced
<1>8. LoopInv'
  BY <1>2 DEF LoopInv
<1>. QED
  BY <1>5, <1>6, <1>7, <1>8

(* A pop moves the head of the own queue to the hands of the worker. *)
LEMMA PlacePop ==
  ASSUME PlaceInv, TypeOK', NEW w \in Workers, Pop(w)
  PROVE  PlaceInv'
<1> USE DEF PlaceInv, TypeOK
<1>1. CASE local[w] = <<>>
  <2>1. /\ pc[w] = "pop" /\ pc' = [pc EXCEPT ![w] = "steal"]
        /\ UNCHANGED <<cur, local, shared, chan>>
    BY <1>1 DEF Pop, Goto
  <2>2. cur[w] = NoTask
    BY <2>1 DEF LoopInv
  <2>. QED
    BY <1>1, <2>1, <2>2, PlaceStutter
<1>2. CASE local[w] # <<>>
  <2>1. /\ pc[w] = "pop" /\ pc' = [pc EXCEPT ![w] = "run"]
        /\ cur' = [cur EXCEPT ![w] = Head(local[w])]
        /\ local' = [local EXCEPT ![w] = Tail(@)]
        /\ UNCHANGED <<shared, chan>>
    BY <1>2 DEF Pop, Goto
  <2>2. cur[w] = NoTask /\ NoTask \notin Tasks
    BY <2>1, ConstantsAssumption DEF LoopInv, ConstantsAssumption
  <2> DEFINE h == Head(local[w])
  <2>3. /\ Elems(local[w]) = {h} \cup Elems(local'[w])
        /\ h \notin Elems(local'[w]) /\ Inj(local'[w]) /\ h \in Tasks
    BY <1>2, <2>1, PopQueue DEF NoRepeats
  <2>4. /\ \A v \in Workers : v # w => local'[v] = local[v] /\ cur'[v] = cur[v]
        /\ cur'[w] = h
    BY <2>1
  <2> HIDE DEF h
  <2>5. NoRepeats'
    BY <2>1, <2>3, <2>4 DEF NoRepeats
  <2>6. Apart'
    <3>1. \A v \in Workers : Elems(local'[v]) \subseteq Elems(local[v])
      BY <2>3, <2>4
    <3>2. \A v \in Workers : h \notin Elems(local'[v]) /\ h \notin Elems(shared) /\ cur[v] # h
      BY <2>3, <2>4 DEF Apart
    <3>. QED
      BY <2>1, <2>2, <2>4, <3>1, <3>2 DEF Apart
  <2>7. OpenIsPlaced'
    <3>1. ASSUME NEW t \in Tasks
          PROVE  (\/ \E v \in Workers : t \in Elems(local[v])
                  \/ \E v \in Workers : cur[v] = t)
                 <=> (\/ \E v \in Workers : t \in Elems(local'[v])
                      \/ \E v \in Workers : cur'[v] = t)
      <4>1. CASE t = h
        BY <2>3, <2>4, <4>1
      <4>2. CASE t # h
        <5>1. \A v \in Workers : t \in Elems(local[v]) <=> t \in Elems(local'[v])
          BY <2>3, <2>4, <4>2
        <5>2. \A v \in Workers : cur[v] = t <=> cur'[v] = t
          BY <2>2, <2>4, <4>2
        <5>. QED
          BY <5>1, <5>2
      <4>. QED
        BY <4>1, <4>2
    <3>. QED
      BY <2>1, <3>1 DEF OpenIsPlaced
  <2>8. LoopInv'
    BY <2>1, <2>2, <2>3, <2>4 DEF LoopInv
  <2>. QED
    BY <2>5, <2>6, <2>7, <2>8
<1>. QED
  BY <1>1, <1>2

(* A steal moves the head to the hands and the batch to the own queue. *)
LEMMA PlaceSteal ==
  ASSUME PlaceInv, TypeOK', NEW w \in Workers, StealSuccess(w)
  PROVE  PlaceInv'
<1> USE DEF PlaceInv, TypeOK
<1>1. PICK k \in 1 .. Len(shared) :
             /\ cur'    = [cur EXCEPT ![w] = shared[1]]
             /\ local'  = [local EXCEPT ![w] = @ \o SubSeq(shared, 2, k)]
             /\ shared' = SubSeq(shared, k + 1, Len(shared))
  BY DEF StealSuccess
<1>2. pc[w] = "steal" /\ pc' = [pc EXCEPT ![w] = "run"] /\ chan' = chan
  BY DEF StealSuccess, Goto
<1>3. local[w] = <<>> /\ cur[w] = NoTask /\ NoTask \notin Tasks
  BY <1>2, ConstantsAssumption DEF LoopInv, ConstantsAssumption
<1> DEFINE h == shared[1]
           b == SubSeq(shared, 2, k)
<1>4. b \in Seq(Tasks) /\ h \in Tasks
  BY <1>1
<1>5. local'[w] = b
  BY <1>1, <1>3, <1>4
<1>6. /\ Elems(shared) = {h} \cup Elems(b) \cup Elems(shared')
      /\ h \notin Elems(b) /\ h \notin Elems(shared')
      /\ Elems(b) \cap Elems(shared') = {}
      /\ Inj(b) /\ Inj(shared')
  BY <1>1, SplitQueue DEF NoRepeats
<1>7. /\ \A v \in Workers : v # w => local'[v] = local[v] /\ cur'[v] = cur[v]
      /\ cur'[w] = h
  BY <1>1
<1>8. Elems(local[w]) = {}
  BY <1>3, EmptyQueue
<1> HIDE DEF h, b
<1>9. NoRepeats'
  BY <1>5, <1>6, <1>7 DEF NoRepeats
<1>10. Apart'
  <2>1. \A v \in Workers : /\ Elems(local[v]) \cap Elems(b) = {}
                           /\ Elems(local[v]) \cap Elems(shared') = {}
                           /\ h \notin Elems(local[v])
                           /\ cur[v] # h /\ cur[v] \notin Elems(b)
                           /\ cur[v] \notin Elems(shared')
    BY <1>6 DEF Apart
  <2>2. \A u, v \in Workers : u # v => Elems(local'[u]) \cap Elems(local'[v]) = {}
    BY <1>5, <1>7, <2>1 DEF Apart
  <2>3. \A v \in Workers : Elems(local'[v]) \cap Elems(shared') = {}
    BY <1>5, <1>6, <1>7, <2>1
  <2>4. \A u, v \in Workers : cur'[u] \notin Elems(local'[v])
    BY <1>5, <1>6, <1>7, <2>1 DEF Apart
  <2>5. \A v \in Workers : cur'[v] \notin Elems(shared')
    BY <1>6, <1>7, <2>1
  <2>6. \A u, v \in Workers : u # v /\ cur'[u] = cur'[v] => cur'[u] = NoTask
    BY <1>7, <2>1 DEF Apart
  <2>. QED
    BY <2>2, <2>3, <2>4, <2>5, <2>6 DEF Apart
<1>11. OpenIsPlaced'
  <2>1. ASSUME NEW t \in Tasks
        PROVE  (\/ t \in Elems(shared)
                \/ \E v \in Workers : t \in Elems(local[v])
                \/ \E v \in Workers : cur[v] = t)
               <=> (\/ t \in Elems(shared')
                    \/ \E v \in Workers : t \in Elems(local'[v])
                    \/ \E v \in Workers : cur'[v] = t)
    <3>1. (\E v \in Workers : t \in Elems(local'[v]))
          <=> t \in Elems(b) \/ \E v \in Workers : t \in Elems(local[v])
      BY <1>5, <1>7, <1>8
    <3>2. (\E v \in Workers : cur'[v] = t) <=> t = h \/ \E v \in Workers : cur[v] = t
      BY <1>3, <1>7
    <3>. QED
      BY <1>6, <3>1, <3>2
  <2>. QED
    BY <1>2, <2>1 DEF OpenIsPlaced
<1>12. LoopInv'
  <2>1. pc'[w] = "run" /\ \A v \in Workers : v # w => pc'[v] = pc[v]
    BY <1>2
  <2>2. h # NoTask
    BY <1>3, <1>4
  <2>. QED
    BY <1>7, <2>1, <2>2 DEF LoopInv
<1>. QED
  BY <1>9, <1>10, <1>11, <1>12

(* A worker thread that ends, by unwinding or by leaving its loop, takes   *)
(* with it the task it executed and its queue.                             *)
LEMMA PlaceThreadEnd ==
  ASSUME PlaceInv, TypeOK', NEW w \in Workers, NEW l \in {"exit", "dead"},
         chan'  = Close(Elems(local[w]) \cup {cur[w]}),
         local' = [local EXCEPT ![w] = <<>>],
         cur'   = [cur EXCEPT ![w] = NoTask],
         pc'    = [pc EXCEPT ![w] = l],
         shared' = shared
  PROVE  PlaceInv'
<1> USE DEF PlaceInv, TypeOK
<1>1. NoTask \notin Tasks
  BY ConstantsAssumption DEF ConstantsAssumption
<1>2. /\ \A v \in Workers : v # w => local'[v] = local[v] /\ cur'[v] = cur[v]
      /\ local'[w] = <<>> /\ Elems(local'[w]) = {} /\ cur'[w] = NoTask
  BY EmptyQueue
<1>3. /\ \A v \in Workers : NoTask \notin Elems(local[v])
      /\ NoTask \notin Elems(shared)
  BY <1>1, ElemsAreTasks
<1>4. NoRepeats'
  BY <1>2, EmptyQueue DEF NoRepeats
<1>5. Apart'
  <2>1. \A v \in Workers : Elems(local'[v]) \subseteq Elems(local[v])
    BY <1>2
  <2>2. \A v \in Workers : cur'[v] = cur[v] \/ cur'[v] = NoTask
    BY <1>2
  <2>3. \A u, v \in Workers : u # v => Elems(local'[u]) \cap Elems(local'[v]) = {}
    BY <2>1 DEF Apart
  <2>4. \A v \in Workers : Elems(local'[v]) \cap Elems(shared') = {}
    BY <2>1 DEF Apart
  <2>5. \A u, v \in Workers : cur'[u] \notin Elems(local'[v])
    BY <1>3, <2>1, <2>2 DEF Apart
  <2>6. \A v \in Workers : cur'[v] \notin Elems(shared')
    BY <1>3, <2>2 DEF Apart
  <2>7. \A u, v \in Workers : u # v /\ cur'[u] = cur'[v] => cur'[u] = NoTask
    BY <2>2 DEF Apart
  <2>. QED
    BY <2>3, <2>4, <2>5, <2>6, <2>7 DEF Apart
<1>6. OpenIsPlaced'
  <2>1. ASSUME NEW t \in Tasks, t \in Elems(local[w]) \/ t = cur[w]
        PROVE  /\ chan'[t] # "open" /\ t \notin Elems(shared')
               /\ \A v \in Workers : t \notin Elems(local'[v]) /\ cur'[v] # t
    <3>1. chan'[t] = "closed"
      BY <2>1 DEF Close
    <3>2. t \notin Elems(shared)
      BY <2>1 DEF Apart
    <3>3. ASSUME NEW v \in Workers PROVE t \notin Elems(local'[v]) /\ cur'[v] # t
      <4>1. CASE v = w
        BY <1>1, <1>2, <4>1
      <4>2. CASE v # w
        BY <1>1, <1>2, <2>1, <4>2 DEF Apart
      <4>. QED
        BY <4>1, <4>2
    <3>. QED
      BY <3>1, <3>2, <3>3
  <2>2. ASSUME NEW t \in Tasks, t \notin Elems(local[w]), t # cur[w]
        PROVE  /\ chan'[t] = chan[t]
               /\ \A v \in Workers : /\ t \in Elems(local'[v]) <=> t \in Elems(local[v])
                                     /\ cur'[v] = t <=> cur[v] = t
    BY <1>1, <1>2, <2>2 DEF Close
  <2> SUFFICES ASSUME NEW t \in Tasks
               PROVE  chan'[t] = "open" <=> \/ t \in Elems(shared')
                                            \/ \E v \in Workers : t \in Elems(local'[v])
                                            \/ \E v \in Workers : cur'[v] = t
    BY DEF OpenIsPlaced
  <2>3. CASE t \in Elems(local[w]) \/ t = cur[w]
    BY <2>1, <2>3
  <2>4. CASE t \notin Elems(local[w]) /\ t # cur[w]
    <3>1. /\ chan'[t] = chan[t]
          /\ \A v \in Workers : t \in Elems(local'[v]) <=> t \in Elems(local[v])
          /\ \A v \in Workers : cur'[v] = t <=> cur[v] = t
      BY <2>2, <2>4
    <3>2. chan[t] = "open" <=> \/ t \in Elems(shared)
                               \/ \E v \in Workers : t \in Elems(local[v])
                               \/ \E v \in Workers : cur[v] = t
      BY DEF OpenIsPlaced
    <3>. QED
      BY <3>1, <3>2
  <2>. QED
    BY <2>3, <2>4
<1>7. LoopInv'
  BY <1>1, <1>2 DEF LoopInv
<1>. QED
  BY <1>4, <1>5, <1>6, <1>7

(* The end of Drop closes the channels of what the injector still held. *)
LEMMA PlaceDropJoin ==
  ASSUME PlaceInv, TypeOK', DropJoin
  PROVE  PlaceInv'
<1> USE DEF PlaceInv, TypeOK
<1>1. /\ shared' = <<>> /\ chan' = Close(Elems(shared))
      /\ UNCHANGED <<pc, cur, local>>
  BY DEF DropJoin, workerVars
<1>2. Elems(shared') = {} /\ Inj(shared')
  BY <1>1, EmptyQueue
<1>3. NoRepeats' /\ Apart' /\ LoopInv'
  BY <1>1, <1>2 DEF NoRepeats, Apart, LoopInv
<1>4. OpenIsPlaced'
  BY <1>1, <1>2 DEF OpenIsPlaced, Apart, Close
<1>. QED
  BY <1>3, <1>4

(* Every step of the scheduler keeps the places apart. *)
LEMMA PlaceNext == PlaceInv /\ [Next]_vars => PlaceInv'
<1> SUFFICES ASSUME PlaceInv, [Next]_vars PROVE PlaceInv'
  OBVIOUS
<1>0. TypeOK /\ TypeOK'
  BY TypeNext DEF PlaceInv
<1>1. ASSUME NEW a \in Actors, NEW t \in Tasks, Spawn(a, t) PROVE PlaceInv'
  BY <1>0, <1>1, PlaceSpawn
<1>2. ASSUME UNCHANGED <<pc, cur, local, shared, chan>> PROVE PlaceInv'
  BY <1>0, <1>2, PlaceStutter
<1>3. ASSUME NEW a \in Actors, Unpark(a) \/ Receive(a) \/ \E t \in Tasks : Await(a, t)
      PROVE  PlaceInv'
  BY <1>2, <1>3 DEF Unpark, Receive, Await, workerVars
<1>4. ASSUME NEW a \in Actors, ReceiveError(a) PROVE PlaceInv'
  <2>1. CASE UNCHANGED <<workerVars, shared, shutdown, next_worker, chan, rxs, waking,
                         dropVars>>
    BY <1>2, <2>1 DEF workerVars
  <2>2. ASSUME NEW w \in Workers, cur[w] = a, EndTask(w, a) PROVE PlaceInv'
    <3>1. a \in Tasks
      BY <1>0, <2>2, ConstantsAssumption DEF ConstantsAssumption, TypeOK, Actors
    <3>. QED
      BY <1>0, <2>2, <3>1, PlaceEndTask
  <2>. QED
    BY <1>4, <2>1, <2>2 DEF ReceiveError
<1>5. ASSUME NEW w \in Workers, Finish(w) PROVE PlaceInv'
  <2>1. cur[w] \in Tasks /\ EndTask(w, cur[w])
    BY <1>0, <1>5 DEF Finish, TypeOK
  <2>. QED
    BY <1>0, <2>1, PlaceEndTask
<1>6. ASSUME NEW w \in Workers, Panic(w) PROVE PlaceInv'
  BY <1>0, <1>6, PlaceThreadEnd DEF Panic
<1>7. ASSUME NEW w \in Workers, LoadShutdown(w) PROVE PlaceInv'
  <2>1. pc[w] = "load" /\ cur[w] = NoTask
    BY <1>7 DEF LoadShutdown, PlaceInv, LoopInv
  <2>2. CASE ~shutdown
    <3>1. pc' = [pc EXCEPT ![w] = "pop"] /\ UNCHANGED <<cur, local, shared, chan>>
      BY <1>7, <2>2 DEF LoadShutdown, Goto
    <3>. QED
      BY <1>0, <2>1, <3>1, PlaceStutter DEF TypeOK
  <2>3. CASE shutdown
    <3>1. /\ pc' = [pc EXCEPT ![w] = "exit"] /\ UNCHANGED <<cur, shared>>
          /\ local' = [local EXCEPT ![w] = <<>>] /\ chan' = Close(Elems(local[w]))
      BY <1>7, <2>3 DEF LoadShutdown, Goto
    <3>2. cur' = [cur EXCEPT ![w] = NoTask]
      BY <1>0, <2>1, <3>1 DEF TypeOK
    <3>3. chan' = Close(Elems(local[w]) \cup {cur[w]})
      BY <2>1, <3>1, ConstantsAssumption DEF ConstantsAssumption, Close
    <3>. QED
      BY <1>0, <3>1, <3>2, <3>3, PlaceThreadEnd
  <2>. QED
    BY <2>2, <2>3
<1>8. ASSUME NEW w \in Workers, Pop(w) \/ StealSuccess(w) PROVE PlaceInv'
  BY <1>0, <1>8, PlacePop, PlaceSteal
<1>9. ASSUME NEW w \in Workers,
             StealEmpty(w) \/ StealRetry(w) \/ Park(w) \/ SpuriousWakeup(w)
      PROVE  PlaceInv'
  <2>1. /\ pc[w] \in {"steal", "park"} /\ UNCHANGED <<cur, local, shared, chan>>
        /\ pc' = [pc EXCEPT ![w] = "load"] \/ pc' = [pc EXCEPT ![w] = "park"]
    BY <1>9 DEF StealEmpty, StealRetry, Park, SpuriousWakeup, Goto
  <2>2. local[w] = <<>> /\ cur[w] = NoTask
    BY <2>1 DEF PlaceInv, LoopInv
  <2>. QED
    BY <1>0, <2>1, <2>2, PlaceStutter DEF TypeOK
<1>10. CASE DropStep
  BY <1>0, <1>2, <1>10, PlaceDropJoin DEF DropStep, DropBegin, DropUnpark, workerVars
<1>11. CASE UNCHANGED vars
  BY <1>2, <1>11 DEF vars, workerVars
<1>. QED
  BY <1>1, <1>3, <1>4, <1>5, <1>6, <1>7, <1>8, <1>9, <1>10, <1>11
     DEF Next, WorkerStep, ActorStep

(* The two properties of the places follow from the inductive invariant. *)
LEMMA PlacesFollow == PlaceInv => OnePlace /\ SleepersHoldNothing
<1> SUFFICES ASSUME PlaceInv PROVE OnePlace /\ SleepersHoldNothing
  OBVIOUS
<1>1. SleepersHoldNothing
  BY DEF PlaceInv, LoopInv, SleepersHoldNothing
<1>2. ASSUME NEW t \in Tasks, chan[t] # "open" PROVE Places(t) = {}
  BY <1>2 DEF PlaceInv, OpenIsPlaced, Places, Elems
<1>3. ASSUME NEW t \in Tasks, chan[t] = "open"
      PROVE  \E p \in Places(t) : Places(t) = {p}
  <2>1. ASSUME NEW i \in 1 .. Len(shared), shared[i] = t
        PROVE  <<"shared", 0, i>> \in Places(t) /\ Places(t) = {<<"shared", 0, i>>}
    <3>1. /\ t \in Elems(shared)
          /\ \A j \in 1 .. Len(shared) : shared[j] = t => j = i
      BY <2>1 DEF PlaceInv, NoRepeats, Inj, Elems
    <3>2. \A w \in Workers : cur[w] # t /\ t \notin Elems(local[w])
      BY <3>1 DEF PlaceInv, Apart
    <3>3. \A w \in Workers : \A j \in 1 .. Len(local[w]) : local[w][j] # t
      BY <3>2 DEF Elems
    <3>. QED
      BY <2>1, <3>1, <3>2, <3>3 DEF Places
  <2>2. ASSUME NEW w \in Workers, cur[w] = t
        PROVE  <<"running", w, 0>> \in Places(t) /\ Places(t) = {<<"running", w, 0>>}
    <3>1. t # NoTask
      BY ConstantsAssumption DEF ConstantsAssumption
    <3>. QED
      <4>1. /\ t \notin Elems(shared) /\ \A v \in Workers : t \notin Elems(local[v])
            /\ \A v \in Workers : cur[v] = t => v = w
        BY <2>2, <3>1 DEF PlaceInv, Apart
      <4>2. /\ \A j \in 1 .. Len(shared) : shared[j] # t
            /\ \A v \in Workers : \A j \in 1 .. Len(local[v]) : local[v][j] # t
        BY <4>1 DEF Elems
      <4>. QED
        BY <2>2, <4>1, <4>2 DEF Places
  <2>3. ASSUME NEW w \in Workers, NEW i \in 1 .. Len(local[w]), local[w][i] = t
        PROVE  <<"local", w, i>> \in Places(t) /\ Places(t) = {<<"local", w, i>>}
    <3>1. /\ t \in Elems(local[w])
          /\ \A j \in 1 .. Len(local[w]) : local[w][j] = t => j = i
      BY <2>3 DEF PlaceInv, NoRepeats, Inj, Elems
    <3>2. /\ t \notin Elems(shared)
          /\ \A v \in Workers : cur[v] # t /\ (v # w => t \notin Elems(local[v]))
      BY <3>1 DEF PlaceInv, Apart
    <3>3. /\ \A j \in 1 .. Len(shared) : shared[j] # t
          /\ \A v \in Workers : \A j \in 1 .. Len(local[v]) : local[v][j] = t => v = w
      BY <3>2 DEF Elems
    <3>. QED
      BY <2>3, <3>1, <3>2, <3>3 DEF Places
  <2>. QED
    BY <1>3, <2>1, <2>2, <2>3 DEF PlaceInv, OpenIsPlaced, Elems
<1>. QED
  BY <1>1, <1>2, <1>3 DEF OnePlace

(* A task whose receiver may block is in exactly one place, and nowhere    *)
(* once its channel is decided: no task is forgotten, none runs twice.     *)
THEOREM TasksInOnePlace == Spec => []OnePlace
  BY PlaceInit, PlaceNext, PlacesFollow, PTL DEF Spec

(* A worker that sleeps, or has stopped, strands no task in its own queue. *)
THEOREM NoTaskStranded == Spec => []SleepersHoldNothing
  BY PlaceInit, PlaceNext, PlacesFollow, PTL DEF Spec

----------------------------------------------------------------------------
(* The scheduler as a task pool.  The stages of the tasks, read off where  *)
(* they are.                                                               *)
LEMMA StageOf ==
  ASSUME PlaceInv, NEW t \in Tasks
  PROVE  /\ stages[t] = "idle" <=> chan[t] = "none"
         /\ stages[t] = "running" <=> \E w \in Workers : cur[w] = t
         /\ stages[t] = "pending" <=> \/ t \in Elems(shared)
                                     \/ \E w \in Workers : t \in Elems(local[w])
<1>1. chan[t] \in {"none", "open", "value", "closed"}
  BY DEF PlaceInv, TypeOK
<1>2. chan[t] = "open" <=> \/ t \in Elems(shared)
                           \/ \E w \in Workers : t \in Elems(local[w])
                           \/ \E w \in Workers : cur[w] = t
  BY DEF PlaceInv, OpenIsPlaced
<1>3. Running(t) => /\ t \notin Elems(shared)
                    /\ \A w \in Workers : t \notin Elems(local[w])
  BY DEF Running, PlaceInv, Apart
<1>. QED
  BY <1>1, <1>2, <1>3 DEF stages, Running

(* Steps that move no task and decide no channel change no stage.          *)
LEMMA SameStages ==
  ASSUME UNCHANGED <<cur, chan>>
  PROVE  UNCHANGED stages
  BY DEF stages, Running

(* A worker that executes nothing leaves room for one more: the others     *)
(* execute at most one task each.                                          *)
LEMMA RoomForOne ==
  ASSUME PlaceInv, NEW w \in Workers, cur[w] = NoTask
  PROVE  Cardinality(Pool!InStage("running")) < NumWorkers
<1> DEFINE R == Pool!InStage("running")
           B == {v \in Workers : cur[v] # NoTask}
           f == [v \in B |-> cur[v]]
<1>1. f \in Surjection(B, R)
  <2>1. \A v \in B : cur[v] \in R
    BY StageOf DEF PlaceInv, TypeOK, Pool!InStage
  <2>2. \A t \in R : \E v \in B : f[v] = t
    BY StageOf, ConstantsAssumption DEF ConstantsAssumption, Pool!InStage
  <2>. QED
    BY <2>1, <2>2 DEF Surjection
<1>2. /\ NumWorkers \in Nat \ {0}
      /\ IsFiniteSet(Workers) /\ Cardinality(Workers) = NumWorkers
  BY FS_Interval, ConstantsAssumption DEF ConstantsAssumption, Workers
<1>3. B \in SUBSET (Workers \ {w})
  OBVIOUS
<1>4. /\ IsFiniteSet(Workers \ {w})
      /\ Cardinality(Workers \ {w}) = NumWorkers - 1
  BY <1>2, FS_RemoveElement
<1>5. IsFiniteSet(B) /\ Cardinality(B) <= Cardinality(Workers \ {w})
  BY <1>3, <1>4, FS_Subset
<1>6. IsFiniteSet(R) /\ Cardinality(R) <= Cardinality(B)
  BY <1>1, <1>5, FS_Surjection
<1>7. Cardinality(B) \in Nat /\ Cardinality(R) \in Nat
  BY <1>5, <1>6, FS_CardinalityType
<1> HIDE DEF R, B
<1>8. Cardinality(R) < NumWorkers
  BY <1>2, <1>4, <1>5, <1>6, <1>7
<1>. QED
  BY <1>8 DEF R

(* A spawn submits its task. *)
LEMMA SpawnSubmits ==
  ASSUME PlaceInv, NEW a \in Actors, NEW t \in Tasks, Spawn(a, t)
  PROVE  Pool!Submit(t)
<1>1. chan[t] = "none" /\ chan' = [chan EXCEPT ![t] = "open"] /\ cur' = cur
  BY DEF Spawn, workerVars
<1>2. ~Running(t) /\ \A u \in Tasks : Running(u)' <=> Running(u)
  BY <1>1 DEF Running, PlaceInv, OpenIsPlaced
<1>3. chan'[t] = "open" /\ \A u \in Tasks : u # t => chan'[u] = chan[u]
  BY <1>1 DEF PlaceInv, TypeOK
<1>4. stages' = [stages EXCEPT ![t] = "pending"]
  BY <1>2, <1>3 DEF stages
<1>. QED
  BY <1>1, <1>4 DEF stages, Pool!Submit

(* A worker without a task that takes one from a queue starts it.          *)
LEMMA TakeStarts ==
  ASSUME PlaceInv, NEW w \in Workers, NEW t \in Tasks, cur[w] = NoTask,
         t \in Elems(shared) \cup Elems(local[w]),
         cur' = [cur EXCEPT ![w] = t], chan' = chan
  PROVE  Pool!Start(t)
<1>1. stages[t] = "pending" /\ chan[t] = "open"
  BY StageOf DEF PlaceInv, OpenIsPlaced
<1>2. cur'[w] = t /\ \A v \in Workers : v # w => cur'[v] = cur[v]
  BY DEF PlaceInv, TypeOK
<1>3. Running(t)'
  BY <1>2 DEF Running
<1>4. ASSUME NEW u \in Tasks, u # t PROVE Running(u)' <=> Running(u)
  BY <1>2, <1>4, ConstantsAssumption DEF ConstantsAssumption, Running
<1>5. stages' = [stages EXCEPT ![t] = "running"]
  BY <1>1, <1>3, <1>4 DEF stages
<1>6. Pool!Cardinality(Pool!InStage("running")) = Cardinality(Pool!InStage("running"))
  BY DEF Pool!Cardinality, Cardinality
<1>. QED
  BY <1>1, <1>5, <1>6, RoomForOne DEF Pool!Start

(* The end of a task completes it. *)
LEMMA EndCompletes ==
  ASSUME PlaceInv, NEW w \in Workers, NEW t \in Tasks, cur[w] = t, EndTask(w, t)
  PROVE  Pool!Complete(t)
<1>1. chan' = [chan EXCEPT ![t] = "value"] /\ cur' = [cur EXCEPT ![w] = NoTask]
  BY DEF EndTask
<1>2. /\ chan'[t] = "value" /\ \A u \in Tasks : u # t => chan'[u] = chan[u]
      /\ cur'[w] = NoTask /\ \A v \in Workers : v # w => cur'[v] = cur[v]
  BY <1>1 DEF PlaceInv, TypeOK
<1>3. ASSUME NEW u \in Tasks, u # t PROVE Running(u)' <=> Running(u)
  BY <1>2, <1>3, ConstantsAssumption DEF ConstantsAssumption, Running
<1>4. stages' = [stages EXCEPT ![t] = "done"]
  BY <1>2, <1>3 DEF stages
<1>. QED
  BY <1>4, StageOf DEF Pool!Complete

(* What a thread or the pool takes along is lost: tasks that were queued   *)
(* or executed and are not executed any more.                              *)
LEMMA CloseLoses ==
  ASSUME PlaceInv, NEW S \in SUBSET Tasks, chan' = Close(S),
         \A t \in S : chan[t] = "open",
         \A t \in Tasks \ S : Running(t)' <=> Running(t)
  PROVE  Pool!Lose(S)
<1>1. S \subseteq Pool!InStage("pending") \cup Pool!InStage("running")
  BY DEF Pool!InStage, stages
<1>2. stages' = [t \in Tasks |-> IF t \in S THEN "lost" ELSE stages[t]]
  BY DEF stages, Close
<1>. QED
  BY <1>1, <1>2 DEF Pool!Lose

(* Every step of the scheduler is one of TaskPool or changes no stage.     *)
LEMMA PoolStep == PlaceInv /\ [Next]_vars => [Pool!Next]_stages
<1> SUFFICES ASSUME PlaceInv, [Next]_vars
             PROVE  Pool!Next \/ UNCHANGED stages
  OBVIOUS
<1>1. ASSUME NEW a \in Actors, NEW t \in Tasks, Spawn(a, t) PROVE Pool!Submit(t)
  BY <1>1, SpawnSubmits
<1>2. ASSUME NEW a \in Actors, Unpark(a) \/ Receive(a) \/ \E t \in Tasks : Await(a, t)
      PROVE  UNCHANGED stages
  BY <1>2, SameStages DEF Unpark, Receive, Await, workerVars
<1>3. ASSUME NEW w \in Workers, cur[w] # NoTask, EndTask(w, cur[w])
      PROVE  \E t \in Tasks : Pool!Complete(t)
  <2>1. cur[w] \in Tasks
    BY <1>3 DEF PlaceInv, TypeOK
  <2>. QED
    BY <1>3, <2>1, EndCompletes
<1>4. ASSUME NEW a \in Actors, ReceiveError(a)
      PROVE  UNCHANGED stages \/ \E t \in Tasks : Pool!Complete(t)
  <2>1. CASE UNCHANGED <<workerVars, shared, shutdown, next_worker, chan, rxs, waking,
                         dropVars>>
    BY <2>1, SameStages DEF workerVars
  <2>2. ASSUME NEW w \in Workers, cur[w] = a, EndTask(w, a)
        PROVE  \E t \in Tasks : Pool!Complete(t)
    <3>1. cur[w] # NoTask
      BY <2>2, ConstantsAssumption DEF ConstantsAssumption, Actors
    <3>. QED
      BY <1>3, <2>2, <3>1
  <2>. QED
    BY <1>4, <2>1, <2>2 DEF ReceiveError
<1>5. ASSUME NEW w \in Workers, Finish(w) PROVE \E t \in Tasks : Pool!Complete(t)
  BY <1>3, <1>5 DEF Finish
<1>6. ASSUME NEW w \in Workers, Pop(w)
      PROVE  UNCHANGED stages \/ \E t \in Tasks : Pool!Start(t)
  <2>1. CASE local[w] = <<>>
    BY <1>6, <2>1, SameStages DEF Pop
  <2>2. CASE local[w] # <<>>
    <3>1. /\ cur' = [cur EXCEPT ![w] = Head(local[w])] /\ chan' = chan /\ pc[w] = "pop"
      BY <1>6, <2>2 DEF Pop
    <3>2. local[w] \in Seq(Tasks) /\ Inj(local[w])
      BY DEF PlaceInv, TypeOK, NoRepeats
    <3>3. Head(local[w]) \in Elems(local[w]) /\ Head(local[w]) \in Tasks
      BY <2>2, <3>2, PopQueue
    <3>4. cur[w] = NoTask
      BY <3>1 DEF PlaceInv, LoopInv
    <3>. QED
      BY <3>1, <3>3, <3>4, TakeStarts
  <2>. QED
    BY <2>1, <2>2
<1>7. ASSUME NEW w \in Workers, StealSuccess(w) PROVE \E t \in Tasks : Pool!Start(t)
  <2>1. /\ cur' = [cur EXCEPT ![w] = shared[1]] /\ chan' = chan /\ pc[w] = "steal"
        /\ \E k \in 1 .. Len(shared) : TRUE
    BY <1>7 DEF StealSuccess
  <2>2. shared[1] \in Elems(shared) /\ shared[1] \in Tasks
    BY <2>1 DEF PlaceInv, TypeOK, Elems
  <2>3. cur[w] = NoTask
    BY <2>1 DEF PlaceInv, LoopInv
  <2>. QED
    BY <2>1, <2>2, <2>3, TakeStarts
<1>8. ASSUME NEW w \in Workers, Panic(w) PROVE \E S \in SUBSET Tasks : Pool!Lose(S)
  <2> DEFINE S == Elems(local[w]) \cup {cur[w]}
  <2>1. cur[w] # NoTask /\ chan' = Close(S) /\ cur' = [cur EXCEPT ![w] = NoTask]
    BY <1>8 DEF Panic
  <2>2. S \in SUBSET Tasks
    BY <2>1, ElemsAreTasks DEF PlaceInv, TypeOK
  <2>3. \A t \in S : chan[t] = "open"
    BY <2>2 DEF PlaceInv, OpenIsPlaced
  <2>4. ASSUME NEW t \in Tasks \ S PROVE Running(t)' <=> Running(t)
    <3>1. cur'[w] = NoTask /\ \A v \in Workers : v # w => cur'[v] = cur[v]
      BY <2>1 DEF PlaceInv, TypeOK
    <3>. QED
      BY <3>1, ConstantsAssumption DEF ConstantsAssumption, Running
  <2> HIDE DEF S
  <2>. QED
    BY <2>1, <2>2, <2>3, <2>4, CloseLoses
<1>9. ASSUME NEW w \in Workers, LoadShutdown(w)
      PROVE  UNCHANGED stages \/ \E S \in SUBSET Tasks : Pool!Lose(S)
  <2>1. CASE ~shutdown
    BY <1>9, <2>1, SameStages DEF LoadShutdown
  <2>2. CASE shutdown
    <3>1. chan' = Close(Elems(local[w])) /\ cur' = cur
      BY <1>9, <2>2 DEF LoadShutdown
    <3>2. Elems(local[w]) \in SUBSET Tasks
      BY ElemsAreTasks DEF PlaceInv, TypeOK
    <3>3. \A t \in Elems(local[w]) : chan[t] = "open"
      BY <3>2 DEF PlaceInv, OpenIsPlaced
    <3>4. \A t \in Tasks : Running(t)' <=> Running(t)
      BY <3>1 DEF Running
    <3>. QED
      BY <3>1, <3>2, <3>3, <3>4, CloseLoses
  <2>. QED
    BY <2>1, <2>2
<1>10. ASSUME NEW w \in Workers,
              StealEmpty(w) \/ StealRetry(w) \/ Park(w) \/ SpuriousWakeup(w)
       PROVE  UNCHANGED stages
  BY <1>10, SameStages DEF StealEmpty, StealRetry, Park, SpuriousWakeup
<1>11. CASE DropJoin
  <2>1. chan' = Close(Elems(shared)) /\ cur' = cur
    BY <1>11 DEF DropJoin, workerVars
  <2>2. Elems(shared) \in SUBSET Tasks
    BY ElemsAreTasks DEF PlaceInv, TypeOK
  <2>3. \A t \in Elems(shared) : chan[t] = "open"
    BY <2>2 DEF PlaceInv, OpenIsPlaced
  <2>4. \A t \in Tasks : Running(t)' <=> Running(t)
    BY <2>1 DEF Running
  <2>5. Pool!Lose(Elems(shared))
    BY <2>1, <2>2, <2>3, <2>4, CloseLoses
  <2>. QED
    BY <2>2, <2>5 DEF Pool!Next
<1>12. CASE DropBegin \/ DropUnpark \/ UNCHANGED vars
  BY <1>12, SameStages DEF DropBegin, DropUnpark, vars, workerVars
<1>. QED
  BY <1>1, <1>2, <1>4, <1>5, <1>6, <1>7, <1>8, <1>9, <1>10, <1>11, <1>12
     DEF Next, WorkerStep, ActorStep, DropStep, Pool!Next

(* The work-stealing scheduler is a task pool: every spawned task is       *)
(* started at most once, no more tasks run than there are workers, and a   *)
(* task ends at most once, with its value or lost with what held it.       *)
THEOREM SchedulerIsAPool == Spec => ImplementsTaskPool
<1>1. Init => Pool!Init
  BY DEF Init, Pool!Init, stages
<1>. QED
  BY <1>1, PlaceInit, PlaceNext, PoolStep, PTL DEF Spec, ImplementsTaskPool, Pool!Spec

----------------------------------------------------------------------------
(* What DropReturns rests on.  While Drop joins no worker sleeps: one that *)
(* parks has its unpark still to consume, and one that executes a task can *)
(* end it, because no task of an owned scheduler awaits another.           *)
NoneSleepsInJoin ==
  drop = "join" =>
    \A w \in Workers : \/ Stopped(w) \/ pc[w] \in {"load", "pop", "steal"}
                       \/ pc[w] = "run" /\ Active(cur[w])
                       \/ pc[w] = "park" /\ token[w]

(* When Drop has returned no thread executes a task, and no receiver of a  *)
(* task of this scheduler can block.                                       *)
DroppedClean == drop = "done" => \A t \in Tasks : ~Running(t) /\ chan[t] # "open"

(* A worker that Drop has unparked still has its token, or has consumed it *)
(* and is at the head of its loop, where it finds the flag raised.         *)
Called(w) == token[w] \/ pc[w] \in {"load", "exit", "dead"}

DropInv ==
  /\ drop \in {"unpark", "join", "done"} => shutdown
  /\ drop = "no" => unparked = 0
  /\ drop = "join" => unparked = NumWorkers
  /\ drop \in {"unpark", "join"} => \A w \in Workers : w < unparked => Called(w)
  /\ drop # "never" => \A a \in Tasks : waiting[a] = NoTask /\ ~waking[a]
  /\ drop = "done" => shared = <<>> /\ \A w \in Workers : Stopped(w)

(* A step that leaves Drop and the flag alone keeps what Drop has done,    *)
(* when no token is lost, no worker leaves the head of its loop other than *)
(* for its exit and none begins again.                                     *)
LEMMA DropKept ==
  ASSUME PlaceInv, DropInv, UNCHANGED <<drop, unparked, shutdown>>,
         drop # "never" => \A a \in Tasks : waiting'[a] = NoTask /\ ~waking'[a],
         drop = "done" => shared' = <<>>,
         \A w \in Workers : /\ shutdown /\ Called(w) => Called(w)'
                            /\ Stopped(w) => Stopped(w)'
  PROVE  DropInv'
  BY DEF DropInv

(* Every step keeps what Drop has done.                                    *)
LEMMA DropNext == PlaceInv /\ DropInv /\ [Next]_vars => DropInv'
<1> SUFFICES ASSUME PlaceInv, DropInv, [Next]_vars PROVE DropInv'
  OBVIOUS
<1>0. TypeOK /\ LoopInv
  BY DEF PlaceInv
<1>1. ASSUME NEW w \in Workers, \A v \in Workers \ {w} : pc'[v] = pc[v] /\ token'[v] = token[v],
             UNCHANGED <<drop, unparked, shutdown>>, ~Stopped(w),
             drop # "never" => \A a \in Tasks : waiting'[a] = NoTask /\ ~waking'[a],
             drop = "done" => shared' = <<>>,
             shutdown /\ Called(w) => Called(w)'
      PROVE  DropInv'
  BY <1>1, DropKept DEF Called, Stopped
<1>2. ASSUME drop # "never" PROVE \A a \in Tasks : waiting[a] = NoTask /\ ~waking[a]
  BY <1>2 DEF DropInv
<1>3. drop = "done" => shared = <<>> /\ \A w \in Workers : Stopped(w)
  BY DEF DropInv
<1>4. ASSUME NEW w \in Workers, LoadShutdown(w) PROVE DropInv'
  <2>1. /\ pc[w] = "load" /\ UNCHANGED <<drop, unparked, shutdown, shared, token, waiting, waking>>
        /\ \A v \in Workers \ {w} : pc'[v] = pc[v]
        /\ shutdown => pc'[w] = "exit"
    BY <1>0, <1>4 DEF LoadShutdown, Goto, actorVars, dropVars, TypeOK
  <2> QED
    BY <1>1, <1>2, <1>3, <2>1 DEF Called, Stopped
<1>5. ASSUME NEW w \in Workers, Pop(w) \/ StealSuccess(w) \/ StealEmpty(w) \/ StealRetry(w) PROVE DropInv'
  <2>1. /\ pc[w] \in {"pop", "steal"}
        /\ UNCHANGED <<drop, unparked, shutdown, token, waiting, waking>>
        /\ \A v \in Workers \ {w} : pc'[v] = pc[v]
    BY <1>0, <1>5 DEF Pop, StealSuccess, StealEmpty, StealRetry, Goto, actorVars, dropVars, TypeOK
  <2>2. drop # "done"
    BY <1>3, <2>1 DEF Stopped
  <2> QED
    BY <1>1, <1>2, <2>1, <2>2 DEF Called, Stopped
<1>6. ASSUME NEW w \in Workers, Park(w) \/ SpuriousWakeup(w) PROVE DropInv'
  <2>1. /\ pc[w] = "park" /\ pc' = [pc EXCEPT ![w] = "load"]
        /\ token' \in {token, [token EXCEPT ![w] = FALSE]}
        /\ UNCHANGED <<drop, unparked, shutdown, shared, waiting, waking>>
    BY <1>6 DEF Park, SpuriousWakeup, Goto, actorVars, dropVars
  <2>2. /\ pc'[w] = "load" /\ \A v \in Workers \ {w} : pc'[v] = pc[v] /\ token'[v] = token[v]
    BY <1>0, <2>1 DEF TypeOK
  <2> QED
    BY <1>1, <1>2, <1>3, <2>1, <2>2 DEF Called, Stopped
<1>7. ASSUME NEW w \in Workers, NEW t \in Tasks, cur[w] = t, EndTask(w, t),
             waiting' \in {waiting, [waiting EXCEPT ![t] = NoTask]}
      PROVE  DropInv'
  <2>1. /\ pc[w] = "run" /\ pc' = [pc EXCEPT ![w] = "load"]
        /\ UNCHANGED <<drop, unparked, shutdown, shared, token, waking>>
    BY <1>0, <1>7, ConstantsAssumption DEF EndTask, dropVars, LoopInv
  <2>2. pc'[w] = "load" /\ \A v \in Workers \ {w} : pc'[v] = pc[v]
    BY <1>0, <2>1 DEF TypeOK
  <2>3. drop # "never" => \A a \in Tasks : waiting'[a] = NoTask
    BY <1>0, <1>2, <1>7 DEF TypeOK, Actors
  <2> QED
    BY <1>1, <1>2, <1>3, <2>1, <2>2, <2>3 DEF Called, Stopped
<1>8. ASSUME NEW w \in Workers, Finish(w) PROVE DropInv'
  <2>1. cur[w] \in Tasks
    BY <1>0, <1>8 DEF Finish, TypeOK
  <2> QED
    BY <1>7, <1>8, <2>1 DEF Finish
<1>9. ASSUME NEW w \in Workers, Panic(w) PROVE DropInv'
  <2>1. /\ pc[w] = "run" /\ pc' = [pc EXCEPT ![w] = "dead"]
        /\ UNCHANGED <<drop, unparked, shutdown, shared, token, waiting, waking>>
    BY <1>0, <1>9 DEF Panic, dropVars, LoopInv
  <2>2. pc'[w] = "dead" /\ \A v \in Workers \ {w} : pc'[v] = pc[v]
    BY <1>0, <2>1 DEF TypeOK
  <2> QED
    BY <1>1, <1>2, <1>3, <2>1, <2>2 DEF Called, Stopped
<1>10. ASSUME NEW a \in Actors, NEW t \in Tasks, Spawn(a, t) \/ Await(a, t) PROVE DropInv'
  <2>1. /\ UNCHANGED <<drop, unparked, shutdown, pc, token>>
        /\ drop = "done" => UNCHANGED shared
        /\ drop # "never" => a = Main
        /\ waiting' \in {waiting, [waiting EXCEPT ![a] = t]}
        /\ waking' \in {waking, [waking EXCEPT ![a] = TRUE]}
    BY <1>10 DEF Spawn, Await, workerVars, dropVars, Actors
  <2>2. drop # "never" => \A b \in Tasks : waiting'[b] = waiting[b] /\ waking'[b] = waking[b]
    BY <1>0, <2>1, ConstantsAssumption DEF TypeOK, Actors
  <2> QED
    BY <1>2, <1>3, <2>1, <2>2, DropKept DEF Called, Stopped
<1>11. ASSUME NEW a \in Actors, Unpark(a) PROVE DropInv'
  <2>1. /\ UNCHANGED <<drop, unparked, shutdown, pc, shared, waiting>>
        /\ \A w \in Workers : token[w] => token'[w]
        /\ \A b \in Tasks : waking'[b] => waking[b]
    BY <1>0, <1>11 DEF Unpark, dropVars, TypeOK, Actors
  <2> QED
    BY <1>2, <1>3, <2>1, DropKept DEF Called, Stopped
<1>12. ASSUME NEW a \in Actors, Receive(a) PROVE DropInv'
  <2>1. /\ UNCHANGED <<drop, unparked, shutdown, pc, token, shared, waking>>
        /\ waiting' = [waiting EXCEPT ![a] = NoTask]
    BY <1>12 DEF Receive, workerVars, dropVars
  <2>2. drop # "never" => \A b \in Tasks : waiting'[b] = NoTask
    BY <1>0, <1>2, <2>1 DEF TypeOK, Actors
  <2> QED
    BY <1>2, <1>3, <2>1, <2>2, DropKept DEF Called, Stopped
<1>13. ASSUME NEW a \in Actors, ReceiveError(a) PROVE DropInv'
  <2>1. waiting' = [waiting EXCEPT ![a] = NoTask]
    BY <1>13 DEF ReceiveError
  <2>2. CASE a = Main /\ UNCHANGED <<workerVars, shared, shutdown, waking, dropVars>>
    <3>1. UNCHANGED <<drop, unparked, shutdown, pc, token, shared, waking>>
      BY <2>2 DEF workerVars, dropVars
    <3>2. drop # "never" => \A b \in Tasks : waiting'[b] = NoTask
      BY <1>0, <1>2, <2>1 DEF TypeOK, Actors
    <3> QED
      BY <1>2, <1>3, <3>1, <3>2, DropKept DEF Called, Stopped
  <2>3. ASSUME NEW w \in Workers, cur[w] = a, EndTask(w, a) PROVE DropInv'
    <3>1. a \in Tasks
      BY <1>0, <2>3, ConstantsAssumption DEF TypeOK, Actors
    <3> QED
      BY <1>7, <2>1, <2>3, <3>1
  <2> QED
    BY <1>13, <2>2, <2>3 DEF ReceiveError
<1>14. CASE DropBegin
  <2>1. /\ drop = "no" /\ drop' = "unpark" /\ shutdown' /\ UNCHANGED <<unparked, waiting, waking>>
    BY <1>14 DEF DropBegin, actorVars
  <2>2. unparked = 0
    BY <2>1 DEF DropInv
  <2> QED
    BY <1>2, <2>1, <2>2 DEF DropInv, Workers
<1>15. CASE DropUnpark
  <2>1. /\ drop = "unpark" /\ token' = [token EXCEPT ![unparked] = TRUE] /\ unparked' = unparked + 1
        /\ drop' = IF unparked' = NumWorkers THEN "join" ELSE "unpark"
        /\ UNCHANGED <<pc, shutdown, waiting, waking>>
    BY <1>15 DEF DropUnpark, actorVars
  <2>2. unparked \in Nat /\ \A w \in Workers : w \in Nat
    BY <1>0, ConstantsAssumption DEF TypeOK, Workers
  <2>3. \A w \in Workers : w < unparked' => Called(w)'
    <3> SUFFICES ASSUME NEW w \in Workers, w < unparked' PROVE Called(w)'
      OBVIOUS
    <3>1. CASE w = unparked
      BY <1>0, <2>1, <3>1 DEF TypeOK, Called
    <3>2. CASE w # unparked
      <4>1. w < unparked
        BY ONLY <2>1, <2>2, <3>2, w < unparked'
      <4>2. Called(w)
        BY <2>1, <4>1 DEF DropInv
      <4> QED
        BY <1>0, <2>1, <3>2, <4>2 DEF TypeOK, Called
    <3> QED
      BY <3>1, <3>2
  <2>4. /\ shutdown' /\ drop' \in {"join", "unpark"} /\ (drop' = "join" => unparked' = NumWorkers)
        /\ \A a \in Tasks : waiting'[a] = NoTask /\ ~waking'[a]
    BY <1>2, <2>1 DEF DropInv
  <2> QED
    BY ONLY <2>3, <2>4 DEF DropInv
<1>16. CASE DropJoin
  BY <1>2, <1>16 DEF DropInv, DropJoin, workerVars, actorVars, Stopped
<1>17. CASE UNCHANGED vars
  BY <1>2, <1>3, <1>17, DropKept DEF vars, workerVars, actorVars, dropVars, Called, Stopped
<1> QED
  BY <1>4, <1>5, <1>6, <1>8, <1>9, <1>10, <1>11, <1>12, <1>13, <1>14, <1>15, <1>16, <1>17
     DEF Next, WorkerStep, ActorStep, DropStep

(* While Drop joins every worker was unparked, and tasks block on nothing. *)
LEMMA JoinGoesOn == PlaceInv /\ DropInv => NoneSleepsInJoin
<1> SUFFICES ASSUME PlaceInv, DropInv, drop = "join", NEW w \in Workers
             PROVE  \/ Stopped(w) \/ pc[w] \in {"load", "pop", "steal"}
                    \/ pc[w] = "run" /\ Active(cur[w])
                    \/ pc[w] = "park" /\ token[w]
  BY DEF NoneSleepsInJoin
<1>1. Called(w)
  <2>1. w < NumWorkers
    BY ConstantsAssumption DEF Workers
  <2> QED
    BY <2>1 DEF DropInv
<1>2. ASSUME pc[w] = "run" PROVE Active(cur[w])
  <2>1. cur[w] \in Tasks /\ cur[w] # Main
    BY <1>2, ConstantsAssumption DEF PlaceInv, TypeOK, LoopInv
  <2>2. waiting[cur[w]] = NoTask /\ ~waking[cur[w]]
    BY <2>1 DEF DropInv
  <2> QED
    BY <2>1, <2>2 DEF Active, Running
<1>3. pc[w] \in {"load", "pop", "steal", "park", "run", "exit", "dead"}
  BY DEF PlaceInv, TypeOK
<1> QED
  BY <1>1, <1>2, <1>3 DEF Called, Stopped

(* A stopped worker has no task, and the injector is dropped last.         *)
LEMMA DropIsClean == PlaceInv /\ DropInv => DroppedClean
<1> SUFFICES ASSUME PlaceInv, DropInv, drop = "done", NEW t \in Tasks
             PROVE  ~Running(t) /\ chan[t] # "open"
  BY DEF DroppedClean
<1>1. shared = <<>> /\ \A w \in Workers : Stopped(w)
  BY DEF DropInv
<1>2. \A w \in Workers : cur[w] = NoTask /\ local[w] = <<>>
  BY <1>1, PlacesFollow DEF Stopped, SleepersHoldNothing, PlaceInv, LoopInv, TypeOK
<1>3. ~Running(t)
  BY <1>2, ConstantsAssumption DEF Running
<1>4. chan[t] # "open"
  BY <1>1, <1>2, <1>3, EmptyQueue DEF PlaceInv, OpenIsPlaced, Running
<1> QED
  BY <1>3, <1>4

(* While Drop joins, every worker has stopped or can go on towards its     *)
(* exit, and when Drop has returned every task it was given has ended: the *)
(* safety part of DropReturns, for any number of workers and tasks.        *)
THEOREM DropNeverSleeps == Spec => [](NoneSleepsInJoin /\ DroppedClean)
<1>1. Init => DropInv
  BY DEF Init, DropInv, Actors
<1> QED
  BY <1>1, PlaceInit, PlaceNext, DropNext, JoinGoesOn, DropIsClean, PTL DEF Spec
=============================================================================
