-------------------------- MODULE VirtualScheduler --------------------------
(***************************************************************************)
(* The M:N scheduler of src/runtime/virtual_task.rs together with the two  *)
(* expressions of the interpreter that use it, `spawn e` and `await h`     *)
(* (src/interpret/expr.rs).                                                *)
(*                                                                         *)
(* Every worker thread loops: look at the shutdown flag, pop its own FIFO  *)
(* queue, steal a batch from the shared injector into that queue, park.    *)
(* A spawn pushes on the injector and then unparks ONE worker, chosen      *)
(* round robin.  A task may itself spawn tasks and block its worker until  *)
(* one of them has sent its value.                                         *)
(*                                                                         *)
(* Workers are numbered by their place in worker_threads: `new` returns    *)
(* only when all have registered, in whichever order they did.             *)
(***************************************************************************)
EXTENDS Naturals, Sequences, FiniteSets

CONSTANTS
  NumWorkers,  \* size of the pool
  Tasks,       \* the tasks the program may spawn (bounds the model)
  Main,        \* the thread that runs the program's main function
  NoTask       \* no task: a worker runs nothing, an actor awaits nothing

ASSUME ConstantsAssumption ==
  /\ NumWorkers \in Nat \ {0}
  /\ Main \notin Tasks /\ NoTask \notin Tasks /\ Main # NoTask

Workers == 0 .. NumWorkers - 1
Actors  == Tasks \cup {Main}

VARIABLES
  pc,           \* where each worker is in its loop
  cur,          \* the task each worker executes
  local,        \* each worker's own FIFO queue
  token,        \* each worker's park token: an unpark not yet consumed
  shared,       \* the injector
  shutdown,     \* the shutdown flag
  next_worker,  \* whom the next spawn unparks
  chan,         \* each task's result channel
  rxs,          \* the receivers each actor holds (task_rxs)
  waiting,      \* the task whose value each actor blocks on
  waking,       \* actors between their push and their unpark
  drop,         \* progress of Drop: "no", "unpark", "join", "done"; "never"
                \* for the global scheduler, a static that is not dropped
  unparked      \* how many workers Drop has unparked

workerVars == <<pc, cur, local, token>>
actorVars  == <<rxs, waiting, waking>>
dropVars   == <<drop, unparked>>
vars == <<workerVars, shared, shutdown, next_worker, chan, actorVars,
          dropVars>>

----------------------------------------------------------------------------
Elems(q)     == {q[i] : i \in 1 .. Len(q)}
Running(t)   == \E w \in Workers : cur[w] = t
Stopped(w)   == pc[w] \in {"exit", "dead"}

(* An actor that can take its next step: it is being executed and neither  *)
(* blocks on a receiver nor is inside `spawn`.                             *)
Active(a) == /\ waiting[a] = NoTask
             /\ ~waking[a]
             /\ IF a = Main THEN drop \in {"never", "no", "done"} ELSE Running(a)

(* A task that is dropped unexecuted, or whose closure unwinds, drops its  *)
(* sender: the receiver is woken without a value.                          *)
Close(S) == [t \in Tasks |-> IF t \in S THEN "closed" ELSE chan[t]]

Init ==
  /\ pc          = [w \in Workers |-> "load"]
  /\ cur         = [w \in Workers |-> NoTask]
  /\ local       = [w \in Workers |-> <<>>]
  /\ token       = [w \in Workers |-> FALSE]
  /\ shared      = <<>>
  /\ shutdown    = FALSE
  /\ next_worker = 0
  /\ chan        = [t \in Tasks |-> "none"]
  /\ rxs         = [a \in Actors |-> {}]
  /\ waiting     = [a \in Actors |-> NoTask]
  /\ waking      = [a \in Actors |-> FALSE]
  /\ drop        \in {"never", "no"}
  /\ unparked    = 0

----------------------------------------------------------------------------
(* The actors: main and the tasks being executed.  `spawn` and `await` in  *)
(* a task use the global scheduler.                                        *)

(* spawn: create the channel, push the task on the injector ...            *)
Spawn(a, t) ==
  /\ Active(a)
  /\ drop = "never" \/ (drop = "no" /\ a = Main)
  /\ chan[t] = "none"
  /\ chan'   = [chan EXCEPT ![t] = "open"]
  /\ shared' = Append(shared, t)
  /\ rxs'    = [rxs EXCEPT ![a] = @ \cup {t}]
  /\ waking' = [waking EXCEPT ![a] = TRUE]
  /\ UNCHANGED <<workerVars, shutdown, next_worker, waiting, dropVars>>

(* Mutant: the counter is used as it is, not modulo the pool's size.       *)
UnparkWithoutModulo(a) ==
  /\ waking[a]
  /\ waking'      = [waking EXCEPT ![a] = FALSE]
  /\ token'       = [token EXCEPT ![next_worker] = TRUE]
  /\ next_worker' = next_worker + 1
  /\ UNCHANGED <<pc, cur, local, shared, shutdown, chan, rxs, waiting, dropVars>>

(* ... and unpark one worker, whatever that worker is doing.  The code's   *)
(* counter is 64 bits wide and taken modulo the pool size; only the        *)
(* residue is kept.                                                        *)
Unpark(a) ==
  /\ waking[a]
  /\ waking'      = [waking EXCEPT ![a] = FALSE]
  /\ token'       = [token EXCEPT ![next_worker] = TRUE]
  /\ next_worker' = (next_worker + 1) % NumWorkers
  /\ UNCHANGED <<pc, cur, local, shared, shutdown, chan, rxs, waiting, dropVars>>

(* await removes the receiver from task_rxs, then blocks the whole thread. *)
Await(a, t) ==
  /\ Active(a)
  /\ a \in Tasks => drop = "never"
  /\ t \in rxs[a]
  /\ rxs'     = [rxs EXCEPT ![a] = @ \ {t}]
  /\ waiting' = [waiting EXCEPT ![a] = t]
  /\ UNCHANGED <<workerVars, shared, shutdown, next_worker, chan, waking, dropVars>>

Receive(a) ==
  /\ waiting[a] # NoTask
  /\ chan[waiting[a]] = "value"
  /\ waiting' = [waiting EXCEPT ![a] = NoTask]
  /\ UNCHANGED <<workerVars, shared, shutdown, next_worker, chan, rxs, waking,
                 dropVars>>

(* Mutant: the `continue` after execute is forgotten, the worker parks.    *)
EndTaskThenPark(w, t) ==
  /\ chan'    = [chan EXCEPT ![t] = "value"]
  /\ cur'     = [cur EXCEPT ![w] = NoTask]
  /\ pc'      = [pc EXCEPT ![w] = "park"]
  /\ rxs'     = [rxs EXCEPT ![t] = {}]
  /\ UNCHANGED <<local, token, shared, shutdown, next_worker, waking, dropVars>>

(* The closure has sent its value and returned: back to the loop's head.   *)
(* The task's interpreter, with the receivers it still held, is dropped.   *)
EndTask(w, t) ==
  /\ chan'    = [chan EXCEPT ![t] = "value"]
  /\ cur'     = [cur EXCEPT ![w] = NoTask]
  /\ pc'      = [pc EXCEPT ![w] = "load"]
  /\ rxs'     = [rxs EXCEPT ![t] = {}]
  /\ UNCHANGED <<local, token, shared, shutdown, next_worker, waking, dropVars>>

Finish(w) ==
  /\ cur[w] # NoTask
  /\ Active(cur[w])
  /\ EndTask(w, cur[w])
  /\ UNCHANGED waiting

(* The awaited task died: `await` fails, the error leaves the expression,  *)
(* and a task then sends the error's text as its own value and ends.  Main *)
(* goes on with its handling of the error.                                 *)
ReceiveError(a) ==
  /\ waiting[a] # NoTask
  /\ chan[waiting[a]] = "closed"
  /\ waiting' = [waiting EXCEPT ![a] = NoTask]
  /\ \/ /\ a = Main
        /\ UNCHANGED <<workerVars, shared, shutdown, next_worker, chan, rxs,
                       waking, dropVars>>
     \/ \E w \in Workers : cur[w] = a /\ EndTask(w, a)

(* Mutant: the task that panics is not dropped with its worker.            *)
PanicKeepsTask(w) ==
  /\ cur[w] # NoTask
  /\ Active(cur[w])
  /\ chan'  = Close(Elems(local[w]))
  /\ local' = [local EXCEPT ![w] = <<>>]
  /\ cur'   = [cur EXCEPT ![w] = NoTask]
  /\ pc'    = [pc EXCEPT ![w] = "dead"]
  /\ rxs'   = [rxs EXCEPT ![cur[w]] = {}]
  /\ UNCHANGED <<token, shared, shutdown, next_worker, waiting, waking, dropVars>>

(* Nothing catches an unwinding closure: the worker thread dies and its    *)
(* queue is dropped with it.                                               *)
Panic(w) ==
  /\ cur[w] # NoTask
  /\ Active(cur[w])
  /\ chan'  = Close(Elems(local[w]) \cup {cur[w]})
  /\ local' = [local EXCEPT ![w] = <<>>]
  /\ cur'   = [cur EXCEPT ![w] = NoTask]
  /\ pc'    = [pc EXCEPT ![w] = "dead"]
  /\ rxs'   = [rxs EXCEPT ![cur[w]] = {}]
  /\ UNCHANGED <<token, shared, shutdown, next_worker, waiting, waking, dropVars>>

----------------------------------------------------------------------------
(* The worker loop. *)

Goto(w, l) == pc' = [pc EXCEPT ![w] = l]

(* The flag is read with Relaxed ordering; the park token that Drop leaves *)
(* afterwards orders the two, so a stale read only delays the exit.        *)
LoadShutdown(w) ==
  /\ pc[w] = "load"
  /\ \/ /\ ~shutdown
        /\ Goto(w, "pop")
        /\ UNCHANGED <<local, chan>>
     \/ /\ shutdown
        /\ Goto(w, "exit")
        /\ local' = [local EXCEPT ![w] = <<>>]
        /\ chan'  = Close(Elems(local[w]))
  /\ UNCHANGED <<cur, token, shared, shutdown, next_worker, actorVars, dropVars>>

(* Mutant: the injector is tried before the worker's own queue is empty.   *)
PopMayStealFirst(w) ==
  /\ pc[w] = "pop"
  /\ \/ /\ Goto(w, "steal")
        /\ UNCHANGED <<cur, local>>
     \/ /\ local[w] # <<>>
        /\ cur'   = [cur EXCEPT ![w] = Head(local[w])]
        /\ local' = [local EXCEPT ![w] = Tail(@)]
        /\ Goto(w, "run")
  /\ UNCHANGED <<token, shared, shutdown, next_worker, chan, actorVars, dropVars>>

Pop(w) ==
  /\ pc[w] = "pop"
  /\ \/ /\ local[w] = <<>>
        /\ Goto(w, "steal")
        /\ UNCHANGED <<cur, local>>
     \/ /\ local[w] # <<>>
        /\ cur'   = [cur EXCEPT ![w] = Head(local[w])]
        /\ local' = [local EXCEPT ![w] = Tail(@)]
        /\ Goto(w, "run")
  /\ UNCHANGED <<token, shared, shutdown, next_worker, chan, actorVars, dropVars>>

(* Mutant: the batch is copied to the worker's queue, not moved.           *)
StealCopiesBatch(w) ==
  /\ pc[w] = "steal"
  /\ \E k \in 1 .. Len(shared) :
       /\ cur'    = [cur EXCEPT ![w] = shared[1]]
       /\ local'  = [local EXCEPT ![w] = @ \o SubSeq(shared, 2, k)]
       /\ shared' = Tail(shared)
  /\ Goto(w, "run")
  /\ UNCHANGED <<token, shutdown, next_worker, chan, actorVars, dropVars>>

(* steal_batch_and_pop: the first task is returned, a batch of the next    *)
(* ones moves to the worker's queue.  How many depends on where the        *)
(* injector's internal blocks end, so it is any number.                    *)
StealSuccess(w) ==
  /\ pc[w] = "steal"
  /\ \E k \in 1 .. Len(shared) :
       /\ cur'    = [cur EXCEPT ![w] = shared[1]]
       /\ local'  = [local EXCEPT ![w] = @ \o SubSeq(shared, 2, k)]
       /\ shared' = SubSeq(shared, k + 1, Len(shared))
  /\ Goto(w, "run")
  /\ UNCHANGED <<token, shutdown, next_worker, chan, actorVars, dropVars>>

StealEmpty(w) ==
  /\ pc[w] = "steal"
  /\ shared = <<>>
  /\ Goto(w, "park")
  /\ UNCHANGED <<cur, local, token, shared, shutdown, next_worker, chan,
                 actorVars, dropVars>>

(* The injector answers Retry when another thread moved it meanwhile.      *)
StealRetry(w) ==
  /\ pc[w] = "steal"
  /\ Goto(w, "load")
  /\ UNCHANGED <<cur, local, token, shared, shutdown, next_worker, chan,
                 actorVars, dropVars>>

(* park returns at once when the token is there and consumes it.           *)
Park(w) ==
  /\ pc[w] = "park"
  /\ token[w]
  /\ token' = [token EXCEPT ![w] = FALSE]
  /\ Goto(w, "load")
  /\ UNCHANGED <<cur, local, shared, shutdown, next_worker, chan, actorVars,
                 dropVars>>

(* The contract of park allows it to return for no reason.                 *)
SpuriousWakeup(w) ==
  /\ pc[w] = "park"
  /\ ~token[w]
  /\ Goto(w, "load")
  /\ UNCHANGED <<cur, local, token, shared, shutdown, next_worker, chan,
                 actorVars, dropVars>>

----------------------------------------------------------------------------
(* Drop of an owned scheduler: raise the flag, unpark every worker in      *)
(* turn, join them all; the injector and what it still holds go last.      *)
DropBegin ==
  /\ drop = "no"
  /\ Active(Main)
  /\ shutdown' = TRUE
  /\ drop'     = "unpark"
  /\ UNCHANGED <<workerVars, shared, next_worker, chan, actorVars, unparked>>

(* Mutant: Drop unparks the first worker again and again.                  *)
DropUnparkFirst ==
  /\ drop = "unpark"
  /\ token'    = [token EXCEPT ![0] = TRUE]
  /\ unparked' = unparked + 1
  /\ drop'     = IF unparked' = NumWorkers THEN "join" ELSE "unpark"
  /\ UNCHANGED <<pc, cur, local, shared, shutdown, next_worker, chan,
                 actorVars>>

DropUnpark ==
  /\ drop = "unpark"
  /\ token'    = [token EXCEPT ![unparked] = TRUE]
  /\ unparked' = unparked + 1
  /\ drop'     = IF unparked' = NumWorkers THEN "join" ELSE "unpark"
  /\ UNCHANGED <<pc, cur, local, shared, shutdown, next_worker, chan,
                 actorVars>>

(* Mutant: Drop does not join the workers.                                 *)
DropWithoutJoin ==
  /\ drop = "join"
  /\ drop'   = "done"
  /\ chan'   = Close(Elems(shared))
  /\ shared' = <<>>
  /\ UNCHANGED <<workerVars, shutdown, next_worker, actorVars, unparked>>

DropJoin ==
  /\ drop = "join"
  /\ \A w \in Workers : Stopped(w)
  /\ drop'   = "done"
  /\ chan'   = Close(Elems(shared))
  /\ shared' = <<>>
  /\ UNCHANGED <<workerVars, shutdown, next_worker, actorVars, unparked>>

----------------------------------------------------------------------------
WorkerStep(w) == \/ LoadShutdown(w)
                 \/ Pop(w)
                 \/ StealSuccess(w)
                 \/ StealEmpty(w)
                 \/ StealRetry(w)
                 \/ Park(w)
                 \/ SpuriousWakeup(w)
                 \/ Finish(w)
                 \/ Panic(w)

ActorStep(a) == \/ \E t \in Tasks : Spawn(a, t) \/ Await(a, t)
                \/ Unpark(a)
                \/ Receive(a)
                \/ ReceiveError(a)

DropStep == DropBegin \/ DropUnpark \/ DropJoin

Next == \/ \E w \in Workers : WorkerStep(w)
        \/ \E a \in Actors : ActorStep(a)
        \/ DropStep

Spec == Init /\ [][Next]_vars

(* The operating system runs every thread that can run.  A thread at the   *)
(* injector gets an answer other than Retry in the end: Retry means that   *)
(* another thread moved the injector.  A task's expression terminates.     *)
(* Nothing makes main spawn, await or drop, a task panic or park wake up   *)
(* for no reason.                                                          *)
Fairness ==
  /\ \A w \in Workers : /\ WF_vars(LoadShutdown(w) \/ Pop(w) \/ Park(w))
                        /\ SF_vars(StealSuccess(w) \/ StealEmpty(w))
                        /\ WF_vars(cur[w] # NoTask /\ (Finish(w) \/ ActorStep(cur[w])))
  /\ WF_vars(Unpark(Main) \/ Receive(Main) \/ ReceiveError(Main))
  /\ WF_vars(DropUnpark \/ DropJoin)

FairSpec == Spec /\ Fairness

----------------------------------------------------------------------------
(* Every variable keeps its type. *)
TypeOK ==
  /\ pc          \in [Workers -> {"load", "pop", "steal", "park", "run", "exit",
                                  "dead"}]
  /\ cur         \in [Workers -> Tasks \cup {NoTask}]
  /\ local       \in [Workers -> Seq(Tasks)]
  /\ token       \in [Workers -> BOOLEAN]
  /\ shared      \in Seq(Tasks)
  /\ shutdown    \in BOOLEAN
  /\ next_worker \in Workers
  /\ chan        \in [Tasks -> {"none", "open", "value", "closed"}]
  /\ rxs         \in [Actors -> SUBSET Tasks]
  /\ waiting     \in [Actors -> Tasks \cup {NoTask}]
  /\ waking      \in [Actors -> BOOLEAN]
  /\ drop        \in {"never", "no", "unpark", "join", "done"}
  /\ unparked    \in 0 .. NumWorkers
  /\ drop \in {"no", "unpark"} => unparked < NumWorkers

(* The places a task can be in: a slot of the injector, a slot of a        *)
(* worker's queue, the hands of a worker.                                  *)
Places(t) ==
  {<<"shared", 0, i>> : i \in {j \in 1 .. Len(shared) : shared[j] = t}}
  \cup {<<"running", w, 0>> : w \in {v \in Workers : cur[v] = t}}
  \cup UNION {{<<"local", w, i>> : i \in {j \in 1 .. Len(local[w]) : local[w][j] = t}}
                : w \in Workers}

(* As long as a receiver can block on a task, the task sits in exactly one *)
(* place from which its value can still come; once its channel is decided, *)
(* it is nowhere and cannot be executed again.  Pushes, batch steals, pops,*)
(* unwinding and the exit of a worker must agree on this.                  *)
OnePlace ==
  \A t \in Tasks : IF chan[t] = "open" THEN \E p \in Places(t) : Places(t) = {p}
                                       ELSE Places(t) = {}

(* No wakeup is lost: when work sits in the injector and no worker died,   *)
(* some worker is on its way to the injector or executes a task, has an    *)
(* unpark to consume, or a spawn is about to unpark one.                   *)
Awake(w) == pc[w] \in {"load", "pop", "steal", "run"} \/ token[w]

NoLostWakeup ==
  (shared # <<>> /\ ~shutdown /\ \A w \in Workers : pc[w] # "dead")
    => (\E w \in Workers : Awake(w)) \/ (\E a \in Actors : waking[a])

(* A worker that sleeps, or is about to, has nothing in its own queue: no  *)
(* one else could take it from there.                                      *)
SleepersHoldNothing ==
  \A w \in Workers : pc[w] \in {"steal", "park", "exit", "dead"} => local[w] = <<>>

(* Every spawned task is executed to its end or dropped with its pool,     *)
(* unless a panic kills a worker or a task awaits another one: the worker  *)
(* it blocks may hold the task, or be the one that was unparked for it.    *)
EverySpawnedTaskEnds ==
  \A t \in Tasks : chan[t] = "open" ~> \/ chan[t] # "open"
                                       \/ \E w \in Workers : pc[w] = "dead"
                                       \/ \E a \in Tasks : waiting[a] # NoTask

(* Drop returns, whatever the workers do, and then no thread executes a    *)
(* task and no receiver of a task of this scheduler can block for ever:    *)
(* each has its value or is closed.                                        *)
DropReturns ==
  drop = "unpark" ~> /\ drop = "done"
                     /\ \A t \in Tasks : ~Running(t) /\ chan[t] # "open"

----------------------------------------------------------------------------
(* The scheduler is a task pool: where a task is and what its channel      *)
(* holds tell the stage of its life.                                       *)
stages == [t \in Tasks |->
             IF chan[t] = "none" THEN "idle"
             ELSE IF chan[t] = "value" THEN "done"
             ELSE IF chan[t] = "closed" THEN "lost"
             ELSE IF Running(t) THEN "running" ELSE "pending"]

Pool == INSTANCE TaskPool WITH Capacity <- NumWorkers, state <- stages

(* Every step of the scheduler is a step of the abstract pool, or none.    *)
ImplementsTaskPool == Pool!Spec
=============================================================================
