--------------------------- MODULE TaskScheduler ---------------------------
(***************************************************************************)
(* The plain scheduler of src/runtime/mod.rs: a fixed pool of workers that *)
(* share one channel behind a mutex (spawn_on_scheduler, Drop), and the    *)
(* thread-per-task Task (Task::new, Scheduler::spawn, Task::join).         *)
(*                                                                         *)
(* A worker keeps the mutex while it blocks in recv, and gives it back     *)
(* before it executes the task.  Drop sends one Shutdown per worker behind *)
(* everything submitted before, then joins the workers.                    *)
(***************************************************************************)
EXTENDS Naturals, Sequences, FiniteSets

CONSTANTS
  Workers,   \* the worker threads of the pool
  Jobs,      \* what is submitted with spawn_on_scheduler
  Threads,   \* the tasks that get a thread of their own
  Shutdown,  \* the Shutdown message
  None       \* nobody, nothing

ASSUME DistinctAssumption ==
  /\ Workers # {} /\ IsFiniteSet(Workers)
  /\ Shutdown \notin Jobs /\ None \notin Jobs \cup Workers /\ None # Shutdown

VARIABLES
  queue,    \* the channel: jobs and Shutdown messages, in order
  mutex,    \* the worker that holds the receiver's mutex
  pc,       \* where each worker is: "lock", "recv", "run", "exit", "dead"
  cur,      \* the job each worker executes
  job,      \* what became of each job
  started,  \* history: the jobs in the order in which they were started
  sent,     \* history: the jobs in the order in which they were submitted
  drop,     \* progress of Drop: "no", "send", "join", "done"
  stops,    \* how many Shutdown messages Drop has sent
  thread,   \* state of each task's own thread
  chan,     \* each task's result channel
  joined    \* what Task::join returned

poolVars   == <<queue, mutex, pc, cur, job, started, sent>>
dropVars   == <<drop, stops>>
threadVars == <<thread, chan, joined>>
vars       == <<poolVars, dropVars, threadVars>>

Init ==
  /\ queue   = <<>>
  /\ mutex   = None
  /\ pc      = [w \in Workers |-> "lock"]
  /\ cur     = [w \in Workers |-> None]
  /\ job     = [j \in Jobs |-> "idle"]
  /\ started = <<>>
  /\ sent    = <<>>
  /\ drop    = "no"
  /\ stops   = 0
  /\ thread  = [t \in Threads |-> "none"]
  /\ chan    = [t \in Threads |-> "empty"]
  /\ joined  = [t \in Threads |-> "no"]

Stopped(w) == pc[w] \in {"exit", "dead"}
Messages   == {queue[i] : i \in 1 .. Len(queue)}

----------------------------------------------------------------------------
(* The receiver lives in an Arc that only the workers hold: it goes with   *)
(* the last of them, and the messages still in the channel go with it.     *)
ReceiverGone == \A w \in Workers : Stopped(w)

SpawnOnScheduler(j) ==
  /\ drop = "no"
  /\ job[j] = "idle"
  /\ sent' = Append(sent, j)
  /\ \/ /\ ReceiverGone                    \* send fails, the error is ignored
        /\ job' = [job EXCEPT ![j] = "lost"]
        /\ UNCHANGED queue
     \/ /\ ~ReceiverGone
        /\ job'   = [job EXCEPT ![j] = "pending"]
        /\ queue' = Append(queue, j)
  /\ UNCHANGED <<mutex, pc, cur, started, dropVars, threadVars>>

Lock(w) ==
  /\ pc[w] = "lock"
  /\ mutex = None
  /\ mutex' = w
  /\ pc'    = [pc EXCEPT ![w] = "recv"]
  /\ UNCHANGED <<queue, cur, job, started, sent, dropVars, threadVars>>

(* Mutant: the newest message is taken first.                              *)
RecvLast(w) ==
  /\ pc[w] = "recv"
  /\ queue # <<>>
  /\ queue[Len(queue)] \in Jobs
  /\ queue'   = SubSeq(queue, 1, Len(queue) - 1)
  /\ mutex'   = None
  /\ cur'     = [cur EXCEPT ![w] = queue[Len(queue)]]
  /\ job'     = [job EXCEPT ![queue[Len(queue)]] = "running"]
  /\ started' = Append(started, queue[Len(queue)])
  /\ pc'      = [pc EXCEPT ![w] = "run"]
  /\ UNCHANGED <<sent, dropVars, threadVars>>

(* Mutant: the message stays in the channel.                               *)
RecvPeeks(w) ==
  /\ pc[w] = "recv"
  /\ queue # <<>>
  /\ Head(queue) \in Jobs
  /\ mutex'   = None
  /\ cur'     = [cur EXCEPT ![w] = Head(queue)]
  /\ job'     = [job EXCEPT ![Head(queue)] = "running"]
  /\ started' = Append(started, Head(queue))
  /\ pc'      = [pc EXCEPT ![w] = "run"]
  /\ UNCHANGED <<queue, sent, dropVars, threadVars>>

(* Mutant: `match rx.lock().unwrap().recv()`: the guard lives on over    *)
(* the job, and the worker locks again before it is released.              *)
RecvKeepsMutex(w) ==
  /\ pc[w] = "recv"
  /\ queue # <<>>
  /\ Head(queue) \in Jobs
  /\ queue'   = Tail(queue)
  /\ cur'     = [cur EXCEPT ![w] = Head(queue)]
  /\ job'     = [job EXCEPT ![Head(queue)] = "running"]
  /\ started' = Append(started, Head(queue))
  /\ pc'      = [pc EXCEPT ![w] = "run"]
  /\ UNCHANGED <<mutex, sent, dropVars, threadVars>>

(* The guard of the mutex is a temporary of the `let`: recv and unlock are *)
(* one step for everybody who waits for the mutex.                         *)
Recv(w) ==
  /\ pc[w] = "recv"
  /\ queue # <<>>
  /\ Head(queue) \in Jobs
  /\ queue'   = Tail(queue)
  /\ mutex'   = None
  /\ cur'     = [cur EXCEPT ![w] = Head(queue)]
  /\ job'     = [job EXCEPT ![Head(queue)] = "running"]
  /\ started' = Append(started, Head(queue))
  /\ pc'      = [pc EXCEPT ![w] = "run"]
  /\ UNCHANGED <<sent, dropVars, threadVars>>

(* What is left when worker w stops: the channel lives on while another    *)
(* worker holds the receiver.                                              *)
Leave(w, end) ==
  /\ pc'  = [pc EXCEPT ![w] = end]
  /\ cur' = [cur EXCEPT ![w] = None]

LastWorker(w) == \A v \in Workers \ {w} : Stopped(v)

RecvShutdown(w) ==
  /\ pc[w] = "recv"
  /\ queue # <<>>
  /\ Head(queue) = Shutdown
  /\ mutex' = None
  /\ Leave(w, "exit")
  /\ IF LastWorker(w)
       THEN /\ queue' = <<>>
            /\ job'   = [j \in Jobs |-> IF j \in Messages THEN "lost" ELSE job[j]]
       ELSE queue' = Tail(queue) /\ UNCHANGED job
  /\ UNCHANGED <<started, sent, dropVars, threadVars>>

Execute(w) ==
  /\ pc[w] = "run"
  /\ job' = [job EXCEPT ![cur[w]] = "done"]
  /\ cur' = [cur EXCEPT ![w] = None]
  /\ pc'  = [pc EXCEPT ![w] = "lock"]
  /\ UNCHANGED <<queue, mutex, started, sent, dropVars, threadVars>>

(* A job that panics unwinds its worker; the mutex is not held then, so it *)
(* is not poisoned for the others.                                         *)
JobPanics(w) ==
  /\ pc[w] = "run"
  /\ Leave(w, "dead")
  /\ IF LastWorker(w)
       THEN /\ queue' = <<>>
            /\ job'   = [j \in Jobs |-> IF j \in Messages \cup {cur[w]}
                                        THEN "lost" ELSE job[j]]
       ELSE job' = [job EXCEPT ![cur[w]] = "lost"] /\ UNCHANGED queue
  /\ UNCHANGED <<mutex, started, sent, dropVars, threadVars>>

----------------------------------------------------------------------------
DropBegin ==
  /\ drop = "no"
  /\ drop' = "send"
  /\ UNCHANGED <<poolVars, stops, threadVars>>

(* Mutant: Shutdown overtakes the jobs.                                    *)
DropSendsFirst ==
  /\ drop = "send"
  /\ stops' = stops + 1
  /\ queue' = IF ReceiverGone THEN queue ELSE <<Shutdown>> \o queue
  /\ drop'  = IF stops' = Cardinality(Workers) THEN "join" ELSE "send"
  /\ UNCHANGED <<mutex, pc, cur, job, started, sent, threadVars>>

DropSend ==
  /\ drop = "send"
  /\ stops' = stops + 1
  /\ queue' = IF ReceiverGone THEN queue ELSE Append(queue, Shutdown)
  /\ drop'  = IF stops' = Cardinality(Workers) THEN "join" ELSE "send"
  /\ UNCHANGED <<mutex, pc, cur, job, started, sent, threadVars>>

DropJoin ==
  /\ drop = "join"
  /\ ReceiverGone
  /\ drop' = "done"
  /\ UNCHANGED <<poolVars, stops, threadVars>>

----------------------------------------------------------------------------
(* Task::new and Scheduler::spawn: a thread for the task, or none when the *)
(* operating system refuses one; the closure, and with it the sender, is   *)
(* dropped then.                                                           *)
SpawnThread(t) ==
  /\ thread[t] = "none"
  /\ \/ thread' = [thread EXCEPT ![t] = "running"] /\ UNCHANGED chan
     \/ /\ thread' = [thread EXCEPT ![t] = "refused"]
        /\ chan'   = [chan EXCEPT ![t] = "closed"]
  /\ UNCHANGED <<poolVars, dropVars, joined>>

ThreadSends(t) ==
  /\ thread[t] = "running"
  /\ \E r \in {"Ok", "Err"} : chan' = [chan EXCEPT ![t] = r]
  /\ thread' = [thread EXCEPT ![t] = "ended"]
  /\ UNCHANGED <<poolVars, dropVars, joined>>

ThreadPanics(t) ==
  /\ thread[t] = "running"
  /\ thread' = [thread EXCEPT ![t] = "panicked"]
  /\ chan'   = [chan EXCEPT ![t] = "closed"]
  /\ UNCHANGED <<poolVars, dropVars, joined>>

(* join waits for the thread, if there is one, then takes what is in the   *)
(* channel; a channel without a sender counts as Ok(()).                   *)
Join(t) ==
  /\ thread[t] \in {"ended", "panicked", "refused"}
  /\ joined[t] = "no"
  /\ joined' = [joined EXCEPT ![t] = IF chan[t] = "closed" THEN "Ok" ELSE chan[t]]
  /\ UNCHANGED <<poolVars, dropVars, thread, chan>>

----------------------------------------------------------------------------
WorkerStep(w) == Lock(w) \/ Recv(w) \/ RecvShutdown(w) \/ Execute(w)

ThreadStep(t) == ThreadSends(t) \/ ThreadPanics(t)

Next == \/ \E j \in Jobs : SpawnOnScheduler(j)
        \/ \E w \in Workers : WorkerStep(w) \/ JobPanics(w)
        \/ DropBegin \/ DropSend \/ DropJoin
        \/ \E t \in Threads : SpawnThread(t) \/ ThreadStep(t) \/ Join(t)

Spec == Init /\ [][Next]_vars

(* Threads run, jobs terminate; a mutex that is free again and again is    *)
(* given to every thread that waits for it only if the lock is fair, so no *)
(* single worker is promised the mutex: some worker takes it.              *)
Fairness ==
  /\ WF_vars(\E w \in Workers : Lock(w))
  /\ \A w \in Workers : WF_vars(Recv(w) \/ RecvShutdown(w) \/ Execute(w))
  /\ WF_vars(DropSend \/ DropJoin)

FairSpec == Spec /\ Fairness

----------------------------------------------------------------------------
(* Jobs start in the order of their submission, whichever workers take     *)
(* them and whatever dies meanwhile: the jobs started are the first ones   *)
(* submitted, and the channel holds the others in order, then only         *)
(* Shutdown messages, unless all was lost with the last worker.            *)
StartedInOrder ==
  LET n == Len(started)
      k == Len(sent) - n
  IN  /\ k >= 0 /\ \A i \in 1 .. n : started[i] = sent[i]
      /\ \/ /\ k <= Len(queue)
            /\ \A i \in 1 .. k : queue[i] = sent[n + i]
            /\ \A i \in k + 1 .. Len(queue) : queue[i] = Shutdown
         \/ ReceiverGone /\ queue = <<>>

(* A join that has returned reports an error exactly when the task sent    *)
(* one, however thread and join were interleaved.  (Ok says less: a panic  *)
(* and a refused thread are Ok as well.)                                   *)
JoinKeepsErrors ==
  \A t \in Threads : joined[t] # "no" => (joined[t] = "Err" <=> chan[t] = "Err")

(* Nothing handed over is forgotten: neither a submitted job nor the error *)
(* of a thread's task.                                                     *)
NothingForgotten == StartedInOrder /\ JoinKeepsErrors

(* Drop returns, whatever workers have died, and it runs what was          *)
(* submitted: every submitted job was started, and ran to its end or       *)
(* panicked, unless panics killed every worker.                            *)
Ran(j) == /\ job[j] \in {"done", "lost"}
          /\ \E k \in 1 .. Len(started) : started[k] = j

DropReturns ==
  drop = "send" ~> /\ drop = "done"
                   /\ \/ \A w \in Workers : pc[w] = "dead"
                      \/ \A i \in 1 .. Len(sent) : Ran(sent[i])

(* A job submitted to a pool with a live worker ends. *)
JobsEnd == \A j \in Jobs : job[j] = "pending" ~> job[j] \in {"done", "lost"}

----------------------------------------------------------------------------
Pool == INSTANCE TaskPool WITH
  Tasks <- Jobs, Capacity <- Cardinality(Workers), state <- job

(* A job refused by a dead pool counts as submitted and lost. *)
Refused(j) == job[j] = "idle" /\ job' = [job EXCEPT ![j] = "lost"]

(* The scheduler is a task pool, with as many tasks at a time as workers. *)
ImplementsTaskPool ==
  Pool!Init /\ [][Pool!Next \/ \E j \in Jobs : Refused(j)]_job
=============================================================================
