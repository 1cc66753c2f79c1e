------------------------ MODULE TaskSchedulerProofs ------------------------
(***************************************************************************)
(* Proofs about TaskScheduler for any number of workers, jobs and thread   *)
(* tasks: nothing that was handed over is forgotten, the scheduler is a    *)
(* TaskPool, and Drop is never stuck.                                      *)
(***************************************************************************)
EXTENDS TaskScheduler, SequenceTheorems, FunctionTheorems, FiniteSetTheorems, TLAPS

(* What the channel carries. *)
Signals == Jobs \cup {Shutdown}

TypeOK ==
  /\ queue \in Seq(Signals)
  /\ pc \in [Workers -> {"lock", "recv", "run", "exit", "dead"}]
  /\ cur \in [Workers -> Jobs \cup {None}]
  /\ job \in [Jobs -> {"idle", "pending", "running", "done", "lost"}]
  /\ started \in Seq(Jobs)
  /\ sent \in Seq(Jobs)
  /\ drop \in {"no", "send", "join", "done"}
  /\ thread \in [Threads -> {"none", "running", "refused", "ended", "panicked"}]
  /\ chan \in [Threads -> {"empty", "Ok", "Err", "closed"}]
  /\ joined \in [Threads -> {"no", "empty", "Ok", "Err"}]

(* The channel: Shutdown messages only after Drop has begun, nothing at    *)
(* all without a receiver, and every job in it once and still pending.     *)
Channel ==
  /\ drop = "no" => \A i \in 1 .. Len(queue) : queue[i] # Shutdown
  /\ ReceiverGone => queue = <<>>
  /\ \A i \in 1 .. Len(queue) : queue[i] \in Jobs => job[queue[i]] = "pending"
  /\ \A i, j \in 1 .. Len(queue) : queue[i] \in Jobs /\ queue[i] = queue[j] => i = j

(* The running jobs are those of the running workers, one each. *)
Executing ==
  /\ \A w \in Workers : pc[w] = "run" => cur[w] \in Jobs /\ job[cur[w]] = "running"
  /\ \A v, w \in Workers : pc[v] = "run" /\ pc[w] = "run" /\ cur[v] = cur[w] => v = w
  /\ \A j \in Jobs : job[j] = "running" => \E w \in Workers : pc[w] = "run" /\ cur[w] = j

PoolInv == TypeOK /\ Channel /\ Executing

(* A task that was joined has a channel nobody sends on any more. *)
Joined ==
  \A t \in Threads :
    /\ thread[t] = "ended" => chan[t] \in {"Ok", "Err"}
    /\ thread[t] \in {"panicked", "refused"} => chan[t] = "closed"
    /\ joined[t] # "no" => thread[t] \in {"ended", "panicked", "refused"}

----------------------------------------------------------------------------
(* A message is sent: it is behind the others. *)
LEMMA SendFacts ==
  ASSUME NEW S, NEW q \in Seq(S), NEW x \in S
  PROVE  /\ Append(q, x) \in Seq(S) /\ Len(q) \in Nat /\ Len(Append(q, x)) = Len(q) + 1
         /\ \A i \in 1 .. Len(q) : q[i] \in S /\ Append(q, x)[i] = q[i]
         /\ Append(q, x)[Len(q) + 1] = x
  OBVIOUS

(* A message is received: the others move up. *)
LEMMA ReceiveFacts ==
  ASSUME NEW S, NEW q \in Seq(S), q # <<>>
  PROVE  /\ Tail(q) \in Seq(S) /\ Len(q) \in Nat \ {0} /\ Len(Tail(q)) = Len(q) - 1
         /\ Head(q) = q[1] /\ q[1] \in S
         /\ \A i \in 1 .. Len(q) - 1 : Tail(q)[i] = q[i + 1] /\ i + 1 \in 1 .. Len(q)
  OBVIOUS

(* What the steps that touch the channel do, spelled out. *)
LEMMA RecvEffect ==
  ASSUME NEW w \in Workers, Recv(w)
  PROVE  /\ pc[w] = "recv" /\ queue # <<>> /\ Head(queue) \in Jobs
         /\ queue' = Tail(queue) /\ cur' = [cur EXCEPT ![w] = Head(queue)]
         /\ job' = [job EXCEPT ![Head(queue)] = "running"]
         /\ started' = Append(started, Head(queue)) /\ pc' = [pc EXCEPT ![w] = "run"]
         /\ UNCHANGED <<sent, drop, stops, thread, chan, joined>>
  BY DEF Recv, dropVars, threadVars

(* The end of a worker, after a Shutdown or a panic. *)
LEMMA LeaveEffect ==
  ASSUME PoolInv, NEW w \in Workers, RecvShutdown(w) \/ JobPanics(w)
  PROVE  /\ \E l \in {"exit", "dead"} : pc' = [pc EXCEPT ![w] = l]
         /\ cur' = [cur EXCEPT ![w] = None]
         /\ ~Stopped(w)
         /\ LastWorker(w) => ReceiverGone' /\ queue' = <<>>
         /\ ~LastWorker(w) => ~ReceiverGone'
         /\ UNCHANGED <<started, sent, drop, stops, thread, chan, joined>>
<1>1. PICK l \in {"exit", "dead"} : Leave(w, l)
  BY DEF RecvShutdown, JobPanics
<1>2. /\ pc[w] \in {"recv", "run"}
      /\ LastWorker(w) => queue' = <<>>
      /\ UNCHANGED <<started, sent, drop, stops, thread, chan, joined>>
  BY DEF RecvShutdown, JobPanics, dropVars, threadVars
<1>3. /\ pc' = [pc EXCEPT ![w] = l] /\ cur' = [cur EXCEPT ![w] = None]
      /\ pc \in [Workers -> {"lock", "recv", "run", "exit", "dead"}]
  BY <1>1 DEF Leave, PoolInv, TypeOK
<1>4. ReceiverGone' <=> LastWorker(w)
  BY <1>3 DEF ReceiverGone, LastWorker, Stopped
<1>5. ~Stopped(w)
  BY <1>2 DEF Stopped
<1>6. \E m \in {"exit", "dead"} : pc' = [pc EXCEPT ![w] = m]
  BY <1>3
<1>7. /\ LastWorker(w) => ReceiverGone' /\ queue' = <<>>
      /\ ~LastWorker(w) => ~ReceiverGone'
  BY <1>2, <1>4
<1>. QED
  BY <1>2, <1>3, <1>5, <1>6, <1>7

(* A worker that stops running, and its job with it. *)
LEMMA ExecutingLess ==
  ASSUME Executing, NEW w \in Workers,
         \A v \in Workers : pc'[v] = "run" <=> v # w /\ pc[v] = "run",
         \A v \in Workers : v # w => cur'[v] = cur[v],
         \A k \in Jobs : job'[k] = "running" <=>
                         job[k] = "running" /\ ~(pc[w] = "run" /\ cur[w] = k)
  PROVE  Executing'
<1>1. ASSUME NEW v \in Workers, pc'[v] = "run"
      PROVE  cur'[v] \in Jobs /\ job'[cur'[v]] = "running"
  <2>1. v # w /\ pc[v] = "run" /\ cur'[v] = cur[v]
    BY <1>1
  <2>2. cur[v] \in Jobs /\ job[cur[v]] = "running" /\ ~(pc[w] = "run" /\ cur[w] = cur[v])
    BY <2>1 DEF Executing
  <2>. QED
    BY <2>1, <2>2
<1>2. ASSUME NEW u \in Workers, NEW v \in Workers,
             pc'[u] = "run", pc'[v] = "run", cur'[u] = cur'[v]
      PROVE  u = v
  BY <1>2 DEF Executing
<1>3. ASSUME NEW j \in Jobs, job'[j] = "running"
      PROVE  \E v \in Workers : pc'[v] = "run" /\ cur'[v] = j
  <2>1. job[j] = "running" /\ ~(pc[w] = "run" /\ cur[w] = j)
    BY <1>3
  <2>2. PICK v \in Workers : pc[v] = "run" /\ cur[v] = j
    BY <2>1 DEF Executing
  <2>. QED
    BY <2>1, <2>2
<1>. QED
  BY <1>1, <1>2, <1>3 DEF Executing

----------------------------------------------------------------------------
(* The invariant is kept, step by step. *)
LEMMA SpawnInv ==
  ASSUME PoolInv, NEW j \in Jobs, SpawnOnScheduler(j)
  PROVE  PoolInv'
<1> USE DEF PoolInv
<1>1. /\ drop = "no" /\ job[j] = "idle" /\ sent' = Append(sent, j)
      /\ UNCHANGED <<pc, cur, started, drop, thread, chan, joined>>
  BY DEF SpawnOnScheduler, dropVars, threadVars
<1>2. sent' \in Seq(Jobs)
  BY <1>1 DEF TypeOK
<1>3. ReceiverGone' <=> ReceiverGone
  BY <1>1 DEF ReceiverGone, Stopped
<1>4. CASE ReceiverGone /\ job' = [job EXCEPT ![j] = "lost"] /\ UNCHANGED queue
  <2>1. TypeOK'
    BY <1>1, <1>2, <1>4 DEF TypeOK
  <2>2. Channel'
    BY <1>1, <1>3, <1>4 DEF Channel, TypeOK
  <2>3. Executing'
    BY <1>1, <1>4 DEF Executing, TypeOK
  <2>. QED
    BY <2>1, <2>2, <2>3
<1>5. CASE ~ReceiverGone /\ job' = [job EXCEPT ![j] = "pending"] /\ queue' = Append(queue, j)
  <2>1. /\ queue \in Seq(Signals) /\ j \in Signals
        /\ queue' \in Seq(Signals) /\ Len(queue) \in Nat /\ Len(queue') = Len(queue) + 1
        /\ \A i \in 1 .. Len(queue) : queue'[i] = queue[i]
        /\ queue'[Len(queue) + 1] = j
    BY <1>5, SendFacts DEF TypeOK, Signals
  <2>2. \A i \in 1 .. Len(queue') : i \in 1 .. Len(queue) \/ i = Len(queue) + 1
    BY <2>1
  <2>3. \A i \in 1 .. Len(queue) : queue[i] # j
    BY <1>1 DEF Channel
  <2>4. TypeOK'
    BY <1>1, <1>2, <1>5, <2>1 DEF TypeOK
  <2>5. Channel'
    <3>1. j # Shutdown
      BY DistinctAssumption DEF DistinctAssumption
    <3>2. job'[j] = "pending" /\ \A k \in Jobs : k # j => job'[k] = job[k]
      BY <1>5 DEF TypeOK
    <3>. QED
      BY <1>1, <1>3, <1>5, <2>1, <2>2, <2>3, <3>1, <3>2 DEF Channel
  <2>6. Executing'
    BY <1>1, <1>5 DEF Executing, TypeOK
  <2>. QED
    BY <2>4, <2>5, <2>6
<1>. QED
  BY <1>4, <1>5 DEF SpawnOnScheduler

(* A worker receives a job. *)
LEMMA RecvInv ==
  ASSUME PoolInv, NEW w \in Workers, Recv(w)
  PROVE  PoolInv'
<1> USE DEF PoolInv
<1> DEFINE j == Head(queue)
<1>1. /\ pc[w] = "recv" /\ queue # <<>> /\ j \in Jobs /\ queue' = Tail(queue)
      /\ cur' = [cur EXCEPT ![w] = j] /\ job' = [job EXCEPT ![j] = "running"]
      /\ started' = Append(started, j) /\ pc' = [pc EXCEPT ![w] = "run"]
      /\ UNCHANGED <<sent, drop, thread, chan, joined>>
  BY RecvEffect
<1>2. /\ queue' \in Seq(Signals) /\ Len(queue) \in Nat \ {0} /\ Len(queue') = Len(queue) - 1
      /\ j = queue[1] /\ 1 \in 1 .. Len(queue)
      /\ \A i \in 1 .. Len(queue') : queue'[i] = queue[i + 1] /\ i + 1 \in 1 .. Len(queue)
  BY <1>1, ReceiveFacts DEF TypeOK
<1>3. job[j] = "pending" /\ \A i \in 1 .. Len(queue') : queue'[i] # j
  BY <1>1, <1>2 DEF Channel
<1>4. started' \in Seq(Jobs)
  BY <1>1 DEF TypeOK
<1> HIDE DEF j
<1>5. ~ReceiverGone'
  BY <1>1 DEF ReceiverGone, Stopped, TypeOK
<1>6. TypeOK'
  BY <1>1, <1>2, <1>4 DEF TypeOK
<1>7. Channel'
  <2>1. \A k \in Jobs : k # j => job'[k] = job[k]
    BY <1>1 DEF TypeOK
  <2>. QED
    BY <1>1, <1>2, <1>3, <1>5, <2>1 DEF Channel
<1>8. Executing'
  <2>1. /\ job'[j] = "running" /\ \A k \in Jobs : k # j => job'[k] = job[k]
        /\ \A v \in Workers : v # w => pc'[v] = pc[v] /\ cur'[v] = cur[v]
        /\ pc'[w] = "run" /\ cur'[w] = j
    BY <1>1 DEF TypeOK
  <2>2. \A v \in Workers : pc[v] = "run" => v # w /\ cur[v] # j /\ cur[v] \in Jobs
    BY <1>1, <1>3 DEF Executing
  <2>. QED
    BY <1>1, <2>1, <2>2 DEF Executing
<1>. QED
  BY <1>6, <1>7, <1>8

(* A worker receives a Shutdown. *)
LEMMA RecvShutdownInv ==
  ASSUME PoolInv, NEW w \in Workers, RecvShutdown(w)
  PROVE  PoolInv'
<1> USE DEF PoolInv
<1>1. /\ \E l \in {"exit", "dead"} : pc' = [pc EXCEPT ![w] = l]
      /\ cur' = [cur EXCEPT ![w] = None]
      /\ LastWorker(w) => ReceiverGone' /\ queue' = <<>>
      /\ ~LastWorker(w) => ~ReceiverGone'
      /\ UNCHANGED <<started, sent, drop, stops, thread, chan, joined>>
  BY LeaveEffect
<1>2. pc[w] = "recv" /\ queue # <<>> /\ Head(queue) = Shutdown
  BY DEF RecvShutdown
<1>3. <<>> \in Seq(Signals) /\ Len(<<>>) = 0
  OBVIOUS
<1>4. \A k \in Jobs : job'[k] # job[k] => job[k] = "pending" /\ job'[k] = "lost"
  <2>1. \A k \in Jobs \cap Messages : job[k] = "pending"
    BY DEF Messages, Channel
  <2>2. \/ job' = [k \in Jobs |-> IF k \in Messages THEN "lost" ELSE job[k]]
        \/ job' = job
    BY DEF RecvShutdown
  <2>3. ASSUME NEW k \in Jobs PROVE job'[k] # job[k] => job[k] = "pending" /\ job'[k] = "lost"
    <3>1. \/ k \in Messages /\ job'[k] = "lost"
          \/ job'[k] = job[k]
      BY <2>2
    <3>. QED
      BY <2>1, <3>1
  <2>. QED
    BY <2>3
<1>5. job' \in [Jobs -> {"idle", "pending", "running", "done", "lost"}]
  BY DEF RecvShutdown, TypeOK
<1>6. Executing'
  <2>1. \A v \in Workers : pc'[v] = "run" <=> v # w /\ pc[v] = "run"
    BY <1>1, <1>2 DEF TypeOK
  <2>2. \A v \in Workers : v # w => cur'[v] = cur[v]
    BY <1>1 DEF TypeOK
  <2>3. \A k \in Jobs : job'[k] = "running" <=> job[k] = "running"
    BY <1>4
  <2>. QED
    BY <1>2, <2>1, <2>2, <2>3, ExecutingLess
<1>7. CASE LastWorker(w)
  <2>1. TypeOK'
    BY <1>1, <1>3, <1>5, <1>7 DEF TypeOK
  <2>2. Channel'
    BY <1>1, <1>3, <1>7 DEF Channel
  <2>. QED
    BY <1>6, <2>1, <2>2
<1>8. CASE ~LastWorker(w)
  <2>1. queue' = Tail(queue) /\ UNCHANGED job
    BY <1>8 DEF RecvShutdown
  <2>2. /\ queue' \in Seq(Signals) /\ Len(queue) \in Nat \ {0} /\ Len(queue') = Len(queue) - 1
        /\ \A i \in 1 .. Len(queue') : queue'[i] = queue[i + 1] /\ i + 1 \in 1 .. Len(queue)
    BY <1>2, <2>1, ReceiveFacts DEF TypeOK
  <2>3. TypeOK'
    BY <1>1, <1>5, <2>2 DEF TypeOK
  <2>4. Channel'
    BY <1>1, <1>8, <2>1, <2>2 DEF Channel
  <2>. QED
    BY <1>6, <2>3, <2>4
<1>. QED
  BY <1>7, <1>8

(* A job panics. *)
LEMMA JobPanicsInv ==
  ASSUME PoolInv, NEW w \in Workers, JobPanics(w)
  PROVE  PoolInv'
<1> USE DEF PoolInv
<1>1. /\ \E l \in {"exit", "dead"} : pc' = [pc EXCEPT ![w] = l]
      /\ cur' = [cur EXCEPT ![w] = None]
      /\ LastWorker(w) => ReceiverGone' /\ queue' = <<>>
      /\ ~LastWorker(w) => ~ReceiverGone'
      /\ UNCHANGED <<started, sent, drop, stops, thread, chan, joined>>
  BY LeaveEffect
<1>2. pc[w] = "run" /\ cur[w] \in Jobs /\ job[cur[w]] = "running"
  BY DEF JobPanics, Executing
<1>3. <<>> \in Seq(Signals) /\ Len(<<>>) = 0
  OBVIOUS
<1>4. /\ job'[cur[w]] = "lost"
      /\ \A k \in Jobs \ {cur[w]} :
           job'[k] # job[k] => job[k] = "pending" /\ job'[k] = "lost"
  <2>1. \A k \in Jobs \cap Messages : job[k] = "pending"
    BY DEF Messages, Channel
  <2>2. \/ job' = [k \in Jobs |-> IF k \in Messages \cup {cur[w]} THEN "lost" ELSE job[k]]
        \/ job' = [job EXCEPT ![cur[w]] = "lost"]
    BY DEF JobPanics
  <2>3. job'[cur[w]] = "lost"
    BY <1>2, <2>2 DEF TypeOK
  <2>4. ASSUME NEW k \in Jobs, k # cur[w]
        PROVE  job'[k] # job[k] => job[k] = "pending" /\ job'[k] = "lost"
    <3>1. \/ k \in Messages /\ job'[k] = "lost"
          \/ job'[k] = job[k]
      BY <2>2, <2>4 DEF TypeOK
    <3>. QED
      BY <2>1, <3>1
  <2>. QED
    BY <2>3, <2>4
<1>5. job' \in [Jobs -> {"idle", "pending", "running", "done", "lost"}]
  BY DEF JobPanics, TypeOK
<1>6. Executing'
  <2>1. \A v \in Workers : pc'[v] = "run" <=> v # w /\ pc[v] = "run"
    BY <1>1 DEF TypeOK
  <2>2. \A v \in Workers : v # w => cur'[v] = cur[v]
    BY <1>1 DEF TypeOK
  <2>3. \A k \in Jobs : job'[k] = "running" <=> job[k] = "running" /\ cur[w] # k
    BY <1>2, <1>4
  <2>. QED
    BY <1>2, <2>1, <2>2, <2>3, ExecutingLess
<1>7. CASE LastWorker(w)
  <2>1. TypeOK'
    BY <1>1, <1>3, <1>5, <1>7 DEF TypeOK
  <2>2. Channel'
    BY <1>1, <1>3, <1>7 DEF Channel
  <2>. QED
    BY <1>6, <2>1, <2>2
<1>8. CASE ~LastWorker(w)
  <2>1. UNCHANGED queue /\ job' = [job EXCEPT ![cur[w]] = "lost"]
    BY <1>8 DEF JobPanics
  <2>2. TypeOK'
    BY <1>1, <1>5, <2>1 DEF TypeOK
  <2>3. Channel'
    <3>1. \A i \in 1 .. Len(queue) : queue[i] \in Jobs => queue[i] # cur[w]
      BY <1>2 DEF Channel
    <3>2. \A k \in Jobs : k # cur[w] => job'[k] = job[k]
      BY <2>1 DEF TypeOK
    <3>. QED
      BY <1>1, <1>8, <2>1, <3>1, <3>2 DEF Channel
  <2>. QED
    BY <1>6, <2>2, <2>3
<1>. QED
  BY <1>7, <1>8

(* A job ends. *)
LEMMA ExecuteInv ==
  ASSUME PoolInv, NEW w \in Workers, Execute(w)
  PROVE  PoolInv'
<1> USE DEF PoolInv
<1>1. /\ pc[w] = "run" /\ pc' = [pc EXCEPT ![w] = "lock"]
      /\ job' = [job EXCEPT ![cur[w]] = "done"] /\ cur' = [cur EXCEPT ![w] = None]
      /\ UNCHANGED <<queue, started, sent, drop, thread, chan, joined>>
  BY DEF Execute, dropVars, threadVars
<1>2. cur[w] \in Jobs /\ job[cur[w]] = "running"
  BY <1>1 DEF Executing
<1>3. /\ job'[cur[w]] = "done"
      /\ \A k \in Jobs : k # cur[w] => job'[k] = job[k]
  BY <1>1, <1>2 DEF TypeOK
<1>4. TypeOK'
  BY <1>1 DEF TypeOK
<1>5. Channel'
  <2>1. ~ReceiverGone'
    BY <1>1 DEF ReceiverGone, Stopped, TypeOK
  <2>2. \A i \in 1 .. Len(queue) : queue[i] \in Jobs => queue[i] # cur[w]
    BY <1>2 DEF Channel
  <2>. QED
    BY <1>1, <1>3, <2>1, <2>2 DEF Channel
<1>6. Executing'
  <2>1. \A v \in Workers : pc'[v] = "run" <=> v # w /\ pc[v] = "run"
    BY <1>1 DEF TypeOK
  <2>2. \A v \in Workers : v # w => cur'[v] = cur[v]
    BY <1>1 DEF TypeOK
  <2>3. \A k \in Jobs : job'[k] = "running" <=> job[k] = "running" /\ cur[w] # k
    BY <1>2, <1>3
  <2>. QED
    BY <1>1, <2>1, <2>2, <2>3, ExecutingLess
<1>. QED
  BY <1>4, <1>5, <1>6

----------------------------------------------------------------------------
(* The invariant holds at first. *)
LEMMA PoolInit == Init => PoolInv
<1> SUFFICES ASSUME Init PROVE PoolInv
  OBVIOUS
<1>1. <<>> \in Seq(Signals) /\ <<>> \in Seq(Jobs) /\ Len(<<>>) = 0
  OBVIOUS
<1>2. TypeOK
  BY <1>1 DEF Init, TypeOK
<1>3. Channel
  BY <1>1 DEF Init, Channel
<1>4. Executing
  BY DEF Init, Executing
<1>. QED
  BY <1>2, <1>3, <1>4 DEF PoolInv

(* Every step keeps it. *)
LEMMA PoolNext == PoolInv /\ [Next]_vars => PoolInv'
<1> SUFFICES ASSUME PoolInv, [Next]_vars PROVE PoolInv'
  OBVIOUS
<1> USE DEF PoolInv
<1>1. ASSUME NEW w \in Workers, Lock(w) PROVE PoolInv'
  <2>1. /\ pc[w] = "lock" /\ pc' = [pc EXCEPT ![w] = "recv"]
        /\ UNCHANGED <<queue, cur, job, started, sent, drop, thread, chan, joined>>
    BY <1>1 DEF Lock, dropVars, threadVars
  <2>2. ~ReceiverGone'
    BY <2>1 DEF ReceiverGone, Stopped, TypeOK
  <2>3. \A v \in Workers : pc'[v] = "run" <=> pc[v] = "run"
    BY <2>1 DEF TypeOK
  <2>4. TypeOK' /\ Channel'
    BY <2>1, <2>2 DEF TypeOK, Channel
  <2>5. Executing'
    BY <2>1, <2>3 DEF Executing
  <2>. QED
    BY <2>4, <2>5
<1>2. ASSUME UNCHANGED <<queue, pc, cur, job, started, sent>>, TypeOK',
             drop' = "no" => drop = "no"
      PROVE  PoolInv'
  <2>1. ReceiverGone' <=> ReceiverGone
    BY <1>2 DEF ReceiverGone, Stopped
  <2>. QED
    BY <1>2, <2>1 DEF Channel, Executing
<1>3. CASE DropBegin \/ DropJoin
  BY <1>2, <1>3 DEF DropBegin, DropJoin, poolVars, threadVars, TypeOK
<1>4. CASE DropSend
  <2>1. /\ UNCHANGED <<pc, cur, job, started, sent, thread, chan, joined>>
        /\ drop' \in {"send", "join"}
    BY <1>4 DEF DropSend, threadVars
  <2>2. CASE ReceiverGone
    <3>1. UNCHANGED queue
      BY <1>4, <2>2 DEF DropSend
    <3>. QED
      BY <1>2, <2>1, <3>1 DEF TypeOK
  <2>3. CASE ~ReceiverGone
    <3>1. queue' = Append(queue, Shutdown)
      BY <1>4, <2>3 DEF DropSend
    <3>2. /\ queue' \in Seq(Signals) /\ Len(queue) \in Nat /\ Len(queue') = Len(queue) + 1
          /\ \A i \in 1 .. Len(queue) : queue'[i] = queue[i]
          /\ queue'[Len(queue) + 1] = Shutdown
      BY <3>1, SendFacts DEF TypeOK, Signals
    <3>3. \A i \in 1 .. Len(queue') : i \in 1 .. Len(queue) \/ queue'[i] = Shutdown
      BY <3>2
    <3>4. ~ReceiverGone'
      BY <2>1, <2>3 DEF ReceiverGone, Stopped
    <3>5. TypeOK'
      BY <2>1, <3>2 DEF TypeOK
    <3>6. Channel'
      BY <2>1, <3>2, <3>3, <3>4, DistinctAssumption DEF Channel, DistinctAssumption
    <3>7. Executing'
      BY <2>1 DEF Executing
    <3>. QED
      BY <3>5, <3>6, <3>7
  <2>. QED
    BY <2>2, <2>3
<1>5. ASSUME NEW t \in Threads, SpawnThread(t) \/ ThreadStep(t) \/ Join(t) PROVE PoolInv'
  <2>1. UNCHANGED <<queue, pc, cur, job, started, sent, drop>>
    BY <1>5 DEF SpawnThread, ThreadStep, ThreadSends, ThreadPanics, Join, poolVars, dropVars
  <2>2. TypeOK'
    <3>1. CASE SpawnThread(t)
      BY <2>1, <3>1 DEF SpawnThread, TypeOK
    <3>2. CASE ThreadStep(t)
      <4>1. /\ \E e \in {"ended", "panicked"} : thread' = [thread EXCEPT ![t] = e]
            /\ \E r \in {"Ok", "Err", "closed"} : chan' = [chan EXCEPT ![t] = r]
            /\ UNCHANGED joined
        BY <3>2 DEF ThreadStep, ThreadSends, ThreadPanics
      <4>. QED
        BY <2>1, <4>1 DEF TypeOK
    <3>3. CASE Join(t)
      <4>1. /\ joined' = [joined EXCEPT ![t] = IF chan[t] = "closed" THEN "Ok" ELSE chan[t]]
            /\ UNCHANGED <<thread, chan>>
        BY <3>3 DEF Join
      <4>2. (IF chan[t] = "closed" THEN "Ok" ELSE chan[t]) \in {"empty", "Ok", "Err"}
        BY DEF TypeOK
      <4>. QED
        BY <2>1, <4>1, <4>2 DEF TypeOK
    <3>. QED
      BY <1>5, <3>1, <3>2, <3>3
  <2>. QED
    BY <1>2, <2>1, <2>2
<1>6. CASE UNCHANGED vars
  BY <1>2, <1>6 DEF vars, poolVars, dropVars, threadVars, TypeOK
<1>. QED
  BY <1>1, <1>3, <1>4, <1>5, <1>6, SpawnInv, RecvInv, RecvShutdownInv, ExecuteInv, JobPanicsInv
     DEF Next, WorkerStep

(* The invariant the theorems rest on. *)
THEOREM PoolInvariant == Spec => []PoolInv
  BY PoolInit, PoolNext, PTL DEF Spec

----------------------------------------------------------------------------
(* Jobs start in the order of submission. *)
LEMMA OrderNext == PoolInv /\ StartedInOrder /\ [Next]_vars => StartedInOrder'
<1> SUFFICES ASSUME PoolInv, StartedInOrder, [Next]_vars PROVE StartedInOrder'
  OBVIOUS
<1> DEFINE n == Len(started)
           k == Len(sent) - n
<1>1. /\ n \in Nat /\ Len(sent) \in Nat /\ Len(queue) \in Nat /\ k \in Nat
      /\ n = Len(started) /\ Len(sent) = n + k /\ k = Len(sent) - n
      /\ \A i \in 1 .. n : started[i] = sent[i]
      /\ \/ /\ k <= Len(queue)
            /\ \A i \in 1 .. k : queue[i] = sent[n + i]
            /\ \A i \in k + 1 .. Len(queue) : queue[i] = Shutdown
         \/ ReceiverGone /\ queue = <<>>
  BY DEF StartedInOrder, PoolInv, TypeOK
<1> HIDE DEF n, k
<1>2. Shutdown \notin Jobs
  BY DistinctAssumption DEF DistinctAssumption
<1>3. ASSUME NEW j \in Jobs, SpawnOnScheduler(j) PROVE StartedInOrder'
  <2>1. /\ drop = "no" /\ sent' = Append(sent, j) /\ UNCHANGED <<pc, started>>
        /\ \/ ReceiverGone /\ UNCHANGED queue
           \/ ~ReceiverGone /\ queue' = Append(queue, j)
    BY <1>3 DEF SpawnOnScheduler
  <2>2. /\ Len(sent') = Len(sent) + 1 /\ sent'[Len(sent) + 1] = j
        /\ \A i \in 1 .. Len(sent) : sent'[i] = sent[i]
    BY <2>1, SendFacts DEF PoolInv, TypeOK
  <2>3. ReceiverGone' <=> ReceiverGone
    BY <2>1 DEF ReceiverGone, Stopped
  <2>4. \A i \in 1 .. n : started'[i] = sent'[i]
    BY <1>1, <2>1, <2>2
  <2>5. CASE ReceiverGone
    <3>1. queue' = <<>>
      BY <2>1, <2>5 DEF PoolInv, Channel
    <3>. QED
      BY <1>1, <2>1, <2>2, <2>3, <2>4, <2>5, <3>1 DEF StartedInOrder
  <2>6. CASE ~ReceiverGone
    <3>1. queue' = Append(queue, j)
      BY <2>1, <2>6
    <3>2. /\ Len(queue') = Len(queue) + 1 /\ queue'[Len(queue) + 1] = j
          /\ \A i \in 1 .. Len(queue) : queue'[i] = queue[i]
      BY <3>1, SendFacts DEF PoolInv, TypeOK, Signals
    <3>3. k = Len(queue)
      <4>1. \A i \in 1 .. Len(queue) : queue[i] # Shutdown
        BY <2>1 DEF PoolInv, Channel
      <4>2. k <= Len(queue) /\ \A i \in k + 1 .. Len(queue) : queue[i] = Shutdown
        BY <1>1, <2>6
      <4>. QED
        BY <1>1, <4>1, <4>2
    <3>4. \A i \in 1 .. k + 1 : queue'[i] = sent'[n + i]
      <4>1. ASSUME NEW i \in 1 .. k PROVE queue'[i] = sent'[n + i]
        <5>1. n + i \in 1 .. Len(sent) /\ i \in 1 .. Len(queue)
          BY <1>1, <3>3
        <5>2. queue[i] = sent[n + i]
          BY <1>1, <2>6
        <5>. QED
          BY <2>2, <3>2, <5>1, <5>2
      <4>2. queue'[k + 1] = sent'[n + (k + 1)]
        <5>1. queue'[k + 1] = j
          BY <3>2, <3>3
        <5>2. n + (k + 1) = Len(sent) + 1
          BY <1>1
        <5>. QED
          BY <2>2, <5>1, <5>2
      <4>3. \A i \in 1 .. k + 1 : i \in 1 .. k \/ i = k + 1
        BY <1>1
      <4>. QED
        BY <4>1, <4>2, <4>3
    <3>5. /\ Len(queue') = k + 1 /\ k + 1 \in Nat /\ Len(sent') = n + (k + 1)
          /\ Len(started') = n
      BY <1>1, <2>1, <2>2, <3>2, <3>3
    <3>6. \A i \in (k + 1) + 1 .. Len(queue') : queue'[i] = Shutdown
      BY <3>5
    <3>. QED
      BY <2>4, <3>4, <3>5, <3>6 DEF StartedInOrder
  <2>. QED
    BY <2>5, <2>6
<1>4. ASSUME NEW w \in Workers, Recv(w) PROVE StartedInOrder'
  <2>1. /\ queue # <<>> /\ Head(queue) \in Jobs /\ queue' = Tail(queue)
        /\ started' = Append(started, Head(queue)) /\ UNCHANGED sent
    BY <1>4, RecvEffect
  <2>2. /\ Len(queue) \in Nat \ {0} /\ Len(queue') = Len(queue) - 1 /\ Head(queue) = queue[1]
        /\ \A i \in 1 .. Len(queue) - 1 : queue'[i] = queue[i + 1]
    BY <2>1, ReceiveFacts DEF PoolInv, TypeOK
  <2>3. /\ Len(started') = n + 1 /\ started'[n + 1] = queue[1]
        /\ \A i \in 1 .. n : started'[i] = started[i]
    BY <1>1, <2>1, <2>2, SendFacts DEF PoolInv, TypeOK
  <2>4. /\ k <= Len(queue)
        /\ \A i \in 1 .. k : queue[i] = sent[n + i]
        /\ \A i \in k + 1 .. Len(queue) : queue[i] = Shutdown
    BY <1>1, <2>1
  <2>5. k >= 1 /\ queue[1] = sent[n + 1]
    BY <1>1, <1>2, <2>1, <2>2, <2>4
  <2>6. \A i \in 1 .. n + 1 : started'[i] = sent'[i]
    BY <1>1, <2>1, <2>3, <2>5
  <2>7. /\ k - 1 <= Len(queue')
        /\ \A i \in 1 .. k - 1 : queue'[i] = sent'[n + 1 + i]
        /\ \A i \in k .. Len(queue') : queue'[i] = Shutdown
    <3>1. ASSUME NEW i \in 1 .. k - 1 PROVE queue'[i] = sent'[n + 1 + i]
      <4>1. i \in 1 .. Len(queue) - 1 /\ i + 1 \in 1 .. k /\ n + 1 + i = n + (i + 1)
        BY <1>1, <2>2, <2>4
      <4>2. queue'[i] = queue[i + 1] /\ queue[i + 1] = sent[n + (i + 1)]
        BY <2>2, <2>4, <4>1
      <4>. QED
        BY <2>1, <4>1, <4>2
    <3>2. ASSUME NEW i \in k .. Len(queue') PROVE queue'[i] = Shutdown
      <4>1. i \in 1 .. Len(queue) - 1 /\ i + 1 \in k + 1 .. Len(queue)
        BY <1>1, <2>2, <2>4, <2>5
      <4>. QED
        BY <2>2, <2>4, <4>1
    <3>. QED
      BY <1>1, <2>2, <2>4, <3>1, <3>2
  <2>. QED
    BY <1>1, <2>1, <2>3, <2>5, <2>6, <2>7 DEF StartedInOrder
<1>5. ASSUME NEW w \in Workers, RecvShutdown(w) \/ JobPanics(w) PROVE StartedInOrder'
  <2>1. /\ UNCHANGED <<started, sent>>
        /\ LastWorker(w) => ReceiverGone' /\ queue' = <<>>
        /\ ~Stopped(w)
    BY <1>5, LeaveEffect
  <2>2. CASE LastWorker(w)
    BY <1>1, <2>1, <2>2 DEF StartedInOrder
  <2>3. CASE ~LastWorker(w) /\ JobPanics(w)
    <3>1. UNCHANGED queue
      BY <2>3 DEF JobPanics
    <3>2. ~ReceiverGone
      BY <2>1 DEF ReceiverGone
    <3>. QED
      BY <1>1, <2>1, <3>1, <3>2 DEF StartedInOrder
  <2>4. CASE ~LastWorker(w) /\ RecvShutdown(w)
    <3>1. queue # <<>> /\ Head(queue) = Shutdown /\ queue' = Tail(queue)
      BY <2>4 DEF RecvShutdown
    <3>2. /\ Len(queue) \in Nat \ {0} /\ Len(queue') = Len(queue) - 1 /\ Head(queue) = queue[1]
          /\ \A i \in 1 .. Len(queue) - 1 : queue'[i] = queue[i + 1]
      BY <3>1, ReceiveFacts DEF PoolInv, TypeOK
    <3>3. /\ k <= Len(queue)
          /\ \A i \in 1 .. k : queue[i] = sent[n + i]
          /\ \A i \in k + 1 .. Len(queue) : queue[i] = Shutdown
      BY <1>1, <3>1
    <3>4. k = 0
      <4>1. ASSUME k >= 1 PROVE FALSE
        <5>1. queue[1] = sent[n + 1] /\ n + 1 \in 1 .. Len(sent)
          BY <1>1, <3>3, <4>1
        <5>2. sent[n + 1] \in Jobs
          BY <5>1 DEF PoolInv, TypeOK
        <5>. QED
          BY <1>2, <3>1, <3>2, <5>1, <5>2
      <4>. QED
        BY <1>1, <4>1
    <3>5. \A i \in 1 .. Len(queue') : queue'[i] = Shutdown
      BY <1>1, <3>2, <3>3, <3>4
    <3>. QED
      BY <1>1, <2>1, <3>2, <3>4, <3>5 DEF StartedInOrder
  <2>. QED
    BY <1>5, <2>2, <2>3, <2>4
<1>6. CASE DropSend
  <2>1. UNCHANGED <<pc, started, sent>>
    BY <1>6 DEF DropSend
  <2>2. ReceiverGone' <=> ReceiverGone
    BY <2>1 DEF ReceiverGone, Stopped
  <2>3. CASE ReceiverGone
    BY <1>1, <1>6, <2>1, <2>2, <2>3 DEF DropSend, StartedInOrder
  <2>4. CASE ~ReceiverGone
    <3>1. queue' = Append(queue, Shutdown)
      BY <1>6, <2>4 DEF DropSend
    <3>2. /\ Len(queue') = Len(queue) + 1 /\ queue'[Len(queue) + 1] = Shutdown
          /\ \A i \in 1 .. Len(queue) : queue'[i] = queue[i]
      BY <3>1, SendFacts DEF PoolInv, TypeOK, Signals
    <3>3. /\ k <= Len(queue')
          /\ \A i \in 1 .. k : queue'[i] = sent[n + i]
          /\ \A i \in k + 1 .. Len(queue') : queue'[i] = Shutdown
      BY <1>1, <2>4, <3>2
    <3>. QED
      BY <1>1, <2>1, <3>3 DEF StartedInOrder
  <2>. QED
    BY <2>3, <2>4
<1>7. ASSUME UNCHANGED <<queue, started, sent>>, ReceiverGone => ReceiverGone'
      PROVE  StartedInOrder'
  BY <1>1, <1>7 DEF StartedInOrder
<1>8. ASSUME NEW w \in Workers, Lock(w) \/ Execute(w) PROVE StartedInOrder'
  <2>1. ~ReceiverGone
    BY <1>8 DEF Lock, Execute, ReceiverGone, Stopped
  <2>. QED
    BY <1>7, <1>8, <2>1 DEF Lock, Execute
<1>9. ASSUME UNCHANGED poolVars PROVE StartedInOrder'
  BY <1>7, <1>9 DEF poolVars, ReceiverGone, Stopped
<1>10. CASE DropBegin \/ DropJoin \/ UNCHANGED vars
  BY <1>9, <1>10 DEF DropBegin, DropJoin, vars
<1>11. ASSUME NEW t \in Threads, SpawnThread(t) \/ ThreadStep(t) \/ Join(t) PROVE StartedInOrder'
  BY <1>9, <1>11 DEF SpawnThread, ThreadStep, ThreadSends, ThreadPanics, Join
<1>. QED
  BY <1>3, <1>4, <1>5, <1>6, <1>8, <1>10, <1>11 DEF Next, WorkerStep

----------------------------------------------------------------------------
(* A join that has returned keeps what the task sent. *)
JoinInv == Joined /\ JoinKeepsErrors

(* Every step keeps what joins have found. *)
LEMMA JoinNext == PoolInv /\ JoinInv /\ [Next]_vars => JoinInv'
<1> SUFFICES ASSUME PoolInv, JoinInv, [Next]_vars PROVE JoinInv'
  OBVIOUS
<1> USE DEF PoolInv, TypeOK, JoinInv, Joined, JoinKeepsErrors
<1>1. ASSUME UNCHANGED threadVars PROVE JoinInv'
  BY <1>1 DEF threadVars
<1>2. ASSUME NEW t \in Threads, SpawnThread(t) PROVE JoinInv'
  <2>1. thread[t] = "none" /\ joined[t] = "no" /\ UNCHANGED joined
    BY <1>2 DEF SpawnThread
  <2>2. CASE thread' = [thread EXCEPT ![t] = "running"] /\ UNCHANGED chan
    BY <2>1, <2>2
  <2>3. CASE thread' = [thread EXCEPT ![t] = "refused"] /\ chan' = [chan EXCEPT ![t] = "closed"]
    BY <2>1, <2>3
  <2>. QED
    BY <1>2, <2>2, <2>3 DEF SpawnThread
<1>3. ASSUME NEW t \in Threads, ThreadStep(t) PROVE JoinInv'
  <2>1. CASE ThreadSends(t)
    BY <2>1 DEF ThreadSends
  <2>2. CASE ThreadPanics(t)
    BY <2>2 DEF ThreadPanics
  <2>. QED
    BY <1>3, <2>1, <2>2 DEF ThreadStep
<1>4. ASSUME NEW t \in Threads, Join(t) PROVE JoinInv'
  <2>1. chan[t] \in {"Ok", "Err", "closed"}
    BY <1>4 DEF Join
  <2>. QED
    BY <1>4, <2>1 DEF Join
<1>5. ASSUME NEW w \in Workers, WorkerStep(w) \/ JobPanics(w) PROVE JoinInv'
  BY <1>1, <1>5 DEF WorkerStep, JobPanics, Lock, Recv, RecvShutdown, Execute
<1>6. CASE DropBegin \/ DropSend \/ DropJoin \/ \E j \in Jobs : SpawnOnScheduler(j)
  BY <1>1, <1>6 DEF DropBegin, DropSend, DropJoin, SpawnOnScheduler
<1>7. CASE UNCHANGED vars
  BY <1>1, <1>7 DEF vars
<1>. QED
  BY <1>2, <1>3, <1>4, <1>5, <1>6, <1>7 DEF Next

(* Nothing handed over is forgotten, with any number of workers: jobs      *)
(* start in the order of their submission, none is skipped, and no join    *)
(* loses the error of its task.                                            *)
THEOREM NothingIsForgotten == Spec => []NothingForgotten
<1>1. Init => StartedInOrder
  BY DEF Init, StartedInOrder
<1>2. Init => JoinInv
  BY DEF Init, JoinInv, Joined, JoinKeepsErrors
<1>3. StartedInOrder /\ JoinInv => NothingForgotten
  BY DEF NothingForgotten, JoinInv
<1>. QED
  BY <1>1, <1>2, <1>3, OrderNext, JoinNext, PoolInvariant, PTL DEF Spec

----------------------------------------------------------------------------
(* A worker that receives does not run, so fewer jobs run than there are   *)
(* workers.                                                                *)
LEMMA RoomForOne ==
  ASSUME PoolInv, NEW w \in Workers, pc[w] # "run"
  PROVE  Cardinality(Pool!InStage("running")) < Cardinality(Workers)
<1> DEFINE R == Pool!InStage("running")
           B == {v \in Workers : pc[v] = "run"}
           f == [v \in B |-> cur[v]]
<1>1. f \in Surjection(B, R)
  <2>1. \A v \in B : cur[v] \in R
    BY DEF PoolInv, Executing, Pool!InStage
  <2>2. \A j \in R : \E v \in B : f[v] = j
    BY DEF PoolInv, Executing, Pool!InStage
  <2>. QED
    BY <2>1, <2>2 DEF Surjection
<1>2. IsFiniteSet(Workers) /\ B \in SUBSET (Workers \ {w})
  BY DistinctAssumption DEF DistinctAssumption
<1>3. /\ IsFiniteSet(Workers \ {w})
      /\ Cardinality(Workers \ {w}) = Cardinality(Workers) - 1
  BY <1>2, FS_RemoveElement
<1>4. IsFiniteSet(B) /\ Cardinality(B) <= Cardinality(Workers \ {w})
  BY <1>2, <1>3, FS_Subset
<1>5. IsFiniteSet(R) /\ Cardinality(R) <= Cardinality(B)
  BY <1>1, <1>4, FS_Surjection
<1>6. /\ Cardinality(Workers) \in Nat /\ Cardinality(B) \in Nat /\ Cardinality(R) \in Nat
  BY <1>2, <1>4, <1>5, FS_CardinalityType
<1> HIDE DEF R, B
<1>7. Cardinality(R) < Cardinality(Workers)
  BY <1>3, <1>4, <1>5, <1>6
<1>. QED
  BY <1>7 DEF R

(* Every step of the scheduler is one of TaskPool, a refusal, or changes   *)
(* no job.                                                                 *)
LEMMA PoolStep == PoolInv /\ [Next]_vars => [Pool!Next \/ \E j \in Jobs : Refused(j)]_job
<1> SUFFICES ASSUME PoolInv, [Next]_vars
             PROVE  Pool!Next \/ (\E j \in Jobs : Refused(j)) \/ UNCHANGED job
  OBVIOUS
<1>1. ASSUME NEW j \in Jobs, SpawnOnScheduler(j) PROVE Pool!Submit(j) \/ Refused(j)
  BY <1>1 DEF SpawnOnScheduler, Pool!Submit, Refused
<1>2. ASSUME NEW w \in Workers, Recv(w) PROVE \E j \in Jobs : Pool!Start(j)
  <2>1. /\ pc[w] = "recv" /\ queue # <<>> /\ Head(queue) \in Jobs
        /\ job' = [job EXCEPT ![Head(queue)] = "running"]
    BY <1>2, RecvEffect
  <2>2. Head(queue) = queue[1] /\ 1 \in 1 .. Len(queue)
    BY <2>1 DEF PoolInv, TypeOK
  <2>3. job[Head(queue)] = "pending"
    BY <2>1, <2>2 DEF PoolInv, Channel
  <2>4. Cardinality(Pool!InStage("running")) < Cardinality(Workers)
    BY <2>1, RoomForOne
  <2>5. Pool!Cardinality(Pool!InStage("running")) = Cardinality(Pool!InStage("running"))
    BY DEF Pool!Cardinality, Cardinality
  <2>6. Pool!Start(Head(queue))
    BY <2>1, <2>3, <2>4, <2>5 DEF Pool!Start
  <2>. QED
    BY <2>1, <2>6
<1>3. ASSUME NEW w \in Workers, Execute(w) PROVE \E j \in Jobs : Pool!Complete(j)
  BY <1>3 DEF Execute, PoolInv, Executing, Pool!Complete
<1>4. Jobs \cap Messages \subseteq Pool!InStage("pending")
  BY DEF Messages, PoolInv, Channel, Pool!InStage
<1>5. ASSUME NEW w \in Workers, RecvShutdown(w)
      PROVE  UNCHANGED job \/ \E S \in SUBSET Jobs : Pool!Lose(S)
  <2>1. CASE LastWorker(w)
    <3>1. job' = [j \in Jobs |-> IF j \in Jobs \cap Messages THEN "lost" ELSE job[j]]
      BY <1>5, <2>1 DEF RecvShutdown
    <3>2. Pool!Lose(Jobs \cap Messages)
      BY <1>4, <3>1 DEF Pool!Lose
    <3>. QED
      BY <3>2
  <2>2. CASE ~LastWorker(w)
    BY <1>5, <2>2 DEF RecvShutdown
  <2>. QED
    BY <2>1, <2>2
<1>6. ASSUME NEW w \in Workers, JobPanics(w) PROVE \E S \in SUBSET Jobs : Pool!Lose(S)
  <2>1. cur[w] \in Pool!InStage("running") /\ cur[w] \in Jobs
    BY <1>6 DEF JobPanics, PoolInv, Executing, Pool!InStage
  <2>2. CASE LastWorker(w)
    <3> DEFINE S == (Jobs \cap Messages) \cup {cur[w]}
    <3>1. job' = [j \in Jobs |-> IF j \in S THEN "lost" ELSE job[j]]
      BY <1>6, <2>2 DEF JobPanics
    <3>2. Pool!Lose(S)
      BY <1>4, <2>1, <3>1 DEF Pool!Lose
    <3>. QED
      BY <2>1, <3>2
  <2>3. CASE ~LastWorker(w)
    <3>1. job' = [j \in Jobs |-> IF j \in {cur[w]} THEN "lost" ELSE job[j]]
      BY <1>6, <2>1, <2>3 DEF JobPanics, PoolInv, TypeOK
    <3>2. Pool!Lose({cur[w]})
      BY <2>1, <3>1 DEF Pool!Lose
    <3>. QED
      BY <2>1, <3>2
  <2>. QED
    BY <2>2, <2>3
<1>7. ASSUME NEW w \in Workers, Lock(w) PROVE UNCHANGED job
  BY <1>7 DEF Lock
<1>8. ASSUME NEW t \in Threads, SpawnThread(t) \/ ThreadStep(t) \/ Join(t) PROVE UNCHANGED job
  BY <1>8 DEF SpawnThread, ThreadStep, ThreadSends, ThreadPanics, Join, poolVars
<1>9. CASE DropBegin \/ DropSend \/ DropJoin \/ UNCHANGED vars
  BY <1>9 DEF DropBegin, DropSend, DropJoin, vars, poolVars
<1>. QED
  BY <1>1, <1>2, <1>3, <1>5, <1>6, <1>7, <1>8, <1>9 DEF Next, WorkerStep, Pool!Next

(* The scheduler is a task pool: a job is started once, at most one job    *)
(* runs per worker, and every job ends at most once.                       *)
THEOREM SchedulerIsAPool == Spec => ImplementsTaskPool
<1>1. Init => Pool!Init
  BY DEF Init, Pool!Init
<1>. QED
  BY <1>1, PoolStep, PoolInvariant, PTL DEF Spec, ImplementsTaskPool

----------------------------------------------------------------------------
(* What DropReturns and JobsEnd rest on.  With a message in the channel,   *)
(* or Drop joining, and a worker left, one of them can go on: it executes, *)
(* it holds the mutex and finds a message, or it waits for a mutex that is *)
(* free.                                                                   *)
NeverStuck ==
  (queue # <<>> \/ drop = "join") /\ ~ReceiverGone =>
    \/ \E w \in Workers : pc[w] = "run"
    \/ \E w \in Workers : pc[w] = "recv" /\ queue # <<>>
    \/ mutex = None /\ \E w \in Workers : pc[w] = "lock"

(* When Drop has returned, every job ran, unless all workers are dead.     *)
DroppedAfterAll ==
  drop = "done" => \/ \A w \in Workers : pc[w] = "dead"
                   \/ \A i \in 1 .. Len(sent) : Ran(sent[i])

Exited == {w \in Workers : pc[w] = "exit"}

(* The Shutdown messages sent are in the channel, behind the jobs, or have *)
(* ended a worker each, and none has before all jobs were started.         *)
ShutdownInv ==
  /\ stops \in Nat
  /\ drop = "no" => stops = 0
  /\ drop \in {"join", "done"} => stops = Cardinality(Workers)
  /\ ~ReceiverGone => Len(queue) + Cardinality(Exited) = stops + (Len(sent) - Len(started))
  /\ Exited # {} => drop # "no" /\ Len(started) = Len(sent)
  /\ drop = "done" => ReceiverGone

(* The mutex is held exactly in recv, and what was started is not pending. *)
HeldInv ==
  /\ \A w \in Workers : pc[w] = "recv" <=> mutex = w
  /\ mutex \in Workers \cup {None}
StartedInv == \A i \in 1 .. Len(started) : job[started[i]] \in {"running", "done", "lost"}

DropInv == ShutdownInv /\ HeldInv /\ StartedInv

(* Workers that exited are finitely many, and one more is one more.        *)
LEMMA ExitedIs ==
  /\ IsFiniteSet(Exited) /\ Cardinality(Exited) \in Nat /\ Cardinality(Workers) \in Nat
  /\ \A w \in Workers : w \notin Exited => Cardinality(Exited) < Cardinality(Workers)
<1>1. IsFiniteSet(Workers)
  BY DistinctAssumption
<1>2. Exited \subseteq Workers
  BY DEF Exited
<1>3. IsFiniteSet(Exited)
  BY <1>1, <1>2, FS_Subset
<1>4. Cardinality(Exited) \in Nat /\ Cardinality(Workers) \in Nat
  BY <1>1, <1>3, FS_CardinalityType
<1>5. ASSUME NEW w \in Workers, w \notin Exited PROVE Cardinality(Exited) < Cardinality(Workers)
  <2>1. Exited # Workers
    BY <1>5
  <2>2. Cardinality(Exited) <= Cardinality(Workers) /\ Cardinality(Exited) # Cardinality(Workers)
    BY <1>1, <1>2, <2>1, FS_Subset
  <2> QED
    BY ONLY <1>4, <2>2
<1> QED
  BY <1>3, <1>4, <1>5

(* The number of workers that exited grows by one when one more does.      *)
LEMMA OneMoreExited ==
  ASSUME PoolInv, NEW w \in Workers, pc' = [pc EXCEPT ![w] = "exit"], pc[w] # "exit"
  PROVE  Exited' = Exited \cup {w} /\ Cardinality(Exited') = Cardinality(Exited) + 1
<1>1. pc \in [Workers -> {"lock", "recv", "run", "exit", "dead"}]
  BY DEF PoolInv, TypeOK
<1>2. Exited' = Exited \cup {w} /\ w \notin Exited
  BY <1>1 DEF Exited
<1> QED
  BY <1>2, ExitedIs, FS_AddElement

(* A worker that goes elsewhere leaves those that exited as they are.  *)
LEMMA SameExited ==
  ASSUME PoolInv, NEW w \in Workers, NEW l, l # "exit", pc[w] # "exit",
         pc' = [pc EXCEPT ![w] = l]
  PROVE  Exited' = Exited
  BY DEF PoolInv, TypeOK, Exited

(* Every step keeps the count of the Shutdown messages.                    *)
LEMMA ShutdownNext ==
  PoolInv /\ StartedInOrder /\ ShutdownInv /\ [Next]_vars => ShutdownInv'
<1> SUFFICES ASSUME PoolInv, StartedInOrder, ShutdownInv, [Next]_vars PROVE ShutdownInv'
  OBVIOUS
<1>0. /\ queue \in Seq(Signals) /\ Len(queue) \in Nat
      /\ started \in Seq(Jobs) /\ Len(started) \in Nat /\ sent \in Seq(Jobs) /\ Len(sent) \in Nat
      /\ pc \in [Workers -> {"lock", "recv", "run", "exit", "dead"}]
      /\ Cardinality(Exited) \in Nat /\ stops \in Nat /\ Cardinality(Workers) \in Nat
  <2>1. queue \in Seq(Signals) /\ started \in Seq(Jobs) /\ sent \in Seq(Jobs)
    BY DEF PoolInv, TypeOK
  <2>2. Len(queue) \in Nat /\ Len(started) \in Nat /\ Len(sent) \in Nat
    BY ONLY <2>1
  <2>3. pc \in [Workers -> {"lock", "recv", "run", "exit", "dead"}] /\ stops \in Nat
    BY DEF PoolInv, TypeOK, ShutdownInv
  <2> QED
    BY <2>1, <2>2, <2>3, ExitedIs
<1>1. ASSUME UNCHANGED <<queue, sent, started, drop, stops>>, Exited' = Exited,
             ReceiverGone' = ReceiverGone
      PROVE  ShutdownInv'
  BY <1>1 DEF ShutdownInv
<1>2. ASSUME NEW j \in Jobs, SpawnOnScheduler(j) PROVE ShutdownInv'
  <2>1. /\ drop = "no" /\ sent' = Append(sent, j) /\ UNCHANGED <<pc, started, drop, stops>>
        /\ ~ReceiverGone => queue' = Append(queue, j)
    BY <1>2 DEF SpawnOnScheduler, dropVars
  <2>2. Exited = {} /\ Exited' = {} /\ ReceiverGone' = ReceiverGone
    BY <2>1 DEF Exited, ReceiverGone, Stopped, ShutdownInv
  <2>3. Len(sent') = Len(sent) + 1 /\ (~ReceiverGone => Len(queue') = Len(queue) + 1)
    BY ONLY <1>0, <2>1, j \in Jobs, SendFacts DEF Signals
  <2>4. Cardinality(Exited') = Cardinality(Exited)
    BY <2>2
  <2> QED
    BY ONLY <1>0, <2>1, <2>2, <2>3, <2>4, ShutdownInv DEF ShutdownInv
<1>3. ASSUME NEW w \in Workers, Lock(w) PROVE ShutdownInv'
  <2>1. pc[w] = "lock" /\ pc' = [pc EXCEPT ![w] = "recv"] /\ UNCHANGED <<queue, sent, started, drop, stops>>
    BY <1>3 DEF Lock, dropVars
  <2>2. Exited' = Exited
    BY <2>1, SameExited
  <2>3. ReceiverGone' = ReceiverGone
    BY <1>0, <2>1 DEF ReceiverGone, Stopped
  <2> QED
    BY <1>1, <2>1, <2>2, <2>3
<1>4. ASSUME NEW w \in Workers, Recv(w) PROVE ShutdownInv'
  <2>1. /\ pc[w] = "recv" /\ queue # <<>> /\ Head(queue) \in Jobs /\ queue' = Tail(queue)
        /\ started' = Append(started, Head(queue)) /\ pc' = [pc EXCEPT ![w] = "run"]
        /\ UNCHANGED <<sent, drop, stops>>
    BY <1>4, RecvEffect
  <2>2. Exited' = Exited
    BY <2>1, SameExited
  <2>3. ~ReceiverGone /\ ~ReceiverGone'
    BY <1>0, <2>1 DEF ReceiverGone, Stopped
  <2>4. Len(queue') = Len(queue) - 1 /\ Len(started') = Len(started) + 1
    BY ONLY <1>0, <2>1, SendFacts, ReceiveFacts
  <2>5. Exited = {}
    <3>1. /\ \A i \in Len(sent) - Len(started) + 1 .. Len(queue) : queue[i] = Shutdown
          /\ Len(sent) - Len(started) >= 0
      BY ONLY <2>1, StartedInOrder DEF StartedInOrder
    <3>2. Head(queue) = queue[1] /\ Head(queue) # Shutdown /\ Len(queue) >= 1
      BY ONLY <1>0, <2>1, ReceiveFacts, DistinctAssumption
    <3>3. Len(sent) # Len(started)
      BY ONLY <1>0, <3>1, <3>2
    <3> QED
      BY ONLY <3>3, ShutdownInv DEF ShutdownInv
  <2> QED
    BY ONLY <1>0, <2>1, <2>2, <2>3, <2>4, <2>5, ShutdownInv DEF ShutdownInv
<1>5. ASSUME NEW w \in Workers, RecvShutdown(w) PROVE ShutdownInv'
  <2>1. /\ pc[w] = "recv" /\ queue # <<>> /\ Head(queue) = Shutdown
        /\ pc' = [pc EXCEPT ![w] = "exit"] /\ UNCHANGED <<started, sent, drop, stops>>
        /\ ~LastWorker(w) => queue' = Tail(queue)
    BY <1>5 DEF RecvShutdown, Leave, dropVars
  <2>2. Exited' = Exited \cup {w} /\ Cardinality(Exited') = Cardinality(Exited) + 1
    BY <2>1, OneMoreExited
  <2>3. ~ReceiverGone /\ (ReceiverGone' <=> LastWorker(w))
    BY <1>0, <2>1 DEF ReceiverGone, Stopped, LastWorker
  <2>4. Len(queue) >= 1 /\ Head(queue) = queue[1] /\ (~LastWorker(w) => Len(queue') = Len(queue) - 1)
    BY ONLY <1>0, <2>1, ReceiveFacts
  <2>5. drop # "no"
    <3>1. drop = "no" => queue[1] # Shutdown
      BY ONLY <1>0, <2>4, PoolInv DEF PoolInv, Channel
    <3> QED
      BY ONLY <2>1, <2>4, <3>1
  <2>6. Len(started) = Len(sent)
    <3>1. /\ Len(sent) - Len(started) >= 0
          /\ \A i \in 1 .. Len(sent) - Len(started) : queue[i] = sent[Len(started) + i]
      BY ONLY <2>1, StartedInOrder DEF StartedInOrder
    <3>2. ASSUME Len(sent) - Len(started) >= 1 PROVE FALSE
      <4>1. queue[1] = sent[Len(started) + 1] /\ Len(started) + 1 \in 1 .. Len(sent)
        BY ONLY <1>0, <3>1, <3>2
      <4>2. sent[Len(started) + 1] \in Jobs
        BY ONLY <1>0, <4>1
      <4> QED
        BY ONLY <2>1, <2>4, <4>1, <4>2, DistinctAssumption
    <3> QED
      BY ONLY <1>0, <3>1, <3>2
  <2>7. drop # "done"
    BY ONLY <2>3, ShutdownInv DEF ShutdownInv
  <2>8. ASSUME ~LastWorker(w)
        PROVE  Len(queue') + Cardinality(Exited') = stops + (Len(sent) - Len(started))
    <3>1. Len(queue) + Cardinality(Exited) = stops + (Len(sent) - Len(started))
      BY ONLY <2>3, ShutdownInv DEF ShutdownInv
    <3>2. PICK q \in Nat, x \in Nat : q = Len(queue) /\ x = Cardinality(Exited)
      BY ONLY <1>0
    <3>3. Len(queue') = q - 1 /\ Cardinality(Exited') = x + 1
      BY ONLY <2>2, <2>4, <2>8, <3>2
    <3>4. (q - 1) + (x + 1) = q + x
      BY ONLY q \in Nat, x \in Nat
    <3> QED
      BY ONLY <3>1, <3>2, <3>3, <3>4
  <2>9. UNCHANGED <<started, sent, drop, stops>>
    BY ONLY <2>1
  <2> QED
    BY ONLY <2>3, <2>5, <2>6, <2>7, <2>8, <2>9, ShutdownInv DEF ShutdownInv
<1>6. ASSUME NEW w \in Workers, Execute(w) PROVE ShutdownInv'
  <2>1. pc[w] = "run" /\ pc' = [pc EXCEPT ![w] = "lock"] /\ UNCHANGED <<queue, sent, started, drop, stops>>
    BY <1>6 DEF Execute, dropVars
  <2>2. Exited' = Exited
    BY <2>1, SameExited
  <2>3. ReceiverGone' = ReceiverGone
    BY <1>0, <2>1 DEF ReceiverGone, Stopped
  <2> QED
    BY <1>1, <2>1, <2>2, <2>3
<1>7. ASSUME NEW w \in Workers, JobPanics(w) PROVE ShutdownInv'
  <2>1. /\ pc[w] = "run" /\ pc' = [pc EXCEPT ![w] = "dead"] /\ UNCHANGED <<started, sent, drop, stops>>
        /\ ~LastWorker(w) => queue' = queue
    BY <1>7 DEF JobPanics, Leave, dropVars
  <2>2. Exited' = Exited
    BY <2>1, SameExited
  <2>3. ~ReceiverGone /\ (ReceiverGone' <=> LastWorker(w))
    BY <1>0, <2>1 DEF ReceiverGone, Stopped, LastWorker
  <2> QED
    BY ONLY <1>0, <2>1, <2>2, <2>3, ShutdownInv DEF ShutdownInv
<1>8. ASSUME DropBegin \/ DropJoin PROVE ShutdownInv'
  <2>1. /\ UNCHANGED <<queue, pc, started, sent, stops>>
        /\ (drop = "no" /\ drop' = "send") \/ (drop = "join" /\ drop' = "done" /\ ReceiverGone)
    BY <1>8 DEF DropBegin, DropJoin, poolVars
  <2>2. Exited' = Exited /\ ReceiverGone' = ReceiverGone
    BY <2>1 DEF Exited, ReceiverGone, Stopped
  <2> QED
    BY ONLY <2>1, <2>2, ShutdownInv DEF ShutdownInv
<1>9. CASE DropSend
  <2>1. /\ drop = "send" /\ stops' = stops + 1 /\ UNCHANGED <<pc, started, sent>>
        /\ ~ReceiverGone => queue' = Append(queue, Shutdown)
        /\ drop' = IF stops' = Cardinality(Workers) THEN "join" ELSE "send"
    BY <1>9 DEF DropSend
  <2>2. Exited' = Exited /\ ReceiverGone' = ReceiverGone
    BY <2>1 DEF Exited, ReceiverGone, Stopped
  <2>3. ~ReceiverGone => Len(queue') = Len(queue) + 1
    BY ONLY <1>0, <2>1, SendFacts DEF Signals
  <2>4. /\ stops' \in Nat /\ drop' \in {"send", "join"} /\ started' = started /\ sent' = sent
        /\ drop' = "join" => stops' = Cardinality(Workers)
    BY ONLY <1>0, <2>1
  <2>5. ASSUME ~ReceiverGone
        PROVE  Len(queue') + Cardinality(Exited') = stops' + (Len(sent') - Len(started'))
    <3>1. Len(queue) + Cardinality(Exited) = stops + (Len(sent) - Len(started))
      BY ONLY <2>5, ShutdownInv DEF ShutdownInv
    <3>2. PICK q \in Nat, x \in Nat, t \in Nat, a \in Nat, b \in Nat :
            /\ q = Len(queue) /\ x = Cardinality(Exited) /\ t = stops
            /\ a = Len(sent) /\ b = Len(started)
      BY ONLY <1>0
    <3>3. q + x = t + (a - b)
      BY ONLY <3>1, <3>2
    <3>4. (q + 1) + x = (t + 1) + (a - b)
      BY ONLY <3>3, q \in Nat, x \in Nat, t \in Nat, a \in Nat, b \in Nat
    <3>5. /\ Len(queue') = q + 1 /\ Cardinality(Exited') = x /\ stops' = t + 1
          /\ Len(sent') = a /\ Len(started') = b
      BY ONLY <2>1, <2>2, <2>3, <2>4, <2>5, <3>2
    <3> QED
      BY ONLY <3>4, <3>5
  <2>6. Exited # {} => Len(started) = Len(sent)
    BY ONLY ShutdownInv DEF ShutdownInv
  <2> QED
    BY ONLY <2>2, <2>4, <2>5, <2>6 DEF ShutdownInv
<1>10. ASSUME UNCHANGED <<poolVars, dropVars>> PROVE ShutdownInv'
  BY <1>1, <1>10 DEF poolVars, dropVars, Exited, ReceiverGone, Stopped
<1>11. CASE UNCHANGED vars \/ \E t \in Threads : SpawnThread(t) \/ ThreadStep(t) \/ Join(t)
  BY <1>10, <1>11 DEF vars, SpawnThread, ThreadStep, ThreadSends, ThreadPanics, Join
<1> QED
  BY <1>2, <1>3, <1>4, <1>5, <1>6, <1>7, <1>8, <1>9, <1>11 DEF Next, WorkerStep

(* Every step keeps the mutex with the one worker in recv.                 *)
LEMMA HeldNext == PoolInv /\ HeldInv /\ [Next]_vars => HeldInv'
<1> SUFFICES ASSUME PoolInv, HeldInv, [Next]_vars PROVE HeldInv'
  OBVIOUS
<1>0. pc \in [Workers -> {"lock", "recv", "run", "exit", "dead"}] /\ None \notin Workers
  BY DistinctAssumption DEF PoolInv, TypeOK
<1>1. ASSUME NEW w \in Workers, Lock(w) PROVE HeldInv'
  BY ONLY <1>0, <1>1, HeldInv DEF HeldInv, Lock
<1>2. ASSUME NEW w \in Workers, Recv(w) PROVE HeldInv'
  BY ONLY <1>0, <1>2, HeldInv DEF HeldInv, Recv
<1>3. ASSUME NEW w \in Workers, RecvShutdown(w) PROVE HeldInv'
  BY ONLY <1>0, <1>3, HeldInv DEF HeldInv, RecvShutdown, Leave
<1>4. ASSUME NEW w \in Workers, Execute(w) \/ JobPanics(w) PROVE HeldInv'
  BY ONLY <1>0, <1>4, HeldInv DEF HeldInv, Execute, JobPanics, Leave
<1>5. ASSUME UNCHANGED <<pc, mutex>> PROVE HeldInv'
  BY ONLY <1>5, HeldInv DEF HeldInv
<1>6. ASSUME \/ \E j \in Jobs : SpawnOnScheduler(j)
             \/ DropBegin \/ DropSend \/ DropJoin \/ UNCHANGED vars
             \/ \E t \in Threads : SpawnThread(t) \/ ThreadStep(t) \/ Join(t)
      PROVE  HeldInv'
  BY <1>5, <1>6 DEF SpawnOnScheduler, DropBegin, DropSend, DropJoin, vars, poolVars, SpawnThread,
                    ThreadStep, ThreadSends, ThreadPanics, Join
<1> QED
  BY <1>1, <1>2, <1>3, <1>4, <1>6 DEF Next, WorkerStep

(* A job that was started runs or has ended.                               *)
LEMMA StartedNext == PoolInv /\ StartedInv /\ [Next]_vars => StartedInv'
<1> SUFFICES ASSUME PoolInv, StartedInv, [Next]_vars PROVE StartedInv'
  OBVIOUS
<1>0. /\ job \in [Jobs -> {"idle", "pending", "running", "done", "lost"}]
      /\ started \in Seq(Jobs) /\ Len(started) \in Nat /\ \A i \in 1 .. Len(started) : started[i] \in Jobs
  <2>1. /\ job \in [Jobs -> {"idle", "pending", "running", "done", "lost"}] /\ started \in Seq(Jobs)
    BY DEF PoolInv, TypeOK
  <2> QED
    BY ONLY <2>1
<1>1. ASSUME UNCHANGED started,
             \A j \in Jobs : job[j] \in {"running", "done", "lost"} => job'[j] \in {"running", "done", "lost"}
      PROVE  StartedInv'
  BY ONLY <1>0, <1>1, StartedInv DEF StartedInv
<1>2. ASSUME NEW j \in Jobs, SpawnOnScheduler(j) PROVE StartedInv'
  BY <1>0, <1>1, <1>2 DEF SpawnOnScheduler
<1>3. ASSUME NEW w \in Workers, Recv(w) PROVE StartedInv'
  <2>1. /\ Head(queue) \in Jobs /\ job' = [job EXCEPT ![Head(queue)] = "running"]
        /\ started' = Append(started, Head(queue))
    BY <1>3, RecvEffect
  <2>2. PICK h : h = Head(queue)
    OBVIOUS
  <2>3. /\ Len(started') = Len(started) + 1 /\ started'[Len(started) + 1] = h
        /\ \A i \in 1 .. Len(started) : started'[i] = started[i]
    BY ONLY <1>0, <2>1, <2>2, SendFacts
  <2>4. ASSUME NEW i \in 1 .. Len(started') PROVE job'[started'[i]] \in {"running", "done", "lost"}
    <3>1. CASE i = Len(started) + 1
      BY ONLY <1>0, <2>1, <2>2, <2>3, <3>1
    <3>2. CASE i # Len(started) + 1
      <4>1. i \in 1 .. Len(started) /\ started'[i] = started[i]
        BY ONLY <1>0, <2>3, <2>4, <3>2
      <4>2. job[started[i]] \in {"running", "done", "lost"} /\ started[i] \in Jobs
        BY ONLY <1>0, <4>1, StartedInv DEF StartedInv
      <4> QED
        BY ONLY <1>0, <2>1, <2>2, <4>1, <4>2
    <3> QED
      BY <3>1, <3>2
  <2> QED
    BY <2>4 DEF StartedInv
<1>4. ASSUME NEW w \in Workers, RecvShutdown(w) \/ Execute(w) \/ JobPanics(w) PROVE StartedInv'
  <2>1. UNCHANGED started
    BY <1>4 DEF RecvShutdown, Execute, JobPanics
  <2>2. \A j \in Jobs : job'[j] = job[j] \/ job'[j] \in {"done", "lost"}
    BY <1>0, <1>4 DEF RecvShutdown, Execute, JobPanics
  <2> QED
    BY <1>1, <2>1, <2>2
<1>5. ASSUME NEW w \in Workers, Lock(w) PROVE StartedInv'
  BY <1>1, <1>5 DEF Lock
<1>6. ASSUME \/ DropBegin \/ DropSend \/ DropJoin \/ UNCHANGED vars
             \/ \E t \in Threads : SpawnThread(t) \/ ThreadStep(t) \/ Join(t)
      PROVE  StartedInv'
  BY <1>1, <1>6 DEF DropBegin, DropSend, DropJoin, vars, poolVars, SpawnThread,
                    ThreadStep, ThreadSends, ThreadPanics, Join
<1> QED
  BY <1>2, <1>3, <1>4, <1>5, <1>6 DEF Next, WorkerStep

(* A worker that is left finds a message while Drop joins: the messages    *)
(* are as many as the workers that have not taken one.                     *)
LEMMA GoesOn == PoolInv /\ StartedInOrder /\ DropInv => NeverStuck
<1> SUFFICES ASSUME PoolInv, StartedInOrder, DropInv, queue # <<>> \/ drop = "join", ~ReceiverGone
             PROVE  \/ \E w \in Workers : pc[w] = "run"
                    \/ \E w \in Workers : pc[w] = "recv" /\ queue # <<>>
                    \/ mutex = None /\ \E w \in Workers : pc[w] = "lock"
  BY DEF NeverStuck
<1>1. PICK w \in Workers : pc[w] \in {"lock", "recv", "run"}
  BY DEF ReceiverGone, Stopped, PoolInv, TypeOK
<1>2. queue # <<>>
  <2>1. CASE drop = "join"
    <3>1. w \notin Exited
      BY <1>1 DEF Exited
    <3>2. Cardinality(Exited) < Cardinality(Workers) /\ Cardinality(Exited) \in Nat /\ Cardinality(Workers) \in Nat
      BY <3>1, ExitedIs
    <3>3. /\ stops = Cardinality(Workers)
          /\ Len(queue) + Cardinality(Exited) = stops + (Len(sent) - Len(started))
      BY ONLY <2>1, ~ReceiverGone, DropInv DEF DropInv, ShutdownInv
    <3>4. Len(sent) - Len(started) >= 0
      BY ONLY StartedInOrder DEF StartedInOrder
    <3>5. queue \in Seq(Signals) /\ sent \in Seq(Jobs) /\ started \in Seq(Jobs)
      BY DEF PoolInv, TypeOK
    <3>6. Len(queue) # 0
      BY ONLY <3>2, <3>3, <3>4, <3>5
    <3> QED
      BY ONLY <3>6
  <2> QED
    BY <2>1
<1>3. mutex = None \/ (mutex \in Workers /\ pc[mutex] = "recv")
  BY DEF DropInv, HeldInv
<1>4. pc[w] = "recv" => mutex = w
  BY DEF DropInv, HeldInv
<1> QED
  BY ONLY <1>1, <1>2, <1>3, <1>4

(* A Drop that has joined a worker that exited finds every job ended: none *)
(* was left in the channel when the first Shutdown message was taken.      *)
LEMMA AllRan == PoolInv /\ StartedInOrder /\ DropInv => DroppedAfterAll
<1> SUFFICES ASSUME PoolInv, StartedInOrder, DropInv, drop = "done", NEW w \in Workers, pc[w] # "dead",
                    NEW i \in 1 .. Len(sent)
             PROVE  Ran(sent[i])
  BY DEF DroppedAfterAll
<1>1. ReceiverGone
  BY DEF DropInv, ShutdownInv
<1>2. w \in Exited
  BY <1>1 DEF ReceiverGone, Stopped, Exited
<1>3. Len(started) = Len(sent)
  BY <1>2 DEF DropInv, ShutdownInv
<1>4. started[i] = sent[i] /\ i \in 1 .. Len(started)
  BY ONLY <1>3, i \in 1 .. Len(sent), StartedInOrder DEF StartedInOrder
<1>5. job[sent[i]] \in {"running", "done", "lost"}
  BY ONLY <1>4, DropInv DEF DropInv, StartedInv
<1>6. sent[i] \in Jobs
  <2>1. sent \in Seq(Jobs)
    BY DEF PoolInv, TypeOK
  <2> QED
    BY ONLY <2>1, i \in 1 .. Len(sent)
<1>7. \A v \in Workers : pc[v] # "run"
  BY <1>1 DEF ReceiverGone, Stopped
<1>8. job[sent[i]] # "running"
  BY ONLY <1>6, <1>7, PoolInv DEF PoolInv, Executing
<1> QED
  BY ONLY <1>4, <1>5, <1>8 DEF Ran

(* With a message to take or Drop joining no worker blocks for ever, and   *)
(* a Drop that has returned has run everything, unless panics killed every *)
(* worker: the safety part of DropReturns and JobsEnd, for any number of   *)
(* workers.                                                                *)
THEOREM DropNeverStuck == Spec => [](NeverStuck /\ DroppedAfterAll)
<1>1. Init => DropInv
  <2> SUFFICES ASSUME Init PROVE DropInv
    OBVIOUS
  <2>1. Exited = {} /\ queue = <<>> /\ sent = <<>> /\ started = <<>>
    BY DEF Init, Exited
  <2>2. Len(queue) = 0 /\ Len(sent) = 0 /\ Len(started) = 0 /\ Cardinality(Exited) = 0
    BY <2>1, FS_EmptySet
  <2>3. ShutdownInv
    BY <2>1, <2>2 DEF Init, ShutdownInv
  <2>4. HeldInv /\ StartedInv
    BY <2>2, DistinctAssumption DEF Init, HeldInv, StartedInv
  <2> QED
    BY <2>3, <2>4 DEF DropInv
<1>2. Init => StartedInOrder
  BY DEF Init, StartedInOrder
<1>3. PoolInv /\ StartedInOrder /\ DropInv /\ [Next]_vars => DropInv'
  BY ShutdownNext, HeldNext, StartedNext DEF DropInv
<1> QED
  BY <1>1, <1>2, <1>3, OrderNext, GoesOn, AllRan, PoolInvariant, PTL DEF Spec
=============================================================================
