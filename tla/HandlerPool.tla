---------------------------- MODULE HandlerPool ----------------------------
(***************************************************************************)
(* The handler offloading pool of the native HTTP server, in the C runtime *)
(* embedded in src/codegen/llvm.rs: I/O threads push requests on a Treiber *)
(* stack (yk_hw_enqueue) and signal a condition variable, handler threads  *)
(* pop (yk_hw_dequeue), first without a lock, then waiting with a timeout, *)
(* and run the route's handler (yk_hw_worker).                             *)
(*                                                                         *)
(* Pointers are modelled: the head, the next field of every node, what a   *)
(* thread has read and not yet used.  So is the memory the request lives   *)
(* in: yk_process_request copies method and path into its stack item and   *)
(* lets item.req point INTO that item; the node gets a copy of the item,   *)
(* whose req still points at the stack of the I/O thread.                  *)
(***************************************************************************)
EXTENDS Naturals, Sequences, FiniteSets, LinkedList

CONSTANTS
  IoThreads,   \* the IOCP worker threads
  Handlers,    \* the threads of the pool
  Requests,    \* the requests that match a route (bounds the model)
  Nodes,       \* the nodes malloc can return, one per request is enough
  Null,        \* the null pointer, nobody
  Garbage      \* what a frame holds once other calls have used its stack

ASSUME PoolAssumption ==
  /\ IoThreads \cap Handlers = {}
  /\ Handlers # {}
  /\ Null \notin Nodes \cup Requests \cup Handlers
  /\ Garbage \notin Requests

Threads == IoThreads \cup Handlers

VARIABLES
  head,      \* the top of the stack
  next,      \* the next field of every node
  item,      \* the item copied into every node: request and where req points
  cache,     \* each thread's list of free nodes (thread local), top first
  malloced,  \* the nodes malloc has returned so far
  frame,     \* the memory of each I/O thread's frame of yk_process_request
  io,        \* I/O thread: "idle", "push", "cas", "signal"
  mine,      \* I/O thread: the node being pushed
  pc,        \* handler thread: where it is
  ptr,       \* any thread: the pointer read from head
  nxt,       \* handler thread: the pointer read from ptr's next
  lock,      \* the holder of wake_lock
  cur,       \* handler thread: the item it took out
  stage,     \* the life of each request
  running,   \* pool->running
  destroy    \* "no", "wake", "join", "done"

ioVars   == <<io, mine, frame>>
workVars == <<pc, nxt, cur>>
stopVars == <<running, destroy>>
vars == <<head, next, item, cache, malloced, ioVars, workVars, ptr, lock, stage,
          stopVars>>

NoItem == [req |-> Null, points |-> Null]

Init ==
  /\ head     = Null
  /\ next     = [n \in Nodes |-> Null]
  /\ item     = [n \in Nodes |-> NoItem]
  /\ cache    = [t \in Threads |-> <<>>]
  /\ malloced = {}
  /\ frame    = [t \in IoThreads |-> Garbage]
  /\ io       = [t \in IoThreads |-> "idle"]
  /\ mine     = [t \in IoThreads |-> Null]
  /\ pc       = [w \in Handlers |-> "top"]
  /\ ptr      = [t \in Threads |-> Null]
  /\ nxt      = [w \in Handlers |-> Null]
  /\ lock     = Null
  /\ cur      = [w \in Handlers |-> NoItem]
  /\ stage    = [r \in Requests |-> "new"]
  /\ running  = TRUE
  /\ destroy  = "no"

----------------------------------------------------------------------------
(* yk_hw_node_alloc: the thread's own free list first, then malloc. *)
NodeAlloc(t, n) ==
  \/ /\ cache[t] # <<>>
     /\ n = Head(cache[t])
     /\ cache' = [cache EXCEPT ![t] = Tail(@)]
     /\ UNCHANGED malloced
  \/ /\ cache[t] = <<>>
     /\ n \in Nodes \ malloced
     /\ malloced' = malloced \cup {n}
     /\ UNCHANGED cache

(* yk_process_request: parse into the frame, build the item, copy it into  *)
(* a node.  The copy's req still points at the frame of t.                 *)
Enqueue(t, r) ==
  /\ io[t] = "idle"
  /\ stage[r] = "new"
  /\ destroy = "no"
  /\ frame' = [frame EXCEPT ![t] = r]
  /\ \E n \in Nodes :
       /\ NodeAlloc(t, n)
       /\ item' = [item EXCEPT ![n] = [req |-> r, points |-> t]]
       /\ mine' = [mine EXCEPT ![t] = n]
  /\ io'    = [io EXCEPT ![t] = "push"]
  /\ stage' = [stage EXCEPT ![r] = "pushing"]
  /\ UNCHANGED <<head, next, workVars, ptr, lock, stopVars>>

(* malloc fails: yk_hw_enqueue returns, nobody is told.                    *)
EnqueueFails(t, r) ==
  /\ io[t] = "idle"
  /\ stage[r] = "new"
  /\ destroy = "no"
  /\ stage' = [stage EXCEPT ![r] = "dropped"]
  /\ UNCHANGED <<head, next, item, cache, malloced, ioVars, workVars, ptr, lock,
                 stopVars>>

PushRead(t) ==
  /\ io[t] = "push"
  /\ ptr'  = [ptr EXCEPT ![t] = head]
  /\ next' = [next EXCEPT ![mine[t]] = head]
  /\ io'   = [io EXCEPT ![t] = "cas"]
  /\ UNCHANGED <<head, item, cache, malloced, mine, frame, workVars, lock, stage,
                 stopVars>>

(* Mutant: a plain store instead of the compare-and-swap.                  *)
PushStore(t) ==
  /\ io[t] = "cas"
  /\ head'  = mine[t]
  /\ stage' = [stage EXCEPT ![item[mine[t]].req] = "queued"]
  /\ io'    = [io EXCEPT ![t] = "signal"]
  /\ UNCHANGED <<next, item, cache, malloced, mine, frame, workVars, ptr, lock,
                 stopVars>>

PushCas(t) ==
  /\ io[t] = "cas"
  /\ \/ /\ head = ptr[t]
        /\ head'  = mine[t]
        /\ stage' = [stage EXCEPT ![item[mine[t]].req] = "queued"]
        /\ io'    = [io EXCEPT ![t] = "signal"]
     \/ /\ head # ptr[t]
        /\ io' = [io EXCEPT ![t] = "push"]
        /\ UNCHANGED <<head, stage>>
  /\ UNCHANGED <<next, item, cache, malloced, mine, frame, workVars, ptr, lock,
                 stopVars>>

Asleep == {w \in Handlers : pc[w] = "asleep"}

(* Wake one sleeper, if any, under the lock, and return: the frame is gone *)
(* and holds whatever the next calls leave on the stack.                   *)
Signal(t) ==
  /\ io[t] = "signal"
  /\ lock = Null
  /\ \/ Asleep = {} /\ UNCHANGED pc
     \/ \E w \in Asleep : pc' = [pc EXCEPT ![w] = "lock"]
  /\ io'    = [io EXCEPT ![t] = "idle"]
  /\ mine'  = [mine EXCEPT ![t] = Null]
  /\ frame' = [frame EXCEPT ![t] = Garbage]
  /\ UNCHANGED <<head, next, item, cache, malloced, nxt, cur, ptr, lock, stage,
                 stopVars>>

----------------------------------------------------------------------------
(* The handler threads. *)
Goto(w, l) == pc' = [pc EXCEPT ![w] = l]

Top(w) ==
  /\ pc[w] = "top"
  /\ Goto(w, IF running THEN "look" ELSE "exit")
  /\ UNCHANGED <<head, next, item, cache, malloced, ioVars, nxt, cur, ptr, lock,
                 stage, stopVars>>

(* The lock-free pop, on the fast path and again after a wait. *)
Look(w) ==
  /\ pc[w] = "look"
  /\ ptr' = [ptr EXCEPT ![w] = head]
  /\ Goto(w, IF head = Null THEN "lock" ELSE "next")
  /\ UNCHANGED <<head, next, item, cache, malloced, ioVars, nxt, cur, lock, stage,
                 stopVars>>

ReadNext(w) ==
  /\ pc[w] = "next"
  /\ nxt' = [nxt EXCEPT ![w] = next[ptr[w]]]
  /\ Goto(w, "cas")
  /\ UNCHANGED <<head, next, item, cache, malloced, ioVars, cur, ptr, lock, stage,
                 stopVars>>

(* yk_hw_node_free: the node goes on the popping thread's own free list,   *)
(* through the same next field.                                            *)
NodeFree(w, n) ==
  /\ next'  = [next EXCEPT ![n] = IF cache[w] = <<>> THEN Null ELSE Head(cache[w])]
  /\ cache' = [cache EXCEPT ![w] = <<n>> \o @]

(* Mutant: a plain store instead of the compare-and-swap.                  *)
PopStore(w) ==
  /\ pc[w] = "cas"
  /\ head'  = nxt[w]
  /\ cur'   = [cur EXCEPT ![w] = item[ptr[w]]]
  /\ stage' = [stage EXCEPT ![item[ptr[w]].req] = "taken"]
  /\ NodeFree(w, ptr[w])
  /\ Goto(w, "run")
  /\ UNCHANGED <<item, malloced, ioVars, nxt, ptr, lock, stopVars>>

PopCas(w) ==
  /\ pc[w] = "cas"
  /\ \/ /\ head = ptr[w]
        /\ head'  = nxt[w]
        /\ cur'   = [cur EXCEPT ![w] = item[ptr[w]]]
        /\ stage' = [stage EXCEPT ![item[ptr[w]].req] = "taken"]
        /\ NodeFree(w, ptr[w])
        /\ Goto(w, "run")
     \/ /\ head # ptr[w]
        /\ Goto(w, "look")
        /\ UNCHANGED <<head, next, cache, cur, stage>>
  /\ UNCHANGED <<item, malloced, ioVars, nxt, ptr, lock, stopVars>>

Lock(w) ==
  /\ pc[w] = "lock"
  /\ lock = Null
  /\ lock' = w
  /\ Goto(w, "check")
  /\ UNCHANGED <<head, next, item, cache, malloced, ioVars, nxt, cur, ptr, stage,
                 stopVars>>

(* Mutant: the head is not looked at again under the lock.                 *)
CheckRunningOnly(w) ==
  /\ pc[w] = "check"
  /\ IF running
       THEN Goto(w, "doze") /\ UNCHANGED lock
       ELSE Goto(w, "top") /\ lock' = Null
  /\ UNCHANGED <<head, next, item, cache, malloced, ioVars, nxt, cur, ptr, stage,
                 stopVars>>

(* Under the lock: stop, or try the stack again, or wait for a signal.     *)
Check(w) ==
  /\ pc[w] = "check"
  /\ IF running /\ head = Null
       THEN Goto(w, "doze") /\ UNCHANGED lock
       ELSE Goto(w, IF running THEN "look" ELSE "top") /\ lock' = Null
  /\ UNCHANGED <<head, next, item, cache, malloced, ioVars, nxt, cur, ptr, stage,
                 stopVars>>

(* SleepConditionVariableCS sleeps and releases the lock in one step. *)
Sleep(w) ==
  /\ pc[w] = "doze"
  /\ lock' = Null
  /\ Goto(w, "asleep")
  /\ UNCHANGED <<head, next, item, cache, malloced, ioVars, nxt, cur, ptr, stage,
                 stopVars>>

(* Mutant: the wait has no timeout.                                        *)
NoTimeout(w) ==
  /\ FALSE
  /\ pc[w] = "asleep"
  /\ UNCHANGED vars

(* The wait times out: dequeue returns 0 and the loop starts over.         *)
Timeout(w) ==
  /\ pc[w] = "asleep"
  /\ lock = Null
  /\ Goto(w, "top")
  /\ UNCHANGED <<head, next, item, cache, malloced, ioVars, nxt, cur, ptr, lock,
                 stage, stopVars>>

(* yk_hw_worker: the handler reads its request through req, the response   *)
(* is posted on the connection.                                            *)
Execute(w) ==
  /\ pc[w] = "run"
  /\ stage' = [stage EXCEPT ![cur[w].req] = "done"]
  /\ cur' = [cur EXCEPT ![w] = NoItem]
  /\ Goto(w, "top")
  /\ UNCHANGED <<head, next, item, cache, malloced, ioVars, nxt, ptr, lock,
                 stopVars>>

----------------------------------------------------------------------------
(* yk_handler_pool_destroy, after the I/O threads have ended.              *)
DestroyBegin ==
  /\ destroy = "no"
  /\ \A t \in IoThreads : io[t] = "idle"
  /\ running' = FALSE
  /\ destroy' = "wake"
  /\ UNCHANGED <<head, next, item, cache, malloced, ioVars, workVars, ptr, lock,
                 stage>>

(* WakeAllConditionVariable, without the lock. *)
DestroyWake ==
  /\ destroy = "wake"
  /\ pc' = [w \in Handlers |-> IF w \in Asleep THEN "lock" ELSE pc[w]]
  /\ destroy' = "join"
  /\ UNCHANGED <<head, next, item, cache, malloced, ioVars, nxt, cur, ptr, lock,
                 stage, running>>

(* Mutant: the threads are not waited for.                                 *)
DestroyWithoutJoin ==
  /\ destroy = "join"
  /\ destroy' = "done"
  /\ stage' = [r \in Requests |-> IF stage[r] = "queued" THEN "dropped" ELSE stage[r]]
  /\ UNCHANGED <<head, next, item, cache, malloced, ioVars, workVars, ptr, lock,
                 running>>

DestroyJoin ==
  /\ destroy = "join"
  /\ \A w \in Handlers : pc[w] = "exit"
  /\ destroy' = "done"
  /\ stage' = [r \in Requests |-> IF stage[r] = "queued" THEN "dropped" ELSE stage[r]]
  /\ UNCHANGED <<head, next, item, cache, malloced, ioVars, workVars, ptr, lock,
                 running>>

----------------------------------------------------------------------------
IoStep(t) == (\E r \in Requests : Enqueue(t, r) \/ EnqueueFails(t, r))
             \/ PushRead(t) \/ PushCas(t) \/ Signal(t)

HandlerStep(w) == \/ Top(w) \/ Look(w) \/ ReadNext(w) \/ PopCas(w)
                  \/ Lock(w) \/ Check(w) \/ Sleep(w) \/ Timeout(w) \/ Execute(w)

Next == \/ \E t \in IoThreads : IoStep(t)
        \/ \E w \in Handlers : HandlerStep(w)
        \/ DestroyBegin \/ DestroyWake \/ DestroyJoin

Spec == Init /\ [][Next]_vars

(* Every thread that can run does; a wait of one second comes to its end.  *)
(* The lock is not promised to a single thread, but its holder always      *)
(* releases it at its next step, so a thread that wants it again and again *)
(* finds it free again and again (SF).                                     *)
Fairness ==
  /\ \A t \in IoThreads : SF_vars(PushRead(t) \/ PushCas(t) \/ Signal(t))
  /\ \A w \in Handlers : SF_vars(HandlerStep(w))
  /\ WF_vars(DestroyWake \/ DestroyJoin)

FairSpec == Spec /\ Fairness

----------------------------------------------------------------------------
(* The nodes on the stack. *)
Chain == List(head, next)

(* The stack survives every interleaving of pushes and pops: what hangs    *)
(* from the head is one node for each queued request and nothing else, and *)
(* none of it is on a free list.  When destroy returns, and frees the      *)
(* pool, no thread uses it any more.                                       *)
StackIntact ==
  IF destroy = "done" THEN \A w \in Handlers : pc[w] = "exit" ELSE
    /\ \A n \in Chain : stage[item[n].req] = "queued"
    /\ \A r \in Requests : stage[r] = "queued" => \E n \in Chain : item[n].req = r
    /\ \A m, n \in Chain : item[m].req = item[n].req => m = n
    /\ \A t \in Threads : \A i \in 1 .. Len(cache[t]) : cache[t][i] \notin Chain

(* No wakeup is lost although pushes take no lock: while a request is      *)
(* queued, some handler thread is awake or a signal is on its way.         *)
NoLostSignal ==
  (running /\ \E r \in Requests : stage[r] = "queued")
    => (\E w \in Handlers : pc[w] # "asleep") \/ (\E t \in IoThreads : io[t] = "signal")

(* destroy returns, even when a handler thread misses its wakeup.          *)
DestroyReturns == destroy = "wake" ~> destroy = "done"

(* A request whose push is under way has not been put yet. *)
handed == [r \in Requests |-> IF stage[r] = "pushing" THEN "new" ELSE stage[r]]

Abstract == INSTANCE HandOff WITH stage <- handed

(* The pool hands every request over as HandOff says. *)
ImplementsHandOff == Abstract!Spec

(* The comments at llvm.rs:1703 and 2224 say the request the handler gets  *)
(* is a copy of its own: as long as it runs, what req points at is the     *)
(* request that was enqueued.                                              *)
HandlerSeesItsRequest ==
  \A w \in Handlers : pc[w] = "run" => frame[cur[w].points] = cur[w].req
=============================================================================
