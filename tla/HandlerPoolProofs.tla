------------------------- MODULE HandlerPoolProofs -------------------------
(***************************************************************************)
(* Proofs about HandlerPool for any number of I/O threads, handler         *)
(* threads, requests and nodes: the lock-free stack, the signals, and the  *)
(* refinement of HandOff.                                                  *)
(***************************************************************************)
EXTENDS HandlerPool, LinkedListProofs, SequenceTheorems, TLAPS

----------------------------------------------------------------------------
(* The inductive invariant, in parts. *)
Items == [req : Requests \cup {Null}, points : IoThreads \cup {Null}]

TypeOK ==
  /\ head \in Nodes \cup {Null}
  /\ next \in [Nodes -> Nodes \cup {Null}]
  /\ item \in [Nodes -> Items]
  /\ cache \in [Threads -> Seq(Nodes)]
  /\ malloced \subseteq Nodes
  /\ io \in [IoThreads -> {"idle", "push", "cas", "signal"}]
  /\ mine \in [IoThreads -> Nodes \cup {Null}]
  /\ pc \in [Handlers -> {"top", "look", "next", "cas", "run", "lock", "check",
                          "doze", "asleep", "exit"}]
  /\ ptr \in [Threads -> Nodes \cup {Null}]
  /\ nxt \in [Handlers -> Nodes \cup {Null}]
  /\ lock \in Handlers \cup {Null}
  /\ cur \in [Handlers -> Items]
  /\ stage \in [Requests -> {"new", "pushing", "queued", "taken", "done", "dropped"}]
  /\ running \in BOOLEAN
  /\ destroy \in {"no", "wake", "join", "done"}

(* destroy starts when the I/O threads have ended, and returns when the    *)
(* handler threads have.                                                   *)
Stopping ==
  /\ running <=> destroy = "no"
  /\ destroy # "no" => \A t \in IoThreads : io[t] = "idle"
  /\ destroy = "done" => \A w \in Handlers : pc[w] = "exit"

(* A node that was allocated belongs to one request for ever: nothing is   *)
(* on the free list of a thread that allocates.                            *)
Owned ==
  /\ \A t \in IoThreads : cache[t] = <<>>
  /\ \A n \in malloced : /\ item[n].req \in Requests
                         /\ stage[item[n].req] \notin {"new", "dropped"}
  /\ \A m, n \in malloced : item[m].req = item[n].req => m = n

Popped(n) == n \in malloced /\ stage[item[n].req] \in {"taken", "done"}

Freed == \A w \in Handlers : \A i \in 1 .. Len(cache[w]) : Popped(cache[w][i])

(* The nodes on their way to the stack, which nobody else has seen. *)
Pushing ==
  /\ \A t \in IoThreads : io[t] \in {"push", "cas"} =>
       mine[t] \in malloced /\ stage[item[mine[t]].req] = "pushing"
  /\ \A s, t \in IoThreads :
       io[s] \in {"push", "cas"} /\ io[t] \in {"push", "cas"} /\ mine[s] = mine[t] => s = t
  /\ \A t \in IoThreads : io[t] = "cas" => next[mine[t]] = ptr[t]

(* The stack is a list without a cycle of the nodes of the queued requests. *)
Stacked ==
  /\ \A n \in Chain : n \in malloced /\ stage[item[n].req] = "queued"
  /\ \A r \in Requests : stage[r] = "queued" => \E n \in Chain : item[n].req = r
  /\ \A n \in Chain : n \notin List(next[n], next)

(* What a handler thread has read of the stack: the node has been pushed,  *)
(* and as long as it is on the stack its next field is what was read.      *)
Popping ==
  /\ \A w \in Handlers : pc[w] \in {"next", "cas"} =>
       ptr[w] \in malloced /\ stage[item[ptr[w]].req] # "pushing"
  /\ \A w \in Handlers : pc[w] = "cas" /\ ptr[w] \in Chain => nxt[w] = next[ptr[w]]

(* The requests that are taken are those in the hands of a handler thread. *)
InHand ==
  /\ \A w \in Handlers : pc[w] = "run" =>
       cur[w].req \in Requests /\ stage[cur[w].req] = "taken"
  /\ \A v, w \in Handlers :
       pc[v] = "run" /\ pc[w] = "run" /\ cur[v].req = cur[w].req => v = w
  /\ \A r \in Requests : stage[r] = "taken" =>
       \E w \in Handlers : pc[w] = "run" /\ cur[w].req = r

Live == Owned /\ Freed /\ Pushing /\ Stacked /\ Popping /\ InHand

PoolInv == TypeOK /\ Stopping /\ (destroy # "done" => Live)

----------------------------------------------------------------------------
(* The null pointer is no node. *)
LEMMA NullIsNoNode == Null \notin Nodes
  BY PoolAssumption DEF PoolAssumption

----------------------------------------------------------------------------
(* What a compare-and-swap that succeeds does, spelled out. *)
LEMMA PopEffect ==
  ASSUME NEW w \in Handlers, PopCas(w), head = ptr[w]
  PROVE  /\ pc[w] = "cas"
         /\ head'  = nxt[w]
         /\ cur'   = [cur EXCEPT ![w] = item[ptr[w]]]
         /\ stage' = [stage EXCEPT ![item[ptr[w]].req] = "taken"]
         /\ next'  = [next EXCEPT ![ptr[w]] = IF cache[w] = <<>> THEN Null
                                                                 ELSE Head(cache[w])]
         /\ cache' = [cache EXCEPT ![w] = <<ptr[w]>> \o @]
         /\ pc'    = [pc EXCEPT ![w] = "run"]
         /\ UNCHANGED <<item, malloced, io, mine, frame, nxt, ptr, lock, running, destroy>>
  BY DEF PopCas, NodeFree, Goto, ioVars, stopVars

(* The other one, successful or not. *)
LEMMA PushEffect ==
  ASSUME NEW t \in IoThreads, PushCas(t)
  PROVE  /\ io[t] = "cas" /\ \E l \in {"signal", "push"} : io' = [io EXCEPT ![t] = l]
         /\ \/ head' = mine[t] /\ \E x : stage' = [stage EXCEPT ![x] = "queued"]
            \/ UNCHANGED <<head, stage>>
         /\ UNCHANGED <<next, item, cache, malloced, mine, pc, nxt, cur, ptr, lock,
                        running, destroy>>
  BY DEF PushCas, workVars, stopVars

(* Types and the order of destroy are kept by every step. *)
LEMMA TypeNext == PoolInv /\ [Next]_vars => TypeOK' /\ Stopping'
<1> SUFFICES ASSUME PoolInv, [Next]_vars PROVE TypeOK' /\ Stopping'
  OBVIOUS
<1> USE PoolAssumption
    DEF PoolAssumption, PoolInv, TypeOK, Stopping, Items, Threads, ioVars, workVars, stopVars
<1>1. ASSUME NEW t \in IoThreads, NEW r \in Requests, Enqueue(t, r)
      PROVE  TypeOK' /\ Stopping'
  <2>1. PICK n \in Nodes :
          /\ NodeAlloc(t, n)
          /\ item' = [item EXCEPT ![n] = [req |-> r, points |-> t]]
          /\ mine' = [mine EXCEPT ![t] = n]
    BY <1>1 DEF Enqueue
  <2>2. cache' \in [Threads -> Seq(Nodes)] /\ malloced' \subseteq Nodes
    <3>1. cache[t] = <<>>
      BY <1>1 DEF Enqueue, Live, Owned
    <3>. QED
      BY <2>1, <3>1 DEF NodeAlloc
  <2>3. item' \in [Nodes -> Items] /\ mine' \in [IoThreads -> Nodes \cup {Null}]
    BY <2>1
  <2>. QED
    BY <1>1, <2>2, <2>3 DEF Enqueue
<1>2. ASSUME NEW t \in IoThreads, NEW r \in Requests, EnqueueFails(t, r)
      PROVE  TypeOK' /\ Stopping'
  BY <1>2 DEF EnqueueFails
<1>3. ASSUME NEW t \in IoThreads, PushRead(t) PROVE TypeOK' /\ Stopping'
  BY <1>3 DEF PushRead
<1>4. ASSUME NEW t \in IoThreads, PushCas(t) PROVE TypeOK' /\ Stopping'
  <2>1. /\ io[t] = "cas" /\ \E l \in {"signal", "push"} : io' = [io EXCEPT ![t] = l]
        /\ \/ head' = mine[t] /\ \E x : stage' = [stage EXCEPT ![x] = "queued"]
           \/ UNCHANGED <<head, stage>>
        /\ UNCHANGED <<next, item, cache, malloced, mine, pc, nxt, cur, ptr, lock,
                       running, destroy>>
    BY <1>4, PushEffect
  <2>2. head' \in Nodes \cup {Null}
    BY <2>1
  <2>3. stage' \in [Requests -> {"new", "pushing", "queued", "taken", "done", "dropped"}]
    BY <2>1
  <2>4. io' \in [IoThreads -> {"idle", "push", "cas", "signal"}] /\ destroy = "no"
    BY <2>1
  <2>. QED
    BY <2>1, <2>2, <2>3, <2>4
<1>5. ASSUME NEW t \in IoThreads, Signal(t) PROVE TypeOK' /\ Stopping'
  BY <1>5 DEF Signal, Asleep
<1>6. ASSUME NEW w \in Handlers,
             Top(w) \/ Look(w) \/ ReadNext(w) \/ Lock(w) \/ Check(w) \/ Sleep(w) \/ Timeout(w)
      PROVE  TypeOK' /\ Stopping'
  <2>1. CASE Top(w)
    BY <2>1 DEF Top, Goto
  <2>2. CASE Look(w)
    BY <2>2 DEF Look, Goto
  <2>3. CASE ReadNext(w)
    <3>1. ptr[w] \in Nodes
      BY <2>3 DEF ReadNext, Live, Popping
    <3>. QED
      BY <2>3, <3>1 DEF ReadNext, Goto
  <2>4. CASE Lock(w)
    BY <2>4 DEF Lock, Goto
  <2>5. CASE Check(w)
    <3>1. /\ pc[w] = "check" /\ \E l \in {"doze", "look", "top"} : pc' = [pc EXCEPT ![w] = l]
          /\ lock' \in {w, Null, lock}
          /\ UNCHANGED <<head, next, item, cache, malloced, io, mine, ptr, nxt, cur, stage,
                         running, destroy>>
      BY <2>5 DEF Check, Goto
    <3>. QED
      BY <3>1
  <2>6. CASE Sleep(w)
    BY <2>6 DEF Sleep, Goto
  <2>7. CASE Timeout(w)
    BY <2>7 DEF Timeout, Goto
  <2>. QED
    BY <1>6, <2>1, <2>2, <2>3, <2>4, <2>5, <2>6, <2>7
<1>7. ASSUME NEW w \in Handlers, PopCas(w) PROVE TypeOK' /\ Stopping'
  <2>1. CASE head = ptr[w]
    <3>1. ptr[w] \in Nodes
      <4>1. pc[w] = "cas" /\ destroy # "done"
        BY <1>7 DEF PopCas
      <4>. QED
        BY <4>1 DEF Live, Popping
    <3>2. <<ptr[w]>> \o cache[w] \in Seq(Nodes)
      BY <3>1
    <3>3. cache[w] # <<>> => Head(cache[w]) \in Nodes
      OBVIOUS
    <3>4. w \in Threads /\ item[ptr[w]] \in Items
      BY <3>1
    <3>5. cache' = [cache EXCEPT ![w] = <<ptr[w]>> \o cache[w]]
      BY <1>7, <2>1, PopEffect
    <3>6. cache' \in [Threads -> Seq(Nodes)]
      BY <3>2, <3>5
    <3>7. next' \in [Nodes -> Nodes \cup {Null}]
      <4>1. PICK v \in Nodes \cup {Null} : next' = [next EXCEPT ![ptr[w]] = v]
        BY <1>7, <2>1, <3>3, PopEffect
      <4>. QED
        BY <4>1
    <3>8. /\ head' = nxt[w] /\ cur' = [cur EXCEPT ![w] = item[ptr[w]]]
          /\ stage' = [stage EXCEPT ![item[ptr[w]].req] = "taken"]
          /\ pc' = [pc EXCEPT ![w] = "run"]
          /\ UNCHANGED <<item, malloced, io, mine, nxt, ptr, lock, running, destroy>>
          /\ pc[w] = "cas"
      BY <1>7, <2>1, PopEffect
    <3>. QED
      BY <3>4, <3>6, <3>7, <3>8
  <2>2. CASE head # ptr[w]
    BY <1>7, <2>2 DEF PopCas, Goto
  <2>. QED
    BY <2>1, <2>2
<1>8. ASSUME NEW w \in Handlers, Execute(w) PROVE TypeOK' /\ Stopping'
  BY <1>8 DEF Execute, Goto, NoItem
<1>9. CASE DestroyBegin \/ DestroyWake \/ DestroyJoin
  <2>1. CASE DestroyBegin
    BY <2>1 DEF DestroyBegin
  <2>2. CASE DestroyWake
    BY <2>2 DEF DestroyWake
  <2>3. CASE DestroyJoin
    BY <2>3 DEF DestroyJoin
  <2>. QED
    BY <1>9, <2>1, <2>2, <2>3
<1>10. CASE UNCHANGED vars
  BY <1>10 DEF vars
<1>. QED
  BY <1>1, <1>2, <1>3, <1>4, <1>5, <1>6, <1>7, <1>8, <1>9, <1>10
     DEF Next, IoStep, HandlerStep

----------------------------------------------------------------------------
(* Live is kept: first the I/O threads. *)
LEMMA EnqueueLive ==
  ASSUME PoolInv, destroy # "done", NEW t \in IoThreads, NEW r \in Requests, Enqueue(t, r)
  PROVE  Live'
<1> USE DEF PoolInv, TypeOK, Live, Threads
<1>1. cache[t] = <<>>
  BY DEF Owned
<1>2. PICK n \in Nodes \ malloced :
        /\ cache' = cache /\ malloced' = malloced \cup {n}
        /\ item' = [item EXCEPT ![n] = [req |-> r, points |-> t]]
        /\ mine' = [mine EXCEPT ![t] = n]
  BY <1>1 DEF Enqueue, NodeAlloc
<1>3. /\ stage[r] = "new" /\ stage' = [stage EXCEPT ![r] = "pushing"]
      /\ io[t] = "idle" /\ io' = [io EXCEPT ![t] = "push"]
      /\ UNCHANGED <<head, next, pc, nxt, cur, ptr>>
  BY DEF Enqueue, workVars
<1>4. \A m \in malloced : /\ item'[m] = item[m] /\ item[m].req \in Requests \ {r}
                         /\ stage'[item[m].req] = stage[item[m].req]
  BY <1>2, <1>3 DEF Owned
<1>5. item'[n].req = r /\ stage'[r] = "pushing" /\ mine'[t] = n
  BY <1>2, <1>3
<1>6. Owned'
  BY <1>2, <1>3, <1>4, <1>5 DEF Owned
<1>7. Freed'
  BY <1>2, <1>4 DEF Freed, Popped
<1>8. Pushing'
  BY <1>2, <1>3, <1>4, <1>5 DEF Pushing
<1>9. Stacked'
  <2>1. Chain' = Chain
    BY <1>3 DEF Chain
  <2>. QED
    BY <2>1, <1>2, <1>3, <1>4 DEF Stacked
<1>10. Popping'
  <2>1. Chain' = Chain
    BY <1>3 DEF Chain
  <2>. QED
    BY <2>1, <1>2, <1>3, <1>4 DEF Popping
<1>11. InHand'
  BY <1>3 DEF InHand
<1>. QED
  BY <1>6, <1>7, <1>8, <1>9, <1>10, <1>11

(* When the exchange fails only the frame of the thread changes. *)
LEMMA EnqueueFailsLive ==
  ASSUME PoolInv, destroy # "done", NEW t \in IoThreads, NEW r \in Requests,
         EnqueueFails(t, r)
  PROVE  Live'
<1> USE DEF PoolInv, TypeOK, Live, Threads
<1>1. /\ stage[r] = "new" /\ stage' = [stage EXCEPT ![r] = "dropped"]
      /\ UNCHANGED <<head, next, item, cache, malloced, io, mine, pc, nxt, cur, ptr>>
  BY DEF EnqueueFails, ioVars, workVars
<1>2. Chain' = Chain
  BY <1>1 DEF Chain
<1>3. \A m \in malloced : stage'[item[m].req] = stage[item[m].req]
  BY <1>1 DEF Owned
<1>4. Owned' /\ Freed' /\ Pushing'
  BY <1>1, <1>3 DEF Owned, Freed, Popped, Pushing
<1>5. Stacked' /\ Popping'
  BY <1>1, <1>2, <1>3 DEF Stacked, Popping
<1>6. InHand'
  BY <1>1 DEF InHand
<1>. QED
  BY <1>4, <1>5, <1>6

(* The next field of a node that is not on the stack is set. *)
LEMMA PushReadLive ==
  ASSUME PoolInv, destroy # "done", NEW t \in IoThreads, PushRead(t)
  PROVE  Live'
<1> USE DEF PoolInv, TypeOK, Live, Threads
<1>1. /\ io[t] = "push" /\ io' = [io EXCEPT ![t] = "cas"]
      /\ ptr' = [ptr EXCEPT ![t] = head] /\ next' = [next EXCEPT ![mine[t]] = head]
      /\ UNCHANGED <<head, item, cache, malloced, mine, pc, nxt, cur, stage>>
  BY DEF PushRead, workVars
<1>2. mine[t] \in malloced /\ stage[item[mine[t]].req] = "pushing"
  BY <1>1 DEF Pushing
<1>3. mine[t] \notin Chain
  BY <1>2 DEF Stacked
<1>4. head \in Nodes \cup {Null} /\ DOMAIN next = Nodes /\ DOMAIN next' = Nodes
  BY <1>1
<1>5. \A n \in Nodes : n # mine[t] => next'[n] = next[n]
  BY <1>1, <1>2
<1>6. /\ List(head, next') = List(head, next)
      /\ \A n \in Chain : next'[n] = next[n] /\ List(next'[n], next') = List(next[n], next)
  <2> HIDE DEF PoolInv, TypeOK, Live, Threads
  <2>1. mine[t] \notin List(head, next)
    BY <1>3 DEF Chain
  <2>2. /\ List(head, next') = List(head, next)
        /\ \A n \in List(head, next) :
             next'[n] = next[n] /\ List(next'[n], next') = List(next[n], next)
    BY <1>4, <1>5, <2>1, ListUntouched
  <2>. QED
    BY <2>2 DEF Chain
<1>7. Chain' = Chain
  BY <1>1, <1>6 DEF Chain
<1>8. Owned' /\ Freed' /\ InHand'
  BY <1>1 DEF Owned, Freed, Popped, InHand
<1>9. Pushing'
  BY <1>1, <1>2, <1>5 DEF Pushing
<1>10. Stacked'
  BY <1>1, <1>6, <1>7 DEF Stacked
<1>11. Popping'
  BY <1>1, <1>6, <1>7, PoolAssumption DEF Popping, PoolAssumption
<1>. QED
  BY <1>8, <1>9, <1>10, <1>11

(* A push that succeeds puts its node before the stack. *)
LEMMA PushCasLive ==
  ASSUME PoolInv, destroy # "done", NEW t \in IoThreads, PushCas(t)
  PROVE  Live'
<1> USE DEF PoolInv, TypeOK, Live, Threads
<1>1. /\ io[t] = "cas"
      /\ UNCHANGED <<next, item, cache, malloced, mine, pc, nxt, cur, ptr>>
  BY DEF PushCas, workVars
<1>2. CASE head # ptr[t]
  <2>1. io' = [io EXCEPT ![t] = "push"] /\ UNCHANGED <<head, stage>>
    BY <1>2 DEF PushCas
  <2>2. Chain' = Chain
    BY <1>1, <2>1 DEF Chain
  <2>3. Pushing'
    BY <1>1, <2>1 DEF Pushing
  <2>4. Owned' /\ Freed' /\ InHand'
    BY <1>1, <2>1 DEF Owned, Freed, Popped, InHand
  <2>. QED
    BY <1>1, <2>1, <2>2, <2>3, <2>4 DEF Stacked, Popping
<1>3. CASE head = ptr[t]
  <2> DEFINE m == mine[t]
             r == item[m].req
  <2>1. /\ head' = m /\ stage' = [stage EXCEPT ![r] = "queued"]
        /\ io' = [io EXCEPT ![t] = "signal"]
    BY <1>3 DEF PushCas
  <2>2. m \in malloced /\ m \in Nodes /\ stage[r] = "pushing" /\ next[m] = head
    BY <1>1, <1>3 DEF Pushing
  <2>3. r \in Requests /\ \A n \in malloced \ {m} : item[n].req \in Requests \ {r}
    BY <2>2 DEF Owned
  <2> HIDE DEF m, r
  <2>4. Chain' = {m} \cup Chain
    BY <1>1, <2>1, <2>2, ListStep DEF Chain
  <2>5. /\ item[m].req = r /\ stage'[r] = "queued"
        /\ \A s \in Requests : s # r => stage'[s] = stage[s]
    BY <2>1, <2>3 DEF r
  <2>6. m \notin Chain
    BY <2>2, <2>5 DEF Stacked
  <2>7. Owned'
    BY <1>1, <2>2, <2>3, <2>5 DEF Owned
  <2>8. Freed'
    BY <1>1, <2>1, <2>2, <2>3, <2>5 DEF Freed, Popped
  <2>9. Pushing'
    <3>1. ASSUME NEW u \in IoThreads, io'[u] \in {"push", "cas"}
          PROVE  mine[u] \in malloced \ {m} /\ io[u] = io'[u]
      <4>1. u # t /\ io[u] = io'[u]
        BY <2>1, <3>1
      <4>. QED
        BY <1>1, <3>1, <4>1 DEF Pushing, m
    <3>. QED
      BY <1>1, <2>3, <2>5, <3>1 DEF Pushing
  <2>10. Stacked'
    <3>1. List(next[m], next) = Chain
      BY <2>2 DEF Chain
    <3>2. \A n \in Chain' : n \in malloced /\ stage'[item[n].req] = "queued"
      BY <2>2, <2>3, <2>4, <2>5, <2>6 DEF Stacked
    <3>3. ASSUME NEW s \in Requests, stage'[s] = "queued" PROVE \E n \in Chain' : item[n].req = s
      BY <2>4, <2>5, <3>3 DEF Stacked
    <3>4. \A n \in Chain' : n \notin List(next[n], next)
      BY <2>4, <2>6, <3>1 DEF Stacked
    <3>. QED
      BY <1>1, <3>2, <3>3, <3>4 DEF Stacked
  <2>11. Popping'
    <3>1. ASSUME NEW w \in Handlers, pc[w] \in {"next", "cas"}
          PROVE  /\ ptr[w] \in malloced \ {m}
                 /\ item[ptr[w]].req \in Requests \ {r}
                 /\ stage[item[ptr[w]].req] # "pushing"
      BY <2>2, <2>3, <3>1 DEF Popping, r
    <3>. QED
      BY <1>1, <2>4, <2>5, <3>1 DEF Popping
  <2>12. InHand'
    <3>1. \A s \in Requests : stage'[s] = "taken" <=> stage[s] = "taken"
      BY <2>2, <2>5
    <3>. QED
      BY <1>1, <3>1 DEF InHand
  <2>. QED
    BY <2>7, <2>8, <2>9, <2>10, <2>11, <2>12
<1>. QED
  BY <1>2, <1>3

(* The frame of the I/O thread is not read by anything the stack needs. *)
LEMMA SignalLive ==
  ASSUME PoolInv, destroy # "done", NEW t \in IoThreads, Signal(t)
  PROVE  Live'
<1> USE DEF PoolInv, TypeOK, Live, Threads
<1>1. /\ io[t] = "signal" /\ io' = [io EXCEPT ![t] = "idle"]
      /\ mine' = [mine EXCEPT ![t] = Null]
      /\ UNCHANGED <<head, next, item, cache, malloced, nxt, cur, ptr, stage>>
  BY DEF Signal
<1>2. \A w \in Handlers : pc'[w] = "run" <=> pc[w] = "run"
  BY DEF Signal, Asleep
<1>3. \A w \in Handlers : pc'[w] \in {"next", "cas"} => pc'[w] = pc[w]
  BY DEF Signal, Asleep
<1>4. Chain' = Chain
  BY <1>1 DEF Chain
<1>5. Owned' /\ Freed' /\ Stacked'
  BY <1>1, <1>4 DEF Owned, Freed, Popped, Stacked
<1>6. Pushing'
  BY <1>1 DEF Pushing
<1>7. Popping'
  BY <1>1, <1>3, <1>4 DEF Popping
<1>8. InHand'
  BY <1>1, <1>2 DEF InHand
<1>. QED
  BY <1>5, <1>6, <1>7, <1>8

----------------------------------------------------------------------------
(* The handler threads.  Most of their steps, and those of destroy, touch  *)
(* neither the stack nor a request.                                        *)
LEMMA QuietLive ==
  ASSUME PoolInv, destroy # "done",
         UNCHANGED <<head, next, item, cache, malloced, io, mine, ptr, nxt, cur, stage>>,
         \A w \in Handlers : pc'[w] = pc[w] \/ {pc[w], pc'[w]} \cap {"next", "cas", "run"} = {}
  PROVE  Live'
<1> USE DEF PoolInv, Live
<1>1. Chain' = Chain
  BY DEF Chain
<1>2. \A w \in Handlers : \A l \in {"next", "cas", "run"} : pc'[w] = l <=> pc[w] = l
  OBVIOUS
<1>3. Owned' /\ Freed' /\ Stacked' /\ Pushing'
  BY <1>1 DEF Owned, Freed, Popped, Stacked, Pushing
<1>4. Popping'
  BY <1>1, <1>2 DEF Popping
<1>5. InHand'
  BY <1>2 DEF InHand
<1>. QED
  BY <1>3, <1>4, <1>5

(* The look at the head under the lock. *)
LEMMA LookLive ==
  ASSUME PoolInv, destroy # "done", NEW w \in Handlers, Look(w)
  PROVE  Live'
<1> USE DEF PoolInv, TypeOK, Live, Threads
<1>1. /\ pc[w] = "look" /\ ptr' = [ptr EXCEPT ![w] = head]
      /\ pc' = [pc EXCEPT ![w] = IF head = Null THEN "lock" ELSE "next"]
      /\ UNCHANGED <<head, next, item, cache, malloced, io, mine, nxt, cur, stage>>
  BY DEF Look, Goto, ioVars
<1>2. Chain' = Chain
  BY <1>1 DEF Chain
<1>3. Owned' /\ Freed' /\ Stacked'
  BY <1>1, <1>2 DEF Owned, Freed, Popped, Stacked
<1>4. Pushing'
  BY <1>1, PoolAssumption DEF Pushing, PoolAssumption
<1>5. Popping'
  <2>1. head # Null => head \in Chain
    BY ListClosed DEF Chain, Closed
  <2>2. head # Null => head \in malloced /\ stage[item[head].req] = "queued"
    BY <2>1 DEF Stacked
  <2>. QED
    BY <1>1, <1>2, <2>2 DEF Popping
<1>6. InHand'
  <2>1. \A v \in Handlers : pc'[v] = "run" <=> pc[v] = "run"
    BY <1>1
  <2>. QED
    BY <1>1, <2>1 DEF InHand
<1>. QED
  BY <1>3, <1>4, <1>5, <1>6

(* Reading the next field of a node that is not freed. *)
LEMMA ReadNextLive ==
  ASSUME PoolInv, destroy # "done", NEW w \in Handlers, ReadNext(w)
  PROVE  Live'
<1> USE DEF PoolInv, TypeOK, Live, Threads
<1>1. /\ pc[w] = "next" /\ nxt' = [nxt EXCEPT ![w] = next[ptr[w]]]
      /\ pc' = [pc EXCEPT ![w] = "cas"]
      /\ UNCHANGED <<head, next, item, cache, malloced, io, mine, ptr, cur, stage>>
  BY DEF ReadNext, Goto, ioVars
<1>2. Chain' = Chain
  BY <1>1 DEF Chain
<1>3. Owned' /\ Freed' /\ Stacked' /\ Pushing'
  BY <1>1, <1>2 DEF Owned, Freed, Popped, Stacked, Pushing
<1>4. Popping'
  BY <1>1, <1>2 DEF Popping
<1>5. InHand'
  <2>1. \A v \in Handlers : pc'[v] = "run" <=> pc[v] = "run"
    BY <1>1
  <2>. QED
    BY <1>1, <2>1 DEF InHand
<1>. QED
  BY <1>3, <1>4, <1>5

(* The request in the hands of a handler thread is served. *)
LEMMA ExecuteLive ==
  ASSUME PoolInv, destroy # "done", NEW w \in Handlers, Execute(w)
  PROVE  Live'
<1> USE DEF PoolInv, TypeOK, Live, Threads
<1> DEFINE r == cur[w].req
<1>1. /\ pc[w] = "run" /\ pc' = [pc EXCEPT ![w] = "top"]
      /\ stage' = [stage EXCEPT ![r] = "done"] /\ cur' = [cur EXCEPT ![w] = NoItem]
      /\ UNCHANGED <<head, next, item, cache, malloced, io, mine, ptr, nxt>>
  BY DEF Execute, Goto, ioVars
<1>2. r \in Requests /\ stage[r] = "taken"
  BY <1>1 DEF InHand
<1>3. /\ \A s \in Requests : s # r => stage'[s] = stage[s]
      /\ stage'[r] = "done"
  BY <1>1, <1>2
<1>4. \A v \in Handlers \ {w} : pc[v] = "run" => cur[v].req # r
  BY <1>1 DEF InHand
<1> HIDE DEF r
<1>5. Chain' = Chain
  BY <1>1 DEF Chain
<1>6. Owned'
  BY <1>1, <1>2, <1>3 DEF Owned
<1>7. Freed'
  <2>1. \A n \in malloced : Popped(n) => Popped(n)'
    BY <1>1, <1>2, <1>3 DEF Owned, Popped
  <2>. QED
    BY <1>1, <2>1 DEF Freed, Popped
<1>8. Pushing'
  BY <1>1, <1>2, <1>3 DEF Pushing, Owned
<1>9. Stacked'
  BY <1>1, <1>2, <1>3, <1>5 DEF Stacked
<1>10. Popping'
  BY <1>1, <1>2, <1>3, <1>5 DEF Popping
<1>11. InHand'
  <2>1. \A v \in Handlers : pc'[v] = "run" <=> v # w /\ pc[v] = "run"
    BY <1>1
  <2>2. \A v \in Handlers : v # w => cur'[v] = cur[v]
    BY <1>1
  <2>3. \A s \in Requests : stage'[s] = "taken" <=> s # r /\ stage[s] = "taken"
    BY <1>2, <1>3
  <2>4. \A s \in Requests : s # r /\ stage[s] = "taken" =>
          \E v \in Handlers : v # w /\ pc[v] = "run" /\ cur[v].req = s
    <3>1. InHand
      OBVIOUS
    <3> HIDE DEF PoolInv, TypeOK, Live
    <3>. QED
      BY <3>1 DEF InHand, r
  <2>5. \A u, v \in Handlers :
          pc[u] = "run" /\ pc[v] = "run" /\ cur[u].req = cur[v].req => u = v
    BY DEF InHand
  <2>6. \A v \in Handlers : pc[v] = "run" => cur[v].req \in Requests /\ stage[cur[v].req] = "taken"
    BY DEF InHand
  <2> HIDE DEF PoolInv, TypeOK, Live
  <2>. QED
    BY <1>4, <2>1, <2>2, <2>3, <2>4, <2>5, <2>6 DEF InHand
<1>. QED
  BY <1>6, <1>7, <1>8, <1>9, <1>10, <1>11

(* A pop that succeeds takes the first node off the stack: what it read of *)
(* that node's next field is still there, so the rest is the new stack.    *)
LEMMA PopCasLive ==
  ASSUME PoolInv, destroy # "done", NEW w \in Handlers, PopCas(w)
  PROVE  Live'
<1>1. CASE head # ptr[w]
  <2>1. /\ UNCHANGED <<head, next, item, cache, malloced, io, mine, nxt, cur, ptr, stage>>
        /\ pc[w] = "cas" /\ pc' = [pc EXCEPT ![w] = "look"]
    BY <1>1 DEF PopCas, Goto, ioVars
  <2>2. Chain' = Chain
    BY <2>1 DEF Chain
  <2>3. \A v \in Handlers : /\ pc'[v] \in {"next", "cas"} => pc'[v] = pc[v]
                           /\ pc'[v] = "run" <=> pc[v] = "run"
    BY <2>1 DEF PoolInv, TypeOK
  <2>4. Owned' /\ Freed' /\ Stacked' /\ Pushing'
    BY <2>1, <2>2 DEF PoolInv, Live, Owned, Freed, Popped, Stacked, Pushing
  <2>5. Popping' /\ InHand'
    BY <2>1, <2>2, <2>3 DEF PoolInv, Live, Popping, InHand
  <2>. QED
    BY <2>4, <2>5 DEF Live
<1>2. CASE head = ptr[w]
  <2> DEFINE p    == head
             r    == item[p].req
             rest == List(next[p], next)
  <2>1. /\ pc[w] = "cas" /\ head' = nxt[w] /\ cur' = [cur EXCEPT ![w] = item[p]]
        /\ stage' = [stage EXCEPT ![r] = "taken"] /\ pc' = [pc EXCEPT ![w] = "run"]
        /\ cache' = [cache EXCEPT ![w] = <<p>> \o @]
        /\ \E v : next' = [next EXCEPT ![p] = v]
        /\ UNCHANGED <<item, malloced, io, mine, nxt, ptr>>
    BY <1>2, PopEffect
  <2>2. p \in malloced /\ p \in Nodes /\ DOMAIN next = Nodes /\ DOMAIN next' = Nodes /\ w \in Threads
    <3>1. DOMAIN next' = Nodes
      BY TypeNext DEF TypeOK, Next, HandlerStep
    <3>. QED
      BY <2>1, <1>2, <3>1 DEF PoolInv, TypeOK, Live, Popping, Threads
  <2>3. Chain = {p} \cup rest
    BY <2>2, ListStep DEF Chain
  <2>4. p \notin rest /\ stage[r] = "queued" /\ nxt[w] = next[p]
    BY <1>2, <2>1, <2>3 DEF PoolInv, Live, Stacked, Popping
  <2>5. r \in Requests /\ \A n \in malloced \ {p} : item[n].req \in Requests \ {r}
    BY <2>2 DEF PoolInv, Live, Owned
  <2>6. \A n \in Nodes : n # p => next'[n] = next[n]
    BY <2>1, <2>2
  <2>8. /\ List(next[p], next') = rest
        /\ \A n \in rest : next'[n] = next[n] /\ List(next'[n], next') = List(next[n], next)
    BY <2>2, <2>4, <2>6, ListUntouched
  <2>9. Chain' = rest
    BY <2>1, <2>4, <2>8 DEF Chain
  <2>10. /\ \A s \in Requests : s # r => stage'[s] = stage[s]
         /\ stage'[r] = "taken"
    BY <2>1, <2>5 DEF PoolInv, TypeOK
  <2> HIDE DEF p, r, rest
  <2>11. Owned'
    BY <2>1, <2>4, <2>5, <2>10, PoolAssumption
       DEF PoolInv, TypeOK, Live, Owned, Threads, PoolAssumption
  <2>12. Freed'
    <3>1. \A n \in malloced : Popped(n) => Popped(n)'
      BY <2>1, <2>4, <2>5, <2>10 DEF PoolInv, Live, Owned, Popped
    <3>2. p \in malloced' /\ stage'[item'[p].req] = "taken"
      BY <2>1, <2>2, <2>10 DEF r
    <3>3. /\ cache'[w] = <<p>> \o cache[w] /\ cache[w] \in Seq(Nodes)
          /\ \A v \in Handlers \ {w} : cache'[v] = cache[v]
      BY <2>1, <2>2 DEF PoolInv, TypeOK, Threads
    <3>4. ASSUME NEW i \in 1 .. Len(cache'[w])
          PROVE  cache'[w][i] = p \/ \E j \in 1 .. Len(cache[w]) : cache'[w][i] = cache[w][j]
      <4>1. Len(cache'[w]) = Len(cache[w]) + 1 /\ Len(cache[w]) \in Nat
        BY <2>2, <3>3
      <4>2. CASE i = 1
        BY <2>2, <3>3, <4>2
      <4>3. CASE i # 1
        <5>1. i - 1 \in 1 .. Len(cache[w]) /\ cache'[w][i] = cache[w][i - 1]
          BY <2>2, <3>3, <4>1, <4>3
        <5>. QED
          BY <5>1
      <4>. QED
        BY <4>2, <4>3
    <3>5. \A v \in Handlers : \A j \in 1 .. Len(cache[v]) :
            /\ cache[v][j] \in malloced'
            /\ stage'[item'[cache[v][j]].req] \in {"taken", "done"}
      BY <3>1 DEF PoolInv, Live, Freed, Popped
    <3>6. ASSUME NEW v \in Handlers, NEW i \in 1 .. Len(cache'[v])
          PROVE  /\ cache'[v][i] \in malloced'
                 /\ stage'[item'[cache'[v][i]].req] \in {"taken", "done"}
      <4>1. CASE v = w
        <5>1. CASE cache'[v][i] = p
          BY <3>2, <5>1
        <5>2. ASSUME NEW j \in 1 .. Len(cache[v]), cache'[v][i] = cache[v][j]
              PROVE  /\ cache'[v][i] \in malloced'
                     /\ stage'[item'[cache'[v][i]].req] \in {"taken", "done"}
          BY <3>5, <5>2
        <5>. QED
          BY <3>4, <4>1, <5>1, <5>2
      <4>2. CASE v # w
        BY <3>3, <3>5, <3>6, <4>2
      <4>. QED
        BY <4>1, <4>2
    <3>. QED
      BY <3>6 DEF Freed, Popped
  <2>13. Pushing'
    <3>1. ASSUME NEW t \in IoThreads, io[t] \in {"push", "cas"}
          PROVE  /\ mine[t] \in malloced \ {p} /\ stage[item[mine[t]].req] = "pushing"
                 /\ mine[t] \in Nodes
      BY <2>4, <3>1 DEF PoolInv, TypeOK, Live, Pushing, r
    <3>. QED
      BY <2>1, <2>5, <2>6, <2>10, <3>1 DEF PoolInv, Live, Pushing
  <2>14. Stacked'
    <3>1. \A n \in rest : n \in malloced \ {p} /\ stage[item[n].req] = "queued"
                        /\ n \notin List(next[n], next)
      BY <2>3, <2>4 DEF PoolInv, Live, Stacked
    <3>2. \A s \in Requests : s # r /\ stage[s] = "queued" => \E n \in rest : item[n].req = s
      BY <2>3 DEF PoolInv, Live, Stacked, r
    <3>. QED
      <4>1. \A n \in rest : item[n].req \in Requests /\ stage'[item[n].req] = "queued"
        BY <2>5, <2>10, <3>1
      <4>2. \A s \in Requests : stage'[s] = "queued" => \E n \in rest : item[n].req = s
        BY <2>10, <3>2
      <4>3. \A n \in rest : n \notin List(next'[n], next')
        BY <2>8, <3>1
      <4>. QED
        BY <2>1, <2>9, <3>1, <4>1, <4>2, <4>3 DEF Stacked
  <2>15. Popping'
    <3>1. \A v \in Handlers : pc'[v] \in {"next", "cas"} => v # w /\ pc[v] = pc'[v]
      BY <2>1 DEF PoolInv, TypeOK
    <3>2. \A n \in malloced : stage'[item[n].req] = "pushing" => stage[item[n].req] = "pushing"
      BY <2>5, <2>10 DEF PoolInv, Live, Owned
    <3>3. rest \subseteq Chain /\ \A n \in rest : next'[n] = next[n]
      BY <2>3, <2>8
    <3>. QED
      BY <2>1, <2>9, <3>1, <3>2, <3>3 DEF PoolInv, Live, Popping
  <2>16. InHand'
    <3>1. \A v \in Handlers : pc'[v] = "run" <=> v = w \/ pc[v] = "run"
      BY <2>1 DEF PoolInv, TypeOK
    <3>2. /\ \A v \in Handlers : v # w => cur'[v] = cur[v]
          /\ cur'[w].req = r
      BY <2>1 DEF PoolInv, TypeOK, r
    <3>3. \A v \in Handlers : pc[v] = "run" =>
            v # w /\ cur[v].req \in Requests \ {r} /\ stage[cur[v].req] = "taken"
      BY <2>1, <2>4 DEF PoolInv, Live, InHand
    <3>. QED
      BY <2>5, <2>10, <3>1, <3>2, <3>3 DEF PoolInv, Live, InHand
  <2>. QED
    BY <2>11, <2>12, <2>13, <2>14, <2>15, <2>16 DEF Live
<1>. QED
  BY <1>1, <1>2

----------------------------------------------------------------------------
(* Initially, and after every step. *)
LEMMA PoolInit == Init => PoolInv
<1> SUFFICES ASSUME Init PROVE PoolInv
  OBVIOUS
<1> USE DEF Init
<1>1. <<>> \in Seq(Nodes)
  OBVIOUS
<1>2. TypeOK /\ Stopping
  BY <1>1 DEF TypeOK, Stopping, Items, NoItem
<1>3. Chain = {}
  BY <1>2, NullIsNoNode, ListNull DEF Chain, TypeOK
<1>4. Stacked /\ Popping /\ Pushing /\ InHand
  BY <1>3 DEF Stacked, Popping, Pushing, InHand
<1>5. Owned /\ Freed
  <2>1. \A t \in Threads : Len(cache[t]) = 0
    OBVIOUS
  <2>. QED
    BY <2>1 DEF Owned, Freed, Threads
<1>. QED
  BY <1>2, <1>4, <1>5 DEF PoolInv, Live

(* Every step keeps the invariant. *)
LEMMA PoolNext == PoolInv /\ [Next]_vars => PoolInv'
<1> SUFFICES ASSUME PoolInv, [Next]_vars PROVE PoolInv'
  OBVIOUS
<1>1. TypeOK' /\ Stopping'
  BY TypeNext
<1>2. ASSUME destroy' # "done" PROVE Live'
  <2>1. destroy # "done"
    BY <1>2 DEF Next, IoStep, HandlerStep, Enqueue, EnqueueFails, PushRead, PushCas, Signal,
                Top, Look, ReadNext, PopCas, Lock, Check, Sleep, Timeout, Execute,
                DestroyBegin, DestroyWake, DestroyJoin, vars, stopVars
  <2>2. ASSUME NEW t \in IoThreads, IoStep(t) PROVE Live'
    BY <2>1, <2>2, EnqueueLive, EnqueueFailsLive, PushReadLive, PushCasLive, SignalLive DEF IoStep
  <2>3. ASSUME NEW w \in Handlers, HandlerStep(w) PROVE Live'
    <3>1. CASE Top(w) \/ Lock(w) \/ Check(w) \/ Sleep(w) \/ Timeout(w)
      <4>1. /\ UNCHANGED <<head, next, item, cache, malloced, io, mine, ptr, nxt, cur, stage>>
            /\ pc[w] \notin {"next", "cas", "run"}
            /\ \E l \in {"look", "exit", "check", "doze", "top", "asleep"} :
                 pc' = [pc EXCEPT ![w] = l]
        BY <3>1 DEF Top, Lock, Check, Sleep, Timeout, Goto, ioVars
      <4>2. \A v \in Handlers :
              pc'[v] = pc[v] \/ {pc[v], pc'[v]} \cap {"next", "cas", "run"} = {}
        BY <4>1 DEF PoolInv, TypeOK
      <4>. QED
        BY <2>1, <4>1, <4>2, QuietLive
    <3>. QED
      BY <2>1, <2>3, <3>1, LookLive, ReadNextLive, PopCasLive, ExecuteLive DEF HandlerStep
  <2>4. CASE DestroyBegin
    BY <2>1, <2>4, QuietLive DEF DestroyBegin, ioVars, workVars
  <2>5. CASE DestroyWake
    <3>1. \A v \in Handlers :
            pc'[v] = pc[v] \/ {pc[v], pc'[v]} \cap {"next", "cas", "run"} = {}
      BY <2>5 DEF DestroyWake, Asleep
    <3>. QED
      BY <2>1, <2>5, <3>1, QuietLive DEF DestroyWake, ioVars
  <2>6. CASE DestroyJoin
    BY <1>2, <2>6 DEF DestroyJoin
  <2>7. CASE UNCHANGED vars
    BY <2>1, <2>7, QuietLive DEF vars, ioVars, workVars
  <2>. QED
    BY <2>2, <2>3, <2>4, <2>5, <2>6, <2>7 DEF Next
<1>. QED
  BY <1>1, <1>2 DEF PoolInv

(* The invariant the theorems rest on. *)
THEOREM PoolInvariant == Spec => []PoolInv
  BY PoolInit, PoolNext, PTL DEF Spec

(* The stack survives every interleaving of pushes and pops, of any number *)
(* of threads: no freed node is ever reused, so a compare-and-swap that    *)
(* finds the head it has read also finds the next field it has read.       *)
THEOREM StackStaysIntact == Spec => []StackIntact
<1>1. PoolInv => StackIntact
  <2> SUFFICES ASSUME PoolInv, destroy # "done" PROVE StackIntact
    BY DEF PoolInv, Stopping, StackIntact
  <2> USE DEF PoolInv, Live
  <2>1. ASSUME NEW t \in Threads, NEW i \in 1 .. Len(cache[t]) PROVE cache[t][i] \notin Chain
    <3>1. CASE t \in IoThreads
      <4>1. Len(cache[t]) = 0
        BY <3>1 DEF Owned
      <4>. QED
        BY <4>1
    <3>2. CASE t \in Handlers
      BY <3>2 DEF Freed, Popped, Stacked
    <3>. QED
      BY <3>1, <3>2 DEF Threads
  <2>. QED
    BY <2>1 DEF StackIntact, Stacked, Owned
<1>. QED
  BY <1>1, PoolInvariant, PTL

----------------------------------------------------------------------------
(* Signals.  The lock is held from the look at the head to the sleep, and  *)
(* a signal is given under the lock: a push that the look did not see has  *)
(* its signal before it.                                                   *)
Waiting == running /\ \E r \in Requests : stage[r] = "queued"

Signalled == \E t \in IoThreads : io[t] = "signal"

Locked ==
  /\ \A w \in Handlers : pc[w] \in {"check", "doze"} <=> lock = w
  /\ Waiting /\ (\E w \in Handlers : pc[w] = "doze") => Signalled

SignalInv == Locked /\ NoLostSignal

(* A step that puts nothing in and lets nobody look or sleep. *)
LEMMA SignalQuiet ==
  ASSUME PoolInv, SignalInv, UNCHANGED <<io, lock>>, Waiting' => Waiting,
         \A w \in Handlers : /\ pc'[w] = pc[w] \/ {pc[w], pc'[w]} \cap {"check", "doze"} = {}
                            /\ pc[w] # "asleep" => pc'[w] # "asleep"
  PROVE  SignalInv'
<1>1. ASSUME NEW w \in Handlers, NEW l \in {"check", "doze"} PROVE pc'[w] = l <=> pc[w] = l
  <2>1. pc'[w] = pc[w] \/ {pc[w], pc'[w]} \cap {"check", "doze"} = {}
    OBVIOUS
  <2>2. pc'[w] # pc[w] => pc[w] # l /\ pc'[w] # l
    BY <2>1
  <2>. QED
    BY <2>2
<1>2. Locked'
  BY <1>1 DEF SignalInv, Locked, Signalled
<1>3. NoLostSignal'
  BY DEF SignalInv, NoLostSignal, Waiting
<1>. QED
  BY <1>2, <1>3 DEF SignalInv

(* Every step keeps the signals. *)
LEMMA SignalNext == PoolInv /\ SignalInv /\ [Next]_vars => SignalInv'
<1> SUFFICES ASSUME PoolInv, SignalInv, [Next]_vars PROVE SignalInv'
  OBVIOUS
<1>1. ASSUME NEW t \in IoThreads, NEW r \in Requests, Enqueue(t, r) \/ EnqueueFails(t, r)
      PROVE  SignalInv'
  <2>1. /\ io[t] = "idle" /\ io' \in {io, [io EXCEPT ![t] = "push"]}
        /\ stage[r] = "new" /\ \E v \in {"pushing", "dropped"} : stage' = [stage EXCEPT ![r] = v]
        /\ UNCHANGED <<pc, lock, running>>
    BY <1>1 DEF Enqueue, EnqueueFails, ioVars, workVars, stopVars
  <2>2. Signalled' <=> Signalled
    BY <2>1 DEF Signalled, PoolInv, TypeOK
  <2>3. Waiting' => Waiting
    BY <2>1 DEF Waiting, PoolInv, TypeOK
  <2>. QED
    BY <2>1, <2>2, <2>3 DEF SignalInv, Locked, NoLostSignal, Waiting, Signalled
<1>2. ASSUME NEW t \in IoThreads, PushRead(t) PROVE SignalInv'
  <2>1. Signalled' <=> Signalled
    BY <1>2 DEF PushRead, Signalled, PoolInv, TypeOK
  <2>. QED
    BY <1>2, <2>1 DEF PushRead, workVars, stopVars, SignalInv, Locked, NoLostSignal, Waiting, Signalled
<1>3. ASSUME NEW t \in IoThreads, PushCas(t) PROVE SignalInv'
  <2>1. UNCHANGED <<pc, lock, running>>
    BY <1>3 DEF PushCas, workVars, stopVars
  <2>2. CASE head = ptr[t]
    <3>1. Signalled'
      BY <1>3, <2>2 DEF PushCas, Signalled, PoolInv, TypeOK
    <3>. QED
      BY <2>1, <3>1 DEF SignalInv, Locked, NoLostSignal, Signalled
  <2>3. CASE head # ptr[t]
    <3>1. UNCHANGED stage /\ (Signalled' <=> Signalled)
      BY <1>3, <2>3 DEF PushCas, Signalled, PoolInv, TypeOK
    <3>. QED
      BY <2>1, <3>1 DEF SignalInv, Locked, NoLostSignal, Waiting, Signalled
  <2>. QED
    BY <2>2, <2>3
<1>4. ASSUME NEW t \in IoThreads, Signal(t) PROVE SignalInv'
  <2>1. UNCHANGED <<lock, stage, running>> /\ lock = Null
    BY <1>4 DEF Signal, stopVars
  <2>2. \A w \in Handlers : pc[w] \notin {"check", "doze"}
    BY <2>1, PoolAssumption DEF SignalInv, Locked, PoolAssumption
  <2>3. \A w \in Handlers : pc'[w] \notin {"check", "doze"}
    BY <1>4, <2>2 DEF Signal, Asleep, PoolInv, TypeOK
  <2>4. \E w \in Handlers : pc'[w] # "asleep"
    BY <1>4, PoolAssumption DEF Signal, Asleep, PoolInv, TypeOK, PoolAssumption
  <2>. QED
    BY <2>1, <2>2, <2>3, <2>4 DEF SignalInv, Locked, NoLostSignal
<1>5. ASSUME NEW w \in Handlers, HandlerStep(w) PROVE SignalInv'
  <2> USE DEF Goto, ioVars, stopVars
  <2> DEFINE Quiet ==
        \A v \in Handlers : /\ pc'[v] = pc[v] \/ {pc[v], pc'[v]} \cap {"check", "doze"} = {}
                           /\ pc[v] # "asleep" => pc'[v] # "asleep"
  <2>1. CASE Top(w)
    <3>1. Quiet
      BY <2>1 DEF Top, PoolInv, TypeOK
    <3>. QED
      BY <2>1, <3>1, SignalQuiet DEF Top, Waiting
  <2>2. CASE Look(w)
    <3>1. Quiet
      BY <2>2 DEF Look, PoolInv, TypeOK
    <3>. QED
      BY <2>2, <3>1, SignalQuiet DEF Look, Waiting
  <2>3. CASE ReadNext(w)
    <3>1. Quiet
      BY <2>3 DEF ReadNext, PoolInv, TypeOK
    <3>. QED
      BY <2>3, <3>1, SignalQuiet DEF ReadNext, Waiting
  <2>4. CASE PopCas(w)
    <3>1. Quiet
      BY <2>4 DEF PopCas, PoolInv, TypeOK
    <3>2. Waiting' => Waiting
      BY <2>4 DEF PopCas, Waiting, PoolInv, TypeOK
    <3>. QED
      BY <2>4, <3>1, <3>2, SignalQuiet DEF PopCas
  <2>5. CASE Lock(w)
    <3>1. /\ lock = Null /\ lock' = w /\ pc' = [pc EXCEPT ![w] = "check"] /\ pc[w] = "lock"
          /\ UNCHANGED <<io, stage, running>>
      BY <2>5 DEF Lock
    <3>2. \A v \in Handlers : pc[v] \notin {"check", "doze"}
      BY <3>1, PoolAssumption DEF SignalInv, Locked, PoolAssumption
    <3>. QED
      BY <3>1, <3>2 DEF SignalInv, Locked, NoLostSignal, PoolInv, TypeOK
  <2>6. CASE Check(w)
    <3>1. pc[w] = "check" /\ lock = w /\ UNCHANGED <<io, stage, running>>
      BY <2>6 DEF Check, SignalInv, Locked
    <3>2. \A v \in Handlers \ {w} : pc[v] \notin {"check", "doze"}
      BY <3>1 DEF SignalInv, Locked
    <3>3. CASE running /\ head = Null
      <4>1. pc' = [pc EXCEPT ![w] = "doze"] /\ lock' = w
        BY <2>6, <3>1, <3>3 DEF Check
      <4>2. Chain = {}
        BY <3>3, NullIsNoNode, ListNull DEF Chain, PoolInv, TypeOK
      <4>3. ~Waiting
        BY <3>3, <4>2 DEF Waiting, PoolInv, Stopping, Live, Stacked
      <4>4. ~Waiting'
        BY <3>1, <4>3 DEF Waiting
      <4>. QED
        BY <3>2, <4>1, <4>4 DEF SignalInv, Locked, NoLostSignal, Waiting, PoolInv, TypeOK
    <3>4. CASE ~(running /\ head = Null)
      <4>1. pc' = [pc EXCEPT ![w] = IF running THEN "look" ELSE "top"] /\ lock' = Null
        BY <2>6, <3>4 DEF Check
      <4>2. \A v \in Handlers : pc'[v] \notin {"check", "doze"} /\ lock' # v
        BY <3>2, <4>1, PoolAssumption DEF PoolInv, TypeOK, PoolAssumption
      <4>3. pc'[w] # "asleep"
        BY <4>1 DEF PoolInv, TypeOK
      <4>. QED
        BY <4>2, <4>3 DEF SignalInv, Locked, NoLostSignal
    <3>. QED
      BY <3>3, <3>4
  <2>7. CASE Sleep(w)
    <3>1. /\ pc[w] = "doze" /\ lock = w /\ lock' = Null /\ pc' = [pc EXCEPT ![w] = "asleep"]
          /\ UNCHANGED <<io, stage, running>>
      BY <2>7 DEF Sleep, SignalInv, Locked
    <3>2. \A v \in Handlers : pc'[v] \notin {"check", "doze"} /\ lock' # v
      BY <3>1, PoolAssumption DEF SignalInv, Locked, PoolInv, TypeOK, PoolAssumption
    <3>3. Waiting' => Signalled'
      BY <3>1 DEF SignalInv, Locked, Waiting, Signalled
    <3>. QED
      BY <3>2, <3>3 DEF SignalInv, Locked, NoLostSignal, Waiting, Signalled
  <2>8. CASE Timeout(w)
    <3>1. Quiet
      BY <2>8 DEF Timeout, PoolInv, TypeOK
    <3>. QED
      BY <2>8, <3>1, SignalQuiet DEF Timeout, Waiting
  <2>9. CASE Execute(w)
    <3>1. Quiet
      BY <2>9 DEF Execute, PoolInv, TypeOK
    <3>2. Waiting' => Waiting
      BY <2>9 DEF Execute, Waiting, PoolInv, TypeOK
    <3>. QED
      BY <2>9, <3>1, <3>2, SignalQuiet DEF Execute
  <2>. QED
    BY <1>5, <2>1, <2>2, <2>3, <2>4, <2>5, <2>6, <2>7, <2>8, <2>9 DEF HandlerStep
<1>6. CASE DestroyBegin
  BY <1>6, SignalQuiet DEF DestroyBegin, ioVars, workVars, Waiting
<1>7. CASE DestroyWake
  <2>1. ~running
    BY <1>7 DEF DestroyWake, PoolInv, Stopping
  <2>2. \A v \in Handlers : /\ pc'[v] = pc[v] \/ {pc[v], pc'[v]} \cap {"check", "doze"} = {}
                           /\ pc[v] # "asleep" => pc'[v] # "asleep"
    BY <1>7 DEF DestroyWake, Asleep
  <2>. QED
    BY <1>7, <2>1, <2>2, SignalQuiet DEF DestroyWake, ioVars, Waiting
<1>8. CASE DestroyJoin
  <2>1. ~running'
    BY <1>8 DEF DestroyJoin, PoolInv, Stopping
  <2>. QED
    BY <1>8, <2>1, SignalQuiet DEF DestroyJoin, ioVars, workVars, Waiting
<1>9. CASE UNCHANGED vars
  BY <1>9, SignalQuiet DEF vars, ioVars, workVars, stopVars, Waiting
<1>. QED
  BY <1>1, <1>2, <1>3, <1>4, <1>5, <1>6, <1>7, <1>8, <1>9 DEF Next, IoStep

(* While a request is queued, some handler thread is awake or a signal is  *)
(* on its way, although a push takes no lock.                              *)
THEOREM SignalsKept == Spec => []NoLostSignal
<1>1. Init => SignalInv
  BY PoolAssumption DEF Init, SignalInv, Locked, NoLostSignal, Waiting, PoolAssumption
<1>2. Spec => []SignalInv
  BY <1>1, SignalNext, PoolInvariant, PTL DEF Spec
<1>. QED
  BY <1>2, PTL DEF SignalInv

----------------------------------------------------------------------------
(* Every step of the pool is one of HandOff or changes nothing it speaks   *)
(* of: a request is put by the compare-and-swap of its push, taken by the  *)
(* compare-and-swap of a pop, and discarded only when nobody has one.      *)
LEMMA HandOffNext == PoolInv /\ [Next]_vars => [Abstract!Next]_handed
<1> SUFFICES ASSUME PoolInv, [Next]_vars PROVE Abstract!Next \/ UNCHANGED handed
  OBVIOUS
<1> USE DEF PoolInv, TypeOK
<1>1. UNCHANGED stage => UNCHANGED handed
  BY DEF handed
<1>2. ASSUME NEW r \in Requests, NEW v \in {"queued", "taken", "done", "dropped"},
             stage' = [stage EXCEPT ![r] = v]
      PROVE  handed' = [handed EXCEPT ![r] = v]
  BY <1>2 DEF handed
<1>3. ASSUME NEW t \in IoThreads, NEW r \in Requests, Enqueue(t, r) PROVE UNCHANGED handed
  BY <1>3 DEF Enqueue, handed
<1>4. ASSUME NEW t \in IoThreads, NEW r \in Requests, EnqueueFails(t, r) PROVE Abstract!Refuse(r)
  BY <1>2, <1>4 DEF EnqueueFails, handed, Abstract!Refuse, Abstract!Move
<1>5. ASSUME NEW t \in IoThreads, PushCas(t) PROVE Abstract!Next \/ UNCHANGED handed
  <2>1. CASE head = ptr[t]
    <3> DEFINE r == item[mine[t]].req
    <3>1. io[t] = "cas" /\ destroy # "done"
      BY <1>5 DEF PushCas, Stopping
    <3>2. r \in Requests /\ stage[r] = "pushing"
      BY <3>1 DEF Live, Pushing, Owned
    <3>3. stage' = [stage EXCEPT ![r] = "queued"]
      BY <1>5, <2>1 DEF PushCas
    <3> HIDE DEF r
    <3>4. Abstract!Put(r)
      BY <1>2, <3>2, <3>3 DEF handed, Abstract!Put, Abstract!Move
    <3>. QED
      BY <3>2, <3>4 DEF Abstract!Next
  <2>2. CASE head # ptr[t]
    BY <1>1, <1>5, <2>2 DEF PushCas
  <2>. QED
    BY <2>1, <2>2
<1>6. ASSUME NEW w \in Handlers, PopCas(w) PROVE Abstract!Next \/ UNCHANGED handed
  <2>1. CASE head = ptr[w]
    <3> DEFINE r == item[head].req
    <3>1. pc[w] = "cas" /\ destroy # "done" /\ stage' = [stage EXCEPT ![r] = "taken"]
      BY <1>6, <2>1, PopEffect DEF Stopping
    <3>2. head \in malloced /\ head \in Nodes
      BY <2>1, <3>1 DEF Live, Popping
    <3>3. head \in Chain
      BY <3>2, PoolAssumption, ListStep DEF Chain, PoolAssumption
    <3>4. r \in Requests /\ stage[r] = "queued"
      BY <3>1, <3>2, <3>3 DEF Live, Stacked, Owned
    <3> HIDE DEF r
    <3>5. Abstract!Take(r)
      BY <1>2, <3>1, <3>4 DEF handed, Abstract!Take, Abstract!Move
    <3>. QED
      BY <3>4, <3>5 DEF Abstract!Next
  <2>2. CASE head # ptr[w]
    BY <1>1, <1>6, <2>2 DEF PopCas
  <2>. QED
    BY <2>1, <2>2
<1>7. ASSUME NEW w \in Handlers, Execute(w) PROVE Abstract!Next
  <2> DEFINE r == cur[w].req
  <2>1. pc[w] = "run" /\ destroy # "done" /\ stage' = [stage EXCEPT ![r] = "done"]
    BY <1>7 DEF Execute, Stopping
  <2>2. r \in Requests /\ stage[r] = "taken"
    BY <2>1 DEF Live, InHand
  <2> HIDE DEF r
  <2>3. Abstract!Serve(r)
    BY <1>2, <2>1, <2>2 DEF handed, Abstract!Serve, Abstract!Move
  <2>. QED
    BY <2>2, <2>3 DEF Abstract!Next
<1>8. ASSUME DestroyJoin PROVE Abstract!Discard
  <2>1. /\ destroy = "join" /\ \A w \in Handlers : pc[w] = "exit"
        /\ stage' = [r \in Requests |-> IF stage[r] = "queued" THEN "dropped" ELSE stage[r]]
    BY <1>8 DEF DestroyJoin
  <2>2. \A r \in Requests : stage[r] # "taken"
    BY <2>1 DEF Live, InHand
  <2>3. handed' = [r \in Requests |-> IF handed[r] = "queued" THEN "dropped" ELSE handed[r]]
    BY <2>1 DEF handed
  <2>4. \A r \in Requests : handed[r] # "taken"
    BY <2>2 DEF handed
  <2>. QED
    BY <2>3, <2>4 DEF Abstract!Discard
<1>9. ASSUME NEW w \in Handlers,
             Top(w) \/ Look(w) \/ ReadNext(w) \/ Lock(w) \/ Check(w) \/ Sleep(w) \/ Timeout(w)
      PROVE  UNCHANGED handed
  BY <1>1, <1>9 DEF Top, Look, ReadNext, Lock, Check, Sleep, Timeout
<1>10. ASSUME NEW t \in IoThreads, PushRead(t) \/ Signal(t) PROVE UNCHANGED handed
  BY <1>1, <1>10 DEF PushRead, Signal
<1>11. CASE DestroyBegin \/ DestroyWake \/ UNCHANGED vars
  BY <1>1, <1>11 DEF DestroyBegin, DestroyWake, vars
<1>. QED
  BY <1>3, <1>4, <1>5, <1>6, <1>7, <1>8, <1>9, <1>10, <1>11
     DEF Next, IoStep, HandlerStep, Abstract!Next

(* The pool hands every request over as HandOff says: to one handler       *)
(* thread, once.                                                           *)
THEOREM PoolHandsOff == Spec => ImplementsHandOff
<1>1. Init => Abstract!Init
  BY DEF Init, handed, Abstract!Init
<1>. QED
  BY <1>1, HandOffNext, PoolInvariant, PTL DEF Spec, ImplementsHandOff, Abstract!Spec
=============================================================================
