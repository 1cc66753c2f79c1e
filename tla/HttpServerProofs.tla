-------------------------- MODULE HttpServerProofs --------------------------
(***************************************************************************)
(* Proofs about the HTTP server of the interpreter (HttpServer): no        *)
(* interpreter is shared or shows an earlier request, and every answer is  *)
(* made from its whole request, for any number of connections, requests    *)
(* and middleware, any bodies, wherever the network cuts them.  And about  *)
(* the routes of this server and of the compiled one (Routers): what they  *)
(* serve, for any segments, any parameters and any routes.  The two parts  *)
(* share no state.                                                         *)
(***************************************************************************)
EXTENDS HttpServer, Routers, FiniteSetTheorems, SequenceTheorems, WellFoundedInduction, TLAPS

Unit == Nat \X {"head", "body"} \X Nat
Job  == {"middleware", "handler", "logger"} \X Nat
Reply == [body : Seq(Unit), ran : Seq(Job)]

HttpTypeOK ==
  /\ asked \in [Conns -> Seq(Requests)]
  /\ stream \in [Conns -> Seq(Unit)]
  /\ rbuf \in [Conns -> Seq(Unit)]
  /\ body \in [Conns -> Seq(Unit)]
  /\ jobs \in [Conns -> Seq(Job)]
  /\ ran \in [Conns -> Seq(Job)]
  /\ answers \in [Conns -> Seq(Reply)]
  /\ pc \in [Conns -> {"read", "body", "next", "run", "write", "closed"}]

(* The interpreters. *)
PoolInv ==
  /\ pc \in [Conns -> {"read", "body", "next", "run", "write", "closed"}]
  /\ interp \in [Conns -> Interps \cup {0}]
  /\ \A c \in Conns : interp[c] # 0 <=> pc[c] = "run"
  /\ pool \in Seq(Interps)
  /\ HandlersIsolated

(* s is what the sequence w holds after its first m elements, or a part of *)
(* that.                                                                   *)
Continues(s, w, m) ==
  /\ Len(s) + m <= Len(w)
  /\ \A x \in 1 .. Len(s) : s[x] = w[m + x]

(* A connection between two requests, and one with a request under way:    *)
(* where its units are, and what has been run of what it needs.            *)
Idle(c) ==
  pc[c] # "closed" =>
    /\ pc[c] = "read"
    /\ stream[c] = <<>> /\ rbuf[c] = <<>> /\ body[c] = <<>> /\ ran[c] = <<>>

Receiving(c, units) ==
  \/ /\ pc[c] = "read"
     /\ Continues(rbuf[c], units, 0) /\ Continues(stream[c], units, Len(rbuf[c]))
     /\ Len(rbuf[c]) <= 1
  \/ /\ pc[c] = "body" /\ rbuf[c] = <<>>
     /\ Continues(body[c], units, 2) /\ Continues(stream[c], units, 2 + Len(body[c]))

Running(c, units, plan) ==
  /\ rbuf[c] = <<>> /\ stream[c] = <<>>
  /\ Continues(body[c], units, 2) /\ 2 + Len(body[c]) = Len(units)
  /\ Continues(ran[c], plan, 0) /\ Continues(jobs[c], plan, Len(ran[c]))
  /\ Len(ran[c]) + Len(jobs[c]) = Len(plan)
  /\ pc[c] = "run" => jobs[c] # <<>>

Busy(c) ==
  LET q == Request(c) units == Units(Len(asked[c]), q) IN
  \/ /\ Receiving(c, units)
     /\ pc[c] = "body" => q.kind # "bad" /\ jobs[c] = Planned(q) /\ ran[c] = <<>>
  \/ pc[c] \in {"next", "run"} /\ q.kind # "bad" /\ Running(c, units, Planned(q))
  \/ pc[c] = "write" /\ q.kind = "bad"
  \/ pc[c] = "closed"

Whole(r, q, a) ==
  q.kind # "bad" =>
    /\ a.body = [b \in 1 .. q.body |-> <<r, "body", b>>]
    /\ a.ran = Planned(q)

Answered(c) == \A r \in DOMAIN answers[c] : Whole(r, asked[c][r], answers[c][r])

Turn(c) ==
  \/ Len(asked[c]) = Len(answers[c]) /\ Idle(c)
  \/ Len(asked[c]) = Len(answers[c]) + 1 /\ Busy(c)

HttpInv ==
  /\ HttpTypeOK
  /\ \A c \in Conns : Turn(c) /\ Answered(c)
----------------------------------------------------------------------------
(* The last one returned: it is no other element of the pool.              *)
LEMMA FrontOfPool ==
  ASSUME NEW p \in Seq(Interps), p # <<>>, IsInjective(p)
  PROVE  /\ Front(p) \in Seq(Interps) /\ IsInjective(Front(p))
         /\ Last(p) \in Interps /\ Last(p) \in ToSet(p)
         /\ ToSet(Front(p)) \subseteq ToSet(p) \ {Last(p)}
<1>1. /\ Len(p) \in Nat \ {0} /\ DOMAIN p = 1 .. Len(p)
      /\ \A x \in 1 .. Len(p) : p[x] \in Interps
  OBVIOUS
<1>2. Last(p) = p[Len(p)] /\ Last(p) \in Interps /\ Last(p) \in ToSet(p)
  BY <1>1 DEF Last, ToSet
<1>3. /\ Front(p) \in Seq(Interps) /\ DOMAIN Front(p) = 1 .. Len(p) - 1
      /\ \A x \in 1 .. Len(p) - 1 : Front(p)[x] = p[x]
  BY <1>1 DEF Front
<1>4. \A x, y \in 1 .. Len(p) : p[x] = p[y] => x = y
  BY <1>1 DEF IsInjective
<1>5. IsInjective(Front(p))
  <2>1. \A x \in 1 .. Len(p) - 1 : x \in 1 .. Len(p)
    BY <1>1
  <2>. QED
    BY <1>3, <1>4, <2>1 DEF IsInjective
<1>6. ASSUME NEW v \in ToSet(Front(p)) PROVE v \in ToSet(p) \ {Last(p)}
  <2>1. PICK x \in 1 .. Len(p) - 1 : v = p[x]
    BY <1>3 DEF ToSet
  <2>2. x \in 1 .. Len(p) /\ x # Len(p) /\ Len(p) \in 1 .. Len(p)
    <3>1. Len(p) \in Nat \ {0}
      BY <1>1
    <3>. QED
      BY ONLY <3>1, <2>1
  <2>. QED
    BY <1>1, <1>2, <1>4, <2>1, <2>2 DEF ToSet
<1>. QED
  BY <1>2, <1>3, <1>5, <1>6

(* One that is put back. *)
LEMMA PutBack ==
  ASSUME NEW p \in Seq(Interps), IsInjective(p), NEW v \in Interps, v \notin ToSet(p)
  PROVE  /\ Append(p, v) \in Seq(Interps) /\ IsInjective(Append(p, v))
         /\ ToSet(Append(p, v)) = ToSet(p) \cup {v}
<1>1. /\ Len(p) \in Nat /\ DOMAIN p = 1 .. Len(p)
      /\ Append(p, v) \in Seq(Interps) /\ DOMAIN Append(p, v) = 1 .. Len(p) + 1
      /\ \A x \in 1 .. Len(p) : Append(p, v)[x] = p[x]
      /\ Append(p, v)[Len(p) + 1] = v
  OBVIOUS
<1>2. \A x \in 1 .. Len(p) + 1 : x \in 1 .. Len(p) \/ x = Len(p) + 1
  BY <1>1
<1>3. \A x \in 1 .. Len(p) : p[x] # v
  BY <1>1 DEF ToSet
<1>4. IsInjective(Append(p, v))
  BY <1>1, <1>2, <1>3 DEF IsInjective
<1>5. ToSet(Append(p, v)) = ToSet(p) \cup {v}
  <2>1. \A x \in 1 .. Len(p) : x \in 1 .. Len(p) + 1
    BY <1>1
  <2>2. Len(p) + 1 \in 1 .. Len(p) + 1
    BY <1>1
  <2>. QED
    BY <1>1, <1>2, <2>1, <2>2 DEF ToSet
<1>. QED
  BY <1>1, <1>4, <1>5

(* While a connection has no interpreter one is in nobody's use: there are *)
(* as many as connections.                                                 *)
LEMMA OneIsFree ==
  ASSUME PoolInv, NEW c \in Conns, interp[c] = 0
  PROVE  Interps \ InUse # {}
<1> DEFINE others == Conns \ {c}
           taken == [d \in others |-> interp[d]]
           image == {interp[d] : d \in others}
<1>1. IsFiniteSet(Conns) /\ Cardinality(Conns) \in Nat
  BY HttpAssumption, FS_CardinalityType DEF HttpAssumption
<1>2. IsFiniteSet(others) /\ Cardinality(others) = Cardinality(Conns) - 1
  BY <1>1, FS_RemoveElement
<1>3. taken \in Surjection(others, image)
  BY DEF Surjection
<1>4. IsFiniteSet(image) /\ Cardinality(image) <= Cardinality(others)
  BY <1>2, <1>3, FS_Surjection
<1>5. InUse \subseteq image
  BY DEF InUse
<1>6. IsFiniteSet(InUse) /\ Cardinality(InUse) <= Cardinality(image)
  BY <1>4, <1>5, FS_Subset
<1>7. IsFiniteSet(Interps) /\ Cardinality(Interps) = Cardinality(Conns)
  BY <1>1, FS_Interval DEF Interps
<1>8. Cardinality(InUse) \in Nat /\ Cardinality(image) \in Nat
  BY <1>4, <1>6, FS_CardinalityType
<1>9. SUFFICES ASSUME Interps \subseteq InUse PROVE FALSE
  OBVIOUS
<1>10. Cardinality(Interps) <= Cardinality(InUse)
  BY <1>6, <1>9, FS_Subset
<1> HIDE DEF others, image
<1>. QED
  BY <1>1, <1>2, <1>4, <1>6, <1>7, <1>8, <1>10

(* A task takes an interpreter. *)
LEMMA TakeIsolated ==
  ASSUME PoolInv, NEW c \in Conns, Take(c)
  PROVE  PoolInv'
<1> USE DEF PoolInv
<1>1. /\ pc[c] = "next" /\ interp[c] = 0
      /\ pc' = [pc EXCEPT ![c] = "run"]
      /\ dirt' = dirt \ {interp'[c]}
  BY DEF Take, Set
<1>2. \A d \in Conns : interp[d] # 0 => interp[d] \in Interps /\ interp[d] \in InUse
  BY DEF InUse
<1>3. PICK v \in Interps :
        /\ interp' = [interp EXCEPT ![c] = v]
        /\ pool' \in Seq(Interps) /\ IsInjective(pool') /\ v \notin ToSet(pool')
        /\ ToSet(pool') \subseteq ToSet(pool)
        /\ \A d \in Conns : interp[d] # v
  <2>1. CASE pool # <<>>
    <3>1. interp' = [interp EXCEPT ![c] = Last(pool)] /\ pool' = Front(pool)
      BY <2>1 DEF Take, Set
    <3>2. /\ Front(pool) \in Seq(Interps) /\ IsInjective(Front(pool))
          /\ Last(pool) \in Interps /\ Last(pool) \in ToSet(pool)
          /\ ToSet(Front(pool)) \subseteq ToSet(pool) \ {Last(pool)}
      BY <2>1, FrontOfPool DEF HandlersIsolated
    <3>3. \A d \in Conns : interp[d] # Last(pool)
      <4>1. Last(pool) # 0
        BY <3>2, HttpAssumption, FS_CardinalityType DEF Interps, HttpAssumption
      <4>. QED
        BY <3>2, <4>1 DEF HandlersIsolated
    <3>. QED
      BY <3>1, <3>2, <3>3
  <2>2. CASE pool = <<>>
    <3> DEFINE v == CHOOSE x \in Interps \ InUse : TRUE
    <3>1. v \in Interps \ InUse
      BY <1>1, OneIsFree
    <3>2. interp' = [interp EXCEPT ![c] = v] /\ pool' = pool
      BY <2>2 DEF Take, Set
    <3>3. v # 0
      BY <3>1, HttpAssumption, FS_CardinalityType DEF Interps, HttpAssumption
    <3> HIDE DEF v
    <3>4. ToSet(pool) = {}
      BY <2>2 DEF ToSet
    <3>5. \A d \in Conns : interp[d] # v
      BY <1>2, <3>1, <3>3
    <3>6. pool \in Seq(Interps) /\ IsInjective(pool)
      BY DEF HandlersIsolated
    <3>. QED
      BY <3>1, <3>2, <3>4, <3>5, <3>6
  <2>. QED
    BY <2>1, <2>2
<1>4. /\ pc' \in [Conns -> {"read", "body", "next", "run", "write", "closed"}]
      /\ interp' \in [Conns -> Interps \cup {0}] /\ interp'[c] = v /\ pc'[c] = "run"
      /\ \A d \in Conns \ {c} : interp'[d] = interp[d] /\ pc'[d] = pc[d]
  BY <1>1, <1>3
<1>5. v # 0
  BY <1>3, HttpAssumption, FS_CardinalityType DEF Interps, HttpAssumption
<1>6. HandlersIsolated'
  BY <1>1, <1>3, <1>4 DEF HandlersIsolated
<1>7. \A d \in Conns : interp'[d] # 0 <=> pc'[d] = "run"
  BY <1>4, <1>5
<1>. QED
  BY <1>3, <1>4, <1>6, <1>7

(* The interpreter is given back, or dropped when the pool is full. *)
LEMMA ReturnIsolated ==
  ASSUME PoolInv, NEW c \in Conns, Return(c)
  PROVE  PoolInv'
<1> USE DEF PoolInv
<1>1. /\ pc[c] = "run" /\ interp[c] # 0 /\ interp[c] \in Interps
      /\ pc' = [pc EXCEPT ![c] = "next"] /\ interp' = [interp EXCEPT ![c] = 0]
      /\ dirt' = dirt \cup {interp[c]}
      /\ pool' = IF Len(pool) < PoolCap THEN Append(pool, interp[c]) ELSE pool
  BY DEF Return, Set
<1>2. /\ interp[c] \notin ToSet(pool)
      /\ \A d \in Conns \ {c} : interp[d] # interp[c]
  BY <1>1 DEF HandlersIsolated
<1>3. /\ pool' \in Seq(Interps) /\ IsInjective(pool')
      /\ ToSet(pool') \subseteq ToSet(pool) \cup {interp[c]}
  BY <1>1, <1>2, PutBack DEF HandlersIsolated
<1>4. /\ pc' \in [Conns -> {"read", "body", "next", "run", "write", "closed"}]
      /\ interp' \in [Conns -> Interps \cup {0}] /\ interp'[c] = 0 /\ pc'[c] = "next"
      /\ \A d \in Conns \ {c} : interp'[d] = interp[d] /\ pc'[d] = pc[d]
  BY <1>1
<1>5. HandlersIsolated'
  BY <1>1, <1>2, <1>3, <1>4 DEF HandlersIsolated
<1>6. \A d \in Conns : interp'[d] # 0 <=> pc'[d] = "run"
  BY <1>4
<1>. QED
  BY <1>3, <1>4, <1>5, <1>6

(* Steps that take no interpreter. *)
LEMMA OthersIsolated ==
  ASSUME PoolInv, UNCHANGED <<interp, pool, dirt>>,
         pc' \in [Conns -> {"read", "body", "next", "run", "write", "closed"}],
         \A c \in Conns : pc'[c] = "run" <=> pc[c] = "run"
  PROVE  PoolInv'
  BY DEF PoolInv, HandlersIsolated

(* Every step keeps the pool of interpreters. *)
LEMMA PoolNext == PoolInv /\ [Next]_vars => PoolInv'
<1> SUFFICES ASSUME PoolInv, [Next]_vars PROVE PoolInv'
  OBVIOUS
<1>1. pc \in [Conns -> {"read", "body", "next", "run", "write", "closed"}]
  BY DEF PoolInv
<1>2. CASE UNCHANGED vars
  BY <1>1, <1>2, OthersIsolated DEF vars, conn
<1>3. ASSUME NEW c \in Conns, ClientSends(c) \/ ClientShuts(c) PROVE PoolInv'
  BY <1>1, <1>3, OthersIsolated DEF ClientSends, ClientShuts, conn
<1>4. ASSUME NEW c \in Conns, NEW n \in 1 .. MaxBody + 2, Read(c, n) PROVE PoolInv'
  <2>1. UNCHANGED <<interp, pool, dirt>> /\ pc[c] = "read"
    BY <1>4 DEF Read
  <2>2. \/ pc' = pc
        \/ \E v \in {"write", "body", "next"} : pc' = [pc EXCEPT ![c] = v]
    <3> DEFINE units == rbuf[c] \o SubSeq(stream[c], 1, n)
    <3>1. Parse(c, units) \/ UNCHANGED pc
      BY <1>4 DEF Read
    <3> HIDE DEF units
    <3>. QED
      BY <3>1 DEF Parse, Set
  <2>3. /\ pc' \in [Conns -> {"read", "body", "next", "run", "write", "closed"}]
        /\ \A d \in Conns : pc'[d] = "run" <=> pc[d] = "run"
    BY <1>1, <2>1, <2>2
  <2>. QED
    BY <2>1, <2>3, OthersIsolated
<1>5. ASSUME NEW c \in Conns, ReadEnd(c) \/ ReadBody(c) \/ Write(c) PROVE PoolInv'
  <2>1. UNCHANGED <<interp, pool, dirt>> /\ pc[c] # "run"
    BY <1>5 DEF ReadEnd, ReadBody, Write
  <2>2. \E v \in {"closed", "next", "read"} : pc' = [pc EXCEPT ![c] = v]
    BY <1>5 DEF ReadEnd, ReadBody, Write, Set
  <2>3. /\ pc' \in [Conns -> {"read", "body", "next", "run", "write", "closed"}]
        /\ \A d \in Conns : pc'[d] = "run" <=> pc[d] = "run"
    BY <1>1, <2>1, <2>2
  <2>. QED
    BY <2>1, <2>3, OthersIsolated
<1>6. ASSUME NEW c \in Conns, Panic(c) PROVE PoolInv'
  <2>1. /\ pc' = [pc EXCEPT ![c] = "closed"] /\ interp' = [interp EXCEPT ![c] = 0]
        /\ UNCHANGED <<pool, dirt>>
    BY <1>6 DEF Panic, Set
  <2>2. /\ pc' \in [Conns -> {"read", "body", "next", "run", "write", "closed"}]
        /\ interp' \in [Conns -> Interps \cup {0}] /\ interp'[c] = 0 /\ pc'[c] = "closed"
        /\ \A d \in Conns \ {c} : interp'[d] = interp[d] /\ pc'[d] = pc[d]
    BY <1>1, <2>1 DEF PoolInv
  <2>. QED
    BY <2>1, <2>2 DEF PoolInv, HandlersIsolated
<1>. QED
  BY <1>2, <1>3, <1>4, <1>5, <1>6, TakeIsolated, ReturnIsolated DEF Next, Serve

(* The pool is empty at first. *)
LEMMA PoolStart == Init => PoolInv
<1> SUFFICES ASSUME Init PROVE PoolInv
  OBVIOUS
<1>1. <<>> \in Seq(Interps) /\ IsInjective(<<>>) /\ ToSet(<<>>) = {}
  BY DEF IsInjective, ToSet
<1>. QED
  BY <1>1 DEF Init, PoolInv, HandlersIsolated

(* A handler runs on an interpreter that no other task has, that is not in *)
(* the pool and shows nothing of the requests it served before             *)
(* (SubInterpreterPool::take and return_interp, execute_handler), for any  *)
(* number of connections and any capacity of the pool, panics included.    *)
THEOREM HandlersAreIsolated == Spec => []HandlersIsolated
<1>1. PoolInv => HandlersIsolated
  BY DEF PoolInv
<1>. QED
  BY <1>1, PoolStart, PoolNext, PTL DEF Spec

----------------------------------------------------------------------------
(* What a concatenation and a piece of a sequence hold. *)
LEMMA ConcatHolds ==
  ASSUME NEW T, NEW a \in Seq(T), NEW b \in Seq(T)
  PROVE  /\ a \o b \in Seq(T) /\ Len(a) \in Nat /\ Len(b) \in Nat
         /\ Len(a \o b) = Len(a) + Len(b)
         /\ \A u \in 1 .. Len(a) : (a \o b)[u] = a[u]
         /\ \A u \in 1 .. Len(b) : (a \o b)[Len(a) + u] = b[u]
<1>1. a \o b \in Seq(T) /\ Len(a) \in Nat /\ Len(b) \in Nat /\ Len(a \o b) = Len(a) + Len(b)
  OBVIOUS
<1>2. \A u \in 1 .. Len(a) : (a \o b)[u] = a[u]
  OBVIOUS
<1>3. ASSUME NEW u \in 1 .. Len(b) PROVE (a \o b)[Len(a) + u] = b[u]
  BY <1>1
<1>. QED
  BY <1>1, <1>2, <1>3

(* See ConcatHolds. *)
LEMMA PieceHolds ==
  ASSUME NEW T, NEW a \in Seq(T), NEW m \in Nat, NEW n \in Nat, m <= n, n <= Len(a)
  PROVE  /\ SubSeq(a, m + 1, n) \in Seq(T)
         /\ Len(SubSeq(a, m + 1, n)) = n - m
         /\ \A u \in 1 .. n - m : SubSeq(a, m + 1, n)[u] = a[m + u]
<1>1. \A u \in 1 .. Len(a) : a[u] \in T
  OBVIOUS
<1>2. /\ SubSeq(a, m + 1, n) \in Seq(T)
      /\ Len(SubSeq(a, m + 1, n)) = n - m
  OBVIOUS
<1>3. ASSUME NEW u \in 1 .. n - m PROVE SubSeq(a, m + 1, n)[u] = a[m + u]
  <2>1. m + u = (m + 1) + u - 1
    OBVIOUS
  <2>. QED
    BY <1>2, <2>1
<1>. QED
  BY <1>2, <1>3

(* A part of a sequence cut in two, two parts put together, a part that is *)
(* the whole.                                                              *)
LEMMA PartCut ==
  ASSUME NEW T, NEW s \in Seq(T), NEW w \in Seq(T), NEW m \in Nat, Continues(s, w, m),
         NEW n \in 0 .. Len(s)
  PROVE  /\ SubSeq(s, 1, n) \in Seq(T) /\ Len(SubSeq(s, 1, n)) = n
         /\ Continues(SubSeq(s, 1, n), w, m)
         /\ SubSeq(s, n + 1, Len(s)) \in Seq(T) /\ Len(SubSeq(s, n + 1, Len(s))) = Len(s) - n
         /\ Continues(SubSeq(s, n + 1, Len(s)), w, m + n)
<1>1. Len(s) \in Nat /\ Len(w) \in Nat /\ n \in Nat /\ n <= Len(s) /\ Len(s) + m <= Len(w)
  BY DEF Continues
<1> DEFINE a == SubSeq(s, 0 + 1, n)
           b == SubSeq(s, n + 1, Len(s))
<1>2. /\ a \in Seq(T) /\ Len(a) = n - 0
      /\ \A u \in 1 .. n - 0 : a[u] = s[0 + u]
  BY <1>1, PieceHolds
<1>3. /\ b \in Seq(T) /\ Len(b) = Len(s) - n
      /\ \A u \in 1 .. Len(s) - n : b[u] = s[n + u]
  BY <1>1, PieceHolds
<1>4. a = SubSeq(s, 1, n)
  OBVIOUS
<1> HIDE DEF a, b
<1>5. Len(a) = n /\ \A u \in 1 .. n : a[u] = w[m + u]
  <2>1. n - 0 = n /\ \A u \in 1 .. n : 0 + u = u /\ u \in 1 .. Len(s)
    BY <1>1
  <2>2. Len(a) = n /\ \A u \in 1 .. n : a[u] = s[u]
    BY <1>2, <2>1
  <2>. QED
    BY <2>1, <2>2 DEF Continues
<1>6. Continues(a, w, m)
  BY <1>1, <1>5 DEF Continues
<1>7. Continues(b, w, m + n)
  <2>1. Len(b) + (m + n) <= Len(w)
    BY <1>1, <1>3
  <2>2. ASSUME NEW u \in 1 .. Len(b) PROVE b[u] = w[(m + n) + u]
    <3>1. u \in 1 .. Len(s) - n /\ n + u \in 1 .. Len(s) /\ m + (n + u) = (m + n) + u
      BY <1>1, <1>3
    <3>. QED
      BY <1>3, <3>1 DEF Continues
  <2>. QED
    BY <2>1, <2>2 DEF Continues
<1>. QED
  BY <1>2, <1>3, <1>4, <1>5, <1>6, <1>7 DEF b

(* See PartCut. *)
LEMMA PartsJoined ==
  ASSUME NEW T, NEW a \in Seq(T), NEW b \in Seq(T), NEW w \in Seq(T), NEW m \in Nat,
         Continues(a, w, m), Continues(b, w, m + Len(a))
  PROVE  a \o b \in Seq(T) /\ Len(a \o b) = Len(a) + Len(b) /\ Continues(a \o b, w, m)
<1> DEFINE s == a \o b
<1>1. /\ s \in Seq(T) /\ Len(a) \in Nat /\ Len(b) \in Nat
      /\ Len(s) = Len(a) + Len(b)
      /\ \A u \in 1 .. Len(a) : s[u] = a[u]
      /\ \A u \in 1 .. Len(b) : s[Len(a) + u] = b[u]
  BY ConcatHolds
<1> HIDE DEF s
<1>2. Len(b) + (m + Len(a)) <= Len(w) /\ Len(w) \in Nat
  BY DEF Continues
<1>3. ASSUME NEW u \in 1 .. Len(s) PROVE s[u] = w[m + u]
  <2>1. CASE u <= Len(a)
    <3>1. u \in 1 .. Len(a)
      BY <1>1, <2>1
    <3>. QED
      BY <1>1, <3>1 DEF Continues
  <2>2. CASE ~(u <= Len(a))
    <3>1. PICK x \in 1 .. Len(b) : u = Len(a) + x
      <4>1. u - Len(a) \in 1 .. Len(b) /\ u = Len(a) + (u - Len(a))
        BY <1>1, <2>2
      <4>. QED
        BY <4>1
    <3>2. m + u = (m + Len(a)) + x
      BY <1>1, <3>1
    <3>. QED
      BY <1>1, <3>1, <3>2 DEF Continues
  <2>. QED
    BY <2>1, <2>2
<1>4. Continues(s, w, m)
  BY <1>1, <1>2, <1>3 DEF Continues
<1>. QED
  BY <1>1, <1>4 DEF s

(* See PartCut. *)
LEMMA WholePart ==
  ASSUME NEW T, NEW s \in Seq(T), NEW w \in Seq(T), Continues(s, w, 0), Len(s) = Len(w)
  PROVE  s = w
<1>1. /\ Len(w) \in Nat /\ s = [u \in 1 .. Len(w) |-> s[u]] /\ w = [u \in 1 .. Len(w) |-> w[u]]
  OBVIOUS
<1>2. \A u \in 1 .. Len(w) : s[u] = w[u]
  <2>1. \A u \in 1 .. Len(w) : 0 + u = u
    BY <1>1
  <2>. QED
    BY <2>1 DEF Continues
<1>. QED
  BY <1>1, <1>2

(* See PartCut. *)
LEMMA NoPart ==
  ASSUME NEW T, NEW s \in Seq(T), NEW w \in Seq(T), NEW m \in Nat, Continues(s, w, m),
         m >= Len(w)
  PROVE  s = <<>>
<1>1. Len(s) \in Nat /\ Len(w) \in Nat /\ Len(s) + m <= Len(w)
  BY DEF Continues
<1>2. Len(s) = 0
  BY <1>1
<1>. QED
  BY <1>2

(* The start of a sequence. *)
LEMMA EmptyPart ==
  ASSUME NEW T, NEW w \in Seq(T), NEW m \in 0 .. Len(w)
  PROVE  <<>> \in Seq(T) /\ Len(<<>>) = 0 /\ Continues(<<>>, w, m)
<1>1. Len(w) \in Nat /\ <<>> \in Seq(T) /\ Len(<<>>) = 0
  OBVIOUS
<1>. QED
  BY <1>1 DEF Continues

(* The units of a request: its head, of which the second unit is the end,  *)
(* and its body.                                                           *)
LEMMA UnitsHold ==
  ASSUME NEW r \in Nat, NEW q \in Requests
  PROVE  /\ q.body \in Nat
         /\ Units(r, q) \in Seq(Unit) /\ Len(Units(r, q)) = 2 + q.body
         /\ Units(r, q)[1] = <<r, "head", 1>> /\ Units(r, q)[2] = <<r, "head", 2>>
         /\ \A b \in 1 .. q.body : Units(r, q)[2 + b] = <<r, "body", b>>
<1>1. q.body \in Nat
  BY HttpAssumption DEF Requests, HttpAssumption
<1> DEFINE headU == <<<<r, "head", 1>>, <<r, "head", 2>>>>
           bodyU == [b \in 1 .. q.body |-> <<r, "body", b>>]
<1>2. /\ headU \in Seq(Unit) /\ Len(headU) = 2
      /\ headU[1] = <<r, "head", 1>> /\ headU[2] = <<r, "head", 2>>
  <2>1. <<r, "head", 1>> \in Unit /\ <<r, "head", 2>> \in Unit
    BY DEF Unit
  <2>. QED
    BY <2>1
<1>3. /\ bodyU \in Seq(Unit) /\ Len(bodyU) = q.body
      /\ \A b \in 1 .. q.body : bodyU[b] = <<r, "body", b>>
  <2>1. \A b \in 1 .. q.body : <<r, "body", b>> \in Unit
    BY <1>1 DEF Unit
  <2>2. bodyU \in [1 .. q.body -> Unit]
    BY <2>1
  <2>3. \A b \in 1 .. q.body : bodyU[b] = <<r, "body", b>>
    OBVIOUS
  <2> HIDE DEF bodyU
  <2>4. bodyU \in Seq(Unit) /\ Len(bodyU) = q.body
    BY ONLY <1>1, <2>2
  <2>. QED
    BY <2>3, <2>4
<1>4. Units(r, q) = headU \o bodyU
  BY DEF Units
<1> HIDE DEF headU, bodyU
<1>5. /\ headU \o bodyU \in Seq(Unit)
      /\ Len(headU \o bodyU) = Len(headU) + Len(bodyU)
      /\ \A u \in 1 .. Len(headU) : (headU \o bodyU)[u] = headU[u]
      /\ \A u \in 1 .. Len(bodyU) : (headU \o bodyU)[Len(headU) + u] = bodyU[u]
  <2>1. headU \in Seq(Unit) /\ bodyU \in Seq(Unit)
    BY <1>2, <1>3
  <2>. QED
    BY ONLY <2>1, ConcatHolds
<1>6. 1 \in 1 .. Len(headU) /\ 2 \in 1 .. Len(headU)
  BY <1>2
<1>. QED
  BY <1>1, <1>2, <1>3, <1>4, <1>5, <1>6

(* What has to run is a sequence of jobs. *)
LEMMA PlannedHolds ==
  ASSUME NEW q
  PROVE  Planned(q) \in Seq(Job) /\ Len(Planned(q)) \in Nat
<1>1. Numbered(Middleware) \in Seq(Job)
  <2>1. \A u \in 1 .. Middleware : <<"middleware", u>> \in Job
    BY HttpAssumption DEF HttpAssumption, Job
  <2>. QED
    BY <2>1, HttpAssumption DEF HttpAssumption, Numbered
<1>2. /\ <<>> \in Seq(Job) /\ <<<<"handler", 0>>>> \in Seq(Job)
      /\ <<<<"logger", 0>>>> \in Seq(Job)
  BY DEF Job
<1> DEFINE first == CASE q.kind # "route"   -> <<>>
                      [] Middleware > 0     -> Numbered(Middleware)
                      [] OTHER              -> <<<<"handler", 0>>>>
           last == IF Logger /\ q.kind # "options" THEN <<<<"logger", 0>>>> ELSE <<>>
<1>3. first \in Seq(Job) /\ last \in Seq(Job)
  BY <1>1, <1>2
<1>4. Planned(q) = first \o last
  BY DEF Planned
<1> HIDE DEF first, last
<1>. QED
  BY <1>3, <1>4, ConcatHolds

----------------------------------------------------------------------------
(* A step of one connection. *)
LEMMA ConnectionStep ==
  ASSUME HttpInv, NEW c \in Conns, HttpTypeOK',
         \A d \in Conns \ {c} :
           /\ asked'[d] = asked[d] /\ stream'[d] = stream[d] /\ pc'[d] = pc[d]
           /\ rbuf'[d] = rbuf[d] /\ body'[d] = body[d] /\ jobs'[d] = jobs[d]
           /\ ran'[d] = ran[d] /\ answers'[d] = answers[d],
         Turn(c)', Answered(c)'
  PROVE  HttpInv'
<1>1. ASSUME NEW d \in Conns, d # c PROVE Turn(d)' /\ Answered(d)'
  <2>1. /\ asked'[d] = asked[d] /\ stream'[d] = stream[d] /\ pc'[d] = pc[d]
        /\ rbuf'[d] = rbuf[d] /\ body'[d] = body[d] /\ jobs'[d] = jobs[d]
        /\ ran'[d] = ran[d] /\ answers'[d] = answers[d]
    BY <1>1
  <2>2. Turn(d) /\ Answered(d)
    BY DEF HttpInv
  <2>3. Answered(d)'
    BY <2>1, <2>2 DEF Answered
  <2>4. Idle(d)' <=> Idle(d)
    BY <2>1 DEF Idle
  <2>5. Request(d)' = Request(d)
    BY <2>1 DEF Request
  <2>6. \A w : Receiving(d, w)' <=> Receiving(d, w)
    BY <2>1 DEF Receiving
  <2>7. \A w, p : Running(d, w, p)' <=> Running(d, w, p)
    BY <2>1 DEF Running
  <2>8. Busy(d)' <=> Busy(d)
    <3>1. PICK q : q = Request(d)
      OBVIOUS
    <3>2. PICK w : w = Units(Len(asked[d]), q)
      OBVIOUS
    <3>3. PICK p : p = Planned(q)
      OBVIOUS
    <3>. QED
      BY <2>1, <2>5, <2>6, <2>7, <3>1, <3>2, <3>3 DEF Busy
  <2>. QED
    BY <2>1, <2>2, <2>3, <2>4, <2>8 DEF Turn
<1>. QED
  BY <1>1 DEF HttpInv

(* A connection with a request under way. *)
LEMMA BusyFacts ==
  ASSUME HttpInv, NEW c \in Conns, pc[c] # "closed",
         stream[c] # <<>> \/ pc[c] # "read" \/ Len(answers[c]) # Len(asked[c])
  PROVE  \E q \in Requests, r \in Nat :
           /\ q = Request(c) /\ r = Len(asked[c]) /\ r = Len(answers[c]) + 1
           /\ r \in DOMAIN asked[c] /\ q = asked[c][r]
           /\ Units(r, q) \in Seq(Unit) /\ Planned(q) \in Seq(Job)
           /\ \/ /\ Receiving(c, Units(r, q))
                 /\ pc[c] = "body" => q.kind # "bad" /\ jobs[c] = Planned(q) /\ ran[c] = <<>>
              \/ pc[c] \in {"next", "run"} /\ q.kind # "bad" /\ Running(c, Units(r, q), Planned(q))
              \/ pc[c] = "write" /\ q.kind = "bad"
<1>1. Turn(c) /\ asked[c] \in Seq(Requests) /\ answers[c] \in Seq(Reply)
  BY DEF HttpInv, HttpTypeOK
<1>2. Len(asked[c]) = Len(answers[c]) + 1 /\ Busy(c)
  BY <1>1 DEF Turn, Idle
<1>3. /\ Len(asked[c]) \in Nat /\ Len(asked[c]) \in DOMAIN asked[c]
      /\ asked[c][Len(asked[c])] \in Requests
  <2>1. Len(answers[c]) \in Nat
    BY <1>1
  <2>. QED
    BY <1>1, <1>2, <2>1
<1>4. Request(c) = asked[c][Len(asked[c])]
  BY DEF Request
<1>5. /\ Units(Len(asked[c]), Request(c)) \in Seq(Unit)
      /\ Planned(Request(c)) \in Seq(Job)
  BY <1>3, <1>4, UnitsHold, PlannedHolds
<1>6. \/ /\ Receiving(c, Units(Len(asked[c]), Request(c)))
         /\ pc[c] = "body" =>
              Request(c).kind # "bad" /\ jobs[c] = Planned(Request(c)) /\ ran[c] = <<>>
      \/ /\ pc[c] \in {"next", "run"} /\ Request(c).kind # "bad"
         /\ Running(c, Units(Len(asked[c]), Request(c)), Planned(Request(c)))
      \/ pc[c] = "write" /\ Request(c).kind = "bad"
  BY <1>2 DEF Busy
<1>. QED
  BY <1>2, <1>3, <1>4, <1>5, <1>6

(* What was answered stays answered. *)
LEMMA AnsweredStays ==
  ASSUME HttpInv, NEW c \in Conns, asked'[c] = asked[c], answers'[c] = answers[c]
  PROVE  Answered(c)'
  BY DEF HttpInv, Answered

----------------------------------------------------------------------------
(* A client sends a request or a part of one. *)
LEMMA ClientSendsInv ==
  ASSUME HttpInv, NEW c \in Conns, ClientSends(c)
  PROVE  HttpInv'
<1>1. PICK q \in Requests :
        /\ asked' = [asked EXCEPT ![c] = Append(asked[c], q)]
        /\ \/ stream' = [stream EXCEPT ![c] = Units(Len(asked[c]) + 1, q)]
           \/ \E n \in 0 .. Len(Units(Len(asked[c]) + 1, q)) :
                stream' = [stream EXCEPT ![c] = SubSeq(Units(Len(asked[c]) + 1, q), 1, n)]
  BY DEF ClientSends, Set
<1>2. /\ pc[c] # "closed" /\ Len(answers[c]) = Len(asked[c])
      /\ UNCHANGED <<pc, rbuf, body, jobs, ran, answers>>
  BY DEF ClientSends, conn
<1>3. HttpTypeOK /\ asked[c] \in Seq(Requests) /\ Len(asked[c]) \in Nat
      /\ Turn(c) /\ Answered(c) /\ answers[c] \in Seq(Reply)
  BY DEF HttpInv, HttpTypeOK
<1>4. Idle(c) /\ pc[c] = "read" /\ rbuf[c] = <<>>
  BY <1>2, <1>3 DEF Turn, Idle
<1>5. PICK r \in Nat : r = Len(asked[c]) + 1
  BY <1>3
<1>6. PICK w \in Seq(Unit) : w = Units(r, q)
  BY UnitsHold
<1>7. PICK s \in Seq(Unit) : stream' = [stream EXCEPT ![c] = s] /\ Continues(s, w, 0)
  <2>1. CASE stream' = [stream EXCEPT ![c] = w]
    <3>1. Len(w) \in Nat /\ Len(w) + 0 <= Len(w) /\ \A u \in 1 .. Len(w) : 0 + u = u
      OBVIOUS
    <3>2. Continues(w, w, 0)
      BY <3>1 DEF Continues
    <3>. QED
      BY <2>1, <3>2
  <2>2. ASSUME NEW n \in 0 .. Len(w), stream' = [stream EXCEPT ![c] = SubSeq(w, 1, n)]
        PROVE  \E s \in Seq(Unit) : stream' = [stream EXCEPT ![c] = s] /\ Continues(s, w, 0)
    <3>1. Len(w) \in Nat /\ Len(w) + 0 <= Len(w) /\ \A u \in 1 .. Len(w) : 0 + u = u
      OBVIOUS
    <3>2. Continues(w, w, 0)
      BY <3>1 DEF Continues
    <3>3. SubSeq(w, 1, n) \in Seq(Unit) /\ Continues(SubSeq(w, 1, n), w, 0)
      BY <3>2, PartCut
    <3>. QED
      BY <2>2, <3>3
  <2>. QED
    BY <1>1, <1>5, <1>6, <2>1, <2>2
<1>8. /\ Append(asked[c], q) \in Seq(Requests) /\ Len(Append(asked[c], q)) = r
      /\ Append(asked[c], q)[r] = q
      /\ \A x \in 1 .. Len(asked[c]) : Append(asked[c], q)[x] = asked[c][x]
  BY <1>3, <1>5
<1>9. /\ asked' \in [Conns -> Seq(Requests)] /\ asked'[c] = Append(asked[c], q)
      /\ \A d \in Conns \ {c} : asked'[d] = asked[d]
  BY <1>1, <1>3, <1>8 DEF HttpTypeOK
<1>10. /\ stream' \in [Conns -> Seq(Unit)] /\ stream'[c] = s
       /\ \A d \in Conns \ {c} : stream'[d] = stream[d]
  BY <1>3, <1>7 DEF HttpTypeOK
<1>11. HttpTypeOK'
  BY <1>2, <1>3, <1>9, <1>10 DEF HttpTypeOK
<1>12. Answered(c)'
  <2>1. \A x \in DOMAIN answers[c] : x \in 1 .. Len(asked[c])
    BY <1>2, <1>3
  <2>. QED
    BY <1>2, <1>3, <1>8, <1>9, <2>1 DEF Answered
<1>13. Turn(c)'
  <2>1. Len(asked'[c]) = Len(answers'[c]) + 1 /\ Request(c)' = q /\ Len(asked'[c]) = r
    BY <1>2, <1>5, <1>8, <1>9 DEF Request
  <2>2. Receiving(c, w)'
    <3>1. Len(w) \in Nat /\ 0 \in 0 .. Len(w)
      OBVIOUS
    <3>2. Continues(<<>>, w, 0) /\ Len(<<>>) = 0
      BY <3>1, EmptyPart
    <3>. QED
      BY <1>2, <1>4, <1>7, <1>10, <3>2 DEF Receiving
  <2>3. Busy(c)'
    BY <1>2, <1>4, <1>6, <2>1, <2>2 DEF Busy
  <2>. QED
    BY <2>1, <2>3 DEF Turn
<1>. QED
  BY <1>2, <1>9, <1>10, <1>11, <1>12, <1>13, ConnectionStep

(* A task ends: at the end of its stream, or by a panic. *)
LEMMA EndsInv ==
  ASSUME HttpInv, NEW c \in Conns, pc' = [pc EXCEPT ![c] = "closed"],
         UNCHANGED <<asked, stream, rbuf, body, jobs, ran, answers>>
  PROVE  HttpInv'
<1>1. HttpTypeOK /\ Turn(c)
  BY DEF HttpInv
<1>2. /\ pc'[c] = "closed" /\ \A d \in Conns \ {c} : pc'[d] = pc[d]
      /\ HttpTypeOK'
  BY <1>1 DEF HttpTypeOK
<1>3. Idle(c)' /\ Busy(c)'
  BY <1>2 DEF Idle, Busy
<1>4. Turn(c)'
  BY <1>1, <1>3 DEF Turn
<1>. QED
  BY <1>2, <1>4, AnsweredStays, ConnectionStep

(* The head of a request that is complete is its first two units: what the *)
(* buffer holds behind it is the start of the body.                        *)
LEMMA HeadFound ==
  ASSUME NEW r \in Nat, NEW q \in Requests, NEW s \in Seq(Unit),
         Continues(s, Units(r, q), 0)
  PROVE  /\ HasHead(s) =>
              /\ Len(s) >= 2
              /\ BodyOf(s) \in Seq(Unit) /\ Len(BodyOf(s)) = Len(s) - 2
              /\ Continues(BodyOf(s), Units(r, q), 2)
         /\ ~HasHead(s) => Len(s) <= 1
<1> DEFINE w == Units(r, q)
<1>1. /\ q.body \in Nat /\ w \in Seq(Unit) /\ Len(w) = 2 + q.body
      /\ w[1] = <<r, "head", 1>> /\ w[2] = <<r, "head", 2>>
      /\ \A b \in 1 .. q.body : w[2 + b] = <<r, "body", b>>
  BY UnitsHold
<1>2. Continues(s, w, 0)
  OBVIOUS
<1> HIDE DEF w
<1>3. /\ Len(s) \in Nat /\ DOMAIN s = 1 .. Len(s) /\ Len(s) <= Len(w)
      /\ \A x \in 1 .. Len(s) : s[x] = w[x]
  <2>1. \A x \in 1 .. Len(s) : 0 + x = x
    OBVIOUS
  <2>. QED
    BY <1>1, <1>2, <2>1 DEF Continues
<1>4. \A x \in 1 .. Len(s) : EndsHead(s[x]) <=> x = 2
  <2>1. ASSUME NEW x \in 1 .. Len(s) PROVE EndsHead(w[x]) <=> x = 2
    <3>1. CASE x = 1
      BY <1>1, <3>1 DEF EndsHead
    <3>2. CASE x = 2
      BY <1>1, <3>2 DEF EndsHead
    <3>3. CASE x > 2
      <4>1. x - 2 \in 1 .. q.body /\ 2 + (x - 2) = x
        BY <1>1, <1>3, <3>3
      <4>2. w[x] = <<r, "body", x - 2>>
        BY <1>1, <4>1
      <4>. QED
        BY <3>3, <4>2 DEF EndsHead
    <3>. QED
      BY <1>3, <3>1, <3>2, <3>3
  <2>. QED
    BY <1>3, <2>1
<1>5. ASSUME HasHead(s)
      PROVE  /\ Len(s) >= 2
             /\ BodyOf(s) \in Seq(Unit) /\ Len(BodyOf(s)) = Len(s) - 2
             /\ Continues(BodyOf(s), w, 2)
  <2>1. 2 \in 1 .. Len(s) /\ Len(s) >= 2
    BY <1>3, <1>4, <1>5 DEF HasHead
  <2>2. (CHOOSE j \in DOMAIN s : EndsHead(s[j])) = 2
    BY <1>3, <1>4, <2>1
  <2>3. BodyOf(s) = SubSeq(s, 2 + 1, Len(s))
    <3>1. BodyOf(s) = SubSeq(s, 1 + 2, Len(s))
      BY ONLY <2>2 DEF BodyOf
    <3>. QED
      BY <3>1, 1 + 2 = 2 + 1
  <2>4. 2 \in 0 .. Len(s) /\ 0 + 2 = 2
    BY <1>3, <2>1
  <2>5. /\ SubSeq(s, 2 + 1, Len(s)) \in Seq(Unit) /\ Len(SubSeq(s, 2 + 1, Len(s))) = Len(s) - 2
        /\ Continues(SubSeq(s, 2 + 1, Len(s)), w, 0 + 2)
    <3>1. w \in Seq(Unit) /\ s \in Seq(Unit) /\ 0 \in Nat
      BY <1>1
    <3>2. PICK k \in 0 .. Len(s), m \in Nat : k = 2 /\ m = 0
      BY <2>4
    <3>3. Continues(s, w, m)
      BY <1>2, <3>2
    <3>4. /\ SubSeq(s, k + 1, Len(s)) \in Seq(Unit) /\ Len(SubSeq(s, k + 1, Len(s))) = Len(s) - k
          /\ Continues(SubSeq(s, k + 1, Len(s)), w, m + k)
      BY ONLY <3>1, <3>3, PartCut
    <3>. QED
      BY <3>2, <3>4
  <2>. QED
    BY <2>1, <2>3, <2>4, <2>5
<1>6. ASSUME ~HasHead(s) PROVE Len(s) <= 1
  <2>1. 2 \notin 1 .. Len(s)
    BY <1>3, <1>4, <1>6 DEF HasHead
  <2>. QED
    BY <1>3, <2>1
<1>. QED
  BY <1>5, <1>6 DEF w

(* Some of what has arrived is read. *)
LEMMA ReadInv ==
  ASSUME HttpInv, NEW c \in Conns, NEW n \in 1 .. MaxBody + 2, Read(c, n)
  PROVE  HttpInv'
<1>1. /\ HttpTypeOK /\ stream[c] \in Seq(Unit) /\ rbuf[c] \in Seq(Unit)
      /\ pc[c] = "read" /\ n \in 1 .. Len(stream[c]) /\ Len(stream[c]) \in Nat
      /\ UNCHANGED <<asked, answers>>
  BY DEF HttpInv, HttpTypeOK, Read
<1>2. stream[c] # <<>>
  BY <1>1
<1>3. PICK q \in Requests, r \in Nat :
        /\ q = Request(c) /\ r = Len(asked[c]) /\ r = Len(answers[c]) + 1
        /\ Units(r, q) \in Seq(Unit) /\ Planned(q) \in Seq(Job)
        /\ Receiving(c, Units(r, q))
  BY <1>1, <1>2, BusyFacts
<1>4. PICK w \in Seq(Unit) : w = Units(r, q)
  BY <1>3
<1>5. PICK p \in Seq(Job) : p = Planned(q)
  BY <1>3
<1>6. PICK front \in Seq(Unit), rest \in Seq(Unit) :
        /\ front = SubSeq(stream[c], 1, n) /\ rest = SubSeq(stream[c], n + 1, Len(stream[c]))
        /\ Len(front) = n /\ Continues(front, w, Len(rbuf[c]))
        /\ Continues(rest, w, Len(rbuf[c]) + n)
  <2>1. Continues(stream[c], w, Len(rbuf[c])) /\ Len(rbuf[c]) \in Nat /\ n \in 0 .. Len(stream[c])
    BY <1>1, <1>3, <1>4 DEF Receiving
  <2>2. /\ SubSeq(stream[c], 1, n) \in Seq(Unit) /\ Len(SubSeq(stream[c], 1, n)) = n
        /\ Continues(SubSeq(stream[c], 1, n), w, Len(rbuf[c]))
        /\ SubSeq(stream[c], n + 1, Len(stream[c])) \in Seq(Unit)
        /\ Continues(SubSeq(stream[c], n + 1, Len(stream[c])), w, Len(rbuf[c]) + n)
    <3>1. stream[c] \in Seq(Unit) /\ w \in Seq(Unit)
      BY <1>1
    <3>. QED
      BY ONLY <2>1, <3>1, PartCut
  <2>. QED
    BY <2>2
<1>7. PICK units \in Seq(Unit) :
        /\ units = rbuf[c] \o front /\ Len(units) = Len(rbuf[c]) + n /\ Len(units) \in Nat
        /\ Continues(units, w, 0) /\ Continues(rest, w, Len(units))
  <2>1. Continues(rbuf[c], w, 0)
    BY <1>1, <1>3, <1>4 DEF Receiving
  <2>2. Continues(front, w, 0 + Len(rbuf[c]))
    <3>1. 0 + Len(rbuf[c]) = Len(rbuf[c])
      BY <1>1
    <3>. QED
      BY <1>6, <3>1
  <2>3. /\ rbuf[c] \o front \in Seq(Unit) /\ Len(rbuf[c] \o front) = Len(rbuf[c]) + Len(front)
        /\ Continues(rbuf[c] \o front, w, 0)
    BY <1>1, <2>1, <2>2, PartsJoined
  <2>4. Len(rbuf[c] \o front) \in Nat
    BY <2>3
  <2>. QED
    BY <1>6, <2>3, <2>4
<1>8. /\ stream' = [stream EXCEPT ![c] = rest]
      /\ IF HasHead(units)
           THEN Parse(c, units) /\ rbuf' = [rbuf EXCEPT ![c] = <<>>]
           ELSE rbuf' = [rbuf EXCEPT ![c] = units] /\ UNCHANGED <<pc, body, jobs, ran>>
  BY <1>6, <1>7 DEF Read, Set
<1>9. /\ stream' \in [Conns -> Seq(Unit)] /\ stream'[c] = rest
      /\ \A d \in Conns \ {c} : stream'[d] = stream[d]
  BY <1>1, <1>8 DEF HttpTypeOK
<1>10. /\ Request(c)' = q /\ Len(asked'[c]) = r /\ Len(answers'[c]) + 1 = r
       /\ Units(Len(asked'[c]), Request(c)') = w /\ Planned(Request(c)') = p
  <2>1. Request(c)' = q /\ Len(asked'[c]) = r /\ Len(answers'[c]) + 1 = r
    BY <1>1, <1>3 DEF Request
  <2>. QED
    BY <1>4, <1>5, <2>1
<1>11. Answered(c)'
  BY <1>1, AnsweredStays
<1>12. CASE ~HasHead(units)
  <2>1. /\ rbuf' \in [Conns -> Seq(Unit)] /\ rbuf'[c] = units
        /\ \A d \in Conns \ {c} : rbuf'[d] = rbuf[d]
        /\ UNCHANGED <<pc, body, jobs, ran>>
    BY <1>1, <1>8, <1>12 DEF HttpTypeOK
  <2>2. HttpTypeOK'
    BY <1>1, <1>9, <2>1 DEF HttpTypeOK
  <2>3. Len(units) <= 1
    BY <1>4, <1>7, <1>12, HeadFound
  <2>4. Receiving(c, w)'
    BY <1>1, <1>7, <1>9, <2>1, <2>3 DEF Receiving
  <2>5. Turn(c)'
    BY <1>1, <1>4, <1>10, <2>1, <2>4 DEF Turn, Busy
  <2>. QED
    BY <1>1, <1>9, <1>11, <2>1, <2>2, <2>5, ConnectionStep
<1>13. CASE HasHead(units)
  <2>1. PICK got \in Seq(Unit) :
          got = BodyOf(units) /\ Len(got) = Len(units) - 2 /\ Len(got) \in Nat /\ Continues(got, w, 2)
    <3>1. BodyOf(units) \in Seq(Unit) /\ Len(BodyOf(units)) = Len(units) - 2
          /\ Continues(BodyOf(units), w, 2)
      <4>1. Continues(units, Units(r, q), 0) /\ HasHead(units)
        BY <1>4, <1>7, <1>13
      <4>2. /\ BodyOf(units) \in Seq(Unit) /\ Len(BodyOf(units)) = Len(units) - 2
            /\ Continues(BodyOf(units), Units(r, q), 2)
        BY <4>1, HeadFound
      <4>. QED
        BY <1>4, <4>2
    <3>2. Len(BodyOf(units)) \in Nat
      BY <3>1
    <3>. QED
      BY <3>1, <3>2
  <2>2. q.body \in Nat /\ Len(w) = 2 + q.body
    BY <1>4, UnitsHold
  <2>3. Len(got) <= q.body
    BY <2>1, <2>2 DEF Continues
  <2>4. /\ Parse(c, units) /\ rbuf' \in [Conns -> Seq(Unit)] /\ rbuf'[c] = <<>>
        /\ \A d \in Conns \ {c} : rbuf'[d] = rbuf[d]
    <3>1. <<>> \in Seq(Unit)
      OBVIOUS
    <3>. QED
      BY <1>1, <1>8, <1>13, <3>1 DEF HttpTypeOK
  <2>5. CASE q.kind = "bad"
    <3>1. pc' = [pc EXCEPT ![c] = "write"] /\ UNCHANGED <<body, jobs, ran>>
      BY <1>3, <2>4, <2>5 DEF Parse, Set
    <3>2. /\ pc' \in [Conns -> {"read", "body", "next", "run", "write", "closed"}]
          /\ pc'[c] = "write" /\ \A d \in Conns \ {c} : pc'[d] = pc[d]
      BY <1>1, <3>1 DEF HttpTypeOK
    <3>3. HttpTypeOK'
      BY <1>1, <1>9, <2>4, <3>1, <3>2 DEF HttpTypeOK
    <3>4. Turn(c)'
      BY <1>10, <2>5, <3>2 DEF Turn, Busy
    <3>. QED
      BY <1>1, <1>9, <1>11, <2>4, <3>1, <3>2, <3>3, <3>4, ConnectionStep
  <2>6. CASE q.kind # "bad"
    <3>1. SubSeq(got, 1, IF q.body < Len(got) THEN q.body ELSE Len(got)) = got
      <4>1. (IF q.body < Len(got) THEN q.body ELSE Len(got)) = Len(got)
        BY <2>1, <2>2, <2>3
      <4>2. SubSeq(got, 1, Len(got)) = got
        OBVIOUS
      <4>. QED
        BY <4>1, <4>2
    <3>2. /\ pc' = [pc EXCEPT ![c] = IF q.body > Len(got) THEN "body" ELSE "next"]
          /\ body' = [body EXCEPT ![c] = got]
          /\ jobs' = [jobs EXCEPT ![c] = p]
          /\ ran' = [ran EXCEPT ![c] = <<>>]
      BY <1>3, <1>5, <2>1, <2>4, <2>6, <3>1 DEF Parse, Set
    <3>3. /\ pc' \in [Conns -> {"read", "body", "next", "run", "write", "closed"}]
          /\ pc'[c] = (IF q.body > Len(got) THEN "body" ELSE "next")
          /\ \A d \in Conns \ {c} : pc'[d] = pc[d]
      BY <1>1, <3>2 DEF HttpTypeOK
    <3>4. /\ body' \in [Conns -> Seq(Unit)] /\ body'[c] = got
          /\ \A d \in Conns \ {c} : body'[d] = body[d]
      BY <1>1, <3>2 DEF HttpTypeOK
    <3>5. /\ jobs' \in [Conns -> Seq(Job)] /\ jobs'[c] = p
          /\ \A d \in Conns \ {c} : jobs'[d] = jobs[d]
      BY <1>1, <3>2 DEF HttpTypeOK
    <3>6. /\ ran' \in [Conns -> Seq(Job)] /\ ran'[c] = <<>>
          /\ \A d \in Conns \ {c} : ran'[d] = ran[d]
      <4>1. <<>> \in Seq(Job)
        OBVIOUS
      <4>. QED
        BY <1>1, <3>2, <4>1 DEF HttpTypeOK
    <3>7. HttpTypeOK'
      BY <1>1, <1>9, <2>4, <3>3, <3>4, <3>5, <3>6 DEF HttpTypeOK
    <3>8. Continues(rest, w, 2 + Len(got))
      <4>1. 2 + Len(got) = Len(units)
        BY <1>7, <2>1
      <4>. QED
        BY <1>7, <4>1
    <3>9. ASSUME q.body > Len(got) PROVE Turn(c)'
      <4>1. pc'[c] = "body"
        BY <3>3, <3>9
      <4>2. Receiving(c, w)'
        BY <1>9, <2>1, <2>4, <3>4, <3>8, <4>1 DEF Receiving
      <4>. QED
        BY <1>10, <2>6, <3>5, <3>6, <4>1, <4>2 DEF Turn, Busy
    <3>10. ASSUME ~(q.body > Len(got)) PROVE Turn(c)'
      <4>1. pc'[c] = "next" /\ 2 + Len(got) = Len(w)
        BY <2>1, <2>2, <2>3, <3>3, <3>10
      <4>2. rest = <<>>
        <5>1. 2 + Len(got) \in Nat /\ 2 + Len(got) >= Len(w)
          BY <2>1, <4>1
        <5>. QED
          BY <3>8, <5>1, NoPart
      <4>3. /\ Len(<<>>) = 0 /\ Continues(<<>>, p, 0) /\ Continues(p, p, 0)
            /\ Len(p) \in Nat /\ 0 + Len(p) = Len(p)
        <5>1. Len(p) \in Nat /\ 0 \in 0 .. Len(p) /\ Len(p) + 0 <= Len(p)
              /\ 0 + Len(p) = Len(p) /\ \A u \in 1 .. Len(p) : 0 + u = u
          OBVIOUS
        <5>. QED
          BY <5>1, EmptyPart DEF Continues
      <4>4. Running(c, w, p)'
        BY <1>9, <2>1, <2>4, <3>4, <3>5, <3>6, <4>1, <4>2, <4>3 DEF Running
      <4>. QED
        BY <1>10, <2>6, <4>1, <4>4 DEF Turn, Busy
    <3>11. Turn(c)'
      BY <3>9, <3>10
    <3>. QED
      BY <1>1, <1>9, <1>11, <2>4, <3>3, <3>4, <3>5, <3>6, <3>7, <3>11, ConnectionStep
  <2>. QED
    BY <2>5, <2>6
<1>. QED
  BY <1>12, <1>13

(* The rest of the body is read. *)
LEMMA ReadBodyInv ==
  ASSUME HttpInv, NEW c \in Conns, ReadBody(c)
  PROVE  HttpInv'
<1>1. /\ HttpTypeOK /\ stream[c] \in Seq(Unit) /\ body[c] \in Seq(Unit)
      /\ pc[c] = "body" /\ Len(stream[c]) \in Nat /\ Len(body[c]) \in Nat
      /\ UNCHANGED <<asked, rbuf, jobs, ran, answers>>
  BY DEF HttpInv, HttpTypeOK, ReadBody
<1>2. PICK q \in Requests, r \in Nat :
        /\ q = Request(c) /\ r = Len(asked[c]) /\ r = Len(answers[c]) + 1
        /\ Units(r, q) \in Seq(Unit) /\ Planned(q) \in Seq(Job)
        /\ Receiving(c, Units(r, q))
        /\ q.kind # "bad" /\ jobs[c] = Planned(q) /\ ran[c] = <<>>
  BY <1>1, BusyFacts
<1>3. PICK w \in Seq(Unit) : w = Units(r, q)
  BY <1>2
<1>4. PICK p \in Seq(Job) : p = Planned(q)
  BY <1>2
<1>5. q.body \in Nat /\ Len(w) = 2 + q.body
  BY <1>3, UnitsHold
<1>6. /\ rbuf[c] = <<>> /\ Continues(body[c], w, 2)
      /\ Continues(stream[c], w, 2 + Len(body[c]))
  BY <1>1, <1>2, <1>3 DEF Receiving
<1>7. /\ Len(stream[c]) = q.body - Len(body[c])
      /\ body' = [body EXCEPT ![c] = body[c] \o SubSeq(stream[c], 1, q.body - Len(body[c]))]
      /\ stream' = [stream EXCEPT ![c] =
                      SubSeq(stream[c], q.body - Len(body[c]) + 1, Len(stream[c]))]
      /\ pc' = [pc EXCEPT ![c] = "next"]
  <2>1. /\ Len(stream[c]) >= q.body - Len(body[c])
        /\ body' = [body EXCEPT ![c] = body[c] \o SubSeq(stream[c], 1, q.body - Len(body[c]))]
        /\ stream' = [stream EXCEPT ![c] =
                        SubSeq(stream[c], q.body - Len(body[c]) + 1, Len(stream[c]))]
        /\ pc' = [pc EXCEPT ![c] = "next"]
    BY <1>2 DEF ReadBody, Set
  <2>2. Len(stream[c]) + (2 + Len(body[c])) <= 2 + q.body
    BY <1>5, <1>6 DEF Continues
  <2>3. Len(stream[c]) \in Nat /\ Len(body[c]) \in Nat /\ q.body \in Nat
    BY <1>1, <1>5
  <2>4. Len(stream[c]) >= q.body - Len(body[c])
    BY <2>1
  <2>5. Len(stream[c]) = q.body - Len(body[c])
    <3>1. PICK x \in Nat, y \in Nat, z \in Nat :
            x = Len(stream[c]) /\ y = Len(body[c]) /\ z = q.body
      BY <2>3
    <3>2. x + (2 + y) <= 2 + z /\ x >= z - y
      BY <2>2, <2>4, <3>1
    <3>3. x = z - y
      BY ONLY <3>2
    <3>. QED
      BY <3>1, <3>3
  <2>. QED
    BY <2>1, <2>5
<1>8. /\ SubSeq(stream[c], 1, Len(stream[c])) = stream[c]
      /\ SubSeq(stream[c], Len(stream[c]) + 1, Len(stream[c])) = <<>>
  BY <1>1
<1>9. PICK whole \in Seq(Unit) :
        /\ whole = body[c] \o stream[c]
        /\ Len(whole) = Len(body[c]) + Len(stream[c]) /\ Continues(whole, w, 2)
  <2>1. body[c] \in Seq(Unit) /\ stream[c] \in Seq(Unit) /\ w \in Seq(Unit) /\ 2 \in Nat
    BY <1>1
  <2>2. /\ body[c] \o stream[c] \in Seq(Unit)
        /\ Len(body[c] \o stream[c]) = Len(body[c]) + Len(stream[c])
        /\ Continues(body[c] \o stream[c], w, 2)
    BY ONLY <1>6, <2>1, PartsJoined
  <2>. QED
    BY <2>2
<1>10. 2 + Len(whole) = Len(w)
  <2>1. PICK x \in Nat, y \in Nat, z \in Nat :
          x = Len(stream[c]) /\ y = Len(body[c]) /\ z = q.body
    BY <1>1, <1>5
  <2>2. x = z - y /\ Len(whole) = y + x /\ Len(w) = 2 + z
    BY <1>5, <1>7, <1>9, <2>1
  <2>3. 2 + (y + x) = 2 + z
    BY <2>2
  <2>. QED
    BY <2>2, <2>3
<1>11. body' = [body EXCEPT ![c] = whole] /\ stream' = [stream EXCEPT ![c] = <<>>]
  BY <1>7, <1>8, <1>9
<1>12. /\ body' \in [Conns -> Seq(Unit)] /\ body'[c] = whole
       /\ \A d \in Conns \ {c} : body'[d] = body[d]
  BY <1>1, <1>11 DEF HttpTypeOK
<1>13. /\ stream' \in [Conns -> Seq(Unit)] /\ stream'[c] = <<>>
       /\ \A d \in Conns \ {c} : stream'[d] = stream[d]
  <2>1. <<>> \in Seq(Unit)
    OBVIOUS
  <2>. QED
    BY <1>1, <1>11, <2>1 DEF HttpTypeOK
<1>14. /\ pc' \in [Conns -> {"read", "body", "next", "run", "write", "closed"}]
       /\ pc'[c] = "next" /\ \A d \in Conns \ {c} : pc'[d] = pc[d]
  BY <1>1, <1>7 DEF HttpTypeOK
<1>15. HttpTypeOK'
  BY <1>1, <1>12, <1>13, <1>14 DEF HttpTypeOK
<1>16. /\ Request(c)' = q /\ Len(asked'[c]) = r /\ Len(answers'[c]) + 1 = r
       /\ Units(Len(asked'[c]), Request(c)') = w /\ Planned(Request(c)') = p
  <2>1. Request(c)' = q /\ Len(asked'[c]) = r /\ Len(answers'[c]) + 1 = r
    BY <1>1, <1>2 DEF Request
  <2>. QED
    BY <1>3, <1>4, <2>1
<1>17. Running(c, w, p)'
  <2>1. /\ Len(<<>>) = 0 /\ Continues(<<>>, p, 0) /\ Continues(p, p, 0)
        /\ Len(p) \in Nat /\ 0 + Len(p) = Len(p)
    <3>1. Len(p) \in Nat /\ 0 \in 0 .. Len(p) /\ Len(p) + 0 <= Len(p)
          /\ 0 + Len(p) = Len(p) /\ \A u \in 1 .. Len(p) : 0 + u = u
      OBVIOUS
    <3>. QED
      BY <3>1, EmptyPart DEF Continues
  <2>. QED
    BY <1>1, <1>2, <1>4, <1>6, <1>9, <1>10, <1>12, <1>13, <1>14, <2>1 DEF Running
<1>18. Turn(c)'
  BY <1>2, <1>14, <1>16, <1>17 DEF Turn, Busy
<1>. QED
  BY <1>1, <1>12, <1>13, <1>14, <1>15, <1>18, AnsweredStays, ConnectionStep

(* A job is started. *)
LEMMA TakeInv ==
  ASSUME HttpInv, NEW c \in Conns, Take(c)
  PROVE  HttpInv'
<1>1. /\ HttpTypeOK /\ pc[c] = "next" /\ jobs[c] # <<>>
      /\ pc' = [pc EXCEPT ![c] = "run"]
      /\ UNCHANGED <<asked, stream, rbuf, body, jobs, ran, answers>>
  BY DEF HttpInv, Take, Set, client
<1>2. PICK q \in Requests, r \in Nat :
        /\ q = Request(c) /\ r = Len(asked[c]) /\ r = Len(answers[c]) + 1
        /\ q.kind # "bad" /\ Running(c, Units(r, q), Planned(q))
  <2>1. ~\E w : Receiving(c, w)
    BY <1>1 DEF Receiving
  <2>. QED
    BY <1>1, <2>1, BusyFacts
<1>3. PICK w : w = Units(r, q)
  OBVIOUS
<1>4. PICK p : p = Planned(q)
  OBVIOUS
<1>5. /\ pc' \in [Conns -> {"read", "body", "next", "run", "write", "closed"}]
      /\ pc'[c] = "run" /\ \A d \in Conns \ {c} : pc'[d] = pc[d]
  BY <1>1 DEF HttpTypeOK
<1>6. HttpTypeOK'
  BY <1>1, <1>5 DEF HttpTypeOK
<1>7. /\ Request(c)' = q /\ Len(asked'[c]) = Len(answers'[c]) + 1
      /\ Units(Len(asked'[c]), Request(c)') = w /\ Planned(Request(c)') = p
  <2>1. Request(c)' = q /\ Len(asked'[c]) = r /\ Len(answers'[c]) + 1 = r
    BY <1>1, <1>2 DEF Request
  <2>. QED
    BY <1>3, <1>4, <2>1
<1>8. Running(c, w, p)'
  BY <1>1, <1>2, <1>3, <1>4 DEF Running
<1>9. Turn(c)'
  BY <1>2, <1>5, <1>7, <1>8 DEF Turn, Busy
<1>. QED
  BY <1>1, <1>5, <1>6, <1>9, AnsweredStays, ConnectionStep

(* The job that has run is the next one of the plan. *)
LEMMA ReturnInv ==
  ASSUME HttpInv, NEW c \in Conns, Return(c)
  PROVE  HttpInv'
<1>1. /\ HttpTypeOK /\ jobs[c] \in Seq(Job) /\ ran[c] \in Seq(Job)
      /\ pc[c] = "run" /\ pc' = [pc EXCEPT ![c] = "next"]
      /\ jobs' = [jobs EXCEPT ![c] = Tail(jobs[c])]
      /\ ran' = [ran EXCEPT ![c] = Append(ran[c], Head(jobs[c]))]
      /\ UNCHANGED <<asked, stream, rbuf, body, answers>>
  BY DEF HttpInv, HttpTypeOK, Return, Set, client
<1>2. PICK q \in Requests, r \in Nat :
        /\ q = Request(c) /\ r = Len(asked[c]) /\ r = Len(answers[c]) + 1
        /\ Planned(q) \in Seq(Job)
        /\ q.kind # "bad" /\ Running(c, Units(r, q), Planned(q))
  <2>1. ~\E w : Receiving(c, w)
    BY <1>1 DEF Receiving
  <2>. QED
    BY <1>1, <2>1, BusyFacts
<1>3. PICK w : w = Units(r, q)
  OBVIOUS
<1>4. PICK p \in Seq(Job) : p = Planned(q)
  BY <1>2
<1>5. /\ jobs[c] # <<>> /\ Continues(ran[c], p, 0) /\ Continues(jobs[c], p, Len(ran[c]))
      /\ Len(ran[c]) + Len(jobs[c]) = Len(p)
  BY <1>1, <1>2, <1>4 DEF Running
<1>6. PICK a \in Seq(Job), b \in Seq(Job) :
        /\ a = Append(ran[c], Head(jobs[c])) /\ b = Tail(jobs[c])
        /\ Len(a) = Len(ran[c]) + 1 /\ Len(b) = Len(jobs[c]) - 1
        /\ Continues(a, p, 0) /\ Continues(b, p, Len(a)) /\ Len(a) + Len(b) = Len(p)
  <2>1. PICK s \in Seq(Job), t \in Seq(Job) : s = ran[c] /\ t = jobs[c]
    BY <1>1
  <2>2. /\ Len(s) \in Nat /\ Len(t) \in Nat \ {0} /\ Len(p) \in Nat
        /\ Head(t) = t[1] /\ Head(t) \in Job
        /\ Tail(t) \in Seq(Job) /\ Len(Tail(t)) = Len(t) - 1
        /\ \A x \in 1 .. Len(t) - 1 : Tail(t)[x] = t[x + 1]
    BY <1>5, <2>1
  <2>3. /\ Append(s, Head(t)) \in Seq(Job) /\ Len(Append(s, Head(t))) = Len(s) + 1
        /\ \A x \in 1 .. Len(s) : Append(s, Head(t))[x] = s[x]
        /\ Append(s, Head(t))[Len(s) + 1] = Head(t)
    BY <2>2
  <2>4. /\ Len(s) + Len(t) = Len(p)
        /\ \A x \in 1 .. Len(s) : s[x] = p[x]
        /\ \A x \in 1 .. Len(t) : t[x] = p[Len(s) + x]
    <3>1. \A x \in 1 .. Len(s) : 0 + x = x
      BY <2>2
    <3>. QED
      BY <1>5, <2>1, <3>1 DEF Continues
  <2>5. Continues(Append(s, Head(t)), p, 0)
    <3>1. Len(s) + 1 <= Len(p)
      BY <2>2, <2>4
    <3>2. ASSUME NEW x \in 1 .. Len(s) + 1 PROVE Append(s, Head(t))[x] = p[0 + x]
      <4>1. 0 + x = x /\ 1 \in 1 .. Len(t) /\ (x \in 1 .. Len(s) \/ x = Len(s) + 1)
        BY <2>2
      <4>. QED
        BY <2>2, <2>3, <2>4, <4>1
    <3>. QED
      BY <2>2, <2>3, <3>1, <3>2 DEF Continues
  <2>6. Continues(Tail(t), p, Len(s) + 1)
    <3>1. (Len(t) - 1) + (Len(s) + 1) <= Len(p)
      BY <2>2, <2>4
    <3>2. ASSUME NEW x \in 1 .. Len(t) - 1 PROVE Tail(t)[x] = p[(Len(s) + 1) + x]
      <4>1. x + 1 \in 1 .. Len(t) /\ (Len(s) + 1) + x = Len(s) + (x + 1)
        BY <2>2
      <4>. QED
        BY <2>2, <2>4, <4>1
    <3>. QED
      BY <2>2, <3>1, <3>2 DEF Continues
  <2>7. (Len(s) + 1) + (Len(t) - 1) = Len(p)
    <3>1. Len(s) \in Nat /\ Len(t) \in Nat /\ Len(s) + Len(t) = Len(p)
      BY <2>2, <2>4
    <3>. QED
      BY ONLY <3>1
  <2>. QED
    BY <2>1, <2>2, <2>3, <2>5, <2>6, <2>7
<1>7. /\ pc' \in [Conns -> {"read", "body", "next", "run", "write", "closed"}]
      /\ pc'[c] = "next" /\ \A d \in Conns \ {c} : pc'[d] = pc[d]
  BY <1>1 DEF HttpTypeOK
<1>8. /\ jobs' \in [Conns -> Seq(Job)] /\ jobs'[c] = b
      /\ \A d \in Conns \ {c} : jobs'[d] = jobs[d]
  BY <1>1, <1>6 DEF HttpTypeOK
<1>9. /\ ran' \in [Conns -> Seq(Job)] /\ ran'[c] = a
      /\ \A d \in Conns \ {c} : ran'[d] = ran[d]
  BY <1>1, <1>6 DEF HttpTypeOK
<1>10. HttpTypeOK'
  BY <1>1, <1>7, <1>8, <1>9 DEF HttpTypeOK
<1>11. /\ Request(c)' = q /\ Len(asked'[c]) = Len(answers'[c]) + 1
       /\ Units(Len(asked'[c]), Request(c)') = w /\ Planned(Request(c)') = p
  <2>1. Request(c)' = q /\ Len(asked'[c]) = r /\ Len(answers'[c]) + 1 = r
    BY <1>1, <1>2 DEF Request
  <2>. QED
    BY <1>3, <1>4, <2>1
<1>12. Running(c, w, p)'
  BY <1>1, <1>2, <1>3, <1>4, <1>6, <1>7, <1>8, <1>9 DEF Running
<1>13. Turn(c)'
  BY <1>2, <1>7, <1>11, <1>12 DEF Turn, Busy
<1>. QED
  BY <1>1, <1>7, <1>8, <1>9, <1>10, <1>13, AnsweredStays, ConnectionStep

(* The answer is written. *)
LEMMA WriteInv ==
  ASSUME HttpInv, NEW c \in Conns, Write(c)
  PROVE  HttpInv'
<1>1. /\ HttpTypeOK /\ body[c] \in Seq(Unit) /\ ran[c] \in Seq(Job)
      /\ answers[c] \in Seq(Reply) /\ Answered(c)
      /\ pc[c] = "write" \/ (pc[c] = "next" /\ jobs[c] = <<>>)
      /\ UNCHANGED <<asked, stream, rbuf, jobs>>
  BY DEF HttpInv, HttpTypeOK, Write, client
<1>2. PICK q \in Requests, r \in Nat :
        /\ q = Request(c) /\ r = Len(asked[c]) /\ r = Len(answers[c]) + 1
        /\ r \in DOMAIN asked[c] /\ q = asked[c][r]
        /\ Units(r, q) \in Seq(Unit) /\ Planned(q) \in Seq(Job)
        /\ \/ pc[c] = "next" /\ q.kind # "bad" /\ Running(c, Units(r, q), Planned(q))
           \/ pc[c] = "write" /\ q.kind = "bad"
  <2>1. ~\E w : Receiving(c, w)
    BY <1>1 DEF Receiving
  <2>. QED
    BY <1>1, <2>1, BusyFacts
<1>3. PICK a \in Reply : a = [body |-> body[c], ran |-> ran[c]]
  BY <1>1 DEF Reply
<1>4. /\ answers' = [answers EXCEPT ![c] = Append(answers[c], a)]
      /\ pc' = [pc EXCEPT ![c] = IF q.keep /\ q.kind # "bad" THEN "read" ELSE "closed"]
      /\ body' = [body EXCEPT ![c] = <<>>] /\ ran' = [ran EXCEPT ![c] = <<>>]
  BY <1>2, <1>3 DEF Write, Set
<1>5. /\ Append(answers[c], a) \in Seq(Reply) /\ Len(Append(answers[c], a)) = r
      /\ DOMAIN Append(answers[c], a) = 1 .. r
      /\ \A x \in 1 .. Len(answers[c]) : Append(answers[c], a)[x] = answers[c][x]
      /\ Append(answers[c], a)[r] = a
      /\ \A x \in 1 .. r : x \in DOMAIN answers[c] \/ x = r
      /\ DOMAIN answers[c] = 1 .. Len(answers[c])
  BY <1>1, <1>2
<1>6. /\ answers' \in [Conns -> Seq(Reply)] /\ answers'[c] = Append(answers[c], a)
      /\ \A d \in Conns \ {c} : answers'[d] = answers[d]
  BY <1>1, <1>4, <1>5 DEF HttpTypeOK
<1>7. /\ body' \in [Conns -> Seq(Unit)] /\ body'[c] = <<>>
      /\ \A d \in Conns \ {c} : body'[d] = body[d]
      /\ ran' \in [Conns -> Seq(Job)] /\ ran'[c] = <<>>
      /\ \A d \in Conns \ {c} : ran'[d] = ran[d]
  <2>1. <<>> \in Seq(Unit) /\ <<>> \in Seq(Job)
    OBVIOUS
  <2>. QED
    BY <1>1, <1>4, <2>1 DEF HttpTypeOK
<1>8. /\ pc' \in [Conns -> {"read", "body", "next", "run", "write", "closed"}]
      /\ pc'[c] = (IF q.keep /\ q.kind # "bad" THEN "read" ELSE "closed")
      /\ \A d \in Conns \ {c} : pc'[d] = pc[d]
  BY <1>1, <1>4 DEF HttpTypeOK
<1>9. HttpTypeOK'
  BY <1>1, <1>6, <1>7, <1>8 DEF HttpTypeOK
<1>10. ASSUME q.kind # "bad"
       PROVE  /\ a.body = [b \in 1 .. q.body |-> <<r, "body", b>>]
              /\ a.ran = Planned(q)
  <2>1. Running(c, Units(r, q), Planned(q)) /\ jobs[c] = <<>>
    BY <1>1, <1>2, <1>10
  <2>2. /\ q.body \in Nat /\ Len(Units(r, q)) = 2 + q.body
        /\ \A b \in 1 .. q.body : Units(r, q)[2 + b] = <<r, "body", b>>
    BY UnitsHold
  <2>3. Len(body[c]) = q.body /\ \A b \in 1 .. q.body : body[c][b] = <<r, "body", b>>
    <3>1. Continues(body[c], Units(r, q), 2) /\ 2 + Len(body[c]) = Len(Units(r, q))
      BY <2>1 DEF Running
    <3>2. Len(body[c]) = q.body
      <4>1. Len(body[c]) \in Nat
        BY <1>1
      <4>. QED
        BY <2>2, <3>1, <4>1
    <3>. QED
      BY <2>2, <3>1, <3>2 DEF Continues
  <2>4. body[c] = [b \in 1 .. q.body |-> <<r, "body", b>>]
    <3>1. body[c] = [b \in 1 .. Len(body[c]) |-> body[c][b]]
      BY <1>1
    <3>. QED
      BY <2>3, <3>1
  <2>5. ran[c] = Planned(q)
    <3>1. Continues(ran[c], Planned(q), 0) /\ Len(ran[c]) + 0 = Len(Planned(q))
      BY <2>1 DEF Running
    <3>2. Len(ran[c]) = Len(Planned(q))
      BY <1>1, <3>1
    <3>. QED
      BY <1>1, <1>2, <3>1, <3>2, WholePart
  <2>. QED
    BY <1>3, <2>4, <2>5
<1>11. Answered(c)'
  <2>1. ASSUME NEW x \in 1 .. r
        PROVE  Whole(x, asked[c][x], answers'[c][x])
    <3>1. CASE x = r
      BY <1>2, <1>5, <1>6, <1>10, <2>1, <3>1 DEF Whole
    <3>2. CASE x # r
      <4>1. x \in DOMAIN answers[c] /\ answers'[c][x] = answers[c][x]
        BY <1>5, <1>6, <3>2
      <4>. QED
        BY <1>1, <2>1, <4>1 DEF Answered
    <3>. QED
      BY <3>1, <3>2
  <2>2. DOMAIN answers'[c] = 1 .. r /\ asked'[c] = asked[c]
    BY <1>1, <1>5, <1>6
  <2>. QED
    BY <2>1, <2>2 DEF Answered
<1>12. Turn(c)'
  <2>1. Len(asked'[c]) = Len(answers'[c])
    BY <1>1, <1>2, <1>5, <1>6
  <2>2. Idle(c)'
    BY <1>1, <1>2, <1>7, <1>8 DEF Idle, Running
  <2>. QED
    BY <2>1, <2>2 DEF Turn
<1>. QED
  BY <1>1, <1>6, <1>7, <1>8, <1>9, <1>11, <1>12, ConnectionStep

----------------------------------------------------------------------------
(* No request has been sent. *)
LEMMA HttpStart == Init => HttpInv
<1> SUFFICES ASSUME Init PROVE HttpInv
  OBVIOUS
<1>1. /\ <<>> \in Seq(Requests) /\ <<>> \in Seq(Unit) /\ <<>> \in Seq(Job) /\ <<>> \in Seq(Reply)
      /\ DOMAIN <<>> = {}
  OBVIOUS
<1>2. HttpTypeOK
  BY <1>1 DEF Init, HttpTypeOK
<1>3. ASSUME NEW c \in Conns PROVE Turn(c) /\ Answered(c)
  <2>1. Answered(c)
    BY <1>1 DEF Init, Answered
  <2>2. Idle(c) /\ Len(asked[c]) = Len(answers[c])
    BY DEF Init, Idle
  <2>. QED
    BY <2>1, <2>2 DEF Turn
<1>. QED
  BY <1>2, <1>3 DEF HttpInv

(* One case per action. *)
LEMMA HttpNext == HttpInv /\ [Next]_vars => HttpInv'
<1> SUFFICES ASSUME HttpInv, [Next]_vars PROVE HttpInv'
  OBVIOUS
<1>1. ASSUME UNCHANGED <<asked, stream, conn, answers>> PROVE HttpInv'
  <2>1. UNCHANGED <<asked, stream, pc, rbuf, body, jobs, ran, answers>>
    BY <1>1 DEF conn
  <2>2. CASE Conns = {}
    BY <2>1, <2>2 DEF HttpInv, HttpTypeOK
  <2>3. ASSUME NEW c \in Conns PROVE HttpInv'
    <3>1. HttpTypeOK' /\ Turn(c) /\ Answered(c)
      BY <2>1 DEF HttpInv, HttpTypeOK
    <3>2. Turn(c)' /\ Answered(c)'
      BY <2>1, <3>1 DEF Turn, Answered, Idle, Busy, Receiving, Running, Request
    <3>. QED
      BY <2>1, <3>1, <3>2, ConnectionStep
  <2>. QED
    BY <2>2, <2>3
<1>2. CASE UNCHANGED vars
  BY <1>1, <1>2 DEF vars, client
<1>3. ASSUME NEW c \in Conns, ClientShuts(c) PROVE HttpInv'
  BY <1>1, <1>3 DEF ClientShuts
<1>4. ASSUME NEW c \in Conns, ReadEnd(c) \/ Panic(c) PROVE HttpInv'
  <2>1. /\ pc' = [pc EXCEPT ![c] = "closed"]
        /\ UNCHANGED <<asked, stream, rbuf, body, jobs, ran, answers>>
    BY <1>4 DEF ReadEnd, Panic, Set, client
  <2>. QED
    BY <2>1, EndsInv
<1>. QED
  BY <1>2, <1>3, <1>4, ClientSendsInv, ReadInv, ReadBodyInv, TakeInv, ReturnInv, WriteInv
  DEF Next, Serve

(* Every answer is the answer to the request of its place on the           *)
(* connection, made from its whole body and after every job it needs, in   *)
(* order (handle_connection_fast): for any number of connections, requests *)
(* and middleware, any bodies, and wherever the network cuts them.         *)
THEOREM AnswersAreWhole == Spec => []AnswersWhole
<1>1. HttpInv => AnswersWhole
  BY DEF HttpInv, Answered, Whole, AnswersWhole
<1>. QED
  BY <1>1, HttpStart, HttpNext, PTL DEF Spec

----------------------------------------------------------------------------
(* The routes.  Both trees are sets of nodes made from the same patterns;  *)
(* RoutesInv says what is in them.  The search and the walk are recursive  *)
(* functions of the segments; what they compute is shown by induction over *)
(* the number of segments, in terms of a set of numbers.                   *)

(* Induction up to m, in terms of a set.                                   *)
LEMMA Climb ==
  ASSUME NEW m \in Nat, NEW A, 0 \in A, \A n \in 0 .. m : n < m /\ n \in A => n + 1 \in A
  PROVE  \A n \in 0 .. m : n \in A
<1> DEFINE T == {n \in 0 .. m : n \notin A}
<1>1. T \subseteq Nat
  OBVIOUS
<1>2. ASSUME T # {} PROVE FALSE
  <2>1. PICK x \in T : \A y \in T : ~ <<y, x>> \in OpToRel(<, Nat)
    BY ONLY <1>1, <1>2, WFMin, NatLessThanWellFounded
  <2>2. x \in 0 .. m /\ x \notin A
    BY ONLY <2>1
  <2>3. \A y \in T : ~ y < x
    BY ONLY <2>1, <1>1 DEF OpToRel
  <2>4. x # 0 /\ x \in Nat /\ x - 1 \in 0 .. m /\ x - 1 < m
    BY <2>2
  <2>5. x - 1 \in A
    BY <2>3, <2>4
  <2>6. (x - 1) + 1 \in A
    BY <2>4, <2>5
  <2> QED
    BY <2>2, <2>4, <2>6
<1> QED
  BY <1>2

(* g begins with b, and goes on by the step to D.                          *)
Follows(g, m, D, b, step) ==
  g \in [0 .. m -> D] /\ g[0] = b /\ \A k \in 1 .. m : g[k] = step[<<k, g[k - 1]>>]

(* There is a function of 0 .. m for any first value and any step: what a  *)
(* recursive definition over the segments of a path means.                 *)
LEMMA Recurs ==
  ASSUME NEW m \in Nat, NEW D, NEW b \in D, NEW step \in [(1 .. m) \X D -> D]
  PROVE  \E g : Follows(g, m, D, b, step)
<1> DEFINE Goes(g, n) == /\ g \in [0 .. n -> D] /\ g[0] = b
                         /\ \A k \in 1 .. n : g[k] = step[<<k, g[k - 1]>>]
<1> DEFINE A == {n \in 0 .. m : \E g : Goes(g, n)}
<1>1. 0 \in A
  <2>1. PICK g : g = [k \in 0 .. 0 |-> b]
    OBVIOUS
  <2>2. Goes(g, 0)
    BY <2>1
  <2> QED
    BY <2>2
<1>2. \A n \in 0 .. m : n < m /\ n \in A => n + 1 \in A
  <2> SUFFICES ASSUME NEW n \in 0 .. m, n < m, n \in A PROVE n + 1 \in A
    OBVIOUS
  <2>1. PICK g : Goes(g, n)
    OBVIOUS
  <2>2. n \in Nat /\ n + 1 \in 1 .. m /\ n + 1 \in 0 .. m
    OBVIOUS
  <2>3. g[n] \in D
    BY <2>1, <2>2
  <2>4. <<n + 1, g[n]>> \in (1 .. m) \X D
    BY <2>2, <2>3
  <2>5. PICK e \in D : e = step[<<n + 1, g[n]>>]
    BY ONLY <2>4, step \in [(1 .. m) \X D -> D]
  <2>6. PICK h : h = [k \in 0 .. n + 1 |-> IF k = n + 1 THEN e ELSE g[k]]
    OBVIOUS
  <2>7. h \in [0 .. n + 1 -> D] /\ h[0] = b
    BY <2>1, <2>2, <2>6
  <2>8. \A k \in 1 .. n + 1 : h[k] = step[<<k, h[k - 1]>>]
    <3> SUFFICES ASSUME NEW k \in 1 .. n + 1 PROVE h[k] = step[<<k, h[k - 1]>>]
      OBVIOUS
    <3>1. k - 1 \in 0 .. n /\ h[k - 1] = g[k - 1]
      BY ONLY <2>2, <2>6, k \in 1 .. n + 1
    <3>2. CASE k = n + 1
      <4>1. h[k] = e /\ k - 1 = n
        BY ONLY <2>2, <2>6, <3>2
      <4> QED
        BY ONLY <2>5, <3>1, <3>2, <4>1
    <3>3. CASE k # n + 1
      <4>1. k \in 1 .. n /\ h[k] = g[k]
        BY ONLY <2>2, <2>6, <3>3, k \in 1 .. n + 1
      <4>2. g[k] = step[<<k, g[k - 1]>>]
        BY ONLY <2>1, <4>1
      <4> QED
        BY ONLY <3>1, <4>1, <4>2
    <3> QED
      BY <3>2, <3>3
  <2>9. Goes(h, n + 1)
    BY <2>7, <2>8
  <2> QED
    BY <2>2, <2>9
<1> HIDE DEF A
<1>3. m \in A
  BY <1>1, <1>2, Climb
<1>4. PICK g : Goes(g, m)
  BY <1>3 DEF A
<1>5. Follows(g, m, D, b, step)
  BY <1>4 DEF Follows
<1> QED
  BY <1>5

----------------------------------------------------------------------------
(* Patterns, keys and nodes as sequences.                                  *)
PatSegs == Segs \cup Params
KeySegs == Segs \cup {Wild}
KeyOf(r) == Interpreted!Key(routes[r].pattern)
Begin(s, i) == SubSeq(s, 1, i)

(* The patterns and paths of a program are sequences.                      *)
LEMMA PatternIs ==
  ASSUME NEW p \in Interpreted!Patterns
  PROVE  p \in Seq(PatSegs)
<1>1. PICK m \in 0 .. MaxLen : p \in [1 .. m -> PatSegs]
  BY DEF Interpreted!Patterns, Interpreted!BoundedSeq, Interpreted!SeqOf, PatSegs
<1>2. m \in Nat
  BY RoutesAssumption
<1> QED
  BY ONLY <1>1, <1>2

(* A path is a sequence of literal segments.                               *)
LEMMA PathIs ==
  ASSUME NEW p, p \in Interpreted!Paths \/ p \in Compiled!Paths
  PROVE  p \in Seq(Segs)
<1>1. PICK m \in 0 .. MaxLen : p \in [1 .. m -> Segs]
  BY DEF Interpreted!Paths, Interpreted!BoundedSeq, Interpreted!SeqOf,
         Compiled!Paths, Compiled!BoundedSeq, Compiled!SeqOf
<1>2. m \in Nat
  BY RoutesAssumption
<1> QED
  BY ONLY <1>1, <1>2

(* The key of a pattern has Wild for its parameters.                       *)
LEMMA KeyIs ==
  ASSUME NEW p \in Seq(PatSegs)
  PROVE  /\ Interpreted!Key(p) \in Seq(KeySegs)
         /\ Len(Interpreted!Key(p)) = Len(p)
         /\ \A i \in 1 .. Len(p) :
              /\ p[i] \in Params => Interpreted!Key(p)[i] = Wild
              /\ p[i] \notin Params => Interpreted!Key(p)[i] = p[i] /\ p[i] # Wild /\ p[i] \in Segs
<1> DEFINE k == Interpreted!Key(p)
<1>1. PICK n \in Nat : n = Len(p)
  OBVIOUS
<1>2. DOMAIN p = 1 .. n
  BY <1>1
<1>3. k = [i \in 1 .. n |-> IF p[i] \in Params THEN Wild ELSE p[i]]
  BY <1>2 DEF Interpreted!Key
<1>4. \A i \in 1 .. n : p[i] \in Segs \cup Params
  BY <1>1 DEF PatSegs
<1>5. \A i \in 1 .. n : k[i] \in KeySegs
  BY <1>3, <1>4 DEF KeySegs
<1> HIDE DEF k
<1>6. k \in Seq(KeySegs) /\ Len(k) = n
  BY ONLY <1>1, <1>3, <1>5
<1>7. \A i \in 1 .. n :
        /\ p[i] \in Params => k[i] = Wild
        /\ p[i] \notin Params => k[i] = p[i] /\ p[i] # Wild /\ p[i] \in Segs
  BY <1>3, <1>4, RoutesAssumption
<1> QED
  BY <1>1, <1>6, <1>7 DEF k

(* The first segments of a sequence.                                       *)
LEMMA BeginIs ==
  ASSUME NEW S, NEW s \in Seq(S), NEW i \in 0 .. Len(s)
  PROVE  /\ Begin(s, i) \in Seq(S)
         /\ Len(Begin(s, i)) = i
         /\ \A j \in 1 .. i : Begin(s, i)[j] = s[j]
<1>1. \A j \in 1 .. i : s[j] \in S
  OBVIOUS
<1> QED
  BY <1>1, SubSeqProperties DEF Begin

(* No segment of a sequence, and all of them.                              *)
LEMMA BeginEnds ==
  ASSUME NEW S, NEW s \in Seq(S)
  PROVE  Begin(s, 0) = <<>> /\ Begin(s, Len(s)) = s
<1>1. Begin(s, 0) = <<>>
  BY ONLY SubSeqEmpty DEF Begin
<1>2. Begin(s, Len(s)) = s
  BY SubSeqFull DEF Begin
<1> QED
  BY <1>1, <1>2

(* ... and one more.                                                       *)
LEMMA BeginGrows ==
  ASSUME NEW S, NEW s \in Seq(S), NEW i \in 1 .. Len(s)
  PROVE  Begin(s, i) = Append(Begin(s, i - 1), s[i])
<1>1. i - 1 \in 0 .. Len(s) /\ i \in 0 .. Len(s) /\ i \in Nat /\ s[i] \in S
  OBVIOUS
<1>2. /\ Begin(s, i) \in Seq(S)
      /\ Len(Begin(s, i)) = i
      /\ \A j \in 1 .. i : Begin(s, i)[j] = s[j]
  BY <1>1, BeginIs
<1>3. /\ Begin(s, i - 1) \in Seq(S)
      /\ Len(Begin(s, i - 1)) = i - 1
      /\ \A j \in 1 .. i - 1 : Begin(s, i - 1)[j] = s[j]
  BY <1>1, BeginIs
<1>4. PICK b, c : b = Begin(s, i) /\ c = Begin(s, i - 1)
  OBVIOUS
<1>5. /\ Append(c, s[i]) \in Seq(S)
      /\ Len(Append(c, s[i])) = i
      /\ \A j \in 1 .. i - 1 : Append(c, s[i])[j] = c[j]
      /\ Append(c, s[i])[i] = s[i]
  BY ONLY <1>1, <1>3, <1>4
<1>6. \A j \in 1 .. i : Append(c, s[i])[j] = s[j]
  BY ONLY <1>1, <1>3, <1>4, <1>5
<1>7. b = Append(c, s[i])
  BY ONLY <1>2, <1>4, <1>5, <1>6, SeqEqual
<1> QED
  BY ONLY <1>4, <1>7

(* A sequence is the one before and its last.                              *)
LEMMA BeginOfAppend ==
  ASSUME NEW S, NEW s \in Seq(S), NEW e \in S, NEW i \in 0 .. Len(s)
  PROVE  Begin(Append(s, e), i) = Begin(s, i)
<1>1. Append(s, e) \in Seq(S) /\ i \in 0 .. Len(Append(s, e)) /\ i \in Nat
  OBVIOUS
<1>2. \A j \in 1 .. i : Append(s, e)[j] = s[j]
  OBVIOUS
<1>3. /\ Begin(Append(s, e), i) \in Seq(S) /\ Len(Begin(Append(s, e), i)) = i
      /\ \A j \in 1 .. i : Begin(Append(s, e), i)[j] = Append(s, e)[j]
  BY <1>1, BeginIs
<1>4. /\ Begin(s, i) \in Seq(S) /\ Len(Begin(s, i)) = i
      /\ \A j \in 1 .. i : Begin(s, i)[j] = s[j]
  BY BeginIs
<1>5. \A j \in 1 .. i : Begin(Append(s, e), i)[j] = Begin(s, i)[j]
  BY ONLY <1>2, <1>3, <1>4
<1> QED
  BY ONLY <1>3, <1>4, <1>5, SeqEqual
----------------------------------------------------------------------------
(* The routes known, and what both trees are made of.                      *)
Routed == routes \in Seq([pattern : Interpreted!Patterns, method : Methods \cup {Ws}])

(* The node is on the way to the key of the route.                         *)
Through(n, r) == \E i \in 1 .. Len(KeyOf(r)) : n = Begin(KeyOf(r), i)
IsWild(n) == Interpreted!Last(n) = Wild

NodesInv == \A n : n \in nodes <=> \E r \in DOMAIN routes : Through(n, r)
HandlersInv ==
  /\ leaves = handlers
  /\ \A n : n \in DOMAIN handlers <=> \E r \in DOMAIN routes : n = KeyOf(r)
  /\ \A n \in DOMAIN handlers : \E r \in Interpreted!Live :
       KeyOf(r) = n /\ handlers[n] = <<routes[r].method, r>>
NamesInv ==
  /\ \A n : n \in DOMAIN names <=> n \in nodes /\ IsWild(n)
  /\ \A n \in DOMAIN names : names[n] \in Params
IntsInv ==
  /\ ints \subseteq nodes
  /\ \A n \in nodes : IsWild(n) => \E r \in DOMAIN routes :
       Through(n, r) /\ (n \in ints <=> routes[r].pattern[Len(n)] \in IntParams)

RoutesInv == Routed /\ NodesInv /\ HandlersInv /\ NamesInv /\ IntsInv

(* A route has a pattern and a key of the same length, and the key has Wild*)
(* exactly for the parameters of the pattern.                              *)
LEMMA RouteIs ==
  ASSUME Routed, NEW r \in DOMAIN routes
  PROVE  /\ r \in Nat /\ r # 0 /\ routes[r].method \in Methods \cup {Ws}
         /\ routes[r].pattern \in Seq(PatSegs)
         /\ KeyOf(r) \in Seq(KeySegs)
         /\ Len(KeyOf(r)) = Len(routes[r].pattern)
         /\ \A i \in 1 .. Len(KeyOf(r)) :
              /\ routes[r].pattern[i] \in Params => KeyOf(r)[i] = Wild
              /\ routes[r].pattern[i] \notin Params =>
                   KeyOf(r)[i] = routes[r].pattern[i] /\ KeyOf(r)[i] # Wild /\ KeyOf(r)[i] \in Segs
<1>1. /\ r \in Nat /\ r # 0 /\ routes[r].method \in Methods \cup {Ws}
      /\ routes[r].pattern \in Interpreted!Patterns
  <2>1. PICK R : R = [pattern : Interpreted!Patterns, method : Methods \cup {Ws}]
    OBVIOUS
  <2>2. routes \in Seq(R)
    BY ONLY <2>1, Routed DEF Routed
  <2>3. r \in Nat /\ r # 0 /\ routes[r] \in R
    BY ONLY <2>2, r \in DOMAIN routes
  <2> QED
    BY ONLY <2>1, <2>3
<1>2. routes[r].pattern \in Seq(PatSegs)
  BY <1>1, PatternIs
<1> QED
  BY <1>1, <1>2, KeyIs DEF KeyOf

(* The node of a route at a place.                                         *)
LEMMA ThroughIs ==
  ASSUME Routed, NEW r \in DOMAIN routes, NEW n, Through(n, r)
  PROVE  /\ n \in Seq(KeySegs) /\ Len(n) \in 1 .. Len(KeyOf(r))
         /\ n = Begin(KeyOf(r), Len(n))
         /\ Interpreted!Last(n) = KeyOf(r)[Len(n)]
         /\ IsWild(n) => routes[r].pattern[Len(n)] \in Params
<1>1. PICK i \in 1 .. Len(KeyOf(r)) : n = Begin(KeyOf(r), i)
  BY DEF Through
<1>2. KeyOf(r) \in Seq(KeySegs)
  BY RouteIs
<1>3. i \in 0 .. Len(KeyOf(r)) /\ i \in 1 .. i
  BY <1>2
<1>4. n \in Seq(KeySegs) /\ Len(n) = i /\ n[i] = KeyOf(r)[i]
  BY ONLY <1>1, <1>2, <1>3, BeginIs
<1>5. Interpreted!Last(n) = KeyOf(r)[i]
  BY ONLY <1>4 DEF Interpreted!Last
<1>6. IsWild(n) => routes[r].pattern[i] \in Params
  BY <1>5, RouteIs DEF IsWild
<1> QED
  BY <1>1, <1>4, <1>5, <1>6

(* A route that does not change keeps its key and its nodes.               *)
LEMMA KeysStay ==
  ASSUME NEW r, routes'[r] = routes[r]
  PROVE  KeyOf(r)' = KeyOf(r) /\ (\A n : Through(n, r)' <=> Through(n, r))
<1>1. KeyOf(r)' = KeyOf(r)
  BY DEF KeyOf, Interpreted!Key
<1> QED
  BY <1>1 DEF Through

(* The hypotheses of the lemmas about a route that is added.               *)
Adds(p, m, z, key) ==
  /\ Routed /\ p \in Interpreted!Patterns /\ m \in Methods \cup {Ws} /\ AddRoute(p, m)
  /\ z = Len(routes) + 1 /\ key = Interpreted!Key(p)

(* What a route adds to the routes.                                        *)
Longer(p, m, z) ==
  /\ Routed'
  /\ z \in Nat /\ z \notin DOMAIN routes /\ DOMAIN routes' = DOMAIN routes \cup {z}
  /\ \A r \in DOMAIN routes : r < z /\ routes'[r] = routes[r]
  /\ routes'[z].pattern = p /\ routes'[z].method = m

(* The routes with a new one at the end.                                   *)
LEMMA AddsRoute ==
  ASSUME NEW p, NEW m, NEW z, NEW key, Adds(p, m, z, key)
  PROVE  Longer(p, m, z)
<1>1. routes' = Append(routes, [pattern |-> p, method |-> m])
  BY DEF Adds, AddRoute, Interpreted!AddRoute
<1>2. PICK a : a = [pattern |-> p, method |-> m]
  OBVIOUS
<1>3. PICK R : R = [pattern : Interpreted!Patterns, method : Methods \cup {Ws}]
  OBVIOUS
<1>4. a \in R /\ a.pattern = p /\ a.method = m
  BY ONLY <1>2, <1>3, Adds(p, m, z, key) DEF Adds
<1>5. routes \in Seq(R) /\ z = Len(routes) + 1 /\ routes' = Append(routes, a)
  BY ONLY <1>1, <1>2, <1>3, Adds(p, m, z, key) DEF Adds, Routed
<1>6. /\ routes' \in Seq(R)
      /\ z \in Nat /\ z \notin DOMAIN routes /\ DOMAIN routes' = DOMAIN routes \cup {z}
      /\ routes'[z] = a
  BY ONLY <1>4, <1>5
<1>7. \A r \in DOMAIN routes : r < z /\ routes'[r] = routes[r]
  BY ONLY <1>4, <1>5
<1>8. Routed'
  BY ONLY <1>3, <1>6 DEF Routed, Interpreted!Patterns
<1> QED
  BY ONLY <1>4, <1>6, <1>7, <1>8 DEF Longer

Grown(p, m, z, key) ==
  /\ Routed'
  /\ z \in Nat /\ z \notin DOMAIN routes /\ DOMAIN routes' = DOMAIN routes \cup {z}
  /\ \A r \in DOMAIN routes :
       r < z /\ routes'[r] = routes[r] /\ KeyOf(r)' = KeyOf(r)
  /\ \A r \in DOMAIN routes : \A n : Through(n, r)' <=> Through(n, r)
  /\ routes'[z].pattern = p /\ routes'[z].method = m
  /\ KeyOf(z)' = key /\ key \in Seq(KeySegs)
  /\ \A n : Through(n, z)' <=> n \in Interpreted!Steps(key)

(* The keys and nodes of all routes, with the new one.                     *)
LEMMA NewRoute ==
  ASSUME NEW p, NEW m, NEW z, NEW key, Adds(p, m, z, key)
  PROVE  Grown(p, m, z, key)
<1>0. Longer(p, m, z)
  BY AddsRoute
<1>1. /\ Routed'
      /\ z \in Nat /\ z \notin DOMAIN routes /\ DOMAIN routes' = DOMAIN routes \cup {z}
      /\ \A r \in DOMAIN routes : r < z /\ routes'[r] = routes[r]
      /\ routes'[z].pattern = p /\ routes'[z].method = m
  BY ONLY <1>0 DEF Longer
<1>2. \A r \in DOMAIN routes : KeyOf(r)' = KeyOf(r) /\ (\A n : Through(n, r)' <=> Through(n, r))
  BY <1>1, KeysStay
<1>3. KeyOf(z)' = key
  BY <1>1 DEF KeyOf, Interpreted!Key, Adds
<1>4. key \in Seq(KeySegs)
  BY PatternIs, KeyIs DEF Adds
<1>5. DOMAIN key = 1 .. Len(key)
  BY <1>4
<1>6. \A n : Through(n, z)' <=> n \in Interpreted!Steps(key)
  BY <1>3, <1>5 DEF Through, Begin, Interpreted!Steps
<1> QED
  BY <1>1, <1>2, <1>3, <1>4, <1>6 DEF Grown

(* Both trees have the same keys and nodes.                                *)
LEMMA SameKeys ==
  ASSUME NEW p
  PROVE  Compiled!Key(p) = Interpreted!Key(p) /\ Compiled!Steps(p) = Interpreted!Steps(p)
  BY DEF Compiled!Key, Interpreted!Key, Compiled!Steps, Interpreted!Steps

(* The nodes are those of the routes after a route is added.               *)
LEMMA AddsNodes ==
  ASSUME NEW p, NEW m, NEW z, NEW key, Adds(p, m, z, key), NodesInv
  PROVE  NodesInv' /\ nodes' = nodes \cup Interpreted!Steps(key)
<1>0. Grown(p, m, z, key)
  BY NewRoute
<1>1. nodes' = nodes \cup Interpreted!Steps(key)
  BY DEF Adds, AddRoute, Interpreted!AddRoute, Interpreted!Insert
<1>2. \A n : n \in nodes' <=> \E r \in DOMAIN routes' : Through(n, r)'
  BY ONLY <1>0, <1>1, NodesInv DEF Grown, NodesInv
<1> QED
  BY <1>1, <1>2 DEF NodesInv

(* Live routes that the new one does not replace stay live.                *)
LEMMA StaysLive ==
  ASSUME NEW p, NEW m, NEW z, NEW key, Adds(p, m, z, key)
  PROVE  /\ z \in Interpreted!Live'
         /\ \A r \in Interpreted!Live : KeyOf(r) # key => r \in Interpreted!Live'
<1>0. Grown(p, m, z, key)
  BY NewRoute
<1>1. z \in DOMAIN routes' /\ \A s \in DOMAIN routes' : ~(s > z)
  <2>1. \A r \in DOMAIN routes : r < z /\ r \in Nat
    BY <1>0, RouteIs DEF Adds, Grown
  <2>2. z \in Nat /\ DOMAIN routes' = DOMAIN routes \cup {z}
    BY <1>0 DEF Grown
  <2> QED
    BY ONLY <2>1, <2>2
<1>2. z \in Interpreted!Live'
  BY <1>1 DEF Interpreted!Live
<1>3. ASSUME NEW r \in Interpreted!Live, KeyOf(r) # key PROVE r \in Interpreted!Live'
  <2>1. r \in DOMAIN routes /\ \A s \in DOMAIN routes : s > r => KeyOf(s) # KeyOf(r)
    BY DEF Interpreted!Live, KeyOf
  <2>2. r \in DOMAIN routes' /\ \A s \in DOMAIN routes' : s > r => KeyOf(s)' # KeyOf(r)'
    <3>1. r \in DOMAIN routes' /\ KeyOf(r)' = KeyOf(r)
      BY ONLY <1>0, <2>1 DEF Grown
    <3>2. ASSUME NEW s \in DOMAIN routes', s > r PROVE KeyOf(s)' # KeyOf(r)'
      <4>1. CASE s = z
        BY ONLY <1>0, <1>3, <3>1, <4>1 DEF Grown
      <4>2. CASE s # z
        BY ONLY <1>0, <2>1, <3>1, <3>2, <4>2 DEF Grown
      <4> QED
        BY <4>1, <4>2
    <3> QED
      BY <3>1, <3>2
  <2> QED
    BY <2>2 DEF Interpreted!Live, KeyOf
<1> QED
  BY <1>2, <1>3

(* Each node that ends a pattern has the last route of that pattern.       *)
LEMMA AddsHandlers ==
  ASSUME NEW p, NEW m, NEW z, NEW key, Adds(p, m, z, key), HandlersInv
  PROVE  HandlersInv'
<1>0. Grown(p, m, z, key)
  BY NewRoute
<1>1. handlers' = [n \in DOMAIN handlers \cup {key} |-> IF n = key THEN <<m, z>> ELSE handlers[n]]
  BY DEF Adds, AddRoute, Interpreted!AddRoute, Interpreted!Insert
<1>2. leaves' = [n \in DOMAIN leaves \cup {key} |-> IF n = key THEN <<m, z>> ELSE leaves[n]]
  BY SameKeys DEF Adds, AddRoute, Compiled!AddRoute, Compiled!Insert
<1>3. leaves' = handlers'
  BY <1>1, <1>2 DEF HandlersInv
<1>4. \A n : n \in DOMAIN handlers' <=> \E r \in DOMAIN routes' : n = KeyOf(r)'
  <2>1. DOMAIN handlers' = DOMAIN handlers \cup {key}
    BY ONLY <1>1
  <2> QED
    BY ONLY <1>0, <2>1, HandlersInv DEF HandlersInv, Grown
<1>5. ASSUME NEW n \in DOMAIN handlers'
      PROVE  \E r \in Interpreted!Live' : KeyOf(r)' = n /\ handlers'[n] = <<routes'[r].method, r>>
  <2>1. CASE n = key
    <3>1. handlers'[n] = <<m, z>>
      BY <1>1, <2>1
    <3> QED
      <4>1. z \in Interpreted!Live'
        BY StaysLive
      <4>2. KeyOf(z)' = n /\ routes'[z].method = m
        BY ONLY <1>0, <2>1 DEF Grown
      <4> QED
        BY ONLY <3>1, <4>1, <4>2
  <2>2. CASE n # key
    <3>1. n \in DOMAIN handlers /\ handlers'[n] = handlers[n]
      BY <1>1, <1>5, <2>2
    <3>2. PICK r \in Interpreted!Live : KeyOf(r) = n /\ handlers[n] = <<routes[r].method, r>>
      BY <3>1 DEF HandlersInv
    <3>3. r \in DOMAIN routes
      BY DEF Interpreted!Live
    <3>4. r \in Interpreted!Live'
      BY <2>2, <3>2, StaysLive
    <3>5. KeyOf(r)' = n /\ routes'[r] = routes[r]
      BY ONLY <1>0, <3>2, <3>3 DEF Grown
    <3> QED
      BY <3>1, <3>2, <3>4, <3>5
  <2> QED
    BY <2>1, <2>2
<1> QED
  BY <1>3, <1>4, <1>5 DEF HandlersInv

(* The nodes of a route that is added are its own.                         *)
LEMMA NewNodes ==
  ASSUME NEW p \in Interpreted!Patterns, NEW key, key = Interpreted!Key(p),
         NEW n \in Interpreted!Steps(key)
  PROVE  /\ n \in Seq(KeySegs) /\ Len(n) \in 1 .. Len(key) /\ n = Begin(key, Len(n))
         /\ Interpreted!Last(n) = key[Len(n)]
         /\ IsWild(n) => p[Len(n)] \in Params
<1>1. p \in Seq(PatSegs)
  BY PatternIs
<1>2. key \in Seq(KeySegs) /\ Len(key) = Len(p)
  BY <1>1, KeyIs
<1>3. PICK i \in 1 .. Len(key) : n = Begin(key, i)
  <2>1. DOMAIN key = 1 .. Len(key)
    BY ONLY <1>2
  <2>2. PICK i \in DOMAIN key : n = SubSeq(key, 1, i)
    BY DEF Interpreted!Steps
  <2> QED
    BY ONLY <2>1, <2>2 DEF Begin
<1>4. i \in 0 .. Len(key) /\ i \in 1 .. i
  BY <1>2
<1>5. n \in Seq(KeySegs) /\ Len(n) = i /\ n[i] = key[i]
  BY ONLY <1>2, <1>3, <1>4, BeginIs
<1>6. Interpreted!Last(n) = key[i]
  BY ONLY <1>5 DEF Interpreted!Last
<1>7. p[i] \notin Params => key[i] # Wild
  BY <1>1, <1>2, KeyIs
<1> QED
  BY <1>3, <1>5, <1>6, <1>7 DEF IsWild

(* The wildcards, and no other nodes, have a name, and it is a parameter.  *)
LEMMA AddsNames ==
  ASSUME NEW p, NEW m, NEW z, NEW key, Adds(p, m, z, key), NodesInv, NamesInv
  PROVE  NamesInv'
<1>1. names' = [n \in DOMAIN names \cup {n \in Interpreted!Steps(key) : IsWild(n)} |->
                 IF n \in DOMAIN names THEN names[n] ELSE p[Len(n)]]
  BY DEF Adds, AddRoute, Interpreted!AddRoute, Interpreted!Insert, IsWild
<1>2. nodes' = nodes \cup Interpreted!Steps(key)
  BY AddsNodes
<1>3. \A n : n \in DOMAIN names' <=> n \in nodes' /\ IsWild(n)
  BY <1>1, <1>2 DEF NamesInv
<1>4. ASSUME NEW n \in DOMAIN names' PROVE names'[n] \in Params
  <2>1. CASE n \in DOMAIN names
    BY <1>1, <2>1 DEF NamesInv
  <2>2. CASE n \notin DOMAIN names
    <3>1. n \in Interpreted!Steps(key) /\ IsWild(n) /\ names'[n] = p[Len(n)]
      BY <1>1, <1>4, <2>2
    <3>2. p \in Interpreted!Patterns /\ key = Interpreted!Key(p)
      BY DEF Adds
    <3> QED
      BY <3>1, <3>2, NewNodes
  <2> QED
    BY <2>1, <2>2
<1>5. \A n : IsWild(n)' <=> IsWild(n)
  BY DEF IsWild, Interpreted!Last
<1> QED
  BY <1>3, <1>4, <1>5 DEF NamesInv

(* A wildcard asks for integers as one of the patterns through it does.    *)
LEMMA AddsInts ==
  ASSUME NEW p, NEW m, NEW z, NEW key, Adds(p, m, z, key), NodesInv, IntsInv
  PROVE  IntsInv'
<1>0. Grown(p, m, z, key)
  BY NewRoute
<1>1. ints' = ints \cup {n \in Interpreted!Steps(key) \ nodes : IsWild(n) /\ p[Len(n)] \in IntParams}
  BY SameKeys DEF Adds, AddRoute, Compiled!AddRoute, Compiled!Insert, IsWild,
                  Interpreted!Last, Compiled!Last
<1>2. nodes' = nodes \cup Interpreted!Steps(key)
  BY AddsNodes
<1>3. ints' \subseteq nodes'
  BY <1>1, <1>2 DEF IntsInv
<1>4. ASSUME NEW n \in nodes', IsWild(n)
      PROVE  \E r \in DOMAIN routes' :
               Through(n, r)' /\ (n \in ints' <=> routes'[r].pattern[Len(n)] \in IntParams)
  <2>1. CASE n \in nodes
    <3>1. PICK r \in DOMAIN routes :
            Through(n, r) /\ (n \in ints <=> routes[r].pattern[Len(n)] \in IntParams)
      BY <1>4, <2>1 DEF IntsInv
    <3>2. r \in DOMAIN routes' /\ Through(n, r)' /\ routes'[r] = routes[r]
      BY ONLY <1>0, <3>1 DEF Grown
    <3>3. n \in ints' <=> n \in ints
      BY ONLY <1>1, <2>1
    <3> QED
      BY ONLY <3>1, <3>2, <3>3
  <2>2. CASE n \notin nodes
    <3>1. n \in Interpreted!Steps(key)
      BY <1>2, <1>4, <2>2
    <3>2. z \in DOMAIN routes' /\ Through(n, z)' /\ routes'[z].pattern = p
      BY ONLY <1>0, <3>1 DEF Grown
    <3>3. n \in ints' <=> p[Len(n)] \in IntParams
      BY <1>1, <1>4, <2>2, <3>1 DEF IntsInv
    <3> QED
      BY ONLY <3>2, <3>3
  <2> QED
    BY <2>1, <2>2
<1>5. \A n : IsWild(n)' <=> IsWild(n)
  BY DEF IsWild, Interpreted!Last
<1> QED
  BY <1>3, <1>4, <1>5 DEF IntsInv

(* At the start there is no route and no node.                             *)
LEMMA RoutesStart == RoutersInit => RoutesInv
<1> SUFFICES ASSUME RoutersInit PROVE RoutesInv
  OBVIOUS
<1>1. nodes = {} /\ names = <<>> /\ handlers = <<>> /\ routes = <<>> /\ ints = {} /\ leaves = <<>>
  BY DEF RoutersInit, Interpreted!Init, Compiled!Init
<1>2. DOMAIN routes = {} /\ DOMAIN names = {} /\ DOMAIN handlers = {}
  BY <1>1
<1>3. Routed
  BY <1>1 DEF Routed
<1> QED
  BY <1>1, <1>2, <1>3 DEF RoutesInv, NodesInv, HandlersInv, NamesInv, IntsInv

(* Every step keeps the invariant of the two trees.                        *)
LEMMA RoutesNext == RoutesInv /\ [RoutersNext]_routesVars => RoutesInv'
<1>1. ASSUME RoutesInv, NEW p \in Interpreted!Patterns, NEW m \in Methods \cup {Ws}, AddRoute(p, m)
      PROVE  RoutesInv'
  <2>1. Adds(p, m, Len(routes) + 1, Interpreted!Key(p))
    BY <1>1 DEF Adds, RoutesInv
  <2>2. Routed'
    BY <2>1, NewRoute DEF Grown
  <2> QED
    BY <1>1, <2>1, <2>2, AddsNodes, AddsHandlers, AddsNames, AddsInts DEF RoutesInv
<1>2. ASSUME RoutesInv, UNCHANGED routesVars PROVE RoutesInv'
  <2> USE <1>2 DEF routesVars
  <2>1. Routed'
    BY DEF RoutesInv, Routed
  <2>2. \A r : KeyOf(r)' = KeyOf(r)
    BY DEF KeyOf, Interpreted!Key
  <2>3. \A n, r : Through(n, r)' <=> Through(n, r)
    BY <2>2 DEF Through
  <2>4. Interpreted!Live' = Interpreted!Live
    BY DEF Interpreted!Live, Interpreted!Key
  <2>5. NodesInv'
    BY <2>3 DEF RoutesInv, NodesInv
  <2>6. HandlersInv'
    BY <2>2, <2>4 DEF RoutesInv, HandlersInv
  <2>7. \A n : IsWild(n)' <=> IsWild(n)
    BY DEF IsWild, Interpreted!Last
  <2>8. NamesInv'
    BY <2>7 DEF RoutesInv, NamesInv
  <2>9. IntsInv'
    BY <2>3, <2>7 DEF RoutesInv, IntsInv
  <2> QED
    BY <2>1, <2>5, <2>6, <2>8, <2>9 DEF RoutesInv
<1> QED
  BY <1>1, <1>2 DEF RoutersNext

----------------------------------------------------------------------------
(* The compiled walk.                                                      *)
LEMMA WalkIs ==
  ASSUME NEW path \in Seq(Segs), NEW w, w = Compiled!Walk(path)
  PROVE  /\ w[0] = {<<>>}
         /\ \A i \in 1 .. Len(path) : w[i] = Compiled!Onward(w[i - 1], path[i])
<1> DEFINE D == SUBSET (nodes \cup {<<>>})
<1>1. PICK m \in Nat : m = Len(path)
  OBVIOUS
<1>2. PICK step : step = [x \in (1 .. m) \X D |-> Compiled!Onward(x[2], path[x[1]])]
  OBVIOUS
<1>3. \A at, seg : Compiled!Onward(at, seg) \in D
  BY DEF Compiled!Onward, Compiled!Child
<1>4. \A x \in (1 .. m) \X D : Compiled!Onward(x[2], path[x[1]]) \in D
  BY ONLY <1>3
<1>5. {<<>>} \in D
  OBVIOUS
<1> HIDE DEF D
<1>6. step \in [(1 .. m) \X D -> D]
  BY ONLY <1>2, <1>4
<1>7a. PICK g : Follows(g, m, D, {<<>>}, step)
  BY ONLY m \in Nat, <1>5, <1>6, Recurs
<1>7. g \in [0 .. m -> D] /\ g[0] = {<<>>} /\ \A k \in 1 .. m : g[k] = step[<<k, g[k - 1]>>]
  BY ONLY <1>7a DEF Follows
<1>8. \A k \in 1 .. m : g[k] = Compiled!Onward(g[k - 1], path[k])
  <2> SUFFICES ASSUME NEW k \in 1 .. m PROVE g[k] = Compiled!Onward(g[k - 1], path[k])
    OBVIOUS
  <2>1. g[k - 1] \in D
    BY ONLY m \in Nat, <1>7, k \in 1 .. m
  <2>2. <<k, g[k - 1]>> \in (1 .. m) \X D
    BY ONLY <2>1, k \in 1 .. m
  <2>3. step[<<k, g[k - 1]>>] = Compiled!Onward(g[k - 1], path[k])
    BY ONLY <1>2, <2>2
  <2> QED
    BY ONLY <1>7, <2>3, k \in 1 .. m
<1>9. \E f : f = [i \in 0 .. m |-> IF i = 0 THEN {<<>>} ELSE Compiled!Onward(f[i - 1], path[i])]
  <2>1. \A k \in 0 .. m : g[k] = IF k = 0 THEN {<<>>} ELSE Compiled!Onward(g[k - 1], path[k])
    BY ONLY m \in Nat, <1>7, <1>8
  <2>2. g = [i \in 0 .. m |-> IF i = 0 THEN {<<>>} ELSE Compiled!Onward(g[i - 1], path[i])]
    BY ONLY <1>7, <2>1
  <2> QED
    BY ONLY <2>2
<1>10. w = CHOOSE f : f = [i \in 0 .. Len(path) |-> IF i = 0 THEN {<<>>} ELSE Compiled!Onward(f[i - 1], path[i])]
  BY Zenon DEF Compiled!Walk
<1>11. w = [i \in 0 .. m |-> IF i = 0 THEN {<<>>} ELSE Compiled!Onward(w[i - 1], path[i])]
  BY ONLY <1>1, <1>9, <1>10, Zenon
<1>12. 0 \in 0 .. m
  BY ONLY m \in Nat
<1>13. w[0] = {<<>>}
  BY ONLY <1>11, <1>12
<1>14. \A i \in 1 .. m : w[i] = Compiled!Onward(w[i - 1], path[i])
  <2> SUFFICES ASSUME NEW i \in 1 .. m PROVE w[i] = Compiled!Onward(w[i - 1], path[i])
    OBVIOUS
  <2>1. i \in 0 .. m /\ i # 0
    BY ONLY m \in Nat, i \in 1 .. m
  <2> QED
    BY ONLY <1>11, <2>1
<1> QED
  BY ONLY <1>1, <1>13, <1>14

(* Where the walk is, every segment was taken by its own child or by a     *)
(* parameter that takes it.                                                *)
OnWay(n, i, path) ==
  /\ n \in nodes \cup {<<>>} /\ n \in Seq(KeySegs) /\ Len(n) = i
  /\ \A j \in 1 .. i : /\ n[j] = path[j] \/ n[j] = Wild
                       /\ n[j] = Wild /\ Begin(n, j) \in ints => path[j] \in Ints

(* A node is a sequence of keys, and not the root.                         *)
LEMMA NodeIs ==
  ASSUME RoutesInv, NEW n \in nodes
  PROVE  n \in Seq(KeySegs) /\ Len(n) \in Nat /\ Len(n) # 0
<1>1. PICK r \in DOMAIN routes : Through(n, r)
  BY DEF RoutesInv, NodesInv
<1>2. n \in Seq(KeySegs) /\ Len(n) \in 1 .. Len(KeyOf(r))
  BY <1>1, ThroughIs DEF RoutesInv
<1> QED
  BY ONLY <1>2

(* A step of the walk goes to the child of the segment, or to a wildcard   *)
(* that takes it.                                                          *)
LEMMA ChildIs ==
  ASSUME NEW n, NEW seg \in Segs, NEW c \in Compiled!Child(n, seg)
  PROVE  /\ c \in nodes
         /\ \/ c = Append(n, seg)
            \/ c = Append(n, Wild) /\ (c \in ints => seg \in Ints)
  BY DEF Compiled!Child

(* A step of the walk stays on a way that fits the path.                   *)
LEMMA WayGoesOn ==
  ASSUME RoutesInv, NEW path \in Seq(Segs), NEW i \in 0 .. Len(path), i < Len(path),
         NEW n, OnWay(n, i, path), NEW c \in Compiled!Child(n, path[i + 1])
  PROVE  OnWay(c, i + 1, path)
<1>1. i \in Nat /\ i + 1 \in 1 .. Len(path) /\ path[i + 1] \in Segs
  OBVIOUS
<1>2. PICK seg : seg = path[i + 1] /\ seg \in Segs
  BY <1>1
<1>3. n \in Seq(KeySegs) /\ Len(n) = i
  BY DEF OnWay
<1>4. PICK e : e = IF c = Append(n, seg) THEN seg ELSE Wild
  OBVIOUS
<1>4a. c \in Compiled!Child(n, seg)
  BY ONLY <1>2, c \in Compiled!Child(n, path[i + 1])
<1>4b. c = Append(n, seg) \/ (c = Append(n, Wild) /\ (c \in ints => seg \in Ints))
  BY ONLY <1>4a DEF Compiled!Child
<1>4c. c = Append(n, e) /\ (e = seg \/ (e = Wild /\ (c \in ints => seg \in Ints)))
  BY ONLY <1>4, <1>4b
<1>4d. e \in KeySegs
  BY ONLY <1>2, <1>4 DEF KeySegs
<1>5. c \in nodes
  BY <1>2, ChildIs
<1>6. c \in Seq(KeySegs) /\ Len(c) = i + 1 /\ c[i + 1] = e /\ \A j \in 1 .. i : c[j] = n[j]
  BY ONLY <1>1, <1>3, <1>4c, <1>4d
<1>7. seg # Wild
  BY <1>2, RoutesAssumption
<1>8. \A j \in 0 .. i : Begin(c, j) = Begin(n, j)
  BY ONLY <1>3, <1>4c, <1>4d, BeginOfAppend
<1>9. Begin(c, i + 1) = c
  BY ONLY <1>6, BeginEnds
<1>10. ASSUME NEW j \in 1 .. i + 1
       PROVE  /\ c[j] = path[j] \/ c[j] = Wild
              /\ c[j] = Wild /\ Begin(c, j) \in ints => path[j] \in Ints
  <2>1. CASE j = i + 1
    BY ONLY <1>2, <1>4c, <1>6, <1>7, <1>9, <2>1
  <2>2. CASE j # i + 1
    <3>1. j \in 1 .. i /\ j \in 0 .. i
      BY ONLY <1>1, <2>2, j \in 1 .. i + 1
    <3>2. c[j] = n[j] /\ Begin(c, j) = Begin(n, j)
      BY ONLY <1>6, <1>8, <3>1
    <3>3. /\ n[j] = path[j] \/ n[j] = Wild
          /\ n[j] = Wild /\ Begin(n, j) \in ints => path[j] \in Ints
      BY ONLY <3>1, OnWay(n, i, path) DEF OnWay
    <3> QED
      BY ONLY <3>2, <3>3
  <2> QED
    BY <2>1, <2>2
<1> QED
  BY ONLY <1>5, <1>6, <1>10 DEF OnWay

(* The walk ends only where every key fits its segment.                    *)
LEMMA WalkFits ==
  ASSUME RoutesInv, NEW path \in Seq(Segs), NEW w, w = Compiled!Walk(path)
  PROVE  \A i \in 0 .. Len(path) : \A n \in w[i] : OnWay(n, i, path)
<1> DEFINE A == {i \in 0 .. Len(path) : \A n \in w[i] : OnWay(n, i, path)}
<1>0. Len(path) \in Nat
  OBVIOUS
<1>1. w[0] = {<<>>} /\ \A i \in 1 .. Len(path) : w[i] = Compiled!Onward(w[i - 1], path[i])
  BY WalkIs
<1>2. 0 \in A
  <2>1. OnWay(<<>>, 0, path)
    BY DEF OnWay
  <2> QED
    BY <1>0, <1>1, <2>1
<1>3. ASSUME NEW i \in 0 .. Len(path), i < Len(path), i \in A PROVE i + 1 \in A
  <2>1. i + 1 \in 1 .. Len(path) /\ (i + 1) - 1 = i
    BY <1>0, <1>3
  <2>2. w[i + 1] = Compiled!Onward(w[i], path[i + 1])
    BY ONLY <1>1, <2>1
  <2>3. ASSUME NEW c \in w[i + 1] PROVE OnWay(c, i + 1, path)
    <3>1. PICK n \in w[i] : c \in Compiled!Child(n, path[i + 1])
      BY ONLY <2>2, <2>3 DEF Compiled!Onward
    <3>2. OnWay(n, i, path)
      BY <1>3, <3>1
    <3> QED
      BY <1>3, <3>1, <3>2, WayGoesOn
  <2> QED
    BY <2>1, <2>3
<1> HIDE DEF A
<1>4. \A i \in 0 .. Len(path) : i \in A
  BY ONLY <1>0, <1>2, <1>3, Climb
<1> QED
  BY <1>4 DEF A

(* A pattern fits a path exactly if its key does.                          *)
KeyFits(k, path) == Len(k) = Len(path) /\ \A i \in 1 .. Len(path) : k[i] = path[i] \/ k[i] = Wild

(* Both trees mean by a pattern that fits that its key does.               *)
LEMMA FitsIs ==
  ASSUME Routed, NEW r \in DOMAIN routes, NEW path \in Seq(Segs)
  PROVE  /\ Interpreted!Fits(routes[r].pattern, path) <=> KeyFits(KeyOf(r), path)
         /\ Compiled!FitsKey(routes[r].pattern, path) <=> KeyFits(KeyOf(r), path)
<1>1. DOMAIN path = 1 .. Len(path) /\ \A i \in 1 .. Len(path) : path[i] \in Segs
  OBVIOUS
<1>2. /\ Len(KeyOf(r)) = Len(routes[r].pattern)
      /\ \A i \in 1 .. Len(KeyOf(r)) :
           /\ routes[r].pattern[i] \in Params => KeyOf(r)[i] = Wild
           /\ routes[r].pattern[i] \notin Params =>
                KeyOf(r)[i] = routes[r].pattern[i] /\ KeyOf(r)[i] # Wild /\ KeyOf(r)[i] \in Segs
  BY RouteIs
<1>3. Segs \cap Params = {}
  BY RoutesAssumption
<1>4. PICK k, p : k = KeyOf(r) /\ p = routes[r].pattern
  OBVIOUS
<1>5. Len(p) = Len(path) /\ (\A i \in 1 .. Len(path) : p[i] \in Params \/ p[i] = path[i])
        <=> KeyFits(k, path)
  BY ONLY <1>1, <1>2, <1>3, <1>4 DEF KeyFits
<1> QED
  BY ONLY <1>1, <1>4, <1>5 DEF Interpreted!Fits, Compiled!FitsKey

(* What a tree serves are live routes.                                     *)
LEMMA LeafIs ==
  ASSUME RoutesInv, NEW n \in DOMAIN handlers, NEW l, l = handlers[n]
  PROVE  \E r \in Interpreted!Live : r \in DOMAIN routes /\ KeyOf(r) = n /\ l = <<routes[r].method, r>>
<1>1. PICK r \in Interpreted!Live : KeyOf(r) = n /\ handlers[n] = <<routes[r].method, r>>
  BY DEF RoutesInv, HandlersInv
<1>2. r \in DOMAIN routes
  BY DEF Interpreted!Live
<1> QED
  BY <1>1, <1>2

(* There is one live route for a key.                                      *)
LEMMA LiveOnce ==
  ASSUME Routed, NEW r \in Interpreted!Live, NEW s \in Interpreted!Live, KeyOf(r) = KeyOf(s)
  PROVE  r = s
<1>1. r \in DOMAIN routes /\ s \in DOMAIN routes
  BY DEF Interpreted!Live
<1>2. r \in Nat /\ s \in Nat
  BY <1>1, RouteIs
<1>3. ~(s > r) /\ ~(r > s)
  BY <1>1 DEF Interpreted!Live, KeyOf
<1> QED
  BY ONLY <1>2, <1>3

(* The same routes are live in both trees.                                 *)
LEMMA SameLive == Compiled!Live = Interpreted!Live
  BY DEF Compiled!Live, Interpreted!Live, Compiled!Key, Interpreted!Key

(* Where parameters agree, the node knows what every pattern through it    *)
(* asks for.                                                               *)
LEMMA IntsOf ==
  ASSUME RoutesInv, Compiled!IntsAgree, NEW r \in DOMAIN routes, NEW n, Through(n, r), IsWild(n)
  PROVE  n \in ints <=> routes[r].pattern[Len(n)] \in IntParams
<1>1. n \in nodes
  BY DEF RoutesInv, NodesInv
<1>2. PICK s \in DOMAIN routes :
        Through(n, s) /\ (n \in ints <=> routes[s].pattern[Len(n)] \in IntParams)
  BY <1>1 DEF RoutesInv, IntsInv
<1>3. Len(n) \in 1 .. Len(KeyOf(r)) /\ n = Begin(KeyOf(r), Len(n))
  BY ThroughIs DEF RoutesInv
<1>4. Len(n) \in 1 .. Len(KeyOf(s)) /\ n = Begin(KeyOf(s), Len(n))
  BY <1>2, ThroughIs DEF RoutesInv
<1>5. /\ routes[r].pattern \in Seq(PatSegs) /\ Len(KeyOf(r)) = Len(routes[r].pattern)
      /\ routes[s].pattern \in Seq(PatSegs) /\ Len(KeyOf(s)) = Len(routes[s].pattern)
  BY RouteIs DEF RoutesInv
<1>6. Len(n) \in DOMAIN routes[r].pattern \cap DOMAIN routes[s].pattern
  <2>1. PICK p, q : p = routes[r].pattern /\ q = routes[s].pattern
    OBVIOUS
  <2>2. DOMAIN p = 1 .. Len(p) /\ DOMAIN q = 1 .. Len(q)
    BY ONLY <1>5, <2>1
  <2> QED
    BY ONLY <1>3, <1>4, <1>5, <2>1, <2>2
<1>7. SubSeq(Compiled!Key(routes[r].pattern), 1, Len(n)) = SubSeq(Compiled!Key(routes[s].pattern), 1, Len(n))
  BY ONLY <1>3, <1>4, SameKeys DEF KeyOf, Begin
<1>8. routes[r].pattern[Len(n)] \in IntParams <=> routes[s].pattern[Len(n)] \in IntParams
  BY ONLY <1>6, <1>7, Compiled!IntsAgree DEF Compiled!IntsAgree
<1> QED
  BY ONLY <1>2, <1>8

(* A handler that is matched is one of a live route, with the method asked *)
(* for, and its key was walked.                                            *)
LEMMA MatchIs ==
  ASSUME RoutesInv, NEW path \in Seq(Segs), NEW method, NEW l \in Compiled!Match(path, method)
  PROVE  /\ l[1] = method \/ (l[1] = Ws /\ method = Get)
         /\ \E r \in Interpreted!Live : /\ r \in DOMAIN routes /\ l = <<routes[r].method, r>>
                                        /\ OnWay(KeyOf(r), Len(path), path)
<1>1. PICK n \in Compiled!Walk(path)[Len(path)] : n \in DOMAIN leaves /\ l = leaves[n]
  BY DEF Compiled!Match
<1>2. l[1] = method \/ (l[1] = Ws /\ method = Get)
  BY DEF Compiled!Match
<1>3. Len(path) \in 0 .. Len(path)
  OBVIOUS
<1>4. OnWay(n, Len(path), path)
  BY <1>1, <1>3, WalkFits
<1>5. leaves = handlers
  BY DEF RoutesInv, HandlersInv
<1>6. \E r \in Interpreted!Live : r \in DOMAIN routes /\ KeyOf(r) = n /\ l = <<routes[r].method, r>>
  BY <1>1, <1>5, LeafIs
<1> QED
  BY <1>2, <1>4, <1>6

(* A pattern whose key was walked fits.                                    *)
LEMMA OnWayFits ==
  ASSUME Routed, NEW r \in DOMAIN routes, NEW path \in Seq(Segs), OnWay(KeyOf(r), Len(path), path)
  PROVE  Compiled!FitsKey(routes[r].pattern, path)
<1>1. KeyFits(KeyOf(r), path)
  BY DEF OnWay, KeyFits
<1> QED
  BY <1>1, FitsIs

(* ... with its integer parameters, where the parameters in one place      *)
(* agree.                                                                  *)
LEMMA OnWayFitsInts ==
  ASSUME RoutesInv, NEW r \in DOMAIN routes, NEW path \in Seq(Segs), OnWay(KeyOf(r), Len(path), path),
         Compiled!IntsAgree
  PROVE  Compiled!Fits(routes[r].pattern, path)
<1>1. Compiled!FitsKey(routes[r].pattern, path)
  BY OnWayFits DEF RoutesInv
<1>2. ASSUME NEW i \in DOMAIN path, routes[r].pattern[i] \in IntParams PROVE path[i] \in Ints
  <2>1. KeyOf(r) \in Seq(KeySegs) /\ Len(KeyOf(r)) = Len(path)
    BY RouteIs DEF RoutesInv, OnWay
  <2>2. i \in 1 .. Len(path) /\ i \in 1 .. Len(KeyOf(r)) /\ i \in 0 .. Len(KeyOf(r))
    BY <2>1
  <2>3. KeyOf(r)[i] = Wild
    BY <1>2, <2>2, RouteIs, RoutesAssumption DEF RoutesInv
  <2>4. PICK n : n = Begin(KeyOf(r), i)
    OBVIOUS
  <2>5. Through(n, r)
    BY <2>2, <2>4 DEF Through
  <2>6. Len(n) = i
    BY ONLY <2>1, <2>2, <2>4, BeginIs
  <2>7. Interpreted!Last(n) = KeyOf(r)[i]
    BY ONLY RoutesInv, r \in DOMAIN routes, <2>5, <2>6, ThroughIs DEF RoutesInv
  <2>8. n \in ints
    BY <1>2, <2>3, <2>5, <2>6, <2>7, IntsOf DEF IsWild
  <2> QED
    BY ONLY <2>2, <2>3, <2>4, <2>8, OnWay(KeyOf(r), Len(path), path) DEF OnWay
<1> QED
  BY <1>1, <1>2 DEF Compiled!Fits

(* The first half of FittingServed: what the compiled server serves fits.  *)
LEMMA ServesFitting == RoutesInv => Compiled!OnlyFittingServed
<1> SUFFICES ASSUME RoutesInv, NEW q \in Compiled!Requests, NEW upgrade \in BOOLEAN,
                    NEW s \in Compiled!Served(q[1], q[2], upgrade)
             PROVE  LET route == routes[s[2]] IN
                    /\ s[2] \in Compiled!Live /\ Compiled!FitsKey(route.pattern, q[1])
                    /\ Compiled!IntsAgree => Compiled!Fits(route.pattern, q[1])
                    /\ route.method = q[2] \/ (route.method = Ws /\ q[2] = Get)
  BY DEF Compiled!OnlyFittingServed
<1>1. q[1] \in Seq(Segs)
  BY PathIs DEF Compiled!Requests
<1>2. PICK l : /\ l \in Compiled!Match(q[1], q[2]) \/ (l \in Compiled!Match(q[1], Ws) /\ l[1] = Ws /\ q[2] = Get)
               /\ s[2] = l[2]
  BY DEF Compiled!Served
<1>3. /\ l[1] = q[2] \/ (l[1] = Ws /\ q[2] = Get)
      /\ \E r \in Interpreted!Live : /\ r \in DOMAIN routes /\ l = <<routes[r].method, r>>
                                     /\ OnWay(KeyOf(r), Len(q[1]), q[1])
  BY <1>1, <1>2, MatchIs
<1>4. PICK r \in Interpreted!Live : /\ r \in DOMAIN routes /\ l = <<routes[r].method, r>>
                                    /\ OnWay(KeyOf(r), Len(q[1]), q[1])
  BY <1>3
<1>5. s[2] = r /\ l[1] = routes[r].method
  BY ONLY <1>2, <1>4
<1>6. Compiled!FitsKey(routes[r].pattern, q[1])
  BY <1>1, <1>4, OnWayFits DEF RoutesInv
<1>7. Compiled!IntsAgree => Compiled!Fits(routes[r].pattern, q[1])
  BY <1>1, <1>4, OnWayFitsInts
<1>8. s[2] \in Compiled!Live
  BY <1>4, <1>5, SameLive
<1>9. routes[s[2]].method = q[2] \/ (routes[s[2]].method = Ws /\ q[2] = Get)
  BY ONLY <1>3, <1>5
<1> QED
  BY ONLY <1>5, <1>6, <1>7, <1>8, <1>9

(* Where no choice of the walk can be a wrong one, it follows the route.   *)
LEMMA TheOneChild ==
  ASSUME RoutesInv, Compiled!OneKind, Compiled!IntsAgree, NEW r \in DOMAIN routes,
         NEW path \in Seq(Segs), Compiled!Fits(routes[r].pattern, path), NEW i \in 1 .. Len(path)
  PROVE  Compiled!Child(Begin(KeyOf(r), i - 1), path[i]) = {Begin(KeyOf(r), i)}
<1>1. KeyFits(KeyOf(r), path)
  BY FitsIs DEF RoutesInv, Compiled!Fits
<1>2. KeyOf(r) \in Seq(KeySegs)
  BY RouteIs DEF RoutesInv
<1>3. PICK b, o, seg : b = Begin(KeyOf(r), i - 1) /\ o = Begin(KeyOf(r), i) /\ seg = path[i]
  OBVIOUS
<1>4. i \in 1 .. Len(KeyOf(r)) /\ i \in 0 .. Len(KeyOf(r)) /\ i - 1 \in 0 .. Len(KeyOf(r))
  BY ONLY <1>1, <1>2, i \in 1 .. Len(path), path \in Seq(Segs) DEF KeyFits
<1>5. seg \in Segs /\ seg # Wild
  BY <1>3, RoutesAssumption
<1>6. o = Append(b, KeyOf(r)[i])
  BY ONLY <1>2, <1>3, <1>4, BeginGrows
<1>7. b \in Seq(KeySegs) /\ Len(b) = i - 1
  BY ONLY <1>2, <1>3, <1>4, BeginIs
<1>8. Through(o, r)
  BY <1>3, <1>4 DEF Through
<1>9. o \in nodes
  BY <1>8 DEF RoutesInv, NodesInv
<1>10. KeyOf(r)[i] = seg \/ KeyOf(r)[i] = Wild
  BY ONLY <1>1, <1>3, i \in 1 .. Len(path) DEF KeyFits
<1>11. CASE KeyOf(r)[i] = seg
  BY ONLY <1>3, <1>6, <1>9, <1>11 DEF Compiled!Child
<1>12. CASE KeyOf(r)[i] = Wild
  <2>1. o = Append(b, Wild)
    BY ONLY <1>6, <1>12
  <2>2. Append(b, seg) \notin nodes
    <3>1. ASSUME NEW e \in KeySegs
          PROVE  /\ Compiled!Front(Append(b, e)) = b /\ Compiled!Last(Append(b, e)) = e
      <4>1. PICK a : a = Append(b, e)
        OBVIOUS
      <4>2. a \in Seq(KeySegs) /\ Len(a) = i /\ a[i] = e
        BY ONLY <1>4, <1>7, <4>1, e \in KeySegs
      <4>3. Begin(a, i - 1) = Begin(b, i - 1)
        BY ONLY <1>4, <1>7, <4>1, e \in KeySegs, BeginOfAppend
      <4>4. Begin(b, i - 1) = b
        BY ONLY <1>7, BeginEnds
      <4>5. Compiled!Front(a) = b
        BY ONLY <4>2, <4>3, <4>4 DEF Compiled!Front, Begin
      <4>6. Compiled!Last(a) = e
        BY ONLY <4>2 DEF Compiled!Last
      <4> QED
        BY ONLY <4>1, <4>5, <4>6
    <3>2. seg \in KeySegs /\ Wild \in KeySegs
      BY ONLY <1>5 DEF KeySegs
    <3>3. /\ Compiled!Front(Append(b, seg)) = b /\ Compiled!Last(Append(b, seg)) = seg
          /\ Compiled!Front(o) = b /\ Compiled!Last(o) = Wild
      BY ONLY <2>1, <3>1, <3>2
    <3>4. ASSUME Append(b, seg) \in nodes PROVE Append(b, seg) = o
      BY ONLY <1>9, <3>3, <3>4, Compiled!OneKind DEF Compiled!OneKind
    <3> QED
      BY ONLY <1>5, <3>3, <3>4
  <2>3. o \in ints => seg \in Ints
    <3>1. Len(o) = i /\ Interpreted!Last(o) = Wild
      <4>1. Len(o) = i /\ Interpreted!Last(o) = KeyOf(r)[Len(o)]
        BY ONLY <1>2, <1>3, <1>4, BeginIs, <1>8, RoutesInv, r \in DOMAIN routes, ThroughIs DEF RoutesInv
      <4> QED
        BY ONLY <1>12, <4>1
    <3>2. o \in ints <=> routes[r].pattern[i] \in IntParams
      BY <1>8, <3>1, IntsOf DEF IsWild
    <3>3. DOMAIN path = 1 .. Len(path)
      OBVIOUS
    <3>4. routes[r].pattern[i] \in IntParams => path[i] \in Ints
      BY <3>3 DEF Compiled!Fits
    <3> QED
      BY ONLY <1>3, <3>2, <3>4
  <2> QED
    BY ONLY <1>3, <1>9, <2>1, <2>2, <2>3 DEF Compiled!Child
<1> QED
  BY <1>10, <1>11, <1>12

(* ... to the end of its key.                                              *)
LEMMA WalkFollows ==
  ASSUME RoutesInv, Compiled!OneKind, Compiled!IntsAgree, NEW r \in DOMAIN routes,
         NEW path \in Seq(Segs), Compiled!Fits(routes[r].pattern, path)
  PROVE  Compiled!Walk(path)[Len(path)] = {KeyOf(r)}
<1> DEFINE w == Compiled!Walk(path)
<1> DEFINE A == {i \in 0 .. Len(path) : w[i] = {Begin(KeyOf(r), i)}}
<1>0. Len(path) \in Nat
  OBVIOUS
<1>1. w[0] = {<<>>} /\ \A i \in 1 .. Len(path) : w[i] = Compiled!Onward(w[i - 1], path[i])
  BY WalkIs
<1>2. KeyOf(r) \in Seq(KeySegs) /\ Len(KeyOf(r)) = Len(path)
  <2>1. KeyFits(KeyOf(r), path)
    BY FitsIs DEF RoutesInv, Compiled!Fits
  <2> QED
    BY <2>1, RouteIs DEF RoutesInv, KeyFits
<1>3. Begin(KeyOf(r), 0) = <<>> /\ Begin(KeyOf(r), Len(path)) = KeyOf(r)
  BY ONLY <1>2, BeginEnds
<1> HIDE DEF w
<1>4. 0 \in A
  BY ONLY <1>0, <1>1, <1>3
<1>5. ASSUME NEW i \in 0 .. Len(path), i < Len(path), i \in A PROVE i + 1 \in A
  <2>1. i + 1 \in 1 .. Len(path) /\ i + 1 \in 0 .. Len(path) /\ (i + 1) - 1 = i
    BY ONLY <1>0, i \in 0 .. Len(path), i < Len(path)
  <2>2. w[i + 1] = Compiled!Onward({Begin(KeyOf(r), i)}, path[i + 1])
    BY ONLY <1>1, <1>5, <2>1
  <2>3. Compiled!Child(Begin(KeyOf(r), (i + 1) - 1), path[i + 1]) = {Begin(KeyOf(r), i + 1)}
    BY <2>1, TheOneChild
  <2>4. w[i + 1] = {Begin(KeyOf(r), i + 1)}
    BY ONLY <2>1, <2>2, <2>3 DEF Compiled!Onward
  <2> QED
    BY ONLY <2>1, <2>4
<1> HIDE DEF A
<1>6. \A i \in 0 .. Len(path) : i \in A
  BY ONLY <1>0, <1>4, <1>5, Climb
<1>7. w[Len(path)] = {Begin(KeyOf(r), Len(path))}
  BY ONLY <1>0, <1>6 DEF A
<1> QED
  BY ONLY <1>3, <1>7 DEF w

(* The second half: where no choice can be wrong, what fits is served.     *)
LEMMA ServesAll == RoutesInv => Compiled!ServedIfFits
<1> SUFFICES ASSUME RoutesInv, Compiled!OneKind, Compiled!IntsAgree, NEW q \in Compiled!Requests,
                    NEW r \in Compiled!Live, Compiled!Fits(routes[r].pattern, q[1]),
                    routes[r].method = q[2]
             PROVE  Compiled!Match(q[1], q[2]) = {<<q[2], r>>}
  BY DEF Compiled!ServedIfFits
<1>1. q[1] \in Seq(Segs)
  BY PathIs DEF Compiled!Requests
<1>2. r \in DOMAIN routes /\ r \in Interpreted!Live
  BY SameLive DEF Compiled!Live
<1>3. Compiled!Walk(q[1])[Len(q[1])] = {KeyOf(r)}
  BY <1>1, <1>2, WalkFollows
<1>4. leaves = handlers /\ KeyOf(r) \in DOMAIN handlers
  BY <1>2 DEF RoutesInv, HandlersInv
<1>5. PICK s \in Interpreted!Live : KeyOf(s) = KeyOf(r) /\ handlers[KeyOf(r)] = <<routes[s].method, s>>
  BY <1>4 DEF RoutesInv, HandlersInv
<1>6. s = r
  BY <1>2, <1>5, LiveOnce DEF RoutesInv
<1>7. leaves[KeyOf(r)] = <<q[2], r>>
  BY <1>4, <1>5, <1>6
<1>8. Compiled!Walk(q[1])[Len(q[1])] \cap DOMAIN leaves = {KeyOf(r)}
  BY ONLY <1>3, <1>4
<1>9. {leaves[n] : n \in Compiled!Walk(q[1])[Len(q[1])] \cap DOMAIN leaves} = {<<q[2], r>>}
  <2>1. PICK W, k : W = Compiled!Walk(q[1])[Len(q[1])] \cap DOMAIN leaves /\ k = KeyOf(r)
    OBVIOUS
  <2>2. W = {k} /\ leaves[k] = <<q[2], r>>
    BY ONLY <1>7, <1>8, <2>1
  <2>3. {leaves[n] : n \in W} = {<<q[2], r>>}
    BY ONLY <2>2
  <2> QED
    BY ONLY <2>1, <2>3
<1> QED
  BY ONLY <1>9 DEF Compiled!Match

----------------------------------------------------------------------------
(* The interpreted search.                                                 *)
Results == [route : Nat, params : Interpreted!Bindings]

(* The search gives a result where no segment is left,                     *)
LEMMA AtEndIs ==
  ASSUME RoutesInv, NEW node, NEW method, NEW ps \in Interpreted!Bindings
  PROVE  Interpreted!AtEnd(node, method, ps) \in Results
<1>1. CASE node \in DOMAIN handlers /\ handlers[node][1] = method
  <2>1. PICK r \in Interpreted!Live : r \in DOMAIN routes /\ handlers[node] = <<routes[r].method, r>>
    BY <1>1, LeafIs
  <2>2. r \in Nat
    BY <2>1, RouteIs DEF RoutesInv
  <2>3. handlers[node][2] \in Nat
    BY ONLY <2>1, <2>2
  <2> QED
    BY ONLY <1>1, <2>3, ps \in Interpreted!Bindings DEF Interpreted!AtEnd, Results
<1>2. CASE ~(node \in DOMAIN handlers /\ handlers[node][1] = method)
  BY ONLY <1>2, ps \in Interpreted!Bindings DEF Interpreted!AtEnd, Interpreted!Nothing, Results
<1> QED
  BY <1>1, <1>2

(* What is bound at the child.                                             *)
Bind(ps, child, seg) == [ps EXCEPT ![names[child]] = seg]

(* The name of a wildcard can be bound and taken back.                     *)
LEMMA BindIs ==
  ASSUME RoutesInv, NEW ps \in Interpreted!Bindings, NEW child \in nodes, IsWild(child), NEW seg \in Segs
  PROVE  /\ names[child] \in Params
         /\ Bind(ps, child, seg) \in Interpreted!Bindings
         /\ Interpreted!Unbind(ps, names[child]) \in Interpreted!Bindings
<1>1. names[child] \in Params
  BY DEF RoutesInv, NamesInv
<1> QED
  BY <1>1 DEF Bind, Interpreted!Bindings, Interpreted!Unbind

(* ... at a child,                                                         *)
LEMMA TryIs ==
  ASSUME RoutesInv, NEW child, NEW seg \in Segs, NEW ps \in Interpreted!Bindings,
         NEW below \in [Interpreted!Places -> Results]
  PROVE  Interpreted!Try(child, seg, ps, below) \in Results
<1>1. CASE child \notin nodes
  BY ONLY <1>1, ps \in Interpreted!Bindings DEF Interpreted!Try, Interpreted!Nothing, Results
<1>2. CASE child \in nodes /\ ~IsWild(child)
  <2>1. <<child, ps>> \in Interpreted!Places
    BY <1>2 DEF Interpreted!Places
  <2>2. below[<<child, ps>>] \in Results
    BY ONLY <2>1, below \in [Interpreted!Places -> Results]
  <2> QED
    BY ONLY <1>2, <2>2 DEF Interpreted!Try, IsWild
<1>3. CASE child \in nodes /\ IsWild(child)
  <2>1. Bind(ps, child, seg) \in Interpreted!Bindings
    BY <1>3, BindIs
  <2>2. PICK found : found = below[<<child, Bind(ps, child, seg)>>]
    OBVIOUS
  <2>3. <<child, Bind(ps, child, seg)>> \in Interpreted!Places
    BY ONLY <1>3, <2>1 DEF Interpreted!Places
  <2>4. found \in Results
    BY ONLY <2>2, <2>3, below \in [Interpreted!Places -> Results]
  <2>5. found.params \in Interpreted!Bindings
    BY ONLY <2>4 DEF Results
  <2>6. Interpreted!Nothing(Interpreted!Unbind(found.params, names[child])) \in Results
    <3>1. Interpreted!Unbind(found.params, names[child]) \in Interpreted!Bindings
      BY <1>3, <2>5, BindIs
    <3> QED
      BY ONLY <3>1 DEF Interpreted!Nothing, Results
  <2>7. Interpreted!Try(child, seg, ps, below) =
          IF found.route # 0 THEN found ELSE Interpreted!Nothing(Interpreted!Unbind(found.params, names[child]))
    BY ONLY <1>3, <2>2 DEF Interpreted!Try, IsWild, Bind
  <2> QED
    BY ONLY <2>4, <2>6, <2>7
<1> QED
  BY <1>1, <1>2, <1>3

(* ... and below a node.                                                   *)
LEMMA BelowIs ==
  ASSUME RoutesInv, NEW node, NEW seg \in Segs, NEW ps \in Interpreted!Bindings,
         NEW below \in [Interpreted!Places -> Results]
  PROVE  Interpreted!Below(node, seg, ps, below) \in Results
<1>1. PICK first : first = Interpreted!Try(Append(node, seg), seg, ps, below)
  OBVIOUS
<1>2. first \in Results
  BY <1>1, TryIs
<1>3. first.params \in Interpreted!Bindings
  BY ONLY <1>2 DEF Results
<1>4. Interpreted!Try(Append(node, Wild), seg, first.params, below) \in Results
  BY <1>3, TryIs
<1> QED
  BY ONLY <1>1, <1>2, <1>4 DEF Interpreted!Below

(* The search as a function of the number of segments left.                *)
LEMMA FindIs ==
  ASSUME RoutesInv, NEW path \in Seq(Segs), NEW method, NEW f, f = Interpreted!Find(path, method)
  PROVE  /\ f \in [0 .. Len(path) -> [Interpreted!Places -> Results]]
         /\ f[0] = Interpreted!FoundAtEnd(method)
         /\ \A k \in 1 .. Len(path) : f[k] = Interpreted!FoundFrom(path[Len(path) - k + 1], f[k - 1])
<1> DEFINE D == [Interpreted!Places -> Results]
<1> DEFINE b == Interpreted!FoundAtEnd(method)
<1>1. PICK m \in Nat : m = Len(path)
  OBVIOUS
<1>2. PICK step : step = [x \in (1 .. m) \X D |-> Interpreted!FoundFrom(path[m - x[1] + 1], x[2])]
  OBVIOUS
<1>3. \A at \in Interpreted!Places : at[2] \in Interpreted!Bindings
  BY DEF Interpreted!Places
<1>4. b \in D
  BY <1>3, AtEndIs DEF Interpreted!FoundAtEnd
<1>5. \A k \in 1 .. m : path[m - k + 1] \in Segs
  <2> SUFFICES ASSUME NEW k \in 1 .. m PROVE path[m - k + 1] \in Segs
    OBVIOUS
  <2>1. m - k + 1 \in 1 .. m
    BY ONLY m \in Nat, k \in 1 .. m
  <2> QED
    BY ONLY <1>1, <2>1, path \in Seq(Segs)
<1>6. \A seg \in Segs, below \in D : Interpreted!FoundFrom(seg, below) \in D
  BY <1>3, BelowIs DEF Interpreted!FoundFrom
<1> HIDE DEF D, b
<1>7. step \in [(1 .. m) \X D -> D]
  <2>1. \A x \in (1 .. m) \X D : Interpreted!FoundFrom(path[m - x[1] + 1], x[2]) \in D
    BY ONLY <1>5, <1>6
  <2> QED
    BY ONLY <1>2, <2>1
<1>8. PICK g : Follows(g, m, D, b, step)
  BY ONLY m \in Nat, <1>4, <1>7, Recurs
<1>9. g \in [0 .. m -> D] /\ g[0] = b /\ \A k \in 1 .. m : g[k] = step[<<k, g[k - 1]>>]
  BY ONLY <1>8 DEF Follows
<1>10. \A k \in 1 .. m : g[k] = Interpreted!FoundFrom(path[m - k + 1], g[k - 1])
  <2> SUFFICES ASSUME NEW k \in 1 .. m PROVE g[k] = Interpreted!FoundFrom(path[m - k + 1], g[k - 1])
    OBVIOUS
  <2>1. g[k - 1] \in D
    BY ONLY m \in Nat, <1>9, k \in 1 .. m
  <2>2. <<k, g[k - 1]>> \in (1 .. m) \X D
    BY ONLY <2>1, k \in 1 .. m
  <2>3. step[<<k, g[k - 1]>>] = Interpreted!FoundFrom(path[m - k + 1], g[k - 1])
    BY ONLY <1>2, <2>2
  <2> QED
    BY ONLY <1>9, <2>3, k \in 1 .. m
<1>11. \E h : h = [k \in 0 .. m |-> IF k = 0 THEN b ELSE Interpreted!FoundFrom(path[m - k + 1], h[k - 1])]
  <2>1. \A k \in 0 .. m : g[k] = IF k = 0 THEN b ELSE Interpreted!FoundFrom(path[m - k + 1], g[k - 1])
    BY ONLY m \in Nat, <1>9, <1>10
  <2>2. g = [k \in 0 .. m |-> IF k = 0 THEN b ELSE Interpreted!FoundFrom(path[m - k + 1], g[k - 1])]
    BY ONLY <1>9, <2>1
  <2> QED
    BY ONLY <2>2
<1>12. f = CHOOSE h : h = [k \in 0 .. Len(path) |->
             IF k = 0 THEN b ELSE Interpreted!FoundFrom(path[Len(path) - k + 1], h[k - 1])]
  BY Zenon DEF Interpreted!Find, b
<1>13. f = [k \in 0 .. m |-> IF k = 0 THEN b ELSE Interpreted!FoundFrom(path[m - k + 1], f[k - 1])]
  BY ONLY <1>1, <1>11, <1>12, Zenon
<1>14. f[0] = b /\ DOMAIN f = 0 .. m
  <2>1. 0 \in 0 .. m
    BY ONLY m \in Nat
  <2> QED
    BY ONLY <1>13, <2>1
<1>15. \A k \in 1 .. m : f[k] = Interpreted!FoundFrom(path[m - k + 1], f[k - 1])
  <2> SUFFICES ASSUME NEW k \in 1 .. m PROVE f[k] = Interpreted!FoundFrom(path[m - k + 1], f[k - 1])
    OBVIOUS
  <2>1. k \in 0 .. m /\ k # 0
    BY ONLY m \in Nat, k \in 1 .. m
  <2> QED
    BY ONLY <1>13, <2>1
<1>16. f \in [0 .. m -> D]
  <2> DEFINE A == {k \in 0 .. m : f[k] \in D}
  <2>1. 0 \in A
    BY ONLY m \in Nat, <1>4, <1>14
  <2>2. \A k \in 0 .. m : k < m /\ k \in A => k + 1 \in A
    <3> SUFFICES ASSUME NEW k \in 0 .. m, k < m, f[k] \in D PROVE k + 1 \in A
      OBVIOUS
    <3>1. k + 1 \in 1 .. m /\ k + 1 \in 0 .. m /\ (k + 1) - 1 = k
      BY ONLY m \in Nat, k \in 0 .. m, k < m
    <3>2. f[k + 1] = Interpreted!FoundFrom(path[m - (k + 1) + 1], f[k])
      BY ONLY <1>15, <3>1
    <3>3. f[k + 1] \in D
      BY ONLY <1>5, <1>6, <3>1, <3>2, f[k] \in D
    <3> QED
      BY ONLY <3>1, <3>3
  <2> HIDE DEF A
  <2>3. \A k \in 0 .. m : k \in A
    BY ONLY m \in Nat, <2>1, <2>2, Climb
  <2>4. \A k \in 0 .. m : f[k] \in D
    BY ONLY <2>3 DEF A
  <2>5. f = [k \in 0 .. m |-> f[k]]
    BY ONLY <1>13
  <2> QED
    BY ONLY <2>4, <2>5
<1> QED
  BY ONLY <1>1, <1>14, <1>15, <1>16 DEF D, b
----------------------------------------------------------------------------
(* The live routes of the method that a search may find from a node on.    *)
Reach(node, path, method) ==
  {r \in Interpreted!Live :
     /\ routes[r].method = method
     /\ Len(KeyOf(r)) = Len(path) /\ Begin(KeyOf(r), Len(node)) = node
     /\ \A i \in Len(node) + 1 .. Len(path) : KeyOf(r)[i] = path[i] \/ KeyOf(r)[i] = Wild}

(* The one of them that is preferred to all others, or 0.                  *)
BestOf(set, found) ==
  IF set = {} THEN found = 0
  ELSE found \in set /\ \A r \in set \ {found} : Interpreted!Preferred(found, r)

(* What a search may find are live routes as long as the path.             *)
LEMMA ReachIs ==
  ASSUME RoutesInv, NEW path \in Seq(Segs), NEW method, NEW node \in Seq(KeySegs),
         NEW r \in Reach(node, path, method)
  PROVE  /\ r \in Interpreted!Live /\ r \in DOMAIN routes /\ r \in Nat /\ r # 0
         /\ KeyOf(r) \in Seq(KeySegs) /\ Len(KeyOf(r)) = Len(path) /\ Len(path) \in Nat
<1>1. r \in Interpreted!Live /\ r \in DOMAIN routes /\ Len(KeyOf(r)) = Len(path)
  BY DEF Reach, Interpreted!Live
<1>2. r \in Nat /\ r # 0 /\ KeyOf(r) \in Seq(KeySegs)
  BY <1>1, RouteIs DEF RoutesInv
<1> QED
  BY <1>1, <1>2

(* Where no segment is left: the route of the node, if it has the method.  *)
LEMMA BestAtEnd ==
  ASSUME RoutesInv, NEW path \in Seq(Segs), NEW method, NEW node \in Seq(KeySegs),
         Len(node) = Len(path), NEW ps
  PROVE  BestOf(Reach(node, path, method), Interpreted!AtEnd(node, method, ps).route)
<1>1. \A r : r \in Reach(node, path, method) <=>
               r \in Interpreted!Live /\ routes[r].method = method /\ KeyOf(r) = node
  <2> SUFFICES ASSUME NEW r \in Interpreted!Live
               PROVE  r \in Reach(node, path, method) <=> routes[r].method = method /\ KeyOf(r) = node
    BY DEF Reach
  <2>1. KeyOf(r) \in Seq(KeySegs)
    BY RouteIs DEF RoutesInv, Interpreted!Live
  <2>2. Begin(KeyOf(r), Len(KeyOf(r))) = KeyOf(r)
    BY <2>1, BeginEnds
  <2>3. Len(path) \in Nat /\ \A i \in Len(path) + 1 .. Len(path) : FALSE
    OBVIOUS
  <2> QED
    BY ONLY <2>2, <2>3, Len(node) = Len(path), r \in Interpreted!Live DEF Reach
<1>2. CASE node \in DOMAIN handlers /\ handlers[node][1] = method
  <2>1. PICK r \in Interpreted!Live : /\ r \in DOMAIN routes /\ KeyOf(r) = node
                                      /\ handlers[node] = <<routes[r].method, r>>
    BY <1>2, LeafIs
  <2>2. Interpreted!AtEnd(node, method, ps).route = r
    BY ONLY <1>2, <2>1 DEF Interpreted!AtEnd
  <2>3. r \in Reach(node, path, method)
    BY <1>1, <1>2, <2>1
  <2>4. \A s \in Reach(node, path, method) : s = r
    BY <1>1, <2>1, LiveOnce DEF RoutesInv
  <2> QED
    BY ONLY <2>2, <2>3, <2>4 DEF BestOf
<1>3. CASE ~(node \in DOMAIN handlers /\ handlers[node][1] = method)
  <2>1. ASSUME NEW r \in Reach(node, path, method) PROVE FALSE
    <3>1. r \in Interpreted!Live /\ routes[r].method = method /\ KeyOf(r) = node /\ r \in DOMAIN routes
      BY <1>1, ReachIs
    <3>2. node \in DOMAIN handlers
      BY <3>1 DEF RoutesInv, HandlersInv
    <3>3. PICK s \in Interpreted!Live : KeyOf(s) = node /\ handlers[node] = <<routes[s].method, s>>
      BY <3>2, LeafIs
    <3>4. s = r
      BY <3>1, <3>3, LiveOnce DEF RoutesInv
    <3> QED
      BY ONLY <1>3, <3>1, <3>2, <3>3, <3>4
  <2>2. Interpreted!AtEnd(node, method, ps).route = 0
    BY ONLY <1>3 DEF Interpreted!AtEnd, Interpreted!Nothing
  <2> QED
    BY ONLY <2>1, <2>2 DEF BestOf
<1> QED
  BY <1>2, <1>3

(* From a node on, the routes are those of its two children.               *)
LEMMA ReachSplits ==
  ASSUME RoutesInv, NEW path \in Seq(Segs), NEW method, NEW node \in Seq(KeySegs),
         NEW i \in 1 .. Len(path), Len(node) = i - 1
  PROVE  Reach(node, path, method) =
           Reach(Append(node, path[i]), path, method) \cup Reach(Append(node, Wild), path, method)
<1>1. i \in Nat /\ path[i] \in KeySegs /\ Wild \in KeySegs
  BY DEF KeySegs
<1>2. ASSUME NEW e \in KeySegs, NEW r \in Interpreted!Live,
             KeyOf(r) \in Seq(KeySegs), Len(KeyOf(r)) = Len(path)
      PROVE  Begin(KeyOf(r), i) = Append(node, e) <=> (Begin(KeyOf(r), i - 1) = node /\ KeyOf(r)[i] = e)
  <2>1. PICK k : k = KeyOf(r)
    OBVIOUS
  <2>2. k \in Seq(KeySegs) /\ i \in 1 .. Len(k) /\ k[i] \in KeySegs
    BY ONLY <1>2, <2>1, i \in 1 .. Len(path)
  <2>3. Begin(k, i) = Append(Begin(k, i - 1), k[i])
    BY ONLY <2>2, BeginGrows
  <2>4. i - 1 \in 0 .. Len(k)
    BY ONLY <1>1, <2>2
  <2>5. Begin(k, i - 1) \in Seq(KeySegs)
    BY ONLY <2>2, <2>4, BeginIs
  <2>6. Append(Begin(k, i - 1), k[i]) = Append(node, e) => (Begin(k, i - 1) = node /\ k[i] = e)
    BY ONLY <2>2, <2>5, e \in KeySegs, node \in Seq(KeySegs), AppendInjective
  <2> QED
    BY ONLY <2>1, <2>3, <2>6
<1>3. \A e \in KeySegs : Len(Append(node, e)) = i
  BY ONLY <1>1, node \in Seq(KeySegs), Len(node) = i - 1
<1>4. ASSUME NEW r
      PROVE  r \in Reach(node, path, method) <=>
               r \in Reach(Append(node, path[i]), path, method) \/ r \in Reach(Append(node, Wild), path, method)
  <2>1. CASE r \in Interpreted!Live /\ Len(KeyOf(r)) = Len(path) /\ routes[r].method = method
    <3>1. KeyOf(r) \in Seq(KeySegs)
      BY <2>1, RouteIs DEF RoutesInv, Interpreted!Live
    <3>2. PICK k, seg : k = KeyOf(r) /\ seg = path[i]
      OBVIOUS
    <3>3. \A e \in KeySegs : Begin(k, i) = Append(node, e) <=> (Begin(k, i - 1) = node /\ k[i] = e)
      BY ONLY <1>2, <2>1, <3>1, <3>2
    <3>4. \A e \in KeySegs : r \in Reach(Append(node, e), path, method) <=>
            /\ Begin(k, i - 1) = node /\ k[i] = e
            /\ \A j \in i + 1 .. Len(path) : k[j] = path[j] \/ k[j] = Wild
      BY ONLY <1>3, <2>1, <3>2, <3>3 DEF Reach
    <3>5. r \in Reach(node, path, method) <=>
            /\ Begin(k, i - 1) = node
            /\ \A j \in i .. Len(path) : k[j] = path[j] \/ k[j] = Wild
      <4>1. Len(node) + 1 = i
        BY ONLY <1>1, Len(node) = i - 1
      <4> QED
        BY ONLY <2>1, <3>2, <4>1, Len(node) = i - 1 DEF Reach
    <3>6. (\A j \in i .. Len(path) : k[j] = path[j] \/ k[j] = Wild) <=>
             /\ k[i] = seg \/ k[i] = Wild
             /\ \A j \in i + 1 .. Len(path) : k[j] = path[j] \/ k[j] = Wild
      <4>1. \A j : j \in i .. Len(path) <=> j = i \/ j \in i + 1 .. Len(path)
        BY ONLY i \in 1 .. Len(path), path \in Seq(Segs)
      <4> QED
        BY ONLY <3>2, <4>1
    <3> QED
      BY ONLY <1>1, <3>2, <3>4, <3>5, <3>6
  <2>2. CASE ~(r \in Interpreted!Live /\ Len(KeyOf(r)) = Len(path) /\ routes[r].method = method)
    BY ONLY <2>2 DEF Reach
  <2> QED
    BY <2>1, <2>2
<1> QED
  BY <1>4

(* Behind a child that is missing there are none.                          *)
LEMMA ReachNone ==
  ASSUME RoutesInv, NEW path \in Seq(Segs), NEW method, NEW child \in Seq(KeySegs),
         Len(child) \in 1 .. Len(path), child \notin nodes
  PROVE  Reach(child, path, method) = {}
<1> SUFFICES ASSUME NEW r \in Reach(child, path, method) PROVE FALSE
  OBVIOUS
<1>1. r \in DOMAIN routes /\ Len(KeyOf(r)) = Len(path)
  BY ReachIs
<1>2. Begin(KeyOf(r), Len(child)) = child
  BY DEF Reach
<1>3. Through(child, r)
  BY <1>1, <1>2 DEF Through
<1> QED
  BY <1>1, <1>3 DEF RoutesInv, NodesInv

(* A route behind the literal child is preferred to one behind the         *)
(* wildcard.                                                               *)
LEMMA LiteralPreferred ==
  ASSUME RoutesInv, NEW path \in Seq(Segs), NEW method, NEW node \in Seq(KeySegs),
         NEW i \in 1 .. Len(path), Len(node) = i - 1,
         NEW r \in Reach(Append(node, path[i]), path, method),
         NEW s \in Reach(Append(node, Wild), path, method)
  PROVE  Interpreted!Preferred(r, s)
<1>1. PICK k, o, seg : k = KeyOf(r) /\ o = KeyOf(s) /\ seg = path[i]
  OBVIOUS
<1>2. i \in Nat /\ seg \in Segs /\ seg # Wild /\ seg \in KeySegs /\ Wild \in KeySegs
  BY <1>1, RoutesAssumption DEF KeySegs
<1>3. Append(node, seg) \in Seq(KeySegs) /\ Append(node, Wild) \in Seq(KeySegs)
  BY <1>2
<1>4. k \in Seq(KeySegs) /\ Len(k) = Len(path)
  BY <1>1, <1>3, ReachIs
<1>5. o \in Seq(KeySegs) /\ Len(o) = Len(path)
  BY <1>1, <1>3, ReachIs
<1>6. Len(Append(node, seg)) = i /\ Len(Append(node, Wild)) = i
  BY ONLY <1>2, node \in Seq(KeySegs), Len(node) = i - 1
<1>7. Begin(k, i) = Append(node, seg) /\ Begin(o, i) = Append(node, Wild)
  BY <1>1, <1>6 DEF Reach
<1>8. i \in 0 .. Len(k) /\ i \in 0 .. Len(o) /\ i \in 1 .. i /\ DOMAIN k = 1 .. Len(k) /\ i \in DOMAIN k
  BY ONLY <1>2, <1>4, <1>5, i \in 1 .. Len(path)
<1>9. \A j \in 1 .. i : Append(node, seg)[j] = k[j] /\ Append(node, Wild)[j] = o[j]
  BY ONLY <1>4, <1>5, <1>7, <1>8, BeginIs
<1>10. k[i] = seg /\ o[i] = Wild
  <2>1. Append(node, seg)[i] = seg /\ Append(node, Wild)[i] = Wild
    BY ONLY <1>2, node \in Seq(KeySegs), Len(node) = i - 1
  <2> QED
    BY ONLY <1>8, <1>9, <2>1
<1>11. \A j \in 1 .. i - 1 : k[j] = o[j]
  <2>1. \A j \in 1 .. i - 1 : j \in 1 .. i /\ Append(node, seg)[j] = Append(node, Wild)[j]
    BY ONLY <1>2, node \in Seq(KeySegs), Len(node) = i - 1
  <2> QED
    BY ONLY <1>9, <2>1
<1>12. \E j \in DOMAIN k : k[j] # o[j] /\ o[j] = Wild /\ \A h \in 1 .. j - 1 : k[h] = o[h]
  BY ONLY <1>2, <1>8, <1>10, <1>11
<1> QED
  BY ONLY <1>1, <1>12 DEF Interpreted!Preferred, KeyOf

(* The best of one set, or of another whose members come after.            *)
LEMMA BestOfBoth ==
  ASSUME NEW A, NEW B, NEW a, NEW b, BestOf(A, a), BestOf(B, b), 0 \notin A,
         \A r \in A, s \in B : Interpreted!Preferred(r, s)
  PROVE  BestOf(A \cup B, IF a # 0 THEN a ELSE b)
<1>1. CASE A = {}
  BY ONLY <1>1, BestOf(A, a), BestOf(B, b) DEF BestOf
<1>2. CASE A # {}
  <2>1. a \in A /\ a # 0 /\ \A r \in A \ {a} : Interpreted!Preferred(a, r)
    BY ONLY <1>2, BestOf(A, a), 0 \notin A DEF BestOf
  <2>2. \A r \in (A \cup B) \ {a} : Interpreted!Preferred(a, r)
    BY ONLY <2>1, \A r \in A, s \in B : Interpreted!Preferred(r, s)
  <2> QED
    BY ONLY <2>1, <2>2 DEF BestOf
<1> QED
  BY <1>1, <1>2

(* What a function of the places gives is the best from each of the nodes  *)
(* of a length.                                                            *)
FindsBest(below, n, path, method) ==
  \A at \in Interpreted!Places :
    Len(at[1]) = n => BestOf(Reach(at[1], path, method), below[at].route)

(* A search through a child finds the best behind it,                      *)
LEMMA BestOfTry ==
  ASSUME RoutesInv, NEW path \in Seq(Segs), NEW method, NEW child \in Seq(KeySegs),
         Len(child) \in 1 .. Len(path), NEW seg \in Segs, NEW ps \in Interpreted!Bindings,
         NEW below, FindsBest(below, Len(child), path, method)
  PROVE  BestOf(Reach(child, path, method), Interpreted!Try(child, seg, ps, below).route)
<1>1. CASE child \notin nodes
  <2>1. Interpreted!Try(child, seg, ps, below).route = 0
    BY ONLY <1>1 DEF Interpreted!Try, Interpreted!Nothing
  <2>2. Reach(child, path, method) = {}
    BY <1>1, ReachNone
  <2> QED
    BY ONLY <2>1, <2>2 DEF BestOf
<1>2. CASE child \in nodes /\ ~IsWild(child)
  <2>1. <<child, ps>> \in Interpreted!Places
    BY ONLY <1>2, ps \in Interpreted!Bindings DEF Interpreted!Places
  <2>2. BestOf(Reach(child, path, method), below[<<child, ps>>].route)
    BY ONLY <2>1, FindsBest(below, Len(child), path, method) DEF FindsBest
  <2>3. Interpreted!Try(child, seg, ps, below) = below[<<child, ps>>]
    BY ONLY <1>2 DEF Interpreted!Try, IsWild
  <2> QED
    BY ONLY <2>2, <2>3
<1>3. CASE child \in nodes /\ IsWild(child)
  <2>1. Bind(ps, child, seg) \in Interpreted!Bindings
    BY <1>3, BindIs
  <2>2. <<child, Bind(ps, child, seg)>> \in Interpreted!Places
    BY ONLY <1>3, <2>1 DEF Interpreted!Places
  <2>3. PICK found : found = below[<<child, Bind(ps, child, seg)>>]
    OBVIOUS
  <2>4. BestOf(Reach(child, path, method), found.route)
    BY ONLY <2>2, <2>3, FindsBest(below, Len(child), path, method) DEF FindsBest
  <2>5. Interpreted!Try(child, seg, ps, below) =
          IF found.route # 0 THEN found ELSE Interpreted!Nothing(Interpreted!Unbind(found.params, names[child]))
    BY ONLY <1>3, <2>3 DEF Interpreted!Try, IsWild, Bind
  <2>6. Interpreted!Try(child, seg, ps, below).route = found.route
    BY ONLY <2>5 DEF Interpreted!Nothing
  <2> QED
    BY ONLY <2>4, <2>6
<1> QED
  BY <1>1, <1>2, <1>3

(* ... and the one through both children the best behind the node.         *)
LEMMA BestOfBelow ==
  ASSUME RoutesInv, NEW path \in Seq(Segs), NEW method, NEW node \in Seq(KeySegs),
         NEW i \in 1 .. Len(path), Len(node) = i - 1, NEW ps \in Interpreted!Bindings,
         NEW below \in [Interpreted!Places -> Results], FindsBest(below, i, path, method)
  PROVE  BestOf(Reach(node, path, method), Interpreted!Below(node, path[i], ps, below).route)
<1>1. PICK seg, lit, wild : seg = path[i] /\ lit = Append(node, seg) /\ wild = Append(node, Wild)
  OBVIOUS
<1>2. i \in Nat /\ seg \in Segs /\ seg \in KeySegs /\ Wild \in KeySegs
  BY <1>1 DEF KeySegs
<1>3. /\ lit \in Seq(KeySegs) /\ Len(lit) = i /\ Len(lit) \in 1 .. Len(path)
      /\ wild \in Seq(KeySegs) /\ Len(wild) = i /\ Len(wild) \in 1 .. Len(path)
  BY ONLY <1>1, <1>2, node \in Seq(KeySegs), Len(node) = i - 1, i \in 1 .. Len(path)
<1>4. PICK first : first = Interpreted!Try(lit, seg, ps, below)
  OBVIOUS
<1>5. first.params \in Interpreted!Bindings
  BY <1>2, <1>4, TryIs DEF Results
<1>6. PICK next : next = Interpreted!Try(wild, seg, first.params, below)
  OBVIOUS
<1>7. BestOf(Reach(lit, path, method), first.route)
  BY <1>2, <1>3, <1>4, BestOfTry
<1>8. BestOf(Reach(wild, path, method), next.route)
  BY <1>2, <1>3, <1>5, <1>6, BestOfTry
<1>9. 0 \notin Reach(lit, path, method)
  BY <1>3, ReachIs
<1>10. \A r \in Reach(lit, path, method), s \in Reach(wild, path, method) : Interpreted!Preferred(r, s)
  BY <1>1, LiteralPreferred
<1>11. Reach(node, path, method) = Reach(lit, path, method) \cup Reach(wild, path, method)
  BY <1>1, ReachSplits
<1>12. Interpreted!Below(node, path[i], ps, below).route = IF first.route # 0 THEN first.route ELSE next.route
  BY ONLY <1>1, <1>4, <1>6 DEF Interpreted!Below
<1>13. BestOf(Reach(node, path, method), IF first.route # 0 THEN first.route ELSE next.route)
  <2>1. PICK A, B, a, b : /\ A = Reach(lit, path, method) /\ B = Reach(wild, path, method)
                          /\ a = first.route /\ b = next.route
    OBVIOUS
  <2>2. BestOf(A, a) /\ BestOf(B, b) /\ 0 \notin A
    BY ONLY <1>7, <1>8, <1>9, <2>1
  <2>3. \A r \in A, s \in B : Interpreted!Preferred(r, s)
    BY ONLY <1>10, <2>1
  <2>4. BestOf(A \cup B, IF a # 0 THEN a ELSE b)
    BY ONLY <2>2, <2>3, BestOfBoth
  <2> QED
    BY ONLY <1>11, <2>1, <2>4
<1> QED
  BY ONLY <1>12, <1>13

(* A place of the search is a node and what is bound there.                *)
LEMMA PlaceIs ==
  ASSUME RoutesInv, NEW at \in Interpreted!Places
  PROVE  at[1] \in Seq(KeySegs) /\ at[2] \in Interpreted!Bindings /\ at = <<at[1], at[2]>>
<1>1. at[1] \in nodes \cup {<<>>} /\ at[2] \in Interpreted!Bindings /\ at = <<at[1], at[2]>>
  BY DEF Interpreted!Places
<1>2. <<>> \in Seq(KeySegs)
  OBVIOUS
<1>3. at[1] \in nodes => at[1] \in Seq(KeySegs)
  BY NodeIs
<1> QED
  BY ONLY <1>1, <1>2, <1>3

(* The search finds the best from every node, by induction on the segments *)
(* left.                                                                   *)
LEMMA FindsTheBest ==
  ASSUME RoutesInv, NEW path \in Seq(Segs), NEW method
  PROVE  \A k \in 0 .. Len(path) :
           FindsBest(Interpreted!Find(path, method)[k], Len(path) - k, path, method)
<1>1. PICK f : f = Interpreted!Find(path, method)
  OBVIOUS
<1> DEFINE A == {k \in 0 .. Len(path) : FindsBest(f[k], Len(path) - k, path, method)}
<1>2. /\ f \in [0 .. Len(path) -> [Interpreted!Places -> Results]]
      /\ f[0] = Interpreted!FoundAtEnd(method)
      /\ \A k \in 1 .. Len(path) : f[k] = Interpreted!FoundFrom(path[Len(path) - k + 1], f[k - 1])
  BY <1>1, FindIs
<1>3. PICK m \in Nat : m = Len(path)
  OBVIOUS
<1>4. 0 \in A
  <2>1. m - 0 = m /\ 0 \in 0 .. m
    BY ONLY m \in Nat
  <2>2. ASSUME NEW at \in Interpreted!Places, Len(at[1]) = m
        PROVE  BestOf(Reach(at[1], path, method), f[0][at].route)
    <3>1. f[0][at] = Interpreted!AtEnd(at[1], method, at[2])
      BY ONLY <1>2, at \in Interpreted!Places DEF Interpreted!FoundAtEnd
    <3>2. at[1] \in Seq(KeySegs)
      BY PlaceIs
    <3>3. BestOf(Reach(at[1], path, method), Interpreted!AtEnd(at[1], method, at[2]).route)
      BY <1>3, <2>2, <3>2, BestAtEnd
    <3> QED
      BY ONLY <3>1, <3>3
  <2>3. FindsBest(f[0], m, path, method)
    BY ONLY <2>2 DEF FindsBest
  <2> QED
    BY ONLY <1>3, <2>1, <2>3
<1>5. ASSUME NEW k \in 0 .. m, k < m, k \in A PROVE k + 1 \in A
  <2>1. /\ k + 1 \in 1 .. m /\ k + 1 \in 0 .. m /\ (k + 1) - 1 = k
        /\ m - (k + 1) + 1 = m - k /\ m - k \in 1 .. m /\ (m - k) - 1 = m - (k + 1)
    BY ONLY m \in Nat, k \in 0 .. m, k < m
  <2>2. PICK i : i = m - k
    OBVIOUS
  <2>3. f[k + 1] = Interpreted!FoundFrom(path[i], f[k])
    BY ONLY <1>2, <1>3, <2>1, <2>2
  <2>4. f[k] \in [Interpreted!Places -> Results]
    BY ONLY <1>2, <1>3, k \in 0 .. m
  <2>5. FindsBest(f[k], i, path, method)
    BY ONLY <1>3, <1>5, <2>2
  <2>6. ASSUME NEW at \in Interpreted!Places, Len(at[1]) = m - (k + 1)
        PROVE  BestOf(Reach(at[1], path, method), f[k + 1][at].route)
    <3>1. f[k + 1][at] = Interpreted!Below(at[1], path[i], at[2], f[k])
      BY ONLY <2>3, at \in Interpreted!Places DEF Interpreted!FoundFrom
    <3>2. at[1] \in Seq(KeySegs) /\ at[2] \in Interpreted!Bindings
      BY PlaceIs
    <3>3. i \in 1 .. Len(path) /\ Len(at[1]) = i - 1
      BY ONLY <1>3, <2>1, <2>2, <2>6
    <3>4. BestOf(Reach(at[1], path, method), Interpreted!Below(at[1], path[i], at[2], f[k]).route)
      BY <2>4, <2>5, <3>2, <3>3, BestOfBelow
    <3> QED
      BY ONLY <3>1, <3>4
  <2>7. FindsBest(f[k + 1], m - (k + 1), path, method)
    BY ONLY <2>6 DEF FindsBest
  <2> QED
    BY ONLY <1>3, <2>1, <2>7
<1> HIDE DEF A
<1>6. \A k \in 0 .. m : k \in A
  BY ONLY m \in Nat, <1>3, <1>4, <1>5, Climb
<1> QED
  BY ONLY <1>1, <1>3, <1>6 DEF A

(* The best of the routes that fit a request is found.                     *)
LEMMA FindsBestRoute == RoutesInv => Interpreted!BestRouteFound
<1> SUFFICES ASSUME RoutesInv, NEW q \in Interpreted!Requests
             PROVE  LET fit   == {r \in Interpreted!Live :
                                    Interpreted!Fits(routes[r].pattern, q[1]) /\ routes[r].method = q[2]}
                        found == Interpreted!Match(q[1], q[2]).route
                    IN BestOf(fit, found)
  BY DEF Interpreted!BestRouteFound, BestOf
<1>1. q[1] \in Seq(Segs) /\ Len(q[1]) \in Nat
  <2>1. q[1] \in Seq(Segs)
    BY PathIs DEF Interpreted!Requests
  <2> QED
    BY ONLY <2>1
<1>2. {r \in Interpreted!Live : Interpreted!Fits(routes[r].pattern, q[1]) /\ routes[r].method = q[2]}
        = Reach(<<>>, q[1], q[2])
  <2> SUFFICES ASSUME NEW r \in Interpreted!Live
               PROVE  Interpreted!Fits(routes[r].pattern, q[1]) /\ routes[r].method = q[2]
                        <=> r \in Reach(<<>>, q[1], q[2])
    BY DEF Reach
  <2>1. r \in DOMAIN routes
    BY DEF Interpreted!Live
  <2>2. Interpreted!Fits(routes[r].pattern, q[1]) <=> KeyFits(KeyOf(r), q[1])
    BY <1>1, <2>1, FitsIs DEF RoutesInv
  <2>3. Begin(KeyOf(r), 0) = <<>>
    BY <2>1, RouteIs, BeginEnds DEF RoutesInv
  <2>4. Len(<<>>) = 0 /\ Len(<<>>) + 1 = 1
    OBVIOUS
  <2> QED
    BY ONLY <2>2, <2>3, <2>4, r \in Interpreted!Live DEF Reach, KeyFits
<1>3. Len(q[1]) \in 0 .. Len(q[1]) /\ Len(q[1]) - Len(q[1]) = 0
  BY ONLY <1>1
<1>4. FindsBest(Interpreted!Find(q[1], q[2])[Len(q[1])], 0, q[1], q[2])
  BY <1>1, <1>3, FindsTheBest
<1>5. <<<<>>, Interpreted!Unbound>> \in Interpreted!Places
  BY DEF Interpreted!Places, Interpreted!Bindings, Interpreted!Unbound
<1>6. Len(<<>>) = 0
  OBVIOUS
<1>7. BestOf(Reach(<<>>, q[1], q[2]), Interpreted!Match(q[1], q[2]).route)
  BY ONLY <1>4, <1>5, <1>6 DEF FindsBest, Interpreted!Match
<1> QED
  BY ONLY <1>2, <1>7
----------------------------------------------------------------------------
(* The name that a route binds at a place of its pattern.                  *)
Named(r, i) == names[Begin(KeyOf(r), i)]

(* Nothing is bound that a node deeper than n would bind.                  *)
Fresh(ps, n) == \A o \in DOMAIN names : Len(o) > n => ps[names[o]] = None

(* A search from a depth on leaves the parameters as they were, or those of*)
(* the route that it has found bound and no others touched.                *)
Binds(res, n, path, ps) ==
  IF res.route = 0 THEN res.params = ps
  ELSE \A name \in Params :
         /\ \A i \in n + 1 .. Len(path) :
              KeyOf(res.route)[i] = Wild /\ Named(res.route, i) = name => res.params[name] = path[i]
         /\ (\A i \in n + 1 .. Len(path) : KeyOf(res.route)[i] = Wild => Named(res.route, i) # name)
              => res.params[name] = ps[name]

(* A parameter of a route has a node and a name.                           *)
LEMMA NamedIs ==
  ASSUME RoutesInv, NEW r \in DOMAIN routes, NEW i \in 1 .. Len(KeyOf(r)), KeyOf(r)[i] = Wild
  PROVE  /\ Begin(KeyOf(r), i) \in DOMAIN names /\ Len(Begin(KeyOf(r), i)) = i
         /\ Named(r, i) \in Params
<1>1. PICK n : n = Begin(KeyOf(r), i)
  OBVIOUS
<1>2. KeyOf(r) \in Seq(KeySegs) /\ i \in 0 .. Len(KeyOf(r)) /\ i \in Nat
  BY RouteIs DEF RoutesInv
<1>3. Len(n) = i
  BY ONLY <1>1, <1>2, BeginIs
<1>4. Through(n, r)
  BY <1>1 DEF Through
<1>5. Interpreted!Last(n) = KeyOf(r)[i]
  BY ONLY RoutesInv, r \in DOMAIN routes, <1>3, <1>4, ThroughIs DEF RoutesInv
<1>6. n \in nodes /\ IsWild(n)
  BY <1>4, <1>5 DEF RoutesInv, NodesInv, IsWild
<1>7. n \in DOMAIN names /\ names[n] \in Params
  BY <1>6 DEF RoutesInv, NamesInv
<1> QED
  BY ONLY <1>1, <1>3, <1>7 DEF Named

(* The wildcard of a node is bound on the way to what is found below it,   *)
(* and bound no more when nothing is found.                                *)
LEMMA BindsWild ==
  ASSUME RoutesInv, Interpreted!NamesByDepth, NEW path \in Seq(Segs), NEW method,
         NEW child \in nodes, IsWild(child), NEW i \in 1 .. Len(path), Len(child) = i,
         NEW ps \in Interpreted!Bindings, Fresh(ps, i - 1),
         NEW found \in Results, Binds(found, i, path, Bind(ps, child, path[i])),
         found.route # 0 => found.route \in Reach(child, path, method)
  PROVE  Binds(IF found.route # 0 THEN found
               ELSE Interpreted!Nothing(Interpreted!Unbind(found.params, names[child])), i - 1, path, ps)
<1>1. child \in DOMAIN names /\ names[child] \in Params
  BY DEF RoutesInv, NamesInv
<1>2. PICK own : own = names[child]
  OBVIOUS
<1>3. i \in Nat /\ i > i - 1
  OBVIOUS
<1>4. ps[own] = None
  BY ONLY <1>1, <1>2, <1>3, Len(child) = i, Fresh(ps, i - 1) DEF Fresh
<1>5. PICK pt : pt = Bind(ps, child, path[i])
  OBVIOUS
<1>6. pt = [ps EXCEPT ![own] = path[i]]
  BY ONLY <1>2, <1>5 DEF Bind
<1>7. /\ ps \in [Params -> Segs \cup {None}] /\ own \in Params
      /\ pt[own] = path[i] /\ \A name \in Params \ {own} : pt[name] = ps[name]
  BY ONLY <1>1, <1>2, <1>6, ps \in Interpreted!Bindings DEF Interpreted!Bindings
<1>8. CASE found.route = 0
  <2>1. found.params = pt
    BY ONLY <1>5, <1>8, Binds(found, i, path, Bind(ps, child, path[i])) DEF Binds
  <2>2. Interpreted!Unbind(pt, own) = ps
    BY ONLY <1>4, <1>6, <1>7 DEF Interpreted!Unbind
  <2>3. Interpreted!Nothing(Interpreted!Unbind(found.params, names[child])) = [route |-> 0, params |-> ps]
    BY ONLY <1>2, <2>1, <2>2 DEF Interpreted!Nothing
  <2> QED
    BY ONLY <1>8, <2>3 DEF Binds
<1>9. CASE found.route # 0
  <2>1. PICK r, k : r = found.route /\ k = KeyOf(r)
    OBVIOUS
  <2>2. child \in Seq(KeySegs)
    BY NodeIs
  <2>3. /\ r \in DOMAIN routes /\ k \in Seq(KeySegs) /\ Len(k) = Len(path) /\ Len(path) \in Nat
    BY <1>9, <2>1, <2>2, ReachIs
  <2>4. Begin(k, i) = child
    BY ONLY <1>9, <2>1, Len(child) = i, found.route # 0 => found.route \in Reach(child, path, method) DEF Reach
  <2>5. Named(r, i) = own
    BY ONLY <1>2, <2>1, <2>4 DEF Named
  <2>6. ASSUME NEW j \in i + 1 .. Len(path), k[j] = Wild PROVE Named(r, j) # own /\ Named(r, j) \in Params
    <3>1. j \in 1 .. Len(KeyOf(r)) /\ j # i
      BY ONLY <1>3, <2>1, <2>3, j \in i + 1 .. Len(path)
    <3>2. /\ Begin(KeyOf(r), j) \in DOMAIN names /\ Len(Begin(KeyOf(r), j)) = j
          /\ Named(r, j) \in Params
      BY <2>1, <2>3, <2>6, <3>1, NamedIs
    <3>3. PICK n : n = Begin(KeyOf(r), j)
      OBVIOUS
    <3>4. names[n] # names[child]
      BY ONLY <1>1, <3>1, <3>2, <3>3, Len(child) = i, Interpreted!NamesByDepth DEF Interpreted!NamesByDepth
    <3> QED
      BY ONLY <1>2, <3>2, <3>3, <3>4 DEF Named
  <2>7. \A name \in Params :
          /\ \A j \in i + 1 .. Len(path) : k[j] = Wild /\ Named(r, j) = name => found.params[name] = path[j]
          /\ (\A j \in i + 1 .. Len(path) : k[j] = Wild => Named(r, j) # name) => found.params[name] = pt[name]
    BY ONLY <1>5, <1>9, <2>1, Binds(found, i, path, Bind(ps, child, path[i])) DEF Binds
  <2>8. found.params[own] = path[i]
    BY ONLY <1>7, <2>6, <2>7
  <2>9. \A j : j \in (i - 1) + 1 .. Len(path) <=> j = i \/ j \in i + 1 .. Len(path)
    BY ONLY i \in 1 .. Len(path), <2>3
  <2>9a. k[i] = Wild
    <3>1. Interpreted!Last(child) = Wild
      BY ONLY IsWild(child) DEF IsWild
    <3>2. i \in 0 .. Len(k) /\ i \in 1 .. i
      BY ONLY <2>3, i \in 1 .. Len(path)
    <3>3. child[i] = k[i]
      BY ONLY <2>3, <2>4, <3>2, BeginIs
    <3> QED
      BY ONLY <3>1, <3>3, Len(child) = i DEF Interpreted!Last
  <2>10. ASSUME NEW name \in Params
         PROVE  /\ \A j \in (i - 1) + 1 .. Len(path) : k[j] = Wild /\ Named(r, j) = name => found.params[name] = path[j]
                /\ (\A j \in (i - 1) + 1 .. Len(path) : k[j] = Wild => Named(r, j) # name)
                     => found.params[name] = ps[name]
    <3>1. \A j \in (i - 1) + 1 .. Len(path) : k[j] = Wild /\ Named(r, j) = name => found.params[name] = path[j]
      BY ONLY <2>5, <2>7, <2>8, <2>9, name \in Params
    <3>2. ASSUME \A j \in (i - 1) + 1 .. Len(path) : k[j] = Wild => Named(r, j) # name
          PROVE  found.params[name] = ps[name]
      <4>1. name # own
        BY ONLY <2>5, <2>9, <2>9a, <3>2
      <4>2. \A j \in i + 1 .. Len(path) : k[j] = Wild => Named(r, j) # name
        BY ONLY <2>9, <3>2
      <4> QED
        BY ONLY <1>7, <2>7, <4>1, <4>2, name \in Params
    <3> QED
      BY <3>1, <3>2
  <2> QED
    BY ONLY <1>9, <2>1, <2>10 DEF Binds
<1> QED
  BY <1>8, <1>9

(* Through a literal child nothing is bound.                               *)
LEMMA BindsLiteral ==
  ASSUME RoutesInv, NEW path \in Seq(Segs), NEW method,
         NEW child \in nodes, ~IsWild(child), NEW i \in 1 .. Len(path), Len(child) = i,
         NEW ps, NEW found, Binds(found, i, path, ps),
         found.route # 0 => found.route \in Reach(child, path, method)
  PROVE  Binds(found, i - 1, path, ps)
<1>1. CASE found.route = 0
  BY ONLY <1>1, Binds(found, i, path, ps) DEF Binds
<1>2. CASE found.route # 0
  <2>1. PICK r, k : r = found.route /\ k = KeyOf(r)
    OBVIOUS
  <2>2. child \in Seq(KeySegs)
    BY NodeIs
  <2>3. /\ r \in DOMAIN routes /\ k \in Seq(KeySegs) /\ Len(k) = Len(path) /\ Len(path) \in Nat
    BY <1>2, <2>1, <2>2, ReachIs
  <2>4. Begin(k, i) = child
    BY ONLY <1>2, <2>1, Len(child) = i, found.route # 0 => found.route \in Reach(child, path, method) DEF Reach
  <2>5. k[i] # Wild
    <3>1. Interpreted!Last(child) # Wild
      BY ONLY ~IsWild(child) DEF IsWild
    <3>2. i \in 0 .. Len(k) /\ i \in 1 .. i
      BY ONLY <2>3, i \in 1 .. Len(path)
    <3>3. child[i] = k[i]
      BY ONLY <2>3, <2>4, <3>2, BeginIs
    <3> QED
      BY ONLY <3>1, <3>3, Len(child) = i DEF Interpreted!Last
  <2>6. \A j : j \in (i - 1) + 1 .. Len(path) <=> j = i \/ j \in i + 1 .. Len(path)
    BY ONLY i \in 1 .. Len(path), <2>3
  <2>7. \A name \in Params :
          /\ \A j \in i + 1 .. Len(path) : k[j] = Wild /\ Named(r, j) = name => found.params[name] = path[j]
          /\ (\A j \in i + 1 .. Len(path) : k[j] = Wild => Named(r, j) # name) => found.params[name] = ps[name]
    BY ONLY <1>2, <2>1, Binds(found, i, path, ps) DEF Binds
  <2>8. \A name \in Params :
          /\ \A j \in (i - 1) + 1 .. Len(path) : k[j] = Wild /\ Named(r, j) = name => found.params[name] = path[j]
          /\ (\A j \in (i - 1) + 1 .. Len(path) : k[j] = Wild => Named(r, j) # name) => found.params[name] = ps[name]
    BY ONLY <2>5, <2>6, <2>7
  <2> QED
    BY ONLY <1>2, <2>1, <2>8 DEF Binds
<1> QED
  BY <1>1, <1>2

(* What a function of the places binds at the nodes of a length.           *)
FindsBinds(below, n, path) ==
  \A at \in Interpreted!Places :
    Len(at[1]) = n /\ Fresh(at[2], n) => Binds(below[at], n, path, at[2])

(* What a child binds,                                                     *)
LEMMA BindsTry ==
  ASSUME RoutesInv, Interpreted!NamesByDepth, NEW path \in Seq(Segs), NEW method,
         NEW child \in Seq(KeySegs), NEW i \in 1 .. Len(path), Len(child) = i,
         NEW ps \in Interpreted!Bindings, Fresh(ps, i - 1),
         NEW below \in [Interpreted!Places -> Results],
         FindsBest(below, i, path, method), FindsBinds(below, i, path)
  PROVE  Binds(Interpreted!Try(child, path[i], ps, below), i - 1, path, ps)
<1>0. i \in Nat /\ path[i] \in Segs
  OBVIOUS
<1>1. CASE child \notin nodes
  <2>1. Interpreted!Try(child, path[i], ps, below) = [route |-> 0, params |-> ps]
    BY ONLY <1>1 DEF Interpreted!Try, Interpreted!Nothing
  <2> QED
    BY ONLY <2>1 DEF Binds
<1>2. ASSUME child \in nodes, NEW pt \in Interpreted!Bindings, NEW found, found = below[<<child, pt>>]
      PROVE  /\ found \in Results
             /\ found.route # 0 => found.route \in Reach(child, path, method)
             /\ Fresh(pt, i) => Binds(found, i, path, pt)
  <2>1. PICK at : at = <<child, pt>>
    OBVIOUS
  <2>2. at \in Interpreted!Places /\ Len(at[1]) = i /\ at[1] = child /\ at[2] = pt
    BY ONLY <1>2, <2>1, Len(child) = i DEF Interpreted!Places
  <2>3. found \in Results
    BY ONLY <1>2, <2>1, <2>2, below \in [Interpreted!Places -> Results]
  <2>4. BestOf(Reach(child, path, method), found.route)
    BY ONLY <1>2, <2>1, <2>2, FindsBest(below, i, path, method) DEF FindsBest
  <2>5. Fresh(pt, i) => Binds(found, i, path, pt)
    BY ONLY <1>2, <2>1, <2>2, FindsBinds(below, i, path) DEF FindsBinds
  <2> QED
    BY ONLY <2>3, <2>4, <2>5 DEF BestOf
<1>3. CASE child \in nodes /\ ~IsWild(child)
  <2>1. PICK found : found = below[<<child, ps>>]
    OBVIOUS
  <2>2. Interpreted!Try(child, path[i], ps, below) = found
    BY ONLY <1>3, <2>1 DEF Interpreted!Try, IsWild
  <2>3. Fresh(ps, i)
    <3>1. \A o \in DOMAIN names : Len(o) \in Nat
      BY NodeIs DEF RoutesInv, NamesInv
    <3> QED
      BY ONLY <1>0, <3>1, Fresh(ps, i - 1) DEF Fresh
  <2>4. Binds(found, i, path, ps) /\ (found.route # 0 => found.route \in Reach(child, path, method))
    BY ONLY <1>2, <1>3, <2>1, <2>3, ps \in Interpreted!Bindings
  <2>5. Binds(found, i - 1, path, ps)
    BY <1>3, <2>4, BindsLiteral
  <2> QED
    BY ONLY <2>2, <2>5
<1>4. CASE child \in nodes /\ IsWild(child)
  <2>1. PICK pt : pt = Bind(ps, child, path[i])
    OBVIOUS
  <2>2. pt \in Interpreted!Bindings
    BY <1>0, <1>4, <2>1, BindIs
  <2>3. PICK found : found = below[<<child, pt>>]
    OBVIOUS
  <2>4. Fresh(pt, i)
    <3>1. child \in DOMAIN names
      BY <1>4 DEF RoutesInv, NamesInv
    <3>2. \A o \in DOMAIN names : Len(o) \in Nat /\ names[o] \in Params
      BY NodeIs DEF RoutesInv, NamesInv
    <3>3. ASSUME NEW o \in DOMAIN names, Len(o) > i PROVE pt[names[o]] = None
      <4>1. names[o] # names[child]
        BY ONLY <1>0, <3>1, <3>3, Len(child) = i, Interpreted!NamesByDepth DEF Interpreted!NamesByDepth
      <4>2. ps[names[o]] = None
        BY ONLY <1>0, <3>2, <3>3, Fresh(ps, i - 1) DEF Fresh
      <4>3. names[o] \in DOMAIN ps
        BY ONLY <3>2, o \in DOMAIN names, ps \in Interpreted!Bindings DEF Interpreted!Bindings
      <4>4. PICK a, b : a = names[o] /\ b = names[child]
        OBVIOUS
      <4>5. pt = [ps EXCEPT ![b] = path[i]]
        BY ONLY <2>1, <4>4 DEF Bind
      <4> QED
        BY ONLY <4>1, <4>2, <4>3, <4>4, <4>5
    <3> QED
      BY ONLY <3>3 DEF Fresh
  <2>5. /\ found \in Results /\ Binds(found, i, path, pt)
        /\ found.route # 0 => found.route \in Reach(child, path, method)
    BY ONLY <1>2, <1>4, <2>2, <2>3, <2>4
  <2>6. Interpreted!Try(child, path[i], ps, below) =
          IF found.route # 0 THEN found ELSE Interpreted!Nothing(Interpreted!Unbind(found.params, names[child]))
    BY ONLY <1>4, <2>1, <2>3 DEF Interpreted!Try, IsWild, Bind
  <2>7. Binds(IF found.route # 0 THEN found
              ELSE Interpreted!Nothing(Interpreted!Unbind(found.params, names[child])), i - 1, path, ps)
    <3>1. Binds(found, i, path, Bind(ps, child, path[i]))
      BY ONLY <2>1, <2>5
    <3> QED
      BY <1>4, <2>5, <3>1, BindsWild
  <2> QED
    BY ONLY <2>6, <2>7
<1> QED
  BY <1>1, <1>3, <1>4

(* ... and what both do: a literal child that fails leaves nothing behind  *)
(* for the wildcard.                                                       *)
LEMMA BindsBelow ==
  ASSUME RoutesInv, Interpreted!NamesByDepth, NEW path \in Seq(Segs), NEW method,
         NEW node \in Seq(KeySegs), NEW i \in 1 .. Len(path), Len(node) = i - 1,
         NEW ps \in Interpreted!Bindings, Fresh(ps, i - 1),
         NEW below \in [Interpreted!Places -> Results],
         FindsBest(below, i, path, method), FindsBinds(below, i, path)
  PROVE  Binds(Interpreted!Below(node, path[i], ps, below), i - 1, path, ps)
<1>1. PICK seg, lit, wild : seg = path[i] /\ lit = Append(node, seg) /\ wild = Append(node, Wild)
  OBVIOUS
<1>2. i \in Nat /\ seg \in KeySegs /\ Wild \in KeySegs
  BY <1>1 DEF KeySegs
<1>3. lit \in Seq(KeySegs) /\ Len(lit) = i /\ wild \in Seq(KeySegs) /\ Len(wild) = i
  BY ONLY <1>1, <1>2, node \in Seq(KeySegs), Len(node) = i - 1
<1>4. PICK first : first = Interpreted!Try(lit, path[i], ps, below)
  OBVIOUS
<1>5. Binds(first, i - 1, path, ps)
  BY <1>3, <1>4, BindsTry
<1>6. PICK next : next = Interpreted!Try(wild, path[i], ps, below)
  OBVIOUS
<1>7. Binds(next, i - 1, path, ps)
  BY <1>3, <1>6, BindsTry
<1>8. Interpreted!Below(node, path[i], ps, below) =
        IF first.route # 0 THEN first ELSE Interpreted!Try(wild, path[i], first.params, below)
  BY ONLY <1>1, <1>4 DEF Interpreted!Below
<1>9. first.route = 0 => first.params = ps
  BY ONLY <1>5 DEF Binds
<1>10. Interpreted!Below(node, path[i], ps, below) = IF first.route # 0 THEN first ELSE next
  BY ONLY <1>6, <1>8, <1>9
<1> QED
  BY ONLY <1>5, <1>7, <1>10

(* From every node, by induction on the segments left.                     *)
LEMMA FindBinds ==
  ASSUME RoutesInv, Interpreted!NamesByDepth, NEW path \in Seq(Segs), NEW method
  PROVE  \A k \in 0 .. Len(path) : FindsBinds(Interpreted!Find(path, method)[k], Len(path) - k, path)
<1>1. PICK f : f = Interpreted!Find(path, method)
  OBVIOUS
<1> DEFINE A == {k \in 0 .. Len(path) : FindsBinds(f[k], Len(path) - k, path)}
<1>2. /\ f \in [0 .. Len(path) -> [Interpreted!Places -> Results]]
      /\ f[0] = Interpreted!FoundAtEnd(method)
      /\ \A k \in 1 .. Len(path) : f[k] = Interpreted!FoundFrom(path[Len(path) - k + 1], f[k - 1])
  BY <1>1, FindIs
<1>2a. \A k \in 0 .. Len(path) : FindsBest(f[k], Len(path) - k, path, method)
  BY <1>1, FindsTheBest
<1>3. PICK m \in Nat : m = Len(path)
  OBVIOUS
<1>4. 0 \in A
  <2>1. m - 0 = m /\ 0 \in 0 .. m
    BY ONLY m \in Nat
  <2>2. ASSUME NEW at \in Interpreted!Places, Len(at[1]) = m
        PROVE  Binds(f[0][at], m, path, at[2])
    <3>1. f[0][at] = Interpreted!AtEnd(at[1], method, at[2])
      BY ONLY <1>2, at \in Interpreted!Places DEF Interpreted!FoundAtEnd
    <3>2. Interpreted!AtEnd(at[1], method, at[2]).params = at[2]
      BY ONLY DEF Interpreted!AtEnd, Interpreted!Nothing
    <3>3. \A i \in m + 1 .. Len(path) : FALSE
      BY ONLY <1>3, m \in Nat
    <3> QED
      BY ONLY <3>1, <3>2, <3>3 DEF Binds
  <2>3. FindsBinds(f[0], m, path)
    BY ONLY <2>2 DEF FindsBinds
  <2> QED
    BY ONLY <1>3, <2>1, <2>3
<1>5. ASSUME NEW k \in 0 .. m, k < m, k \in A PROVE k + 1 \in A
  <2>1. /\ k + 1 \in 1 .. m /\ k + 1 \in 0 .. m /\ (k + 1) - 1 = k
        /\ m - (k + 1) + 1 = m - k /\ m - k \in 1 .. m /\ (m - k) - 1 = m - (k + 1)
    BY ONLY m \in Nat, k \in 0 .. m, k < m
  <2>2. PICK i : i = m - k
    OBVIOUS
  <2>3. f[k + 1] = Interpreted!FoundFrom(path[i], f[k])
    BY ONLY <1>2, <1>3, <2>1, <2>2
  <2>4. f[k] \in [Interpreted!Places -> Results] /\ FindsBest(f[k], i, path, method)
    BY ONLY <1>2, <1>2a, <1>3, <2>2, k \in 0 .. m
  <2>5. FindsBinds(f[k], i, path)
    BY ONLY <1>3, <1>5, <2>2
  <2>5a. i - 1 = m - (k + 1) /\ i \in 1 .. Len(path)
    BY ONLY <1>3, <2>1, <2>2
  <2>6. ASSUME NEW at \in Interpreted!Places, Len(at[1]) = i - 1, Fresh(at[2], i - 1)
        PROVE  Binds(f[k + 1][at], i - 1, path, at[2])
    <3>1. f[k + 1][at] = Interpreted!Below(at[1], path[i], at[2], f[k])
      BY ONLY <2>3, at \in Interpreted!Places DEF Interpreted!FoundFrom
    <3>2. at[1] \in Seq(KeySegs) /\ at[2] \in Interpreted!Bindings
      BY PlaceIs
    <3>3. Binds(Interpreted!Below(at[1], path[i], at[2], f[k]), i - 1, path, at[2])
      BY <2>4, <2>5, <2>5a, <2>6, <3>2, BindsBelow
    <3> QED
      BY ONLY <3>1, <3>3
  <2>7. FindsBinds(f[k + 1], i - 1, path)
    BY ONLY <2>6 DEF FindsBinds
  <2> QED
    BY ONLY <1>3, <2>1, <2>5a, <2>7
<1> HIDE DEF A
<1>6. \A k \in 0 .. m : k \in A
  BY ONLY m \in Nat, <1>3, <1>4, <1>5, Climb
<1> QED
  BY ONLY <1>1, <1>3, <1>6 DEF A

(* What is bound are the parameters of the route that is found.            *)
OwnParams(found, path) ==
  LET key  == Interpreted!Key(routes[found.route].pattern)
      wild == {i \in DOMAIN key : key[i] = Wild}
  IN /\ {name \in Params : found.params[name] # None} = {names[SubSeq(key, 1, i)] : i \in wild}
     /\ \A i \in wild : found.params[names[SubSeq(key, 1, i)]] = path[i]

(* The handler gets the parameters of its own way, and no others.          *)
LEMMA BindsItsParams == RoutesInv => Interpreted!ParamsOfItsPath
<1> SUFFICES ASSUME RoutesInv, Interpreted!NamesByDepth, NEW q \in Interpreted!Requests,
                    Interpreted!Match(q[1], q[2]).route # 0
             PROVE  OwnParams(Interpreted!Match(q[1], q[2]), q[1])
  BY DEF Interpreted!ParamsOfItsPath, OwnParams
<1>0. PICK found : found = Interpreted!Match(q[1], q[2])
  OBVIOUS
<1>0a. found.route # 0
  BY <1>0
<1>1. PICK path, method : path = q[1] /\ method = q[2]
  OBVIOUS
<1>2. path \in Seq(Segs) /\ Len(path) \in Nat
  <2>1. path \in Seq(Segs)
    BY <1>1, PathIs DEF Interpreted!Requests
  <2> QED
    BY ONLY <2>1
<1>3. Len(path) \in 0 .. Len(path) /\ Len(path) - Len(path) = 0
  BY ONLY <1>2
<1>4. PICK at : at = <<<<>>, Interpreted!Unbound>>
  OBVIOUS
<1>5. /\ at \in Interpreted!Places /\ Len(at[1]) = 0 /\ at[1] = <<>> /\ at[2] = Interpreted!Unbound
      /\ Fresh(at[2], 0)
  <2>1. at \in Interpreted!Places /\ Len(at[1]) = 0 /\ at[1] = <<>> /\ at[2] = Interpreted!Unbound
    BY ONLY <1>4 DEF Interpreted!Places, Interpreted!Bindings, Interpreted!Unbound
  <2>2. \A o \in DOMAIN names : names[o] \in Params
    BY DEF RoutesInv, NamesInv
  <2> QED
    BY ONLY <2>1, <2>2 DEF Fresh, Interpreted!Unbound
<1>6. FindsBinds(Interpreted!Find(path, method)[Len(path)], 0, path)
  BY <1>2, <1>3, FindBinds
<1>7. FindsBest(Interpreted!Find(path, method)[Len(path)], 0, path, method)
  BY <1>2, <1>3, FindsTheBest
<1>8. found = Interpreted!Find(path, method)[Len(path)][at]
  BY ONLY <1>0, <1>1, <1>4 DEF Interpreted!Match
<1>9. Binds(found, 0, path, Interpreted!Unbound)
  BY ONLY <1>5, <1>6, <1>8 DEF FindsBinds
<1>10. BestOf(Reach(<<>>, path, method), found.route)
  BY ONLY <1>5, <1>7, <1>8 DEF FindsBest
<1>11. found.route \in Reach(<<>>, path, method)
  BY ONLY <1>0a, <1>10 DEF BestOf
<1>12. PICK r, k : r = found.route /\ k = KeyOf(r)
  OBVIOUS
<1>13. <<>> \in Seq(KeySegs)
  OBVIOUS
<1>14. r \in DOMAIN routes /\ k \in Seq(KeySegs) /\ Len(k) = Len(path)
  BY <1>2, <1>11, <1>12, <1>13, ReachIs
<1>15. DOMAIN k = 1 .. Len(path) /\ 0 + 1 = 1
  BY ONLY <1>14
<1>16. \A i \in 1 .. Len(path) : k[i] = Wild => Named(r, i) \in Params
  BY <1>12, <1>14, NamedIs
<1>17. \A name \in Params :
         /\ \A i \in 1 .. Len(path) : k[i] = Wild /\ Named(r, i) = name => found.params[name] = path[i]
         /\ (\A i \in 1 .. Len(path) : k[i] = Wild => Named(r, i) # name) => found.params[name] = None
  BY ONLY <1>0a, <1>9, <1>12, <1>15 DEF Binds, Interpreted!Unbound
<1>18. \A i \in 1 .. Len(path) : path[i] \in Segs /\ path[i] # None
  BY <1>2, RoutesAssumption
<1>19. PICK wild : wild = {i \in 1 .. Len(path) : k[i] = Wild}
  OBVIOUS
<1>20. \A i \in wild : found.params[Named(r, i)] = path[i]
  BY ONLY <1>16, <1>17, <1>19
<1>21. {name \in Params : found.params[name] # None} = {Named(r, i) : i \in wild}
  <2>1. ASSUME NEW name \in Params, found.params[name] # None
        PROVE  \E i \in wild : name = Named(r, i)
    BY ONLY <1>17, <1>19, <2>1
  <2>2. ASSUME NEW i \in wild PROVE Named(r, i) \in Params /\ found.params[Named(r, i)] # None
    BY ONLY <1>16, <1>18, <1>19, <1>20, i \in wild
  <2> QED
    BY ONLY <2>1, <2>2
<1>22. Interpreted!Key(routes[found.route].pattern) = k
  BY ONLY <1>12 DEF KeyOf
<1>23. \A i : Named(r, i) = names[SubSeq(k, 1, i)]
  BY ONLY <1>12 DEF Named, Begin
<1>24. {i \in DOMAIN k : k[i] = Wild} = wild
  BY ONLY <1>15, <1>19
<1> QED
  BY ONLY <1>0, <1>1, <1>20, <1>21, <1>22, <1>23, <1>24 DEF OwnParams

(* The compiled server runs only the last handler registered for a pattern *)
(* that fits the path, with the method of the request or as a WebSocket    *)
(* route for GET (yk_process_request), and serves every request that a live*)
(* route fits where its walk cannot commit to a wrong child                *)
(* (yk_route_match_node): for any segments, parameters and methods and any *)
(* sequence of routes.                                                     *)
THEOREM FittingIsServed == RoutersSpec => []FittingServed
<1>1. RoutersInit => RoutesInv
  BY RoutesStart
<1>2. RoutesInv /\ [RoutersNext]_routesVars => RoutesInv'
  BY RoutesNext
<1>3. RoutesInv => FittingServed
  BY ServesFitting, ServesAll DEF FittingServed
<1> QED
  BY <1>1, <1>2, <1>3, PTL DEF RoutersSpec

(* The interpreter finds a route exactly if a live one fits, and then the  *)
(* one that prefers literals from left to right; the handler gets the      *)
(* parameters on its own way and nothing that a failed branch bound        *)
(* (RouteNode::find).                                                      *)
THEOREM BestRouteIsFound == RoutersSpec => []BestRouteFound
<1>1. RoutersInit => RoutesInv
  BY RoutesStart
<1>2. RoutesInv /\ [RoutersNext]_routesVars => RoutesInv'
  BY RoutesNext
<1>3. RoutesInv => BestRouteFound
  BY FindsBestRoute, BindsItsParams DEF BestRouteFound
<1> QED
  BY <1>1, <1>2, <1>3, PTL DEF RoutersSpec
=============================================================================
