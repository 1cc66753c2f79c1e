----------------------------- MODULE HttpServer -----------------------------
(***************************************************************************)
(* The interpreter's HTTP server (src/netlib/hyper_server.rs and the       *)
(* handler execution of src/netlib/mod.rs): one task per connection reads  *)
(* a request head, then its body, runs middleware or handler and logger on *)
(* interpreters taken from a shared pool (SubInterpreterPool), answers,    *)
(* and goes on as long as requests ask for keep-alive.  Tasks run on       *)
(* several threads; a task gives way only where it waits for its socket.   *)
(***************************************************************************)
EXTENDS Naturals, Sequences, FiniteSets, SequencesExt

CONSTANTS
  Conns,       \* the connections
  MaxRequests, \* requests the client of each connection sends (bounds the model)
  MaxBody,     \* units of a request's body
  PoolCap,     \* interpreters the pool keeps (64 in the code)
  Middleware,  \* number of middleware handlers installed with use()
  Logger,      \* whether a logger is installed
  Reckless     \* connections whose handlers may panic, whose client may leave
               \* in the middle of a request

ASSUME HttpAssumption ==
  /\ IsFiniteSet(Conns) /\ MaxRequests \in [Conns -> Nat] /\ MaxBody \in Nat /\ PoolCap \in Nat
  /\ Middleware \in Nat /\ Logger \in BOOLEAN /\ Reckless \subseteq Conns

(* What a request is about: a route, no route, a preflight, no HTTP at all *)
(* (the connection ends there, whatever follows).  Bodies are read alike   *)
(* for all of them; here only requests for a route have one.               *)
Requests ==
  {q \in [kind : {"route", "none", "options", "bad"}, body : 0 .. MaxBody, keep : BOOLEAN] :
     /\ q.kind # "route" => q.body = 0
     /\ q.kind = "bad" => ~q.keep}

(* The units of request number r: its head comes in two pieces.            *)
Units(r, q) == <<<<r, "head", 1>>, <<r, "head", 2>>>> \o [b \in 1 .. q.body |-> <<r, "body", b>>]

Interps == 1 .. Cardinality(Conns)

VARIABLES
  asked,   \* of each client: the requests it has sent
  stream,  \* units sent and not read by the server
  shut,    \* clients that have shut their side
  pc,      \* of each task: "read", "body", "next", "run", "write", "closed"
  rbuf,    \* read_buf, as long as the head is not complete
  body,    \* the body read so far
  jobs,    \* handlers still to execute for the request
  ran,     \* handlers executed for it
  interp,  \* the interpreter a task has taken, 0 if none
  pool,    \* free interpreters
  dirt,    \* interpreters that hold globals of the last request they served
  answers  \* history: what each client was answered

conn == <<pc, rbuf, body, jobs, ran>>
client == <<asked, stream, shut>>
vars == <<client, conn, interp, pool, dirt, answers>>

Init ==
  /\ asked  = [c \in Conns |-> <<>>]
  /\ stream = [c \in Conns |-> <<>>]
  /\ shut   = [c \in Conns |-> FALSE]
  /\ pc     = [c \in Conns |-> "read"]
  /\ rbuf   = [c \in Conns |-> <<>>]
  /\ body   = [c \in Conns |-> <<>>]
  /\ jobs   = [c \in Conns |-> <<>>]
  /\ ran    = [c \in Conns |-> <<>>]
  /\ interp = [c \in Conns |-> 0]
  /\ pool   = <<>>
  /\ dirt   = {}
  /\ answers = [c \in Conns |-> <<>>]

Set(f, c, v) == f' = [f EXCEPT ![c] = v]
Request(c)   == asked[c][Len(asked[c])]

(* A client sends a request when the one before is answered; it may also   *)
(* send only a part of one and leave.                                      *)
ClientSends(c) ==
  /\ ~shut[c] /\ pc[c] # "closed"
  /\ Len(asked[c]) < MaxRequests[c] /\ Len(answers[c]) = Len(asked[c])
  /\ \E q \in Requests :
       LET units == Units(Len(asked[c]) + 1, q) IN
       /\ Set(asked, c, Append(asked[c], q))
       /\ \/ Set(stream, c, units) /\ UNCHANGED shut
          \/ /\ c \in Reckless
             /\ \E n \in 0 .. Len(units) : Set(stream, c, SubSeq(units, 1, n))
             /\ Set(shut, c, TRUE)
  /\ UNCHANGED <<conn, interp, pool, dirt, answers>>

ClientShuts(c) ==
  /\ ~shut[c] /\ pc[c] # "closed" /\ Set(shut, c, TRUE)
  /\ UNCHANGED <<asked, stream, conn, interp, pool, dirt, answers>>

----------------------------------------------------------------------------
EndsHead(u)    == u[2] = "head" /\ u[3] = 2
HasHead(units) == \E j \in DOMAIN units : EndsHead(units[j])
BodyOf(units)  == SubSeq(units, 1 + CHOOSE j \in DOMAIN units : EndsHead(units[j]), Len(units))

(* What the request needs run: all middleware and, if there is none, the   *)
(* handler of the route; the logger whatever the outcome.                  *)
Numbered(n) == [m \in 1 .. n |-> <<"middleware", m>>]
Planned(q)  == (CASE q.kind # "route"   -> <<>>
                  [] Middleware > 0     -> Numbered(Middleware)
                  [] OTHER              -> <<<<"handler", 0>>>>)
               \o IF Logger /\ q.kind # "options" THEN <<<<"logger", 0>>>> ELSE <<>>

(* Mutant: the whole body is awaited, what came with the head is forgotten. *)
ParseForgets(c, units) ==
  LET q == Request(c) IN
  IF q.kind = "bad"
    THEN Set(pc, c, "write") /\ UNCHANGED <<body, jobs, ran>>
    ELSE /\ Set(pc, c, IF q.body > 0 THEN "body" ELSE "next")
         /\ Set(jobs, c, Planned(q))
         /\ Set(ran, c, <<>>)
         /\ UNCHANGED body

(* The head is complete: a bad request is answered at once; the body is    *)
(* taken from the buffer as far as it is there.                            *)
Parse(c, units) ==
  LET q == Request(c) got == BodyOf(units) IN
  IF q.kind = "bad"
    THEN Set(pc, c, "write") /\ UNCHANGED <<body, jobs, ran>>
    ELSE /\ Set(pc, c, IF q.body > Len(got) THEN "body" ELSE "next")
         /\ Set(body, c, SubSeq(got, 1, IF q.body < Len(got) THEN q.body ELSE Len(got)))
         /\ Set(jobs, c, Planned(q))
         /\ Set(ran, c, <<>>)

(* stream.read: some of what has arrived, or the end.  When the head is    *)
(* complete the buffer is used for the last time: whatever it still holds  *)
(* is cleared before the next read.                                        *)
Read(c, n) ==
  /\ pc[c] = "read"
  /\ n \in 1 .. Len(stream[c])
  /\ LET units == rbuf[c] \o SubSeq(stream[c], 1, n) IN
       /\ Set(stream, c, SubSeq(stream[c], n + 1, Len(stream[c])))
       /\ IF HasHead(units)
            THEN Parse(c, units) /\ Set(rbuf, c, <<>>)
            ELSE Set(rbuf, c, units) /\ UNCHANGED <<pc, body, jobs, ran>>
  /\ UNCHANGED <<asked, shut, interp, pool, dirt, answers>>

ReadEnd(c) ==
  /\ pc[c] \in {"read", "body"} /\ shut[c]
  /\ pc[c] = "read" => stream[c] = <<>>
  /\ pc[c] = "body" => Len(body[c]) + Len(stream[c]) < Request(c).body
  /\ Set(pc, c, "closed")
  /\ UNCHANGED <<client, rbuf, body, jobs, ran, interp, pool, dirt, answers>>

(* Mutant: the body is what read_exact brings, without what came with the  *)
(* head.                                                                   *)
ReadBodyOnly(c) ==
  LET more == Request(c).body - Len(body[c]) IN
  /\ pc[c] = "body"
  /\ Len(stream[c]) >= more
  /\ Set(body, c, SubSeq(stream[c], 1, more))
  /\ Set(stream, c, SubSeq(stream[c], more + 1, Len(stream[c])))
  /\ Set(pc, c, "next")
  /\ UNCHANGED <<asked, shut, rbuf, jobs, ran, interp, pool, dirt, answers>>

(* read_exact: the rest of the body.                                       *)
ReadBody(c) ==
  LET more == Request(c).body - Len(body[c]) IN
  /\ pc[c] = "body"
  /\ Len(stream[c]) >= more
  /\ Set(body, c, body[c] \o SubSeq(stream[c], 1, more))
  /\ Set(stream, c, SubSeq(stream[c], more + 1, Len(stream[c])))
  /\ Set(pc, c, "next")
  /\ UNCHANGED <<asked, shut, rbuf, jobs, ran, interp, pool, dirt, answers>>

----------------------------------------------------------------------------
InUse == {interp[c] : c \in Conns} \ {0}

(* Mutant: an interpreter taken from the pool is used as it is. *)
TakeAsIs(c) ==
  /\ pc[c] = "next" /\ jobs[c] # <<>>
  /\ Set(pc, c, "run")
  /\ IF pool # <<>>
       THEN /\ Set(interp, c, Last(pool))
            /\ pool' = Front(pool)
            /\ UNCHANGED dirt
       ELSE /\ Set(interp, c, CHOOSE i \in Interps \ InUse : TRUE)
            /\ dirt' = dirt \ {interp'[c]}
            /\ UNCHANGED pool
  /\ UNCHANGED <<client, rbuf, body, jobs, ran, answers>>

(* SubInterpreterPool::take: the last one returned, reset, or a new one.   *)
Take(c) ==
  /\ pc[c] = "next" /\ jobs[c] # <<>>
  /\ Set(pc, c, "run")
  /\ IF pool # <<>>
       THEN Set(interp, c, Last(pool)) /\ pool' = Front(pool)
       ELSE Set(interp, c, CHOOSE i \in Interps \ InUse : TRUE) /\ UNCHANGED pool
  /\ dirt' = dirt \ {interp'[c]}
  /\ UNCHANGED <<client, rbuf, body, jobs, ran, answers>>

(* The handler has run - which may leave values in its globals - and       *)
(* return_interp clears the frames and keeps the interpreter if there is   *)
(* room.                                                                   *)
Return(c) ==
  /\ pc[c] = "run"
  /\ Set(pc, c, "next")
  /\ pool' = IF Len(pool) < PoolCap THEN Append(pool, interp[c]) ELSE pool
  /\ dirt' = dirt \cup {interp[c]}
  /\ Set(interp, c, 0)
  /\ Set(jobs, c, Tail(jobs[c])) /\ Set(ran, c, Append(ran[c], Head(jobs[c])))
  /\ UNCHANGED <<client, rbuf, body, answers>>

(* The handler panics: the task ends, its connection and interpreter are   *)
(* dropped.                                                                *)
Panic(c) ==
  /\ c \in Reckless /\ pc[c] = "run"
  /\ Set(pc, c, "closed")
  /\ Set(interp, c, 0)
  /\ UNCHANGED <<client, rbuf, body, jobs, ran, pool, dirt, answers>>

(* The answer is written; with keep-alive the task reads again.            *)
Write(c) ==
  LET q == Request(c) IN
  /\ pc[c] = "write" \/ (pc[c] = "next" /\ jobs[c] = <<>>)
  /\ Set(answers, c, Append(answers[c], [body |-> body[c], ran |-> ran[c]]))
  /\ Set(pc, c, IF q.keep /\ q.kind # "bad" THEN "read" ELSE "closed")
  /\ Set(body, c, <<>>) /\ Set(ran, c, <<>>)
  /\ UNCHANGED <<client, rbuf, jobs, interp, pool, dirt>>

Serve(c) == \/ \E n \in 1 .. MaxBody + 2 : Read(c, n)
            \/ ReadEnd(c) \/ ReadBody(c) \/ Take(c) \/ Return(c) \/ Panic(c)
            \/ Write(c)

Next == \E c \in Conns : ClientSends(c) \/ ClientShuts(c) \/ Serve(c)

Spec == Init /\ [][Next]_vars

(* The runtime polls every task that can go on; handlers terminate; the    *)
(* clients may stop at any time.                                           *)
FairSpec == Spec /\ \A c \in Conns : WF_vars(Serve(c))

----------------------------------------------------------------------------
(* Every variable keeps its type; the pool stays within its capacity.      *)
TypeOK ==
  /\ pc \in [Conns -> {"read", "body", "next", "run", "write", "closed"}]
  /\ interp \in [Conns -> Interps \cup {0}]
  /\ \A c \in Conns : interp[c] # 0 <=> pc[c] = "run"
  /\ Len(pool) <= PoolCap /\ ToSet(pool) \subseteq Interps
  /\ dirt \subseteq Interps

(* A handler runs on an interpreter that no other task has and that shows  *)
(* nothing of the requests it served before.                               *)
HandlersIsolated ==
  /\ \A c, d \in Conns : interp[c] = interp[d] /\ interp[c] # 0 => c = d
  /\ \A c \in Conns : interp[c] # 0 => interp[c] \notin ToSet(pool) \cup dirt
  /\ IsInjective(pool)

(* Every answer is the answer to the request of its place, made from its   *)
(* whole body, after everything that had to run did, in order.             *)
AnswersWhole ==
  \A c \in Conns : \A r \in DOMAIN answers[c] :
    LET q == asked[c][r] a == answers[c][r] IN
    q.kind # "bad" =>
      /\ a.body = [b \in 1 .. q.body |-> <<r, "body", b>>]
      /\ a.ran = Planned(q)

(* A request that has been sent completely is answered, unless its own     *)
(* handler panics: the panics and the departures of others do not matter.  *)
RequestsAnswered ==
  \A c \in Conns \ Reckless : \A r \in 1 .. MaxRequests[c] :
    Len(asked[c]) = r ~> Len(answers[c]) = r \/ shut[c]
=============================================================================
