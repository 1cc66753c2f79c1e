----------------------------- MODULE NetHandles -----------------------------
(***************************************************************************)
(* The network handles of an interpreted program (src/netlib/mod.rs,       *)
(* call_net and call_net_method): values that hold a number, and for every *)
(* kind of handle one table behind one mutex, shared by all the threads of *)
(* the program.  A method keeps the mutex of its table while it waits for  *)
(* the network; accept takes the mutex of the streams as well, when it has *)
(* its connection.  A thread that panics poisons the mutexes it holds, and *)
(* whoever locks a poisoned one panics in turn (lock().unwrap()).          *)
(***************************************************************************)
EXTENDS Naturals, FiniteSets

CONSTANTS
  Tasks,     \* the threads: main, spawned tasks, handlers of a server
  None,      \* nobody
  MaxCalls   \* bounds the model

ASSUME NetAssumption == None \notin Tasks /\ MaxCalls \in Nat

VARIABLES
  tables,    \* the handles in each table
  values,    \* history: the handles of each kind a program was ever given
  next_id,   \* NEXT_ID, one counter for all kinds
  holder,    \* who holds the mutex of each table
  poisoned,  \* the tables whose mutex is poisoned
  at,        \* each task: "idle", "lock", "work", "insert", "serve", "dead"
  call,      \* the call each task is in
  calls,     \* how many calls were made
  ready,     \* handles with something to read, accept or answer
  full,      \* streams whose peer does not read what is sent
  settings,  \* what was registered on each server: routes, middleware, ...
  served     \* what each server that serves has of it

netVars  == <<ready, full>>
srvVars  == <<settings, served>>
vars == <<tables, values, next_id, holder, poisoned, at, call, calls, netVars, srvVars>>

Kinds == {"TcpStream", "TcpListener", "UdpSocket", "HTTP", "Server"}
Ids   == 0 .. 2 * MaxCalls - 1

(* Methods by what they do under the mutex: wait until something arrives,  *)
(* wait until there is room, answer at once, remove the handle.            *)
Methods(k) == CASE k = "TcpStream"   -> {"recv", "recv negative", "send", "close"}
                [] k = "TcpListener" -> {"accept", "close"}
                [] k = "UdpSocket"   -> {"recv", "recv negative", "send_to", "close"}
                [] k = "HTTP"        -> {"request", "status"}
                [] k = "Server"      -> {"register", "serve"}

NoCall == [op |-> "none", kind |-> "none", id |-> 0]

Init ==
  /\ tables   = [k \in Kinds |-> {}]
  /\ values   = [k \in Kinds |-> {}]
  /\ next_id  = 0
  /\ holder   = [k \in Kinds |-> None]
  /\ poisoned = {}
  /\ at       = [t \in Tasks |-> "idle"]
  /\ call     = [t \in Tasks |-> NoCall]
  /\ calls    = 0
  /\ ready    = {}
  /\ full     = {}
  /\ settings = [i \in Ids |-> 0]
  /\ served   = [i \in Ids |-> 0]

Goto(t, l)  == at' = [at EXCEPT ![t] = l]
Release(t)  == holder' = [k \in Kinds |-> IF holder[k] = t THEN None ELSE holder[k]]
Return(t)   == Goto(t, "idle") /\ Release(t) /\ call' = [call EXCEPT ![t] = NoCall]

(* lock().unwrap() on a poisoned mutex, or an allocation that cannot be:   *)
(* the thread unwinds and poisons what it holds.                           *)
Dies(t) ==
  /\ Goto(t, "dead")
  /\ poisoned' = poisoned \cup {k \in Kinds : holder[k] = t}
  /\ Release(t)
  /\ call' = [call EXCEPT ![t] = NoCall]

----------------------------------------------------------------------------
(* A constructor connects or binds first, and changes nothing when that    *)
(* fails; then it takes a number and, with the mutex of the table, stores  *)
(* the handle.                                                             *)
Construct(t, k) ==
  /\ at[t] = "idle" /\ calls < MaxCalls
  /\ calls' = calls + 1
  /\ call' = [call EXCEPT ![t] = [op |-> "new", kind |-> k, id |-> next_id]]
  /\ next_id' = next_id + 1
  /\ Goto(t, "insert")
  /\ UNCHANGED <<tables, values, holder, poisoned, netVars, srvVars>>

CallMethod(t, k, id, op) ==
  /\ at[t] = "idle" /\ calls < MaxCalls
  /\ id \in values[k]
  /\ calls' = calls + 1
  /\ call' = [call EXCEPT ![t] = [op |-> op, kind |-> k, id |-> id]]
  /\ Goto(t, "lock")
  /\ UNCHANGED <<tables, values, next_id, holder, poisoned, netVars, srvVars>>

(* Mutant: accept takes the mutex of the streams before it waits.          *)
LockStreamsToo(t) ==
  LET k == call[t].kind
      both == IF call[t].op = "accept" THEN {k, "TcpStream"} ELSE {k} IN
  /\ at[t] = "lock" /\ \A r \in both : holder[r] = None
  /\ \/ both \cap poisoned # {} /\ Dies(t)
     \/ both \cap poisoned = {} /\ call[t].id \notin tables[k] /\ Return(t) /\ UNCHANGED poisoned
     \/ /\ both \cap poisoned = {} /\ call[t].id \in tables[k]
        /\ holder' = [r \in Kinds |-> IF r \in both THEN t ELSE holder[r]]
        /\ Goto(t, "work")
        /\ UNCHANGED <<poisoned, call>>
  /\ UNCHANGED <<tables, values, next_id, calls, netVars, srvVars>>

(* The table's mutex; a handle that is not in it any more is an error.     *)
Lock(t) ==
  LET k == call[t].kind IN
  /\ at[t] = "lock" /\ holder[k] = None
  /\ \/ k \in poisoned /\ Dies(t)
     \/ k \notin poisoned /\ call[t].id \notin tables[k] /\ Return(t) /\ UNCHANGED poisoned
     \/ /\ k \notin poisoned /\ call[t].id \in tables[k]
        /\ holder' = [holder EXCEPT ![k] = t]
        /\ Goto(t, "work")
        /\ UNCHANGED <<poisoned, call>>
  /\ UNCHANGED <<tables, values, next_id, calls, netVars, srvVars>>

(* A new handle goes into its table: that of a constructor, or of accept,  *)
(* which still holds the mutex of the listeners.                           *)
Insert(t) ==
  LET k == call[t].kind IN
  /\ at[t] = "insert" /\ holder[k] \in {None, t}
  /\ \/ k \in poisoned /\ Dies(t) /\ UNCHANGED <<tables, values>>
     \/ /\ k \notin poisoned
        /\ tables' = [tables EXCEPT ![k] = @ \cup {call[t].id}]
        /\ values' = [values EXCEPT ![k] = @ \cup {call[t].id}]
        /\ Return(t)
        /\ UNCHANGED poisoned
  /\ UNCHANGED <<next_id, calls, netVars, srvVars>>

----------------------------------------------------------------------------
(* The methods, with the mutex of their table.                             *)
Works(t, op) == at[t] = "work" /\ call[t].op = op

(* Until there is something, or an error.                                  *)
Take(t) ==
  /\ call[t].id \in ready
  /\ ready' \in {ready, ready \ {call[t].id}}
  /\ Return(t)
  /\ UNCHANGED <<tables, values, next_id, poisoned, calls, full, srvVars>>

(* recv of a stream, recv_from of a socket. *)
Receive(t) == Works(t, "recv") /\ Take(t)

(* An HTTP request, whose answer is kept with the handle. *)
Request(t) == Works(t, "request") /\ Take(t)

(* A buffer of a negative length: the number becomes a huge usize, and the *)
(* allocation panics.                                                      *)
ReceiveNegative(t) ==
  /\ Works(t, "recv negative")
  /\ Dies(t)
  /\ UNCHANGED <<tables, values, next_id, calls, netVars, srvVars>>

(* The write of a stream blocks while its peer reads nothing.              *)
Send(t) ==
  /\ Works(t, "send")
  /\ call[t].id \notin full
  /\ full' \in {full, full \cup {call[t].id}}
  /\ Return(t)
  /\ UNCHANGED <<tables, values, next_id, poisoned, calls, ready, srvVars>>

(* send_to of a socket and the status or body of a finished request.       *)
AnswerAtOnce(t) ==
  /\ Works(t, "send_to") \/ Works(t, "status")
  /\ Return(t)
  /\ UNCHANGED <<tables, values, next_id, poisoned, calls, netVars, srvVars>>

CloseHandle(t) ==
  /\ Works(t, "close")
  /\ tables' = [tables EXCEPT ![call[t].kind] = @ \ {call[t].id}]
  /\ Return(t)
  /\ UNCHANGED <<values, next_id, poisoned, calls, netVars, srvVars>>

(* accept waits for a connection, takes a number for it and goes on to the *)
(* mutex of the streams, or fails.                                         *)
Accept(t) ==
  /\ Works(t, "accept")
  /\ call[t].id \in ready
  /\ ready' \in {ready, ready \ {call[t].id}}
  /\ \/ /\ call' = [call EXCEPT ![t] = [op |-> "accept", kind |-> "TcpStream", id |-> next_id]]
        /\ next_id' = next_id + 1
        /\ Goto(t, "insert")
        /\ UNCHANGED holder
     \/ Return(t) /\ UNCHANGED next_id
  /\ UNCHANGED <<tables, values, poisoned, calls, full, srvVars>>

(* A server's settings change under the mutex.                             *)
Register(t) ==
  /\ Works(t, "register")
  /\ settings' = [settings EXCEPT ![call[t].id] = @ + 1]
  /\ Return(t)
  /\ UNCHANGED <<tables, values, next_id, poisoned, calls, netVars, served>>

(* serve takes a copy of the server, gives the mutex back and stays.       *)
Serve(t) ==
  /\ Works(t, "serve")
  /\ served' = [served EXCEPT ![call[t].id] = settings[call[t].id]]
  /\ Goto(t, "serve")
  /\ Release(t)
  /\ UNCHANGED <<tables, values, next_id, poisoned, call, calls, netVars, settings>>

----------------------------------------------------------------------------
(* The network, and with it the other end when it is in this program: data,*)
(* the end of a stream, a connection, an answer, an error.                 *)
Arrives(i) ==
  /\ i \notin ready
  /\ \E k \in Kinds \ {"Server"} : i \in values[k]
  /\ ready' = ready \cup {i}
  /\ UNCHANGED <<tables, values, next_id, holder, poisoned, at, call, calls, full, srvVars>>

Drains(i) ==
  /\ i \in full
  /\ full' = full \ {i}
  /\ UNCHANGED <<tables, values, next_id, holder, poisoned, at, call, calls, ready, srvVars>>

TaskStep(t) == \/ Lock(t) \/ Insert(t) \/ Receive(t) \/ Request(t) \/ ReceiveNegative(t) \/ Send(t)
               \/ AnswerAtOnce(t) \/ CloseHandle(t) \/ Accept(t) \/ Register(t) \/ Serve(t)

Next == \/ \E t \in Tasks : \/ \E k \in Kinds : Construct(t, k)
                            \/ \E k \in Kinds : \E op \in Methods(k), i \in Ids : CallMethod(t, k, i, op)
                            \/ TaskStep(t)
        \/ \E i \in Ids : Arrives(i) \/ Drains(i)

(* A thread that can go on does.  The network is promised nothing.  The    *)
(* mutexes need not be fair: the calls, and with them the locks, are       *)
(* bounded here.                                                           *)
Spec == Init /\ [][Next]_vars /\ \A t \in Tasks : WF_vars(TaskStep(t))

----------------------------------------------------------------------------
(* A call is held up only by the network or by a call on a handle of the   *)
(* same kind that the network holds up; accept, and what waits for it, by  *)
(* one on a stream as well.  In particular a program that reads nothing    *)
(* from its streams can connect, send and close while it listens, receives *)
(* datagrams and makes requests, whoever panics meanwhile.                 *)
NetworkHolds(u) ==
  /\ at[u] = "work"
  /\ \/ call[u].op \in {"recv", "request", "accept"} /\ call[u].id \notin ready
     \/ call[u].op = "send" /\ call[u].id \in full

CallsReturn ==
  \A t \in Tasks :
    at[t] \in {"lock", "work", "insert"}
      ~> \/ at[t] \notin {"lock", "work", "insert"}
         \/ \E u \in Tasks : /\ NetworkHolds(u)
                            /\ \/ call[u].kind = call[t].kind
                               \/ call[t].kind = "TcpListener" /\ call[u].kind = "TcpStream"
=============================================================================
