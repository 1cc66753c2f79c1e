----------------------------- MODULE IocpServer -----------------------------
(***************************************************************************)
(* The life of a connection in the native HTTP server, in the C runtime    *)
(* embedded in src/codegen/llvm.rs (the Windows branch): accept            *)
(* completions, receive and send completions, the hand-over to the handler *)
(* pool (see HandlerPool) and back, keep-alive, WebSocket and HTTP/2       *)
(* sessions, failures of every operation.                                  *)
(*                                                                         *)
(* I/O threads share one completion port.  A connection has at most one    *)
(* overlapped operation; whoever dequeues its completion owns the          *)
(* connection until it posts the next one, so the handling of a completion *)
(* is one action.  Requests and responses are made of units, so that they  *)
(* arrive and leave in pieces.                                             *)
(***************************************************************************)
EXTENDS Naturals, Sequences, FiniteSets

CONSTANTS
  Slots,        \* the yk_conn structures
  Clients,      \* the peers that connect, once each
  None,         \* no client
  MaxRequests,  \* how many requests a client sends (bounds the model)
  HeaderLen,    \* units of a response's header
  BodyLen,      \* units of a response's body
  Initial,      \* accepts posted by yk_server_serve (128 in the code)
  Repost,       \* accepts posted after each accept completion (32 in the code)
  MaxAccepts    \* bounds the model

ASSUME ServerAssumption ==
  /\ None \notin Clients
  /\ MaxRequests \in Nat /\ HeaderLen \in Nat \ {0} /\ BodyLen \in Nat
  /\ Initial \in Nat \ {0} /\ Repost \in Nat /\ MaxAccepts \in Nat

RequestLen == 2                       \* a request arrives in up to two pieces
Header   == [i \in 1 .. HeaderLen |-> <<"header", i>>]
Body     == [i \in 1 .. BodyLen |-> <<"body", i>>]
Response == Header \o Body

VARIABLES
  rough,     \* TRUE: operations on sockets fail and clients speak any
             \* protocol; FALSE: nothing fails and clients speak HTTP/1
  accepts,   \* outstanding AcceptEx operations
  peer,      \* the client each slot serves, None when the slot is free
  op,        \* the operation pending on each slot: "none", "recv", "send"
  iov,       \* the units handed to the pending send
  pooled,    \* slots handed to the handler pool
  mode,      \* protocol of the connection: "http", "ws", "h2"
  keep,      \* keep_alive of the request being answered
  buf,       \* units in the receive buffer (buf_used)
  resp_sent, \* units of the response already sent
  phase,     \* of each client: "away", "open", "shut", "reset", "closed"
  wire,      \* units in the socket on their way to the server
  part,      \* units of its current request the client has sent
  asked,     \* requests the client has completed
  lastReq,   \* TRUE: the client asked for "Connection: close"
  got        \* history: the units the client has received

connVars   == <<peer, op, iov, pooled, mode, keep, buf, resp_sent>>
clientVars == <<phase, wire, part, asked, lastReq, got>>
vars == <<rough, accepts, connVars, clientVars>>

CanFail == rough
Modes   == IF rough THEN {"http", "ws", "h2"} ELSE {"http"}

Init ==
  /\ rough     \in BOOLEAN
  /\ accepts   = Initial
  /\ peer      = [s \in Slots |-> None]
  /\ op        = [s \in Slots |-> "none"]
  /\ iov       = [s \in Slots |-> <<>>]
  /\ pooled    = {}
  /\ mode      = [s \in Slots |-> "http"]
  /\ keep      = [s \in Slots |-> FALSE]
  /\ buf       = [s \in Slots |-> 0]
  /\ resp_sent = [s \in Slots |-> 0]
  /\ phase     = [k \in Clients |-> "away"]
  /\ wire      = [k \in Clients |-> 0]
  /\ part      = [k \in Clients |-> 0]
  /\ asked     = [k \in Clients |-> 0]
  /\ lastReq   = [k \in Clients |-> FALSE]
  /\ got       = [k \in Clients |-> <<>>]

Live(s)     == peer[s] # None
Answered(k) == Len(got[k]) = asked[k] * Len(Response)
InSession(k) == \E s \in Slots : peer[s] = k /\ mode[s] # "http"

----------------------------------------------------------------------------
(* The clients: one request after the other, each in up to two pieces, the *)
(* last one possibly with "Connection: close"; in a session, frames at any *)
(* time.  Then, or before, they shut their side or the connection breaks.  *)
ClientSends(k) ==
  /\ phase[k] = "open" /\ ~lastReq[k]
  /\ part[k] = 0 => (Answered(k) \/ InSession(k)) /\ asked[k] < MaxRequests
  /\ \E n \in 1 .. RequestLen - part[k] :
       /\ wire[k] + n <= RequestLen
       /\ wire' = [wire EXCEPT ![k] = @ + n]
       /\ IF part[k] + n < RequestLen
            THEN /\ part' = [part EXCEPT ![k] = @ + n]
                 /\ UNCHANGED <<asked, lastReq>>
            ELSE /\ part'  = [part EXCEPT ![k] = 0]
                 /\ asked' = [asked EXCEPT ![k] = @ + 1]
                 /\ lastReq' \in {lastReq, [lastReq EXCEPT ![k] = TRUE]}
  /\ UNCHANGED <<accepts, connVars, phase, got>>

ClientLeaves(k) ==
  /\ phase[k] = "open"
  /\ phase' \in {[phase EXCEPT ![k] = "shut"]}
       \cup IF CanFail THEN {[phase EXCEPT ![k] = "reset"]} ELSE {}
  /\ UNCHANGED <<accepts, connVars, wire, part, asked, lastReq, got>>

----------------------------------------------------------------------------
(* closesocket and yk_conn_free, after which the slot may be used again.   *)
Close(s) ==
  /\ phase'  = [phase EXCEPT ![peer[s]] = "closed"]
  /\ peer'   = [peer EXCEPT ![s] = None]
  /\ op'     = [op EXCEPT ![s] = "none"]
  /\ iov'    = [iov EXCEPT ![s] = <<>>]
  /\ pooled' = pooled \ {s}

(* WSARecv: pending, or failed at once and the connection is closed.       *)
PostRecv(s) ==
  \/ /\ op'     = [op EXCEPT ![s] = "recv"]
     /\ iov'    = [iov EXCEPT ![s] = <<>>]
     /\ pooled' = pooled \ {s}
     /\ UNCHANGED <<peer, phase>>
  \/ CanFail /\ Close(s)

(* WSASend of what is left of header and body.  Whoever posts it - an I/O  *)
(* thread or a handler thread - no longer owns the connection.             *)
Rest(n) == IF n < HeaderLen THEN SubSeq(Header, n + 1, HeaderLen) \o Body
           ELSE SubSeq(Body, n - HeaderLen + 1, BodyLen)

PostSend(s, n) ==
  \/ /\ op'     = [op EXCEPT ![s] = "send"]
     /\ iov'    = [iov EXCEPT ![s] = Rest(n)]
     /\ pooled' = pooled \ {s}
     /\ UNCHANGED <<peer, phase>>
  \/ CanFail /\ Close(s)

(* An accept completes: a zeroed slot, a receive, and Repost new accepts   *)
(* (fewer when the system refuses more sockets).                           *)
AcceptDone(k, s) ==
  /\ accepts > 0
  /\ phase[k] = "away"
  /\ ~Live(s)
  /\ \E n \in (IF CanFail THEN 0 .. Repost ELSE {Repost}) :
       accepts' = IF accepts - 1 + n > MaxAccepts THEN MaxAccepts ELSE accepts - 1 + n
  /\ mode'      = [mode EXCEPT ![s] = "http"]
  /\ keep'      = [keep EXCEPT ![s] = FALSE]
  /\ buf'       = [buf EXCEPT ![s] = 0]
  /\ resp_sent' = [resp_sent EXCEPT ![s] = 0]
  /\ iov'       = [iov EXCEPT ![s] = <<>>]
  /\ \/ /\ op'    = [op EXCEPT ![s] = "recv"]
        /\ peer'  = [peer EXCEPT ![s] = k]
        /\ phase' = [phase EXCEPT ![k] = "open"]
     \/ /\ CanFail                               \* the first WSARecv fails
        /\ phase' = [phase EXCEPT ![k] = "closed"]
        /\ UNCHANGED <<op, peer>>
  /\ UNCHANGED <<pooled, wire, part, asked, lastReq, got>>

----------------------------------------------------------------------------
(* An accept fails: the worker goes on with the next completion and posts  *)
(* no other accept.                                                        *)
AcceptFailed ==
  /\ CanFail
  /\ accepts > 0
  /\ accepts' = accepts - 1
  /\ UNCHANGED <<connVars, clientVars>>

----------------------------------------------------------------------------
(* yk_process_request on a complete request: a route's handler is          *)
(* offloaded (return value 2; the request is dropped when no node can be   *)
(* allocated), a 404 is answered by the I/O thread itself (return value 1; *)
(* the connection is left alone when its buffer cannot grow).              *)
Offload(s) ==
  /\ op'     = [op EXCEPT ![s] = "none"]
  /\ pooled' \in {pooled \cup {s}} \cup IF CanFail THEN {pooled} ELSE {}
  /\ UNCHANGED <<peer, iov, resp_sent, phase>>

AnswerNow(s) ==
  /\ resp_sent' = [resp_sent EXCEPT ![s] = 0]
  /\ \/ PostSend(s, 0)
     \/ CanFail /\ op' = [op EXCEPT ![s] = "none"] /\ UNCHANGED <<peer, iov, pooled, phase>>

(* Mutant: after the hand-over to the handler pool yk_on_recv does not     *)
(* return but answers as well.                                             *)
DispatchBoth(s) ==
  /\ keep'      = [keep EXCEPT ![s] = ~lastReq[peer[s]]]
  /\ resp_sent' = [resp_sent EXCEPT ![s] = 0]
  /\ op'        = [op EXCEPT ![s] = "send"]
  /\ iov'       = [iov EXCEPT ![s] = Rest(0)]
  /\ pooled'    = pooled \cup {s}
  /\ UNCHANGED <<peer, phase>>

Dispatch(s) ==
  /\ keep' = [keep EXCEPT ![s] = ~lastReq[peer[s]]]
  /\ Offload(s) \/ AnswerNow(s)

(* yk_on_recv with n units: an HTTP/1 connection turns into a WebSocket or *)
(* HTTP/2 session with its first request; a session consumes its frames    *)
(* and stays, or ends (close frame, GOAWAY, error).                        *)
RecvDone(s, n) ==
  LET k == peer[s] IN
  /\ op[s] = "recv"
  /\ phase[k] # "reset"
  /\ n \in 1 .. wire[k]
  /\ wire' = [wire EXCEPT ![k] = @ - n]
  /\ \/ /\ mode[s] = "http"
        /\ buf[s] + n < RequestLen
        /\ buf' = [buf EXCEPT ![s] = @ + n]
        /\ PostRecv(s)
        /\ UNCHANGED <<mode, keep, resp_sent>>
     \/ /\ mode[s] = "http" /\ "http" \in Modes
        /\ buf[s] + n >= RequestLen
        /\ buf' = [buf EXCEPT ![s] = @ + n]
        /\ Dispatch(s)
        /\ UNCHANGED mode
     \/ /\ mode[s] = "http" /\ Modes \ {"http"} # {}
        /\ buf[s] + n >= RequestLen
        /\ \E m \in Modes \ {"http"} : mode' = [mode EXCEPT ![s] = m]
        /\ buf' = [buf EXCEPT ![s] = 0]
        /\ PostRecv(s) \/ Close(s)
        /\ UNCHANGED <<keep, resp_sent>>
     \/ /\ mode[s] # "http"
        /\ buf' = [buf EXCEPT ![s] = 0]
        /\ PostRecv(s) \/ Close(s)
        /\ UNCHANGED <<mode, keep, resp_sent>>
  /\ UNCHANGED <<accepts, part, asked, lastReq, got>>

(* A receive of 0 bytes: the peer shut its side. *)
RecvClosed(s) ==
  /\ op[s] = "recv"
  /\ phase[peer[s]] = "shut" /\ wire[peer[s]] = 0
  /\ Close(s)
  /\ UNCHANGED <<accepts, mode, keep, buf, resp_sent, wire, part, asked, lastReq, got>>

(* yk_hw_worker: the handler has run; post the whole response.             *)
HandlerDone(s) ==
  /\ s \in pooled
  /\ resp_sent' = [resp_sent EXCEPT ![s] = 0]
  /\ PostSend(s, 0)
  /\ UNCHANGED <<accepts, mode, keep, buf, wire, part, asked, lastReq, got>>

(* Mutant: the rest is sent from the start of the body.                    *)
SendDoneRestart(s, n) ==
  LET k == peer[s] sent == resp_sent[s] + n IN
  /\ op[s] = "send"
  /\ phase[k] # "reset"
  /\ n \in 1 .. Len(iov[s])
  /\ got' = [got EXCEPT ![k] = @ \o SubSeq(iov[s], 1, n)]
  /\ resp_sent' = [resp_sent EXCEPT ![s] = sent]
  /\ \/ /\ sent < Len(Response)
        /\ PostSend(s, IF sent < HeaderLen THEN sent ELSE HeaderLen)
        /\ UNCHANGED buf
     \/ /\ sent >= Len(Response)
        /\ IF keep[s] THEN buf' = [buf EXCEPT ![s] = 0] /\ PostRecv(s)
                      ELSE Close(s) /\ UNCHANGED buf
  /\ UNCHANGED <<accepts, mode, keep, wire, part, asked, lastReq>>

(* Mutant: a connection that is not kept alive is closed with the first    *)
(* completion, whatever has been sent.                                     *)
SendDoneCloses(s, n) ==
  LET k == peer[s] sent == resp_sent[s] + n IN
  /\ op[s] = "send"
  /\ phase[k] # "reset"
  /\ n \in 1 .. Len(iov[s])
  /\ got' = [got EXCEPT ![k] = @ \o SubSeq(iov[s], 1, n)]
  /\ resp_sent' = [resp_sent EXCEPT ![s] = sent]
  /\ IF ~keep[s] THEN Close(s) /\ UNCHANGED buf
     ELSE IF sent < Len(Response) THEN PostSend(s, sent) /\ UNCHANGED buf
     ELSE buf' = [buf EXCEPT ![s] = 0] /\ PostRecv(s)
  /\ UNCHANGED <<accepts, mode, keep, wire, part, asked, lastReq>>

(* yk_on_send with n units: send the rest, or, when all is sent, receive   *)
(* the next request into an emptied buffer, or close.                      *)
SendDone(s, n) ==
  LET k == peer[s] sent == resp_sent[s] + n IN
  /\ op[s] = "send"
  /\ phase[k] # "reset"
  /\ n \in 1 .. Len(iov[s])
  /\ got' = [got EXCEPT ![k] = @ \o SubSeq(iov[s], 1, n)]
  /\ resp_sent' = [resp_sent EXCEPT ![s] = sent]
  /\ \/ /\ sent < Len(Response)
        /\ PostSend(s, sent)
        /\ UNCHANGED buf
     \/ /\ sent >= Len(Response)
        /\ IF keep[s] THEN buf' = [buf EXCEPT ![s] = 0] /\ PostRecv(s)
                      ELSE Close(s) /\ UNCHANGED buf
  /\ UNCHANGED <<accepts, mode, keep, wire, part, asked, lastReq>>

(* GetQueuedCompletionStatus reports that the operation failed: the worker *)
(* goes on with the next completion.                                       *)
OpFailed(s) ==
  /\ Live(s) /\ op[s] # "none"
  /\ phase[peer[s]] = "reset"
  /\ op' = [op EXCEPT ![s] = "none"]
  /\ UNCHANGED <<accepts, peer, iov, pooled, mode, keep, buf, resp_sent, clientVars>>

----------------------------------------------------------------------------
Completion(s) == \/ \E n \in 1 .. RequestLen : Live(s) /\ RecvDone(s, n)
                 \/ Live(s) /\ RecvClosed(s)
                 \/ Live(s) /\ (\E n \in 1 .. Len(Response) : SendDone(s, n))
                 \/ OpFailed(s)

Step == \/ \E k \in Clients : ClientSends(k) \/ ClientLeaves(k)
        \/ \E k \in Clients, s \in Slots : AcceptDone(k, s)
        \/ AcceptFailed
        \/ \E s \in Slots : Completion(s) \/ HandlerDone(s)

Next == Step /\ UNCHANGED rough

Spec == Init /\ [][Next]_vars

----------------------------------------------------------------------------
(* A connection has one owner at a time: a pending operation or a thread   *)
(* of the handler pool, never both; a free slot has none; two slots never  *)
(* serve the same client.                                                  *)
OneOwner ==
  /\ \A s \in Slots : ~(op[s] # "none" /\ s \in pooled)
  /\ \A s \in Slots : ~Live(s) => op[s] = "none" /\ s \notin pooled
  /\ \A s, t \in Slots : Live(s) /\ peer[s] = peer[t] => s = t

(* What a client has received is the answers to its requests, in order,    *)
(* each whole before the next one starts, whatever pieces they left in:    *)
(* unit u of answer r + 1 is where r whole answers and u units end.        *)
WireInOrder ==
  \A k \in Clients :
    /\ Len(got[k]) <= asked[k] * Len(Response)
    /\ \A i \in 1 .. Len(got[k]) : \E r \in 0 .. asked[k] - 1, u \in 1 .. Len(Response) :
         i = r * Len(Response) + u /\ got[k][i] = Response[u]

(* When nothing fails, every request of a client that stays is answered to *)
(* the last unit: the server neither falls silent nor closes before.       *)
RequestsAnswered ==
  \A k \in Clients : (~rough /\ phase[k] = "open" /\ ~Answered(k))
                       ~> (Answered(k) \/ phase[k] = "shut")
=============================================================================
