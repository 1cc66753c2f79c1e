------------------------------ MODULE H2Session -----------------------------
(***************************************************************************)
(* An HTTP/2 session of the native server (yk_h2_process_data in the C     *)
(* runtime embedded in src/codegen/llvm.rs) and a client that follows the  *)
(* protocol: frames arrive in pieces, requests on several streams are      *)
(* assembled from HEADERS and DATA frames and answered, flow-control       *)
(* credit is returned with WINDOW_UPDATE frames.                           *)
(***************************************************************************)
EXTENDS Naturals, Sequences, FiniteSets

CONSTANTS
  Streams,     \* how many streams the client opens in the whole session
  MaxStreams,  \* YK_H2_MAX_STREAMS, also what SETTINGS advertises (128)
  MaxData,     \* DATA frames of a request (bounds the model)
  Window,      \* initial windows, in DATA frames
  MaxInFlight, \* frames on their way to the server (bounds the model)
  Trailers     \* whether clients end requests with a trailing HEADERS frame

ASSUME H2Assumption ==
  /\ {Streams, MaxStreams, MaxData, Window, MaxInFlight} \subseteq Nat
  /\ Trailers \in BOOLEAN

Ids == 1 .. Streams

VARIABLES
  cl,        \* client: "idle", "open", "ended", "answered", "reset", "refused"
  sent,      \* client: DATA frames sent on each stream
  credit,    \* client: its connection window
  scredit,   \* client: its stream windows
  in, used,  \* frames on their way to the server, pieces of them buffered
  out,       \* frames on their way to the client
  streams,   \* sess->streams: id, header_data, body, whether CLOSED
  ended,     \* the session is over (GOAWAY, or the connection closed)
  answers    \* history: what the handlers of each stream were given

clientVars == <<cl, sent, credit, scredit>>
vars == <<clientVars, in, used, out, streams, ended, answers>>

Pieces == 2        \* a frame arrives in up to two pieces

Frame(t, id, end) == [type |-> t, id |-> id, end |-> end]

Init ==
  /\ cl = [id \in Ids |-> "idle"]
  /\ sent = [id \in Ids |-> 0]
  /\ credit = Window
  /\ scredit = [id \in Ids |-> Window]
  /\ in = <<>> /\ used = 0 /\ out = <<>>
  /\ streams = <<>> /\ ended = FALSE /\ answers = [id \in Ids |-> <<>>]

----------------------------------------------------------------------------
(* The client.  It opens streams in order, no more at a time than SETTINGS *)
(* allows, and keeps to its windows.                                       *)
Concurrent == {id \in Ids : cl[id] \in {"open", "ended"}}
Sends(f)   == Len(in) < MaxInFlight /\ in' = Append(in, f) /\ ~ended

ClientOpens(id) ==
  /\ cl[id] = "idle" /\ \A lower \in Ids : lower < id => cl[lower] # "idle"
  /\ Cardinality(Concurrent) < MaxStreams
  /\ \E end \in BOOLEAN :
       /\ Sends(Frame("headers", id, end))
       /\ cl' = [cl EXCEPT ![id] = IF end THEN "ended" ELSE "open"]
  /\ UNCHANGED <<sent, credit, scredit, used, out, streams, ended, answers>>

ClientData(id) ==
  /\ cl[id] = "open" /\ sent[id] < MaxData
  /\ credit > 0 /\ scredit[id] > 0
  /\ \E end \in BOOLEAN :
       /\ Sends(Frame("data", id, end))
       /\ cl' = [cl EXCEPT ![id] = IF end THEN "ended" ELSE "open"]
  /\ sent' = [sent EXCEPT ![id] = @ + 1]
  /\ credit' = credit - 1
  /\ scredit' = [scredit EXCEPT ![id] = @ - 1]
  /\ UNCHANGED <<used, out, streams, ended, answers>>

ClientTrails(id) ==
  /\ Trailers /\ cl[id] = "open"
  /\ Sends(Frame("trailers", id, TRUE))
  /\ cl' = [cl EXCEPT ![id] = "ended"]
  /\ UNCHANGED <<sent, credit, scredit, used, out, streams, ended, answers>>

ClientResets(id) ==
  /\ cl[id] \in {"open", "ended"}
  /\ Sends(Frame("rst", id, TRUE))
  /\ cl' = [cl EXCEPT ![id] = "reset"]
  /\ UNCHANGED <<sent, credit, scredit, used, out, streams, ended, answers>>

ClientGoesAway ==
  /\ \A j \in DOMAIN in : in[j].type # "goaway"
  /\ Sends(Frame("goaway", 0, TRUE))
  /\ UNCHANGED <<clientVars, used, out, streams, ended, answers>>

ClientReads ==
  /\ out # <<>>
  /\ out' = Tail(out)
  /\ LET f == Head(out) IN
       CASE f.type = "response" ->
              /\ cl' = [cl EXCEPT ![f.id] = IF @ = "reset" THEN @ ELSE "answered"]
              /\ UNCHANGED <<credit, scredit>>
         [] f.type = "refused" ->
              /\ cl' = [cl EXCEPT ![f.id] = "refused"]
              /\ UNCHANGED <<credit, scredit>>
         [] f.type = "window" ->
              /\ IF f.id = 0
                   THEN credit' = credit + 1 /\ UNCHANGED scredit
                   ELSE scredit' = [scredit EXCEPT ![f.id] = @ + 1] /\ UNCHANGED credit
              /\ UNCHANGED cl
  /\ UNCHANGED <<sent, in, used, streams, ended, answers>>

----------------------------------------------------------------------------
(* The server.                                                             *)
Find(id)     == {n \in DOMAIN streams : streams[n].id = id}
Send(fs)     == out' = out \o fs
Closed(st)   == [st EXCEPT !.closed = TRUE]

(* yk_h2_process_stream: the request is routed on the stored headers, the  *)
(* response ends the stream.                                               *)
Response(st) == Frame("response", st.id, TRUE)
Process(st)  == answers' = [answers EXCEPT ![st.id] = Append(@, [hdr |-> st.hdr, body |-> st.body])]

(* A completion of a receive brings n pieces; the next receive is posted   *)
(* when every complete frame in the buffer has been handled.               *)
Recv(n) ==
  /\ ~ended /\ used < Pieces
  /\ used + n <= Pieces * Len(in)
  /\ used' = used + n
  /\ UNCHANGED <<clientVars, in, out, streams, ended, answers>>

(* The next complete frame, of one of the given types.                     *)
Next1(types) ==
  /\ ~ended /\ used >= Pieces
  /\ Head(in).type \in types
  /\ in' = Tail(in) /\ used' = used - Pieces

Stored(id) == CHOOSE n \in Find(id) : TRUE

(* Mutant: a stream that is closed may be replaced by a new one, but the   *)
(* body it collected stays.                                                *)
HeadersReuse ==
  LET id == Head(in).id
      n  == IF Find(id) # {} THEN Stored(id)
            ELSE IF \E c \in DOMAIN streams : streams[c].closed
                 THEN CHOOSE c \in DOMAIN streams : streams[c].closed
                 ELSE Len(streams) + 1
      st == IF n \in DOMAIN streams
              THEN [streams[n] EXCEPT !.id = id, !.hdr = Head(in).type, !.closed = FALSE]
              ELSE [id |-> id, hdr |-> Head(in).type, body |-> <<>>, closed |-> FALSE]
  IN
  /\ Next1({"headers", "trailers"})
  /\ n <= MaxStreams
  /\ IF Head(in).end
       THEN Send(<<Response(st)>>) /\ Process(st)
            /\ streams' = IF n \in DOMAIN streams THEN [streams EXCEPT ![n] = Closed(st)]
                          ELSE Append(streams, Closed(st))
       ELSE /\ streams' = IF n \in DOMAIN streams THEN [streams EXCEPT ![n] = st]
                          ELSE Append(streams, st)
            /\ UNCHANGED <<out, answers>>
  /\ UNCHANGED <<clientVars, ended>>

(* yk_h2_handle_headers: the stream is found, made, or refused when the    *)
(* table is full; its headers are replaced; END_STREAM completes the       *)
(* request.                                                                *)
Headers ==
  LET id == Head(in).id
      n  == IF Find(id) # {} THEN Stored(id) ELSE Len(streams) + 1
      st == [id |-> id, hdr |-> Head(in).type, closed |-> FALSE,
             body |-> IF n \in DOMAIN streams THEN streams[n].body ELSE <<>>]
      set(s) == streams' = IF n \in DOMAIN streams THEN [streams EXCEPT ![n] = s]
                           ELSE Append(streams, s)
  IN
  /\ Next1({"headers", "trailers"})
  /\ \/ /\ n > MaxStreams
        /\ Send(<<Frame("refused", id, TRUE)>>)
        /\ UNCHANGED <<streams, answers>>
     \/ /\ n <= MaxStreams /\ ~Head(in).end
        /\ set(st)
        /\ UNCHANGED <<out, answers>>
     \/ /\ n <= MaxStreams /\ Head(in).end
        /\ set(Closed(st)) /\ Process(st) /\ Send(<<Response(st)>>)
  /\ UNCHANGED <<clientVars, ended>>

(* Mutant: only the stream's window is returned. *)
DataStreamWindowOnly ==
  LET id == Head(in).id
      n  == Stored(id)
      st == [streams[n] EXCEPT !.body = Append(@, id)]
  IN
  /\ Next1({"data"})
  /\ \/ Find(id) = {} /\ UNCHANGED <<out, streams, answers>>
     \/ /\ Find(id) # {} /\ ~Head(in).end
        /\ streams' = [streams EXCEPT ![n] = st]
        /\ Send(<<Frame("window", id, FALSE)>>)
        /\ UNCHANGED answers
     \/ /\ Find(id) # {} /\ Head(in).end
        /\ streams' = [streams EXCEPT ![n] = Closed(st)]
        /\ Process(st)
        /\ Send(<<Frame("window", id, FALSE), Response(st)>>)
  /\ UNCHANGED <<clientVars, ended>>

(* Mutant: END_STREAM counts only when the headers had it. *)
DataEndIgnored ==
  LET id == Head(in).id
      n  == Stored(id)
  IN
  /\ Next1({"data"})
  /\ \/ Find(id) = {} /\ UNCHANGED <<out, streams>>
     \/ /\ Find(id) # {}
        /\ streams' = [streams EXCEPT ![n] = [@ EXCEPT !.body = Append(@, id)]]
        /\ Send(<<Frame("window", id, FALSE), Frame("window", 0, FALSE)>>)
  /\ UNCHANGED <<clientVars, ended, answers>>

(* yk_h2_handle_data: DATA for an unknown stream is dropped; otherwise it  *)
(* is appended to the body and both windows are returned; END_STREAM       *)
(* completes the request.                                                  *)
Data ==
  LET id == Head(in).id
      n  == Stored(id)
      st == [streams[n] EXCEPT !.body = Append(@, id)]
      windows == <<Frame("window", id, FALSE), Frame("window", 0, FALSE)>>
  IN
  /\ Next1({"data"})
  /\ \/ Find(id) = {} /\ UNCHANGED <<out, streams, answers>>
     \/ /\ Find(id) # {} /\ ~Head(in).end
        /\ streams' = [streams EXCEPT ![n] = st]
        /\ Send(windows)
        /\ UNCHANGED answers
     \/ /\ Find(id) # {} /\ Head(in).end
        /\ streams' = [streams EXCEPT ![n] = Closed(st)]
        /\ Process(st)
        /\ Send(Append(windows, Response(st)))
  /\ UNCHANGED <<clientVars, ended>>

(* RST_STREAM marks the stream. *)
Reset ==
  LET id == Head(in).id IN
  /\ Next1({"rst"})
  /\ streams' = [n \in DOMAIN streams |->
                   IF streams[n].id = id THEN Closed(streams[n]) ELSE streams[n]]
  /\ UNCHANGED <<clientVars, out, ended, answers>>

(* GOAWAY ends the session: yk_h2_cleanup frees it and closes the socket.  *)
GoAway ==
  /\ Next1({"goaway"})
  /\ ended' = TRUE
  /\ streams' = <<>>
  /\ UNCHANGED <<clientVars, out, answers>>

Handle == Headers \/ Data \/ Reset \/ GoAway

Next == \/ \E id \in Ids : ClientOpens(id) \/ ClientData(id) \/ ClientTrails(id) \/ ClientResets(id)
        \/ ClientGoesAway \/ ClientReads
        \/ \E n \in 1 .. Pieces : Recv(n)
        \/ Handle

Spec == Init /\ [][Next]_vars

(* The network delivers, the I/O thread handles what is complete, the      *)
(* client reads; it need not send.                                         *)
Fairness == /\ WF_vars(\E n \in 1 .. Pieces : Recv(n)) /\ WF_vars(Handle) /\ WF_vars(ClientReads)

FairSpec == Spec /\ Fairness

----------------------------------------------------------------------------
(* Every variable keeps its type; the table of streams never overflows.    *)
TypeOK ==
  /\ cl \in [Ids -> {"idle", "open", "ended", "answered", "reset", "refused"}]
  /\ sent \in [Ids -> 0 .. MaxData]
  /\ credit \in 0 .. Window
  /\ scredit \in [Ids -> 0 .. Window]
  /\ used \in 0 .. Pieces * Len(in)
  /\ Len(streams) <= MaxStreams
  /\ ended \in BOOLEAN

(* A handler runs at most once for a stream, and only after the client has *)
(* ended the request on it.                                                *)
AnsweredOnce ==
  \A id \in Ids : /\ Len(answers[id]) <= 1
                 /\ answers[id] # <<>> => cl[id] \in {"ended", "answered", "reset"}

(* A handler is given the headers that opened its stream (llvm.rs:3611:    *)
(* method and path are looked for in them) and the whole body of that      *)
(* stream, with no frame of another one mixed in.  (Trailers replace the   *)
(* headers.)                                                               *)
RequestWhole ==
  \A id \in Ids : \A j \in DOMAIN answers[id] :
    LET a == answers[id][j] IN
    /\ a.hdr = "headers" \/ Trailers
    /\ a.body = [b \in 1 .. sent[id] |-> id]

(* Connection credit is conserved while no stream is refused: what the    *)
(* client may send, what is on its way and what is being returned add up   *)
(* to the initial window, so that uploads never starve.  (DATA of a        *)
(* refused stream is dropped, and its connection credit with it.)          *)
Frames == [type : {"headers", "data", "trailers", "rst", "goaway",
                   "window", "response", "refused"},
           id : 0 .. Streams, end : BOOLEAN]
OnTheWay(q, fs) == Cardinality({j \in DOMAIN q : q[j] \in fs})

DataFrames  == {f \in Frames : f.type = "data"}
Credits     == {f \in Frames : f.type = "window" /\ f.id = 0}
NoneRefused == /\ \A id \in Ids : cl[id] # "refused"
               /\ \A j \in DOMAIN out : out[j].type # "refused"

CreditConserved ==
  ~ended /\ NoneRefused
    => credit + OnTheWay(in, DataFrames) + OnTheWay(out, Credits) = Window

(* A client that stays gets an answer to every request it has completed -  *)
(* a response, or the refusal of the stream.                               *)
StreamsAnswered ==
  \A id \in Ids : cl[id] = "ended" ~> cl[id] \in {"answered", "reset", "refused"} \/ ended

=============================================================================
