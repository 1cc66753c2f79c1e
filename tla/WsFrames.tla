------------------------------ MODULE WsFrames ------------------------------
(***************************************************************************)
(* A WebSocket session of the native server (yk_ws_process_data in the C   *)
(* runtime embedded in src/codegen/llvm.rs): frames are parsed by a state  *)
(* machine from a buffer that grows by whatever a receive brings, and text *)
(* and ping frames are answered.  One thread at a time owns a connection   *)
(* (see IocpServer), so the only concurrency is with the network, which    *)
(* cuts the stream of frames anywhere.                                     *)
(***************************************************************************)
EXTENDS Naturals, Sequences, SequencesExt

CONSTANTS
  Kinds,      \* the frames a client may send, see FrameKinds
  MaxFrames,  \* frames a client sends (bounds the model)
  MinRecv     \* bytes a receive brings at least, short of the end

(* A frame: opcode, bytes of the extended length, of the mask and of the   *)
(* payload.  "huge" announces more than the 65536 bytes that are accepted. *)
(* The mask of an empty frame lets the parser notice its end: without one  *)
(* the frame waits for the byte behind it.                                 *)
FrameKinds ==
  { f \in [op : {"text", "ping", "cont", "close", "huge"},
           ext : {0, 2, 8}, mask : {0, 4}, len : Nat] : f.mask > 0 \/ f.len > 0 }

(* The bytes of the j-th frame, each with its field and its place in it.   *)
FieldBytes(j, field, n) == [b \in 1 .. n |-> <<j, field, b>>]
Bytes(j, f) == FieldBytes(j, "header", 2) \o FieldBytes(j, "ext", f.ext)
                 \o FieldBytes(j, "mask", f.mask) \o FieldBytes(j, "payload", f.len)

VARIABLES
  frames,   \* what the client has sent
  stream,   \* history: the bytes of it
  owed,     \* history: what the server owes for it
  marks,    \* history: Len(stream) and Len(owed) behind each frame
  arrived,  \* bytes of it that have arrived
  buf, pos, \* the receive buffer and the place of the parser in it
  state,    \* ws->state
  frame,    \* opcode, payload_len, masked of the frame being parsed
  payload,  \* the payload_read bytes of it
  pc,       \* "recv": waiting, "parse": in yk_ws_process_data, "closed"
  replies   \* history: what the server has sent

clientVars == <<frames, stream, owed, marks>>
vars == <<clientVars, arrived, buf, pos, state, frame, payload, pc, replies>>

NoFrame == [op |-> "none", ext |-> 0, mask |-> 0, len |-> 0]

Init ==
  /\ frames = <<>> /\ stream = <<>> /\ owed = <<>> /\ marks = <<>>
  /\ arrived = 0 /\ buf = <<>> /\ pos = 0
  /\ state = "header" /\ frame = NoFrame /\ payload = <<>>
  /\ pc = "recv" /\ replies = <<>>

(* Among the first n frames is one that ends the session.                  *)
EndsAt(n) == \E j \in 1 .. n : frames[j].op \in {"close", "huge"}

----------------------------------------------------------------------------
(* The client sends a frame.  A text is to be echoed and a ping answered,  *)
(* but nothing behind a frame that ends the session.                       *)
Send(f) ==
  LET j == Len(frames) + 1 IN
  /\ j <= MaxFrames
  /\ frames' = Append(frames, f)
  /\ stream' = stream \o Bytes(j, f)
  /\ owed' = IF f.op \in {"text", "ping"} /\ ~EndsAt(j - 1)
               THEN Append(owed, <<f.op, FieldBytes(j, "payload", f.len)>>) ELSE owed
  /\ marks' = Append(marks, [bytes |-> Len(stream'), answers |-> Len(owed')])
  /\ UNCHANGED <<arrived, buf, pos, state, frame, payload, pc, replies>>

(* A receive completes with n bytes.                                       *)
Recv(n) ==
  /\ pc = "recv"
  /\ arrived + n <= Len(stream)
  /\ n >= MinRecv \/ arrived + n = Len(stream)
  /\ buf' = buf \o SubSeq(stream, arrived + 1, arrived + n)
  /\ arrived' = arrived + n
  /\ pos' = 0 /\ pc' = "parse"
  /\ UNCHANGED <<clientVars, state, frame, payload, replies>>

(* The bytes a state takes at once; the payload takes what there is.       *)
Need == CASE state = "header"  -> 2
          [] state = "ext"     -> frame.ext
          [] state = "mask"    -> frame.mask
          [] state = "payload" -> 0

Left      == Len(buf) - pos
Iterates  == pc = "parse" /\ Left > 0 /\ Left >= Need
Parsing(st) == Iterates /\ state = st

(* What a header means when it is read at pos: the frame it belongs to, or *)
(* any frame when the parser has lost its place in the stream.             *)
HeaderRead ==
  IF buf[pos + 1][2] = "header" /\ buf[pos + 1][3] = 1
    THEN {frames[buf[pos + 1][1]]} ELSE Kinds

FrameHeader ==
  /\ Parsing("header")
  /\ frame' \in HeaderRead
  /\ pos' = pos + 2
  /\ state' = IF frame'.ext = 0 THEN "mask" ELSE "ext"
  /\ UNCHANGED <<clientVars, arrived, buf, payload, pc, replies>>

ExtLen ==
  /\ Parsing("ext")
  /\ pos' = pos + frame.ext
  /\ state' = "mask"
  /\ UNCHANGED <<clientVars, arrived, buf, frame, payload, pc, replies>>

(* A complete frame: close ends the session, ping and text are answered,   *)
(* anything else is dropped.                                               *)
Complete(data) ==
  /\ state' = "header" /\ payload' = <<>>
  /\ pc' = IF frame.op = "close" THEN "closed" ELSE pc
  /\ replies' = IF frame.op \in {"text", "ping"}
                  THEN Append(replies, <<frame.op, data>>) ELSE replies

MaskKey ==
  /\ Parsing("mask")
  /\ pos' = pos + frame.mask
  /\ \/ frame.op = "huge" /\ pc' = "closed" /\ UNCHANGED <<state, payload, replies>>
     \/ frame.op # "huge" /\ frame.len = 0 /\ Complete(<<>>)
     \/ /\ frame.op # "huge" /\ frame.len > 0
        /\ state' = "payload" /\ payload' = <<>>
        /\ UNCHANGED <<pc, replies>>
  /\ UNCHANGED <<clientVars, arrived, buf, frame>>

(* Mutant: the rest of the payload is taken to be the whole payload. *)
PayloadAnew ==
  /\ Parsing("payload")
  /\ LET copy == IF Left < frame.len THEN Left ELSE frame.len
         data == payload \o SubSeq(buf, pos + 1, pos + copy)
     IN /\ pos' = pos + copy
        /\ IF Len(data) >= frame.len THEN Complete(data)
           ELSE payload' = data /\ UNCHANGED <<state, pc, replies>>
  /\ UNCHANGED <<clientVars, arrived, buf, frame>>

Payload ==
  /\ Parsing("payload")
  /\ LET need == frame.len - Len(payload)
         copy == IF Left < need THEN Left ELSE need
         data == payload \o SubSeq(buf, pos + 1, pos + copy)
     IN /\ pos' = pos + copy
        /\ IF Len(data) >= frame.len THEN Complete(data)
           ELSE payload' = data /\ UNCHANGED <<state, pc, replies>>
  /\ UNCHANGED <<clientVars, arrived, buf, frame>>

(* Mutant: an incomplete field is discarded wherever it starts. *)
DoneDiscards ==
  /\ pc = "parse" /\ ~Iterates
  /\ buf' = <<>>
  /\ pc' = "recv"
  /\ UNCHANGED <<clientVars, arrived, pos, state, frame, payload, replies>>

(* Nothing more to parse: keep what is left of the buffer - unless nothing *)
(* of it was consumed - and receive again.                                 *)
Done ==
  /\ pc = "parse" /\ ~Iterates
  /\ buf' = IF 0 < pos /\ pos < Len(buf) THEN SubSeq(buf, pos + 1, Len(buf)) ELSE <<>>
  /\ pc' = "recv"
  /\ UNCHANGED <<clientVars, arrived, pos, state, frame, payload, replies>>

Next == \/ \E f \in Kinds : Send(f)
        \/ \E n \in 1 .. Len(stream) : Recv(n)
        \/ FrameHeader \/ ExtLen \/ MaskKey \/ Payload \/ Done

Spec == Init /\ [][Next]_vars

----------------------------------------------------------------------------
(* Every variable keeps its type; the parser stays inside the buffer and   *)
(* the payload inside what was allocated for it.                           *)
TypeOK ==
  /\ frames \in Seq(Kinds) /\ Len(marks) = Len(frames)
  /\ arrived \in 0 .. Len(stream)
  /\ pos \in 0 .. Len(stream)
  /\ pc = "parse" => pos <= Len(buf)
  /\ state \in {"header", "ext", "mask", "payload"}
  /\ frame \in Kinds \cup {NoFrame}
  /\ Len(payload) <= frame.len
  /\ pc \in {"recv", "parse", "closed"}

(* The server echoes the text frames and answers the pings it received, in *)
(* order, each with its own payload.                                       *)
EchoInOrder == IsPrefix(replies, owed)

(* While the server waits for data it has answered every frame that has    *)
(* arrived completely: however the stream was cut, no frame is lost and    *)
(* none waits for the next one.                                            *)
NoFrameLost ==
  pc = "recv" =>
    \A n \in 1 .. Len(frames) :
      marks[n].bytes <= arrived => Len(replies) >= marks[n].answers /\ ~EndsAt(n)
=============================================================================
