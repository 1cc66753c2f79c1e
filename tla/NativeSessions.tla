--------------------------- MODULE NativeSessions ---------------------------
(***************************************************************************)
(* A connection of the native server after its upgrade: yk_on_recv         *)
(* (src/codegen/llvm.rs) gives every receive to the WebSocket parser       *)
(* (WsFrames) or to the HTTP/2 session (H2Session), whichever the          *)
(* connection has become, and never changes its mind.                      *)
(***************************************************************************)
EXTENDS H2Session

CONSTANTS Kinds, MaxFrames, MinRecv  \* of WsFrames

VARIABLES
  upgrade,  \* what the connection is: "ws" (ws_state) or "h2" (h2_sess)
  frames, stream, owed, marks, \* WsFrames
  arrived, buf, pos, state, frame, payload, pc, replies

Ws == INSTANCE WsFrames

(* Less than eight bytes, the longest field of a frame's header, the       *)
(* server would drop when they come alone and are only a part of it.       *)
ASSUME WsAssumption ==
  /\ Kinds \subseteq Ws!FrameKinds
  /\ {MaxFrames, MinRecv} \subseteq Nat /\ MinRecv >= 8

wsVars  == <<frames, stream, owed, marks,
             arrived, buf, pos, state, frame, payload, pc, replies>>
allVars == <<upgrade, wsVars, vars>>

(* The state of the protocol that was not chosen does not exist in the     *)
(* program; here it has one initial value and stays as it is.              *)
SessionsInit ==
  /\ upgrade \in {"ws", "h2"}
  /\ Init
  /\ Ws!Init

WsStep         == upgrade = "ws" /\ Ws!Next /\ UNCHANGED <<upgrade, vars>>
H2Step(action) == upgrade = "h2" /\ action /\ UNCHANGED <<upgrade, wsVars>>

SessionsNext == WsStep \/ H2Step(Next)

(* The fairness of H2Session: the network delivers, the I/O thread handles *)
(* what is complete, the client reads.                                     *)
SessionsSpec ==
  /\ SessionsInit /\ [][SessionsNext]_allVars
  /\ WF_allVars(H2Step(\E n \in 1 .. Pieces : Recv(n)))
  /\ WF_allVars(H2Step(Handle)) /\ WF_allVars(H2Step(ClientReads))

----------------------------------------------------------------------------
(* Of a WebSocket session: every frame is answered in order, with its own  *)
(* payload, and none is lost or left waiting, wherever the stream is cut   *)
(* (yk_ws_process_data).                                                   *)
FramesEchoed == Ws!EchoInOrder /\ Ws!NoFrameLost
=============================================================================
