-------------------------- MODULE MCNativeSessions --------------------------
(* A small instance of the sessions: WebSocket frames of every opcode the  *)
(* parser tells apart, with and without payload, mask and extended length. *)
EXTENDS NativeSessions

MCKinds ==
  { [op |-> "text",  ext |-> 0, mask |-> 4, len |-> 2],
    [op |-> "text",  ext |-> 2, mask |-> 4, len |-> 1],
    [op |-> "text",  ext |-> 0, mask |-> 0, len |-> 1],
    [op |-> "ping",  ext |-> 0, mask |-> 4, len |-> 0],
    [op |-> "cont",  ext |-> 0, mask |-> 4, len |-> 1],
    [op |-> "close", ext |-> 0, mask |-> 4, len |-> 0],
    [op |-> "huge",  ext |-> 8, mask |-> 4, len |-> 0] }
=============================================================================
