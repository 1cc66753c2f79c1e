---------------------------- MODULE MCHttpServer ----------------------------
(* A small instance of the interpreter's HTTP server: one connection with  *)
(* several requests next to one that is allowed to fail.                   *)
EXTENDS HttpServer

CONSTANTS Steady, Many, Few

Limits == [c \in Conns |-> IF c = Steady THEN Many ELSE Few]
=============================================================================
