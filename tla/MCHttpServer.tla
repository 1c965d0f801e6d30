---------------------------- MODULE MCHttpServer ----------------------------
(* A small instance of HttpServer.                                         *)
EXTENDS HttpServer

CONSTANTS k1, k2

\* REST alone from two addresses; REST from one address and two processes; MCP with one
\* shutdown; MCP with more signals than kinds; and a little of everything.
MCWorkloads ==
  {[keys |-> {k1, k2}, calls |-> 0, signals |-> 0], [keys |-> {k1}, calls |-> 0, signals |-> 2],
   [keys |-> {}, calls |-> 4, signals |-> 1], [keys |-> {}, calls |-> 2, signals |-> 3],
   [keys |-> {k1}, calls |-> 2, signals |-> 1]}
=============================================================================
