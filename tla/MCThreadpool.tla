---------------------------- MODULE MCThreadpool ----------------------------
(* Threadpool on a small instance: pools by number, in the order they are  *)
(* made.                                                                   *)
EXTENDS Threadpool

MCPools == 1 .. 2
MCThreads == {1, 3}
=============================================================================
