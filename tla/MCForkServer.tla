---------------------------- MODULE MCForkServer ----------------------------
(***************************************************************************)
(* ForkServer for TLC: three connections, so that two deaths can share one *)
(* SIGCHLD while a third child is being forked, an accept queue shorter    *)
(* than the number of clients, and a process table that two unreaped       *)
(* children fill.                                                          *)
(***************************************************************************)
EXTENDS ForkServer

=============================================================================
