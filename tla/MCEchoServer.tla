---------------------------- MODULE MCEchoServer ----------------------------
(* EchoServer with a timeout message of one byte that no peer sends. *)
EXTENDS EchoServer

MCTimeoutText == <<MaxIn + 1>>

=============================================================================
