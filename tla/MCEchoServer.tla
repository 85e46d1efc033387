---------------------------- MODULE MCEchoServer ----------------------------
(***************************************************************************)
(* A small instance of EchoServer: one address family with one handler, as    *)
(* in prj_atsamv71.conf.  Its two services and one connection use up the       *)
(* descriptors, so that a second connection meets a full table, or reuses a   *)
(* descriptor that a stopping service has just closed.                       *)
(***************************************************************************)
EXTENDS EchoServer

MCFamilyOrder == <<"ipv4">>

=============================================================================
