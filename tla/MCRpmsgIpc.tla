----------------------------- MODULE MCRpmsgIpc -----------------------------
(***************************************************************************)
(* A small instance of RpmsgIpc: two receive buffers, one transmit buffer, a  *)
(* client that stops after three answers, and tty messages that may be empty. *)
(***************************************************************************)
EXTENDS RpmsgIpc

=============================================================================
