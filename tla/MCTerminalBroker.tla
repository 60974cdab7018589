-------------------------- MODULE MCTerminalBroker --------------------------
(* TerminalBroker for TLC: two browser sockets on the view. *)
EXTENDS TerminalBroker

CONSTANTS s1, s2
=============================================================================
