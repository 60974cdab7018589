-------------------------- MODULE MCClientSession ---------------------------
(* ClientSession for TLC: browser sockets that are alike. *)
EXTENDS ClientSession, TLC

CONSTANTS s1, s2

SocketSymmetry == Permutations(Sockets)
=============================================================================
