------------------------- MODULE MCSubscriberWriter -------------------------
(* SubscriberWriter for TLC: the sizes of the outputs offered. *)
EXTENDS SubscriberWriter

MCChunks == 1..4
=============================================================================
