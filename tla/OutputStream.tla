----------------------------- MODULE OutputStream -----------------------------
(***************************************************************************)
(* What a subscriber writer promises to its tab, however it queues, splits *)
(* and joins: the bytes of the terminal are delivered in the order they    *)
(* were produced, each at most once, and what is delivered stays so.  Old  *)
(* output makes way for new only for a tab that can be repainted, and a    *)
(* writer that refuses output has failed.                                  *)
(***************************************************************************)
EXTENDS Naturals, Sequences

CONSTANT MaxProduced  \* bound: bytes the terminal produces

VARIABLES
  produced,  \* how many bytes the terminal has produced
  pending,   \* the bytes that are kept for the tab
  delivered, \* the bytes the tab was sent
  repaints,  \* the tab acknowledges, so that it can be repainted
  failed,    \* the writer has failed and will be dropped
  open       \* the writer is not closed

vars == <<produced, pending, delivered, repaints, failed, open>>

Init ==
  /\ produced = 0 /\ pending = <<>> /\ delivered = <<>>
  /\ repaints = FALSE /\ failed = FALSE /\ open = TRUE

New(n) == [i \in 1..n |-> produced + i]

\* The terminal produces n bytes: they are kept, instead of the old ones if the tab can
\* be repainted, or refused.
Produce(n) ==
  /\ open
  /\ produced' = produced + n
  /\ \/ /\ pending' = pending \o New(n) \/ (repaints /\ pending' = New(n))
        /\ UNCHANGED failed
     \/ /\ failed' = TRUE
        /\ pending' = pending \/ (repaints /\ pending' = <<>>)
  /\ UNCHANGED <<delivered, repaints, open>>

Deliver(k) ==
  /\ open
  /\ delivered' = delivered \o SubSeq(pending, 1, k)
  /\ pending' = SubSeq(pending, k + 1, Len(pending))
  /\ UNCHANGED <<produced, repaints, failed, open>>

BeginRepaints ==
  /\ ~repaints
  /\ repaints' = TRUE
  /\ UNCHANGED <<produced, pending, delivered, failed, open>>

Close ==
  /\ open
  /\ open' = FALSE
  /\ pending' = <<>>
  /\ failed' \in {failed, TRUE}
  /\ UNCHANGED <<produced, delivered, repaints>>

Next ==
  \/ \E n \in 0..MaxProduced : Produce(n)
  \/ \E k \in 1..Len(pending) : Deliver(k)
  \/ BeginRepaints \/ Close

Spec == Init /\ [][Next]_vars
=============================================================================
