--------------------------- MODULE MCTodoDispatch ---------------------------
(* Cards, requests and the scheduler as model values. *)
EXTENDS TodoDispatch, TLC

CONSTANTS a, b, r1, scheduler
=============================================================================
