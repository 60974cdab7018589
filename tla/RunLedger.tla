------------------------------ MODULE RunLedger ------------------------------
(***************************************************************************)
(* What the dispatch promises about the runs of a card, whatever becomes   *)
(* of terminals, rows and board requests.  The runs of a card are numbered *)
(* in the order they start.  A card is held by at most one dispatch, the   *)
(* one of its newest run or one that only sends a comment (run 0); while   *)
(* it is held no other can start.  A dispatch ends in one step that says   *)
(* how its run ended, unless the process dies, and a failed run is final.  *)
(* The schedule of a card is cleared when a run starts, and set when a run *)
(* completes or a dispatch fails, at no other time.                        *)
(***************************************************************************)
EXTENDS Naturals

CONSTANTS
  Cards,
  Scheduled, \* the cards with a schedule
  MaxRun     \* bound: runs per card

VARIABLES
  status, \* status[c][n]: the status of the n-th run of card c
  last,   \* last[c]: how many runs were started
  held,   \* the <<card, run>> pairs of the dispatches in progress
  due     \* the scheduled cards with a next trigger time

vars == <<status, last, held, due>>

Numbers == 1..MaxRun

Init ==
  /\ status = [c \in Cards |-> [n \in Numbers |-> "none"]]
  /\ last = [c \in Cards |-> 0]
  /\ held = {}
  /\ due = Scheduled

Free(c) == \A h \in held : h[1] # c

Start(c) ==
  /\ Free(c)
  /\ last[c] + 1 \in Numbers
  /\ last' = [last EXCEPT ![c] = @ + 1]
  /\ status' = [status EXCEPT ![c][last[c] + 1] = "STARTING"]
  /\ held' = held \cup {<<c, last[c] + 1>>}
  /\ due' = due \ {c}

Comment(c) ==
  /\ Free(c)
  /\ held' = held \cup {<<c, 0>>}
  /\ UNCHANGED <<status, last, due>>

\* The dispatch of run n of card c ends with outcome s.
End(c, n, s) ==
  /\ <<c, n>> \in held
  /\ held' = held \ {<<c, n>>}
  /\ IF n = 0 THEN UNCHANGED status
     ELSE /\ n = last[c] /\ status[c][n] # "FAILED"
          /\ status' = [status EXCEPT ![c][n] = s]
  /\ UNCHANGED last

Commit(c, n) == End(c, n, "DISPATCHED") /\ UNCHANGED due
Fail(c, n)   == End(c, n, "FAILED") /\ due' = due \cup ({c} \cap Scheduled)

\* What the agents did is seen: open runs are confirmed or completed.
Observe ==
  /\ status' \in [Cards -> [Numbers -> {"none", "STARTING", "DISPATCHED", "COMPLETED", "FAILED"}]]
  /\ \A c \in Cards, n \in Numbers : status'[c][n] # status[c][n] =>
       /\ status[c][n] \in {"STARTING", "DISPATCHED"}
       /\ status'[c][n] \in {"DISPATCHED", "COMPLETED"}
  /\ due' = due \cup {c \in Scheduled : \E n \in Numbers :
                        status'[c][n] = "COMPLETED" /\ status[c][n] # "COMPLETED"}
  /\ UNCHANGED <<last, held>>

Restart == held' = {} /\ UNCHANGED <<status, last, due>>

Next ==
  \/ \E c \in Cards : Start(c) \/ Comment(c)
  \/ \E c \in Cards, n \in 0..MaxRun : Commit(c, n) \/ Fail(c, n)
  \/ Observe \/ Restart

Spec == Init /\ [][Next]_vars
=============================================================================
