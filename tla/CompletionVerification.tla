------------------------ MODULE CompletionVerification ------------------------
(***************************************************************************)
(* The verification of one dispatched todo card whose agent says it is     *)
(* done.                                                                   *)
(*                                                                         *)
(* Two processes ingest the agent's completions: the server, which also     *)
(* answers the board, and the event worker.  Either may find a card due,   *)
(* create an asyncio task of its own, and mark the card as verifying in    *)
(* its own, later commit.  The task reserves the card in the memory of its *)
(* process, asks what still runs in the terminal, and completes the card,  *)
(* defers to a recheck, or asks an auxiliary agent for a verdict.          *)
(* Meanwhile the card may be patched or dispatched again.                  *)
(*                                                                         *)
(* A commit is one action; every await between a read that decides and the *)
(* write that follows separates two.  A completion is named by its number, *)
(* which is its time; 0 is no time.  The card keeps its terminal (policy   *)
(* REUSE_LATEST) and requests no artifacts.                                *)
(***************************************************************************)
EXTENDS Naturals, FiniteSets

CONSTANTS
  Requests,       \* the board requests that may run at once
  Slots,          \* names for the verification tasks alive at once
  Periodic,       \* whether the card's execution kind is PERIODIC
  Work,           \* the kinds of background work there are: "process", "subagent"
  MaxAttempts,    \* project_todo_completion_verification_max_attempts
  MaxDispatches,  \* bound: dispatches of the card
  MaxEvents,      \* bound: completions of the agent
  MaxWork,        \* bound: background processes and subagents started
  MaxMishaps      \* bound: status patches, restarts and tasks that raise, together

Processes == {"server", "worker"}

ASSUME VerificationAssumption ==
  /\ Requests \cap Processes = {}
  /\ Periodic \in BOOLEAN
  /\ Work \subseteq {"process", "subagent"}
  /\ MaxAttempts \in Nat \ {0}
  /\ {MaxDispatches, MaxEvents, MaxWork, MaxMishaps} \subseteq Nat

VARIABLES
  card,         \* the card's row
  window,       \* the row of its terminal, and what runs in it
  dispatching,  \* whether a dispatch of the card is under way
  inbox,        \* inbox[p]: the completions process p has yet to ingest
  task,         \* task[i]: the verification task in slot i
  reserved,     \* the processes with the card in _verifications_in_progress
  open,         \* open[c]: the uncommitted transaction of caller c
  waiter,       \* history: the process that last made the card wait
  spent         \* what was used of each bound

terminal == <<window, inbox>>
vars == <<card, terminal, dispatching, task, reserved, open, waiter, spent>>

\* A process ingests one completion after the other; requests are the server's.
Callers == Requests \cup Processes
Home(c) == IF c = "worker" THEN "worker" ELSE "server"
Times   == 0..MaxEvents

\* wait is what dispatch_error says: "background" for a wait on background work,
\* "final" for a wait on the final completion, whose time it then carries.
\* dispatched_at lies between the completion dispatchedAt and the next one.
Card == [status : {"todo", "dispatched", "awaiting_review", "done", "blocked"},
         stage : {"none", "STARTING", "verifying", "FAILED"},
         wait : {"none", "background", "final"}, finalAt : Times, dispatchedAt : Times]

Window == [latest : Times, deferred : Times, work : SUBSET Work]

\* The pc of a task names what it awaits.
Active == {"querying", "reviewing", "asking", "completing", "blocking", "closing"}
Pc     == {"free", "start", "retry", "sleeping"} \cup Active

\* home: the process it runs in; at: the completion to verify; reviewAt: the one the
\* review found; asked: the auxiliary agent gave a verdict; stage, wait: what the row
\* said when the task decided.
Task == [home : Processes, pc : Pc, at : Times, attempt : 1..MaxAttempts, reviewAt : Times,
         asked : BOOLEAN, stage : {"none", "STARTING", "verifying", "FAILED"},
         wait : {"none", "background", "final"}]

\* event: the completion that is ingested; hands: it is handed to the cards of its
\* window.  The commit writes the stage, the window's latest completion (if not 0) and
\* the end of the deferred one.  Once flushed, the stage locks the card's row.
Transaction == [pc : {"closed", "read", "synced", "flushed"}, event : Times, hands : BOOLEAN,
                stage : BOOLEAN, latest : Times, clears : BOOLEAN]

Free   == [home |-> "server", pc |-> "free", at |-> 0, attempt |-> 1, reviewAt |-> 0,
           asked |-> FALSE, stage |-> "none", wait |-> "none"]
Closed == [pc |-> "closed", event |-> 0, hands |-> FALSE, stage |-> FALSE, latest |-> 0,
           clears |-> FALSE]

Bound == [dispatches |-> MaxDispatches, events |-> MaxEvents, work |-> MaxWork,
          mishaps |-> MaxMishaps]

Spend(b) == spent[b] < Bound[b] /\ spent' = [spent EXCEPT ![b] = @ + 1]

\* A writer of the card waits for the row's lock; a reader does not.
Unlocked == \A c \in Callers : open[c].pc # "flushed"

\* The latest completion of the agent, ingested or not.
Now == spent["events"]

Later(a, b) == IF a > b THEN a ELSE b

Init ==
  /\ card = [status |-> "todo", stage |-> "none", wait |-> "none", finalAt |-> 0,
             dispatchedAt |-> 0]
  /\ window = [latest |-> 0, deferred |-> 0, work |-> {}]
  /\ dispatching = FALSE
  /\ inbox = [p \in Processes |-> {}]
  /\ task = [i \in Slots |-> Free]
  /\ reserved = {}
  /\ open = [c \in Callers |-> Closed]
  /\ waiter = "server"
  /\ spent = [b \in DOMAIN Bound |-> 0]

-----------------------------------------------------------------------------
(* Syncing the card with a completion of its window.                        *)

Waited == card.wait # "none"

\* The card is due for a verification of the completion at time t.
Due(t) ==
  /\ card.status = "dispatched"
  /\ t > card.dispatchedAt
  /\ card.stage # "verifying" \/ Waited

FreeSlots == {i \in Slots : task[i].pc = "free"}

\* A free slot; which one does not matter.
IsNextSlot(i) == i \in FreeSlots /\ i = CHOOSE j \in FreeSlots : TRUE

\* A new task of process p for the completion at time t; a slot is kept for a retry, if
\* there is one.
ScheduleVerification(i, p, t) ==
  /\ IsNextSlot(i)
  /\ MaxAttempts > 1 => Cardinality(FreeSlots) > 1
  /\ task' = [task EXCEPT ![i] =
        [Free EXCEPT !.home = p, !.pc = "start",
                     !.at = IF card.wait = "final" THEN card.finalAt ELSE t]]

\* The stage is written by the caller's commit, and only if it read another one.
WritesStage == card.stage # "verifying"

\* GET the board.
sync_dispatched_project_todos(r, i) ==
  /\ open[r].pc = "closed"
  /\ Due(window.latest)
  /\ ScheduleVerification(i, "server", window.latest)
  /\ open' = [open EXCEPT ![r] = [Closed EXCEPT !.pc = "synced", !.stage = WritesStage]]
  /\ UNCHANGED <<card, terminal, dispatching, reserved, waiter, spent>>

\* The agent completes a turn: the event is queued for the worker, and the server
\* persists it as well.
AgentCompletes ==
  /\ Spend("events")
  /\ inbox' = [p \in Processes |-> inbox[p] \cup {Now + 1}]
  /\ UNCHANGED <<card, window, dispatching, task, reserved, open, waiter>>

\* The server takes the events of the client in their order; the worker may not.
Ingestible(p) ==
  {t \in inbox[p] : p = "server" => \A u \in inbox[p] : t <= u}

\* A completion is persisted: its transaction reads the window.  What the window has
\* already may be a duplicate: it is not once another event is the window's latest.
persist_managed_agent_event(p, t) ==
  /\ open[p].pc = "closed"
  /\ t \in Ingestible(p)
  /\ "subagent" \notin window.work
  /\ \E hands \in IF t <= window.latest THEN BOOLEAN ELSE {TRUE} :
       open' = [open EXCEPT ![p] =
         [Closed EXCEPT !.pc = "read", !.event = t, !.hands = hands,
                        !.latest = IF t > window.latest THEN t ELSE 0,
                        !.clears = window.deferred # 0]]
  /\ UNCHANGED <<card, terminal, dispatching, task, reserved, waiter, spent>>

\* What it changed of the window is flushed before the cards are read, and locks the
\* window's row until the commit.
WritesWindow(p)  == open[p].latest # 0 \/ open[p].clears
WindowUnlocked   == \A p \in Processes : open[p].pc \in {"synced", "flushed"} => ~WritesWindow(p)
FlushesWindow(p) == open[p].pc = "read" /\ (WritesWindow(p) => WindowUnlocked)

\* The completion that is being persisted is handed to the cards of the window.
sync_project_todos_for_completed_window(p, i) ==
  /\ FlushesWindow(p) /\ open[p].hands /\ Due(open[p].event)
  /\ ScheduleVerification(i, p, open[p].event)
  /\ open' = [open EXCEPT ![p] = [@ EXCEPT !.pc = "synced", !.stage = WritesStage]]
  /\ UNCHANGED <<card, terminal, dispatching, reserved, waiter, spent>>

\* It is a duplicate, or no card is due.
SyncsNothing(p) ==
  /\ FlushesWindow(p)
  /\ ~(open[p].hands /\ Due(open[p].event))
  /\ open' = [open EXCEPT ![p].pc = "synced"]
  /\ UNCHANGED <<card, terminal, dispatching, task, reserved, waiter, spent>>

FlushSync(c) ==
  /\ open[c].pc = "synced" /\ open[c].stage /\ Unlocked
  /\ open' = [open EXCEPT ![c].pc = "flushed"]
  /\ UNCHANGED <<card, terminal, dispatching, task, reserved, waiter, spent>>

CommitSync(c) ==
  /\ open[c].pc = IF open[c].stage THEN "flushed" ELSE "synced"
  /\ card' = IF open[c].stage THEN [card EXCEPT !.stage = "verifying"] ELSE card
  /\ window' = [window EXCEPT
        !.latest = IF open[c].latest # 0 THEN open[c].latest ELSE @,
        !.deferred = IF open[c].clears THEN 0 ELSE @]
  /\ inbox' = [p \in Processes |-> IF p = c THEN inbox[p] \ {open[c].event} ELSE inbox[p]]
  /\ open' = [open EXCEPT ![c] = Closed]
  /\ UNCHANGED <<dispatching, task, reserved, waiter, spent>>

-----------------------------------------------------------------------------
(* The terminal: background processes, subagents, deferred completions.  An *)
(* event of a subagent is ingested in one step.                             *)

\* A completion with a subagent pending is kept aside and syncs no card.
DeferCompletion(p, t) ==
  /\ open[p].pc = "closed"
  /\ t \in Ingestible(p)
  /\ "subagent" \in window.work /\ WindowUnlocked
  /\ window' = [window EXCEPT !.deferred = Later(@, t)]
  /\ inbox' = [inbox EXCEPT ![p] = @ \ {t}]
  /\ UNCHANGED <<card, dispatching, task, reserved, open, waiter, spent>>

WorkStarts(w) ==
  /\ Spend("work")
  /\ w \notin window.work
  /\ w = "subagent" => WindowUnlocked
  /\ window' = [window EXCEPT !.work = @ \cup {w}]
  /\ UNCHANGED <<card, inbox, dispatching, task, reserved, open, waiter>>

ProcessEnds ==
  /\ "process" \in window.work
  /\ window' = [window EXCEPT !.work = @ \ {"process"}]
  /\ UNCHANGED <<card, inbox, dispatching, task, reserved, open, waiter, spent>>

\* The last subagent's result, or its staleness, promotes the deferred completion.
promote_deferred_completion ==
  /\ "subagent" \in window.work /\ WindowUnlocked
  /\ window' = [window EXCEPT !.work = @ \ {"subagent"}, !.deferred = 0,
                              !.latest = Later(@, window.deferred)]
  /\ UNCHANGED <<card, inbox, dispatching, task, reserved, open, waiter, spent>>

\* A background subagent's finished notification does not: the agent completes again.
SubagentNotifies ==
  /\ "subagent" \in window.work /\ WindowUnlocked
  /\ window' = [window EXCEPT !.work = @ \ {"subagent"}]
  /\ UNCHANGED <<card, inbox, dispatching, task, reserved, open, waiter, spent>>

-----------------------------------------------------------------------------
(* The dispatches and the patches of the card, by the server (see           *)
(* TodoDispatch).                                                           *)

BeginDispatch ==
  /\ Spend("dispatches")
  /\ ~dispatching /\ card.status # "blocked"
  /\ Unlocked
  /\ card' = [card EXCEPT !.stage = "STARTING", !.wait = "none", !.finalAt = 0,
                          !.dispatchedAt = 0]
  /\ dispatching' = TRUE
  /\ UNCHANGED <<terminal, task, reserved, open, waiter>>

\* The dispatch moves on to its next stage (the three of them are one here).
_update_dispatch_stage ==
  /\ dispatching /\ Unlocked
  /\ card' = [card EXCEPT !.stage = "STARTING", !.wait = "none", !.finalAt = 0]
  /\ UNCHANGED <<terminal, dispatching, task, reserved, open, waiter, spent>>

CommitDispatch ==
  /\ dispatching
  /\ Unlocked
  /\ card' = [status |-> "dispatched", stage |-> "none", wait |-> "none", finalAt |-> 0,
              dispatchedAt |-> Now]
  /\ dispatching' = FALSE
  /\ UNCHANGED <<terminal, task, reserved, open, waiter, spent>>

FailDispatch ==
  /\ dispatching
  /\ Unlocked
  /\ card' = [card EXCEPT !.stage = "FAILED", !.wait = "none", !.finalAt = 0]
  /\ dispatching' = FALSE
  /\ UNCHANGED <<terminal, task, reserved, open, waiter, spent>>

PatchStatus(st) ==
  /\ Spend("mishaps")
  /\ Unlocked
  /\ card' = IF st = "todo"
             THEN [status |-> st, stage |-> "none", wait |-> "none", finalAt |-> 0,
                   dispatchedAt |-> 0]
             ELSE [card EXCEPT !.status = st]
  /\ UNCHANGED <<terminal, dispatching, task, reserved, open, waiter>>

-----------------------------------------------------------------------------
(* A verification task.                                                     *)

Goto(i, pc) == task' = [task EXCEPT ![i].pc = pc]

\* Another verification is in progress in the process.
Skip(i) ==
  /\ task[i].home \in reserved
  /\ task' = [task EXCEPT ![i] = Free]
  /\ UNCHANGED reserved

_reserve_verification(i) ==
  /\ task[i].home \notin reserved
  /\ reserved' = reserved \cup {task[i].home}
  /\ Goto(i, "querying")

\* The task starts, or its delay is over: it reserves the card or is turned away.
_delayed_verify_todo_completion(i) ==
  /\ task[i].pc \in {"start", "retry", "sleeping"}
  /\ Skip(i) \/ _reserve_verification(i)
  /\ UNCHANGED <<card, terminal, dispatching, open, waiter, spent>>

\* The reservation of the task's process is given back.
Unreserve(i) == reserved' = reserved \ {task[i].home}

\* A recheck of the same completion after a delay, with the attempt set back.
Recheck(i) ==
  /\ task' = [task EXCEPT ![i] = [Free EXCEPT !.home = task[i].home, !.pc = "sleeping",
                                              !.at = task[i].at]]
  /\ Unreserve(i)

\* The pending subagents are on the window's row; only the server is connected to the
\* terminal and can see a process in it.
SeesWork(i) ==
  \/ "subagent" \in window.work
  \/ "process" \in window.work /\ task[i].home = "server"

\* Background work runs: the card waits for it.
_defer_completion_for_active_background_work(i) ==
  /\ task[i].pc = "querying"
  /\ SeesWork(i)
  /\ \/ /\ card.status = "dispatched" /\ Unlocked
        /\ card' = [card EXCEPT !.stage = "verifying", !.wait = "background", !.finalAt = 0]
        /\ waiter' = task[i].home
        /\ Recheck(i)
     \/ /\ card.status # "dispatched"
        /\ Goto(i, "closing")
        /\ UNCHANGED <<card, reserved, waiter>>
  /\ UNCHANGED <<terminal, dispatching, open, spent>>

\* No background work is seen.  A query of the processes that fails sees none.
NoBackgroundWork(i) ==
  /\ task[i].pc = "querying"
  /\ "subagent" \notin window.work
  /\ Goto(i, "reviewing")
  /\ UNCHANGED <<card, terminal, dispatching, reserved, open, waiter, spent>>

Read(i, pc, reviewAt) ==
  task' = [task EXCEPT ![i] = [@ EXCEPT !.pc = pc, !.reviewAt = reviewAt,
                                        !.asked = task[i].pc = "asking",
                                        !.stage = card.stage, !.wait = card.wait]]

\* background_completion_review_time: does the card go to review, and with which time.
\* A plausible slip: a card that waited is completed like any other.
ReviewsAsIs(i) == TRUE
ReviewsAtOnce(i) == card.wait = "none"
\* A plausible slip: a card that waits for the final completion is not recognized.
ReviewsOnLaterCompletion(i) == window.latest > task[i].at
ReviewsWithAgent(i) ==
  card.wait = "final" \/ (card.wait = "background" /\ window.latest > task[i].at)

ReviewTime(i) ==
  IF card.wait = "background" THEN window.latest ELSE task[i].at

Review(i) ==
  /\ task[i].pc = "reviewing"
  /\ \/ /\ card.status # "dispatched"
        /\ Goto(i, "closing")
        /\ UNCHANGED <<card, reserved, waiter>>
     \/ /\ card.status = "dispatched" /\ ReviewsAtOnce(i)
        /\ Read(i, "completing", task[i].at)
        /\ UNCHANGED <<card, reserved, waiter>>
     \/ /\ card.status = "dispatched" /\ ReviewsWithAgent(i) /\ ~ReviewsAtOnce(i)
        /\ Read(i, "asking", ReviewTime(i))
        /\ UNCHANGED <<card, reserved, waiter>>
     \/ /\ card.status = "dispatched" /\ ~ReviewsWithAgent(i) /\ ~ReviewsAtOnce(i)
        /\ Unlocked
        /\ card' = [card EXCEPT !.stage = "verifying", !.wait = "final", !.finalAt = task[i].at]
        /\ waiter' = task[i].home
        /\ Recheck(i)
  /\ UNCHANGED <<terminal, dispatching, open, spent>>

\* The verdict is in, and the card is read again.
VerdictComplete(i) ==
  /\ task[i].pc = "asking"
  /\ IF card.status = "dispatched" THEN Read(i, "completing", task[i].reviewAt)
                                   ELSE Goto(i, "closing")
  /\ UNCHANGED <<card, terminal, dispatching, reserved, open, waiter, spent>>

\* No further attempt is left.
VerdictBlocks(i) ==
  /\ task[i].pc = "asking"
  /\ card.status = "dispatched" /\ task[i].attempt = MaxAttempts
  /\ Read(i, "blocking", task[i].reviewAt)
  /\ UNCHANGED <<card, terminal, dispatching, reserved, open, waiter, spent>>

\* A retry is created before the session of this task is closed.
VerdictRetries(i, j) ==
  /\ task[i].pc = "asking"
  /\ card.status = "dispatched" /\ task[i].attempt < MaxAttempts
  /\ Unlocked
  /\ card' = [card EXCEPT !.stage = "verifying", !.wait = "final", !.finalAt = task[i].reviewAt]
  /\ IsNextSlot(j)
  /\ task' = [task EXCEPT ![i].pc = "closing",
                          ![j] = [Free EXCEPT !.home = task[i].home, !.pc = "retry",
                                              !.at = task[i].at,
                                              !.attempt = task[i].attempt + 1]]
  /\ waiter' = task[i].home
  /\ UNCHANGED <<terminal, dispatching, reserved, open, spent>>

\* A plausible slip: the new status goes to the stage column.
SettledStage(k, st) == [card EXCEPT !.stage = st]
\* The row once a task has settled it: only the columns that differ from what the
\* task read are written, whatever the row says by now.
Settled(k, st) ==
  [card EXCEPT !.status = st,
               !.stage = IF k.stage # "none" THEN "none" ELSE @,
               !.wait = IF k.wait # "none" THEN "none" ELSE @,
               !.finalAt = IF k.wait # "none" THEN 0 ELSE @]

complete_project_todo_implementation(i) ==
  LET row == Settled(task[i], IF Periodic THEN "todo" ELSE "awaiting_review") IN
  /\ task[i].pc = "completing" /\ Unlocked
  /\ card' = IF Periodic THEN [row EXCEPT !.dispatchedAt = 0] ELSE row
  /\ Goto(i, "closing")
  /\ UNCHANGED <<terminal, dispatching, reserved, open, waiter, spent>>

BlockCard(i) ==
  /\ task[i].pc = "blocking" /\ Unlocked
  /\ card' = Settled(task[i], "blocked")
  /\ Goto(i, "closing")
  /\ UNCHANGED <<terminal, dispatching, reserved, open, waiter, spent>>

\* Closing the session is an await: a retry, which is created without delay, takes
\* its first step before this task gets to release the reservation.
_release_verification(i) ==
  /\ task[i].pc = "closing"
  /\ \A j \in Slots : task[j].home = task[i].home => task[j].pc # "retry"
  /\ task' = [task EXCEPT ![i] = Free]
  /\ Unreserve(i)
  /\ UNCHANGED <<card, terminal, dispatching, open, waiter, spent>>

\* A plausible slip: the reservation is not released in a finally.
FailureSkipsRelease(i) ==
  /\ Spend("mishaps")
  /\ task[i].pc \in Active \ {"closing"}
  /\ task' = [task EXCEPT ![i] = Free]
  /\ UNCHANGED <<card, terminal, dispatching, reserved, open, waiter>>
\* An await raises: the transaction is rolled back and the error is logged.
VerificationFails(i) ==
  /\ Spend("mishaps")
  /\ task[i].pc \in Active \ {"closing"}
  /\ task' = [task EXCEPT ![i] = Free]
  /\ Unreserve(i)
  /\ UNCHANGED <<card, terminal, dispatching, open, waiter>>

\* Process p restarts: what it had in memory or uncommitted is gone.  Events the worker
\* has not acknowledged, persisted or not, are delivered again.
Crash(p) ==
  /\ Spend("mishaps")
  /\ task' = [i \in Slots |-> IF task[i].home = p THEN Free ELSE task[i]]
  /\ open' = [c \in Callers |-> IF Home(c) = p THEN Closed ELSE open[c]]
  /\ reserved' = reserved \ {p}
  /\ dispatching' = (dispatching /\ p # "server")
  /\ inbox' = IF p = "worker" THEN [inbox EXCEPT ![p] = 1..Now] ELSE inbox
  /\ UNCHANGED <<card, window, waiter>>

TaskStep(i) ==
  \/ _delayed_verify_todo_completion(i)
  \/ _defer_completion_for_active_background_work(i)
  \/ NoBackgroundWork(i)
  \/ Review(i)
  \/ VerdictComplete(i)
  \/ VerdictBlocks(i)
  \/ \E j \in Slots : VerdictRetries(i, j)
  \/ complete_project_todo_implementation(i)
  \/ BlockCard(i)
  \/ _release_verification(i)

DispatchStep == _update_dispatch_stage \/ CommitDispatch \/ FailDispatch

WorkEnds == ProcessEnds \/ promote_deferred_completion \/ SubagentNotifies

Next ==
  \/ \E r \in Requests, i \in Slots : sync_dispatched_project_todos(r, i)
  \/ AgentCompletes
  \/ \E p \in Processes :
       \/ \E t \in Times : persist_managed_agent_event(p, t) \/ DeferCompletion(p, t)
       \/ \E i \in Slots : sync_project_todos_for_completed_window(p, i)
       \/ SyncsNothing(p)
       \/ Crash(p)
  \/ \E c \in Callers : FlushSync(c) \/ CommitSync(c)
  \/ \E w \in Work : WorkStarts(w)
  \/ WorkEnds
  \/ BeginDispatch
  \/ DispatchStep
  \/ \E st \in {"todo", "dispatched", "awaiting_review", "done", "blocked"} : PatchStatus(st)
  \/ \E i \in Slots : TaskStep(i)
  \/ \E i \in Slots : VerificationFails(i)

Spec == Init /\ [][Next]_vars

\* Tasks and requests run to their end, and verdicts have a deadline; an open board
\* is read again and again; background work comes to an end.
Fairness ==
  /\ \A i \in Slots : WF_vars(TaskStep(i))
  /\ \A c \in Callers : WF_vars(FlushSync(c) \/ CommitSync(c))
  /\ \A r \in Requests : SF_vars(\E i \in Slots : sync_dispatched_project_todos(r, i))
  /\ WF_vars(CommitDispatch \/ FailDispatch)
  /\ WF_vars(WorkEnds)

FairSpec == Spec /\ Fairness

-----------------------------------------------------------------------------
(* Properties.                                                              *)

TypeOK ==
  /\ card \in Card
  /\ window \in Window
  /\ dispatching \in BOOLEAN
  /\ inbox \in [Processes -> SUBSET Times]
  /\ task \in [Slots -> Task]
  /\ reserved \in SUBSET Processes
  /\ open \in [Callers -> Transaction]
  /\ waiter \in Processes
  /\ spent \in [DOMAIN Bound -> Nat]
  /\ \A b \in DOMAIN Bound : spent[b] <= Bound[b]

\* "Per-process set of todos currently being verified": at most one verification of the
\* card gets past the reservation of each process, and a process holds its reservation
\* exactly while one does, however the task ends.  The two processes do not exclude
\* each other.
OneVerification ==
  /\ \A p \in Processes :
       p \in reserved <=> \E i \in Slots : task[i].home = p /\ task[i].pc \in Active
  /\ \A i, j \in Slots :
       /\ task[i].pc \in Active /\ task[j].pc \in Active
       /\ task[i].home = task[j].home
       => i = j

\* A card that waits for background work, or for the final completion after it, is
\* completed without a verdict only by a task of the other process than the one that
\* made it wait: of the tasks of one process none that looked at the card before it had
\* to wait can complete it behind the back of the one that waits.
WaitingCardNeedsVerdict ==
  [][\A i \in Slots :
       complete_project_todo_implementation(i) /\ Waited
       => task[i].asked \/ waiter # task[i].home]_vars

\* "the loop eventually terminates at max_attempts instead of looping forever": a card
\* whose agent completed leaves the dispatched state.
VerificationEnds == []<>~(card.status = "dispatched" /\ window.latest > card.dispatchedAt)
=============================================================================
