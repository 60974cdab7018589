---------------------------- MODULE TodoDispatch ----------------------------
(***************************************************************************)
(* The dispatch of project todo cards to agent terminals.                  *)
(*                                                                         *)
(* A card is a database row.  Starting a dispatch reserves the card in the *)
(* memory of the server process, commits the row and a run in status       *)
(* STARTING, and leaves the rest to a background task: gate on the         *)
(* dependencies, open a terminal, wait for it, send the prompt, wait for   *)
(* the agent, commit.  Meanwhile board requests, status patches, comments, *)
(* the cron scheduler and the agent itself keep writing the same row.      *)
(*                                                                         *)
(* A database transaction is one action; an await on the terminal runtime  *)
(* or on the agent separates two actions.  A window is named by the number *)
(* of the run that opened it (0 is no window).  Completion verification is *)
(* switched off (the setting project_todo_completion_verification_enabled) *)
(* and no card requests artifacts.                                         *)
(***************************************************************************)
EXTENDS Naturals, FiniteSets

CONSTANTS
  Todos,      \* the cards of one project
  Periodic,   \* the cards with execution kind PERIODIC
  Cron,       \* those of them with an enabled cron trigger
  Reuse,      \* the cards with terminal policy REUSE_LATEST
  Requests,   \* the board and patch requests that may run at once
  Scheduler,  \* the loop that triggers the cron cards
  MaxRuns,    \* bound: runs per card
  MaxOps,     \* bound: dispatches, patches and comments of the users
  MaxEvents,  \* bound: inputs and completions of the agents
  MaxCrashes  \* bound: restarts of the server process

ASSUME DispatchAssumption ==
  /\ Periodic \subseteq Todos
  /\ Cron \subseteq Periodic
  /\ Reuse \subseteq Todos
  /\ Scheduler \notin Requests
  /\ {MaxRuns, MaxOps, MaxEvents, MaxCrashes} \subseteq Nat

VARIABLES
  todo,       \* the card rows
  deps,       \* deps[t]: the cards t waits for
  queued,     \* the cards with a queued-dispatch row
  armed,      \* the cards whose next_trigger_at is set
  runs,       \* runs[t][n]: the n-th run of t
  count,      \* execution_run_count
  agent,      \* agent[t][w]: what window w's row says of its agent
  reserved,   \* _dispatches_in_progress, in the memory of the process
  tasks,      \* the background tasks of the process
  sweep,      \* sweep[c]: the caller c's list of cards to start, read up front
  lost,       \* the <<card, run>> pairs whose task a crash destroyed
  spent       \* what was used of each bound

rows   == <<todo, deps, queued, armed, runs, count, agent>>
memory == <<reserved, tasks, sweep>>
ghosts == <<lost, spent>>
vars   == <<rows, memory, ghosts>>

Status    == {"todo", "dispatched", "awaiting_review", "done", "blocked"}
Satisfied == {"awaiting_review", "done"}
InFlight  == {"STARTING", "WINDOW_CREATED", "TERMINAL_READY"}
Stage     == InFlight \cup {"none", "FAILED"}
RunStatus == {"none", "STARTING", "DISPATCHED", "COMPLETED", "FAILED"}
RunIds    == 1..MaxRuns
Windows   == 0..MaxRuns

\* A plausible slip: a run that failed is still looked for when the agent completes.
OpenRunOrFailed == {"STARTING", "DISPATCHED", "FAILED"}
OpenRun   == {"STARTING", "DISPATCHED"}
Callers   == Requests \cup {Scheduler}

\* answered: the window's latest completion is not older than dispatched_at.
\* typed: the window's latest user input is newer than the row.
Row  == [status : Status, stage : Stage, window : Windows,
         answered : BOOLEAN, typed : BOOLEAN]
Run  == [status : RunStatus, window : Windows]

\* input: how many runs of the card had started at the latest user input (0 is
\* no input yet); inputLast: that input is newer than the latest completion;
\* done: a completion is recorded; working: the agent is in the middle of a turn.
Agent == [input : 0..MaxRuns, inputLast : BOOLEAN, done : BOOLEAN, working : BOOLEAN]

\* The pc of a task names what it awaits.  Comment tasks have run 0.
Pc   == {"begin", "opening", "waiting", "ready", "sent", "confirmed"}
Task == [todo : Todos, run : 0..MaxRuns, window : Windows, pc : Pc]

\* A listed card is paired with the run count it was read with: the session
\* keeps the row it read.
Sweep == [busy : BOOLEAN, lists : BOOLEAN, left : SUBSET (Todos \X (0..MaxRuns))]

IdleSweep == [busy |-> FALSE, lists |-> FALSE, left |-> {}]

Bound == [ops |-> MaxOps, events |-> MaxEvents, crashes |-> MaxCrashes]

Spend(b) == spent[b] < Bound[b] /\ spent' = [spent EXCEPT ![b] = @ + 1]

-----------------------------------------------------------------------------
(* Queries over the rows.                                                  *)

HasIncomplete(d, t) == \E u \in d[t] : todo[u].status \notin Satisfied

\* t is reachable from d along deps: every set closed under deps that holds d
\* holds t.
PathExists(d, t) ==
  \A S \in SUBSET Todos :
    (d \in S /\ \A x \in S : deps[x] \subseteq S) => t \in S

ValidDependencies(t, ds) == t \notin ds /\ \A d \in ds : ~PathExists(d, t)

Listed(S) == {<<t, count[t]>> : t \in S}

ReadyQueued == {t \in queued : todo[t].status = "todo" /\ ~HasIncomplete(deps, t)}

Done(t, w) == w # 0 /\ agent[t][w].done

Init ==
  /\ todo = [t \in Todos |-> [status |-> "todo", stage |-> "none", window |-> 0,
                              answered |-> FALSE, typed |-> FALSE]]
  /\ deps = [t \in Todos |-> {}]
  /\ queued = {}
  /\ armed = Cron
  /\ runs = [t \in Todos |-> [n \in RunIds |-> [status |-> "none", window |-> 0]]]
  /\ count = [t \in Todos |-> 0]
  /\ agent = [t \in Todos |-> [w \in RunIds |->
                [input |-> 0, inputLast |-> FALSE, done |-> FALSE, working |-> FALSE]]]
  /\ reserved = {}
  /\ tasks = {}
  /\ sweep = [c \in Callers |-> IdleSweep]
  /\ lost = {}
  /\ spent = [b \in DOMAIN Bound |-> 0]

-----------------------------------------------------------------------------
(* Starting a dispatch: reserve, prepare the row, record the run, clear the *)
(* queued row, commit, create the task.                                     *)

\* A plausible slip: the membership test is forgotten.
ReserveUnchecked(t) == reserved' = reserved \cup {t}
_reserve_dispatch(t) == t \notin reserved /\ reserved' = reserved \cup {t}

_prepare_project_todo_dispatch(t) ==
  LET w == IF t \in Reuse THEN todo[t].window ELSE 0 IN
  todo' = [todo EXCEPT ![t] = [@ EXCEPT !.stage = "STARTING", !.window = w,
                                        !.answered = Done(t, w), !.typed = FALSE]]

\* A plausible slip: the next trigger time is not cleared.
RunKeepsSchedule(t) ==
  LET n == count[t] + 1
      w == IF t \in Reuse THEN todo[t].window ELSE 0 IN
  /\ count[t] < MaxRuns
  /\ count' = [count EXCEPT ![t] = n]
  /\ runs' = [runs EXCEPT ![t][n] = [status |-> "STARTING", window |-> w]]
  /\ UNCHANGED armed
create_project_todo_run(t) ==
  LET n == count[t] + 1
      w == IF t \in Reuse THEN todo[t].window ELSE 0 IN
  /\ count[t] < MaxRuns
  /\ count' = [count EXCEPT ![t] = n]
  /\ runs' = [runs EXCEPT ![t][n] = [status |-> "STARTING", window |-> w]]
  /\ armed' = armed \ {t}

StartDispatch(t) ==
  /\ _reserve_dispatch(t)
  /\ _prepare_project_todo_dispatch(t)
  /\ create_project_todo_run(t)
  /\ queued' = queued \ {t}
  /\ tasks' = tasks \cup {[todo |-> t, run |-> count[t] + 1, window |-> 0, pc |-> "begin"]}
  /\ UNCHANGED agent

-----------------------------------------------------------------------------
(* POST /dispatch: with incomplete dependencies the dispatch is queued,     *)
(* otherwise it starts; a card already reserved is returned as it is and    *)
(* the uncommitted dependency change is rolled back.                        *)

DispatchTodo(t, ds) ==
  LET d == [deps EXCEPT ![t] = ds] IN
  /\ Spend("ops")
  /\ todo[t].status # "blocked"
  /\ ds = deps[t] \/ ValidDependencies(t, ds)
  /\ \/ /\ HasIncomplete(d, t)
        /\ todo' = [todo EXCEPT ![t] = [status |-> "todo", stage |-> "none", window |-> 0,
                                        answered |-> FALSE, typed |-> FALSE]]
        /\ queued' = queued \cup {t}
        /\ UNCHANGED <<armed, runs, count, agent, reserved, tasks>>
     \/ /\ ~HasIncomplete(d, t)
        /\ StartDispatch(t)
  /\ deps' = d
  /\ UNCHANGED <<sweep, lost>>

-----------------------------------------------------------------------------
(* PATCH status.                                                            *)

apply_project_todo_status(t, st) ==
  todo' = [todo EXCEPT ![t] =
             IF st = "todo"
             THEN [@ EXCEPT !.status = st, !.stage = "none",
                            !.answered = Done(t, todo[t].window), !.typed = FALSE]
             ELSE [@ EXCEPT !.status = st, !.typed = FALSE]]

\* A patch that leaves the card's dependents as they were.
PatchStatus(t, st) ==
  /\ Spend("ops")
  /\ st \notin Satisfied \/ todo[t].status \in Satisfied
  /\ apply_project_todo_status(t, st)
  /\ queued' = queued \ {t}
  /\ UNCHANGED <<deps, armed, runs, count, agent, memory, lost>>

\* The queued cards that only waited for t.
Freed(t) == {u \in queued \ {t} : /\ t \in deps[u]
                                  /\ todo[u].status = "todo"
                                  /\ \A v \in deps[u] \ {t} : todo[v].status \in Satisfied}

\* A patch that satisfies the dependents: the ready ones are read at once and
\* started one by one by SweepStart.
PatchSatisfies(r, t, st) ==
  /\ Spend("ops")
  /\ ~sweep[r].busy
  /\ st \in Satisfied /\ todo[t].status \notin Satisfied
  /\ apply_project_todo_status(t, st)
  /\ queued' = queued \ {t}
  /\ sweep' = [sweep EXCEPT ![r] =
        [busy |-> TRUE, lists |-> FALSE, left |-> Listed(Freed(t))]]
  /\ UNCHANGED <<deps, armed, runs, count, agent, reserved, tasks, lost>>

-----------------------------------------------------------------------------
(* GET the board: start what is ready, then bring the rows up to date with  *)
(* what the agents did.                                                     *)

\* A plausible slip: the board is brought up to date but starts nothing.
ListTodosOnlySyncs(r) ==
  /\ ~sweep[r].busy
  /\ sweep' = [sweep EXCEPT ![r] = [busy |-> TRUE, lists |-> TRUE, left |-> {}]]
  /\ UNCHANGED <<rows, reserved, tasks, ghosts>>
ListTodos(r) ==
  /\ ~sweep[r].busy
  /\ sweep' = [sweep EXCEPT ![r] = [busy |-> TRUE, lists |-> TRUE, left |-> Listed(ReadyQueued)]]
  /\ UNCHANGED <<rows, reserved, tasks, ghosts>>

\* A tick of the scheduler: the due cards that were launched before.
CronTick ==
  /\ ~sweep[Scheduler].busy
  /\ sweep' = [sweep EXCEPT ![Scheduler] =
        [busy |-> TRUE, lists |-> FALSE,
         left |-> Listed({t \in armed : todo[t].status = "todo" /\ count[t] > 0})]]
  /\ UNCHANGED <<rows, reserved, tasks, ghosts>>

SweepStart(c, t) ==
  /\ <<t, count[t]>> \in sweep[c].left
  /\ StartDispatch(t)
  /\ sweep' = [sweep EXCEPT ![c].left = @ \ {<<t, count[t]>>}]
  /\ UNCHANGED <<deps, ghosts>>

\* A card reserved meanwhile is passed over (and one at the bound of its runs).
SweepSkip(c, t, n) ==
  /\ <<t, n>> \in sweep[c].left
  /\ t \in reserved \/ n = MaxRuns
  /\ sweep' = [sweep EXCEPT ![c].left = @ \ {<<t, n>>}]
  /\ UNCHANGED <<rows, reserved, tasks, ghosts>>

\* A plausible slip: a start that fails on the run number keeps its reservation.
ConflictKeepsReservation(c, t, n) ==
  /\ <<t, n>> \in sweep[c].left
  /\ t \notin reserved /\ n # count[t]
  /\ reserved' = reserved \cup {t}
  /\ sweep' = [sweep EXCEPT ![c] = IdleSweep]
  /\ UNCHANGED <<rows, tasks, ghosts>>
\* A card that ran meanwhile: the run number read with the list is taken, the
\* insert fails, and the rest of the list is dropped with the caller.
SweepConflict(c, t, n) ==
  /\ <<t, n>> \in sweep[c].left
  /\ t \notin reserved /\ n # count[t]
  /\ sweep' = [sweep EXCEPT ![c] = IdleSweep]
  /\ UNCHANGED <<rows, reserved, tasks, ghosts>>

SweepEnd(c) ==
  /\ sweep[c].busy /\ ~sweep[c].lists /\ sweep[c].left = {}
  /\ sweep' = [sweep EXCEPT ![c] = IdleSweep]
  /\ UNCHANGED <<rows, reserved, tasks, ghosts>>

IsLatest(n, S) == n \in S /\ \A m \in S : m <= n

\* Only the latest run of the card in window w that has one of these statuses.
LatestRun(t, w, statuses) ==
  {n \in RunIds : IsLatest(n, {m \in RunIds : runs[t][m].window = w /\ runs[t][m].status \in statuses})}

_agent_input_confirms_dispatch(t, w) ==
  LET starting == LatestRun(t, w, {"STARTING"}) IN
  /\ agent[t][w].input # 0
  /\ IF starting # {} THEN \A n \in starting : n <= agent[t][w].input ELSE todo[t].typed

Recovers(t) ==
  /\ todo[t].status = "todo"
  /\ todo[t].stage = "TERMINAL_READY"
  /\ todo[t].window # 0
  /\ _agent_input_confirms_dispatch(t, todo[t].window)

RecoveredRow(t) ==
  LET heard == agent[t][todo[t].window] IN
  [todo[t] EXCEPT !.status = "dispatched", !.stage = "none",
                  !.answered = heard.done /\ ~heard.inputLast, !.typed = FALSE]

\* The row after sync_started_project_todo_dispatches.
Synced(t) == IF Recovers(t) THEN RecoveredRow(t) ELSE todo[t]

Completes(row) == row.status = "dispatched" /\ row.window # 0 /\ row.answered

CompletedRow(t, row) ==
  [row EXCEPT !.status = IF t \in Periodic THEN "todo" ELSE "awaiting_review",
              !.stage = "none", !.typed = FALSE]

\* The run a recovery confirms, and the run a completion of a periodic card ends.
Started(t) == IF Recovers(t) THEN LatestRun(t, todo[t].window, {"STARTING"}) ELSE {}
Ended(t)   == IF t \in Periodic THEN LatestRun(t, todo[t].window, OpenRun) ELSE {}

EndedRuns(t) ==
  [n \in RunIds |-> [runs[t][n] EXCEPT !.status = IF n \in Ended(t) THEN "COMPLETED" ELSE @]]

\* The status of run n of t after the recovery of its card and, if t is in ends, the
\* completion that follows.
SyncedStatus(t, n, ends) ==
  IF t \in ends /\ n \in Ended(t) THEN "COMPLETED"
  ELSE IF n \in Started(t) THEN "DISPATCHED"
  ELSE runs[t][n].status

\* The next cron cycle is scheduled only when there was a run to complete.
Rearms(t) == t \in Cron /\ Ended(t) # {}

ListSync(r) ==
  LET Ends == {t \in Todos : Completes(Synced(t))} IN
  /\ sweep[r].busy /\ sweep[r].lists /\ sweep[r].left = {}
  /\ todo' = [t \in Todos |-> IF t \in Ends THEN CompletedRow(t, Synced(t)) ELSE Synced(t)]
  /\ runs' = [t \in Todos |-> [n \in RunIds |->
                 [runs[t][n] EXCEPT !.status = SyncedStatus(t, n, Ends)]]]
  /\ armed' = armed \cup {t \in Ends : Rearms(t)}
  /\ sweep' = [sweep EXCEPT ![r] = IdleSweep]
  /\ UNCHANGED <<deps, queued, count, agent, reserved, tasks, ghosts>>

-----------------------------------------------------------------------------
(* The background task.                                                     *)

At(k, pc) == k \in tasks /\ k.pc = pc

Move(k, l) == tasks' = (tasks \ {k}) \cup {l}

\* A plausible slip: the done callback is not attached.
EndKeepsReservation(k) == tasks' = tasks \ {k} /\ UNCHANGED reserved
End(k) ==
  /\ tasks' = tasks \ {k}
  /\ reserved' = reserved \ {k.todo}

\* Dependencies are checked again, and a terminal is chosen or about to be opened.
TaskBegin(k) ==
  /\ At(k, "begin") /\ k.run # 0
  /\ ~HasIncomplete(deps, k.todo)
  /\ Move(k, [k EXCEPT !.pc = "opening",
                       !.window = IF k.todo \in Reuse THEN todo[k.todo].window ELSE 0])
  /\ UNCHANGED <<rows, reserved, sweep, ghosts>>

\* The terminal exists: the refreshed row takes it.
TaskAttach(k) ==
  LET t == k.todo
      w == IF k.window # 0 THEN k.window ELSE k.run IN
  /\ At(k, "opening")
  /\ todo' = [todo EXCEPT ![t] = [@ EXCEPT
        !.window = w, !.answered = Done(t, w), !.typed = FALSE,
        !.stage = IF t \in Reuse THEN "TERMINAL_READY" ELSE "WINDOW_CREATED"]]
  /\ runs' = IF k.window = 0 THEN [runs EXCEPT ![t][k.run].window = w] ELSE runs
  /\ Move(k, [k EXCEPT !.pc = "waiting", !.window = w])
  /\ UNCHANGED <<deps, queued, armed, count, agent, reserved, sweep, ghosts>>

\* A plausible slip: the stage goes to the status column.
UpdateStatusColumn(t, st) == todo' = [todo EXCEPT ![t].status = st]
_update_dispatch_stage(t, st) ==
  todo' = [todo EXCEPT ![t] = [@ EXCEPT !.stage = st, !.typed = todo[t].typed /\ todo[t].stage = st]]

\* A comment goes to the terminal the card already has.
CommentAttach(k) ==
  /\ At(k, "begin") /\ k.run = 0
  /\ _update_dispatch_stage(k.todo, "WINDOW_CREATED")
  /\ Move(k, [k EXCEPT !.pc = "waiting"])
  /\ UNCHANGED <<deps, queued, armed, runs, count, agent, reserved, sweep, ghosts>>

TaskReady(k) ==
  /\ At(k, "waiting")
  /\ _update_dispatch_stage(k.todo, "TERMINAL_READY")
  /\ Move(k, [k EXCEPT !.pc = "ready"])
  /\ UNCHANGED <<deps, queued, armed, runs, count, agent, reserved, sweep, ghosts>>

\* The prompt is in the terminal.
TaskSend(k) ==
  /\ At(k, "ready")
  /\ Move(k, [k EXCEPT !.pc = "sent"])
  /\ UNCHANGED <<rows, reserved, sweep, ghosts>>

\* Dispatch mode submit: the agent was seen working, and the window's latest
\* user input is set to now.
TaskSawWorking(k) ==
  /\ At(k, "sent")
  /\ agent' = [agent EXCEPT ![k.todo][k.window] =
                 [@ EXCEPT !.input = count[k.todo], !.inputLast = TRUE]]
  /\ todo' = [todo EXCEPT ![k.todo].typed = @ \/ todo[k.todo].window = k.window]
  /\ Move(k, [k EXCEPT !.pc = "confirmed"])
  /\ UNCHANGED <<deps, queued, armed, runs, count, reserved, sweep, ghosts>>

\* A plausible slip: the stage is left on the row.
CommittedRowKeepsStage(k) ==
  [status |-> "dispatched", stage |-> todo[k.todo].stage, window |-> k.window,
   answered |-> FALSE, typed |-> FALSE]
CommittedRow(k) ==
  [status |-> "dispatched", stage |-> "none", window |-> k.window,
   answered |-> FALSE, typed |-> FALSE]

\* The last transaction of a dispatch; in mode compose it follows the prompt.
TaskCommit(k) ==
  LET t == k.todo IN
  /\ At(k, "confirmed") \/ (At(k, "sent") /\ k.run # 0)
  /\ todo' = [todo EXCEPT ![t] = CommittedRow(k)]
  /\ IF k.run = 0
     THEN UNCHANGED <<queued, runs>>
     ELSE /\ queued' = queued \ {t}
          /\ runs' = [runs EXCEPT ![t][k.run] = [status |-> "DISPATCHED", window |-> k.window]]
  /\ End(k)
  /\ UNCHANGED <<deps, armed, count, agent, sweep, ghosts>>

FailRun(k) == IF k.run = 0 THEN runs ELSE [runs EXCEPT ![k.todo][k.run].status = "FAILED"]

\* Plausible slips: the run is not looked up; the next cycle is not scheduled.
RunNotFailed(k) ==
  /\ armed' = IF k.todo \in Cron THEN armed \cup {k.todo} ELSE armed
  /\ UNCHANGED runs
CycleNotScheduled(k) ==
  /\ runs' = FailRun(k)
  /\ UNCHANGED armed
mark_project_todo_run_failed(k) ==
  /\ runs' = FailRun(k)
  /\ armed' = IF k.todo \in Cron THEN armed \cup {k.todo} ELSE armed

MayFail(k) == k \in tasks /\ k.pc # "confirmed"

\* Any error before the last transaction: the dependencies are no longer
\* complete, the terminal or the agent did not answer in time, the client is gone.
mark_project_todo_dispatch_failed(k) ==
  /\ MayFail(k)
  /\ _update_dispatch_stage(k.todo, "FAILED")
  /\ mark_project_todo_run_failed(k)
  /\ End(k)
  /\ UNCHANGED <<deps, queued, count, agent, sweep, ghosts>>

-----------------------------------------------------------------------------
(* POST a comment: the same reservation, no run.                            *)

SubmitComment(t) ==
  /\ Spend("ops")
  /\ todo[t].window # 0
  /\ _reserve_dispatch(t)
  /\ todo' = [todo EXCEPT ![t] = [@ EXCEPT !.status = "todo", !.stage = "STARTING",
                                  !.answered = Done(t, todo[t].window), !.typed = FALSE]]
  /\ queued' = queued \ {t}
  /\ tasks' = tasks \cup {[todo |-> t, run |-> 0, window |-> todo[t].window, pc |-> "begin"]}
  /\ UNCHANGED <<deps, armed, runs, count, agent, sweep, lost>>

-----------------------------------------------------------------------------
(* The agent in window w, through its activity events.                      *)

Exists(t, w) == w = todo[t].window \/ \E k \in tasks : k.todo = t /\ k.window = w

AgentInput(t, w) ==
  /\ Spend("events")
  /\ w # 0 /\ Exists(t, w)
  /\ agent' = [agent EXCEPT ![t][w] = [@ EXCEPT !.input = count[t], !.inputLast = TRUE,
                                                !.working = TRUE]]
  /\ todo' = [todo EXCEPT ![t].typed = @ \/ todo[t].window = w]
  /\ UNCHANGED <<deps, queued, armed, runs, count, memory, lost>>

\* The completion event updates the window and, in the same transaction,
\* completes the dispatched card the window is assigned to.
AgentCompletes(t, w) ==
  LET row == [todo[t] EXCEPT !.answered = @ \/ todo[t].window = w]
      ends == row.window = w /\ Completes(row) IN
  /\ Spend("events")
  /\ w # 0 /\ Exists(t, w) /\ agent[t][w].working
  /\ agent' = [agent EXCEPT ![t][w] = [@ EXCEPT !.inputLast = FALSE, !.done = TRUE,
                                                !.working = FALSE]]
  /\ todo' = [todo EXCEPT ![t] = IF ends THEN CompletedRow(t, row) ELSE row]
  /\ runs' = IF ends THEN [runs EXCEPT ![t] = EndedRuns(t)] ELSE runs
  /\ armed' = IF ends /\ Rearms(t) THEN armed \cup {t} ELSE armed
  /\ UNCHANGED <<deps, queued, count, memory, lost>>

-----------------------------------------------------------------------------
(* A restart of the process forgets what was only in memory.                *)

Crash ==
  /\ Spend("crashes")
  /\ lost' = lost \cup {<<k.todo, k.run>> : k \in tasks}
  /\ reserved' = {}
  /\ tasks' = {}
  /\ sweep' = [c \in Callers |-> IdleSweep]
  /\ UNCHANGED rows

TaskStep(k) ==
  \/ TaskBegin(k)
  \/ TaskAttach(k)
  \/ CommentAttach(k)
  \/ TaskReady(k)
  \/ TaskSend(k)
  \/ TaskSawWorking(k)
  \/ TaskCommit(k)
  \/ mark_project_todo_dispatch_failed(k)

SweepStep(c) ==
  \/ \E t \in Todos : SweepStart(c, t)
  \/ \E t \in Todos, n \in 0..MaxRuns : SweepSkip(c, t, n)
  \/ \E t \in Todos, n \in 0..MaxRuns : SweepConflict(c, t, n)
  \/ SweepEnd(c)
  \/ ListSync(c)

Next ==
  \/ \E t \in Todos, ds \in SUBSET Todos : DispatchTodo(t, ds)
  \/ \E t \in Todos, st \in Status : PatchStatus(t, st)
  \/ \E r \in Requests, t \in Todos, st \in Status : PatchSatisfies(r, t, st)
  \/ \E r \in Requests : ListTodos(r)
  \/ CronTick
  \/ \E c \in Callers : SweepStep(c)
  \/ \E k \in tasks : TaskStep(k)
  \/ \E t \in Todos : SubmitComment(t)
  \/ \E t \in Todos, w \in RunIds : AgentInput(t, w)
  \/ \E t \in Todos, w \in RunIds : AgentCompletes(t, w)
  \/ Crash

Spec == Init /\ [][Next]_vars

\* Every wait of a task has a deadline and every request runs to its end; a board
\* that stays open is read again and again, and the scheduler ticks.  Users and
\* agents owe nothing.
Fairness ==
  /\ \A t \in Todos : WF_vars(\E k \in tasks : k.todo = t /\ TaskStep(k))
  /\ \A c \in Callers : WF_vars(SweepStep(c))
  /\ \A r \in Requests : SF_vars(ListTodos(r))
  /\ WF_vars(CronTick)

FairSpec == Spec /\ Fairness

-----------------------------------------------------------------------------
(* Properties.                                                              *)

\* Every variable stays in its type; a task's window is one its card could have
\* opened.
TypeOK ==
  /\ todo \in [Todos -> Row]
  /\ deps \in [Todos -> SUBSET Todos]
  /\ queued \subseteq Todos
  /\ armed \subseteq Cron
  /\ runs \in [Todos -> [RunIds -> Run]]
  /\ count \in [Todos -> 0..MaxRuns]
  /\ agent \in [Todos -> [RunIds -> Agent]]
  /\ reserved \subseteq Todos
  /\ tasks \subseteq Task
  /\ sweep \in [Callers -> Sweep]
  /\ lost \subseteq Todos \X (0..MaxRuns)
  /\ spent \in [DOMAIN Bound -> Nat]

\* The set _dispatches_in_progress is exactly the set of cards with a live task,
\* and no card has two: whatever the task's end (commit, failure, restart), the
\* card can be dispatched again, and never before.
ReservationExact ==
  /\ reserved = {k.todo : k \in tasks}
  /\ \A k, l \in tasks : k.todo = l.todo => k = l

\* A live task drives the newest run of its card: no older task is left that could
\* still overwrite the row, or the run, of a newer dispatch.
TaskOwnsLatestRun == \A k \in tasks : k.run # 0 => k.run = count[k.todo]

\* A run recorded as STARTING is driven by a live task, or its task died with the
\* process: no path of the code drops a run half-way.
StartingRunHasOwner ==
  \A t \in Todos, n \in RunIds :
    runs[t][n].status = "STARTING" =>
      <<t, n>> \in lost \/ \E k \in tasks : k.todo = t /\ k.run = n

\* A card that shows a dispatch stage in flight has a live task behind it, or one
\* that died with the process: the board never waits for nothing.
InFlightStageIsLive ==
  \A t \in Todos :
    todo[t].stage \in InFlight => t \in reserved \/ \E n \in 0..MaxRuns : <<t, n>> \in lost

\* A cron card is disarmed only while its newest run is open: however that run ends
\* (commit and completion, failure at any step), the next cycle is scheduled.
DisarmedCronHasOpenRun ==
  \A t \in Cron \ armed : count[t] # 0 /\ runs[t][count[t]].status \in OpenRun

\* A run that failed stays failed: neither a late completion of the agent nor the
\* recovery of the board revives it.
FailedRunStays ==
  [][\A t \in Todos, n \in RunIds :
       runs[t][n].status = "FAILED" => runs'[t][n].status = "FAILED"]_vars

Ledger ==
  INSTANCE RunLedger WITH
    Cards <- Todos, Scheduled <- Cron, MaxRun <- MaxRuns, last <- count, due <- armed,
    status <- [t \in Todos |-> [n \in RunIds |-> runs[t][n].status]],
    held <- {<<k.todo, k.run>> : k \in tasks}

\* Of runs and schedules the dispatch does only what RunLedger allows, in whatever order
\* tasks, requests, agents and restarts come: the task of the newest run alone ends it,
\* and a schedule is set and cleared with the runs.
ImplementsLedger == Ledger!Spec

\* A queued card whose dependencies are complete is not left in the queue for ever.
QueueDrains == \A t \in Todos : []<>~(t \in ReadyQueued /\ count[t] < MaxRuns)

\* "Pending is a queued TODO, so a same-status manual move to Todo must cancel it":
\* a request starts a card from the queue only while the card is queued.
CancelledDispatchStaysCancelled ==
  [][\A r \in Requests, t \in Todos : SweepStart(r, t) => t \in queued]_vars

\* A cron card that has run and sits in TODO, with nothing in flight, does not stay
\* without a next trigger time for ever.
CronCardIsRescheduled ==
  \A t \in Cron :
    []<>~(count[t] > 0 /\ todo[t].status = "todo" /\ t \notin reserved /\ t \notin armed)
=============================================================================
