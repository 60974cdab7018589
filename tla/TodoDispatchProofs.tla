------------------------ MODULE TodoDispatchProofs ------------------------
(***************************************************************************)
(* The safety of the dispatch for every set of cards, every policy and     *)
(* every value of the bounds.                                              *)
(***************************************************************************)
EXTENDS TodoDispatch, TLAPS

\* Runs are numbered, and the periodic cards are cards.
LEMMA Bounds == MaxRuns \in Nat /\ Cron \subseteq Todos
  BY DispatchAssumption DEF DispatchAssumption

\* The kinds of bounded steps.
LEMMA BoundKinds == DOMAIN Bound = {"ops", "events", "crashes"}
  BY DEF Bound

\* The initial states have the types.
LEMMA InitTypeOK == Init => TypeOK
  BY DispatchAssumption
  DEF Init, TypeOK, Row, Run, Agent, Sweep, IdleSweep, Status, Stage, InFlight, RunStatus,
      RunIds, Windows, Callers, Bound, DispatchAssumption

\* A restart, a request or a task only ever writes rows, runs and tasks of their types.
LEMMA StartDispatchType ==
  ASSUME TypeOK, NEW t \in Todos, StartDispatch(t)
  PROVE  /\ todo' \in [Todos -> Row] /\ queued' \subseteq Todos /\ armed' \subseteq Cron
         /\ runs' \in [Todos -> [RunIds -> Run]] /\ count' \in [Todos -> 0..MaxRuns]
         /\ agent' = agent /\ reserved' \subseteq Todos /\ tasks' \subseteq Task
  <1> USE Bounds DEF TypeOK, Windows, RunIds
  <1>1. todo' \in [Todos -> Row]
    <2> DEFINE w == IF t \in Reuse THEN todo[t].window ELSE 0
    <2>1. w \in Windows
      BY DEF Row
    <2>2. Done(t, w) \in BOOLEAN
      BY <2>1 DEF Done, Agent
    <2>3. todo' = [todo EXCEPT ![t] = [@ EXCEPT !.stage = "STARTING", !.window = w,
                                               !.answered = Done(t, w), !.typed = FALSE]]
      BY DEF StartDispatch, _prepare_project_todo_dispatch
    <2>4. todo[t] \in Row
      OBVIOUS
    <2> HIDE DEF w
    <2> QED
      BY <2>1, <2>2, <2>3, <2>4 DEF Row, Stage, InFlight
  <1>2. count[t] + 1 \in RunIds /\ count' \in [Todos -> 0..MaxRuns]
    BY DEF StartDispatch, create_project_todo_run
  <1>3. runs' \in [Todos -> [RunIds -> Run]] /\ armed' \subseteq Cron
    BY <1>2 DEF StartDispatch, create_project_todo_run, Run, RunStatus, Row
  <1>4. tasks' \subseteq Task
    BY <1>2 DEF StartDispatch, Task, Pc
  <1> QED
    BY <1>1, <1>2, <1>3, <1>4 DEF StartDispatch, _reserve_dispatch

\* The lists a caller keeps pair cards with run counts.
LEMMA ListedType ==
  ASSUME TypeOK, NEW S, S \subseteq Todos
  PROVE  Listed(S) \subseteq Todos \X (0..MaxRuns)
  BY DEF TypeOK, Listed

\* A caller that reads, starts or ends its list of cards stays a sweep.
LEMMA SweepType ==
  ASSUME TypeOK, NEW c \in Callers, NEW b \in BOOLEAN, NEW l \in BOOLEAN,
         NEW S, S \subseteq Todos \X (0..MaxRuns)
  PROVE  /\ [sweep EXCEPT ![c] = [busy |-> b, lists |-> l, left |-> S]] \in [Callers -> Sweep]
         /\ [sweep EXCEPT ![c] = IdleSweep] \in [Callers -> Sweep]
         /\ \A e : [sweep EXCEPT ![c].left = @ \ {e}] \in [Callers -> Sweep]
  BY DEF TypeOK, Sweep, IdleSweep

\* A bounded kind of step is counted.
LEMMA SpendType ==
  ASSUME TypeOK, NEW b \in {"ops", "events", "crashes"}, Spend(b)
  PROVE  spent' \in [DOMAIN Bound -> Nat]
  BY BoundKinds DEF TypeOK, Spend

\* What recovery and completion make of a card and of its runs has their types.
LEMMA SyncType ==
  ASSUME TypeOK, NEW t \in Todos, NEW S
  PROVE  /\ Synced(t) \in Row
         /\ \A row \in Row : CompletedRow(t, row) \in Row
         /\ \A n \in RunIds : SyncedStatus(t, n, S) \in RunStatus
  <1> USE Bounds DEF TypeOK, Windows, RunIds
  <1>1. Synced(t) \in Row
    <2>1. todo[t] \in Row
      OBVIOUS
    <2>2. CASE Recovers(t)
      <3>1. agent[t][todo[t].window] \in Agent
        BY <2>1, <2>2 DEF Recovers, Row
      <3> QED
        BY <2>1, <2>2, <3>1 DEF Synced, RecoveredRow, Row, Agent, Status, Stage
    <2> QED
      BY <2>1, <2>2 DEF Synced
  <1>2. \A row \in Row : CompletedRow(t, row) \in Row
    BY DEF CompletedRow, Row, Status, Stage
  <1>3. \A n \in RunIds : SyncedStatus(t, n, S) \in RunStatus
    BY DEF SyncedStatus, Run, RunStatus
  <1> QED
    BY <1>1, <1>2, <1>3

\* A new status leaves the card a row.
LEMMA StatusType ==
  ASSUME TypeOK, NEW t \in Todos, NEW st \in Status, apply_project_todo_status(t, st)
  PROVE  todo' \in [Todos -> Row]
  <1>1. todo[t] \in Row /\ Done(t, todo[t].window) \in BOOLEAN
    <2>1. todo[t] \in Row
      BY DEF TypeOK
    <2> QED
      BY <2>1, Bounds DEF TypeOK, Row, Windows, Done, Agent, RunIds
  <1> QED
    BY <1>1 DEF TypeOK, apply_project_todo_status, Row, Status, Stage

\* A new stage leaves the card a row.
LEMMA StageType ==
  ASSUME TypeOK, NEW t \in Todos, NEW st \in Stage, _update_dispatch_stage(t, st)
  PROVE  todo' \in [Todos -> Row]
  BY ZenonT(60) DEF TypeOK, _update_dispatch_stage, Row

\* One field of one run, or of one card, is written.
LEMMA RunType ==
  ASSUME TypeOK, NEW t \in Todos, NEW n
  PROVE  /\ \A w \in Windows : [runs EXCEPT ![t][n].window = w] \in [Todos -> [RunIds -> Run]]
         /\ \A st \in RunStatus : [runs EXCEPT ![t][n].status = st] \in [Todos -> [RunIds -> Run]]
         /\ \A r \in Run : [runs EXCEPT ![t][n] = r] \in [Todos -> [RunIds -> Run]]
  <1>1. runs[t] \in [RunIds -> Run]
    BY DEF TypeOK
  <1>2. \A w \in Windows : [runs[t] EXCEPT ![n].window = w] \in [RunIds -> Run]
    BY <1>1 DEF Run
  <1>3. \A st \in RunStatus : [runs[t] EXCEPT ![n].status = st] \in [RunIds -> Run]
    BY <1>1 DEF Run
  <1>4. \A r \in Run : [runs[t] EXCEPT ![n] = r] \in [RunIds -> Run]
    BY <1>1
  <1> QED
    BY <1>2, <1>3, <1>4 DEF TypeOK

\* The agent's input leaves the card a row.
LEMMA TypedType ==
  ASSUME TypeOK, NEW t \in Todos, NEW w
  PROVE  [todo EXCEPT ![t].typed = @ \/ todo[t].window = w] \in [Todos -> Row]
  <1>1. todo[t] \in Row
    BY DEF TypeOK
  <1>2. (todo[t].typed \/ todo[t].window = w) \in BOOLEAN
    OBVIOUS
  <1>3. [todo[t] EXCEPT !.typed = @ \/ todo[t].window = w] \in Row
    BY <1>1, <1>2 DEF Row
  <1> QED
    BY <1>1, <1>3 DEF TypeOK

\* Every step keeps every variable in its type.
LEMMA StepTypeOK == TypeOK /\ [Next]_vars => TypeOK'
  <1> SUFFICES ASSUME TypeOK, [Next]_vars
               PROVE  TypeOK'
    OBVIOUS
  <1> USE Bounds DEF Windows, RunIds
  <1>1. ASSUME NEW t \in Todos, NEW ds \in SUBSET Todos, DispatchTodo(t, ds)
        PROVE  TypeOK'
    <2>1. deps' \in [Todos -> SUBSET Todos] /\ spent' \in [DOMAIN Bound -> Nat]
      BY <1>1, SpendType DEF TypeOK, DispatchTodo
    <2>2. CASE StartDispatch(t)
      BY <1>1, <2>1, <2>2, StartDispatchType DEF TypeOK, DispatchTodo
    <2>3. CASE ~StartDispatch(t)
      <3>1. [status |-> "todo", stage |-> "none", window |-> 0,
             answered |-> FALSE, typed |-> FALSE] \in Row
        BY DEF Row, Status, Stage
      <3>2. todo' \in [Todos -> Row]
        BY <1>1, <2>3, <3>1 DEF TypeOK, DispatchTodo
      <3> QED
        BY <1>1, <2>1, <2>3, <3>2 DEF TypeOK, DispatchTodo
    <2> QED
      BY <2>2, <2>3
  <1>2. ASSUME NEW t \in Todos, NEW st \in Status, PatchStatus(t, st)
        PROVE  TypeOK'
    BY <1>2, StatusType, SpendType DEF TypeOK, PatchStatus, memory
  <1>3. ASSUME NEW r \in Requests, NEW t \in Todos, NEW st \in Status, PatchSatisfies(r, t, st)
        PROVE  TypeOK'
    <2>1. Freed(t) \subseteq Todos /\ r \in Callers
      BY DEF TypeOK, Freed, Callers
    <2>2. sweep' \in [Callers -> Sweep]
      BY <1>3, <2>1, ListedType, SweepType DEF PatchSatisfies
    <2> QED
      BY <1>3, <2>2, StatusType, SpendType DEF TypeOK, PatchSatisfies
  <1>4. ASSUME NEW r \in Requests, ListTodos(r)
        PROVE  TypeOK'
    <2>1. ReadyQueued \subseteq Todos /\ r \in Callers
      BY DEF TypeOK, ReadyQueued, Callers
    <2>2. sweep' \in [Callers -> Sweep]
      BY <1>4, <2>1, ListedType, SweepType DEF ListTodos
    <2> QED
      BY <1>4, <2>2 DEF TypeOK, ListTodos, rows, ghosts
  <1>5. ASSUME CronTick
        PROVE  TypeOK'
    <2>1. {t \in armed : todo[t].status = "todo" /\ count[t] > 0} \subseteq Todos
      BY DEF TypeOK
    <2>2. sweep' \in [Callers -> Sweep]
      BY <1>5, <2>1, ListedType, SweepType DEF CronTick, Callers
    <2> QED
      BY <1>5, <2>2 DEF TypeOK, CronTick, rows, ghosts
  <1>6. ASSUME NEW c \in Callers, SweepStep(c)
        PROVE  TypeOK'
    <2>1. ASSUME NEW t \in Todos, SweepStart(c, t)
          PROVE  TypeOK'
      <3>1. sweep' \in [Callers -> Sweep]
        BY <2>1, SweepType DEF SweepStart
      <3> QED
        BY <2>1, <3>1, StartDispatchType DEF TypeOK, SweepStart, ghosts
    <2>2. ASSUME NEW t \in Todos, NEW n \in 0..MaxRuns, SweepSkip(c, t, n)
          PROVE  TypeOK'
      <3>1. sweep' \in [Callers -> Sweep]
        BY <2>2, SweepType DEF SweepSkip
      <3> QED
        BY <2>2, <3>1 DEF TypeOK, SweepSkip, rows, ghosts
    <2>3. ASSUME NEW t \in Todos, NEW n \in 0..MaxRuns, SweepConflict(c, t, n)
          PROVE  TypeOK'
      <3>1. sweep' \in [Callers -> Sweep]
        BY <2>3, SweepType DEF SweepConflict
      <3> QED
        BY <2>3, <3>1 DEF TypeOK, SweepConflict, rows, ghosts
    <2>4. CASE SweepEnd(c)
      <3>1. sweep' \in [Callers -> Sweep]
        BY <2>4, SweepType DEF SweepEnd
      <3> QED
        BY <2>4, <3>1 DEF TypeOK, SweepEnd, rows, ghosts
    <2>5. CASE ListSync(c)
      <3>1. sweep' \in [Callers -> Sweep]
        BY <2>5, SweepType DEF ListSync
      <3>2. todo' \in [Todos -> Row] /\ runs' \in [Todos -> [RunIds -> Run]]
        <4> DEFINE Ends == {t \in Todos : Completes(Synced(t))}
        <4>1. todo' = [t \in Todos |-> IF t \in Ends THEN CompletedRow(t, Synced(t)) ELSE Synced(t)]
          BY <2>5 DEF ListSync
        <4>2. runs' = [t \in Todos |-> [n \in RunIds |->
                         [runs[t][n] EXCEPT !.status = SyncedStatus(t, n, Ends)]]]
          BY <2>5 DEF ListSync
        <4>3. \A t \in Todos : Synced(t) \in Row /\ CompletedRow(t, Synced(t)) \in Row
          BY SyncType
        <4> HIDE DEF Ends
        <4>4. todo' \in [Todos -> Row]
          BY <4>1, <4>3
        <4>5. ASSUME NEW t \in Todos, NEW n \in RunIds
              PROVE  [runs[t][n] EXCEPT !.status = SyncedStatus(t, n, Ends)] \in Run
          <5>1. runs[t][n] \in Run
            BY DEF TypeOK
          <5>2. SyncedStatus(t, n, Ends) \in RunStatus
            BY SyncType
          <5> QED
            BY <5>1, <5>2 DEF Run
        <4> QED
          BY <4>2, <4>4, <4>5
      <3>3. armed' \subseteq Cron
        BY <2>5 DEF TypeOK, ListSync, Rearms
      <3> QED
        BY <2>5, <3>1, <3>2, <3>3 DEF TypeOK, ListSync, ghosts
    <2> QED
      BY <1>6, <2>1, <2>2, <2>3, <2>4, <2>5 DEF SweepStep
  <1>7. ASSUME NEW k \in tasks, TaskStep(k)
        PROVE  TypeOK'
    <2>1. k \in Task /\ k.todo \in Todos /\ k.window \in Windows /\ k.run \in 0..MaxRuns
      BY DEF TypeOK, Task
    <2>2. \A w \in Windows, pc \in Pc : [k EXCEPT !.pc = pc, !.window = w] \in Task
      BY <2>1 DEF Task
    <2>3. \A pc \in Pc : [k EXCEPT !.pc = pc] \in Task
      BY <2>1 DEF Task
    <2>4. CASE TaskBegin(k)
      <3> DEFINE w == IF k.todo \in Reuse THEN todo[k.todo].window ELSE 0
      <3>1. todo[k.todo].window \in Windows /\ "opening" \in Pc
        BY <2>1 DEF TypeOK, Row, Pc
      <3>2. tasks' = (tasks \ {k}) \cup {[k EXCEPT !.pc = "opening", !.window = w]}
        BY <2>4 DEF TaskBegin, Move
      <3>3. w \in Windows
        BY <3>1
      <3>4. tasks' \subseteq Task
        BY <2>2, <3>1, <3>2, <3>3 DEF TypeOK
      <3> QED
        BY <2>4, <3>4 DEF TypeOK, TaskBegin, rows, ghosts
    <2>5. CASE TaskAttach(k)
      <3> DEFINE w == IF k.window # 0 THEN k.window ELSE k.run
      <3>1. w \in Windows /\ Done(k.todo, w) \in BOOLEAN
        BY <2>1 DEF TypeOK, Done, Agent
      <3>2. tasks' = (tasks \ {k}) \cup {[k EXCEPT !.pc = "waiting", !.window = w]}
        BY <2>5 DEF TaskAttach, Move
      <3>3. runs' = IF k.window = 0 THEN [runs EXCEPT ![k.todo][k.run].window = w] ELSE runs
        BY <2>5 DEF TaskAttach
      <3>4. todo' = [todo EXCEPT ![k.todo] = [@ EXCEPT
              !.window = w, !.answered = Done(k.todo, w), !.typed = FALSE,
              !.stage = IF k.todo \in Reuse THEN "TERMINAL_READY" ELSE "WINDOW_CREATED"]]
        BY <2>5 DEF TaskAttach
      <3> HIDE DEF w
      <3>5. tasks' \subseteq Task
        BY <2>2, <3>1, <3>2 DEF TypeOK, Pc
      <3>6. runs' \in [Todos -> [RunIds -> Run]]
        BY <2>1, <3>1, <3>3, RunType DEF TypeOK
      <3>7. todo' \in [Todos -> Row]
        <4>1. todo[k.todo] \in Row
          BY <2>1 DEF TypeOK
        <4>2. todo'[k.todo] \in Row
          BY <2>1, <3>1, <3>4, <4>1 DEF TypeOK, Row, Stage, InFlight
        <4> QED
          BY <3>4, <4>2 DEF TypeOK
      <3> QED
        BY <2>5, <3>5, <3>6, <3>7 DEF TypeOK, TaskAttach, ghosts
    <2>6. CASE CommentAttach(k)
      BY <2>1, <2>3, <2>6, StageType
      DEF TypeOK, CommentAttach, Move, Pc, Stage, InFlight, ghosts
    <2>7. CASE TaskReady(k)
      BY <2>1, <2>3, <2>7, StageType
      DEF TypeOK, TaskReady, Move, Pc, Stage, InFlight, ghosts
    <2>8. CASE TaskSend(k)
      BY <2>1, <2>3, <2>8 DEF TypeOK, TaskSend, Move, Pc, rows, ghosts
    <2>9. CASE TaskSawWorking(k)
      <3>1. todo' \in [Todos -> Row]
        BY <2>1, <2>9, TypedType DEF TaskSawWorking
      <3>2. agent' \in [Todos -> [RunIds -> Agent]]
        <4>1. agent[k.todo] \in [RunIds -> Agent] /\ count[k.todo] \in 0..MaxRuns
          BY <2>1 DEF TypeOK
        <4>2. [agent[k.todo] EXCEPT ![k.window] =
                 [@ EXCEPT !.input = count[k.todo], !.inputLast = TRUE]] \in [RunIds -> Agent]
          BY <4>1 DEF Agent
        <4> QED
          BY <2>9, <4>2 DEF TypeOK, TaskSawWorking
      <3>3. tasks' \subseteq Task
        BY <2>3, <2>9 DEF TypeOK, TaskSawWorking, Move, Pc
      <3> QED
        BY <2>9, <3>1, <3>2, <3>3 DEF TypeOK, TaskSawWorking, ghosts
    <2>10. CASE TaskCommit(k)
      <3>1. CommittedRow(k) \in Row
        BY <2>1 DEF CommittedRow, Row, Status, Stage
      <3>2. [status |-> "DISPATCHED", window |-> k.window] \in Run
        BY <2>1 DEF Run, RunStatus
      <3>3. runs' \in [Todos -> [RunIds -> Run]]
        BY <2>1, <2>10, <3>2, RunType DEF TypeOK, TaskCommit
      <3> QED
        BY <2>10, <3>1, <3>3 DEF TypeOK, TaskCommit, End, ghosts
    <2>11. CASE mark_project_todo_dispatch_failed(k)
      <3>1. runs' \in [Todos -> [RunIds -> Run]]
        BY <2>1, <2>11, RunType
        DEF TypeOK, mark_project_todo_dispatch_failed, mark_project_todo_run_failed, FailRun, RunStatus
      <3>2. armed' \subseteq Cron
        BY <2>11 DEF TypeOK, mark_project_todo_dispatch_failed, mark_project_todo_run_failed
      <3>3. todo' \in [Todos -> Row]
        BY <2>1, <2>11, StageType DEF mark_project_todo_dispatch_failed, Stage
      <3> QED
        BY <2>11, <3>1, <3>2, <3>3 DEF TypeOK, mark_project_todo_dispatch_failed, End, ghosts
    <2> QED
      BY <1>7, <2>4, <2>5, <2>6, <2>7, <2>8, <2>9, <2>10, <2>11 DEF TaskStep
  <1>8. ASSUME NEW t \in Todos, SubmitComment(t)
        PROVE  TypeOK'
    <2>1. todo[t] \in Row /\ Done(t, todo[t].window) \in BOOLEAN
      BY DEF TypeOK, Row, Done, Agent
    <2>2. todo' \in [Todos -> Row]
      BY <1>8, <2>1 DEF TypeOK, SubmitComment, Row, Status, Stage, InFlight
    <2>3. tasks' \subseteq Task
      BY <1>8, <2>1 DEF TypeOK, SubmitComment, Task, Pc, Row
    <2>4. spent' \in [DOMAIN Bound -> Nat]
      BY <1>8, SpendType DEF SubmitComment
    <2> QED
      BY <1>8, <2>2, <2>3, <2>4 DEF TypeOK, SubmitComment, _reserve_dispatch
  <1>9. ASSUME NEW t \in Todos, NEW w \in RunIds, AgentInput(t, w)
        PROVE  TypeOK'
    <2>1. todo' \in [Todos -> Row]
      BY <1>9, TypedType DEF AgentInput
    <2>2. agent' \in [Todos -> [RunIds -> Agent]]
      <3>1. agent[t][w] \in Agent /\ count[t] \in 0..MaxRuns
        BY DEF TypeOK
      <3>2. [agent[t][w] EXCEPT !.input = count[t], !.inputLast = TRUE, !.working = TRUE] \in Agent
        BY <3>1 DEF Agent
      <3> QED
        BY <1>9, <3>2 DEF TypeOK, AgentInput
    <2>3. spent' \in [DOMAIN Bound -> Nat]
      BY <1>9, SpendType DEF AgentInput
    <2> QED
      BY <1>9, <2>1, <2>2, <2>3 DEF TypeOK, AgentInput, memory
  <1>10. ASSUME NEW t \in Todos, NEW w \in RunIds, AgentCompletes(t, w)
         PROVE  TypeOK'
    <2> DEFINE row  == [todo[t] EXCEPT !.answered = @ \/ todo[t].window = w]
               ends == row.window = w /\ Completes(row)
    <2>1. row \in Row
      <3>1. todo[t] \in Row /\ (todo[t].answered \/ todo[t].window = w) \in BOOLEAN
        BY DEF TypeOK
      <3> QED
        BY <3>1 DEF Row
    <2>2. CompletedRow(t, row) \in Row
      BY <2>1, SyncType
    <2>3. todo' \in [Todos -> Row]
      BY <1>10, <2>1, <2>2 DEF TypeOK, AgentCompletes
    <2>4. armed' \subseteq Cron
      BY <1>10 DEF TypeOK, AgentCompletes, Rearms
    <2>5. runs' \in [Todos -> [RunIds -> Run]]
      <3>1. runs' = IF ends THEN [runs EXCEPT ![t] = EndedRuns(t)] ELSE runs
        BY <1>10 DEF AgentCompletes
      <3>2. runs[t] \in [RunIds -> Run]
        BY DEF TypeOK
      <3>3. EndedRuns(t) \in [RunIds -> Run]
        BY <3>2 DEF EndedRuns, Run, RunStatus
      <3> HIDE DEF ends
      <3> QED
        BY <3>1, <3>3 DEF TypeOK
    <2>6. agent' \in [Todos -> [RunIds -> Agent]]
      <3>1. agent[t][w] \in Agent
        BY DEF TypeOK
      <3>2. [agent[t][w] EXCEPT !.inputLast = FALSE, !.done = TRUE, !.working = FALSE] \in Agent
        BY <3>1 DEF Agent
      <3> QED
        BY <1>10, <3>2 DEF TypeOK, AgentCompletes
    <2>7. spent' \in [DOMAIN Bound -> Nat]
      BY <1>10, SpendType DEF AgentCompletes
    <2> QED
      BY <1>10, <2>3, <2>4, <2>5, <2>6, <2>7 DEF TypeOK, AgentCompletes, memory
  <1>11. ASSUME Crash
         PROVE  TypeOK'
    <2>1. lost' \subseteq Todos \X (0..MaxRuns)
      BY <1>11 DEF TypeOK, Crash, Task
    <2>2. sweep' \in [Callers -> Sweep]
      BY <1>11 DEF Crash, Sweep, IdleSweep
    <2> QED
      BY <1>11, <2>1, <2>2, SpendType DEF TypeOK, Crash, rows
  <1>12. CASE UNCHANGED vars
    BY <1>12 DEF TypeOK, vars, rows, memory, ghosts
  <1> QED
    BY <1>1, <1>2, <1>3, <1>4, <1>5, <1>6, <1>7, <1>8, <1>9, <1>10, <1>11, <1>12 DEF Next

\* Every variable of the dispatch stays in its type.
THEOREM TypeCorrect == Spec => []TypeOK
  BY InitTypeOK, StepTypeOK, PTL DEF Spec

-----------------------------------------------------------------------------
(* What a step does to reservations, runs and stages, seven kinds in all.   *)

OtherStagesKept(t) == \A u \in Todos \ {t} : todo'[u].stage = todo[u].stage

RunStatusesKept == \A t \in Todos, n \in RunIds : runs'[t][n].status = runs[t][n].status

OtherRunsKept(t, m) ==
  \A u \in Todos, n \in RunIds : <<u, n>> # <<t, m>> => runs'[u][n].status = runs[u][n].status

\* A run of the card completes.
Completing(t) ==
  \E n \in RunIds : runs[t][n].status # "COMPLETED" /\ runs'[t][n].status = "COMPLETED"

\* Requests and agents: they confirm or complete an open run, and start nothing.
QuietStep ==
  /\ UNCHANGED <<tasks, reserved, count, lost>>
  /\ armed \subseteq armed' /\ \A t \in armed' \ armed : Completing(t)
  /\ \A t \in Todos : todo'[t].stage \in InFlight => todo[t].stage \in InFlight
  /\ \A t \in Todos, n \in RunIds :
       \/ runs'[t][n].status = runs[t][n].status
       \/ /\ runs[t][n].status \in OpenRun
          /\ \/ runs'[t][n].status = "DISPATCHED"
             \/ runs'[t][n].status = "COMPLETED" /\ (t \in Cron => t \in armed')

StartStep(t) ==
  /\ t \notin reserved /\ reserved' = reserved \cup {t}
  /\ count[t] + 1 \in RunIds /\ count' = [count EXCEPT ![t] = count[t] + 1]
  /\ tasks' = tasks \cup {[todo |-> t, run |-> count[t] + 1, window |-> 0, pc |-> "begin"]}
  /\ runs'[t][count[t] + 1].status = "STARTING"
  /\ OtherRunsKept(t, count[t] + 1)
  /\ armed' = armed \ {t}
  /\ OtherStagesKept(t)
  /\ lost' = lost

CommentStep(t) ==
  /\ t \notin reserved /\ reserved' = reserved \cup {t}
  /\ \E w : tasks' = tasks \cup {[todo |-> t, run |-> 0, window |-> w, pc |-> "begin"]}
  /\ RunStatusesKept
  /\ OtherStagesKept(t)
  /\ UNCHANGED <<count, armed, lost>>

MoveStep(k, l) ==
  /\ l.todo = k.todo /\ l.run = k.run
  /\ Move(k, l)
  /\ RunStatusesKept
  /\ OtherStagesKept(k.todo)
  /\ UNCHANGED <<reserved, count, armed, lost>>

CommitStep(k) ==
  /\ End(k)
  /\ k.run # 0 => runs'[k.todo][k.run].status = "DISPATCHED"
  /\ OtherRunsKept(k.todo, k.run)
  /\ OtherStagesKept(k.todo) /\ todo'[k.todo].stage = "none"
  /\ UNCHANGED <<count, armed, lost>>

FailStep(k) ==
  /\ End(k)
  /\ k.run # 0 => runs'[k.todo][k.run].status = "FAILED"
  /\ OtherRunsKept(k.todo, k.run)
  /\ OtherStagesKept(k.todo) /\ todo'[k.todo].stage = "FAILED"
  /\ armed \subseteq armed' /\ (k.todo \in Cron => k.todo \in armed')
  /\ armed' \subseteq armed \cup {k.todo}
  /\ UNCHANGED <<count, lost>>

StepKinds ==
  \/ QuietStep
  \/ \E t \in Todos : StartStep(t) \/ CommentStep(t)
  \/ \E k \in tasks : \E l \in Task : MoveStep(k, l)
  \/ \E k \in tasks : CommitStep(k) \/ FailStep(k)
  \/ Crash

\* Starting a dispatch starts a run, a task and a stage, of that card alone.
LEMMA StartDispatchKind ==
  ASSUME TypeOK, NEW t \in Todos, StartDispatch(t), lost' = lost
  PROVE  StartStep(t)
  <1> USE Bounds DEF TypeOK, RunIds
  <1>1. count[t] + 1 \in RunIds
    BY DEF StartDispatch, create_project_todo_run
  <1>2. /\ runs'[t][count[t] + 1].status = "STARTING"
        /\ OtherRunsKept(t, count[t] + 1)
    BY <1>1 DEF StartDispatch, create_project_todo_run, OtherRunsKept
  <1>3. OtherStagesKept(t)
    BY DEF StartDispatch, _prepare_project_todo_dispatch, OtherStagesKept
  <1> QED
    BY <1>1, <1>2, <1>3
    DEF StartDispatch, StartStep, create_project_todo_run, _reserve_dispatch

\* Steps that only touch rows, and put no stage in flight, are quiet.
LEMMA QuietRows ==
  ASSUME UNCHANGED <<tasks, reserved, count, lost, runs, armed>>,
         \A t \in Todos : todo'[t].stage \in InFlight => todo[t].stage \in InFlight
  PROVE  QuietStep
  BY DEF QuietStep

\* The run that an agent's completion ends is open, and a periodic card is armed again.
LEMMA EndedIsOpen ==
  ASSUME NEW t \in Todos, NEW n \in Ended(t)
  PROVE  /\ n \in RunIds /\ runs[t][n].status \in OpenRun
         /\ t \in Cron => Rearms(t)
  BY DEF Ended, LatestRun, IsLatest, Rearms

\* The run that a recovery marks as started is open.
LEMMA StartedIsOpen ==
  ASSUME NEW t \in Todos, NEW n \in Started(t)
  PROVE  runs[t][n].status \in OpenRun
  BY DEF Started, LatestRun, IsLatest, OpenRun

\* Every step is of one of the seven kinds.
LEMMA StepIsOfAKind == TypeOK /\ [Next]_vars => StepKinds
  <1> SUFFICES ASSUME TypeOK, [Next]_vars
               PROVE  StepKinds
    OBVIOUS
  <1>1. ASSUME NEW t \in Todos, NEW ds \in SUBSET Todos, DispatchTodo(t, ds)
        PROVE  StepKinds
    <2>1. CASE StartDispatch(t)
      BY <1>1, <2>1, StartDispatchKind DEF DispatchTodo, StepKinds
    <2>2. CASE ~StartDispatch(t)
      <3>1. todo' = [todo EXCEPT ![t] = [status |-> "todo", stage |-> "none", window |-> 0,
                                        answered |-> FALSE, typed |-> FALSE]]
        BY <1>1, <2>2 DEF DispatchTodo
      <3>2. \A u \in Todos : todo'[u].stage \in InFlight => todo[u].stage \in InFlight
        BY <3>1 DEF TypeOK, InFlight
      <3> QED
        BY <1>1, <2>2, <3>2, QuietRows DEF DispatchTodo, StepKinds
    <2> QED
      BY <2>1, <2>2
  <1>2. ASSUME NEW t \in Todos, NEW st \in Status, apply_project_todo_status(t, st),
               UNCHANGED <<tasks, reserved, count, lost, runs, armed>>
        PROVE  StepKinds
    <2>1. \A u \in Todos : todo'[u].stage \in InFlight => todo[u].stage \in InFlight
      BY <1>2 DEF apply_project_todo_status, TypeOK, Row, InFlight
    <2> QED
      BY <1>2, <2>1, QuietRows DEF StepKinds
  <1>3. ASSUME UNCHANGED <<rows, tasks, reserved, lost>>
        PROVE  StepKinds
    BY <1>3, QuietRows DEF StepKinds, rows
  <1>4. ASSUME NEW c \in Callers, ListSync(c)
        PROVE  StepKinds
    <2> DEFINE Ends == {t \in Todos : Completes(Synced(t))}
    <2>1. /\ todo' = [t \in Todos |-> IF t \in Ends THEN CompletedRow(t, Synced(t)) ELSE Synced(t)]
          /\ runs' = [t \in Todos |-> [n \in RunIds |->
                        [runs[t][n] EXCEPT !.status = SyncedStatus(t, n, Ends)]]]
          /\ armed' = armed \cup {t \in Ends : Rearms(t)}
          /\ UNCHANGED <<tasks, reserved, count, lost>>
      BY <1>4 DEF ListSync, ghosts
    <2>2. \A t \in Todos : /\ Synced(t).stage \in InFlight => todo[t].stage \in InFlight
                           /\ CompletedRow(t, Synced(t)).stage = "none"
      <3> TAKE t \in Todos
      <3>1. todo[t] \in Row /\ Synced(t) \in Row
        BY SyncType DEF TypeOK
      <3> QED
        BY <3>1 DEF Synced, RecoveredRow, CompletedRow, InFlight, Row
    <2>3. \A t \in Todos : todo'[t].stage \in InFlight => todo[t].stage \in InFlight
      BY <2>1, <2>2 DEF InFlight
    <2>4. ASSUME NEW t \in Todos, NEW n \in RunIds
          PROVE  \/ runs'[t][n].status = runs[t][n].status
                 \/ /\ runs[t][n].status \in OpenRun
                    /\ \/ runs'[t][n].status = "DISPATCHED"
                       \/ runs'[t][n].status = "COMPLETED" /\ (t \in Cron => t \in armed')
      <3>1. runs[t][n] \in Run
        BY DEF TypeOK
      <3>2. runs'[t][n].status = SyncedStatus(t, n, Ends)
        BY <2>1, <3>1 DEF Run
      <3>3. CASE t \in Ends /\ n \in Ended(t)
        BY <2>1, <3>2, <3>3, EndedIsOpen DEF SyncedStatus
      <3>4. CASE ~(t \in Ends /\ n \in Ended(t)) /\ n \in Started(t)
        BY <3>2, <3>4, StartedIsOpen DEF SyncedStatus
      <3>5. CASE ~(t \in Ends /\ n \in Ended(t)) /\ n \notin Started(t)
        BY <3>2, <3>5 DEF SyncedStatus
      <3> QED
        BY <3>3, <3>4, <3>5
    <2>5. ASSUME NEW t \in Ends, Rearms(t)
          PROVE  Completing(t)
      <3>1. PICK n \in Ended(t) : TRUE
        BY <2>5 DEF Rearms
      <3>2. n \in RunIds /\ runs[t][n].status \in OpenRun
        BY EndedIsOpen
      <3>3. runs[t][n] \in Run
        BY <3>2 DEF TypeOK
      <3>4. runs'[t][n].status = "COMPLETED"
        BY <2>1, <3>1, <3>2, <3>3 DEF Run, SyncedStatus
      <3> QED
        BY <3>2, <3>4 DEF Completing, OpenRun
    <2> QED
      BY <2>1, <2>3, <2>4, <2>5 DEF QuietStep, StepKinds
  <1>5. ASSUME NEW c \in Callers, SweepStep(c)
        PROVE  StepKinds
    <2>1. ASSUME NEW t \in Todos, SweepStart(c, t)
          PROVE  StepKinds
      BY <2>1, StartDispatchKind DEF SweepStart, StepKinds, ghosts
    <2> QED
      BY <1>3, <1>4, <1>5, <2>1
      DEF SweepStep, SweepSkip, SweepConflict, SweepEnd, ghosts
  <1>6. ASSUME NEW k \in tasks, TaskStep(k)
        PROVE  StepKinds
    <2>1. k \in Task /\ k.todo \in Todos /\ (k.run # 0 <=> k.run \in RunIds)
      BY Bounds DEF TypeOK, Task, RunIds
    <2>2. \A st \in Stage : _update_dispatch_stage(k.todo, st) =>
            OtherStagesKept(k.todo) /\ todo'[k.todo].stage = st
      BY <2>1 DEF _update_dispatch_stage, OtherStagesKept, TypeOK, Row
    <2>3. ASSUME NEW l, Move(k, l), l.todo = k.todo, l.run = k.run,
                 RunStatusesKept, OtherStagesKept(k.todo),
                 UNCHANGED <<reserved, count, armed, lost>>
          PROVE  StepKinds
      <3>1. l \in Task
        BY <2>3, StepTypeOK DEF TypeOK, Move
      <3> QED
        BY <2>3, <3>1 DEF MoveStep, StepKinds
    <2>4. runs' = runs => RunStatusesKept
      BY DEF RunStatusesKept
    <2>5. todo' = todo => OtherStagesKept(k.todo)
      BY DEF OtherStagesKept
    <2>6. /\ \A p : [k EXCEPT !.pc = p].todo = k.todo /\ [k EXCEPT !.pc = p].run = k.run
          /\ \A p, w : /\ [k EXCEPT !.pc = p, !.window = w].todo = k.todo
                       /\ [k EXCEPT !.pc = p, !.window = w].run = k.run
      BY <2>1 DEF Task
    <2>7. CASE TaskBegin(k)
      BY <2>3, <2>4, <2>5, <2>6, <2>7 DEF TaskBegin, rows, ghosts
    <2>8. CASE TaskAttach(k)
      <3>1. RunStatusesKept
        BY <2>1, <2>8 DEF TaskAttach, RunStatusesKept, TypeOK, Run
      <3>2. OtherStagesKept(k.todo)
        BY <2>8 DEF TaskAttach, OtherStagesKept, TypeOK
      <3> DEFINE l == [k EXCEPT !.pc = "waiting",
                               !.window = IF k.window # 0 THEN k.window ELSE k.run]
      <3>3. Move(k, l) /\ l.todo = k.todo /\ l.run = k.run
        BY <2>6, <2>8 DEF TaskAttach
      <3> HIDE DEF l
      <3> QED
        BY <2>3, <2>8, <3>1, <3>2, <3>3 DEF TaskAttach, ghosts
    <2>9. CASE CommentAttach(k)
      BY <2>2, <2>3, <2>4, <2>6, <2>9 DEF CommentAttach, Stage, InFlight, ghosts
    <2>10. CASE TaskReady(k)
      BY <2>2, <2>3, <2>4, <2>6, <2>10 DEF TaskReady, Stage, InFlight, ghosts
    <2>11. CASE TaskSend(k)
      BY <2>3, <2>4, <2>5, <2>6, <2>11 DEF TaskSend, rows, ghosts
    <2>12. CASE TaskSawWorking(k)
      <3>1. OtherStagesKept(k.todo)
        BY <2>12 DEF TaskSawWorking, OtherStagesKept, TypeOK
      <3> QED
        BY <2>3, <2>4, <2>6, <2>12, <3>1 DEF TaskSawWorking, ghosts
    <2>13. CASE TaskCommit(k)
      <3>1. OtherStagesKept(k.todo) /\ todo'[k.todo].stage = "none"
        BY <2>1, <2>13 DEF TaskCommit, CommittedRow, OtherStagesKept, TypeOK
      <3>2. k.run # 0 => runs'[k.todo][k.run].status = "DISPATCHED"
        BY <2>1, <2>13 DEF TaskCommit, TypeOK
      <3>3. OtherRunsKept(k.todo, k.run)
        BY <2>1, <2>13 DEF TaskCommit, OtherRunsKept, TypeOK
      <3> QED
        BY <2>13, <3>1, <3>2, <3>3 DEF TaskCommit, CommitStep, StepKinds, ghosts
    <2>14. CASE mark_project_todo_dispatch_failed(k)
      <3>1. OtherStagesKept(k.todo) /\ todo'[k.todo].stage = "FAILED"
        BY <2>2, <2>14 DEF mark_project_todo_dispatch_failed, Stage
      <3>2. runs' = FailRun(k)
        BY <2>14 DEF mark_project_todo_dispatch_failed, mark_project_todo_run_failed
      <3>3. k.run # 0 => runs'[k.todo][k.run].status = "FAILED"
        BY <2>1, <3>2 DEF FailRun, TypeOK, Run
      <3>4. OtherRunsKept(k.todo, k.run)
        BY <2>1, <3>2 DEF FailRun, OtherRunsKept, TypeOK
      <3>5. /\ armed \subseteq armed' /\ (k.todo \in Cron => k.todo \in armed')
            /\ armed' \subseteq armed \cup {k.todo}
        BY <2>14 DEF mark_project_todo_dispatch_failed, mark_project_todo_run_failed
      <3> QED
        BY <2>14, <3>1, <3>3, <3>4, <3>5
        DEF mark_project_todo_dispatch_failed, FailStep, StepKinds, ghosts
    <2> QED
      BY <1>6, <2>7, <2>8, <2>9, <2>10, <2>11, <2>12, <2>13, <2>14 DEF TaskStep
  <1>7. ASSUME NEW t \in Todos, SubmitComment(t)
        PROVE  StepKinds
    <2>1. OtherStagesKept(t)
      BY <1>7 DEF SubmitComment, OtherStagesKept, TypeOK
    <2>2. RunStatusesKept
      BY <1>7 DEF SubmitComment, RunStatusesKept
    <2> QED
      BY <1>7, <2>1, <2>2 DEF SubmitComment, _reserve_dispatch, CommentStep, StepKinds
  <1>8. ASSUME NEW t \in Todos, NEW w \in RunIds, AgentInput(t, w)
        PROVE  StepKinds
    <2>1. \A u \in Todos : todo'[u].stage = todo[u].stage
      BY <1>8 DEF AgentInput, TypeOK
    <2> QED
      BY <1>8, <2>1, QuietRows DEF AgentInput, StepKinds, memory
  <1>9. ASSUME NEW t \in Todos, NEW w \in RunIds, AgentCompletes(t, w)
        PROVE  StepKinds
    <2> DEFINE row  == [todo[t] EXCEPT !.answered = @ \/ todo[t].window = w]
               ends == row.window = w /\ Completes(row)
    <2>1. /\ todo' = [todo EXCEPT ![t] = IF ends THEN CompletedRow(t, row) ELSE row]
          /\ runs' = IF ends THEN [runs EXCEPT ![t] = EndedRuns(t)] ELSE runs
          /\ armed' = IF ends /\ Rearms(t) THEN armed \cup {t} ELSE armed
          /\ UNCHANGED <<tasks, reserved, count, lost>>
      BY <1>9 DEF AgentCompletes, memory
    <2>2. /\ row.stage = todo[t].stage
          /\ CompletedRow(t, row).stage = "none"
      <3>1. todo[t] \in Row
        BY DEF TypeOK
      <3> QED
        BY <3>1 DEF CompletedRow, Row
    <2> HIDE DEF row, ends
    <2>3. \A u \in Todos : todo'[u].stage \in InFlight => todo[u].stage \in InFlight
      BY <2>1, <2>2 DEF InFlight, TypeOK
    <2>4. ASSUME NEW u \in Todos, NEW n \in RunIds
          PROVE  \/ runs'[u][n].status = runs[u][n].status
                 \/ /\ runs[u][n].status \in OpenRun
                    /\ \/ runs'[u][n].status = "DISPATCHED"
                       \/ runs'[u][n].status = "COMPLETED" /\ (u \in Cron => u \in armed')
      <3>1. runs[u][n] \in Run
        BY DEF TypeOK
      <3>2. CASE ends /\ u = t /\ n \in Ended(t)
        <4>1. runs'[u][n].status = "COMPLETED"
          BY <2>1, <3>1, <3>2 DEF EndedRuns, Run, TypeOK
        <4> QED
          BY <2>1, <3>2, <4>1, EndedIsOpen
      <3>3. CASE ~(ends /\ u = t /\ n \in Ended(t))
        BY <2>1, <3>1, <3>3 DEF EndedRuns, Run, TypeOK
      <3> QED
        BY <3>2, <3>3
    <2>5. ASSUME ends, Rearms(t)
          PROVE  Completing(t)
      <3>1. PICK n \in Ended(t) : TRUE
        BY <2>5 DEF Rearms
      <3>2. n \in RunIds /\ runs[t][n].status \in OpenRun
        BY EndedIsOpen
      <3>3. runs[t][n] \in Run
        BY <3>2 DEF TypeOK
      <3>4. runs'[t][n].status = "COMPLETED"
        BY <2>1, <2>5, <3>1, <3>2, <3>3 DEF EndedRuns, Run, TypeOK
      <3> QED
        BY <3>2, <3>4 DEF Completing, OpenRun
    <2> QED
      BY <2>1, <2>3, <2>4, <2>5 DEF QuietStep, StepKinds
  <1>10. CASE Crash
    BY <1>10 DEF StepKinds
  <1>11. CASE UNCHANGED vars
    BY <1>3, <1>11 DEF vars, memory, ghosts
  <1>12. ASSUME NEW t \in Todos, NEW st \in Status, PatchStatus(t, st)
         PROVE  StepKinds
    BY <1>2, <1>12 DEF PatchStatus, memory
  <1>13. ASSUME NEW r \in Requests, NEW t \in Todos, NEW st \in Status, PatchSatisfies(r, t, st)
         PROVE  StepKinds
    BY <1>2, <1>13 DEF PatchSatisfies
  <1>14. ASSUME NEW r \in Requests, ListTodos(r) \/ CronTick
         PROVE  StepKinds
    BY <1>3, <1>14 DEF ListTodos, CronTick, ghosts
  <1>15. CASE CronTick
    BY <1>3, <1>15 DEF CronTick, ghosts
  <1> QED
    BY <1>1, <1>5, <1>6, <1>7, <1>8, <1>9, <1>10, <1>11, <1>12, <1>13, <1>14, <1>15 DEF Next

-----------------------------------------------------------------------------
(* The inductive invariant.                                                 *)

\* Runs are numbered without gaps: no number above the count is used.
RunsBeyondCountUnused ==
  \A t \in Todos, n \in RunIds : n > count[t] => runs[t][n].status = "none"

\* The run of a live task has not failed: failing it ends the task.
LiveRunNotFailed ==
  \A k \in tasks : k.run # 0 => runs[k.todo][k.run].status # "FAILED"

IInv ==
  /\ TypeOK
  /\ ReservationExact
  /\ TaskOwnsLatestRun
  /\ StartingRunHasOwner
  /\ InFlightStageIsLive
  /\ DisarmedCronHasOpenRun
  /\ RunsBeyondCountUnused
  /\ LiveRunNotFailed

\* The initial states satisfy the invariant.
LEMMA InitIInv == Init => IInv
  <1> SUFFICES ASSUME Init
               PROVE  IInv
    OBVIOUS
  <1>1. ReservationExact /\ TaskOwnsLatestRun /\ LiveRunNotFailed
    BY DEF Init, ReservationExact, TaskOwnsLatestRun, LiveRunNotFailed
  <1>2. StartingRunHasOwner /\ RunsBeyondCountUnused
    BY DEF Init, StartingRunHasOwner, RunsBeyondCountUnused
  <1>3. InFlightStageIsLive /\ DisarmedCronHasOpenRun
    BY DEF Init, InFlightStageIsLive, InFlight, DisarmedCronHasOpenRun
  <1> QED
    BY InitTypeOK, <1>1, <1>2, <1>3 DEF IInv

\* A task that starts is the only one of its card; one that ends takes the
\* reservation with it.
LEMMA ReservationKept ==
  ASSUME TypeOK, ReservationExact, StepKinds
  PROVE  ReservationExact'
  <1> USE DEF ReservationExact
  <1>1. CASE QuietStep
    BY <1>1 DEF QuietStep
  <1>2. ASSUME NEW t \in Todos, t \notin reserved, reserved' = reserved \cup {t},
               NEW l, l.todo = t, tasks' = tasks \cup {l}
        PROVE  ReservationExact'
    BY <1>2
  <1>3. ASSUME NEW t \in Todos, StartStep(t) \/ CommentStep(t)
        PROVE  ReservationExact'
    BY <1>2, <1>3 DEF StartStep, CommentStep
  <1>4. ASSUME NEW k \in tasks, NEW l \in Task, MoveStep(k, l)
        PROVE  ReservationExact'
    BY <1>4 DEF MoveStep, Move
  <1>5. ASSUME NEW k \in tasks, CommitStep(k) \/ FailStep(k)
        PROVE  ReservationExact'
    BY <1>5 DEF CommitStep, FailStep, End
  <1>6. CASE Crash
    BY <1>6 DEF Crash
  <1> QED
    BY <1>1, <1>2, <1>3, <1>4, <1>5, <1>6 DEF StepKinds

\* Only a card without a task gets a new run, so a live task keeps the newest one.
LEMMA OwnershipKept ==
  ASSUME TypeOK, ReservationExact, TaskOwnsLatestRun, StepKinds
  PROVE  TaskOwnsLatestRun'
  <1> USE DEF TaskOwnsLatestRun
  <1>1. CASE QuietStep
    BY <1>1 DEF QuietStep
  <1>2. ASSUME NEW t \in Todos, StartStep(t)
        PROVE  TaskOwnsLatestRun'
    <2>1. \A k \in tasks : k.todo \in Todos /\ k.todo # t
      BY <1>2 DEF StartStep, ReservationExact, TypeOK, Task
    <2>2. \A u \in Todos : count'[u] = IF u = t THEN count[t] + 1 ELSE count[u]
      BY <1>2 DEF StartStep, TypeOK
    <2> QED
      BY <1>2, <2>1, <2>2 DEF StartStep
  <1>3. ASSUME NEW t \in Todos, CommentStep(t)
        PROVE  TaskOwnsLatestRun'
    BY <1>3 DEF CommentStep
  <1>4. ASSUME NEW k \in tasks, NEW l \in Task, MoveStep(k, l)
        PROVE  TaskOwnsLatestRun'
    BY <1>4 DEF MoveStep, Move
  <1>5. ASSUME NEW k \in tasks, CommitStep(k) \/ FailStep(k)
        PROVE  TaskOwnsLatestRun'
    BY <1>5 DEF CommitStep, FailStep, End
  <1>6. CASE Crash
    BY <1>6 DEF Crash
  <1> QED
    BY <1>1, <1>2, <1>3, <1>4, <1>5, <1>6 DEF StepKinds

\* A run leaves STARTING when its task ends, or its task is lost.
LEMMA OwnerKept ==
  ASSUME TypeOK, StartingRunHasOwner, StepKinds
  PROVE  StartingRunHasOwner'
  <1> USE DEF StartingRunHasOwner
  <1>1. CASE QuietStep
    BY <1>1 DEF QuietStep
  <1>2. ASSUME NEW t \in Todos, StartStep(t)
        PROVE  StartingRunHasOwner'
    <2> DEFINE l == [todo |-> t, run |-> count[t] + 1, window |-> 0, pc |-> "begin"]
    <2>1. tasks' = tasks \cup {l} /\ l.todo = t /\ l.run = count[t] + 1 /\ lost' = lost
      BY <1>2 DEF StartStep
    <2>2. OtherRunsKept(t, count[t] + 1)
      BY <1>2 DEF StartStep
    <2> HIDE DEF l
    <2> QED
      BY <2>1, <2>2 DEF OtherRunsKept
  <1>3. ASSUME NEW t \in Todos, CommentStep(t)
        PROVE  StartingRunHasOwner'
    BY <1>3 DEF CommentStep, RunStatusesKept
  <1>4. ASSUME NEW k \in tasks, NEW l \in Task, MoveStep(k, l)
        PROVE  StartingRunHasOwner'
    BY <1>4 DEF MoveStep, Move, RunStatusesKept
  <1>5. ASSUME NEW k \in tasks, CommitStep(k) \/ FailStep(k)
        PROVE  StartingRunHasOwner'
    <2>1. k.run # 0 => runs'[k.todo][k.run].status # "STARTING"
      BY <1>5 DEF CommitStep, FailStep
    <2>2. OtherRunsKept(k.todo, k.run) /\ tasks' = tasks \ {k} /\ lost' = lost
      BY <1>5 DEF CommitStep, FailStep, End
    <2>3. ASSUME NEW t \in Todos, NEW n \in RunIds, runs'[t][n].status = "STARTING"
          PROVE  <<t, n>> \in lost' \/ \E j \in tasks' : j.todo = t /\ j.run = n
      <3>1. <<t, n>> # <<k.todo, k.run>>
        BY <2>1, <2>3 DEF RunIds
      <3> QED
        BY <2>2, <2>3, <3>1 DEF OtherRunsKept
    <2> QED
      BY <2>3
  <1>6. CASE Crash
    BY <1>6 DEF Crash, rows
  <1> QED
    BY <1>1, <1>2, <1>3, <1>4, <1>5, <1>6 DEF StepKinds

\* A stage in flight is written for a reserved card, and cleared with the reservation.
LEMMA StageKept ==
  ASSUME TypeOK, ReservationExact, InFlightStageIsLive, StepKinds
  PROVE  InFlightStageIsLive'
  <1> USE DEF InFlightStageIsLive
  <1>1. CASE QuietStep
    BY <1>1 DEF QuietStep
  <1>2. ASSUME NEW t \in Todos, StartStep(t) \/ CommentStep(t)
        PROVE  InFlightStageIsLive'
    BY <1>2 DEF StartStep, CommentStep, OtherStagesKept
  <1>3. ASSUME NEW k \in tasks, NEW l \in Task, MoveStep(k, l)
        PROVE  InFlightStageIsLive'
    BY <1>3 DEF MoveStep, OtherStagesKept, ReservationExact
  <1>4. ASSUME NEW k \in tasks, CommitStep(k) \/ FailStep(k)
        PROVE  InFlightStageIsLive'
    BY <1>4 DEF CommitStep, FailStep, End, OtherStagesKept, InFlight
  <1>5. CASE Crash
    <2>1. \A t \in reserved : \E n \in 0..MaxRuns : <<t, n>> \in lost'
      BY <1>5 DEF Crash, ReservationExact, TypeOK, Task
    <2> QED
      BY <1>5, <2>1 DEF Crash, rows
  <1> QED
    BY <1>1, <1>2, <1>3, <1>4, <1>5 DEF StepKinds

\* Starting a run disarms the card; its completion or its failure arms it again.
LEMMA DisarmedKept ==
  ASSUME TypeOK, ReservationExact, TaskOwnsLatestRun, DisarmedCronHasOpenRun, StepKinds
  PROVE  DisarmedCronHasOpenRun'
  <1> USE Bounds DEF DisarmedCronHasOpenRun
  <1>1. CASE QuietStep
    <2>1. ASSUME NEW t \in Cron \ armed'
          PROVE  count'[t] # 0 /\ runs'[t][count'[t]].status \in OpenRun
      <3>1. t \in Todos /\ t \in Cron \ armed /\ count'[t] = count[t] /\ count[t] \in RunIds
        BY <1>1, <2>1 DEF QuietStep, TypeOK, RunIds
      <3> QED
        BY <1>1, <2>1, <3>1 DEF QuietStep, OpenRun
    <2> QED
      BY <2>1
  <1>2. ASSUME NEW t \in Todos, StartStep(t)
        PROVE  DisarmedCronHasOpenRun'
    <2>1. ASSUME NEW u \in Cron \ armed'
          PROVE  count'[u] # 0 /\ runs'[u][count'[u]].status \in OpenRun
      <3>1. CASE u = t
        BY <1>2, <3>1 DEF StartStep, TypeOK, RunIds, OpenRun
      <3>2. CASE u # t
        <4>1. u \in Todos /\ u \in Cron \ armed /\ count'[u] = count[u] /\ count[u] \in RunIds
          BY <1>2, <2>1, <3>2 DEF StartStep, TypeOK, RunIds
        <4> QED
          BY <1>2, <3>2, <4>1 DEF StartStep, OtherRunsKept
      <3> QED
        BY <3>1, <3>2
    <2> QED
      BY <2>1
  <1>3. ASSUME RunStatusesKept, UNCHANGED <<count, armed>>
        PROVE  DisarmedCronHasOpenRun'
    <2>1. \A u \in Cron : u \in Todos /\ (count[u] # 0 => count[u] \in RunIds)
      BY DEF TypeOK, RunIds
    <2> QED
      BY <1>3, <2>1 DEF RunStatusesKept
  <1>4. ASSUME NEW k \in tasks, CommitStep(k) \/ FailStep(k)
        PROVE  DisarmedCronHasOpenRun'
    <2>1. ASSUME NEW u \in Cron \ armed'
          PROVE  count'[u] # 0 /\ runs'[u][count'[u]].status \in OpenRun
      <3>1. u \in Todos /\ u \in Cron \ armed /\ count'[u] = count[u] /\ count[u] \in RunIds
        BY <1>4, <2>1 DEF CommitStep, FailStep, TypeOK, RunIds
      <3>2. CASE <<u, count[u]>> = <<k.todo, k.run>>
        BY <1>4, <2>1, <3>1, <3>2 DEF CommitStep, FailStep, OpenRun, RunIds
      <3>3. CASE <<u, count[u]>> # <<k.todo, k.run>>
        BY <1>4, <3>1, <3>3 DEF CommitStep, FailStep, OtherRunsKept
      <3> QED
        BY <3>2, <3>3
    <2> QED
      BY <2>1
  <1>5. CASE Crash
    BY <1>5 DEF Crash, rows
  <1> QED
    BY <1>1, <1>2, <1>3, <1>4, <1>5 DEF StepKinds, CommentStep, MoveStep

\* Runs beyond the count stay unused: only a start uses one, and counts it.
LEMMA UnusedKept ==
  ASSUME TypeOK, TaskOwnsLatestRun, RunsBeyondCountUnused, StepKinds
  PROVE  RunsBeyondCountUnused'
  <1> USE Bounds DEF RunsBeyondCountUnused
  <1>1. CASE QuietStep
    BY <1>1 DEF QuietStep, OpenRun
  <1>2. ASSUME NEW t \in Todos, StartStep(t)
        PROVE  RunsBeyondCountUnused'
    <2>1. \A u \in Todos : count'[u] = IF u = t THEN count[t] + 1 ELSE count[u]
      BY <1>2 DEF StartStep, TypeOK
    <2>2. \A u \in Todos : count[u] \in 0..MaxRuns
      BY DEF TypeOK
    <2> QED
      BY <1>2, <2>1, <2>2 DEF StartStep, OtherRunsKept, RunIds
  <1>3. ASSUME RunStatusesKept, UNCHANGED count
        PROVE  RunsBeyondCountUnused'
    BY <1>3 DEF RunStatusesKept
  <1>4. ASSUME NEW k \in tasks, CommitStep(k) \/ FailStep(k)
        PROVE  RunsBeyondCountUnused'
    <2>1. OtherRunsKept(k.todo, k.run) /\ count' = count
      BY <1>4 DEF CommitStep, FailStep
    <2>2. ASSUME NEW u \in Todos, NEW n \in RunIds, n > count[u]
          PROVE  <<u, n>> # <<k.todo, k.run>>
      <3>1. count[u] \in Nat /\ n # 0 /\ n # count[u]
        BY <2>2 DEF TypeOK, RunIds
      <3> QED
        BY <3>1 DEF TaskOwnsLatestRun
    <2> QED
      BY <2>1, <2>2 DEF OtherRunsKept
  <1>5. CASE Crash
    BY <1>5 DEF Crash, rows
  <1> QED
    BY <1>1, <1>2, <1>3, <1>4, <1>5 DEF StepKinds, CommentStep, MoveStep

\* The run of a live task has not failed: only the task itself fails it, and then ends.
LEMMA LiveRunKept ==
  ASSUME TypeOK, ReservationExact, LiveRunNotFailed, StepKinds
  PROVE  LiveRunNotFailed'
  <1> USE DEF LiveRunNotFailed
  <1>1. \A k \in tasks : k.todo \in Todos /\ (k.run # 0 => k.run \in RunIds)
    BY Bounds DEF TypeOK, Task, RunIds
  <1>2. CASE QuietStep
    BY <1>1, <1>2 DEF QuietStep
  <1>3. ASSUME NEW t \in Todos, StartStep(t)
        PROVE  LiveRunNotFailed'
    <2>1. \A k \in tasks : k.todo # t
      BY <1>3 DEF StartStep, ReservationExact
    <2> QED
      BY <1>1, <1>3, <2>1 DEF StartStep, OtherRunsKept
  <1>4. ASSUME NEW t \in Todos, CommentStep(t)
        PROVE  LiveRunNotFailed'
    BY <1>1, <1>4 DEF CommentStep, RunStatusesKept
  <1>5. ASSUME NEW k \in tasks, NEW l \in Task, MoveStep(k, l)
        PROVE  LiveRunNotFailed'
    BY <1>1, <1>5 DEF MoveStep, Move, RunStatusesKept
  <1>6. ASSUME NEW k \in tasks, CommitStep(k) \/ FailStep(k)
        PROVE  LiveRunNotFailed'
    <2>1. OtherRunsKept(k.todo, k.run) /\ tasks' = tasks \ {k}
      BY <1>6 DEF CommitStep, FailStep, End
    <2>2. \A j \in tasks' : j.todo # k.todo
      BY <2>1 DEF ReservationExact
    <2> QED
      BY <1>1, <2>1, <2>2 DEF OtherRunsKept
  <1>7. CASE Crash
    BY <1>7 DEF Crash
  <1> QED
    BY <1>2, <1>3, <1>4, <1>5, <1>6, <1>7 DEF StepKinds

\* Every step keeps the invariant.
LEMMA StepIInv == IInv /\ [Next]_vars => IInv'
  BY StepTypeOK, StepIsOfAKind, ReservationKept, OwnershipKept, OwnerKept, StageKept,
     DisarmedKept, UnusedKept, LiveRunKept
  DEF IInv

\* The inductive invariant holds of every behaviour.
THEOREM Inductive == Spec => []IInv
  BY InitIInv, StepIInv, PTL DEF Spec

-----------------------------------------------------------------------------
(* The theorems.                                                            *)

\* _dispatches_in_progress is exact: a card is reserved while it has a live task, and
\* has one task at most.
THEOREM ReservationIsExact == Spec => []ReservationExact
  <1>1. IInv => ReservationExact
    BY DEF IInv
  <1> QED
    BY <1>1, Inductive, PTL

\* A live task drives the newest run of its card.
THEOREM NewestRunIsDriven == Spec => []TaskOwnsLatestRun
  <1>1. IInv => TaskOwnsLatestRun
    BY DEF IInv
  <1> QED
    BY <1>1, Inductive, PTL

\* No run is dropped half-way but by a restart.
THEOREM NoRunIsDropped == Spec => []StartingRunHasOwner
  <1>1. IInv => StartingRunHasOwner
    BY DEF IInv
  <1> QED
    BY <1>1, Inductive, PTL

\* No card shows a dispatch in flight that nobody drives but after a restart.
THEOREM StageIsLive == Spec => []InFlightStageIsLive
  <1>1. IInv => InFlightStageIsLive
    BY DEF IInv
  <1> QED
    BY <1>1, Inductive, PTL

\* A cron card is without a next trigger only while its newest run is open.
THEOREM CronIsArmed == Spec => []DisarmedCronHasOpenRun
  <1>1. IInv => DisarmedCronHasOpenRun
    BY DEF IInv
  <1> QED
    BY <1>1, Inductive, PTL

\* No step revives a failed run: quiet steps change open runs, a commit that of a live task.
LEMMA StepKeepsFailedRuns ==
  IInv /\ [Next]_vars =>
    \A t \in Todos, n \in RunIds :
      runs[t][n].status = "FAILED" => runs'[t][n].status = "FAILED"
  <1> SUFFICES ASSUME IInv, StepKinds, NEW t \in Todos, NEW n \in RunIds,
                      runs[t][n].status = "FAILED"
               PROVE  runs'[t][n].status = "FAILED"
    BY StepIsOfAKind DEF IInv
  <1>1. CASE QuietStep
    BY <1>1 DEF QuietStep, OpenRun
  <1>2. ASSUME NEW u \in Todos, StartStep(u)
        PROVE  runs'[t][n].status = "FAILED"
    <2>1. <<t, n>> # <<u, count[u] + 1>>
      BY Bounds DEF IInv, TypeOK, RunsBeyondCountUnused, RunIds
    <2> QED
      BY <1>2, <2>1 DEF StartStep, OtherRunsKept
  <1>3. ASSUME RunStatusesKept
        PROVE  runs'[t][n].status = "FAILED"
    BY <1>3 DEF RunStatusesKept
  <1>4. ASSUME NEW k \in tasks, CommitStep(k) \/ FailStep(k)
        PROVE  runs'[t][n].status = "FAILED"
    <2>1. <<t, n>> # <<k.todo, k.run>>
      BY DEF IInv, LiveRunNotFailed, RunIds
    <2> QED
      BY <1>4, <2>1 DEF CommitStep, FailStep, OtherRunsKept
  <1>5. CASE Crash
    BY <1>5 DEF Crash, rows
  <1> QED
    BY <1>1, <1>2, <1>3, <1>4, <1>5 DEF StepKinds, CommentStep, MoveStep

\* A failed run is never revived.
THEOREM FailedRunsStay == Spec => FailedRunStays
  BY Inductive, StepKeepsFailedRuns, PTL DEF Spec, FailedRunStays


-----------------------------------------------------------------------------
(* The refinement of RunLedger.                                            *)

Statuses == [t \in Todos |-> [n \in RunIds |-> runs[t][n].status]]
Held     == {<<k.todo, k.run>> : k \in tasks}

\* The status of one run is written.
LEMMA StatusWritten ==
  ASSUME NEW t \in Todos, NEW m \in RunIds, OtherRunsKept(t, m)
  PROVE  Statuses' = [Statuses EXCEPT ![t][m] = runs'[t][m].status]
  <1> DEFINE f == [Statuses EXCEPT ![t][m] = runs'[t][m].status]
  <1>1. \A u \in Todos : Statuses'[u] = f[u]
    <2> TAKE u \in Todos
    <2>1. CASE u = t
      <3>1. f[u] = [n \in RunIds |-> IF n = m THEN runs'[t][m].status ELSE runs[t][n].status]
        BY <2>1 DEF Statuses
      <3>2. Statuses'[u] = [n \in RunIds |-> runs'[u][n].status]
        BY DEF Statuses
      <3> QED
        BY <2>1, <3>1, <3>2 DEF OtherRunsKept
    <2>2. CASE u # t
      <3>1. f[u] = [n \in RunIds |-> runs[u][n].status]
        BY <2>2 DEF Statuses
      <3>2. Statuses'[u] = [n \in RunIds |-> runs'[u][n].status]
        BY DEF Statuses
      <3> QED
        BY <2>2, <3>1, <3>2 DEF OtherRunsKept
    <2> QED
      BY <2>1, <2>2
  <1>2. DOMAIN f = Todos /\ f = [u \in Todos |-> f[u]]
    BY DEF Statuses
  <1>3. Statuses' = [u \in Todos |-> Statuses'[u]]
    BY DEF Statuses
  <1> HIDE DEF f
  <1> QED
    BY <1>1, <1>2, <1>3 DEF f

\* No status is written.
LEMMA StatusesKept == RunStatusesKept => Statuses' = Statuses
  BY DEF RunStatusesKept, Statuses

\* A card that is not reserved is held by no dispatch.
LEMMA NotHeld ==
  ASSUME ReservationExact, NEW t \in Todos, t \notin reserved
  PROVE  Ledger!Free(t)
  BY DEF ReservationExact, Ledger!Free

\* A task that ends no longer holds its card, and every other task does.
LEMMA HeldWithout ==
  ASSUME ReservationExact, NEW k \in tasks, End(k)
  PROVE  Held' = Held \ {<<k.todo, k.run>>}
  <1>1. \A l \in tasks : l.todo = k.todo => l = k
    BY DEF ReservationExact
  <1>2. \A l \in tasks : l # k => <<l.todo, l.run>> # <<k.todo, k.run>>
    BY <1>1
  <1> QED
    BY <1>2 DEF End, Held

\* A task that is created holds its card.
LEMMA HeldWith ==
  ASSUME NEW k, tasks' = tasks \cup {k}
  PROVE  Held' = Held \cup {<<k.todo, k.run>>}
  <1>1. Held' = {<<l.todo, l.run>> : l \in tasks \cup {k}}
    BY DEF Held
  <1> QED
    BY <1>1 DEF Held

\* What requests and agents do is seen.
LEMMA QuietLedger ==
  ASSUME TypeOK, TypeOK', QuietStep
  PROVE  Ledger!Observe
  <1>1. \A t \in Todos, n \in RunIds : runs[t][n] \in Run /\ runs'[t][n] \in Run
    BY DEF TypeOK
  <1>2. Statuses' \in [Todos -> [RunIds -> RunStatus]]
    BY <1>1 DEF Statuses, Run
  <1>3. \A t \in Todos, n \in RunIds :
          Statuses[t][n] = runs[t][n].status /\ Statuses'[t][n] = runs'[t][n].status
    BY DEF Statuses
  <1>4. \A t \in Todos, n \in RunIds : Statuses'[t][n] # Statuses[t][n] =>
          /\ Statuses[t][n] \in {"STARTING", "DISPATCHED"}
          /\ Statuses'[t][n] \in {"DISPATCHED", "COMPLETED"}
    BY <1>3 DEF QuietStep, OpenRun
  <1>5. armed' = armed \cup {t \in Cron : \E n \in RunIds :
                    Statuses'[t][n] = "COMPLETED" /\ Statuses[t][n] # "COMPLETED"}
    <2>1. armed' \subseteq Cron /\ Cron \subseteq Todos
      BY Bounds DEF TypeOK
    <2>2. \A t \in armed' \ armed : \E n \in RunIds :
            Statuses'[t][n] = "COMPLETED" /\ Statuses[t][n] # "COMPLETED"
      BY <1>3, <2>1 DEF QuietStep, Completing
    <2>3. ASSUME NEW t \in Cron, NEW n \in RunIds,
                 Statuses'[t][n] = "COMPLETED", Statuses[t][n] # "COMPLETED"
          PROVE  t \in armed'
      <3>1. t \in Todos
        BY <2>1
      <3> QED
        BY <1>3, <2>3, <3>1 DEF QuietStep
    <2> QED
      BY <2>1, <2>2, <2>3 DEF QuietStep
  <1>6. UNCHANGED <<count, Held>>
    BY DEF QuietStep, Held
  <1> QED
    BY <1>2, <1>4, <1>5, <1>6
    DEF Ledger!Observe, Ledger!Numbers, Statuses, Held, RunIds, RunStatus

\* A start starts the next run of the card.
LEMMA StartLedger ==
  ASSUME IInv, NEW t \in Todos, StartStep(t)
  PROVE  Ledger!Start(t)
  <1>1. Ledger!Free(t)
    BY NotHeld DEF IInv, StartStep
  <1>2. Statuses' = [Statuses EXCEPT ![t][count[t] + 1] = "STARTING"]
    BY StatusWritten DEF StartStep
  <1>3. Held' = Held \cup {<<t, count[t] + 1>>}
    <2> DEFINE k == [todo |-> t, run |-> count[t] + 1, window |-> 0, pc |-> "begin"]
    <2>1. tasks' = tasks \cup {k} /\ k.todo = t /\ k.run = count[t] + 1
      BY DEF StartStep
    <2> HIDE DEF k
    <2> QED
      BY <2>1, HeldWith
  <1>4. count[t] + 1 \in 1..MaxRuns /\ count' = [count EXCEPT ![t] = @ + 1] /\ armed' = armed \ {t}
    BY DEF StartStep, RunIds
  <1> QED
    BY <1>1, <1>2, <1>3, <1>4 DEF Ledger!Start, Ledger!Numbers, Statuses, Held, RunIds

\* A comment holds the card without a run.
LEMMA CommentLedger ==
  ASSUME IInv, NEW t \in Todos, CommentStep(t)
  PROVE  Ledger!Comment(t)
  <1>1. Ledger!Free(t)
    BY NotHeld DEF IInv, CommentStep
  <1>2. Held' = Held \cup {<<t, 0>>}
    <2>1. PICK w : tasks' = tasks \cup {[todo |-> t, run |-> 0, window |-> w, pc |-> "begin"]}
      BY DEF CommentStep
    <2> DEFINE k == [todo |-> t, run |-> 0, window |-> w, pc |-> "begin"]
    <2>2. tasks' = tasks \cup {k} /\ k.todo = t /\ k.run = 0
      BY <2>1
    <2> HIDE DEF k
    <2> QED
      BY <2>2, HeldWith
  <1>3. Statuses' = Statuses /\ UNCHANGED <<count, armed>>
    BY StatusesKept DEF CommentStep
  <1> QED
    BY <1>1, <1>2, <1>3 DEF Ledger!Comment, Statuses, Held, RunIds

\* A task that ends says how its run ended.
LEMMA EndLedger ==
  ASSUME IInv, NEW k \in tasks, NEW s, End(k), OtherRunsKept(k.todo, k.run), UNCHANGED count,
         k.run # 0 => runs'[k.todo][k.run].status = s
  PROVE  k.todo \in Todos /\ k.run \in 0..MaxRuns /\ Ledger!End(k.todo, k.run, s)
  <1>1. k.todo \in Todos /\ k.run \in 0..MaxRuns
    BY DEF IInv, TypeOK, Task
  <1>2. <<k.todo, k.run>> \in Held /\ Held' = Held \ {<<k.todo, k.run>>}
    BY HeldWithout DEF IInv, Held
  <1>3. CASE k.run = 0
    <2>1. RunStatusesKept
      BY <1>3 DEF OtherRunsKept, RunStatusesKept, RunIds
    <2>2. Statuses' = Statuses
      BY <2>1, StatusesKept
    <2> QED
      BY <1>1, <1>2, <1>3, <2>2 DEF Ledger!End, Statuses, Held, RunIds
  <1>4. CASE k.run # 0
    <2>1. k.run \in RunIds /\ k.run = count[k.todo]
      BY <1>1, <1>4, Bounds DEF RunIds, IInv, TaskOwnsLatestRun
    <2>2. Statuses' = [Statuses EXCEPT ![k.todo][k.run] = s]
      BY <1>1, <1>4, <2>1, StatusWritten
    <2>3. Statuses[k.todo][k.run] # "FAILED"
      BY <1>1, <1>4, <2>1 DEF IInv, LiveRunNotFailed, Statuses
    <2> QED
      BY <1>1, <1>2, <1>4, <2>1, <2>2, <2>3 DEF Ledger!End, Statuses, Held, RunIds
  <1> QED
    BY <1>3, <1>4

\* Every step of the dispatch is one of the ledger, or changes nothing there.
LEMMA StepLedger == IInv /\ [Next]_vars => [Ledger!Next]_(Ledger!vars)
  <1> SUFFICES ASSUME IInv, [Next]_vars
               PROVE  Ledger!Next \/ UNCHANGED Ledger!vars
    OBVIOUS
  <1>1. StepKinds /\ TypeOK /\ TypeOK'
    BY StepIsOfAKind, StepTypeOK DEF IInv
  <1>2. CASE QuietStep
    BY <1>1, <1>2, QuietLedger DEF Ledger!Next
  <1>3. ASSUME NEW t \in Todos, StartStep(t) \/ CommentStep(t)
        PROVE  Ledger!Next
    BY <1>3, StartLedger, CommentLedger DEF Ledger!Next
  <1>4. ASSUME NEW k \in tasks, NEW l \in Task, MoveStep(k, l)
        PROVE  UNCHANGED Ledger!vars
    <2>1. Held' = Held
      BY <1>4 DEF MoveStep, Move, Held
    <2>2. Statuses' = Statuses /\ UNCHANGED <<count, armed>>
      BY <1>4, StatusesKept DEF MoveStep
    <2> QED
      BY <2>1, <2>2 DEF Ledger!vars, Statuses, Held
  <1>5. ASSUME NEW k \in tasks, CommitStep(k)
        PROVE  Ledger!Next
    <2>1. k.todo \in Todos /\ k.run \in 0..MaxRuns /\ Ledger!End(k.todo, k.run, "DISPATCHED")
      BY <1>5, EndLedger DEF CommitStep
    <2>2. Ledger!Commit(k.todo, k.run)
      BY <1>5, <2>1 DEF CommitStep, Ledger!Commit
    <2> QED
      BY <2>1, <2>2 DEF Ledger!Next
  <1>6. ASSUME NEW k \in tasks, FailStep(k)
        PROVE  Ledger!Next
    <2>1. k.todo \in Todos /\ k.run \in 0..MaxRuns /\ Ledger!End(k.todo, k.run, "FAILED")
      BY <1>6, EndLedger DEF FailStep
    <2>2. armed' = armed \cup ({k.todo} \cap Cron)
      BY <1>1, <1>6 DEF FailStep, TypeOK
    <2>3. Ledger!Fail(k.todo, k.run)
      BY <2>1, <2>2 DEF Ledger!Fail
    <2> QED
      BY <2>1, <2>3 DEF Ledger!Next
  <1>7. CASE Crash
    <2>1. Held' = {} /\ Statuses' = Statuses /\ UNCHANGED <<count, armed>>
      BY <1>7 DEF Crash, rows, Held, Statuses
    <2>2. Ledger!Restart
      BY <2>1 DEF Ledger!Restart, Held, Statuses
    <2> QED
      BY <2>2 DEF Ledger!Next
  <1> QED
    BY <1>1, <1>2, <1>3, <1>4, <1>5, <1>6, <1>7 DEF StepKinds

\* Whatever tasks, requests, the scheduler, agents and restarts do in whatever order, the
\* runs and the schedules of the cards change only as RunLedger says.
THEOREM DispatchImplementsLedger == Spec => ImplementsLedger
  <1>1. Init => Ledger!Init
    BY DEF Init, Ledger!Init, Ledger!Numbers, RunIds
  <1> QED
    BY <1>1, Inductive, StepLedger, PTL DEF Spec, ImplementsLedger, Ledger!Spec
=============================================================================
