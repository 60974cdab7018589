--------------------- MODULE CompletionVerificationProofs ---------------------
(***************************************************************************)
(* The safety of the verification for every set of requests and task       *)
(* slots, every maximum of attempts and every value of the bounds.         *)
(***************************************************************************)
EXTENDS CompletionVerification, TLAPS

\* Every bound is a number.
LEMMA BoundTypes ==
  /\ DOMAIN Bound = {"dispatches", "events", "work", "mishaps"}
  /\ \A b \in DOMAIN Bound : Bound[b] \in Nat
  BY VerificationAssumption DEF VerificationAssumption, Bound

\* The constants that times and attempts range over are numbers.
LEMMA TimeBounds ==
  /\ MaxEvents \in Nat /\ MaxAttempts \in Nat \ {0}
  /\ Bound["events"] = MaxEvents
  BY VerificationAssumption DEF VerificationAssumption, Bound

\* "Never" is a time.
LEMMA ZeroIsATime == 0 \in Times
  BY TimeBounds DEF Times

\* A free slot is a task, and a transaction that is not open is one.
LEMMA EmptyRecords ==
  /\ Free \in Task /\ Free.pc = "free" /\ Free.asked = FALSE
  /\ Closed \in Transaction
  BY TimeBounds DEF Free, Task, Pc, Active, Times, Closed, Transaction, Processes

\* The initial states have the types.
LEMMA InitTypeOK == Init => TypeOK
  <1> SUFFICES ASSUME Init PROVE TypeOK
    OBVIOUS
  <1> USE DEF Init
  <1>1. /\ card \in Card /\ window \in Window
        /\ dispatching \in BOOLEAN /\ reserved \in SUBSET Processes
        /\ waiter \in Processes /\ inbox \in [Processes -> SUBSET Times]
    BY ZeroIsATime DEF Card, Window, Processes
  <1>2. task \in [Slots -> Task] /\ open \in [Callers -> Transaction]
    BY EmptyRecords
  <1>3. /\ spent \in [DOMAIN Bound -> Nat]
        /\ \A b \in DOMAIN Bound : spent[b] <= Bound[b]
    BY BoundTypes
  <1> QED
    BY <1>1, <1>2, <1>3 DEF TypeOK

\* The clock stays within its range, and a completion event still has a time.
LEMMA ClockType ==
  ASSUME TypeOK
  PROVE  Now \in Times /\ (Spend("events") => Now + 1 \in Times)
  <1>1. spent["events"] \in 0..MaxEvents
    BY BoundTypes, TimeBounds DEF TypeOK
  <1>2. Spend("events") => spent["events"] < MaxEvents
    BY TimeBounds DEF Spend
  <1> QED
    BY <1>1, <1>2, TimeBounds DEF Now, Times

\* A bounded kind of step keeps within its bound.
LEMMA SpendType ==
  ASSUME TypeOK, NEW b \in DOMAIN Bound, Spend(b)
  PROVE  /\ spent' \in [DOMAIN Bound -> Nat]
         /\ \A c \in DOMAIN Bound : spent'[c] <= Bound'[c]
  BY BoundTypes DEF TypeOK, Spend, Bound

\* A task is created from a free slot or moved along, always with fields of their types.
LEMMA GotoType ==
  ASSUME TypeOK, NEW i \in Slots, NEW pc \in Pc, Goto(i, pc)
  PROVE  task' \in [Slots -> Task]
  BY DEF TypeOK, Task, Goto

\* A task that reads the card, and goes to another await, is still a task.
LEMMA ReadType ==
  ASSUME TypeOK, NEW i \in Slots, NEW pc \in Pc, NEW t \in Times, Read(i, pc, t)
  PROVE  task' \in [Slots -> Task]
  <1>1. card.stage \in {"none", "STARTING", "verifying", "FAILED"}
    BY DEF TypeOK, Card
  <1>2. card.wait \in {"none", "background", "final"}
    BY DEF TypeOK, Card
  <1>3. task[i] \in Task
    BY DEF TypeOK
  <1>4. \A s \in {"none", "STARTING", "verifying", "FAILED"},
          w \in {"none", "background", "final"}, a \in BOOLEAN :
          [task[i] EXCEPT !.pc = pc, !.reviewAt = t, !.asked = a, !.stage = s, !.wait = w]
            \in Task
    BY <1>3 DEF Task
  <1>5. (task[i].pc = "asking") \in BOOLEAN
    OBVIOUS
  <1>6. [task[i] EXCEPT !.pc = pc, !.reviewAt = t, !.asked = task[i].pc = "asking",
                        !.stage = card.stage, !.wait = card.wait] \in Task
    BY <1>1, <1>2, <1>4, <1>5, Zenon
  <1> QED
    BY <1>6 DEF TypeOK, Read

\* A task that ends leaves a free slot.
LEMMA SkipType ==
  ASSUME TypeOK, NEW i \in Slots, task' = [task EXCEPT ![i] = Free]
  PROVE  task' \in [Slots -> Task]
  BY EmptyRecords DEF TypeOK

\* A transaction that is opened, or goes on to its next step, is one.
LEMMA OpenType ==
  ASSUME TypeOK, NEW c \in Callers
  PROVE  /\ \A b \in BOOLEAN :
              /\ [Closed EXCEPT !.pc = "synced", !.stage = b] \in Transaction
              /\ [open[c] EXCEPT !.pc = "synced", !.stage = b] \in Transaction
         /\ \A t, u \in Times, h, b \in BOOLEAN :
              [Closed EXCEPT !.pc = "read", !.event = t, !.hands = h, !.latest = u, !.clears = b]
                \in Transaction
         /\ \A pc \in {"synced", "flushed"} : [open[c] EXCEPT !.pc = pc] \in Transaction
  BY ZeroIsATime DEF TypeOK, Closed, Transaction

\* A sync creates a task in a free slot.
LEMMA ScheduleType ==
  ASSUME TypeOK, NEW i \in Slots, NEW p \in Processes, NEW t \in Times,
         ScheduleVerification(i, p, t)
  PROVE  task' \in [Slots -> Task]
  BY EmptyRecords DEF TypeOK, ScheduleVerification, Free, Task, Pc, Card

\* A recheck sends the task to sleep in its slot.
LEMMA RecheckType ==
  ASSUME TypeOK, NEW i \in Slots, Recheck(i)
  PROVE  task' \in [Slots -> Task] /\ reserved' \in SUBSET Processes
  BY EmptyRecords DEF TypeOK, Recheck, Unreserve, Free, Task, Pc

\* A process that reserves the card, or gives its reservation back, is one of the two.
LEMMA ReservationType ==
  ASSUME TypeOK, NEW i \in Slots
  PROVE  /\ task[i].home \in Processes
         /\ Unreserve(i) => reserved' \in SUBSET Processes
         /\ Skip(i) \/ _reserve_verification(i) => reserved' \in SUBSET Processes
  BY DEF TypeOK, Task, Unreserve, Skip, _reserve_verification

\* The awaits the actions name are those a task can be in.
LEMMA PcTypes ==
  {"free", "start", "retry", "sleeping", "querying", "reviewing", "asking", "completing",
   "blocking", "closing"} \subseteq Pc
  BY DEF Pc, Active

\* Whatever a task, the dispatch or a patch writes to the card has its type.
LEMMA CardWriteType ==
  ASSUME TypeOK
  PROVE  /\ \A st \in {"todo", "dispatched", "awaiting_review", "done", "blocked"} :
              [card EXCEPT !.status = st] \in Card
         /\ \A w \in {"none", "background", "final"}, t \in Times,
               s \in {"none", "STARTING", "verifying", "FAILED"} :
              [card EXCEPT !.stage = s, !.wait = w, !.finalAt = t] \in Card
         /\ \A s \in {"none", "STARTING", "verifying", "FAILED"} :
              [card EXCEPT !.stage = s] \in Card
  BY DEF TypeOK, Card

\* What a verdict writes to the card is a card.
LEMMA SettledType ==
  ASSUME TypeOK, NEW i \in Slots, NEW st \in {"todo", "awaiting_review", "blocked"}
  PROVE  /\ Settled(task[i], st) \in Card
         /\ [Settled(task[i], st) EXCEPT !.dispatchedAt = 0] \in Card
  <1>1. /\ card \in Card /\ card.stage \in {"none", "STARTING", "verifying", "FAILED"}
        /\ card.wait \in {"none", "background", "final"} /\ card.finalAt \in Times
    BY DEF TypeOK, Card
  <1>2. \A s \in {"none", "STARTING", "verifying", "FAILED"},
          w \in {"none", "background", "final"}, t \in Times :
          /\ [card EXCEPT !.status = st, !.stage = s, !.wait = w, !.finalAt = t] \in Card
          /\ [[card EXCEPT !.status = st, !.stage = s, !.wait = w, !.finalAt = t]
                 EXCEPT !.dispatchedAt = 0] \in Card
    BY <1>1, ZeroIsATime, ZenonT(60) DEF Card
  <1> DEFINE s == IF task[i].stage # "none" THEN "none" ELSE card.stage
             w == IF task[i].wait # "none" THEN "none" ELSE card.wait
             t == IF task[i].wait # "none" THEN 0 ELSE card.finalAt
  <1>3. /\ s \in {"none", "STARTING", "verifying", "FAILED"}
        /\ w \in {"none", "background", "final"} /\ t \in Times
    BY <1>1, ZeroIsATime
  <1>4. Settled(task[i], st) =
          [card EXCEPT !.status = st, !.stage = s, !.wait = w, !.finalAt = t]
    BY DEF Settled
  <1> DEFINE row == [card EXCEPT !.status = st, !.stage = s, !.wait = w, !.finalAt = t]
  <1> HIDE DEF s, w, t
  <1>5. row \in Card /\ [row EXCEPT !.dispatchedAt = 0] \in Card
    BY <1>2, <1>3
  <1>6. Settled(task[i], st) = row
    BY <1>4
  <1> HIDE DEF row
  <1> QED
    BY <1>5, <1>6

\* Every step keeps the types.
LEMMA StepTypeOK == TypeOK /\ [Next]_vars => TypeOK'
  <1> SUFFICES ASSUME TypeOK, [Next]_vars PROVE TypeOK'
    OBVIOUS
  <1> USE PcTypes, ZeroIsATime
  <1>spent. \A b \in DOMAIN Bound : Spend(b) =>
              /\ spent' \in [DOMAIN Bound -> Nat]
              /\ \A c \in DOMAIN Bound : spent'[c] <= Bound'[c]
    BY SpendType
  <1>bounds. /\ {"dispatches", "events", "work", "mishaps"} = DOMAIN Bound
             /\ Bound' = Bound
    BY BoundTypes DEF Bound
  <1>callers. Requests \subseteq Callers /\ Processes \subseteq Callers /\ "server" \in Processes
    BY DEF Callers, Processes
  <1>1. ASSUME NEW r \in Requests, NEW i \in Slots, sync_dispatched_project_todos(r, i)
        PROVE  TypeOK'
    <2>1. window.latest \in Times /\ task' \in [Slots -> Task]
      BY <1>1, <1>callers, ScheduleType DEF sync_dispatched_project_todos, TypeOK, Window
    <2>2. open' \in [Callers -> Transaction]
      BY <1>1, <1>callers, OpenType DEF sync_dispatched_project_todos, TypeOK, WritesStage
    <2> QED
      BY <1>1, <1>bounds, <2>1, <2>2 DEF sync_dispatched_project_todos, TypeOK, terminal
  <1>2. ASSUME AgentCompletes
        PROVE  TypeOK'
    <2>1. inbox' \in [Processes -> SUBSET Times]
      BY <1>2, ClockType DEF AgentCompletes, TypeOK
    <2> QED
      BY <1>2, <1>spent, <1>bounds, <2>1 DEF AgentCompletes, TypeOK
  <1>3. ASSUME NEW p \in Processes, NEW t \in Times, persist_managed_agent_event(p, t)
        PROVE  TypeOK'
    <2>1. PICK h \in BOOLEAN :
            open' = [open EXCEPT ![p] =
              [Closed EXCEPT !.pc = "read", !.event = t, !.hands = h,
                             !.latest = IF t > window.latest THEN t ELSE 0,
                             !.clears = window.deferred # 0]]
      BY <1>3 DEF persist_managed_agent_event
    <2>2. open' \in [Callers -> Transaction]
      BY <1>callers, <2>1, OpenType DEF TypeOK
    <2> QED
      BY <1>3, <1>bounds, <2>2 DEF persist_managed_agent_event, TypeOK, terminal
  <1>4. ASSUME NEW p \in Processes, NEW i \in Slots,
               sync_project_todos_for_completed_window(p, i)
        PROVE  TypeOK'
    <2>1. open[p].event \in Times
      BY <1>callers DEF TypeOK, Transaction
    <2>2. task' \in [Slots -> Task]
      BY <1>4, <2>1, ScheduleType DEF sync_project_todos_for_completed_window
    <2>3. open' \in [Callers -> Transaction]
      BY <1>4, <1>callers, OpenType
      DEF sync_project_todos_for_completed_window, TypeOK, WritesStage
    <2> QED
      BY <1>4, <1>bounds, <2>2, <2>3 DEF sync_project_todos_for_completed_window, TypeOK, terminal
  <1>5. ASSUME NEW c \in Callers, FlushSync(c) \/ (c \in Processes /\ SyncsNothing(c))
        PROVE  TypeOK'
    <2>1. open' \in [Callers -> Transaction]
      BY <1>5, OpenType DEF FlushSync, SyncsNothing, TypeOK
    <2> QED
      BY <1>5, <1>bounds, <2>1 DEF FlushSync, SyncsNothing, TypeOK, terminal
  <1>6. ASSUME NEW c \in Callers, CommitSync(c)
        PROVE  TypeOK'
    <2>1. card' \in Card
      BY <1>6, CardWriteType DEF CommitSync, TypeOK
    <2>2. window' \in Window
      BY <1>6 DEF CommitSync, TypeOK, Window, Transaction
    <2>3. open' \in [Callers -> Transaction] /\ inbox' \in [Processes -> SUBSET Times]
      BY <1>6, EmptyRecords DEF CommitSync, TypeOK
    <2> QED
      BY <1>6, <1>bounds, <2>1, <2>2, <2>3 DEF CommitSync, TypeOK
  <1>15. ASSUME NEW p \in Processes, NEW t \in Times, DeferCompletion(p, t)
         PROVE  TypeOK'
    <2>1. window' \in Window /\ inbox' \in [Processes -> SUBSET Times]
      BY <1>15 DEF DeferCompletion, TypeOK, Window, Later
    <2> QED
      BY <1>15, <1>bounds, <2>1 DEF DeferCompletion, TypeOK
  <1>16. ASSUME NEW w \in Work, WorkStarts(w)
         PROVE  TypeOK'
    <2>1. window' \in Window
      BY <1>16 DEF WorkStarts, TypeOK, Window
    <2> QED
      BY <1>16, <1>spent, <1>bounds, <2>1 DEF WorkStarts, TypeOK
  <1>7. ASSUME WorkEnds
        PROVE  TypeOK'
    <2>1. Later(window.latest, window.deferred) \in Times
      BY DEF TypeOK, Window, Later
    <2>2. window' \in Window
      BY <1>7, <2>1
      DEF WorkEnds, ProcessEnds, promote_deferred_completion, SubagentNotifies, TypeOK, Window
    <2> QED
      BY <1>7, <1>bounds, <2>2
      DEF WorkEnds, ProcessEnds, promote_deferred_completion, SubagentNotifies, TypeOK
  <1>8. ASSUME BeginDispatch
        PROVE  TypeOK'
    <2>1. card' \in Card
      BY <1>8 DEF BeginDispatch, TypeOK, Card
    <2> QED
      BY <1>8, <1>spent, <1>bounds, <2>1 DEF BeginDispatch, TypeOK, terminal
  <1>9. ASSUME DispatchStep
        PROVE  TypeOK'
    <2>1. card' \in Card
      <3>1. CASE _update_dispatch_stage
        BY <3>1, CardWriteType DEF _update_dispatch_stage
      <3>2. CASE CommitDispatch
        BY <3>2, ClockType DEF CommitDispatch, Card
      <3>3. CASE FailDispatch
        BY <3>3, CardWriteType DEF FailDispatch
      <3> QED
        BY <1>9, <3>1, <3>2, <3>3 DEF DispatchStep
    <2> QED
      BY <1>9, <1>bounds, <2>1
      DEF DispatchStep, _update_dispatch_stage, CommitDispatch, FailDispatch, TypeOK, terminal
  <1>10. ASSUME NEW st \in {"todo", "dispatched", "awaiting_review", "done", "blocked"},
                PatchStatus(st)
         PROVE  TypeOK'
    <2>1. card' \in Card
      <3>1. CASE st = "todo"
        BY <1>10, <3>1 DEF PatchStatus, Card
      <3>2. CASE st # "todo"
        BY <1>10, <3>2, CardWriteType DEF PatchStatus
      <3> QED
        BY <3>1, <3>2
    <2> QED
      BY <1>10, <1>spent, <1>bounds, <2>1 DEF PatchStatus, TypeOK, terminal
  <1>11. ASSUME NEW i \in Slots, TaskStep(i)
         PROVE  TypeOK'
    <2>1. ASSUME _delayed_verify_todo_completion(i) \/ NoBackgroundWork(i)
                   \/ VerdictComplete(i) \/ VerdictBlocks(i) \/ _release_verification(i)
          PROVE  TypeOK'
      <3>1. task[i].reviewAt \in Times
        BY DEF TypeOK, Task
      <3>2. task' \in [Slots -> Task]
        BY <2>1, <3>1, GotoType, ReadType, SkipType
        DEF _delayed_verify_todo_completion, NoBackgroundWork, VerdictComplete, VerdictBlocks,
            _release_verification, Skip, _reserve_verification
      <3>3. reserved' \in SUBSET Processes
        BY <2>1, ReservationType DEF _delayed_verify_todo_completion, NoBackgroundWork,
                    VerdictComplete, VerdictBlocks, _release_verification, TypeOK
      <3> QED
        BY <2>1, <1>bounds, <3>2, <3>3
        DEF _delayed_verify_todo_completion, NoBackgroundWork, VerdictComplete, VerdictBlocks,
            _release_verification, TypeOK, terminal
    <2>2. ASSUME _defer_completion_for_active_background_work(i)
          PROVE  TypeOK'
      <3>1. task' \in [Slots -> Task] /\ reserved' \in SUBSET Processes /\ waiter' \in Processes
        BY <2>2, RecheckType, GotoType, ReservationType
        DEF _defer_completion_for_active_background_work, TypeOK
      <3>2. card' \in Card
        BY <2>2, CardWriteType DEF _defer_completion_for_active_background_work, TypeOK
      <3> QED
        BY <2>2, <1>bounds, <3>1, <3>2 DEF _defer_completion_for_active_background_work, TypeOK, terminal
    <2>3. ASSUME Review(i)
          PROVE  TypeOK'
      <3>1. task[i].at \in Times /\ ReviewTime(i) \in Times
        BY DEF ReviewTime, TypeOK, Task, Window
      <3>2. task' \in [Slots -> Task] /\ reserved' \in SUBSET Processes /\ waiter' \in Processes
        BY <2>3, <3>1, RecheckType, GotoType, ReadType, ReservationType DEF Review, TypeOK
      <3>3. card' \in Card
        BY <2>3, <3>1, CardWriteType DEF Review, TypeOK
      <3> QED
        BY <2>3, <1>bounds, <3>2, <3>3 DEF Review, TypeOK, terminal
    <2>4. ASSUME NEW j \in Slots, VerdictRetries(i, j)
          PROVE  TypeOK'
      <3>1. /\ task[i].reviewAt \in Times /\ task[i].at \in Times
            /\ task[i].attempt + 1 \in 1..MaxAttempts
        BY <2>4, TimeBounds DEF VerdictRetries, TypeOK, Task
      <3>2. [Free EXCEPT !.home = task[i].home, !.pc = "retry", !.at = task[i].at,
                         !.attempt = task[i].attempt + 1] \in Task
        BY <3>1, ReservationType DEF Free, Task
      <3>3. [task[i] EXCEPT !.pc = "closing"] \in Task
        BY DEF TypeOK, Task
      <3>4. task' \in [Slots -> Task]
        BY <2>4, <3>2, <3>3 DEF VerdictRetries, TypeOK
      <3>5. card' \in Card
        BY <2>4, <3>1, CardWriteType DEF VerdictRetries
      <3> QED
        BY <2>4, <1>bounds, <3>4, <3>5, ReservationType DEF VerdictRetries, TypeOK, terminal
    <2>5. ASSUME complete_project_todo_implementation(i) \/ BlockCard(i)
          PROVE  TypeOK'
      <3>1. task' \in [Slots -> Task]
        BY <2>5, GotoType DEF complete_project_todo_implementation, BlockCard
      <3>2. card' \in Card
        BY <2>5, SettledType DEF complete_project_todo_implementation, BlockCard
      <3> QED
        BY <2>5, <1>bounds, <3>1, <3>2
        DEF complete_project_todo_implementation, BlockCard, TypeOK, terminal
    <2> QED
      BY <1>11, <2>1, <2>2, <2>3, <2>4, <2>5 DEF TaskStep
  <1>12. ASSUME NEW i \in Slots, VerificationFails(i)
         PROVE  TypeOK'
    <2>1. task' \in [Slots -> Task] /\ reserved' \in SUBSET Processes
      BY <1>12, EmptyRecords, ReservationType DEF VerificationFails, TypeOK
    <2> QED
      BY <1>12, <1>spent, <1>bounds, <2>1 DEF VerificationFails, TypeOK, terminal
  <1>13. ASSUME NEW p \in Processes, Crash(p)
         PROVE  TypeOK'
    <2>1. task' \in [Slots -> Task] /\ open' \in [Callers -> Transaction]
      BY <1>13, EmptyRecords DEF Crash, TypeOK
    <2>2. 1..Now \subseteq Times
      BY ClockType, TimeBounds DEF Times
    <2>3. inbox' \in [Processes -> SUBSET Times] /\ reserved' \in SUBSET Processes
          /\ dispatching' \in BOOLEAN
      BY <1>13, <2>2 DEF Crash, TypeOK
    <2> QED
      BY <1>13, <1>spent, <1>bounds, <2>1, <2>3 DEF Crash, TypeOK
  <1>14. CASE UNCHANGED vars
    BY <1>14, <1>bounds DEF vars, terminal, TypeOK
  <1> QED
    BY <1>1, <1>2, <1>3, <1>4, <1>5, <1>6, <1>7, <1>8, <1>9, <1>10, <1>11, <1>12, <1>13, <1>14,
       <1>15, <1>16, <1>callers
    DEF Next

\* Every variable stays in its type.
THEOREM VerificationTypeCorrect == Spec => []TypeOK
  BY InitTypeOK, StepTypeOK, PTL DEF Spec

-----------------------------------------------------------------------------
(* The inductive invariant.                                                 *)

\* A task that decided to complete the card without a verdict read that the card
\* waits for nothing, and still no task of its process made it wait: only the task that
\* holds the reservation of the process does.
UnaskedSawNoWait ==
  \A i \in Slots :
    task[i].pc = "completing" /\ ~task[i].asked
    => card.wait = "none" \/ waiter # task[i].home

IInv == TypeOK /\ OneVerification /\ UnaskedSawNoWait

\* Nobody makes the card wait in the step, except for the process p.
NoWaitBut(p) ==
  \/ card'.wait = "none"
  \/ card'.wait = card.wait /\ waiter' = waiter
  \/ waiter' = p

\* The tasks of S that are past the reservation, before or after the step, stand still.
StandStill(S) ==
  \A i \in S : task[i].pc \in Active \/ task'[i].pc \in Active => task'[i] = task[i]

\* The steps of the rest of the system: no task gets past the reservation or leaves.
Outside == UNCHANGED reserved /\ StandStill(Slots) /\ NoWaitBut("nobody")

\* Steps outside of the verification tasks keep the invariant.
LEMMA OutsideKeepsIInv ==
  ASSUME IInv, TypeOK', Outside
  PROVE  IInv'
  <1>1. OneVerification'
    BY DEF IInv, Outside, StandStill, OneVerification
  <1>2. ASSUME NEW i \in Slots, task'[i].pc = "completing", ~task'[i].asked
        PROVE  card'.wait = "none" \/ waiter' # task'[i].home
    <2>1. task'[i] = task[i]
      BY <1>2 DEF Outside, StandStill, Active
    <2>2. card.wait = "none" \/ waiter # task[i].home
      BY <1>2, <2>1 DEF IInv, UnaskedSawNoWait
    <2>3. task[i].home # "nobody"
      BY ReservationType DEF IInv, Processes
    <2> QED
      BY <2>1, <2>2, <2>3 DEF Outside, NoWaitBut
  <1> QED
    BY <1>1, <1>2 DEF IInv, UnaskedSawNoWait

\* All steps but those of the tasks and a restart are outside of them.
LEMMA OtherStepsAreOutside ==
  ASSUME IInv, [Next]_vars,
         ~ \E i \in Slots : TaskStep(i) \/ VerificationFails(i), ~ \E p \in Processes : Crash(p)
  PROVE  Outside
  <1> USE DEF IInv, TypeOK
  <1>1. ASSUME NEW i \in Slots, NEW p, NEW t, ScheduleVerification(i, p, t),
               UNCHANGED <<card, reserved, waiter>>
        PROVE  Outside
    BY <1>1 DEF Outside, StandStill, NoWaitBut, ScheduleVerification, IsNextSlot, FreeSlots, Free,
                Active
  <1>2. ASSUME UNCHANGED <<task, reserved, waiter>>,
               card'.wait = "none" \/ card'.wait = card.wait
        PROVE  Outside
    BY <1>2 DEF Outside, StandStill, NoWaitBut
  <1>3. ASSUME NEW r \in Requests, NEW i \in Slots, sync_dispatched_project_todos(r, i)
        PROVE  Outside
    BY <1>3, <1>1 DEF sync_dispatched_project_todos
  <1>4. ASSUME NEW p \in Processes, NEW i \in Slots,
               sync_project_todos_for_completed_window(p, i)
        PROVE  Outside
    BY <1>4, <1>1 DEF sync_project_todos_for_completed_window
  <1>5. ASSUME NEW c \in Callers, FlushSync(c) \/ CommitSync(c)
        PROVE  Outside
    BY <1>5, <1>2 DEF FlushSync, CommitSync, Card
  <1>6. ASSUME AgentCompletes \/ (\E w \in Work : WorkStarts(w)) \/ WorkEnds
        PROVE  Outside
    BY <1>6, <1>2 DEF AgentCompletes, WorkStarts, WorkEnds, ProcessEnds,
                      promote_deferred_completion, SubagentNotifies
  <1>7. ASSUME NEW p \in Processes, NEW t \in Times,
               persist_managed_agent_event(p, t) \/ DeferCompletion(p, t) \/ SyncsNothing(p)
        PROVE  Outside
    BY <1>7, <1>2 DEF persist_managed_agent_event, DeferCompletion, SyncsNothing
  <1>8. ASSUME BeginDispatch \/ DispatchStep
        PROVE  Outside
    <2>1. UNCHANGED <<task, reserved, waiter>>
      BY <1>8 DEF BeginDispatch, DispatchStep, _update_dispatch_stage, CommitDispatch, FailDispatch
    <2>2. card'.wait = "none" \/ card'.wait = card.wait
      <3>1. CASE BeginDispatch \/ FailDispatch
        BY <3>1 DEF BeginDispatch, FailDispatch, Card
      <3>2. CASE CommitDispatch
        BY <3>2 DEF CommitDispatch
      <3>3. CASE _update_dispatch_stage
        BY <3>3 DEF _update_dispatch_stage, Card
      <3> QED
        BY <1>8, <3>1, <3>2, <3>3 DEF DispatchStep
    <2> QED
      BY <2>1, <2>2, <1>2
  <1>9. ASSUME NEW st \in {"todo", "dispatched", "awaiting_review", "done", "blocked"},
               PatchStatus(st)
        PROVE  Outside
    BY <1>9, <1>2 DEF PatchStatus, Card
  <1>10. CASE UNCHANGED vars
    BY <1>10, <1>2 DEF vars
  <1>11. ASSUME NEW p \in Processes,
                \/ \E t \in Times : persist_managed_agent_event(p, t) \/ DeferCompletion(p, t)
                \/ \E i \in Slots : sync_project_todos_for_completed_window(p, i)
                \/ SyncsNothing(p)
         PROVE  Outside
    BY <1>4, <1>7, <1>11, ZeroIsATime
  <1> QED
    BY <1>3, <1>5, <1>6, <1>8, <1>9, <1>10, <1>11 DEF Next

\* Task i goes on to pc, and no other task gets past the reservation or leaves.
Moves(i, pc) ==
  /\ task'[i].pc = pc
  /\ pc \in Active => task'[i].home = task[i].home
  /\ StandStill(Slots \ {i})

\* The ways in which a task goes from one await to another move that task alone.
LEMMA WaysToMove ==
  ASSUME TypeOK, NEW i \in Slots
  PROVE  /\ \A pc : Goto(i, pc) => Moves(i, pc)
         /\ \A pc, t : Read(i, pc, t) => Moves(i, pc)
         /\ Recheck(i) => Moves(i, "sleeping")
         /\ task' = [task EXCEPT ![i] = Free] => Moves(i, "free")
  <1> USE DEF TypeOK, Task, Moves, StandStill
  <1>1. ASSUME NEW pc, Goto(i, pc) PROVE Moves(i, pc)
    BY <1>1 DEF Goto
  <1>2. ASSUME NEW pc, NEW t, Read(i, pc, t) PROVE Moves(i, pc)
    BY <1>2 DEF Read
  <1>3. ASSUME Recheck(i) PROVE Moves(i, "sleeping")
    BY <1>3 DEF Recheck, Free, Active
  <1>4. ASSUME task' = [task EXCEPT ![i] = Free] PROVE Moves(i, "free")
    BY <1>4 DEF Free, Active
  <1> QED
    BY <1>1, <1>2, <1>3, <1>4

\* The reservation of the task's process is held on as long as the task is active.
Keeps(i, pc) == reserved' = IF pc \in Active THEN reserved ELSE reserved \ {task[i].home}

\* A task that is past the reservation and goes on leaves the processes' reservations
\* what they should be, and is the only one of its process there.
LEMMA ActiveTaskMoves ==
  ASSUME IInv, NEW i \in Slots, task[i].pc \in Active,
         NEW pc, Moves(i, pc), Keeps(i, pc)
  PROVE  /\ OneVerification'
         /\ \A j \in Slots \ {i} : task[j].home = task[i].home => task'[j].pc \notin Active
  <1>1. \A j \in Slots \ {i} : task[j].home = task[i].home => task[j].pc \notin Active
    BY DEF IInv, OneVerification
  <1>2. \A j \in Slots \ {i} : task[j].home = task[i].home => task'[j].pc \notin Active
    BY <1>1 DEF Moves, StandStill
  <1>3. \A j \in Slots \ {i} :
          /\ task'[j].pc \in Active <=> task[j].pc \in Active
          /\ task'[j].pc \in Active => task'[j] = task[j] /\ task[j].home # task[i].home
    BY <1>2 DEF Moves, StandStill
  <1>4. /\ task[i].home \in reserved
        /\ task'[i].pc \in Active <=> pc \in Active
        /\ pc \in Active => task'[i].home = task[i].home
    BY ReservationType DEF IInv, OneVerification, Moves
  <1>5. ASSUME NEW p \in Processes
        PROVE  p \in reserved' <=> \E j \in Slots : task'[j].home = p /\ task'[j].pc \in Active
    <2>1. p \in reserved <=> \E j \in Slots : task[j].home = p /\ task[j].pc \in Active
      BY DEF IInv, OneVerification
    <2>2. CASE p = task[i].home
      <3>1. p \in reserved' <=> pc \in Active
        BY <1>4, <2>2 DEF Keeps
      <3>2. (\E j \in Slots : task'[j].home = p /\ task'[j].pc \in Active) <=> pc \in Active
        BY <1>3, <1>4, <2>2
      <3> QED
        BY <3>1, <3>2
    <2>3. CASE p # task[i].home
      <3>1. p \in reserved' <=> p \in reserved
        BY <2>3 DEF Keeps
      <3>2. \A j \in Slots : (task'[j].home = p /\ task'[j].pc \in Active)
                             <=> (task[j].home = p /\ task[j].pc \in Active)
        BY <1>3, <1>4, <2>3
      <3> QED
        BY <2>1, <3>1, <3>2
    <2> QED
      BY <2>2, <2>3
  <1>6. \A j, k \in Slots :
          /\ task'[j].pc \in Active /\ task'[k].pc \in Active
          /\ task'[j].home = task'[k].home
          => j = k
    BY <1>3, <1>4 DEF IInv, OneVerification
  <1> QED
    BY <1>2, <1>5, <1>6 DEF OneVerification

\* What the others decided without a verdict stands: the task that moved, which alone
\* may have made the card wait, is of the other process.
LEMMA OnlyTheMoverDecides ==
  ASSUME IInv, TypeOK', OneVerification', NEW i \in Slots, StandStill(Slots \ {i}),
         \A j \in Slots \ {i} : task[j].home = task[i].home => task'[j].pc \notin Active,
         NoWaitBut(task[i].home),
         task'[i].pc = "completing" /\ ~task'[i].asked => card'.wait = "none"
  PROVE  IInv'
  <1>1. ASSUME NEW j \in Slots \ {i}, task'[j].pc = "completing", ~task'[j].asked
        PROVE  card'.wait = "none" \/ waiter' # task'[j].home
    <2>1. task'[j].pc \in Active
      BY <1>1 DEF Active
    <2>2. task'[j] = task[j] /\ task[j].home # task[i].home
      BY <2>1 DEF StandStill
    <2>3. card.wait = "none" \/ waiter # task[j].home
      BY <1>1, <2>2 DEF IInv, UnaskedSawNoWait
    <2> QED
      BY <2>2, <2>3 DEF NoWaitBut
  <1>2. UnaskedSawNoWait'
    BY <1>1 DEF UnaskedSawNoWait
  <1> QED
    BY <1>2 DEF IInv

\* Every step keeps the invariant.
LEMMA StepIInv == IInv /\ [Next]_vars => IInv'
  <1> SUFFICES ASSUME IInv, [Next]_vars PROVE IInv'
    OBVIOUS
  <1>type. TypeOK /\ TypeOK'
    BY StepTypeOK DEF IInv
  <1>1. ASSUME ~ \E i \in Slots : TaskStep(i) \/ VerificationFails(i),
               ~ \E p \in Processes : Crash(p)
        PROVE  IInv'
    BY <1>1, <1>type, OtherStepsAreOutside, OutsideKeepsIInv
  <1>move. ASSUME NEW i \in Slots, NEW pc, task[i].pc \in Active, Moves(i, pc), Keeps(i, pc),
                  NoWaitBut(task[i].home),
                  pc = "completing" /\ ~task'[i].asked => card'.wait = "none"
           PROVE  IInv'
    <2>1. /\ OneVerification'
          /\ \A j \in Slots \ {i} : task[j].home = task[i].home => task'[j].pc \notin Active
      BY <1>move, ActiveTaskMoves
    <2>2. task'[i].pc = pc /\ StandStill(Slots \ {i})
      BY <1>move DEF Moves
    <2> QED
      BY <1>move, <1>type, <2>1, <2>2, OnlyTheMoverDecides
  <1>kept. \A i \in Slots : UNCHANGED <<card, waiter>> => NoWaitBut(task[i].home)
    BY DEF NoWaitBut
  <1>2. ASSUME NEW i \in Slots, _delayed_verify_todo_completion(i)
        PROVE  IInv'
    <2>1. task[i].pc \notin Active /\ UNCHANGED <<card, waiter>>
      BY <1>2 DEF _delayed_verify_todo_completion, Active
    <2>2. CASE Skip(i)
      <3>1. UNCHANGED reserved /\ StandStill(Slots)
        BY <2>1, <2>2, <1>type DEF Skip, StandStill, Free, Active, TypeOK
      <3> QED
        BY <1>type, <2>1, <3>1, OutsideKeepsIInv DEF Outside, NoWaitBut
    <2>3. CASE _reserve_verification(i)
      <3>1. Moves(i, "querying")
        BY <2>3, <1>type, WaysToMove DEF _reserve_verification
      <3>2. \A j \in Slots : task[j].home = task[i].home => task[j].pc \notin Active
        BY <2>3, ReservationType, <1>type DEF _reserve_verification, IInv, OneVerification
      <3>3. \A j \in Slots \ {i} :
              /\ task'[j].pc \in Active <=> task[j].pc \in Active
              /\ task'[j].pc \in Active => task'[j] = task[j] /\ task[j].home # task[i].home
        BY <3>1, <3>2 DEF Moves, StandStill
      <3>4. task'[i].pc \in Active /\ task'[i].home = task[i].home /\ task'[i].pc # "completing"
        BY <3>1 DEF Moves, Active
      <3>5. ASSUME NEW p \in Processes
            PROVE  p \in reserved' <=> \E j \in Slots : task'[j].home = p /\ task'[j].pc \in Active
        <4>1. p \in reserved' <=> p \in reserved \/ p = task[i].home
          BY <2>3 DEF _reserve_verification
        <4>2. p \in reserved <=> \E j \in Slots : task[j].home = p /\ task[j].pc \in Active
          BY DEF IInv, OneVerification
        <4>3. (\E j \in Slots : task'[j].home = p /\ task'[j].pc \in Active)
              <=> \/ p = task[i].home
                  \/ \E j \in Slots \ {i} : task[j].home = p /\ task[j].pc \in Active
          BY <3>3, <3>4
        <4> QED
          BY <2>1, <4>1, <4>2, <4>3
      <3>6. \A j, k \in Slots :
              /\ task'[j].pc \in Active /\ task'[k].pc \in Active
              /\ task'[j].home = task'[k].home
              => j = k
        BY <3>3, <3>4 DEF IInv, OneVerification
      <3>7. OneVerification'
        BY <3>5, <3>6 DEF OneVerification
      <3>8. \A j \in Slots \ {i} : task[j].home = task[i].home => task'[j].pc \notin Active
        BY <3>3
      <3> QED
        BY <1>type, <1>kept, <2>1, <3>1, <3>4, <3>7, <3>8, OnlyTheMoverDecides DEF Moves
    <2> QED
      BY <1>2, <2>2, <2>3 DEF _delayed_verify_todo_completion
  <1>3. ASSUME NEW i \in Slots, _defer_completion_for_active_background_work(i)
        PROVE  IInv'
    <2>1. task[i].pc \in Active
      BY <1>3 DEF _defer_completion_for_active_background_work, Active
    <2>2. CASE Recheck(i) /\ waiter' = task[i].home
      <3>1. Moves(i, "sleeping") /\ Keeps(i, "sleeping") /\ NoWaitBut(task[i].home)
        BY <2>2, <1>type, WaysToMove DEF Recheck, Unreserve, Keeps, Active, NoWaitBut
      <3> QED
        BY <2>1, <3>1, <1>move
    <2>3. CASE Goto(i, "closing") /\ UNCHANGED <<card, reserved, waiter>>
      <3>1. Moves(i, "closing") /\ Keeps(i, "closing")
        BY <2>3, <1>type, WaysToMove DEF Keeps, Active
      <3> QED
        BY <2>1, <2>3, <3>1, <1>move, <1>kept
    <2> QED
      BY <1>3, <2>2, <2>3 DEF _defer_completion_for_active_background_work
  <1>4. ASSUME NEW i \in Slots, NoBackgroundWork(i)
        PROVE  IInv'
    <2>1. /\ task[i].pc \in Active /\ UNCHANGED <<card, waiter>>
          /\ Moves(i, "reviewing") /\ Keeps(i, "reviewing")
      BY <1>4, <1>type, WaysToMove DEF NoBackgroundWork, Active, Keeps
    <2> QED
      BY <2>1, <1>move, <1>kept
  <1>5. ASSUME NEW i \in Slots, Review(i)
        PROVE  IInv'
    <2>1. task[i].pc \in Active
      BY <1>5 DEF Review, Active
    <2>2. CASE Goto(i, "closing") /\ UNCHANGED <<card, reserved, waiter>>
      <3>1. Moves(i, "closing") /\ Keeps(i, "closing")
        BY <2>2, <1>type, WaysToMove DEF Keeps, Active
      <3> QED
        BY <2>1, <2>2, <3>1, <1>move, <1>kept
    <2>3. CASE /\ ReviewsAtOnce(i)
               /\ Read(i, "completing", task[i].at)
               /\ UNCHANGED <<card, reserved, waiter>>
      <3>1. Moves(i, "completing") /\ Keeps(i, "completing") /\ card'.wait = "none"
        BY <2>3, <1>type, WaysToMove DEF ReviewsAtOnce, Keeps, Active
      <3> QED
        BY <2>1, <2>3, <3>1, <1>move, <1>kept
    <2>4. CASE Read(i, "asking", ReviewTime(i)) /\ UNCHANGED <<card, reserved, waiter>>
      <3>1. Moves(i, "asking") /\ Keeps(i, "asking")
        BY <2>4, <1>type, WaysToMove DEF Keeps, Active
      <3> QED
        BY <2>1, <2>4, <3>1, <1>move, <1>kept
    <2>5. CASE Recheck(i) /\ waiter' = task[i].home
      <3>1. Moves(i, "sleeping") /\ Keeps(i, "sleeping") /\ NoWaitBut(task[i].home)
        BY <2>5, <1>type, WaysToMove DEF Recheck, Unreserve, Keeps, Active, NoWaitBut
      <3> QED
        BY <2>1, <3>1, <1>move
    <2> QED
      BY <1>5, <2>2, <2>3, <2>4, <2>5 DEF Review
  <1>6. ASSUME NEW i \in Slots, VerdictComplete(i) \/ VerdictBlocks(i)
        PROVE  IInv'
    <2>1. /\ task[i].pc = "asking" /\ task[i].pc \in Active
          /\ UNCHANGED <<card, reserved, waiter>>
      BY <1>6 DEF VerdictComplete, VerdictBlocks, Active
    <2>2. CASE Goto(i, "closing")
      <3>1. Moves(i, "closing") /\ Keeps(i, "closing")
        BY <2>1, <2>2, <1>type, WaysToMove DEF Keeps, Active
      <3> QED
        BY <2>1, <3>1, <1>move, <1>kept
    <2>3. CASE Read(i, "completing", task[i].reviewAt)
      <3>1. Moves(i, "completing") /\ Keeps(i, "completing")
        BY <2>1, <2>3, <1>type, WaysToMove DEF Keeps, Active
      <3>2. task'[i].asked = (task[i].pc = "asking")
        BY <2>3, <1>type DEF Read, TypeOK, Task
      <3>3. task'[i].asked
        BY <2>1, <3>2, Zenon
      <3> QED
        BY <2>1, <3>1, <3>3, <1>move, <1>kept
    <2>4. CASE Read(i, "blocking", task[i].reviewAt)
      <3>1. Moves(i, "blocking") /\ Keeps(i, "blocking")
        BY <2>1, <2>4, <1>type, WaysToMove DEF Keeps, Active
      <3> QED
        BY <2>1, <3>1, <1>move, <1>kept
    <2> QED
      BY <1>6, <2>2, <2>3, <2>4 DEF VerdictComplete, VerdictBlocks
  <1>7. ASSUME NEW i \in Slots, NEW j \in Slots, VerdictRetries(i, j)
        PROVE  IInv'
    <2>1. /\ task[i].pc \in Active /\ task[j].pc = "free" /\ i # j
          /\ UNCHANGED reserved /\ waiter' = task[i].home
      BY <1>7 DEF VerdictRetries, IsNextSlot, FreeSlots, Active
    <2>2. /\ task'[i].pc = "closing" /\ task'[i].home = task[i].home
          /\ task'[j].pc = "retry"
          /\ \A k \in Slots \ {i, j} : task'[k] = task[k]
      BY <1>7, <1>type, <2>1 DEF VerdictRetries, TypeOK, Task, Free
    <2>3. Moves(i, "closing") /\ Keeps(i, "closing") /\ NoWaitBut(task[i].home)
      BY <2>1, <2>2 DEF Moves, StandStill, Keeps, Active, NoWaitBut
    <2> QED
      BY <2>1, <2>3, <1>move
  <1>8. ASSUME NEW i \in Slots, complete_project_todo_implementation(i) \/ BlockCard(i)
        PROVE  IInv'
    <2>1. /\ task[i].pc \in Active /\ UNCHANGED <<reserved, waiter>>
          /\ Moves(i, "closing") /\ Keeps(i, "closing")
      BY <1>8, <1>type, WaysToMove
      DEF complete_project_todo_implementation, BlockCard, Active, Keeps
    <2>2. \A st : Settled(task[i], st).wait \in {"none", card.wait}
      BY <1>type DEF Settled, TypeOK, Card
    <2>3. \A st : [Settled(task[i], st) EXCEPT !.dispatchedAt = 0].wait \in {"none", card.wait}
      BY <1>type DEF Settled, TypeOK, Card
    <2>4. card'.wait \in {"none", card.wait}
      BY <1>8, <2>2, <2>3 DEF complete_project_todo_implementation, BlockCard
    <2>5. NoWaitBut(task[i].home)
      BY <2>1, <2>4 DEF NoWaitBut
    <2> QED
      BY <2>1, <2>5, <1>move
  <1>9. ASSUME NEW i \in Slots, _release_verification(i) \/ VerificationFails(i)
        PROVE  IInv'
    <2>1. /\ task[i].pc \in Active /\ UNCHANGED <<card, waiter>>
          /\ Moves(i, "free") /\ Keeps(i, "free")
      BY <1>9, <1>type, WaysToMove
      DEF _release_verification, VerificationFails, Unreserve, Active, Keeps
    <2> QED
      BY <2>1, <1>move, <1>kept
  <1>10. ASSUME NEW p \in Processes, Crash(p)
         PROVE  IInv'
    <2>1. /\ reserved' = reserved \ {p} /\ UNCHANGED <<card, waiter>>
          /\ \A i \in Slots :
               /\ task[i].home = p => task'[i].pc = "free"
               /\ task[i].home # p => task'[i] = task[i]
      BY <1>10 DEF Crash, Free
    <2>2. \A i \in Slots : task'[i].pc \in Active => task'[i] = task[i] /\ task[i].home # p
      BY <2>1 DEF Active
    <2>3. OneVerification'
      BY <2>1, <2>2 DEF IInv, OneVerification
    <2>4. UnaskedSawNoWait'
      BY <2>1, <2>2 DEF IInv, UnaskedSawNoWait, Active
    <2> QED
      BY <1>type, <2>3, <2>4 DEF IInv
  <1> QED
    BY <1>1, <1>2, <1>3, <1>4, <1>5, <1>6, <1>7, <1>8, <1>9, <1>10 DEF TaskStep

\* The initial states satisfy the invariant.
LEMMA InitIInv == Init => IInv
  BY InitTypeOK DEF IInv, Init, OneVerification, UnaskedSawNoWait, Free, Active

\* The invariant holds in every reachable state.
LEMMA VerificationInductive == Spec => []IInv
  BY InitIInv, StepIInv, PTL DEF Spec

\* One verification of the card at a time gets past the reservation of each process, for
\* any number of syncs, retries and rechecks, whatever the other process does and
\* whichever of the two restarts.
THEOREM VerificationIsExclusive == Spec => []OneVerification
  <1>1. IInv => OneVerification
    BY DEF IInv
  <1> QED
    BY <1>1, VerificationInductive, PTL

\* No card that waits is completed without a verdict by a task of the process that made
\* it wait.
THEOREM WaitingCardGetsVerdict == Spec => WaitingCardNeedsVerdict
  <1>1. IInv /\ [Next]_vars =>
          \A i \in Slots :
            complete_project_todo_implementation(i) /\ Waited
            => task[i].asked \/ waiter # task[i].home
    BY DEF IInv, UnaskedSawNoWait, Waited, complete_project_todo_implementation, TypeOK, Task
  <1> QED
    BY <1>1, VerificationInductive, PTL DEF Spec, WaitingCardNeedsVerdict
=============================================================================
