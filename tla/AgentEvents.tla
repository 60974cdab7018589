----------------------------- MODULE AgentEvents -----------------------------
(***************************************************************************)
(* Agent events of one terminal window, from the server's bulk websocket   *)
(* over a Redis stream to the event worker, and the activity state of the  *)
(* window they are projected into.                                         *)
(*                                                                         *)
(* The server adds every event to the stream and, unless it is an event of *)
(* a subagent's own session, persists it too before it acknowledges it.    *)
(* The worker reads the stream in three ways (stale entries of dead        *)
(* consumers, the newest entries whoever has them, the group's next ones), *)
(* persists what it read, and acknowledges the batch.  Server and worker   *)
(* are two processes; a transaction reads the window when it starts and    *)
(* writes, without a lock, the columns it has changed when it commits.     *)
(***************************************************************************)
EXTENDS Naturals, FiniteSets

CONSTANTS
  N,             \* how many events the client sends
  Completions,   \* the events that end a turn of an agent
  Calls,         \* the events that start a subagent
  Results,       \* the events that bring a subagent's result
  Sidechain,     \* the events of a subagent's own session
  Bad,           \* the events no transaction can persist, their window is gone
  Batch,         \* how many entries one read of the stream returns at most
  MaxDeliveries, \* a failing event that was delivered so often is dead-lettered
  Stale,         \* a subagent call is given up this long after it was made
  MaxFaults      \* bound: failures of Redis, the database or a process

ASSUME EventsAssumption == N \in Nat

\* The events in the order they are sent, which is the order of their times.
Events == 1..N

\* The events the server persists itself as well.
Inline == Events \ Sidechain

VARIABLES
  sent,      \* how many events the server has received
  srv,       \* what the server does with the last one
  srvSaw,    \* the window as the server's transaction read it
  accepted,  \* history: the events acknowledged to the client
  stream,    \* the entries of the stream
  queued,    \* history: the events the stream ever held
  delivered, \* the entries up to the group's last-delivered one that it was given
  pending,   \* pending[e]: how often e was delivered, 0 when not in the pending list
  idle,      \* the pending entries nobody has touched for claim_idle_ms
  dead,      \* the events in the dead-letter stream
  wk,        \* what the worker does
  seen,      \* _recent_tail_seen_ids
  recent, fresh, claimed, \* what is left of the batch: tail, new and claimed entries
  tail,      \* the tail entries of the batch
  cur,       \* the event that is processed, 0 for none
  wkSaw,     \* the window as the worker's transaction read it
  processed, \* processed_ids
  rows,      \* the persisted events
  window,    \* the window's activity columns
  synced,    \* the completions that were handed to the window's todos
  faults     \* how many failures there were

server == <<sent, srv, srvSaw, accepted>>
queue  == <<stream, queued, delivered, pending, idle, dead>>
batch  == <<recent, fresh, claimed, tail, cur, processed>>
db     == <<rows, window, synced>>
vars   == <<server, queue, wk, seen, batch, wkSaw, db, faults>>

\* Times of the latest activity and completion, of a completion that waits for the
\* subagents and of the last call of one, and the number of pending subagents.
Columns == {"latest", "completed", "deferred", "called", "count"}
Window == [Columns -> Nat]

NoActivity == [c \in Columns |-> 0]

Init ==
  /\ sent = 0
  /\ srv = "idle"
  /\ srvSaw = NoActivity
  /\ accepted = {}
  /\ stream = {}
  /\ queued = {}
  /\ delivered = {}
  /\ pending = [e \in Events |-> 0]
  /\ idle = {}
  /\ dead = {}
  /\ wk = "down"
  /\ seen = {}
  /\ recent = {} /\ fresh = {} /\ claimed = {} /\ tail = {}
  /\ cur = 0
  /\ processed = {}
  /\ wkSaw = NoActivity
  /\ rows = {}
  /\ window = NoActivity
  /\ synced = {}
  /\ faults = 0

Fault == faults < MaxFaults /\ faults' = faults + 1

-----------------------------------------------------------------------------
(* The window: summary_scheduler and summary_subagent_state.               *)

Later(a, b) == IF a >= b THEN a ELSE b

\* A completion that waited for the subagents counts once there are none.
promote_deferred_completion(w) ==
  [w EXCEPT !.completed = Later(w.deferred, w.completed), !.deferred = 0]

maybe_promote_stale_subagent_state(w, e) ==
  IF w.count > 0 /\ e > w.called + Stale
    THEN promote_deferred_completion([w EXCEPT !.count = 0]) ELSE w

apply_subagent_event(w, e) ==
  IF e \in Calls THEN [w EXCEPT !.count = w.count + 1, !.called = e]
  ELSE IF e \notin Results \/ w.count = 0 THEN w
  ELSE IF w.count = 1 THEN promote_deferred_completion([w EXCEPT !.count = 0])
  ELSE [w EXCEPT !.count = w.count - 1]

\* A plausible slip: the last completion to be processed wins.
_touch_completion_unordered(w, e) ==
  IF e \notin Completions THEN w
  ELSE IF w.count > 0 THEN [w EXCEPT !.deferred = Later(e, w.deferred)]
  ELSE [w EXCEPT !.completed = e, !.deferred = 0]

_touch_agent_completion_state(w, e) ==
  IF e \notin Completions THEN w
  ELSE IF w.count > 0 THEN [w EXCEPT !.deferred = Later(e, w.deferred)]
  ELSE [w EXCEPT !.completed = Later(e, w.completed), !.deferred = 0]

_touch_agent_activity_state(w, e) ==
  LET kept == apply_subagent_event(maybe_promote_stale_subagent_state(w, e), e)
  IN  [_touch_agent_completion_state(kept, e) EXCEPT !.latest = Later(e, w.latest)]

\* A plausible slip: whatever is not newer than the last completion is a duplicate.
_not_newer_completed_event(w, e) == e \in Completions /\ e <= w.completed

_duplicate_completed_event(w, e) ==
  e \in Completions /\ w.latest = e /\ w.completed # 0 /\ e <= w.completed

\* The transaction that read the window as w persists e and commits: columns it
\* did not change keep what others have written since.
PersistEvent(w, e) ==
  LET new == _touch_agent_activity_state(w, e)
  IN  /\ rows' = rows \cup {e}
      /\ window' = [c \in Columns |-> IF new[c] # w[c] THEN new[c] ELSE window[c]]
      /\ synced' = IF /\ e \in Completions
                      /\ ~_duplicate_completed_event(w, e)
                      /\ e \notin Sidechain
                      /\ new.count = 0
                     THEN synced \cup {e} ELSE synced

-----------------------------------------------------------------------------
(* The server: one event of the client after the other.                    *)

Enqueue(e) == stream' = stream \cup {e} /\ queued' = queued \cup {e}

enqueue_managed_agent_event ==
  /\ srv = "idle"
  /\ sent < N
  /\ sent' = sent + 1
  /\ Enqueue(sent + 1)
  /\ IF sent + 1 \in Inline
       THEN srv' = "persist" /\ UNCHANGED accepted
       ELSE srv' = "idle" /\ accepted' = accepted \cup {sent + 1}
  /\ UNCHANGED <<srvSaw, delivered, pending, idle, dead, wk, seen, batch, wkSaw, db, faults>>

\* Redis failed or did not answer in time: the event is persisted instead.
AgentEventQueueUnavailable ==
  /\ Fault
  /\ srv = "idle"
  /\ sent < N
  /\ sent' = sent + 1
  /\ Enqueue(sent + 1) \/ UNCHANGED <<stream, queued>>
  /\ srv' = "persist"
  /\ UNCHANGED <<srvSaw, accepted, delivered, pending, idle, dead, wk, seen, batch, wkSaw, db>>

InlineBegin ==
  /\ srv = "persist"
  /\ srvSaw' = window
  /\ srv' = "tx"
  /\ UNCHANGED <<sent, accepted, queue, wk, seen, batch, wkSaw, db, faults>>

InlineCommit ==
  /\ srv = "tx"
  /\ sent \notin Bad
  /\ PersistEvent(srvSaw, sent)
  /\ accepted' = accepted \cup {sent}
  /\ srv' = "idle"
  /\ UNCHANGED <<sent, srvSaw, queue, wk, seen, batch, wkSaw, faults>>

\* The event cannot be persisted and is refused.
InlineRefused ==
  /\ srv = "tx"
  /\ sent \in Bad
  /\ srv' = "idle"
  /\ UNCHANGED <<sent, srvSaw, accepted, queue, wk, seen, batch, wkSaw, db, faults>>

\* The database or the process fails, before the commit or after it.
InlineFails ==
  /\ Fault
  /\ srv \in {"persist", "tx"}
  /\ srv' = "idle"
  /\ \/ UNCHANGED db
     \/ srv = "tx" /\ sent \notin Bad /\ PersistEvent(srvSaw, sent)
  /\ UNCHANGED <<sent, srvSaw, accepted, queue, wk, seen, batch, wkSaw>>

-----------------------------------------------------------------------------
(* The worker.                                                             *)

NoBatch ==
  /\ recent' = {} /\ fresh' = {} /\ claimed' = {} /\ tail' = {}
  /\ cur' = 0
  /\ processed' = {}

\* The group is created once, at the start of the stream.
ensure_agent_event_consumer_group == UNCHANGED delivered

Start ==
  /\ wk = "down"
  /\ wk' = "claim"
  /\ ensure_agent_event_consumer_group
  /\ UNCHANGED <<server, stream, queued, pending, idle, dead, seen, batch, wkSaw, db, faults>>

Oldest(S) == {e \in S : Cardinality({f \in S : f < e}) < Batch}
Newest(S) == {e \in S : Cardinality({f \in S : f > e}) < Batch}

\* A plausible slip: the entries are read without being put into the pending list.
DeliverNoAck(S) == S \subseteq Events /\ UNCHANGED pending

Deliver(S) == pending' = [e \in Events |-> IF e \in S THEN pending[e] + 1 ELSE pending[e]]

claim_stale_agent_events ==
  /\ wk = "claim"
  /\ claimed' = Oldest(idle)
  /\ Deliver(claimed')
  /\ idle' = idle \ claimed'
  /\ wk' = "tail"
  /\ UNCHANGED <<server, stream, queued, delivered, dead, seen, recent, fresh, tail, cur, processed,
                 wkSaw, db, faults>>

\* The newest entries, those other reads returned before included.
read_recent_agent_event_tail ==
  /\ wk = "tail"
  /\ tail' = Newest(stream) \ seen
  /\ recent' = tail'
  /\ wk' = "read"
  /\ UNCHANGED <<server, queue, seen, fresh, claimed, cur, processed, wkSaw, db, faults>>

read_agent_event_batch ==
  /\ wk = "read"
  /\ fresh' = Oldest(stream \ delivered)
  /\ delivered' = delivered \cup fresh'
  /\ Deliver(fresh')
  /\ wk' = "batch"
  /\ UNCHANGED <<server, stream, queued, idle, dead, seen, recent, claimed, tail, cur, processed, wkSaw,
                 db, faults>>

First(S) == {e \in S : \A f \in S : e <= f}

\* The tail comes first, then the new entries, then the claimed ones.
NextUp ==
  IF recent # {} THEN First(recent) ELSE IF fresh # {} THEN First(fresh) ELSE First(claimed)

\* _process_one opens its transaction.  An event that was read twice is processed once.
Begin ==
  /\ wk = "batch"
  /\ \E e \in NextUp :
       /\ cur' = e
       /\ recent' = recent \ {e}
       /\ fresh' = fresh \ {e}
       /\ claimed' = claimed \ {e}
  /\ wkSaw' = window
  /\ wk' = "tx"
  /\ UNCHANGED <<server, queue, seen, tail, processed, db, faults>>

Commit ==
  /\ wk = "tx"
  /\ cur \notin Bad
  /\ PersistEvent(wkSaw, cur)
  /\ processed' = processed \cup {cur}
  /\ wk' = "batch"
  /\ UNCHANGED <<server, queue, seen, recent, fresh, claimed, tail, cur, wkSaw, faults>>

\* Processing fails: always for a bad event, else before the commit or after it.
ProcessFails ==
  /\ wk = "tx"
  /\ \/ cur \in Bad /\ UNCHANGED <<db, faults>>
     \/ Fault /\ cur \notin Bad /\ UNCHANGED db
     \/ Fault /\ cur \notin Bad /\ PersistEvent(wkSaw, cur)
  /\ wk' = "failed"
  /\ UNCHANGED <<server, queue, seen, batch, wkSaw>>

\* An entry that is not pending counts as delivered once.
delivery_count(e) == Later(1, pending[e])

\* A plausible slip: a failed event is acknowledged like the others.
LeavePendingAcks ==
  /\ wk = "failed"
  /\ delivery_count(cur) < MaxDeliveries
  /\ processed' = processed \cup {cur}
  /\ wk' = "batch"
  /\ UNCHANGED <<server, queue, seen, recent, fresh, claimed, tail, cur, wkSaw, db, faults>>

LeavePending ==
  /\ wk = "failed"
  /\ delivery_count(cur) < MaxDeliveries
  /\ wk' = "batch"
  /\ UNCHANGED <<server, queue, seen, batch, wkSaw, db, faults>>

move_agent_event_to_dead_letter ==
  /\ wk = "failed"
  /\ delivery_count(cur) >= MaxDeliveries
  /\ dead' = dead \cup {cur}
  /\ wk' = "dead xack"
  /\ UNCHANGED <<server, stream, queued, delivered, pending, idle, seen, batch, wkSaw, db, faults>>

\* The batch is through: remember its tail, and acknowledge what was processed.
_remember_recent_tail_events ==
  /\ wk = "batch"
  /\ recent \cup fresh \cup claimed = {}
  /\ seen' = seen \cup tail
  /\ wk' = IF processed = {} THEN "claim" ELSE "xack"
  /\ UNCHANGED <<server, queue, batch, wkSaw, db, faults>>

Acked == IF wk \in {"xack", "xdel"} THEN processed ELSE {cur}

ack_agent_events ==
  /\ wk \in {"xack", "dead xack"}
  /\ pending' = [e \in Events |-> IF e \in Acked THEN 0 ELSE pending[e]]
  /\ idle' = idle \ Acked
  /\ wk' = IF wk = "xack" THEN "xdel" ELSE "dead xdel"
  /\ UNCHANGED <<server, stream, queued, delivered, dead, seen, batch, wkSaw, db, faults>>

DeleteAcked ==
  /\ wk \in {"xdel", "dead xdel"}
  /\ stream' = stream \ Acked
  /\ IF wk = "xdel" THEN wk' = "claim" /\ NoBatch ELSE wk' = "batch" /\ UNCHANGED batch
  /\ UNCHANGED <<server, queued, delivered, pending, idle, dead, seen, wkSaw, db, faults>>

\* A Redis call fails, or its reply is lost (what it did stands): the iteration
\* ends and its batch is forgotten.
IterationFails ==
  /\ Fault
  /\ \/ wk \notin {"down", "claim", "batch", "tx"}
     \/ wk = "batch" /\ cur = 0
  /\ wk' = "claim"
  /\ NoBatch
  /\ UNCHANGED <<server, queue, seen, wkSaw, db>>

\* The worker's process dies and is started again.
Crash ==
  /\ Fault
  /\ wk # "down"
  /\ wk' = "down"
  /\ seen' = {}
  /\ NoBatch
  /\ UNCHANGED <<server, queue, wkSaw, db>>

\* claim_idle_ms pass.
Age(e) ==
  /\ pending[e] > 0
  /\ e \notin idle
  /\ idle' = idle \cup {e}
  /\ UNCHANGED <<server, stream, queued, delivered, pending, dead, wk, seen, batch, wkSaw, db, faults>>

Serve ==
  \/ enqueue_managed_agent_event \/ InlineBegin \/ InlineCommit \/ InlineRefused

Work ==
  \/ Start \/ claim_stale_agent_events \/ read_recent_agent_event_tail
  \/ read_agent_event_batch \/ Begin \/ Commit \/ ProcessFails \/ LeavePending
  \/ move_agent_event_to_dead_letter \/ _remember_recent_tail_events
  \/ ack_agent_events \/ DeleteAcked

Next ==
  \/ Serve \/ Work
  \/ AgentEventQueueUnavailable \/ InlineFails \/ IterationFails \/ Crash
  \/ \E e \in Events : Age(e)

Spec == Init /\ [][Next]_vars

\* The server and the worker, which is restarted when it dies, get on with what they
\* do, and time passes.  Failures, and the client's next event, owe nothing.
FairSpec ==
  /\ Spec
  /\ WF_vars(Work)
  /\ \A e \in Events : WF_vars(Age(e))

-----------------------------------------------------------------------------
(* Properties.                                                             *)

TypeOK ==
  /\ sent \in 0..N
  /\ srv \in {"idle", "persist", "tx"}
  /\ accepted \subseteq Events /\ stream \subseteq Events /\ queued \subseteq Events
  /\ delivered \subseteq Events /\ idle \subseteq Events /\ dead \subseteq Events
  /\ recent \subseteq Events /\ fresh \subseteq Events /\ claimed \subseteq Events
  /\ tail \subseteq Events /\ seen \subseteq Events /\ processed \subseteq Events
  /\ rows \subseteq Events /\ synced \subseteq Events
  /\ pending \in [Events -> Nat]
  /\ wk \in {"down", "claim", "tail", "read", "batch", "tx", "failed", "xack", "xdel",
             "dead xack", "dead xdel"}
  /\ cur \in Events \cup {0}
  /\ srvSaw \in Window /\ wkSaw \in Window /\ window \in Window
  /\ faults \in Nat

\* An event acknowledged to the client is persisted or dead-lettered, or an entry of
\* the stream that the group is still to be given or can still be claimed from the
\* pending list, whatever calls, replies and processes are lost (the worker's batch).
NoEventLost ==
  \A e \in accepted :
    e \in rows \cup dead \/ (e \in stream /\ (e \notin delivered \/ pending[e] > 0))

Quiet == srv = "idle" /\ stream = {} /\ wk = "claim"

\* Once all is processed, the window's last completion is the last one there was, in
\* whatever order tail, backlog and retries were processed and whatever columns two
\* transactions took from each other (_touch_agent_completion_state).
LatestCompletionWins ==
  Quiet /\ dead \cap rows = {} /\ queued = 1..sent => \A e \in Completions \cap rows : e <= window.completed

\* A completion of the window's agent that is persisted has been handed to the
\* todos of the window: the duplicate of it that comes over the other way, or a
\* retry, is told from a first one by what the window happens to hold then.
CompletionSynced == Completions \cap rows \subseteq synced \cup Sidechain

\* An entry of the stream ends persisted or dead-lettered, and is not pending any more.
EveryEventSettles ==
  \A e \in Events : e \in stream ~> e \in rows \cup dead /\ pending[e] = 0

\* Once all is processed, no subagent is pending whose result was persisted.
SubagentsCounted ==
  /\ Quiet
  /\ dead = {}
  /\ Cardinality(rows \cap Calls) = Cardinality(rows \cap Results)
  => window.count = 0
=============================================================================
