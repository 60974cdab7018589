-------------------------- MODULE AgentEventsProofs --------------------------
(***************************************************************************)
(* AgentEvents: for any events, batches, bounds and failures, an event     *)
(* that was acknowledged to the client is not lost; and for an agent       *)
(* without subagents the completions of its window reach its todos, and    *)
(* the last of them stands.                                                *)
(***************************************************************************)
EXTENDS AgentEvents, TLAPS

\* Nothing is in the stream or was given to the group that was not sent.
OnlySent == stream \subseteq 1..sent /\ delivered \subseteq 1..sent

\* A transaction of the server is about an event that was sent.
ServerSent == srv \in {"persist", "tx"} => sent \in Events

\* What is acknowledged to Redis was persisted or is in the dead-letter stream.
AckedSettled ==
  /\ processed \subseteq rows
  /\ wk \in {"tx", "failed", "dead xack", "dead xdel"} => cur \in Events
  /\ wk \in {"dead xack", "dead xdel"} => cur \in dead

\* An event that is in the stream, or was and is accepted, is settled or will be read.
Accounted(e) ==
  \/ e \in rows \cup dead
  \/ e \in stream /\ (e \notin delivered \/ pending[e] > 0)
  \/ e \notin accepted /\ e \notin stream

\* The inductive invariant.
IInv ==
  /\ TypeOK
  /\ OnlySent
  /\ ServerSent
  /\ AckedSettled
  /\ \A e \in Events : Accounted(e)

-----------------------------------------------------------------------------
(* Types.                                                                  *)

\* The later of two times is a time.
LEMMA LaterType == \A a, b \in Nat : Later(a, b) \in Nat
BY DEF Later

\* The initial states satisfy the invariant.
LEMMA InitIInv == Init => IInv
<1> SUFFICES ASSUME Init PROVE IInv
    OBVIOUS
<1>1. NoActivity \in Window
  BY DEF NoActivity, Window
<1>2. 0 \in 0..N /\ 0 \in Nat
  BY EventsAssumption
<1>3. TypeOK
  BY <1>1, <1>2 DEF Init, TypeOK
<1> QED
  BY <1>3 DEF Init, IInv, OnlySent, ServerSent, AckedSettled, Accounted

\* Projecting an event into the columns of a window keeps their types.
LEMMA TouchType ==
  ASSUME NEW w \in Window, NEW e \in Nat
  PROVE  _touch_agent_activity_state(w, e) \in Window
<1>1. ASSUME NEW v \in Window PROVE promote_deferred_completion(v) \in Window
  BY LaterType DEF promote_deferred_completion, Window, Columns
<1>2. maybe_promote_stale_subagent_state(w, e) \in Window
  BY <1>1 DEF maybe_promote_stale_subagent_state, Window, Columns
<1>3. ASSUME NEW v \in Window PROVE apply_subagent_event(v, e) \in Window
  <2>1. CASE e \in Calls
    <3>1. \A k \in Nat, u \in Window : /\ [u EXCEPT !.count = k] \in Window
                                      /\ [u EXCEPT !.called = k] \in Window
      BY DEF Window, Columns
    <3>2. v.count + 1 \in Nat
      BY DEF Window, Columns
    <3>3. [v EXCEPT !.count = v.count + 1] \in Window
      BY <3>1, <3>2
    <3>4. [[v EXCEPT !.count = v.count + 1] EXCEPT !.called = e] \in Window
      BY <3>1, <3>3
    <3> QED
      BY <2>1, <3>4 DEF apply_subagent_event
  <2>2. CASE e \notin Calls /\ e \in Results /\ v.count = 1
    <3>1. [v EXCEPT !.count = 0] \in Window
      BY DEF Window, Columns
    <3> QED
      BY <1>1, <2>2, <3>1 DEF apply_subagent_event
  <2>3. CASE e \notin Calls /\ ~(e \in Results /\ v.count = 1)
    BY <2>3 DEF apply_subagent_event, Window, Columns
  <2> QED
    BY <2>1, <2>2, <2>3
<1>4. ASSUME NEW v \in Window PROVE _touch_agent_completion_state(v, e) \in Window
  BY LaterType DEF _touch_agent_completion_state, Window, Columns
<1> DEFINE v == _touch_agent_completion_state(
                  apply_subagent_event(maybe_promote_stale_subagent_state(w, e), e), e)
<1>5. v \in Window
  BY <1>2, <1>3, <1>4
<1>6. Later(e, w.latest) \in Nat
  BY LaterType DEF Window, Columns
<1>7. _touch_agent_activity_state(w, e) = [v EXCEPT !.latest = Later(e, w.latest)]
  BY DEF _touch_agent_activity_state
<1> HIDE DEF v
<1> QED
  BY <1>5, <1>6, <1>7 DEF Window, Columns

\* What a transaction does to the database.
LEMMA PersistType ==
  ASSUME TypeOK, NEW w \in Window, NEW e \in Events, PersistEvent(w, e)
  PROVE  /\ rows' = rows \cup {e}
         /\ window' \in Window
         /\ synced' \subseteq Events
<1>1. e \in Nat
  BY DEF Events
<1> DEFINE new == _touch_agent_activity_state(w, e)
<1>2. new \in Window
  BY <1>1, TouchType
<1>3. /\ rows' = rows \cup {e}
      /\ window' = [c \in Columns |-> IF new[c] # w[c] THEN new[c] ELSE window[c]]
      /\ synced' \in {synced, synced \cup {e}}
  BY DEF PersistEvent
<1> HIDE DEF new
<1> QED
  BY <1>2, <1>3 DEF TypeOK, Window
\* What PersistEvent is given lies in the events.
LEMMA Subsets ==
  ASSUME TypeOK
  PROVE  /\ Oldest(idle) \subseteq idle
         /\ Oldest(stream \ delivered) \subseteq stream \ delivered
         /\ Newest(stream) \subseteq stream
         /\ First(recent) \subseteq recent
         /\ First(fresh) \subseteq fresh
         /\ First(claimed) \subseteq claimed
         /\ NextUp \subseteq Events
BY DEF Oldest, Newest, First, NextUp, TypeOK

\* Reading entries keeps the types of the pending list and lowers no count.
LEMMA DeliverType ==
  ASSUME TypeOK, NEW S \in SUBSET Events, Deliver(S)
  PROVE  /\ pending' \in [Events -> Nat]
         /\ \A e \in Events : pending'[e] >= pending[e]
         /\ \A e \in S : pending'[e] > 0
<1>1. pending \in [Events -> Nat]
  BY DEF TypeOK
<1> QED
  BY <1>1 DEF Deliver

\* The events are numbered in the order they are sent, and the next one is an event.
LEMMA SentType == ASSUME TypeOK PROVE sent \in Nat /\ (sent < N => sent + 1 \in Events)
<1>1. sent \in 0..N
  BY DEF TypeOK
<1> QED
  BY <1>1, EventsAssumption DEF Events

\* Every step keeps the types.
LEMMA StepTypeOK == IInv /\ [Next]_vars => TypeOK'
<1> SUFFICES ASSUME IInv, [Next]_vars PROVE TypeOK'
    OBVIOUS
<1> USE DEF server, queue, batch, db
<1>0. TypeOK
  BY DEF IInv
<1>f. faults \in Nat /\ faults + 1 \in Nat
  <2>1. faults \in Nat
    BY <1>0 DEF TypeOK
  <2> QED
    BY <2>1
<1>1. ASSUME enqueue_managed_agent_event \/ AgentEventQueueUnavailable PROVE TypeOK'
  <2>1. sent < N /\ sent' = sent + 1
    BY <1>1 DEF enqueue_managed_agent_event, AgentEventQueueUnavailable
  <2>2. sent' \in 0..N /\ sent' \in Events
    BY <1>0, <2>1, SentType, EventsAssumption DEF Events
  <2>3. /\ stream' \in {stream, stream \cup {sent'}}
        /\ queued' \in {queued, queued \cup {sent'}}
        /\ accepted' \in {accepted, accepted \cup {sent'}}
        /\ srv' \in {"idle", "persist", "tx"}
        /\ faults' \in Nat
    <3>1. faults' \in {faults, faults + 1}
      BY <1>1 DEF enqueue_managed_agent_event, AgentEventQueueUnavailable, Fault
    <3> QED
      BY <1>1, <2>1, <3>1, <1>f
         DEF enqueue_managed_agent_event, AgentEventQueueUnavailable, Enqueue
  <2>4. UNCHANGED <<srvSaw, delivered, pending, idle, dead, wk, seen, batch, wkSaw, db>>
    BY <1>1 DEF enqueue_managed_agent_event, AgentEventQueueUnavailable
  <2> QED
    BY <1>0, <2>2, <2>3, <2>4 DEF TypeOK
<1>2. ASSUME InlineBegin \/ InlineRefused PROVE TypeOK'
  BY <1>0, <1>2 DEF TypeOK, InlineBegin, InlineRefused
<1>3. ASSUME InlineCommit \/ InlineFails PROVE TypeOK'
  <2>1. srv' = "idle" /\ UNCHANGED <<sent, srvSaw, queue, wk, seen, batch, wkSaw>>
    BY <1>3 DEF InlineCommit, InlineFails
  <2>2. faults' \in Nat
    BY <1>3, <1>f DEF InlineCommit, InlineFails, Fault
  <2>3. accepted' \subseteq accepted \cup (rows' \cap {sent})
        /\ (UNCHANGED db \/ (PersistEvent(srvSaw, sent) /\ srv = "tx"))
    BY <1>3 DEF InlineCommit, InlineFails, PersistEvent
  <2>4. CASE UNCHANGED db
    BY <1>0, <2>1, <2>2, <2>3, <2>4 DEF TypeOK
  <2>5. CASE PersistEvent(srvSaw, sent) /\ srv = "tx"
    <3>1. sent \in Events
      BY <2>5 DEF IInv, ServerSent
    <3>2. /\ rows' = rows \cup {sent} /\ window' \in Window /\ synced' \subseteq Events
      BY <1>0, <2>5, <3>1, PersistType DEF TypeOK
    <3> QED
      BY <1>0, <2>1, <2>2, <2>3, <3>1, <3>2 DEF TypeOK
  <2> QED
    BY <2>3, <2>4, <2>5
<1>4. ASSUME Start \/ LeavePending \/ _remember_recent_tail_events PROVE TypeOK'
  BY <1>0, <1>4 DEF TypeOK, Start, ensure_agent_event_consumer_group, LeavePending,
                    _remember_recent_tail_events
<1>5. ASSUME claim_stale_agent_events PROVE TypeOK'
  <2>1. claimed' \subseteq Events
    BY <1>0, <1>5, Subsets DEF claim_stale_agent_events, TypeOK
  <2>2. pending' \in [Events -> Nat]
    BY <1>0, <1>5, <2>1, DeliverType DEF claim_stale_agent_events
  <2> QED
    BY <1>0, <1>5, <2>1, <2>2 DEF TypeOK, claim_stale_agent_events
<1>6. ASSUME read_recent_agent_event_tail PROVE TypeOK'
  <2>1. tail' \subseteq Events
    BY <1>0, <1>6, Subsets DEF read_recent_agent_event_tail, TypeOK
  <2> QED
    BY <1>0, <1>6, <2>1 DEF TypeOK, read_recent_agent_event_tail
<1>7. ASSUME read_agent_event_batch PROVE TypeOK'
  <2>1. fresh' \subseteq Events
    BY <1>0, <1>7, Subsets DEF read_agent_event_batch, TypeOK
  <2>2. pending' \in [Events -> Nat]
    BY <1>0, <1>7, <2>1, DeliverType DEF read_agent_event_batch
  <2> QED
    BY <1>0, <1>7, <2>1, <2>2 DEF TypeOK, read_agent_event_batch
<1>8. ASSUME Begin PROVE TypeOK'
  <2>1. PICK e \in NextUp : /\ cur' = e
                            /\ recent' = recent \ {e}
                            /\ fresh' = fresh \ {e}
                            /\ claimed' = claimed \ {e}
    BY <1>8 DEF Begin
  <2>2. e \in Events
    BY <1>0, Subsets
  <2>3. wkSaw' = window /\ wk' = "tx"
        /\ UNCHANGED <<server, queue, seen, tail, processed, db, faults>>
    BY <1>8 DEF Begin
  <2> QED
    BY <1>0, <2>1, <2>2, <2>3 DEF TypeOK
<1>9. ASSUME Commit \/ ProcessFails PROVE TypeOK'
  <2>1. cur \in Events
    BY <1>9 DEF Commit, ProcessFails, IInv, AckedSettled
  <2>2. /\ UNCHANGED <<server, queue, seen, recent, fresh, claimed, tail, cur, wkSaw>>
        /\ wk' \in {"batch", "failed"}
        /\ processed' \in {processed, processed \cup {cur}}
    BY <1>9 DEF Commit, ProcessFails
  <2>3. faults' \in Nat
    BY <1>9, <1>f DEF Commit, ProcessFails, Fault
  <2>4. UNCHANGED db \/ PersistEvent(wkSaw, cur)
    BY <1>9 DEF Commit, ProcessFails
  <2>5. rows' \subseteq Events /\ window' \in Window /\ synced' \subseteq Events
    <3>1. CASE UNCHANGED db
      BY <1>0, <3>1 DEF TypeOK
    <3>2. CASE PersistEvent(wkSaw, cur)
      <4>1. wkSaw \in Window
        BY <1>0 DEF TypeOK
      <4>2. rows' = rows \cup {cur} /\ window' \in Window /\ synced' \subseteq Events
        BY <1>0, <2>1, <3>2, <4>1, PersistType
      <4> QED
        BY <1>0, <2>1, <4>2 DEF TypeOK
    <3> QED
      BY <2>4, <3>1, <3>2
  <2> QED
    BY <1>0, <2>1, <2>2, <2>3, <2>5 DEF TypeOK
<1>10. ASSUME move_agent_event_to_dead_letter PROVE TypeOK'
  <2>1. cur \in Events
    BY <1>10 DEF move_agent_event_to_dead_letter, IInv, AckedSettled
  <2> QED
    BY <1>0, <1>10, <2>1 DEF TypeOK, move_agent_event_to_dead_letter
<1>11. ASSUME ack_agent_events PROVE TypeOK'
  <2>1. pending' \in [Events -> Nat]
    BY <1>0, <1>11 DEF ack_agent_events, TypeOK
  <2>2. wk' \in {"xdel", "dead xdel"} /\ idle' \subseteq idle
        /\ UNCHANGED <<server, stream, queued, delivered, dead, seen, batch, wkSaw, db, faults>>
    BY <1>11 DEF ack_agent_events
  <2> QED
    BY <1>0, <2>1, <2>2 DEF TypeOK
<1>12. ASSUME DeleteAcked \/ IterationFails \/ Crash PROVE TypeOK'
  <2>1. /\ stream' \subseteq stream /\ seen' \subseteq seen
        /\ wk' \in {"claim", "batch", "down"}
        /\ NoBatch \/ UNCHANGED batch
        /\ faults' \in Nat
        /\ UNCHANGED <<server, queued, delivered, pending, idle, dead, wkSaw, db>>
    BY <1>12, <1>f DEF DeleteAcked, IterationFails, Crash, Fault
  <2> QED
    BY <1>0, <2>1 DEF TypeOK, NoBatch
<1>13. ASSUME NEW e \in Events, Age(e) PROVE TypeOK'
  BY <1>0, <1>13 DEF TypeOK, Age
<1>14. ASSUME UNCHANGED vars PROVE TypeOK'
  BY <1>0, <1>14 DEF TypeOK, vars
<1> QED
  BY <1>1, <1>2, <1>3, <1>4, <1>5, <1>6, <1>7, <1>8, <1>9, <1>10, <1>11, <1>12, <1>13, <1>14
     DEF Next, Serve, Work
-----------------------------------------------------------------------------
(* No event is lost.                                                       *)

\* Steps that take nothing from the stream, the pending list or the tables, and give
\* the group nothing, keep every event accounted for.
LEMMA StaysAccounted ==
  ASSUME TypeOK, \A e \in Events : Accounted(e),
         stream \subseteq stream', rows \subseteq rows', dead \subseteq dead',
         accepted' \subseteq accepted \cup rows',
         \A e \in Events : e \in stream' => e \in stream,
         delivered' = delivered,
         \A e \in Events : pending[e] > 0 => pending'[e] > 0
  PROVE  \A e \in Events : Accounted(e)'
BY DEF Accounted

\* Every step keeps every event accounted for.
LEMMA StepAccounted == IInv /\ [Next]_vars => (\A e \in Events : Accounted(e))'
<1> SUFFICES ASSUME IInv, [Next]_vars PROVE \A e \in Events : Accounted(e)'
    OBVIOUS
<1> USE DEF server, queue, batch, db
<1>0. TypeOK /\ \A e \in Events : Accounted(e)
  BY DEF IInv
<1>1. ASSUME enqueue_managed_agent_event \/ AgentEventQueueUnavailable
      PROVE  \A e \in Events : Accounted(e)'
  <2>1. /\ UNCHANGED <<delivered, pending, rows, dead>>
        /\ \/ stream' = stream \cup {sent + 1} /\ accepted' \subseteq accepted \cup {sent + 1}
           \/ UNCHANGED <<stream, accepted>>
    BY <1>1 DEF enqueue_managed_agent_event, AgentEventQueueUnavailable, Enqueue
  <2>2. sent + 1 \notin delivered
    <3>1. delivered \subseteq 1..sent /\ sent \in Nat
      BY <1>0, SentType DEF IInv, OnlySent
    <3> QED
      BY <3>1
  <2> QED
    BY <1>0, <2>1, <2>2 DEF Accounted
<1>2. ASSUME \/ InlineBegin \/ InlineRefused \/ InlineCommit \/ InlineFails
             \/ Start \/ LeavePending \/ _remember_recent_tail_events
             \/ read_recent_agent_event_tail \/ Begin \/ Commit \/ ProcessFails
             \/ move_agent_event_to_dead_letter \/ IterationFails \/ Crash
             \/ (\E e \in Events : Age(e)) \/ UNCHANGED vars
      PROVE  \A e \in Events : Accounted(e)'
  <2>1. UNCHANGED <<stream, delivered, pending>>
    BY <1>2 DEF InlineBegin, InlineRefused, InlineCommit, InlineFails, Start, LeavePending,
                ensure_agent_event_consumer_group, _remember_recent_tail_events,
                read_recent_agent_event_tail, Begin, Commit, ProcessFails,
                move_agent_event_to_dead_letter, IterationFails, Crash, Age, vars
  <2>2. dead \subseteq dead'
    BY <1>2 DEF InlineBegin, InlineRefused, InlineCommit, InlineFails, Start, LeavePending,
                _remember_recent_tail_events,
                read_recent_agent_event_tail, Begin, Commit, ProcessFails,
                move_agent_event_to_dead_letter, IterationFails, Crash, Age, vars
  <2>3. rows \subseteq rows' /\ accepted' \subseteq accepted \cup rows'
    BY <1>2 DEF InlineBegin, InlineRefused, InlineCommit, InlineFails, Start, LeavePending,
                _remember_recent_tail_events, PersistEvent,
                read_recent_agent_event_tail, Begin, Commit, ProcessFails,
                move_agent_event_to_dead_letter, IterationFails, Crash, Age, vars
  <2> QED
    BY <1>0, <2>1, <2>2, <2>3, StaysAccounted
<1>3. ASSUME claim_stale_agent_events PROVE \A e \in Events : Accounted(e)'
  <2>1. claimed' \in SUBSET Events
    BY <1>0, <1>3, Subsets DEF claim_stale_agent_events, TypeOK
  <2>2. \A e \in Events : pending'[e] >= pending[e] /\ pending'[e] \in Nat /\ pending[e] \in Nat
    BY <1>0, <1>3, <2>1, DeliverType DEF claim_stale_agent_events, TypeOK
  <2>3. \A e \in Events : pending[e] > 0 => pending'[e] > 0
    BY <2>2
  <2>4. UNCHANGED <<stream, delivered, accepted, rows, dead>>
    BY <1>3 DEF claim_stale_agent_events
  <2> QED
    BY <1>0, <2>3, <2>4, StaysAccounted
<1>4. ASSUME read_agent_event_batch PROVE \A e \in Events : Accounted(e)'
  <2>1. fresh' \in SUBSET Events
    BY <1>0, <1>4, Subsets DEF read_agent_event_batch, TypeOK
  <2>2. \A e \in Events : /\ pending'[e] >= pending[e]
                          /\ pending'[e] \in Nat /\ pending[e] \in Nat
                          /\ e \in fresh' => pending'[e] > 0
    BY <1>0, <1>4, <2>1, DeliverType DEF read_agent_event_batch, TypeOK
  <2>3. \A e \in Events : /\ pending[e] > 0 => pending'[e] > 0
                          /\ e \in fresh' => pending'[e] > 0
    BY <2>2
  <2>4. UNCHANGED <<stream, accepted, rows, dead>> /\ delivered' = delivered \cup fresh'
    BY <1>4 DEF read_agent_event_batch
  <2> QED
    BY <1>0, <2>3, <2>4 DEF Accounted
<1>5. ASSUME ack_agent_events \/ DeleteAcked PROVE \A e \in Events : Accounted(e)'
  <2>1. Acked \subseteq rows \cup dead
    BY <1>5 DEF ack_agent_events, DeleteAcked, Acked, IInv, AckedSettled
  <2>2. UNCHANGED <<accepted, delivered, rows, dead>>
    BY <1>5 DEF ack_agent_events, DeleteAcked
  <2>3. \A e \in Events \ Acked : (e \in stream' <=> e \in stream) /\ pending'[e] = pending[e]
    BY <1>5 DEF ack_agent_events, DeleteAcked
  <2> QED
    BY <1>0, <2>1, <2>2, <2>3 DEF Accounted
<1> QED
  BY <1>1, <1>2, <1>3, <1>4, <1>5 DEF Next, Serve, Work

\* The rest of the invariant.
LEMMA StepRest == IInv /\ [Next]_vars => (OnlySent /\ ServerSent /\ AckedSettled)'
<1> SUFFICES ASSUME IInv, [Next]_vars PROVE (OnlySent /\ ServerSent /\ AckedSettled)'
    OBVIOUS
<1> USE DEF server, queue, batch, db
<1>0. TypeOK /\ OnlySent /\ ServerSent /\ AckedSettled
  BY DEF IInv
<1>1. ASSUME enqueue_managed_agent_event \/ AgentEventQueueUnavailable
      PROVE  (OnlySent /\ ServerSent /\ AckedSettled)'
  <2>1. /\ sent' = sent + 1 /\ sent' \in Events /\ sent \in Nat
        /\ stream' \in {stream, stream \cup {sent + 1}}
        /\ UNCHANGED <<delivered, dead, wk, processed, cur, rows>>
    BY <1>0, <1>1, SentType DEF enqueue_managed_agent_event, AgentEventQueueUnavailable, Enqueue
  <2>2. OnlySent'
    <3>1. 1..sent \subseteq 1..(sent + 1) /\ sent + 1 \in 1..(sent + 1)
      BY <2>1
    <3> QED
      BY <1>0, <2>1, <3>1 DEF OnlySent
  <2> QED
    BY <1>0, <2>1, <2>2 DEF ServerSent, AckedSettled
<1>2. ASSUME \/ InlineBegin \/ InlineRefused \/ InlineCommit \/ InlineFails
      PROVE  (OnlySent /\ ServerSent /\ AckedSettled)'
  <2>1. /\ UNCHANGED <<sent, stream, delivered, dead, wk, processed, cur>>
        /\ srv' = "idle" \/ (srv' = "tx" /\ srv = "persist")
    BY <1>2 DEF InlineBegin, InlineRefused, InlineCommit, InlineFails
  <2>2. rows \subseteq rows'
    BY <1>2 DEF InlineBegin, InlineRefused, InlineCommit, InlineFails, PersistEvent
  <2> QED
    BY <1>0, <2>1, <2>2 DEF OnlySent, ServerSent, AckedSettled
<1>3. ASSUME \/ Start \/ claim_stale_agent_events \/ read_recent_agent_event_tail
             \/ LeavePending \/ _remember_recent_tail_events
             \/ IterationFails \/ Crash \/ (\E e \in Events : Age(e)) \/ UNCHANGED vars
      PROVE  (OnlySent /\ ServerSent /\ AckedSettled)'
  <2>1. /\ UNCHANGED <<sent, srv, stream, delivered, dead, rows>>
        /\ processed' \subseteq processed
        /\ wk' \in {"tx", "failed", "dead xack", "dead xdel"} => wk' = wk /\ cur' = cur
    BY <1>3 DEF Start, claim_stale_agent_events, read_recent_agent_event_tail, LeavePending,
                ensure_agent_event_consumer_group, _remember_recent_tail_events,
                IterationFails, Crash, Age, vars, NoBatch
  <2> QED
    BY <1>0, <2>1 DEF OnlySent, ServerSent, AckedSettled
<1>4. ASSUME read_agent_event_batch PROVE (OnlySent /\ ServerSent /\ AckedSettled)'
  <2>1. fresh' \subseteq stream
    BY <1>0, <1>4, Subsets DEF read_agent_event_batch
  <2> QED
    BY <1>0, <1>4, <2>1 DEF read_agent_event_batch, OnlySent, ServerSent, AckedSettled
<1>5. ASSUME Begin PROVE (OnlySent /\ ServerSent /\ AckedSettled)'
  <2>1. cur' \in Events
    BY <1>0, <1>5, Subsets DEF Begin
  <2>2. wk' = "tx" /\ UNCHANGED <<sent, srv, stream, delivered, dead, rows, processed>>
    BY <1>5 DEF Begin
  <2> QED
    BY <1>0, <2>1, <2>2 DEF OnlySent, ServerSent, AckedSettled
<1>6. ASSUME Commit \/ ProcessFails PROVE (OnlySent /\ ServerSent /\ AckedSettled)'
  <2>1. /\ UNCHANGED <<sent, srv, stream, delivered, dead, cur>>
        /\ wk = "tx" /\ wk' \in {"batch", "failed"}
    BY <1>6 DEF Commit, ProcessFails
  <2>2. processed' \subseteq rows' /\ rows \subseteq rows'
    BY <1>0, <1>6 DEF Commit, ProcessFails, PersistEvent, AckedSettled
  <2> QED
    BY <1>0, <2>1, <2>2 DEF OnlySent, ServerSent, AckedSettled
<1>7. ASSUME \/ move_agent_event_to_dead_letter \/ ack_agent_events \/ DeleteAcked
      PROVE  (OnlySent /\ ServerSent /\ AckedSettled)'
  <2>1. /\ UNCHANGED <<sent, srv, delivered, rows>>
        /\ stream' \subseteq stream /\ processed' \subseteq processed
        /\ wk' \in {"dead xack", "xdel", "dead xdel", "claim", "batch"}
        /\ wk' = "dead xack" => wk = "failed" /\ cur \in dead' /\ cur' = cur
        /\ wk' = "dead xdel" => wk = "dead xack" /\ dead' = dead /\ cur' = cur
    BY <1>7 DEF move_agent_event_to_dead_letter, ack_agent_events, DeleteAcked, NoBatch
  <2> QED
    BY <1>0, <2>1 DEF OnlySent, ServerSent, AckedSettled
<1> QED
  BY <1>1, <1>2, <1>3, <1>4, <1>5, <1>6, <1>7 DEF Next, Serve, Work

\* IInv is an invariant.
THEOREM EventsInvariant == Spec => []IInv
<1>1. IInv /\ [Next]_vars => IInv'
  BY StepTypeOK, StepAccounted, StepRest DEF IInv
<1> QED
  BY <1>1, InitIInv, PTL DEF Spec

\* The variables keep their types.
THEOREM TypeCorrect == Spec => []TypeOK
<1>1. IInv => TypeOK
  BY DEF IInv
<1> QED
  BY <1>1, EventsInvariant, PTL

\* No event that was acknowledged to the client is lost.
THEOREM AcceptedNotLost == Spec => []NoEventLost
<1>1. IInv => NoEventLost
  BY DEF IInv, TypeOK, NoEventLost, Accounted
<1> QED
  BY <1>1, EventsInvariant, PTL

-----------------------------------------------------------------------------
(* An agent without subagents: the completions of its window.              *)

\* No subagent is counted, and the latest activity is that of a persisted event, in the
\* window and as the two transactions read it.
Plain(w, persisted) == w.count = 0 /\ w.latest \in persisted \cup {0}
NoSubagents == Plain(window, rows) /\ Plain(srvSaw, rows) /\ Plain(wkSaw, rows)

\* Whatever is on its way was sent.
OnlySentEvents ==
  /\ queued \cup rows \cup idle \cup processed \cup recent \cup fresh \cup claimed \subseteq 1..sent
  /\ \A e \in Events : pending[e] > 0 => e <= sent
  /\ wk \in {"tx", "failed"} => cur <= sent

\* The worker has persisted the event, for the last time unless it gets it once more.
Handed(e) == e \in queued \ dead /\ (e \in stream => e \in processed)

\* The window has the completion or a later one, and the worker's transaction knows.
Counted(e) == window.completed >= e /\ (wk = "tx" => wkSaw.completed >= e)

\* The transaction that leaves the completion as it read it leaves it late enough.
SeenLate == wk = "tx" /\ cur \in Completions /\ wkSaw.completed >= cur => window.completed >= cur

\* The inductive invariant, on top of IInv.
CompletionInv ==
  /\ NoSubagents
  /\ OnlySentEvents
  /\ CompletionSynced
  /\ \A e \in Completions : Handed(e) => Counted(e)
  /\ SeenLate

\* The initial states satisfy it.
LEMMA InitCompletion == Init => CompletionInv
BY DEF Init, CompletionInv, NoSubagents, Plain, NoActivity, Columns, OnlySentEvents,
       CompletionSynced, Handed, SeenLate

\* Without subagents an event moves the latest activity and completion only.
LEMMA TouchPlain ==
  ASSUME Calls = {}, NEW w \in Window, w.count = 0, NEW e \in Nat
  PROVE  LET new == _touch_agent_activity_state(w, e)
         IN  /\ new \in Window /\ new.count = 0 /\ new.latest \in {e, w.latest}
             /\ new.completed = IF e \in Completions THEN Later(e, w.completed) ELSE w.completed
<1>1. maybe_promote_stale_subagent_state(w, e) = w
  BY DEF maybe_promote_stale_subagent_state
<1>2. apply_subagent_event(w, e) = w
  BY DEF apply_subagent_event
<1> DEFINE v == _touch_agent_completion_state(w, e)
<1>3. _touch_agent_activity_state(w, e) = [v EXCEPT !.latest = Later(e, w.latest)]
  BY <1>1, <1>2 DEF _touch_agent_activity_state
<1>4. /\ v \in Window /\ v.count = 0
      /\ v.completed = IF e \in Completions THEN Later(e, w.completed) ELSE w.completed
  <2>1. CASE e \notin Completions
    BY <2>1 DEF _touch_agent_completion_state
  <2>2. CASE e \in Completions
    <3>1. v = [w EXCEPT !.completed = Later(e, w.completed), !.deferred = 0]
      BY <2>2 DEF _touch_agent_completion_state
    <3>2. Later(e, w.completed) \in Nat
      BY LaterType DEF Window, Columns
    <3> HIDE DEF v
    <3> QED
      BY <2>2, <3>1, <3>2 DEF Window, Columns
  <2> QED
    BY <2>1, <2>2
<1>5. Later(e, w.latest) \in {e, w.latest}
  BY DEF Later
<1>6. _touch_agent_activity_state(w, e) \in Window
  BY TouchType
<1> HIDE DEF v
<1> QED
  BY <1>3, <1>4, <1>5, <1>6 DEF Window, Columns

\* A transaction without subagents: it hands over a completion unless it read it as the
\* latest activity, and it leaves the completion as it is or makes it late enough.
LEMMA PersistPlain ==
  ASSUME Calls = {}, TypeOK, NEW w \in Window, NEW e \in Events, PersistEvent(w, e),
         Plain(w, rows), Plain(window, rows)
  PROVE  /\ Plain(window', rows') /\ rows' = rows \cup {e}
         /\ synced \subseteq synced'
         /\ e \in Completions => e \in synced' \/ e \in Sidechain \/ e \in rows
         /\ window'.completed # window.completed =>
              e \in Completions /\ window'.completed >= e /\ window'.completed >= w.completed
         /\ e \in Completions => window'.completed >= e
                                 \/ (w.completed >= e /\ window'.completed = window.completed)
<1>0. e \in Nat /\ e # 0
  BY DEF Events
<1> DEFINE new == _touch_agent_activity_state(w, e)
<1>1. /\ new \in Window /\ new.count = 0 /\ new.latest \in {e, w.latest}
      /\ new.completed = IF e \in Completions THEN Later(e, w.completed) ELSE w.completed
  BY <1>0, TouchPlain DEF Plain
<1>2. /\ rows' = rows \cup {e}
      /\ window' = [c \in Columns |-> IF new[c] # w[c] THEN new[c] ELSE window[c]]
      /\ synced' = IF /\ e \in Completions /\ ~_duplicate_completed_event(w, e)
                      /\ e \notin Sidechain /\ new.count = 0
                   THEN synced \cup {e} ELSE synced
  BY DEF PersistEvent
<1> HIDE DEF new
<1>3. /\ window'.count = IF new.count # w.count THEN new.count ELSE window.count
      /\ window'.latest = IF new.latest # w.latest THEN new.latest ELSE window.latest
      /\ window'.completed = IF new.completed # w.completed THEN new.completed
                             ELSE window.completed
  BY <1>2 DEF Columns
<1>4. Plain(window', rows')
  BY <1>1, <1>2, <1>3 DEF Plain
<1>5. e \in Completions => e \in synced' \/ e \in Sidechain \/ e \in rows
  BY <1>0, <1>1, <1>2 DEF _duplicate_completed_event, Plain
<1>6. w.completed \in Nat /\ window.completed \in Nat
  BY DEF TypeOK, Window, Columns
<1>7. Later(e, w.completed) >= e /\ Later(e, w.completed) >= w.completed
  BY <1>0, <1>6 DEF Later
<1>8. window'.completed # window.completed =>
        e \in Completions /\ window'.completed >= e /\ window'.completed >= w.completed
  BY <1>1, <1>3, <1>7
<1>9. e \in Completions => window'.completed >= e
                           \/ (w.completed >= e /\ window'.completed = window.completed)
  BY <1>0, <1>1, <1>3, <1>6, <1>7
<1> QED
  BY <1>2, <1>4, <1>5, <1>8, <1>9

\* A transaction keeps what is persisted handed over, and nobody reads a subagent.
LEMMA PersistSynced ==
  ASSUME Calls = {}, TypeOK, NoSubagents, CompletionSynced, NEW w \in Window,
         NEW e \in Events, PersistEvent(w, e), Plain(w, rows), UNCHANGED <<srvSaw, wkSaw>>
  PROVE  NoSubagents' /\ CompletionSynced'
<1>1. /\ Plain(window', rows') /\ rows' = rows \cup {e}
      /\ synced \subseteq synced'
      /\ e \in Completions => e \in synced' \/ e \in Sidechain \/ e \in rows
  BY PersistPlain DEF NoSubagents
<1> QED
  BY <1>1 DEF NoSubagents, Plain, CompletionSynced

\* The server persists the newest event: what it writes is late enough for all others.
LEMMA ServerCompletion ==
  ASSUME Calls = {}, IInv, CompletionInv, srv = "tx", PersistEvent(srvSaw, sent),
         UNCHANGED <<sent, srvSaw, queue, wk, seen, batch, wkSaw>>
  PROVE  CompletionInv'
<1>0. TypeOK /\ sent \in Events /\ srvSaw \in Window /\ sent \in Nat
  <2>1. TypeOK /\ sent \in Events
    BY DEF IInv, ServerSent
  <2> QED
    BY <2>1, SentType DEF TypeOK
<1>1. NoSubagents' /\ CompletionSynced'
  BY <1>0, PersistSynced DEF CompletionInv, NoSubagents
<1>2. /\ rows' = rows \cup {sent}
      /\ window'.completed # window.completed => window'.completed >= sent
  BY <1>0, PersistPlain DEF CompletionInv, NoSubagents
<1>3. sent \in 1..sent
  BY <1>0 DEF Events
<1>4. OnlySentEvents'
  BY <1>2, <1>3 DEF CompletionInv, OnlySentEvents, queue, batch
<1>5. window'.completed \in Nat /\ window.completed \in Nat
  BY <1>0, PersistType DEF TypeOK, Window, Columns
<1>6. \A e \in 1..sent : window.completed >= e => window'.completed >= e
  BY <1>0, <1>2, <1>5
<1>7. ASSUME NEW e \in Completions, Handed(e)' PROVE Counted(e)'
  <2>1. Handed(e) /\ e \in 1..sent
    BY <1>7 DEF Handed, CompletionInv, OnlySentEvents, queue, batch
  <2>2. Counted(e)
    BY <2>1 DEF CompletionInv
  <2> QED
    BY <1>6, <2>1, <2>2 DEF Counted
<1>8. SeenLate'
  <2> SUFFICES ASSUME wk = "tx", cur \in Completions, wkSaw.completed >= cur
               PROVE  window'.completed >= cur
    BY DEF SeenLate, batch
  <2>1. window.completed >= cur
    BY DEF CompletionInv, SeenLate
  <2>2. cur \in Events /\ cur <= sent
    BY DEF CompletionInv, OnlySentEvents, IInv, AckedSettled
  <2>3. cur \in 1..sent
    BY <1>0, <2>2 DEF Events
  <2> QED
    BY <1>6, <2>1, <2>3
<1> QED
  BY <1>1, <1>4, <1>7, <1>8 DEF CompletionInv

\* The worker persists an event, and may then find that it failed.
LEMMA WorkerCompletion ==
  ASSUME Calls = {}, IInv, CompletionInv, wk = "tx", wk' \in {"batch", "failed"},
         PersistEvent(wkSaw, cur), processed' \in {processed, processed \cup {cur}},
         UNCHANGED <<server, queue, seen, recent, fresh, claimed, tail, cur, wkSaw>>
  PROVE  CompletionInv'
<1>0. TypeOK /\ cur \in Events /\ wkSaw \in Window /\ cur <= sent /\ sent \in Nat
  BY DEF IInv, TypeOK, AckedSettled, CompletionInv, OnlySentEvents
<1>1. NoSubagents' /\ CompletionSynced'
  BY <1>0, PersistSynced DEF CompletionInv, NoSubagents, server
<1>2. /\ rows' = rows \cup {cur}
      /\ window'.completed # window.completed => window'.completed >= wkSaw.completed
      /\ cur \in Completions => \/ window'.completed >= cur
                                \/ /\ wkSaw.completed >= cur
                                   /\ window'.completed = window.completed
  BY <1>0, PersistPlain DEF CompletionInv, NoSubagents
<1>3. cur \in 1..sent
  BY <1>0 DEF Events
<1>4. OnlySentEvents'
  BY <1>2, <1>3 DEF CompletionInv, OnlySentEvents, queue, server
<1>5. window'.completed \in Nat /\ window.completed \in Nat /\ wkSaw.completed \in Nat
  BY <1>0, PersistType DEF TypeOK, Window, Columns
<1>6. ASSUME NEW e \in Completions, Handed(e)' PROVE Counted(e)'
  <2>1. CASE e = cur
    <3>1. window'.completed >= cur
      BY <1>2, <2>1 DEF CompletionInv, SeenLate
    <3> QED
      BY <2>1, <3>1 DEF Counted
  <2>2. CASE e # cur
    <3>1. Handed(e) /\ e \in 1..sent
      BY <1>6, <2>2 DEF Handed, CompletionInv, OnlySentEvents, queue
    <3>2. window.completed >= e /\ wkSaw.completed >= e
      BY <3>1 DEF CompletionInv, Counted
    <3>3. window'.completed >= e
      BY <1>2, <1>5, <3>1, <3>2
    <3> QED
      BY <3>3 DEF Counted
  <2> QED
    BY <2>1, <2>2
<1> QED
  BY <1>1, <1>4, <1>6 DEF CompletionInv, SeenLate

\* Steps that persist nothing and hand the worker no event.
LEMMA StaysCompletion ==
  ASSUME IInv, CompletionInv,
         UNCHANGED <<sent, db, queued, wkSaw>>,
         srvSaw' \in {srvSaw, window},
         dead \subseteq dead',
         \A e \in Events \ dead' : (e \in stream' => e \in processed') =>
                                   (e \in stream => e \in processed),
         idle' \cup processed' \cup recent' \cup fresh' \cup claimed' \subseteq 1..sent,
         \A e \in Events : pending'[e] > 0 => e <= sent,
         wk' = "tx" => wk = "tx" /\ cur' = cur,
         wk' = "failed" => wk \in {"tx", "failed"} /\ cur' = cur
  PROVE  CompletionInv'
<1>1. NoSubagents' /\ CompletionSynced'
  BY DEF CompletionInv, NoSubagents, CompletionSynced, db
<1>2. OnlySentEvents'
  BY DEF CompletionInv, OnlySentEvents, db
<1>3. ASSUME NEW e \in Completions, Handed(e)' PROVE Counted(e)'
  <2>1. e \in queued \ dead' /\ e \in Events
    BY <1>3 DEF Handed, IInv, TypeOK
  <2>2. Handed(e)
    BY <1>3, <2>1 DEF Handed
  <2>3. Counted(e)
    BY <2>2 DEF CompletionInv
  <2> QED
    BY <2>3 DEF Counted, db
<1>4. SeenLate'
  BY DEF CompletionInv, SeenLate, db
<1> QED
  BY <1>1, <1>2, <1>3, <1>4 DEF CompletionInv

\* The server takes the next event, which is in the stream if it ever was.
LEMMA EnqueueCompletion ==
  ASSUME IInv, CompletionInv, enqueue_managed_agent_event \/ AgentEventQueueUnavailable
  PROVE  CompletionInv'
<1>1. /\ sent' = sent + 1 /\ sent \in Nat /\ processed \subseteq 1..sent
      /\ \/ stream' = stream \cup {sent + 1} /\ queued' = queued \cup {sent + 1}
         \/ UNCHANGED <<stream, queued>>
      /\ UNCHANGED <<srvSaw, dead, idle, pending, wk, batch, wkSaw, db>>
  BY SentType DEF enqueue_managed_agent_event, AgentEventQueueUnavailable, Enqueue, IInv,
                  CompletionInv, OnlySentEvents
<1>2. 1..sent \subseteq 1..(sent + 1) /\ sent + 1 \in 1..(sent + 1) /\ sent + 1 \notin 1..sent
  BY <1>1
<1>3. OnlySentEvents'
  <2>1. \A e \in Events : e <= sent => e <= sent + 1
    BY <1>1 DEF Events
  <2>2. wk \in {"tx", "failed"} => cur <= sent + 1
    <3>1. wk \in {"tx", "failed"} => cur \in Events /\ cur <= sent
      BY DEF CompletionInv, OnlySentEvents, IInv, AckedSettled
    <3>2. \A e \in Events : e <= sent => e <= sent + 1
      BY <1>1 DEF Events
    <3> QED
      BY <3>1, <3>2
  <2> QED
    BY <1>1, <1>2, <2>1, <2>2 DEF CompletionInv, OnlySentEvents, batch, db
<1>4. ASSUME NEW e \in Completions, Handed(e)' PROVE Counted(e)'
  <2>1. Handed(e)
    BY <1>1, <1>2, <1>4 DEF Handed, batch
  <2>2. Counted(e)
    BY <2>1 DEF CompletionInv
  <2> QED
    BY <1>1, <2>2 DEF Counted, db
<1>5. NoSubagents' /\ CompletionSynced' /\ SeenLate'
  BY <1>1 DEF CompletionInv, NoSubagents, CompletionSynced, SeenLate, batch, db
<1> QED
  BY <1>3, <1>4, <1>5 DEF CompletionInv

\* The worker opens a transaction: it reads what the window holds by then.
LEMMA BeginCompletion ==
  ASSUME IInv, CompletionInv, Begin
  PROVE  CompletionInv'
<1>1. PICK e \in NextUp : /\ cur' = e
                          /\ recent' = recent \ {e}
                          /\ fresh' = fresh \ {e}
                          /\ claimed' = claimed \ {e}
  BY DEF Begin
<1>2. /\ wk = "batch" /\ wk' = "tx" /\ wkSaw' = window
      /\ UNCHANGED <<server, queue, seen, tail, processed, db>>
  BY DEF Begin
<1>3. e \in 1..sent
  <2>1. e \in recent \cup fresh \cup claimed
    BY DEF NextUp, First
  <2> QED
    BY <2>1 DEF CompletionInv, OnlySentEvents
<1>4. OnlySentEvents'
  <2>1. e <= sent
    BY <1>3
  <2> QED
    BY <1>1, <1>2, <2>1 DEF CompletionInv, OnlySentEvents, server, queue, db
<1>5. \A d \in Completions : Handed(d)' => Counted(d)'
  BY <1>2 DEF CompletionInv, Handed, Counted, queue, db
<1>6. NoSubagents' /\ CompletionSynced' /\ SeenLate'
  BY <1>2 DEF CompletionInv, NoSubagents, CompletionSynced, SeenLate, server, db
<1> QED
  BY <1>4, <1>5, <1>6 DEF CompletionInv

\* The entries that are delivered were sent.
LEMMA DeliverSent ==
  ASSUME IInv, CompletionInv, NEW S \in SUBSET Events, S \subseteq 1..sent, Deliver(S)
  PROVE  \A e \in Events : pending'[e] > 0 => e <= sent
<1>1. \A e \in Events : pending'[e] = IF e \in S THEN pending[e] + 1 ELSE pending[e]
  BY DEF Deliver
<1> QED
  BY <1>1 DEF CompletionInv, OnlySentEvents

\* Every step keeps the invariant.
LEMMA StepCompletion ==
  ASSUME Calls = {}
  PROVE  IInv /\ CompletionInv /\ [Next]_vars => CompletionInv'
<1> SUFFICES ASSUME IInv, CompletionInv, [Next]_vars PROVE CompletionInv'
    OBVIOUS
<1>0. /\ TypeOK /\ stream \subseteq 1..sent
      /\ queued \cup rows \cup idle \cup processed \cup recent \cup fresh \cup claimed
           \subseteq 1..sent
      /\ \A e \in Events : pending[e] > 0 => e <= sent
  BY DEF IInv, OnlySent, CompletionInv, OnlySentEvents
<1>1. ASSUME InlineCommit \/ InlineFails PROVE CompletionInv'
  <2>1. /\ UNCHANGED <<sent, srvSaw, queue, wk, seen, batch, wkSaw>>
        /\ UNCHANGED db \/ (srv = "tx" /\ PersistEvent(srvSaw, sent))
    BY <1>1 DEF InlineCommit, InlineFails
  <2>2. CASE UNCHANGED db
    BY <1>0, <2>1, <2>2, StaysCompletion DEF queue, batch
  <2>3. CASE srv = "tx" /\ PersistEvent(srvSaw, sent)
    BY <2>1, <2>3, ServerCompletion
  <2> QED
    BY <2>1, <2>2, <2>3
<1>2. ASSUME Commit \/ ProcessFails PROVE CompletionInv'
  <2>1. /\ wk = "tx" /\ wk' \in {"batch", "failed"}
        /\ UNCHANGED <<server, queue, seen, recent, fresh, claimed, tail, cur, wkSaw>>
        /\ \/ PersistEvent(wkSaw, cur) /\ processed' \in {processed, processed \cup {cur}}
           \/ UNCHANGED <<db, processed>>
    BY <1>2 DEF Commit, ProcessFails, batch
  <2>2. CASE UNCHANGED <<db, processed>>
    BY <1>0, <2>1, <2>2, StaysCompletion DEF queue, server
  <2>3. CASE PersistEvent(wkSaw, cur) /\ processed' \in {processed, processed \cup {cur}}
    BY <2>1, <2>3, WorkerCompletion
  <2> QED
    BY <2>1, <2>2, <2>3
<1>3. ASSUME \/ InlineBegin \/ InlineRefused \/ Start \/ LeavePending
             \/ move_agent_event_to_dead_letter \/ _remember_recent_tail_events
             \/ IterationFails \/ Crash \/ UNCHANGED vars
      PROVE  CompletionInv'
  <2>1. /\ UNCHANGED <<sent, db, queued, wkSaw, stream, idle, pending>>
        /\ srvSaw' \in {srvSaw, window} /\ dead \subseteq dead'
        /\ NoBatch \/ UNCHANGED batch
        /\ wk' \in {"tx", "failed"} => wk' = wk /\ cur' = cur
    BY <1>3 DEF InlineBegin, InlineRefused, Start, ensure_agent_event_consumer_group,
                LeavePending, move_agent_event_to_dead_letter, _remember_recent_tail_events,
                IterationFails, Crash, vars, server, queue, batch
  <2>2. /\ processed' \subseteq processed /\ recent' \subseteq recent
        /\ fresh' \subseteq fresh /\ claimed' \subseteq claimed
    BY <2>1 DEF NoBatch, batch
  <2> QED
    BY <1>0, <2>1, <2>2, StaysCompletion
<1>4. ASSUME NEW e \in Events, Age(e) PROVE CompletionInv'
  <2>1. /\ UNCHANGED <<sent, srvSaw, db, queued, wkSaw, stream, dead, pending, batch, wk>>
        /\ idle' = idle \cup {e} /\ pending[e] > 0
    BY <1>4 DEF Age, server
  <2>2. e \in 1..sent
    BY <1>0, <2>1, SentType DEF Events
  <2> QED
    BY <1>0, <2>1, <2>2, StaysCompletion DEF batch
<1>5. ASSUME claim_stale_agent_events PROVE CompletionInv'
  <2>1. claimed' \subseteq idle /\ idle' \subseteq idle /\ Deliver(claimed') /\ wk' = "tail"
        /\ UNCHANGED <<sent, srvSaw, db, queued, wkSaw, stream, dead, processed, recent, fresh>>
    BY <1>0, <1>5, Subsets DEF claim_stale_agent_events, server
  <2>2. \A e \in Events : pending'[e] > 0 => e <= sent
    BY <1>0, <2>1, DeliverSent DEF TypeOK
  <2> QED
    BY <1>0, <2>1, <2>2, StaysCompletion
<1>6. ASSUME read_recent_agent_event_tail PROVE CompletionInv'
  <2>1. recent' \subseteq stream /\ wk' = "read"
        /\ UNCHANGED <<sent, srvSaw, db, queue, wkSaw, processed, fresh, claimed>>
    BY <1>0, <1>6, Subsets DEF read_recent_agent_event_tail, server
  <2> QED
    BY <1>0, <2>1, StaysCompletion DEF queue
<1>7. ASSUME read_agent_event_batch PROVE CompletionInv'
  <2>1. fresh' \subseteq stream /\ Deliver(fresh') /\ wk' = "batch"
        /\ UNCHANGED <<sent, srvSaw, db, queued, wkSaw, stream, dead, idle, processed, recent,
                       claimed>>
    BY <1>0, <1>7, Subsets DEF read_agent_event_batch, server
  <2>2. \A e \in Events : pending'[e] > 0 => e <= sent
    BY <1>0, <2>1, DeliverSent DEF TypeOK
  <2> QED
    BY <1>0, <2>1, <2>2, StaysCompletion
<1>8. ASSUME ack_agent_events PROVE CompletionInv'
  <2>1. /\ UNCHANGED <<sent, srvSaw, db, queued, wkSaw, stream, dead, batch>>
        /\ idle' \subseteq idle /\ wk' \in {"xdel", "dead xdel"}
        /\ pending' = [e \in Events |-> IF e \in Acked THEN 0 ELSE pending[e]]
    BY <1>8 DEF ack_agent_events, server
  <2>2. \A e \in Events : pending'[e] > 0 => pending[e] > 0
    <3>1. \A e \in Events : pending'[e] = 0 \/ pending'[e] = pending[e]
      BY <2>1
    <3>2. ~(0 > 0)
      OBVIOUS
    <3> QED
      BY <3>1, <3>2
  <2> QED
    BY <1>0, <2>1, <2>2, StaysCompletion DEF batch
<1>9. ASSUME DeleteAcked PROVE CompletionInv'
  <2>1. /\ UNCHANGED <<sent, srvSaw, db, queued, wkSaw, dead, idle, pending>>
        /\ wk' \in {"claim", "batch"} /\ stream' = stream \ Acked
        /\ NoBatch \/ UNCHANGED batch
        /\ wk = "xdel" => Acked = processed
        /\ wk = "dead xdel" => Acked = {cur} /\ UNCHANGED batch
        /\ wk \in {"xdel", "dead xdel"}
    BY <1>9 DEF DeleteAcked, Acked, server
  <2>2. /\ processed' \subseteq processed /\ recent' \subseteq recent
        /\ fresh' \subseteq fresh /\ claimed' \subseteq claimed
    BY <2>1 DEF NoBatch, batch
  <2>3. Acked \subseteq processed \cup dead
    BY <2>1 DEF IInv, AckedSettled
  <2>4. \A e \in Events \ dead' : (e \in stream' => e \in processed') =>
                                  (e \in stream => e \in processed)
    BY <2>1, <2>2, <2>3
  <2> QED
    BY <1>0, <2>1, <2>2, <2>4, StaysCompletion
<1> QED
  BY <1>1, <1>2, <1>3, <1>4, <1>5, <1>6, <1>7, <1>8, <1>9, EnqueueCompletion, BeginCompletion
     DEF Next, Serve, Work

\* Without subagents, a persisted completion of the window's agent has been handed to the
\* todos of the window: a duplicate is told from a first one, whichever of the two
\* processes comes first and whatever fails.
THEOREM CompletionsReachTodos ==
  ASSUME Calls = {}
  PROVE  Spec => []CompletionSynced
<1>1. CompletionInv => CompletionSynced
  BY DEF CompletionInv
<1>2. IInv /\ CompletionInv /\ [Next]_vars => CompletionInv'
  BY StepCompletion
<1> QED
  BY <1>1, <1>2, EventsInvariant, InitCompletion, PTL DEF Spec

\* Without subagents, once all is processed the window's last completion is the last one
\* there was, whatever columns two transactions took from each other.
THEOREM LastCompletionStands ==
  ASSUME Calls = {}
  PROVE  Spec => []LatestCompletionWins
<1>1. IInv /\ CompletionInv => LatestCompletionWins
  <2> SUFFICES ASSUME IInv, CompletionInv, Quiet, dead \cap rows = {}, queued = 1..sent,
                      NEW e \in Completions \cap rows
               PROVE  e <= window.completed
    BY DEF LatestCompletionWins
  <2>1. e \in 1..sent /\ e \notin dead /\ stream = {}
    BY DEF CompletionInv, OnlySentEvents, Quiet
  <2>2. window.completed >= e
    BY <2>1 DEF CompletionInv, Handed, Counted
  <2>3. window.completed \in Nat /\ e \in Nat
    <3>1. window \in [Columns -> Nat] /\ "completed" \in Columns
      BY DEF IInv, TypeOK, Window, Columns
    <3>2. e \in Nat
      BY <2>1
    <3> QED
      BY <3>1, <3>2
  <2> QED
    BY <2>2, <2>3
<1>2. IInv /\ CompletionInv /\ [Next]_vars => CompletionInv'
  BY StepCompletion
<1> QED
  BY <1>1, <1>2, EventsInvariant, InitCompletion, PTL DEF Spec
=============================================================================
