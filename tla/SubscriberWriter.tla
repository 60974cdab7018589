-------------------------- MODULE SubscriberWriter --------------------------
(***************************************************************************)
(* The bounded queue between the terminal broker and one browser tab       *)
(* (contexts/terminal_runtime/application/subscriber_writer.py): output    *)
(* readers enqueue, one task sends, the tab acknowledges what it has       *)
(* drawn.  Bytes are numbered in the order in which the terminal produced  *)
(* them, so that a payload is the sequence of the numbers of its bytes.    *)
(***************************************************************************)
EXTENDS Integers, Sequences, SequencesExt, FiniteSetsExt

CONSTANTS
  MaxBytes,     \* SUBSCRIBER_WRITER_QUEUE_MAX_BYTES
  MaxMessages,  \* SUBSCRIBER_WRITER_QUEUE_MAX_MESSAGES
  Coalesce,     \* SUBSCRIBER_WRITER_COALESCE_BYTES
  Window,       \* SUBSCRIBER_WRITER_ACK_WINDOW_BYTES
  Chunks,       \* sizes of the outputs read from the terminal
  MaxOffered,   \* bound: bytes the terminal produces
  MaxStatuses   \* bound: status messages

ASSUME WriterAssumption ==
  /\ {MaxBytes, MaxMessages, Coalesce, Window} \subseteq Nat \ {0}
  /\ Chunks \subseteq Nat \ {0}
  /\ {MaxOffered, MaxStatuses} \subseteq Nat

VARIABLES
  queue, queued,     \* _queue, _queued_bytes
  ack,               \* _ack_enabled
  inFlight, frames,  \* _in_flight_bytes, _in_flight_frames
  closed,            \* _closed
  sending,           \* the task is in the sender's await
  failed,            \* the broker has found the writer failed and will drop it
  client,            \* how the tab acknowledges: by "bytes" or by "frames"
  browser,           \* sizes of the frames the tab was sent and has not acknowledged
  offered, statuses, \* bytes and status messages offered so far
  wire,              \* history: bytes handed to the sender
  lost,              \* history: bytes shed or refused
  early              \* history: unacknowledged bytes when acknowledgements began

vars == <<queue, queued, ack, inFlight, frames, closed, sending, failed, client,
          browser, offered, statuses, wire, lost, early>>

Output(bytes) == [kind |-> "output", bytes |-> bytes]
Status == [kind |-> "status", bytes |-> <<>>]
IsOutput(m) == m.kind = "output"

\* A status takes one byte: all that matters is that it takes some.
Size(m) == IF IsOutput(m) THEN Len(m.bytes) ELSE 1

Total(sizes) == FoldLeft(+, 0, sizes)
Sizes(q) == [i \in DOMAIN q |-> Size(q[i])]
Bytes(q) == FoldLeft(LAMBDA bytes, m : bytes \o m.bytes, <<>>, q)

-----------------------------------------------------------------------------
(* Enqueue *)

\* A plausible slip: the payload itself is not counted.
FullByOld(q, n, m) == Len(q) >= MaxMessages \/ n >= MaxBytes

Full(q, n, m) == Len(q) >= MaxMessages \/ n + Size(m) > MaxBytes

\* What a shed leaves of a queue: its statuses.
Kept(q) == FoldLeft(LAMBDA kept, m : IF IsOutput(m) THEN kept ELSE Append(kept, m), <<>>, q)

\* A plausible slip: the byte counter is left as it was.
ShedForgetsBytes(q, n) == [queue |-> Kept(q), queued |-> n]

_shed_queued_byte_output_locked(q, n) ==
  [queue |-> Kept(q), queued |-> n - Len(Bytes(q))]

\* A plausible slip: old output makes way for any tab.
RoomForAll(m) ==
  IF IsOutput(m) /\ Full(queue, queued, m)
  THEN _shed_queued_byte_output_locked(queue, queued)
  ELSE [queue |-> queue, queued |-> queued]

\* The queue in which room for m is sought: a tab that acknowledges can be repainted,
\* so old output makes way for new output.
Room(m) ==
  IF ack /\ IsOutput(m) /\ Full(queue, queued, m)
  THEN _shed_queued_byte_output_locked(queue, queued)
  ELSE [queue |-> queue, queued |-> queued]

Coalesces(q, m) ==
  /\ ~ack /\ IsOutput(m) /\ q # <<>>
  /\ IsOutput(Last(q)) /\ Size(Last(q)) + Size(m) <= Coalesce

Joined(q, m) ==
  IF Coalesces(q, m)
  THEN Append(Front(q), Output(Last(q).bytes \o m.bytes))
  ELSE Append(q, m)

Offer(m) ==
  /\ offered' = offered + Len(m.bytes)
  /\ statuses' = IF IsOutput(m) THEN statuses ELSE statuses + 1

\* The payloads that may be offered next.
Offers ==
  {Output([i \in 1..n |-> offered + i]) : n \in {n \in Chunks : offered + n <= MaxOffered}}
    \union {m \in {Status} : statuses < MaxStatuses}

Accept(m) ==
  LET room == Room(m) IN
  /\ ~closed
  /\ Size(m) <= MaxBytes /\ ~Full(room.queue, room.queued, m)
  /\ Offer(m)
  /\ queue' = Joined(room.queue, m)
  /\ queued' = room.queued + Size(m)
  /\ lost' = IF room.queue = queue THEN lost ELSE lost \union ToSet(Bytes(queue))
  /\ UNCHANGED <<ack, inFlight, frames, closed, sending, failed, client, browser, wire,
                 early>>

\* What was shed in vain stays shed; the broker drops the writer.
Refuse(m) ==
  LET room == Room(m) IN
  /\ ~closed
  /\ Offer(m)
  /\ \/ Size(m) > MaxBytes /\ UNCHANGED <<queue, queued>>
     \/ /\ Size(m) <= MaxBytes /\ Full(room.queue, room.queued, m)
        /\ queue' = room.queue /\ queued' = room.queued
  /\ lost' = lost \union ToSet(m.bytes) \union (ToSet(Bytes(queue)) \ ToSet(Bytes(queue')))
  /\ failed' = TRUE
  /\ UNCHANGED <<ack, inFlight, frames, closed, sending, client, browser, wire, early>>

-----------------------------------------------------------------------------
(* The task *)

_send_window_full_locked ==
  ack /\ queue # <<>> /\ IsOutput(Head(queue)) /\ inFlight >= Window

\* A plausible slip: the frame may fill the whole window whatever is in flight.
BudgetOfWindow ==
  IF ack THEN Min({Coalesce, Window}) ELSE Coalesce

Budget ==
  IF ack THEN Min({Coalesce, Max({1, Window - inFlight})}) ELSE Coalesce

\* How many payloads at the head make up one frame.
JoinCount ==
  Max({1} \union {k \in 1..Len(queue) :
        /\ \A i \in 1..k : IsOutput(queue[i])
        /\ Total(Sizes(SubSeq(queue, 1, k))) <= Budget})

Splits == ack /\ IsOutput(Head(queue)) /\ Size(Head(queue)) > Budget

Frame ==
  IF Splits THEN SubSeq(Head(queue).bytes, 1, Budget)
            ELSE Bytes(SubSeq(queue, 1, JoinCount))

\* A plausible slip: the rest of a split payload goes to the end of the queue.
RestLast ==
  LET h == Head(queue) IN
  IF Splits THEN Append(Tail(queue), Output(SubSeq(h.bytes, Budget + 1, Len(h.bytes))))
            ELSE SubSeq(queue, JoinCount + 1, Len(queue))

\* What a split leaves of the first payload goes back to the head of the queue.
Rest ==
  LET h == Head(queue) IN
  IF Splits THEN <<Output(SubSeq(h.bytes, Budget + 1, Len(h.bytes)))>> \o Tail(queue)
            ELSE SubSeq(queue, JoinCount + 1, Len(queue))

\* A frame counts for the tab from the moment it is handed to the sender: it may be
\* acknowledged before the sender's await has returned.
_next_message ==
  /\ ~closed /\ ~sending
  /\ queue # <<>> /\ ~_send_window_full_locked
  /\ queue' = Rest
  /\ sending' = TRUE
  /\ IF IsOutput(Head(queue))
     THEN /\ queued' = queued - Len(Frame)
          /\ wire' = wire \o Frame
          /\ browser' = Append(browser, Len(Frame))
          /\ inFlight' = IF ack THEN inFlight + Len(Frame) ELSE inFlight
          /\ frames' = IF ack THEN Append(frames, Len(Frame)) ELSE frames
     ELSE /\ queued' = queued - Size(Status)
          /\ UNCHANGED <<wire, browser, inFlight, frames>>
  /\ UNCHANGED <<ack, closed, failed, client, offered, statuses, lost, early>>

SendDone ==
  /\ sending
  /\ sending' = FALSE
  /\ UNCHANGED <<queue, queued, ack, inFlight, frames, closed, failed, client, browser,
                 offered, statuses, wire, lost, early>>

Closed ==
  /\ closed' = TRUE
  /\ queue' = <<>> /\ queued' = 0
  /\ inFlight' = 0 /\ frames' = <<>>
  /\ sending' = FALSE
  /\ UNCHANGED <<ack, client, browser, offered, statuses, wire, lost, early>>

\* The send raised or ran into its timeout.
SendFails == sending /\ Closed /\ failed' = TRUE

\* The broker drops a failed writer, or the tab goes away.
close == ~closed /\ Closed /\ UNCHANGED failed

-----------------------------------------------------------------------------
(* The tab *)

\* The first acknowledgement carries no number: it only says that there will be more.
EnableAcks ==
  /\ ~ack
  /\ ack' = TRUE
  /\ inFlight' = 0 /\ frames' = <<>>
  /\ early' = Total(browser)
  /\ UNCHANGED <<queue, queued, closed, sending, failed, client, browser, offered,
                 statuses, wire, lost>>

\* One acknowledgement per frame.
AckFrame ==
  /\ ack /\ client = "frames" /\ browser # <<>>
  /\ browser' = Tail(browser)
  /\ IF frames # <<>>
     THEN /\ inFlight' = Max({0, inFlight - Head(frames)})
          /\ frames' = Tail(frames)
     ELSE inFlight' = 0 /\ frames' = <<>>
  /\ UNCHANGED <<queue, queued, ack, closed, sending, failed, client, offered, statuses,
                 wire, lost, early>>

\* n acknowledged bytes taken off a sequence of frame sizes.
Released(sizes, n) ==
  LET done == Max({k \in 0..Len(sizes) : Total(SubSeq(sizes, 1, k)) <= n})
      rest == SubSeq(sizes, done + 1, Len(sizes))
      left == n - Total(SubSeq(sizes, 1, done))
  IN  IF rest = <<>> THEN <<>> ELSE <<Head(rest) - left>> \o Tail(rest)

\* A plausible slip: an acknowledgement of more than is in flight is taken for an error.
AckedIfInFlight(n) == IF n > inFlight THEN inFlight ELSE inFlight - n

\* It may cover frames that were sent before acknowledgements were counted.
AckedInFlight(n) == Max({0, inFlight - n})

AckBytes(n) ==
  /\ ack /\ client = "bytes" /\ n <= Total(browser)
  /\ browser' = Released(browser, n)
  /\ inFlight' = AckedInFlight(n)
  /\ frames' = IF inFlight' = 0 THEN <<>> ELSE Released(frames, n)
  /\ UNCHANGED <<queue, queued, ack, closed, sending, failed, client, offered, statuses,
                 wire, lost, early>>

-----------------------------------------------------------------------------
Init ==
  /\ queue = <<>> /\ queued = 0
  /\ ack = FALSE /\ inFlight = 0 /\ frames = <<>>
  /\ closed = FALSE /\ sending = FALSE /\ failed = FALSE
  /\ client \in {"bytes", "frames"} /\ browser = <<>>
  /\ offered = 0 /\ statuses = 0
  /\ wire = <<>> /\ lost = {} /\ early = 0

Acks == AckFrame \/ \E n \in 1..MaxOffered : AckBytes(n)

Next ==
  \/ \E m \in Offers : Accept(m) \/ Refuse(m)
  \/ _next_message \/ SendDone \/ SendFails \/ close
  \/ EnableAcks \/ Acks

Spec == Init /\ [][Next]_vars

\* The task runs on, a send ends or times out, and a tab that acknowledges goes on
\* doing so for what it was sent.
FairSpec ==
  Spec /\ WF_vars(_next_message) /\ WF_vars(SendDone \/ SendFails) /\ WF_vars(Acks)

-----------------------------------------------------------------------------
(* Every variable stays in its type, and the queue within its two limits. *)
TypeOK ==
  /\ \A i \in DOMAIN queue : queue[i] = Status \/ queue[i] = Output(queue[i].bytes)
  /\ Len(queue) <= MaxMessages /\ queued \in 0..MaxBytes
  /\ {ack, closed, sending, failed} \subseteq BOOLEAN
  /\ inFlight \in Nat /\ ToSet(frames) \subseteq Nat \ {0}
  /\ client \in {"bytes", "frames"} /\ ToSet(browser) \subseteq Nat \ {0}
  /\ offered \in 0..MaxOffered /\ statuses \in 0..MaxStatuses
  /\ ToSet(wire) \union lost \subseteq 1..offered /\ early \in 0..MaxOffered

(* The two byte counters, kept by increments in enqueue, shed, split, join and         *)
(* acknowledgement, equal what they count: neither the limit nor the window can leak.  *)
CountersExact ==
  /\ queued = Total(Sizes(queue))
  /\ inFlight = Total(frames)

(* A tab that acknowledges never has more than a window of bytes to draw, beyond those *)
(* it was sent before its first acknowledgement; and the writer waits for no           *)
(* acknowledgement that will not come.                                                 *)
UnackedBounded ==
  /\ inFlight <= Total(browser)
  /\ ack /\ client = "bytes" => Total(browser) <= Window + early

(* Coalescing, splitting and joining keep the bytes of the terminal: what was handed   *)
(* over and what is queued are all the bytes produced, in order, except those shed for *)
(* a tab that acknowledges or refused by a writer that is then dropped.                *)
NothingLostSilently ==
  /\ ~closed =>
       LET all == wire \o Bytes(queue)
       IN  /\ \A i, j \in DOMAIN all : i < j => all[i] < all[j]
           /\ ToSet(all) = (1..offered) \ lost
  /\ lost # {} => ack \/ failed

(* A writer that is not closed keeps emptying its queue: neither the window nor a       *)
(* split payload stops it for ever.                                                    *)
OutputDrains == []<>(queue = <<>> \/ closed)

Stream ==
  INSTANCE OutputStream WITH
    MaxProduced <- MaxOffered, produced <- offered, pending <- Bytes(queue), delivered <- wire,
    repaints <- ack, open <- ~closed

(* Step by step, the writer does to the output of the terminal only what OutputStream   *)
(* allows: what is handed over is the oldest of what is kept and stays handed over, and *)
(* output is dropped only by a shed for a tab that acknowledges, a refusal or a close.  *)
ImplementsStream == Stream!Spec
=============================================================================
