------------------------ MODULE TerminalBrokerProofs ------------------------
(***************************************************************************)
(* TerminalBroker: for any sockets and any number of connections, the       *)
(* attachment has somebody to detach it, a task in _detaches has somebody   *)
(* to pop it, and a view that is attached is shown.                        *)
(***************************************************************************)
EXTENDS TerminalBroker, TLAPS

Present(s) == sock[s] \notin {"none", "leaving"}

\* A subscribed socket has not left: leaving unsubscribes.
SubscribersPresent == \A s \in subs : Present(s)

\* An actor that may still take a writer out has not done so before.
FreshActors ==
  \A s \in Sockets :
    /\ sock[s] # "leaving" => leave[<<s, "handler">>] = "none"
    /\ sock[s] = "none" \/ s \in subs => leave[<<s, "writer">>] = "none"

\* The inductive invariant.
IInv ==
  /\ TypeOK
  /\ SubscribersPresent
  /\ FreshActors
  /\ NoOrphanAttachment
  /\ EntryHasOwner

\* The initial states satisfy the invariant.
LEMMA InitIInv == Init => IInv
<1> SUFFICES ASSUME Init PROVE IInv
    OBVIOUS
<1>1. TypeOK
  <2>1. wire \in Seq(Requests)
    BY DEF Init
  <2>2. 0 \in Nat
    OBVIOUS
  <2> QED
    BY <2>1, <2>2 DEF Init, TypeOK
<1>2. FreshActors
  BY DEF Init, FreshActors, Actors
<1> QED
  BY <1>1, <1>2 DEF Init, IInv, SubscribersPresent, NoOrphanAttachment, EntryHasOwner

Handlers == {"none", "waiting", "attaching", "failing", "connected", "clearing", "leaving"}

\* A request to the agent is appended to what is on the wire.
LEMMA AskType ==
  ASSUME wire \in Seq(Requests), NEW s \in Sockets, NEW kind \in {"attach", "detach"},
         AskAgent(kind, s)
  PROVE  wire' \in Seq(Requests)
<1>1. [kind |-> kind, by |-> s] \in Requests
  BY DEF Requests
<1> QED
  BY <1>1 DEF AskAgent

\* A turn of attach's loop moves its own socket only, and to one of four places.
LEMMA LookMoves ==
  ASSUME NEW s \in Sockets, Look(s)
  PROVE  \E h \in {"connected", "failing", "attaching", "waiting"} :
            sock' = [sock EXCEPT ![s] = h]
BY DEF Look

\* Types: a turn of attach's loop keeps them.
LEMMA LookType ==
  ASSUME TypeOK, NEW s \in Sockets, Look(s)
  PROVE  /\ sock' \in [Sockets -> Handlers]
         /\ waits' \in [Sockets -> SUBSET Actors]
         /\ behind' \subseteq Sockets
         /\ spinning' \in BOOLEAN
         /\ wire' \in Seq(Requests)
<1>1. sock' \in [Sockets -> Handlers]
  BY LookMoves DEF TypeOK, Handlers
<1>2. waits' \in [Sockets -> SUBSET Actors]
  <2>1. entry \subseteq Actors /\ waits \in [Sockets -> SUBSET Actors]
    BY DEF TypeOK
  <2> QED
    BY <2>1 DEF Look, Pending
<1>3. behind' \subseteq Sockets /\ spinning' \in BOOLEAN
  BY DEF TypeOK, Look
<1>4. wire' \in Seq(Requests)
  <2>1. wire \in Seq(Requests)
    BY DEF TypeOK
  <2> QED
    BY <2>1, AskType DEF Look
<1> QED
  BY <1>1, <1>2, <1>3, <1>4

\* Types: taking a writer out keeps them.
LEMMA RemoveType ==
  ASSUME TypeOK, NEW s \in Sockets, NEW a \in Actors, NEW suspends \in BOOLEAN,
         RemoveWriter(s, a), StepsOut(s, a, suspends)
  PROVE  /\ subs' \subseteq Sockets
         /\ attachment' \in BOOLEAN
         /\ on' \in Nat
         /\ entry' \subseteq Actors
         /\ detach' \in [Actors -> {"none", "running", "done"}]
         /\ leave' \in [Actors -> {"none", "closing", "awaiting", "gone"}]
<1>1. 0 \in Nat /\ on \in Nat
  BY DEF TypeOK
<1>2. entry' \subseteq Actors /\ detach' \in [Actors -> {"none", "running", "done"}]
  BY DEF TypeOK, RemoveWriter
<1>3. leave' \in [Actors -> {"none", "closing", "awaiting", "gone"}]
  BY DEF TypeOK, StepsOut
<1> QED
  BY <1>1, <1>2, <1>3 DEF TypeOK, RemoveWriter

\* A socket acts as its handler and as its writer.
LEMMA ActorOf == \A s \in Sockets : <<s, "handler">> \in Actors /\ <<s, "writer">> \in Actors
BY DEF Actors

\* Every step keeps the types.
LEMMA StepTypeOK == TypeOK /\ [Next]_vars => TypeOK'
<1> SUFFICES ASSUME TypeOK, [Next]_vars PROVE TypeOK'
    OBVIOUS
<1>0. 0 \in Nat
  OBVIOUS
<1>1. ASSUME NEW s \in Sockets, Subscribe(s) PROVE TypeOK'
  <2>1. /\ sock' \in [Sockets -> Handlers] /\ waits' \in [Sockets -> SUBSET Actors]
        /\ behind' \subseteq Sockets /\ spinning' \in BOOLEAN /\ wire' \in Seq(Requests)
    BY <1>1, LookType DEF Subscribe
  <2> QED
    BY <1>1, <2>1 DEF TypeOK, Subscribe, Handlers
<1>2. ASSUME NEW s \in Sockets, Wake(s) PROVE TypeOK'
  <2>1. Look(s) /\ UNCHANGED <<broker, leave, link, links, cleanup, alive, replies, shown, on>>
    BY <1>2 DEF Wake
  <2>2. /\ sock' \in [Sockets -> Handlers] /\ waits' \in [Sockets -> SUBSET Actors]
        /\ behind' \subseteq Sockets /\ spinning' \in BOOLEAN /\ wire' \in Seq(Requests)
    BY <2>1, LookType
  <2>3. UNCHANGED <<subs, attachment, running, entry, detach, leave, link, links, cleanup, alive,
                    replies, shown, on>>
    BY <2>1 DEF broker
  <2> QED
    BY <2>2, <2>3 DEF TypeOK, Handlers
<1>3. ASSUME NEW s \in Sockets, Attached(s) \/ AttachFails(s) PROVE TypeOK'
  BY <1>3 DEF TypeOK, Attached, AttachFails, broker
<1>4. ASSUME NEW s \in Sockets, unsubscribe(s) PROVE TypeOK'
  <2>1. StepsOut(s, <<s, "handler">>, s \in subs \cap running)
        /\ RemoveWriter(s, <<s, "handler">>)
    BY <1>4 DEF unsubscribe
  <2>2. /\ subs' \subseteq Sockets /\ attachment' \in BOOLEAN /\ on' \in Nat
        /\ entry' \subseteq Actors
        /\ detach' \in [Actors -> {"none", "running", "done"}]
        /\ leave' \in [Actors -> {"none", "closing", "awaiting", "gone"}]
    <3>1. (s \in subs \cap running) \in BOOLEAN
      OBVIOUS
    <3> QED
      BY <2>1, <3>1, RemoveType, ActorOf
  <2>3. running' \subseteq Sockets
    BY <1>4 DEF TypeOK, unsubscribe
  <2>4. /\ sock' = [sock EXCEPT ![s] = "leaving"]
        /\ UNCHANGED <<waits, behind, spinning, link, links, cleanup, alive, wire, replies, shown>>
    BY <1>4 DEF unsubscribe, agent
  <2> QED
    BY <2>2, <2>3, <2>4 DEF TypeOK
<1>5. ASSUME NEW s \in Sockets, _drop_subscriber_writer(s) PROVE TypeOK'
  <2>1. PICK suspends \in BOOLEAN : StepsOut(s, <<s, "writer">>, suspends)
    BY <1>5 DEF _drop_subscriber_writer
  <2>2. RemoveWriter(s, <<s, "writer">>)
    BY <1>5 DEF _drop_subscriber_writer
  <2>3. /\ subs' \subseteq Sockets /\ attachment' \in BOOLEAN /\ on' \in Nat
        /\ entry' \subseteq Actors
        /\ detach' \in [Actors -> {"none", "running", "done"}]
        /\ leave' \in [Actors -> {"none", "closing", "awaiting", "gone"}]
    BY <2>1, <2>2, RemoveType, ActorOf
  <2>4. running' \subseteq Sockets
    BY <1>5 DEF TypeOK, _drop_subscriber_writer
  <2> QED
    BY <1>5, <2>3, <2>4 DEF TypeOK, _drop_subscriber_writer, agent
<1>6. ASSUME NEW s \in Sockets, InputFails(s) \/ HandlerClears(s) PROVE TypeOK'
  <2>1. CASE InputFails(s)
    BY <2>1 DEF TypeOK, InputFails, broker, agent
  <2>2. CASE HandlerClears(s)
    BY <1>0, <2>2 DEF TypeOK, HandlerClears, PopAttachment, agent
  <2> QED
    BY <1>6, <2>1, <2>2
<1>7. ASSUME NEW a \in Actors, Detach(a) PROVE TypeOK'
  <2>1. a[1] \in Sockets
    BY DEF Actors
  <2>2. wire' \in Seq(Requests)
    BY <1>7, <2>1, AskType DEF TypeOK, Detach
  <2> QED
    BY <1>7, <2>2 DEF TypeOK, Detach, loop
<1>8. ASSUME NEW a \in Actors, FinishClose(a) \/ FinishDetach(a) PROVE TypeOK'
  BY <1>8 DEF TypeOK, FinishClose, FinishDetach, PopDetach, agent
<1>9. ASSUME NEW l \in 1..MaxLinks, LooksForAnother(l) \/ clear_client(l) PROVE TypeOK'
  <2>1. ASSUME LooksForAnother(l) PROVE TypeOK'
    <3>1. PICK next \in {"clear", "done"} : cleanup' = [cleanup EXCEPT ![l] = next]
      BY <2>1 DEF LooksForAnother
    <3>2. cleanup' \in [1..MaxLinks -> {"none", "check", "clear", "done"}]
      BY <3>1 DEF TypeOK
    <3>3. UNCHANGED <<broker, loop, link, links, alive, wire, replies, shown, on>>
      BY <2>1 DEF LooksForAnother
    <3> QED
      BY <3>2, <3>3 DEF TypeOK, broker, loop
  <2>2. ASSUME clear_client(l) PROVE TypeOK'
    <3>1. cleanup' \in [1..MaxLinks -> {"none", "check", "clear", "done"}]
      BY <2>2 DEF TypeOK, clear_client
    <3>2. attachment' = FALSE /\ on' = 0 /\ running' = running \cup subs
          /\ UNCHANGED <<subs, entry, detach, loop, link, links, alive, wire, replies, shown>>
      BY <2>2 DEF clear_client, PopAttachment
    <3> QED
      BY <1>0, <3>1, <3>2 DEF TypeOK, loop
  <2> QED
    BY <1>9, <2>1, <2>2
<1>10. ASSUME LinkUp PROVE TypeOK'
  <2>1. links + 1 \in Nat
    BY DEF TypeOK
  <2> QED
    BY <1>10, <2>1 DEF TypeOK, LinkUp, broker, loop
<1>11. ASSUME LinkLost PROVE TypeOK'
  <2>1. PICK next \in {"check", "clear"} : cleanup' = [cleanup EXCEPT ![link] = next]
    BY <1>11 DEF LinkLost
  <2>2. cleanup' \in [1..MaxLinks -> {"none", "check", "clear", "done"}]
    BY <2>1 DEF TypeOK
  <2>3. wire' \in Seq(Requests)
    BY <1>11 DEF LinkLost, AgentGone
  <2>4. sock' \in [Sockets -> Handlers]
    BY <1>11 DEF TypeOK, LinkLost, Handlers
  <2> QED
    BY <1>0, <1>11, <2>2, <2>3, <2>4 DEF TypeOK, LinkLost, AgentGone, broker, Handlers
<1>12. ASSUME AgentVanishes \/ publish_output PROVE TypeOK'
  <2>1. AgentVanishes => wire' \in Seq(Requests)
    BY DEF AgentVanishes, AgentGone
  <2> QED
    BY <1>12, <2>1 DEF TypeOK, AgentVanishes, AgentGone, publish_output, broker, loop, agent
<1>13. ASSUME AgentServes PROVE TypeOK'
  <2>1. Head(wire) \in Requests /\ Tail(wire) \in Seq(Requests)
    BY <1>13 DEF TypeOK, AgentServes
  <2> QED
    BY <1>13, <2>1 DEF TypeOK, AgentServes, Requests, broker, loop
<1>14. ASSUME UNCHANGED vars PROVE TypeOK'
  BY <1>14 DEF TypeOK, vars, broker, loop, agent
<1> QED
  BY <1>1, <1>2, <1>3, <1>4, <1>5, <1>6, <1>7, <1>8, <1>9, <1>10, <1>11, <1>12, <1>13, <1>14
     DEF Next

\* Steps that neither come nor leave keep the rest of the invariant: nobody subscribes
\* or unsubscribes, no task is created or popped, and an attachment that appears is
\* made by a socket that is there.
LEMMA StaysIInv ==
  ASSUME IInv, TypeOK',
         UNCHANGED <<subs, entry, leave>>,
         \A s \in Sockets : /\ sock'[s] = "none" <=> sock[s] = "none"
                            /\ sock'[s] = "leaving" <=> sock[s] = "leaving",
         attachment' => attachment \/ \E s \in Sockets : Present(s)
  PROVE  IInv'
<1>1. \A s \in Sockets : Present(s)' <=> Present(s)
  BY DEF Present
<1>2. SubscribersPresent'
  <2>1. subs' = subs /\ subs \subseteq Sockets
    BY DEF IInv, TypeOK
  <2> QED
    BY <1>1, <2>1 DEF IInv, SubscribersPresent
<1>3. FreshActors'
  BY DEF IInv, FreshActors
<1>4. NoOrphanAttachment'
  <2>1. attachment => \E s \in Sockets : Present(s)
    BY DEF IInv, NoOrphanAttachment, Present
  <2>2. attachment' => \E s \in Sockets : Present(s)'
    BY <1>1, <2>1
  <2> QED
    BY <2>2 DEF NoOrphanAttachment, Present
<1>5. EntryHasOwner'
  BY DEF IInv, EntryHasOwner
<1> QED
  BY <1>2, <1>3, <1>4, <1>5 DEF IInv

\* Taking a writer out, as the handler that leaves or as the writer that is dropped.
LEMMA LeaveIInv ==
  ASSUME IInv, TypeOK', NEW s \in Sockets, NEW role \in {"handler", "writer"},
         NEW suspends \in BOOLEAN,
         RemoveWriter(s, <<s, role>>), StepsOut(s, <<s, role>>, suspends),
         Present(s),
         role = "writer" => s \in subs /\ UNCHANGED sock,
         role = "handler" => sock' = [sock EXCEPT ![s] = "leaving"]
  PROVE  IInv'
<1> DEFINE a == <<s, role>>
<1>1. a \in Actors
  BY DEF Actors
<1>2. leave[a] = "none"
  BY DEF IInv, FreshActors, Present
<1>3. subs' = subs \ {s}
  BY DEF RemoveWriter
<1>4. SubscribersPresent'
  BY <1>3 DEF IInv, SubscribersPresent, Present, TypeOK
<1>5. FreshActors'
  <2>1. \A b \in Actors : b # a => leave'[b] = leave[b]
    BY <1>1 DEF StepsOut
  <2>2. \A t \in Sockets : t # s => /\ sock'[t] = sock[t]
                                    /\ leave'[<<t, "handler">>] = leave[<<t, "handler">>]
                                    /\ leave'[<<t, "writer">>] = leave[<<t, "writer">>]
    <3>1. \A t \in Sockets : t # s => <<t, "handler">> # a /\ <<t, "writer">> # a
      OBVIOUS
    <3>2. \A t \in Sockets : t # s => sock'[t] = sock[t]
      BY DEF IInv, TypeOK
    <3> QED
      BY <2>1, <3>1, <3>2, ActorOf
  <2>3. role = "handler" => /\ sock'[s] = "leaving"
                            /\ leave'[<<s, "writer">>] = leave[<<s, "writer">>]
    BY <2>1, ActorOf DEF IInv, TypeOK
  <2>4. role = "writer" => leave'[<<s, "handler">>] = leave[<<s, "handler">>]
    BY <2>1, ActorOf
  <2> QED
    BY <1>3, <2>2, <2>3, <2>4 DEF IInv, FreshActors, Present
<1>6. NoOrphanAttachment'
  <2>1. SUFFICES ASSUME attachment' PROVE \E t \in Sockets : sock'[t] \notin {"none", "leaving"}
    BY DEF NoOrphanAttachment
  <2>2. PICK t \in Sockets : t \in subs /\ t # s
    <3>1. subs \ {s} # {}
      BY <2>1 DEF RemoveWriter, LastOut
    <3>2. subs \subseteq Sockets
      BY DEF IInv, TypeOK
    <3> QED
      BY <3>1, <3>2
  <2>3. sock'[t] = sock[t]
    BY <2>2 DEF IInv, TypeOK
  <2> QED
    BY <2>2, <2>3 DEF IInv, SubscribersPresent, Present
<1>7. EntryHasOwner'
  <2>1. \A b \in entry : leave[b] \in {"closing", "awaiting"} /\ b \in Actors /\ b # a
    BY <1>2 DEF IInv, EntryHasOwner, TypeOK
  <2>2. CASE attachment /\ LastOut(s)
    <3>1. entry' = {a}
      BY <2>2 DEF RemoveWriter
    <3>2. leave'[a] \in {"closing", "awaiting"}
      BY <1>1, <2>2 DEF StepsOut, IInv, TypeOK
    <3> QED
      BY <3>1, <3>2 DEF EntryHasOwner
  <2>3. CASE ~(attachment /\ LastOut(s))
    <3>1. entry' = entry
      BY <2>3 DEF RemoveWriter
    <3>2. \A b \in Actors : b # a => leave'[b] = leave[b]
      BY <1>1 DEF StepsOut, IInv, TypeOK
    <3> QED
      BY <2>1, <3>1, <3>2 DEF EntryHasOwner
  <2> QED
    BY <2>2, <2>3
<1> QED
  BY <1>4, <1>5, <1>6, <1>7 DEF IInv

\* A creator that wakes up pops its own task only.
LEMMA PopIInv ==
  ASSUME IInv, TypeOK', NEW a \in Actors, NEW next \in {"awaiting", "gone"},
         leave[a] \in {"closing", "awaiting"},
         leave' = [leave EXCEPT ![a] = next],
         entry' = IF next = "gone" THEN entry \ {a} ELSE entry,
         UNCHANGED <<attachment, subs, sock>>
  PROVE  IInv'
<1>1. \A b \in Actors : leave'[b] = IF b = a THEN next ELSE leave[b]
  BY DEF IInv, TypeOK
<1>2. EntryHasOwner'
  BY <1>1 DEF IInv, EntryHasOwner, TypeOK
<1>3. FreshActors'
  BY <1>1, ActorOf DEF IInv, FreshActors
<1> QED
  BY <1>2, <1>3 DEF IInv, SubscribersPresent, NoOrphanAttachment, Present

\* Every step keeps the invariant.
LEMMA StepIInv == IInv /\ [Next]_vars => IInv'
<1> SUFFICES ASSUME IInv, [Next]_vars PROVE IInv'
    OBVIOUS
<1>0. TypeOK /\ TypeOK'
  BY StepTypeOK DEF IInv
<1>1. ASSUME NEW s \in Sockets, Subscribe(s) PROVE IInv'
  <2>1. /\ UNCHANGED <<attachment, entry, leave>>
        /\ subs' = subs \cup {s} /\ sock[s] = "none"
    BY <1>1 DEF Subscribe
  <2>2. PICK h \in {"connected", "failing", "attaching", "waiting"} :
               sock' = [sock EXCEPT ![s] = h]
    BY <1>1, LookMoves DEF Subscribe
  <2>3. \A t \in Sockets : sock'[t] = IF t = s THEN h ELSE sock[t]
    BY <1>0, <2>2 DEF TypeOK
  <2>4. SubscribersPresent'
    BY <1>0, <2>1, <2>3 DEF IInv, SubscribersPresent, Present, TypeOK
  <2>5. FreshActors'
    BY <1>0, <2>1, <2>3 DEF IInv, FreshActors
  <2>6. NoOrphanAttachment'
    BY <2>1, <2>3 DEF IInv, NoOrphanAttachment
  <2> QED
    BY <1>0, <2>1, <2>4, <2>5, <2>6 DEF IInv, EntryHasOwner
<1>2. ASSUME NEW s \in Sockets, Wake(s) PROVE IInv'
  <2>1. PICK h \in {"connected", "failing", "attaching", "waiting"} :
               sock' = [sock EXCEPT ![s] = h]
    BY <1>2, LookMoves DEF Wake
  <2>2. \A t \in Sockets : sock'[t] = IF t = s THEN h ELSE sock[t]
    BY <1>0, <2>1 DEF TypeOK
  <2>3. sock[s] = "waiting" /\ UNCHANGED <<subs, entry, leave, attachment>>
    BY <1>2 DEF Wake, broker
  <2> QED
    BY <1>0, <2>2, <2>3, StaysIInv
<1>3. ASSUME NEW s \in Sockets,
             Attached(s) \/ AttachFails(s) \/ InputFails(s) \/ HandlerClears(s)
      PROVE  IInv'
  <2>1. PICK h \in {"connected", "failing", "clearing"} : sock' = [sock EXCEPT ![s] = h]
    BY <1>3 DEF Attached, AttachFails, InputFails, HandlerClears
  <2>2. \A t \in Sockets : sock'[t] = IF t = s THEN h ELSE sock[t]
    BY <1>0, <2>1 DEF TypeOK
  <2>3. sock[s] \in {"attaching", "connected", "clearing"} /\ UNCHANGED <<subs, entry, leave>>
    BY <1>3 DEF Attached, AttachFails, InputFails, HandlerClears, broker
  <2>4. Present(s)
    BY <2>3 DEF Present
  <2> QED
    BY <1>0, <2>2, <2>3, <2>4, StaysIInv
<1>4. ASSUME NEW s \in Sockets, unsubscribe(s) PROVE IInv'
  <2>1. /\ RemoveWriter(s, <<s, "handler">>)
        /\ StepsOut(s, <<s, "handler">>, s \in subs \cap running)
        /\ sock' = [sock EXCEPT ![s] = "leaving"]
    BY <1>4 DEF unsubscribe
  <2>2. Present(s) /\ (s \in subs \cap running) \in BOOLEAN
    BY <1>4 DEF unsubscribe, Present
  <2> QED
    BY <1>0, <2>1, <2>2, LeaveIInv
<1>5. ASSUME NEW s \in Sockets, _drop_subscriber_writer(s) PROVE IInv'
  <2>1. PICK suspends \in BOOLEAN : StepsOut(s, <<s, "writer">>, suspends)
    BY <1>5 DEF _drop_subscriber_writer
  <2>2. RemoveWriter(s, <<s, "writer">>) /\ s \in subs /\ UNCHANGED sock
    BY <1>5 DEF _drop_subscriber_writer
  <2>3. Present(s)
    BY <2>2 DEF IInv, SubscribersPresent
  <2> QED
    BY <1>0, <2>1, <2>2, <2>3, LeaveIInv
<1>6. ASSUME NEW a \in Actors, FinishClose(a) \/ FinishDetach(a) PROVE IInv'
  <2>1. /\ leave[a] \in {"closing", "awaiting"}
        /\ UNCHANGED <<attachment, subs, sock>>
    BY <1>6 DEF FinishClose, FinishDetach
  <2>2. PICK next \in {"awaiting", "gone"} :
               /\ leave' = [leave EXCEPT ![a] = next]
               /\ entry' = IF next = "gone" THEN entry \ {a} ELSE entry
    BY <1>6 DEF FinishClose, FinishDetach, PopDetach
  <2> QED
    BY <1>0, <2>1, <2>2, PopIInv
<1>7. ASSUME LinkLost PROVE IInv'
  <2>1. sock' = [s \in Sockets |-> IF sock[s] = "attaching" THEN "failing" ELSE sock[s]]
        /\ UNCHANGED <<broker, leave>>
    BY <1>7 DEF LinkLost
  <2> QED
    BY <1>0, <2>1, StaysIInv DEF broker
<1>8. ASSUME \/ \E a \in Actors : Detach(a)
             \/ \E l \in 1..MaxLinks : LooksForAnother(l) \/ clear_client(l)
             \/ LinkUp \/ AgentVanishes \/ AgentServes \/ publish_output
             \/ UNCHANGED vars
      PROVE  IInv'
  <2>1. UNCHANGED <<subs, entry, leave, sock>> /\ (attachment' => attachment)
    BY <1>8 DEF Detach, LooksForAnother, clear_client, PopAttachment, LinkUp, AgentVanishes,
                AgentServes, publish_output, vars, broker, loop
  <2> QED
    BY <1>0, <2>1, StaysIInv
<1> QED
  BY <1>1, <1>2, <1>3, <1>4, <1>5, <1>6, <1>7, <1>8 DEF Next

\* IInv is an invariant of the broker.
THEOREM BrokerInvariant == Spec => []IInv
BY InitIInv, StepIInv, PTL DEF Spec

\* The variables keep their types.
THEOREM TypeCorrect == Spec => []TypeOK
BY BrokerInvariant, PTL DEF IInv

\* A recorded attachment has a socket that is still to unsubscribe.
THEOREM AttachmentHasSocket == Spec => []NoOrphanAttachment
BY BrokerInvariant, PTL DEF IInv

\* A task in _detaches has a coroutine that is still going to pop it.
THEOREM DetachHasOwner == Spec => []EntryHasOwner
BY BrokerInvariant, PTL DEF IInv

-----------------------------------------------------------------------------
(* A view that is attached is shown by the agent.                          *)

\* No writer was dropped so far.
NoDrops == \A s \in Sockets : leave[<<s, "writer">>] = "none"

\* Connections are numbered, and no attach waits for an answer without one.
Linked ==
  /\ link \in 0..links /\ on \in 0..links
  /\ link = 0 => \A s \in Sockets : sock[s] # "attaching"

PresentSubscribed == \A s \in Sockets : Present(s) => s \in subs

\* While a detach task runs nobody is attached or asks for it: whoever came since
\* waits for that task.
DetachAlone ==
  \A a \in Actors : detach[a] = "running" =>
    /\ ~attachment /\ ~spinning /\ entry = {a}
    /\ \A s \in subs : sock[s] = "waiting" /\ waits[s] = {a}

\* What the agent shows once it has served all it was sent.
Final == IF wire = <<>> THEN shown ELSE wire[Len(wire)].kind = "attach"

\* The last request over the connection in use is an attach when somebody is
\* attached over it or waits to be.
LastShows ==
  /\ link # 0 /\ alive
  /\ (attachment /\ on = link) \/ \E s \in Sockets : sock[s] = "attaching"
  => Final

\* The inductive invariant, on top of IInv.
ShownInv == Linked /\ (NoDrops => PresentSubscribed /\ DetachAlone /\ LastShows)

\* The initial states satisfy it.
LEMMA InitShown == Init => ShownInv
BY DEF Init, ShownInv, Linked, PresentSubscribed, Present, DetachAlone, LastShows

\* Steps that make nobody attach, and take from the agent only its connection.
LEMMA StaysShown ==
  ASSUME TypeOK, ShownInv,
         UNCHANGED <<subs, entry, detach, leave, waits, spinning, link, links>>,
         attachment' => attachment, on' \in {0, on},
         \A s \in Sockets : /\ Present(s)' => Present(s)
                            /\ sock[s] = "waiting" => sock'[s] = "waiting"
                            /\ sock'[s] = "attaching" => sock[s] = "attaching",
         alive' => alive /\ Final' = Final
  PROVE  ShownInv'
<1>1. links \in Nat /\ 0 \in 0..links /\ subs \subseteq Sockets
  BY DEF TypeOK
<1>2. Linked'
  BY <1>1 DEF ShownInv, Linked
<1>3. ASSUME NoDrops' PROVE (PresentSubscribed /\ DetachAlone /\ LastShows)'
  <2>1. PresentSubscribed /\ DetachAlone /\ LastShows
    BY <1>3 DEF ShownInv, NoDrops
  <2>2. PresentSubscribed'
    BY <2>1 DEF PresentSubscribed
  <2>3. DetachAlone'
    BY <1>1, <2>1 DEF DetachAlone
  <2>4. LastShows'
    BY <2>1 DEF LastShows
  <2> QED
    BY <2>2, <2>3, <2>4
<1> QED
  BY <1>2, <1>3 DEF ShownInv

\* What is added to the wire is what the agent will show.
LEMMA AskFinal ==
  ASSUME TypeOK, NEW s \in Sockets, AskAgent("attach", s), link # 0, alive
  PROVE  Final'
<1>1. wire \in Seq(Requests)
  BY DEF TypeOK
<1>2. wire' = Append(wire, [kind |-> "attach", by |-> s])
  BY DEF AskAgent
<1>3. wire' # <<>> /\ wire'[Len(wire')] = [kind |-> "attach", by |-> s]
  BY <1>1, <1>2
<1> QED
  BY <1>3 DEF Final

\* A turn of attach's loop asks the agent only when no detach task is left.
LEMMA LookShown ==
  ASSUME TypeOK, ShownInv, NEW s \in Sockets, Look(s),
         UNCHANGED <<attachment, entry, detach, leave, link, links, alive, shown, on>>,
         subs' \in {subs, subs \cup {s}}, NoDrops => s \in subs'
  PROVE  ShownInv'
<1>0. sock \in [Sockets -> Handlers] /\ waits \in [Sockets -> SUBSET Actors]
  BY DEF TypeOK, Handlers
<1>1. PICK h \in {"connected", "failing", "attaching", "waiting"} :
             sock' = [sock EXCEPT ![s] = h]
  BY LookMoves
<1>2. \A t \in Sockets : sock'[t] = IF t = s THEN h ELSE sock[t]
  BY <1>0, <1>1
<1>3. \/ h = "attaching" /\ link # 0 /\ AskAgent("attach", s)
      \/ h # "attaching" /\ (link = 0 \/ UNCHANGED wire)
  BY <1>0, <1>1 DEF Look
<1>4. Linked'
  BY <1>2, <1>3 DEF ShownInv, Linked
<1>5. ASSUME NoDrops' PROVE (PresentSubscribed /\ DetachAlone /\ LastShows)'
  <2>1. NoDrops /\ PresentSubscribed /\ DetachAlone /\ LastShows
    BY <1>5 DEF ShownInv, NoDrops
  <2>2. PresentSubscribed'
    BY <1>2, <2>1 DEF PresentSubscribed, Present
  <2>3. DetachAlone'
    <3> SUFFICES ASSUME NEW a \in Actors, detach[a] = "running"
                 PROVE  /\ ~attachment /\ ~spinning' /\ entry = {a}
                        /\ \A t \in subs' : sock'[t] = "waiting" /\ waits'[t] = {a}
      BY DEF DetachAlone
    <3>1. ~attachment /\ ~spinning /\ entry = {a}
          /\ \A t \in subs : sock[t] = "waiting" /\ waits[t] = {a}
      BY <2>1 DEF DetachAlone
    <3>2. /\ sock' = [sock EXCEPT ![s] = "waiting"] /\ waits' = [waits EXCEPT ![s] = {a}]
          /\ spinning' = spinning
      BY <3>1 DEF Look, Pending
    <3> QED
      BY <1>0, <3>1, <3>2 DEF TypeOK
  <2>4. LastShows'
    <3>1. CASE h = "attaching"
      BY <1>3, <3>1, AskFinal DEF LastShows
    <3>2. CASE h # "attaching"
      BY <1>2, <1>3, <2>1, <3>2 DEF LastShows, Final
    <3> QED
      BY <3>1, <3>2
  <2> QED
    BY <2>2, <2>3, <2>4
<1> QED
  BY <1>4, <1>5 DEF ShownInv

\* The attachment is recorded: the agent was asked for it last.
LEMMA AttachedShown ==
  ASSUME TypeOK, ShownInv, NEW s \in Sockets, Attached(s)
  PROVE  ShownInv'
<1>1. /\ sock[s] = "attaching" /\ attachment' = TRUE /\ on' = link
      /\ \A t \in Sockets : sock'[t] = IF t = s THEN "connected" ELSE sock[t]
      /\ UNCHANGED <<subs, entry, detach, leave, waits, spinning, link, links, alive, wire,
                     shown>>
  BY DEF Attached, TypeOK
<1>2. Linked'
  BY <1>1 DEF ShownInv, Linked
<1>3. ASSUME NoDrops' PROVE (PresentSubscribed /\ DetachAlone /\ LastShows)'
  <2>1. PresentSubscribed /\ DetachAlone /\ LastShows
    BY <1>1, <1>3 DEF ShownInv, NoDrops
  <2>2. s \in subs
    BY <1>1, <2>1 DEF PresentSubscribed, Present
  <2>3. \A a \in Actors : detach[a] # "running"
    BY <1>1, <2>1, <2>2 DEF DetachAlone
  <2>4. PresentSubscribed'
    BY <1>1, <2>1 DEF PresentSubscribed, Present
  <2>5. LastShows'
    BY <1>1, <2>1 DEF LastShows, Final
  <2> QED
    BY <1>1, <2>3, <2>4, <2>5 DEF DetachAlone
<1> QED
  BY <1>2, <1>3 DEF ShownInv

\* A socket leaves: the last one finds nobody that attaches, so that its detach task
\* is the only one that runs.
LEMMA UnsubscribeShown ==
  ASSUME TypeOK, ShownInv, NEW s \in Sockets, unsubscribe(s)
  PROVE  ShownInv'
<1> DEFINE a == <<s, "handler">>
<1>1. /\ ~spinning /\ RemoveWriter(s, a)
      /\ StepsOut(s, a, s \in subs \cap running)
      /\ sock' = [sock EXCEPT ![s] = "leaving"]
      /\ UNCHANGED <<waits, behind, spinning, agent>>
  BY DEF unsubscribe
<1>2. /\ \A t \in Sockets : sock'[t] = IF t = s THEN "leaving" ELSE sock[t]
      /\ \A t \in Sockets : leave'[<<t, "writer">>] = leave[<<t, "writer">>]
      /\ UNCHANGED <<waits, spinning, link, links, alive, wire, shown>>
      /\ subs' = subs \ {s} /\ subs \subseteq Sockets /\ links \in Nat
  BY <1>1, ActorOf DEF TypeOK, StepsOut, RemoveWriter, agent
<1>3. attachment' = (attachment /\ ~LastOut(s)) /\ on' = IF LastOut(s) THEN 0 ELSE on
  BY <1>1 DEF RemoveWriter
<1>4. Linked'
  BY <1>2, <1>3 DEF ShownInv, Linked
<1>5. ASSUME NoDrops' PROVE (PresentSubscribed /\ DetachAlone /\ LastShows)'
  <2>1. PresentSubscribed /\ DetachAlone /\ LastShows
    BY <1>2, <1>5 DEF ShownInv, NoDrops
  <2>2. PresentSubscribed'
    BY <1>2, <2>1 DEF PresentSubscribed, Present
  <2>3. LastShows'
    BY <1>2, <1>3, <2>1 DEF LastShows, Final
  <2>4. CASE attachment /\ LastOut(s)
    <3>1. \A b \in Actors : detach[b] # "running"
      BY <2>1, <2>4 DEF DetachAlone
    <3>2. /\ detach' = [detach EXCEPT ![a] = "running"] /\ entry' = {a}
          /\ ~attachment' /\ subs' = {}
      BY <1>1, <1>2, <1>3, <2>4 DEF RemoveWriter, LastOut
    <3>3. \A b \in Actors : detach'[b] = "running" => b = a
      BY <3>1, <3>2 DEF TypeOK
    <3>4. DetachAlone'
      BY <1>1, <1>2, <3>2, <3>3 DEF DetachAlone
    <3> QED
      BY <2>2, <2>3, <3>4
  <2>5. CASE ~(attachment /\ LastOut(s))
    <3>1. UNCHANGED <<detach, entry>>
      BY <1>1, <2>5 DEF RemoveWriter
    <3>2. DetachAlone'
      BY <1>2, <1>3, <2>1, <3>1 DEF DetachAlone
    <3> QED
      BY <2>2, <2>3, <3>2
  <2> QED
    BY <2>4, <2>5
<1> QED
  BY <1>4, <1>5 DEF ShownInv

\* A dropped writer: from then on only the numbers matter.
LEMMA DropShown ==
  ASSUME TypeOK, ShownInv, NEW s \in Sockets, _drop_subscriber_writer(s)
  PROVE  ShownInv'
<1>1. PICK suspends \in BOOLEAN : StepsOut(s, <<s, "writer">>, suspends)
  BY DEF _drop_subscriber_writer
<1>2. leave'[<<s, "writer">>] \in {"closing", "awaiting", "gone"}
  BY <1>1, ActorOf DEF TypeOK, StepsOut
<1>3. on' \in {0, on} /\ UNCHANGED <<sock, link, links>> /\ links \in Nat
  BY DEF _drop_subscriber_writer, RemoveWriter, agent, TypeOK
<1> QED
  BY <1>2, <1>3 DEF ShownInv, Linked, NoDrops

\* The detach task sends its request while nobody is attached or asks to be.
LEMMA DetachShown ==
  ASSUME TypeOK, ShownInv, NEW a \in Actors, Detach(a)
  PROVE  ShownInv'
<1>1. /\ detach[a] = "running" /\ detach' = [detach EXCEPT ![a] = "done"]
      /\ UNCHANGED <<attachment, subs, entry, leave, sock, waits, spinning, link, links, alive,
                     shown, on>>
  BY DEF Detach, loop
<1>2. Linked'
  BY <1>1 DEF ShownInv, Linked
<1>3. ASSUME NoDrops' PROVE (PresentSubscribed /\ DetachAlone /\ LastShows)'
  <2>1. PresentSubscribed /\ DetachAlone /\ LastShows
    BY <1>1, <1>3 DEF ShownInv, NoDrops
  <2>2. ~attachment /\ \A s \in Sockets : Present(s) => sock[s] = "waiting"
    BY <1>1, <2>1 DEF DetachAlone, PresentSubscribed
  <2>3. \A b \in Actors : detach'[b] # "running"
    BY <1>1, <2>1 DEF DetachAlone, TypeOK
  <2>4. PresentSubscribed'
    BY <1>1, <2>1 DEF PresentSubscribed, Present
  <2>5. LastShows'
    BY <1>1, <2>2 DEF LastShows, Present
  <2> QED
    BY <2>3, <2>4, <2>5 DEF DetachAlone
<1> QED
  BY <1>2, <1>3 DEF ShownInv

\* Its creator pops a task that no longer runs.
LEMMA FinishShown ==
  ASSUME TypeOK, ShownInv, NEW a \in Actors, FinishClose(a) \/ FinishDetach(a)
  PROVE  ShownInv'
<1>1. /\ leave[a] # "none"
      /\ \E next \in {"awaiting", "gone"} : leave' = [leave EXCEPT ![a] = next]
      /\ entry' = entry \/ (entry' = entry \ {a} /\ detach[a] # "running")
      /\ UNCHANGED <<attachment, subs, detach, sock, waits, spinning, link, links, alive, wire,
                     shown, on>>
  BY DEF FinishClose, FinishDetach, PopDetach, agent
<1>2. Linked'
  BY <1>1 DEF ShownInv, Linked
<1>3. ASSUME NoDrops' PROVE (PresentSubscribed /\ DetachAlone /\ LastShows)'
  <2>1. NoDrops
    BY <1>1, <1>3, ActorOf DEF NoDrops, TypeOK
  <2>2. PresentSubscribed /\ DetachAlone /\ LastShows
    BY <2>1 DEF ShownInv
  <2>3. PresentSubscribed'
    BY <1>1, <2>2 DEF PresentSubscribed, Present
  <2>4. DetachAlone'
    BY <1>1, <2>2 DEF DetachAlone
  <2>5. LastShows'
    BY <1>1, <2>2 DEF LastShows, Final
  <2> QED
    BY <2>3, <2>4, <2>5
<1> QED
  BY <1>2, <1>3 DEF ShownInv

\* A connection comes or goes.
LEMMA LinkShown ==
  ASSUME TypeOK, ShownInv, LinkUp \/ LinkLost
  PROVE  ShownInv'
<1>1. /\ UNCHANGED <<attachment, subs, entry, detach, leave, waits, spinning, on>>
      /\ links \in Nat /\ subs \subseteq Sockets
  BY DEF LinkUp, LinkLost, broker, loop, TypeOK
<1>2. CASE LinkUp
  <2>1. /\ link = 0 /\ links' = links + 1 /\ link' = links + 1
        /\ UNCHANGED <<sock, wire, shown>>
    BY <1>2 DEF LinkUp, loop
  <2>2. on # links + 1 /\ \A s \in Sockets : sock[s] # "attaching"
    BY <1>1, <2>1 DEF ShownInv, Linked
  <2>3. Linked'
    BY <1>1, <2>1, <2>2 DEF ShownInv, Linked
  <2> QED
    BY <1>1, <2>1, <2>2, <2>3
       DEF ShownInv, NoDrops, PresentSubscribed, Present, DetachAlone, LastShows
<1>3. CASE LinkLost
  <2>1. link' = 0 /\ UNCHANGED links
    BY <1>3 DEF LinkLost
  <2>2. \A s \in Sockets : sock'[s] = IF sock[s] = "attaching" THEN "failing" ELSE sock[s]
    BY <1>3 DEF LinkLost
  <2>3. Linked'
    BY <1>1, <2>1, <2>2 DEF ShownInv, Linked
  <2> QED
    BY <1>1, <2>1, <2>2, <2>3
       DEF ShownInv, NoDrops, PresentSubscribed, Present, DetachAlone, LastShows
<1> QED
  BY <1>2, <1>3

\* The agent serves the oldest request: the last one stays the last.
LEMMA ServeFinal ==
  ASSUME TypeOK, AgentServes
  PROVE  Final' = Final
<1>1. wire \in Seq(Requests) /\ wire # <<>> /\ wire' = Tail(wire)
      /\ shown' = (Head(wire).kind = "attach")
  BY DEF TypeOK, AgentServes
<1>2. CASE Len(wire) = 1
  <2>1. wire' = <<>> /\ Head(wire) = wire[Len(wire)]
    BY <1>1, <1>2
  <2> QED
    BY <1>1, <2>1 DEF Final
<1>3. CASE Len(wire) # 1
  <2>1. Len(wire) \in Nat \ {0, 1} /\ Len(Tail(wire)) = Len(wire) - 1
    BY <1>1, <1>3
  <2>2. Len(Tail(wire)) # 0 /\ Len(<<>>) = 0
    BY <2>1
  <2>3. Tail(wire)[Len(wire) - 1] = wire[Len(wire)]
    BY <1>1, <2>1
  <2> QED
    BY <1>1, <2>1, <2>2, <2>3 DEF Final
<1> QED
  BY <1>2, <1>3

\* Every step keeps the invariant.
LEMMA StepShown == IInv /\ ShownInv /\ [Next]_vars => ShownInv'
<1> SUFFICES ASSUME IInv, ShownInv, [Next]_vars PROVE ShownInv'
    OBVIOUS
<1>0. TypeOK
  BY DEF IInv
<1>1. ASSUME NEW s \in Sockets, Subscribe(s) PROVE ShownInv'
  <2>1. /\ Look(s) /\ subs' = subs \cup {s}
        /\ UNCHANGED <<attachment, entry, detach, leave, link, links, alive, shown, on>>
    BY <1>1 DEF Subscribe
  <2> QED
    BY <1>0, <2>1, LookShown
<1>2. ASSUME NEW s \in Sockets, Wake(s) PROVE ShownInv'
  <2>1. /\ Look(s) /\ sock[s] = "waiting"
        /\ UNCHANGED <<attachment, subs, entry, detach, leave, link, links, alive, shown, on>>
    BY <1>2 DEF Wake, broker
  <2>2. NoDrops => s \in subs'
    BY <2>1 DEF ShownInv, PresentSubscribed, Present
  <2> QED
    BY <1>0, <2>1, <2>2, LookShown
<1>3. ASSUME NEW s \in Sockets, AttachFails(s) \/ InputFails(s) \/ HandlerClears(s)
      PROVE  ShownInv'
  <2>1. PICK h \in {"failing", "clearing"} : sock' = [sock EXCEPT ![s] = h]
    BY <1>3 DEF AttachFails, InputFails, HandlerClears
  <2>2. \A t \in Sockets : sock'[t] = IF t = s THEN h ELSE sock[t]
    BY <1>0, <2>1 DEF TypeOK
  <2>3. /\ sock[s] \in {"attaching", "connected", "clearing"}
        /\ UNCHANGED <<subs, entry, detach, leave, waits, spinning, link, links, alive, wire,
                       shown>>
        /\ (attachment' => attachment) /\ on' \in {0, on}
    BY <1>3 DEF AttachFails, InputFails, HandlerClears, PopAttachment, broker, agent
  <2> QED
    BY <1>0, <2>2, <2>3, StaysShown DEF Present, Final
<1>4. ASSUME NEW l \in 1..MaxLinks, LooksForAnother(l) \/ clear_client(l) PROVE ShownInv'
  <2>1. /\ UNCHANGED <<subs, entry, detach, leave, sock, waits, spinning, link, links, alive,
                       wire, shown>>
        /\ (attachment' => attachment) /\ on' \in {0, on}
    BY <1>4 DEF LooksForAnother, clear_client, PopAttachment, broker, loop
  <2> QED
    BY <1>0, <2>1, StaysShown DEF Present, Final
<1>5. ASSUME AgentVanishes \/ publish_output \/ UNCHANGED vars PROVE ShownInv'
  <2>1. /\ UNCHANGED <<attachment, subs, entry, detach, leave, sock, waits, spinning, link,
                       links, on>>
        /\ alive' => UNCHANGED <<alive, wire, shown>>
    BY <1>5 DEF AgentVanishes, AgentGone, publish_output, vars, broker, loop, agent
  <2> QED
    BY <1>0, <2>1, StaysShown DEF Present, Final
<1>6. ASSUME AgentServes PROVE ShownInv'
  <2>1. UNCHANGED <<attachment, subs, entry, detach, leave, sock, waits, spinning, link,
                    links, alive, on>>
    BY <1>6 DEF AgentServes, broker, loop
  <2>2. Final' = Final
    BY <1>0, <1>6, ServeFinal
  <2> QED
    BY <1>0, <2>1, <2>2, StaysShown DEF Present
<1> QED
  BY <1>0, <1>1, <1>2, <1>3, <1>4, <1>5, <1>6, AttachedShown, UnsubscribeShown, DropShown,
     DetachShown, FinishShown, LinkShown
     DEF Next

\* While a detach task runs nobody is attached or asks for it, so that no detach
\* overtakes an attach, until a writer is dropped (broker.attach, unsubscribe).
THEOREM DetachRunsAlone == Spec => [](NoDrops => DetachAlone)
<1>1. ShownInv => (NoDrops => DetachAlone)
  BY DEF ShownInv
<1>2. Spec => []ShownInv
  BY BrokerInvariant, InitShown, StepShown, PTL DEF Spec
<1> QED
  BY <1>1, <1>2, PTL

\* Once nothing is in flight, a view attached over the connection in use is shown by the
\* agent: no detach overtakes the attach of a socket that came back.
THEOREM AttachedViewIsShown == Spec => []AttachedIsShown
<1>1. ShownInv => AttachedIsShown
  BY DEF ShownInv, LastShows, NoDrops, Final, AttachedIsShown, Quiet
<1>2. Spec => []ShownInv
  BY BrokerInvariant, InitShown, StepShown, PTL DEF Spec
<1> QED
  BY <1>1, <1>2, PTL
=============================================================================
