------------------------ MODULE ClientSessionProofs -------------------------
(***************************************************************************)
(* ClientSession: a live connection is the registered one, and the          *)
(* connections do to the broker only what TerminalBroker says of them.      *)
(* What is proved of the broker then holds of the session.                 *)
(***************************************************************************)
EXTENDS ClientSession, TLAPS

\* The broker with its theorems.
P == INSTANCE TerminalBrokerProofs WITH link <- Usable, cleanup <- Cleanup

HandlerState == {"none", "replacing", "open", "draining", "clearing", "gone"}

Serving(c) == handler[c] \in {"open", "draining"}

PresenceType ==
  /\ handler \in [Connections -> HandlerState]
  /\ closed \subseteq Connections
  /\ registry \in 0..MaxLinks
  /\ links \in 0..MaxLinks

\* Connections enter the registry in the order of their numbers.
Numbered ==
  \A c \in Connections :
    /\ c \in closed => c <= links
    /\ c <= links => handler[c] \notin {"none", "replacing"}
    /\ c > links => handler[c] = "none" \/ (handler[c] = "replacing" /\ c = links + 1)

\* A connection serves until it is out of the registry, and is closed by then.
Ordered ==
  /\ registry # 0 => Serving(registry)
  /\ \A c \in Connections : handler[c] \in {"clearing", "gone"} => c \in closed

\* While a connection is being replaced, the registry holds a closed one.
Replacing == ~LockFree => registry \in closed

\* The inductive invariant of the registry.
IInv ==
  /\ PresenceType
  /\ Numbered
  /\ Ordered
  /\ Replacing
  /\ LiveIsRegistered

\* The initial states satisfy the invariant.
LEMMA InitIInv == Init => IInv
BY SessionAssumption
   DEF Init, IInv, PresenceType, HandlerState, Connections, Numbered, Ordered, Serving,
       Replacing, LockFree, LiveIsRegistered

\* Nothing of the broker moves the connections.
LEMMA SameIInv ==
  ASSUME IInv, UNCHANGED presence
  PROVE  IInv'
BY DEF IInv, presence, PresenceType, Numbered, Ordered, Serving, Replacing, LockFree,
       LiveIsRegistered

\* Every step keeps the invariant.
LEMMA StepIInv == IInv /\ [Next]_vars => IInv'
<1> SUFFICES ASSUME IInv, [Next]_vars PROVE IInv'
    OBVIOUS
<1> USE SessionAssumption
<1> USE DEF IInv, PresenceType, HandlerState, Connections, Numbered, Ordered, Serving,
            Replacing, LockFree, LiveIsRegistered
<1>1. ASSUME NEW c \in Connections, register(c) PROVE IInv'
  <2>1. CASE registry = 0
    <3>1. /\ LockFree /\ c = links + 1 /\ closed' = closed /\ registry' = c /\ links' = c
          /\ handler' = [handler EXCEPT ![c] = "open"]
      BY <1>1, <2>1 DEF register, Enters
    <3>2. \A d \in Connections : handler'[d] = IF d = c THEN "open" ELSE handler[d]
      BY <3>1
    <3> QED
      BY <2>1, <3>1, <3>2
  <2>2. CASE registry # 0
    BY <1>1, <2>2 DEF register, abort, view
  <2> QED
    BY <2>1, <2>2
<1>2. ASSUME NEW c \in Connections, Replaced(c) PROVE IInv'
  BY <1>2 DEF Replaced, Enters
<1>3. ASSUME NEW c \in Connections, ReceiveEnds(c) PROVE IInv'
  BY <1>3 DEF ReceiveEnds
<1>4. ASSUME NEW c \in Connections, SendAborts(c) PROVE IInv'
  BY <1>4 DEF SendAborts, abort, Usable
<1>5. ASSUME NEW c \in Connections, unregister(c) PROVE IInv'
  BY <1>5 DEF unregister, abort, Pops, NextStep
<1>6. ASSUME NEW c \in Connections, ClearsView(c) PROVE IInv'
  BY <1>6 DEF ClearsView
<1>7. ASSUME BrokerStep \/ UNCHANGED vars PROVE IInv'
  BY <1>7, SameIInv DEF BrokerStep, vars
<1> QED
  BY <1>1, <1>2, <1>3, <1>4, <1>5, <1>6, <1>7 DEF Next

\* IInv is an invariant of the session.
THEOREM SessionInvariant == Spec => []IInv
BY InitIInv, StepIInv, PTL DEF Spec

\* A connection that still receives and has not been closed is the registered one.
THEOREM LiveConnectionIsRegistered == Spec => []LiveIsRegistered
BY SessionInvariant, PTL DEF IInv

-----------------------------------------------------------------------------
(* The refinement.                                                         *)

\* The initial states are initial states of the broker under the mapping.
LEMMA InitBroker == Init => B!Init
BY SessionAssumption DEF Init, B!Init, Usable, Cleanup, Connections

\* What the broker sees of the handlers is a function; it is changed at one place.
LEMMA CleanupMoves ==
  ASSUME NEW c \in Connections, NEW next,
         \A d \in Connections : Cleanup'[d] = IF d = c THEN next ELSE Cleanup[d]
  PROVE  Cleanup' = [Cleanup EXCEPT ![c] = next]
<1>1. Cleanup = [d \in Connections |-> Cleanup[d]]
  BY DEF Cleanup
<1>2. Cleanup' = [d \in Connections |-> Cleanup'[d]]
  BY DEF Cleanup
<1> HIDE DEF Cleanup
<1> QED
  BY <1>1, <1>2

\* A step that closes the connection in use, whose handler goes on to look for
\* another one or has found none.
LEMMA LosesLink ==
  ASSUME NEW c \in Connections, c = Usable, Usable' = 0, ~spinning,
         alive' = FALSE, wire' = <<>>, replies' = {}, shown' = FALSE,
         sock' = [s \in Sockets |-> IF sock[s] = "attaching" THEN "failing" ELSE sock[s]],
         NEW next \in {"check", "clear"}, Cleanup' = [Cleanup EXCEPT ![c] = next],
         UNCHANGED <<view, links>>
  PROVE  B!Next
<1>1. c # 0
  BY DEF Connections
<1> QED
  BY <1>1 DEF B!Next, B!LinkLost, B!AgentGone, B!broker, view

\* A step that neither closes nor opens the connection in use.
LEMMA Stutters ==
  ASSUME UNCHANGED <<view, peer, links>>, Usable' = Usable, Cleanup' = Cleanup
  PROVE  UNCHANGED B!vars
BY DEF B!vars, B!broker, B!loop, B!agent, view, peer

\* The handler's next step as the broker sees it, when the connection in use stays.
LEMMA Looks ==
  ASSUME NEW c \in Connections, ~spinning, Cleanup[c] = "check", Usable' = Usable,
         NEW next \in {"clear", "done"}, next = "clear" => Usable = 0,
         Cleanup' = [Cleanup EXCEPT ![c] = next],
         UNCHANGED <<view, peer, links>>
  PROVE  B!Next
<1>1. next \in IF Usable = 0 THEN {"clear", "done"} ELSE {"done"}
  OBVIOUS
<1>2. B!LooksForAnother(c)
  BY <1>1 DEF B!LooksForAnother, B!broker, B!loop, view, peer
<1> QED
  BY <1>2 DEF B!Next, Connections

\* Opening: the connection is the first one, or the replaced one has been closed.
LEMMA OpensLink ==
  ASSUME IInv, NEW c \in Connections, ~spinning, Usable = 0, c = links + 1,
         Enters(c), alive' = TRUE, UNCHANGED <<view, wire, replies, shown, sock, closed>>
  PROVE  B!Next
<1> USE SessionAssumption DEF IInv, PresenceType, Connections
<1>1. c \notin closed /\ links < MaxLinks /\ links' = links + 1
  BY DEF Numbered, Enters
<1>2. Usable' = c
  BY <1>1 DEF Usable, Enters
<1>3. Cleanup' = Cleanup
  <2>1. handler[c] \in {"none", "replacing"}
    BY DEF Numbered, HandlerState
  <2>2. \A d \in Connections : handler'[d] = IF d = c THEN "open" ELSE handler[d]
    BY DEF Enters
  <2> QED
    BY <1>1, <2>1, <2>2 DEF Cleanup
<1>4. B!LinkUp
  BY <1>1, <1>2, <1>3 DEF B!LinkUp, B!broker, B!loop, view
<1> QED
  BY <1>4 DEF B!Next

\* Every step of the session is one of the broker, or leaves it alone.
LEMMA StepBroker == IInv /\ [Next]_vars => [B!Next]_(B!vars)
<1> SUFFICES ASSUME IInv, [Next]_vars PROVE B!Next \/ UNCHANGED B!vars
    OBVIOUS
<1> USE SessionAssumption
<1>0. /\ Usable \in closed => FALSE
      /\ Usable # 0 => Usable = registry /\ Usable \in Connections
      /\ 0 \notin closed
  BY DEF IInv, PresenceType, Connections, Usable
<1>1. ASSUME NEW c \in Connections, register(c) PROVE B!Next \/ UNCHANGED B!vars
  <2>1. CASE registry = 0
    <3>1. Usable = 0
      BY <2>1 DEF Usable
    <3> QED
      BY <1>1, <2>1, <3>1, OpensLink DEF register
  <2>2. CASE registry # 0
    <3>0. /\ ~spinning /\ c = links + 1 /\ handler[c] = "none"
          /\ handler' = [handler EXCEPT ![c] = "replacing"]
          /\ abort(registry) /\ UNCHANGED <<registry, links, view>>
      BY <1>1, <2>2 DEF register, LockFree, IInv, PresenceType, Numbered, Connections,
                        HandlerState
    <3>1. registry \in Connections /\ Serving(registry) /\ registry # c
      BY <2>2, <3>0 DEF IInv, PresenceType, Connections, Ordered, Serving
    <3>2. \A d \in Connections : handler'[d] = IF d = c THEN "replacing" ELSE handler[d]
      BY <3>0 DEF IInv, PresenceType
    <3>3. closed' = closed \cup {registry} /\ Usable' = 0
      BY <3>0 DEF abort, Usable
    <3>4. CASE Usable = registry
      <4>1. Cleanup' = [Cleanup EXCEPT ![registry] = "check"]
        <5>1. \A d \in Connections :
                Cleanup'[d] = IF d = registry THEN "check" ELSE Cleanup[d]
          BY <3>0, <3>1, <3>2, <3>3 DEF Cleanup, Serving
        <5> QED
          BY <3>1, <5>1, CleanupMoves
      <4> QED
        BY <3>0, <3>1, <3>3, <3>4, <4>1, LosesLink DEF abort
    <3>5. CASE Usable # registry
      <4>1. Usable = 0 /\ registry \in closed
        BY <3>5 DEF Usable
      <4>2. closed' = closed
        BY <3>3, <4>1
      <4>3. Cleanup' = Cleanup
        BY <3>0, <3>2, <4>2 DEF Cleanup
      <4> QED
        BY <3>0, <3>3, <3>5, <4>1, <4>3, Stutters DEF abort
    <3> QED
      BY <3>4, <3>5
  <2> QED
    BY <2>1, <2>2
<1>2. ASSUME NEW c \in Connections, Replaced(c) PROVE B!Next \/ UNCHANGED B!vars
  <2>1. handler[c] = "replacing" /\ Usable = 0
    BY <1>2 DEF Replaced, IInv, Replacing, LockFree, Usable
  <2>2. c = links + 1
    BY <2>1 DEF IInv, PresenceType, Numbered, Connections
  <2> QED
    BY <1>2, <2>1, <2>2, OpensLink DEF Replaced
<1>3. ASSUME NEW c \in Connections, ReceiveEnds(c) PROVE B!Next \/ UNCHANGED B!vars
  <2>1. \A d \in Connections : handler'[d] = IF d = c THEN "draining" ELSE handler[d]
    BY <1>3 DEF ReceiveEnds, IInv, PresenceType
  <2>2. Cleanup' = Cleanup
    BY <1>3, <2>1 DEF ReceiveEnds, Cleanup
  <2>3. Usable' = Usable
    BY <1>3 DEF ReceiveEnds, Usable
  <2> QED
    BY <1>3, <2>2, <2>3, Stutters DEF ReceiveEnds
<1>4. ASSUME NEW c \in Connections, SendAborts(c) PROVE B!Next \/ UNCHANGED B!vars
  <2>0. /\ ~spinning /\ c = Usable /\ abort(c) /\ UNCHANGED <<view, handler, registry, links>>
    BY <1>4 DEF SendAborts
  <2>1. c = registry /\ Serving(c) /\ closed' = closed \cup {c}
    BY <1>0, <2>0 DEF IInv, Ordered, abort, Connections
  <2>2. Usable' = 0
    BY <2>0, <2>1 DEF Usable
  <2>3. Cleanup' = [Cleanup EXCEPT ![c] = "check"]
    BY <2>0, <2>1 DEF Cleanup, Serving
  <2> QED
    BY <2>0, <2>2, <2>3, LosesLink DEF abort
<1>5. ASSUME NEW c \in Connections, unregister(c) PROVE B!Next \/ UNCHANGED B!vars
  <2>0. /\ ~spinning /\ handler[c] = "draining" /\ registry' = Pops(c) /\ abort(c)
        /\ handler' = [handler EXCEPT ![c] = NextStep(c)] /\ UNCHANGED <<view, links>>
        /\ closed' = closed \cup {c}
    BY <1>5 DEF unregister, abort
  <2>1. \A d \in Connections : handler'[d] = IF d = c THEN NextStep(c) ELSE handler[d]
    BY <2>0 DEF IInv, PresenceType
  <2>2. NextStep(c) \in {"clearing", "gone"}
    BY DEF NextStep
  <2> DEFINE next == IF NextStep(c) = "clearing" THEN "clear" ELSE "done"
  <2>3. Cleanup' = [Cleanup EXCEPT ![c] = next]
    <3>1. \A d \in Connections : Cleanup'[d] = IF d = c THEN next ELSE Cleanup[d]
      BY <2>0, <2>1, <2>2 DEF Cleanup
    <3> QED
      BY <3>1, CleanupMoves
  <2>4. CASE Usable = c
    <3>1. registry = c /\ next = "clear" /\ registry' = 0
      BY <1>0, <2>0, <2>4 DEF Pops, NextStep, Connections
    <3>2. Usable' = 0
      BY <3>1 DEF Usable
    <3> QED
      BY <2>0, <2>3, <2>4, <3>1, <3>2, LosesLink DEF abort
  <2>5. CASE Usable # c
    <3>1. c \in closed
      BY <2>0, <2>5 DEF IInv, LiveIsRegistered, Usable
    <3>2. Usable' = Usable
      BY <1>0, <2>0, <2>5, <3>1 DEF Usable, Pops
    <3>3. next = "clear" => Usable = 0
      BY <1>0, <2>0, <3>1 DEF NextStep, Pops, Usable
    <3>4. Cleanup[c] = "check"
      BY <2>0, <3>1 DEF Cleanup
    <3>5. UNCHANGED peer
      BY <2>0, <2>5 DEF abort
    <3> QED
      BY <2>0, <2>3, <3>2, <3>3, <3>4, <3>5, Looks
  <2> QED
    BY <2>4, <2>5
<1>6. ASSUME NEW c \in Connections, ClearsView(c) PROVE B!Next \/ UNCHANGED B!vars
  <2>1. \A d \in Connections : handler'[d] = IF d = c THEN "gone" ELSE handler[d]
    BY <1>6 DEF ClearsView, IInv, PresenceType
  <2>2. Cleanup[c] = "clear" /\ Cleanup' = [Cleanup EXCEPT ![c] = "done"]
    <3>1. Cleanup[c] = "clear"
          /\ \A d \in Connections : Cleanup'[d] = IF d = c THEN "done" ELSE Cleanup[d]
      BY <1>6, <2>1 DEF ClearsView, Cleanup
    <3> QED
      BY <3>1, CleanupMoves
  <2>3. Usable' = Usable
    BY <1>6 DEF ClearsView, Usable
  <2>4. B!clear_client(c)
    BY <1>6, <2>2, <2>3 DEF ClearsView, B!clear_client, B!loop, peer
  <2> QED
    BY <2>4 DEF B!Next, Connections
<1>7. ASSUME BrokerStep PROVE B!Next \/ UNCHANGED B!vars
  BY <1>7 DEF BrokerStep, B!Next
<1>8. ASSUME UNCHANGED vars PROVE B!Next \/ UNCHANGED B!vars
  BY <1>8 DEF vars, view, peer, presence, B!vars, B!broker, B!loop, B!agent, Usable, Cleanup
<1> QED
  BY <1>1, <1>2, <1>3, <1>4, <1>5, <1>6, <1>7, <1>8 DEF Next

\* The session implements the broker's specification: its handlers and the registry
\* do to a view only what TerminalBroker allows a connection to do.
THEOREM SessionImplementsBroker == Spec => ImplementsBroker
BY SessionInvariant, InitBroker, StepBroker, PTL DEF ImplementsBroker, B!Spec, Spec

\* Both instances of the broker are the same specification.
LEMMA SameBroker == B!Spec => P!Spec
<1>1. B!Init => P!Init
  BY DEF B!Init, P!Init, B!Actors, P!Actors
<1>2. B!Next => P!Next
  BY DEF B!Next, P!Next, B!Actors, P!Actors, B!broker, P!broker, B!loop, P!loop,
         B!agent, P!agent, B!Look, P!Look, B!AskAgent, P!AskAgent, B!Pending, P!Pending, B!Subscribe,
         P!Subscribe, B!Wake, P!Wake, B!Attached, P!Attached, B!AttachFails,
         P!AttachFails, B!unsubscribe, P!unsubscribe, B!RemoveWriter, P!RemoveWriter,
         B!StepsOut, P!StepsOut, B!LastOut, P!LastOut, B!_drop_subscriber_writer,
         P!_drop_subscriber_writer, B!Detach, P!Detach, B!FinishClose, P!FinishClose,
         B!FinishDetach, P!FinishDetach, B!PopDetach, P!PopDetach, B!PopAttachment,
         P!PopAttachment, B!AgentGone, P!AgentGone, B!LinkUp, P!LinkUp, B!LinkLost,
         P!LinkLost, B!AgentVanishes, P!AgentVanishes, B!LooksForAnother,
         P!LooksForAnother, B!clear_client, P!clear_client, B!InputFails, P!InputFails,
         B!HandlerClears, P!HandlerClears, B!AgentServes, P!AgentServes,
         B!publish_output, P!publish_output
<1>3. [B!Next]_(B!vars) => [P!Next]_(P!vars)
  BY <1>2 DEF B!vars, P!vars, B!broker, P!broker, B!loop, P!loop, B!agent, P!agent
<1> QED
  BY <1>1, <1>3, PTL DEF B!Spec, P!Spec

\* A recorded attachment has a socket that is still to unsubscribe, whatever the
\* client's connections do.
THEOREM SessionAttachmentHasSocket == Spec => []NoOrphanAttachment
<1>1. P!NoOrphanAttachment => NoOrphanAttachment
  BY DEF P!NoOrphanAttachment, NoOrphanAttachment, B!NoOrphanAttachment
<1>2. P!Spec => []P!NoOrphanAttachment
  BY P!AttachmentHasSocket
<1> QED
  BY <1>1, <1>2, SessionImplementsBroker, SameBroker, PTL DEF ImplementsBroker

\* A task in _detaches has a coroutine that is still going to pop it, whatever the
\* client's connections do.
THEOREM SessionDetachHasOwner == Spec => []EntryHasOwner
<1>1. P!EntryHasOwner => EntryHasOwner
  BY DEF P!EntryHasOwner, EntryHasOwner, B!EntryHasOwner
<1>2. P!Spec => []P!EntryHasOwner
  BY P!DetachHasOwner
<1> QED
  BY <1>1, <1>2, SessionImplementsBroker, SameBroker, PTL DEF ImplementsBroker

\* Once nothing is in flight, a view attached over the connection in use is shown by the
\* agent, whatever the client's connections do.
THEOREM SessionAttachedIsShown == Spec => []AttachedIsShown
<1>1. P!AttachedIsShown => AttachedIsShown
  BY DEF P!AttachedIsShown, AttachedIsShown, B!AttachedIsShown, P!Quiet, B!Quiet, P!Actors,
         B!Actors
<1>2. P!Spec => []P!AttachedIsShown
  BY P!AttachedViewIsShown
<1> QED
  BY <1>1, <1>2, SessionImplementsBroker, SameBroker, PTL DEF ImplementsBroker
=============================================================================
