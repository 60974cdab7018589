---------------------------- MODULE ClientSession ----------------------------
(***************************************************************************)
(* One remote client of the server: the handlers of its control websockets, *)
(* the registry that names the one in use, and the broker's view of         *)
(* TerminalBroker on top of them.                                          *)
(*                                                                         *)
(* A connection is numbered by the order in which it enters the registry.   *)
(* The registry's lock is held while a replaced connection is being closed. *)
(***************************************************************************)
EXTENDS Naturals, Sequences

CONSTANTS
  Sockets,   \* as in TerminalBroker
  MaxLinks   \* bound: connections the client makes

ASSUME SessionAssumption == MaxLinks \in Nat

VARIABLES
  \* the broker, as in TerminalBroker
  attachment, subs, running, entry, detach, leave, sock, waits, behind, spinning,
  links, alive, wire, replies, shown, on,
  handler,    \* handler[c]: where the websocket handler of connection c is
  closed,     \* the connections whose _closed is set
  registry    \* the client's entry in _connections, 0 for none

view     == <<attachment, subs, running, entry, detach, leave, waits, behind, spinning, on>>
peer     == <<alive, wire, replies, shown, sock>>
presence == <<handler, closed, registry, links>>
vars     == <<view, peer, presence>>

Connections == 1..MaxLinks

\* The connection requests go out on.
Usable == IF registry \in closed THEN 0 ELSE registry

\* What the handler of a connection may still do to the broker.
Cleanup ==
  [c \in Connections |->
     CASE handler[c] \in {"none", "replacing"} -> "none"
       [] handler[c] \in {"open", "draining"}  -> IF c \in closed THEN "check" ELSE "none"
       [] handler[c] = "clearing"              -> "clear"
       [] OTHER                                -> "done"]

B == INSTANCE TerminalBroker WITH link <- Usable, cleanup <- Cleanup

Init ==
  /\ attachment = FALSE /\ subs = {} /\ running = {} /\ entry = {}
  /\ detach = [a \in B!Actors |-> "none"]
  /\ leave = [a \in B!Actors |-> "none"]
  /\ sock = [s \in Sockets |-> "none"]
  /\ waits = [s \in Sockets |-> {}]
  /\ behind = {} /\ spinning = FALSE
  /\ links = 0 /\ alive = FALSE /\ wire = <<>> /\ replies = {} /\ shown = FALSE /\ on = 0
  /\ handler = [c \in Connections |-> "none"]
  /\ closed = {}
  /\ registry = 0

-----------------------------------------------------------------------------
(* The registry.                                                           *)

LockFree == \A c \in Connections : handler[c] # "replacing"

\* abort: the connection is closed and the requests that wait on it fail.
abort(c) ==
  /\ closed' = closed \cup {c}
  /\ IF Usable = c
       THEN /\ alive' = FALSE /\ wire' = <<>> /\ replies' = {} /\ shown' = FALSE
            /\ sock' = [s \in Sockets |-> IF sock[s] = "attaching" THEN "failing" ELSE sock[s]]
       ELSE UNCHANGED peer

Enters(c) ==
  /\ handler' = [handler EXCEPT ![c] = "open"]
  /\ registry' = c
  /\ links' = c

\* An authenticated connection enters the registry: at once if there is none, else
\* after the one it replaces has been closed.
register(c) ==
  /\ ~spinning
  /\ LockFree
  /\ c = links + 1
  /\ \/ /\ registry = 0
        /\ Enters(c)
        /\ alive' = TRUE
        /\ UNCHANGED <<closed, wire, replies, shown, sock>>
     \/ /\ registry # 0
        /\ handler' = [handler EXCEPT ![c] = "replacing"]
        /\ abort(registry)
        /\ UNCHANGED <<registry, links>>
  /\ UNCHANGED view

\* The websocket of the replaced connection is closed.
Replaced(c) ==
  /\ ~spinning
  /\ handler[c] = "replacing"
  /\ Enters(c)
  /\ alive' = TRUE
  /\ UNCHANGED <<view, wire, replies, shown, sock, closed>>

\* The receive loop ends: the agent is gone, or the connection was closed.
ReceiveEnds(c) ==
  /\ ~spinning
  /\ handler[c] = "open"
  /\ c \in closed \/ ~alive
  /\ handler' = [handler EXCEPT ![c] = "draining"]
  /\ UNCHANGED <<view, peer, closed, registry, links>>

\* A send to an agent that is gone raises and aborts the connection.
SendAborts(c) ==
  /\ ~spinning
  /\ c = Usable
  /\ c # 0
  /\ ~alive
  /\ abort(c)
  /\ UNCHANGED <<view, handler, registry, links>>

\* A plausible slip: whatever connection is in the registry is taken out.
PopsAny(c) == 0

\* What is left in the registry: pop only the connection itself.
Pops(c) == IF registry = c THEN 0 ELSE registry

\* A plausible slip: the view is cleared whenever a connection ends.
NextStepAlways(c) == "clearing"

NextStep(c) == IF Pops(c) = 0 THEN "clearing" ELSE "gone"

\* The queues are drained.  The connection leaves the registry if it is still the
\* one there, is aborted, and the handler looks whether the client has another.
unregister(c) ==
  /\ ~spinning
  /\ LockFree
  /\ handler[c] = "draining"
  /\ registry' = Pops(c)
  /\ handler' = [handler EXCEPT ![c] = NextStep(c)]
  /\ abort(c)
  /\ UNCHANGED <<view, links>>

\* The client is marked offline, which awaits the database, then the view is cleared.
ClearsView(c) ==
  /\ ~spinning
  /\ handler[c] = "clearing"
  /\ handler' = [handler EXCEPT ![c] = "gone"]
  /\ B!PopAttachment
  /\ running' = running \cup subs
  /\ UNCHANGED <<subs, entry, detach, leave, waits, behind, spinning, peer, closed, registry,
                 links>>

-----------------------------------------------------------------------------
(* The broker's own steps leave the connections alone.                     *)

BrokerStep ==
  /\ UNCHANGED presence
  /\ \/ \E s \in Sockets :
          \/ B!Subscribe(s) \/ B!Wake(s) \/ B!Attached(s) \/ B!AttachFails(s)
          \/ B!unsubscribe(s) \/ B!_drop_subscriber_writer(s)
          \/ B!InputFails(s) \/ B!HandlerClears(s)
     \/ \E a \in B!Actors : B!Detach(a) \/ B!FinishClose(a) \/ B!FinishDetach(a)
     \/ B!AgentVanishes \/ B!AgentServes \/ B!publish_output

Next ==
  \/ \E c \in Connections :
       \/ register(c) \/ Replaced(c) \/ ReceiveEnds(c) \/ SendAborts(c) \/ unregister(c)
       \/ ClearsView(c)
  \/ BrokerStep

Spec == Init /\ [][Next]_vars

-----------------------------------------------------------------------------
(* Properties.                                                             *)

TypeOK ==
  /\ B!TypeOK
  /\ handler \in [Connections -> {"none", "replacing", "open", "draining", "clearing", "gone"}]
  /\ closed \subseteq Connections
  /\ registry \in 0..MaxLinks

\* A connection that still receives and has not been closed is the one in the
\* registry, so that requests reach the agent: neither a replacement nor the late
\* clean-up of an older connection takes a live one out (registry.register,
\* registry.unregister and the finally of the websocket handler).
LiveIsRegistered ==
  \A c \in Connections : handler[c] \in {"open", "draining"} /\ c \notin closed => registry = c

\* The handlers and the registry do to the broker only what TerminalBroker says of
\* a connection: one is up at a time, it is lost with everything sent on it, and a
\* view is cleared by a closed connection that found no other one.
ImplementsBroker == B!Spec

\* As in TerminalBroker.
NoOrphanAttachment == B!NoOrphanAttachment
EntryHasOwner == B!EntryHasOwner
AttachedIsShown == B!AttachedIsShown
=============================================================================
