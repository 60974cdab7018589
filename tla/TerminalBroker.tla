---------------------------- MODULE TerminalBroker ----------------------------
(***************************************************************************)
(* The broker's bookkeeping for one terminal view of one remote client.     *)
(*                                                                         *)
(* Browser sockets subscribe a writer and attach the view.  The first one  *)
(* asks the client's agent to attach, the others find the attachment.  The *)
(* last one to leave pops the attachment and starts a task that asks the   *)
(* agent to detach; a socket that attaches meanwhile waits for that task.  *)
(* The agent is reached over a link (a registered client connection) that  *)
(* may be lost, come back, or be replaced by a newer one.                  *)
(*                                                                         *)
(* Coroutines of one event loop: what runs between two suspensions is one  *)
(* action.  The lock is never held across a suspension, so taking it never *)
(* suspends either.                                                        *)
(***************************************************************************)
EXTENDS Naturals, Sequences

CONSTANTS
  Sockets,   \* the browser sockets opened on the view, one after the other or at once
  MaxLinks   \* bound: connections the client makes

VARIABLES
  attachment, \* the view has an entry in _attachments
  subs,       \* the sockets with a writer in _subscribers
  running,    \* the sockets whose writer has started its task
  entry,      \* whose task _detaches holds: {} or one actor
  detach,     \* detach[a]: the detach task that actor a created
  leave,      \* leave[a]: how far a is with closing writers and its detach task
  sock,       \* sock[s]: where the handler of socket s is
  waits,      \* waits[s]: whose detach task s awaits: {} or one actor
  behind,     \* the waiting sockets that came after the task's own creator
  spinning,   \* an attach loop runs without ever suspending
  link,       \* the usable connection of the client, 0 for none
  links,      \* how many connections there were
  cleanup,    \* cleanup[l]: what the handler of connection l still does
  alive,      \* there is still an agent at the other end of the link
  wire,       \* the requests on their way to the agent, in order
  replies,    \* the sockets whose attach the agent has answered
  shown,      \* the agent on the link has the view attached
  on          \* history: the link over which the attachment was made

broker == <<attachment, subs, running, entry, detach>>
loop   == <<leave, sock, waits, behind, spinning>>
agent  == <<link, links, cleanup, alive, wire, replies, shown>>
vars   == <<broker, loop, agent, on>>

\* A socket leaves as its handler, or as its writer when the broker drops it.
Actors == Sockets \X {"handler", "writer"}

Requests == [kind : {"attach", "detach"}, by : Sockets]

Init ==
  /\ attachment = FALSE
  /\ subs = {}
  /\ running = {}
  /\ entry = {}
  /\ detach = [a \in Actors |-> "none"]
  /\ leave = [a \in Actors |-> "none"]
  /\ sock = [s \in Sockets |-> "none"]
  /\ waits = [s \in Sockets |-> {}]
  /\ behind = {}
  /\ spinning = FALSE
  /\ link = 0
  /\ links = 0
  /\ cleanup = [l \in 1..MaxLinks |-> "none"]
  /\ alive = FALSE
  /\ wire = <<>>
  /\ replies = {}
  /\ shown = FALSE
  /\ on = 0

-----------------------------------------------------------------------------
(* Attaching.                                                              *)

AskAgent(kind, s) ==
  wire' = IF link = 0 \/ ~alive THEN wire ELSE Append(wire, [kind |-> kind, by |-> s])

\* A plausible slip: the detach task is put into _detaches after the writers are closed.
PendingOnceClosed == {a \in entry : leave[a] = "awaiting"}

\* What attach finds in _detaches.
Pending == entry

\* One turn of the loop of attach: an attachment ends it, a detach task in
\* _detaches is awaited, and without either the agent is asked.  Awaiting a
\* finished task does not suspend.
Look(s) ==
  \/ /\ attachment
     /\ sock' = [sock EXCEPT ![s] = "connected"]
     /\ waits' = [waits EXCEPT ![s] = {}]
     /\ UNCHANGED <<behind, spinning, wire>>
  \/ /\ ~attachment
     /\ Pending = {}
     /\ sock' = [sock EXCEPT ![s] = IF link = 0 THEN "failing" ELSE "attaching"]
     /\ waits' = [waits EXCEPT ![s] = {}]
     /\ AskAgent("attach", s)
     /\ UNCHANGED <<behind, spinning>>
  \/ \E a \in Pending :
       /\ ~attachment
       /\ detach[a] = "running"
       /\ sock' = [sock EXCEPT ![s] = "waiting"]
       /\ waits' = [waits EXCEPT ![s] = {a}]
       /\ behind' = IF leave[a] = "awaiting" THEN behind \cup {s} ELSE behind \ {s}
       /\ UNCHANGED <<spinning, wire>>
  \/ \E a \in Pending :
       /\ ~attachment
       /\ detach[a] = "done"
       /\ sock' = [sock EXCEPT ![s] = "waiting"]
       /\ spinning' = TRUE
       /\ UNCHANGED <<waits, behind, wire>>

\* terminal_websocket: subscribe, then attach, with no suspension in between.  A
\* window exists only if its client has been connected.
Subscribe(s) ==
  /\ ~spinning
  /\ links # 0
  /\ sock[s] = "none"
  /\ subs' = subs \cup {s}
  /\ Look(s)
  /\ UNCHANGED <<attachment, running, entry, detach, leave, link, links, cleanup, alive, replies,
                 shown, on>>

\* The awaited detach task is done.  Its creator wakes first if it came first.
Wake(s) ==
  /\ ~spinning
  /\ sock[s] = "waiting"
  /\ \A a \in waits[s] : detach[a] = "done" /\ (s \in behind => leave[a] = "gone")
  /\ Look(s)
  /\ UNCHANGED <<broker, leave, link, links, cleanup, alive, replies, shown, on>>

\* The reply resolves the request; the coroutine records the attachment.
Attached(s) ==
  /\ ~spinning
  /\ sock[s] = "attaching"
  /\ s \in replies
  /\ replies' = replies \ {s}
  /\ attachment' = TRUE
  /\ on' = link
  /\ sock' = [sock EXCEPT ![s] = "connected"]
  /\ UNCHANGED <<subs, running, entry, detach, leave, waits, behind, spinning, link, links,
                 cleanup, alive, wire, shown>>

\* The agent answered with an error, or not in time.
AttachFails(s) ==
  /\ ~spinning
  /\ sock[s] = "attaching"
  /\ replies' = replies \ {s}
  /\ sock' = [sock EXCEPT ![s] = "failing"]
  /\ UNCHANGED <<broker, leave, waits, behind, spinning, link, links, cleanup, alive, wire, shown, on>>

-----------------------------------------------------------------------------
(* Leaving.                                                                *)

\* Remove the writer of s; the last one pops the attachment and, if there was
\* one, creates the task that detaches it.
LastOut(s) == subs \ {s} = {}

\* A plausible slip: the attachment stays for the next socket.
RemoveWriterOnly(s, a) ==
  /\ subs' = subs \ {s}
  /\ UNCHANGED <<attachment, on>>
  /\ IF attachment /\ LastOut(s)
       THEN detach' = [detach EXCEPT ![a] = "running"] /\ entry' = {a}
       ELSE UNCHANGED <<detach, entry>>

RemoveWriter(s, a) ==
  /\ subs' = subs \ {s}
  /\ attachment' = (attachment /\ ~LastOut(s))
  /\ on' = IF LastOut(s) THEN 0 ELSE on
  /\ IF attachment /\ LastOut(s)
       THEN detach' = [detach EXCEPT ![a] = "running"] /\ entry' = {a}
       ELSE UNCHANGED <<detach, entry>>

\* Closing a writer suspends while its task is cancelled.
StepsOut(s, a, suspends) ==
  leave' = [leave EXCEPT ![a] = IF suspends THEN "closing"
                                ELSE IF attachment /\ LastOut(s) THEN "awaiting" ELSE "gone"]

unsubscribe(s) ==
  /\ ~spinning
  /\ sock[s] \in {"connected", "failing"}
  /\ RemoveWriter(s, <<s, "handler">>)
  /\ StepsOut(s, <<s, "handler">>, s \in subs \cap running)
  /\ running' = running \ {s}
  /\ sock' = [sock EXCEPT ![s] = "leaving"]
  /\ UNCHANGED <<waits, behind, spinning, agent>>

\* A publisher found the queue of s full, or the writer's own send failed; only
\* the publisher closes a task that still runs.  The socket stays open.
_drop_subscriber_writer(s) ==
  /\ ~spinning
  /\ s \in subs \cap running
  /\ RemoveWriter(s, <<s, "writer">>)
  /\ \E suspends \in BOOLEAN : StepsOut(s, <<s, "writer">>, suspends)
  /\ running' = running \ {s}
  /\ UNCHANGED <<sock, waits, behind, spinning, agent>>

\* The detach task runs: it sends the request if there is a connection, and
\* ends either way.
Detach(a) ==
  /\ ~spinning
  /\ detach[a] = "running"
  /\ detach' = [detach EXCEPT ![a] = "done"]
  /\ AskAgent("detach", a[1])
  /\ UNCHANGED <<attachment, subs, running, entry, loop, link, links, cleanup, alive, replies,
                 shown, on>>

\* A plausible slip: the task is kept for the sockets that came meanwhile.
PopDetachIfEmpty(a) == entry' = IF subs = {} THEN entry \ {a} ELSE entry

PopDetach(a) == entry' = entry \ {a}

\* The writers are closed.  A task that is done already is not waited for.
FinishClose(a) ==
  /\ ~spinning
  /\ leave[a] = "closing"
  /\ IF detach[a] = "running"
       THEN leave' = [leave EXCEPT ![a] = "awaiting"] /\ UNCHANGED entry
       ELSE leave' = [leave EXCEPT ![a] = "gone"] /\ PopDetach(a)
  /\ UNCHANGED <<attachment, subs, running, detach, sock, waits, behind, spinning, agent, on>>

\* The creator wakes up from its own task, unless a socket awaited it first.
FinishDetach(a) ==
  /\ ~spinning
  /\ leave[a] = "awaiting"
  /\ detach[a] = "done"
  /\ \A s \in Sockets : a \in waits[s] => s \in behind
  /\ leave' = [leave EXCEPT ![a] = "gone"]
  /\ PopDetach(a)
  /\ UNCHANGED <<attachment, subs, running, detach, sock, waits, behind, spinning, agent, on>>

-----------------------------------------------------------------------------
(* The connection of the client, and what its loss does to the view.       *)

PopAttachment == attachment' = FALSE /\ on' = 0

\* What was sent is lost, and the agent starts over with nothing attached.
AgentGone == alive' = FALSE /\ wire' = <<>> /\ replies' = {} /\ shown' = FALSE

LinkUp ==
  /\ ~spinning
  /\ link = 0
  /\ links < MaxLinks
  /\ links' = links + 1
  /\ link' = links + 1
  /\ alive' = TRUE
  /\ UNCHANGED <<broker, loop, cleanup, wire, replies, shown, on>>

\* The server notices later, or when something it sends fails.
AgentVanishes ==
  /\ alive
  /\ AgentGone
  /\ UNCHANGED <<broker, loop, link, links, cleanup, on>>

\* The connection is closed: its pending requests fail.  Its handler does so
\* itself and finds no other connection, or still has to look for one.
LinkLost ==
  /\ ~spinning
  /\ link # 0
  /\ link' = 0
  /\ AgentGone
  /\ sock' = [s \in Sockets |-> IF sock[s] = "attaching" THEN "failing" ELSE sock[s]]
  /\ \E next \in {"check", "clear"} : cleanup' = [cleanup EXCEPT ![link] = next]
  /\ UNCHANGED <<broker, leave, waits, behind, spinning, links, on>>

\* The handler of a closed connection looks whether the client has another
\* one (which may be closed itself), and marks it offline if not.
LooksForAnother(l) ==
  /\ ~spinning
  /\ cleanup[l] = "check"
  /\ \E next \in IF link = 0 THEN {"clear", "done"} ELSE {"done"} :
       cleanup' = [cleanup EXCEPT ![l] = next]
  /\ UNCHANGED <<broker, loop, link, links, alive, wire, replies, shown, on>>

\* clear_client pops the attachments and tells the subscribers, which starts
\* their writers.
clear_client(l) ==
  /\ ~spinning
  /\ cleanup[l] = "clear"
  /\ cleanup' = [cleanup EXCEPT ![l] = "done"]
  /\ PopAttachment
  /\ running' = running \cup subs
  /\ UNCHANGED <<subs, entry, detach, loop, link, links, alive, wire, replies, shown>>

\* Input of the tab finds no connection; the handler marks the window, then
\* clears the client and leaves.
InputFails(s) ==
  /\ ~spinning
  /\ sock[s] = "connected"
  /\ link = 0
  /\ sock' = [sock EXCEPT ![s] = "clearing"]
  /\ UNCHANGED <<broker, leave, waits, behind, spinning, agent, on>>

HandlerClears(s) ==
  /\ ~spinning
  /\ sock[s] = "clearing"
  /\ sock' = [sock EXCEPT ![s] = "failing"]
  /\ PopAttachment
  /\ running' = running \cup subs
  /\ UNCHANGED <<subs, entry, detach, leave, waits, behind, spinning, agent>>

\* The agent serves one request after the other.
AgentServes ==
  /\ wire # <<>>
  /\ wire' = Tail(wire)
  /\ shown' = (Head(wire).kind = "attach")
  /\ replies' = IF Head(wire).kind = "attach" /\ sock[Head(wire).by] = "attaching"
                  THEN replies \cup {Head(wire).by} ELSE replies
  /\ UNCHANGED <<broker, loop, link, links, cleanup, alive, on>>

\* Output of the view starts the tasks of its writers.
publish_output ==
  /\ ~spinning
  /\ shown
  /\ ~(subs \subseteq running)
  /\ running' = subs
  /\ UNCHANGED <<attachment, subs, entry, detach, loop, agent, on>>

Next ==
  \/ \E s \in Sockets :
       \/ Subscribe(s) \/ Wake(s) \/ Attached(s) \/ AttachFails(s)
       \/ unsubscribe(s) \/ _drop_subscriber_writer(s)
       \/ InputFails(s) \/ HandlerClears(s)
  \/ \E a \in Actors : Detach(a) \/ FinishClose(a) \/ FinishDetach(a)
  \/ \E l \in 1..MaxLinks : LooksForAnother(l) \/ clear_client(l)
  \/ LinkUp \/ LinkLost \/ AgentVanishes \/ AgentServes \/ publish_output

Spec == Init /\ [][Next]_vars

-----------------------------------------------------------------------------
(* Fairness: a coroutine that can run is run (and a request has a timeout); *)
(* browsers, the network, slow writers and the agent owe nothing.           *)

FairSpec ==
  /\ Spec
  /\ \A s \in Sockets :
       /\ WF_vars(Wake(s))
       /\ WF_vars(Attached(s) \/ AttachFails(s))
       /\ WF_vars(HandlerClears(s))
       /\ WF_vars(sock[s] = "failing" /\ unsubscribe(s))
  /\ \A a \in Actors : WF_vars(Detach(a)) /\ WF_vars(FinishClose(a) \/ FinishDetach(a))
  /\ \A l \in 1..MaxLinks : WF_vars(LooksForAnother(l)) /\ WF_vars(clear_client(l))

-----------------------------------------------------------------------------
(* Properties.                                                             *)

TypeOK ==
  /\ {attachment, spinning, alive, shown} \subseteq BOOLEAN
  /\ subs \subseteq Sockets
  /\ running \subseteq Sockets
  /\ behind \subseteq Sockets
  /\ replies \subseteq Sockets
  /\ entry \subseteq Actors
  /\ detach \in [Actors -> {"none", "running", "done"}]
  /\ leave \in [Actors -> {"none", "closing", "awaiting", "gone"}]
  /\ sock \in [Sockets -> {"none", "waiting", "attaching", "failing", "connected",
                           "clearing", "leaving"}]
  /\ waits \in [Sockets -> SUBSET Actors]
  /\ {link, links, on} \subseteq Nat
  /\ cleanup \in [1..MaxLinks -> {"none", "check", "clear", "done"}]
  /\ wire \in Seq(Requests)

\* A recorded attachment has a socket whose handler is still to unsubscribe, so
\* that somebody is left who asks the agent to detach: attach records it after an
\* await, without looking who is still subscribed (broker.attach).
NoOrphanAttachment ==
  attachment => \E s \in Sockets : sock[s] \notin {"none", "leaving"}

\* A task in _detaches belongs to a coroutine that is still going to pop it, also
\* when another task has taken its place: else every later attach would find a
\* finished task for ever (broker.unsubscribe, _drop_subscriber_writer).
EntryHasOwner == \A a \in entry : leave[a] \in {"closing", "awaiting"}

Quiet ==
  /\ wire = <<>>
  /\ \A a \in Actors : detach[a] # "running"
  /\ \A s \in Sockets : sock[s] # "attaching"

\* Once nothing is in flight, a view attached over the connection in use is shown
\* by the agent: no detach overtakes the attach of a socket that came back.  With
\* a dropped writer the code promises less, see the README.
AttachedIsShown ==
  /\ Quiet /\ attachment /\ on = link /\ link # 0 /\ alive
  /\ \A s \in Sockets : leave[<<s, "writer">>] = "none"
  => shown

\* A socket that waits for the pending detach of the view gets on with its attach.
ReconnectAttaches == \A s \in Sockets : sock[s] = "waiting" ~> sock[s] # "waiting"
=============================================================================
