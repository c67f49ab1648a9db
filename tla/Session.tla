------------------------------- MODULE Session -------------------------------
(***************************************************************************)
(* How a change of the list reaches a program that shows it: the server    *)
(* side of one connection (crates/fdm-ipc/src/session.rs), which listens   *)
(* to the manager's broadcast channel, and its client (client.rs).         *)
(*                                                                         *)
(* The pipe keeps messages in order and is part of the outbox here.        *)
(***************************************************************************)
EXTENDS Broadcast

CONSTANTS
  Depth,   \* messages that may wait for the client
  MaxCalls \* bound on the calls of the client

ASSUME SessionAssumption ==
  /\ Depth \in Nat \ {0}
  /\ MaxCalls \in Nat

\* "hello" in the right version or another one, a subscription, any other request,
\* a frame that is not a request.
Calls == {"none", "hello", "mismatch", "subscribe", "other", "unreadable"}

\* What the server sends: an event, the whole list in place of events it lost, a
\* reply with a list, another reply to the call, a reply to no call at all.
Message == [kind : {"none", "event", "resync", "list", "reply", "stray"},
            event : Event, list : List]
NoMessage == [kind |-> "none", event |-> NoEvent, list |-> EmptyList]
EventMessage(e) == [NoMessage EXCEPT !.kind = "event", !.event = e]
ListMessage(kind, list) == [NoMessage EXCEPT !.kind = kind, !.list = list]
Reply(kind) == [NoMessage EXCEPT !.kind = kind]

\* A forwarder waits for an event, has lost some, or has a message to send.
Forwarder == [step : {"off", "wait", "lagged", "push"}, pos : Nat, hand : Message]
NoForwarder == [step |-> "off", pos |-> 0, hand |-> NoMessage]

ServerSteps == {"read", "snapshot", "spawn", "answer", "last", "over"}

VARIABLES
  server,  \* what the session does next
  greeted, \* whether the versions agree
  tap,     \* position of the subscription that is being set up
  answer,  \* the reply the session is about to queue
  fwd,     \* the forwarder
  outbox,  \* messages on their way to the client
  call,    \* the request the server has not read yet
  asked,   \* the request whose reply the client waits for
  calls,   \* requests so far
  client,  \* "on", "off"
  view,    \* what the client shows once it has subscribed
  lost     \* history: rows whose event the client threw away

session == <<server, greeted, tap, answer, fwd>>
peer == <<asked, calls, client, view, lost>>
vars == <<registry, session, outbox, call, peer>>

Init ==
  /\ BroadcastInit
  /\ server = "read" /\ greeted = FALSE /\ tap = 0
  /\ answer = NoMessage /\ fwd = NoForwarder
  /\ outbox = <<>> /\ call = "none"
  /\ asked = "none" /\ calls = 0 /\ client = "on"
  /\ view = <<>> /\ lost = {}

\* A thread of the manager goes on, whatever its listeners do.
ManagerStep(t) ==
  /\ Change(t) \/ Publish(t)
  /\ UNCHANGED <<session, outbox, call, peer>>

---------------------------------------------------------------------------
(* The session. *)

\* Queue a reply, and read on or end the session.
Answers(message, then) ==
  /\ answer' = message
  /\ server' = then

\* Before the greeting, anything but a hello in the right version is refused and
\* ends the session; what is not a request at all is answered and forgotten.
Read ==
  /\ server = "read" /\ call # "none"
  /\ call' = "none"
  /\ CASE call = "unreadable" -> Answers(Reply("stray"), "answer") /\ UNCHANGED <<greeted, tap>>
       [] call = "hello" -> Answers(Reply("reply"), "answer") /\ greeted' = TRUE /\ UNCHANGED tap
       [] call \in {"mismatch", "subscribe", "other"} /\ ~greeted ->
            Answers(Reply("reply"), "last") /\ UNCHANGED <<greeted, tap>>
       [] call \in {"mismatch", "other"} /\ greeted ->
            Answers(Reply("reply"), "answer") /\ UNCHANGED <<greeted, tap>>
       [] OTHER -> \* subscribe: the subscription is taken before the snapshot
            /\ tap' = sent + 1
            /\ server' = "snapshot"
            /\ UNCHANGED <<answer, greeted>>
  /\ UNCHANGED <<registry, fwd, outbox, peer>>

Snapshot ==
  /\ server = "snapshot"
  /\ answer' = ListMessage("list", rows)
  /\ server' = "spawn"
  /\ UNCHANGED <<registry, greeted, tap, fwd, outbox, call, peer>>

\* The forwarder goes on from where the subscription was taken.
Spawn ==
  /\ server = "spawn"
  /\ server' = "answer"
  /\ fwd' = [NoForwarder EXCEPT !.step = "wait", !.pos = tap]
  /\ tap' = 0
  /\ UNCHANGED <<registry, greeted, answer, outbox, call, peer>>

HasRoom == Len(outbox) < Depth

\* Mutant: a reply for which there is no room is dropped.
AnswerOrDrop ==
  /\ server \in {"answer", "last"}
  /\ outbox' = IF HasRoom THEN Append(outbox, answer) ELSE outbox
  /\ answer' = NoMessage
  /\ server' = IF server = "last" THEN "over" ELSE "read"
  /\ UNCHANGED <<registry, greeted, tap, fwd, call, peer>>

Answer ==
  /\ server \in {"answer", "last"}
  /\ HasRoom
  /\ outbox' = Append(outbox, answer)
  /\ answer' = NoMessage
  /\ server' = IF server = "last" THEN "over" ELSE "read"
  /\ UNCHANGED <<registry, greeted, tap, fwd, call, peer>>

\* The next event, if the channel still has it.
Receive ==
  /\ fwd.step = "wait"
  /\ \/ /\ Lags(fwd.pos)
        /\ fwd' = [fwd EXCEPT !.step = "lagged", !.pos = Oldest]
     \/ /\ HasNext(fwd.pos)
        /\ fwd' = [fwd EXCEPT !.step = "push", !.pos = @ + 1,
                              !.hand = EventMessage(Sent(fwd.pos))]
  /\ UNCHANGED <<registry, server, greeted, tap, answer, outbox, call, peer>>

\* Mutant: events that were lost are nobody's loss.
ResyncNot ==
  /\ fwd.step = "lagged"
  /\ fwd' = [fwd EXCEPT !.step = "wait"]
  /\ UNCHANGED <<registry, server, greeted, tap, answer, outbox, call, peer>>

\* The whole list takes the place of the lost events.
Resync ==
  /\ fwd.step = "lagged"
  /\ fwd' = [fwd EXCEPT !.step = "push", !.hand = ListMessage("resync", rows)]
  /\ UNCHANGED <<registry, server, greeted, tap, answer, outbox, call, peer>>

\* Mutant: the queue has no limit.
PushAnyway ==
  /\ fwd.step = "push"
  /\ outbox' = Append(outbox, fwd.hand)
  /\ fwd' = [fwd EXCEPT !.step = "wait", !.hand = NoMessage]
  /\ UNCHANGED <<registry, server, greeted, tap, answer, call, peer>>

Push ==
  /\ fwd.step = "push" /\ HasRoom
  /\ outbox' = Append(outbox, fwd.hand)
  /\ fwd' = [fwd EXCEPT !.step = "wait", !.hand = NoMessage]
  /\ UNCHANGED <<registry, server, greeted, tap, answer, call, peer>>

\* Mutant: the forwarder is not told that the client has gone.
HangUpQuietly ==
  /\ client = "off" /\ server # "over"
  /\ server' = "over"
  /\ answer' = NoMessage /\ tap' = 0
  /\ call' = "none"
  /\ outbox' = <<>>
  /\ UNCHANGED <<registry, greeted, fwd, peer>>

\* The session notices that the client is gone when it reads or queues a reply.
\* What is still on its way is written to nobody.
HangUp ==
  /\ client = "off" /\ server # "over"
  /\ server' = "over"
  /\ fwd' = NoForwarder
  /\ answer' = NoMessage /\ tap' = 0
  /\ call' = "none"
  /\ outbox' = <<>>
  /\ UNCHANGED <<registry, greeted, peer>>

---------------------------------------------------------------------------
(* The client. *)

\* One request at a time; the first is a hello, and it subscribes once.
Ask(request) ==
  /\ client = "on" /\ asked = "none"
  /\ calls < MaxCalls
  /\ request \in IF calls = 0 THEN {"hello", "mismatch"}
                ELSE {"subscribe", "other", "unreadable"}
  /\ request = "subscribe" => view = <<>>
  /\ calls' = calls + 1
  /\ asked' = request
  /\ call' = request
  /\ UNCHANGED <<registry, session, outbox, client, view, lost>>

Named(message) ==
  IF message.kind = "event" THEN {message.event.row} ELSE Ids

\* Events that come before the reply are thrown away.
Skip(message) ==
  /\ message.kind \in {"event", "resync"}
  /\ lost' = lost \cup Named(message)
  /\ UNCHANGED <<asked, view, client>>

\* A reply that is not the one to this call, or a refusal of the greeting, is an
\* error the client does not go on after.
TakeReply(message) ==
  /\ message.kind \in {"list", "reply", "stray"}
  /\ asked' = "none"
  /\ view' = IF message.kind = "list" THEN message.list ELSE view
  /\ client' = IF message.kind = "stray" \/ asked = "mismatch" THEN "off" ELSE client
  /\ UNCHANGED lost

\* Replace the row, or everything.
Apply(message) ==
  /\ message.kind \in {"event", "resync"}
  /\ view' = IF message.kind = "event"
             THEN [view EXCEPT ![message.event.row] = message.event.to] ELSE message.list
  /\ lost' = lost \ Named(message)
  /\ UNCHANGED <<asked, client>>

Take ==
  /\ client = "on" /\ outbox # <<>>
  /\ IF asked # "none"
     THEN Skip(Head(outbox)) \/ TakeReply(Head(outbox))
     ELSE Apply(Head(outbox))
  /\ outbox' = Tail(outbox)
  /\ UNCHANGED <<registry, session, call, calls>>

Leave ==
  /\ client = "on"
  /\ client' = "off"
  /\ asked' = "none"
  /\ view' = <<>> /\ lost' = {}
  /\ UNCHANGED <<registry, session, outbox, call, calls>>

---------------------------------------------------------------------------
\* Every operation is done and every message is where it goes.
Quiet ==
  /\ AllPublished
  /\ server \in {"read", "over"} /\ call = "none" /\ asked = "none"
  /\ outbox = <<>> \/ client = "off"
  /\ \/ fwd.step = "off"
     \/ fwd.step = "wait" /\ fwd.pos > sent

Rest == Quiet /\ UNCHANGED vars

ServerStep == Read \/ Snapshot \/ Spawn \/ Answer \/ HangUp
ForwarderStep == Receive \/ Resync \/ Push

Next ==
  \/ \E t \in Threads : ManagerStep(t)
  \/ ServerStep \/ ForwarderStep
  \/ Take \/ Leave
  \/ \E request \in Calls : Ask(request)
  \/ Rest

Spec == Init /\ [][Next]_vars

\* The tasks of the server are scheduled, the outbox serves those who wait for
\* room in turn, and the client reads while it is there.
FairSpec ==
  /\ Spec
  /\ \A t \in Threads : WF_vars(ManagerStep(t) /\ pending[t] # NoEvent)
  /\ WF_vars(Read) /\ WF_vars(Snapshot) /\ WF_vars(Spawn) /\ SF_vars(Answer)
  /\ WF_vars(HangUp)
  /\ WF_vars(Receive) /\ WF_vars(Resync) /\ SF_vars(Push)
  /\ WF_vars(Take)

---------------------------------------------------------------------------
(* Properties. *)

TypeOK ==
  /\ RegistryOK
  /\ server \in ServerSteps
  /\ greeted \in BOOLEAN
  /\ tap \in Nat
  /\ answer \in Message
  /\ fwd \in Forwarder
  /\ outbox \in Seq(Message) /\ Len(outbox) <= Depth
  /\ call \in Calls
  /\ asked \in Calls
  /\ calls \in 0 .. MaxCalls
  /\ client \in {"on", "off"}
  /\ view \in List \cup {<<>>}
  /\ lost \subseteq Ids

Subscribed == client = "on" /\ view # <<>> /\ server # "over"

\* However slow the client was and whatever the channel has overwritten, when
\* everything is quiet a subscriber shows every row as it is or as the latest event
\* of the row had it, but for those whose event it threw away itself: nothing but
\* two events sent in the wrong order can leave it wrong.
ListenersEndUpRight ==
  Quiet /\ Subscribed => \A id \in Ids \ lost : view[id] \in {rows[id], latest[id]}

\* "A subscriber that missed a message still ends up correct": when everything is
\* quiet it shows every row as it is, in whatever order the events were sent.
SubscriberEndsUpRight ==
  Quiet /\ Subscribed => \A id \in Ids \ lost : view[id] = rows[id]

\* A request that is sent is answered, however many events wait for the client.
EveryCallIsAnswered == asked # "none" ~> asked = "none" \/ client = "off"

\* "The subscription outlives neither the connection": a forwarder does not run
\* on for a client that has left.
ForwarderEnds == client = "off" ~> fwd.step = "off"
=============================================================================
