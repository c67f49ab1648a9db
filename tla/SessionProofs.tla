---------------------------- MODULE SessionProofs ----------------------------
(***************************************************************************)
(* Proofs about module Session: its types, and that a subscriber ends up   *)
(* with what the latest event of each row said, or better, whatever the    *)
(* channel has overwritten and in whatever order replies and events reach  *)
(* it.                                                                     *)
(***************************************************************************)
EXTENDS Session, TLAPS

---------------------------------------------------------------------------
(* The inductive invariant. *)

\* Messages that carry a version of the row, and the version they carry.
Names(m, id) == \/ m.kind = "event" /\ m.event.row = id
                \/ m.kind \in {"resync", "list"}
Says(m, id) == IF m.kind = "event" THEN m.event.to ELSE m.list[id]
IsReply(m) == m.kind \in {"list", "reply", "stray"}

InPending(id) == \E t \in Threads : pending[t].row = id
Window == Oldest .. sent

\* What is still to be told about a row to a receiver at a position.
Coming(id, pos) ==
  \/ InPending(id)
  \/ Lags(pos)
  \/ \E p \in pos .. sent : Sent(p).row = id

\* A row is right as it is, and as the latest event about it had it.
Right(id) == {rows[id], latest[id]}

\* An event in the channel is the latest of its row unless another one follows it there.
EventsTrue ==
  /\ \A t \in Threads : pending[t] # NoEvent => pending[t].row \in Ids
  /\ \A p \in Window : Sent(p).row \in Ids
  /\ \A p \in Window :
       \/ \E q \in p + 1 .. sent : Sent(q).row = Sent(p).row
       \/ Sent(p).to = latest[Sent(p).row]
  /\ Len(channel) <= sent

\* Where the forwarder is, or will start.
Position == IF server \in {"snapshot", "spawn"} THEN tap ELSE fwd.pos

Positions ==
  /\ tap <= sent + 1 /\ fwd.pos <= sent + 1
  /\ fwd.step = "push" => fwd.hand.kind \in {"event", "resync"}
  /\ fwd.step = "push" /\ fwd.hand.kind = "event" => fwd.hand.event.row \in Ids
  /\ \A i \in 1 .. Len(outbox) : outbox[i].kind = "event" => outbox[i].event.row \in Ids
  /\ \A i \in 1 .. Len(outbox) : outbox[i].kind # "none"
  /\ server \in {"spawn", "answer", "last"} => IsReply(answer)

\* One request at a time, and one reply to it.
OneReply ==
  /\ asked = "none" =>
       /\ call = "none" /\ server \in {"read", "over"}
       /\ \A i \in 1 .. Len(outbox) : ~IsReply(outbox[i])
  /\ call # "none" \/ server \in {"snapshot", "spawn", "answer", "last"} =>
       \A i \in 1 .. Len(outbox) : ~IsReply(outbox[i])
  /\ call # "none" => call = asked /\ server \in {"read", "over"}
  /\ \A i, j \in 1 .. Len(outbox) : IsReply(outbox[i]) /\ IsReply(outbox[j]) => i = j

Listed == \E i \in 1 .. Len(outbox) : outbox[i].kind = "list"
Subscribing == view # <<>> \/ answer.kind = "list" \/ Listed

\* The subscription is taken once; the forwarder runs from then on.
OneSubscription ==
  /\ server \in {"snapshot", "spawn"} =>
       asked = "subscribe" /\ view = <<>> /\ fwd.step = "off" /\ outbox = <<>>
  /\ asked = "subscribe" => view = <<>>
  /\ server = "snapshot" => answer.kind # "list"
  /\ server = "spawn" => answer.kind = "list"
  /\ answer.kind = "list" =>
       server \in {"spawn", "answer"} /\ asked = "subscribe" /\ view = <<>>
  /\ answer.kind = "list" /\ server = "answer" => fwd.step # "off"
  /\ Listed => asked = "subscribe" /\ view = <<>> /\ fwd.step # "off"
  /\ view # <<>> => fwd.step # "off"
  /\ fwd.step # "off" => Subscribing
  /\ fwd.step = "off" => \A i \in 1 .. Len(outbox) : IsReply(outbox[i])

\* The last message about a row is right; a list may be out of date in a row whose
\* event has been overtaken and is thrown away.
Excused(j, id) ==
  outbox[j].kind = "list" /\ (id \in lost \/ \E i \in 1 .. j - 1 : Names(outbox[i], id))

IsLast(j, id) == Names(outbox[j], id) /\ \A k \in j + 1 .. Len(outbox) : ~Names(outbox[k], id)

Base == IF view # <<>> THEN view ELSE answer.list

OnItsWay(id) ==
  /\ \A j \in 1 .. Len(outbox) :
       IsLast(j, id) => Says(outbox[j], id) \in Right(id) \/ Excused(j, id)
  /\ (\A j \in 1 .. Len(outbox) : ~Names(outbox[j], id)) => id \in lost \/ Base[id] \in Right(id)

InHand(id) == fwd.step = "push" /\ Names(fwd.hand, id)

Told(id) ==
  \/ Coming(id, Position) \/ fwd.step = "lagged"
  \/ InHand(id) /\ Says(fwd.hand, id) \in Right(id)
  \/ ~InHand(id) /\ OnItsWay(id)

SessionInv ==
  /\ TypeOK
  /\ EventsTrue
  /\ Positions
  /\ client = "on" => OneReply /\ OneSubscription
  /\ client = "on" /\ Subscribing => \A id \in Ids : Told(id)

---------------------------------------------------------------------------
(* Sequences and messages. *)

LEMMA AppendFacts ==
  ASSUME NEW S, NEW q \in Seq(S), NEW e \in S
  PROVE  /\ Append(q, e) \in Seq(S) /\ Len(q) \in Nat
         /\ Len(Append(q, e)) = Len(q) + 1
         /\ \A i \in 1 .. Len(q) : Append(q, e)[i] = q[i] /\ q[i] \in S
         /\ Append(q, e)[Len(q) + 1] = e
OBVIOUS

LEMMA TailFacts ==
  ASSUME NEW S, NEW q \in Seq(S), q # <<>>
  PROVE  /\ Tail(q) \in Seq(S) /\ Len(q) \in Nat /\ Len(q) > 0
         /\ Len(Tail(q)) = Len(q) - 1
         /\ \A i \in 1 .. Len(q) - 1 : Tail(q)[i] = q[i + 1]
         /\ Head(q) = q[1] /\ Head(q) \in S
         /\ \A i \in 1 .. Len(q) : q[i] \in S
OBVIOUS

LEMMA EventTypes ==
  /\ NoEvent \in Event /\ NoEvent.row = Nobody /\ Nobody \notin Ids
  /\ EmptyList \in List
  /\ \A id \in Ids : EmptyList[id] = 0
BY BroadcastAssumption DEF NoEvent, Event, Nobody, EmptyList, List, Versions

LEMMA MessageTypes ==
  /\ NoMessage \in Message /\ NoMessage.kind = "none"
  /\ \A e \in Event : /\ EventMessage(e) \in Message
                      /\ EventMessage(e).kind = "event" /\ EventMessage(e).event = e
  /\ \A kind \in {"list", "resync"}, list \in List :
       /\ ListMessage(kind, list) \in Message
       /\ ListMessage(kind, list).kind = kind /\ ListMessage(kind, list).list = list
  /\ \A kind \in {"reply", "stray"} : Reply(kind) \in Message /\ Reply(kind).kind = kind
<1>1. NoEvent \in Event /\ EmptyList \in List
  BY EventTypes
<1>2. QED
  BY <1>1 DEF NoMessage, Message, EventMessage, ListMessage, Reply

LEMMA MessageFields ==
  ASSUME NEW m \in Message
  PROVE  /\ m.kind \in {"none", "event", "resync", "list", "reply", "stray"}
         /\ m.event \in Event /\ m.list \in List
         /\ m.event.row \in Ids \cup {Nobody} /\ m.event.to \in Versions
BY DEF Message, Event

LEMMA ListIsNoGap == ASSUME NEW list \in List PROVE list # <<>>
BY BroadcastAssumption DEF List

---------------------------------------------------------------------------
(* The list and the channel. *)

LEMMA ChannelFacts ==
  ASSUME TypeOK, EventsTrue
  PROVE  /\ sent \in Nat /\ Len(channel) \in Nat
         /\ Oldest \in Nat /\ Oldest >= 1 /\ Oldest <= sent + 1
         /\ \A p \in Window : Sent(p) \in Event
BY DEF TypeOK, RegistryOK, EventsTrue, Oldest, Window, Sent

LEMMA ChangeFacts ==
  ASSUME TypeOK, NEW t \in Threads, Change(t)
  PROVE  \E id \in Ids :
           /\ pending[t] = NoEvent
           /\ rows' \in List /\ \A i \in Ids \ {id} : rows'[i] = rows[i]
           /\ pending' = [pending EXCEPT ![t] = [row |-> id, to |-> rows'[id]]]
           /\ [row |-> id, to |-> rows'[id]] \in Event
           /\ clock' \in Versions
           /\ born' \in List
           /\ UNCHANGED <<channel, sent, latest>>
<1>1. clock' \in Versions /\ 0 \in Versions /\ pending[t] = NoEvent
  BY BroadcastAssumption DEF Change, TypeOK, RegistryOK, Versions
<1>2. PICK id \in Ids :
        /\ rows' = [rows EXCEPT ![id] = clock'] \/ rows' = [rows EXCEPT ![id] = 0]
        /\ born' = [born EXCEPT ![id] = clock'] \/ born' = born
        /\ pending' = [pending EXCEPT ![t] = [row |-> id, to |-> rows'[id]]]
  BY DEF Change
<1>3. rows' \in List /\ born' \in List /\ \A i \in Ids \ {id} : rows'[i] = rows[i]
  BY <1>1, <1>2 DEF TypeOK, RegistryOK, List
<1>4. [row |-> id, to |-> rows'[id]] \in Event
  BY <1>3 DEF Event, List
<1>5. UNCHANGED <<channel, sent, latest>>
  BY DEF Change
<1>6. QED
  BY <1>1, <1>2, <1>3, <1>4, <1>5

LEMMA PublishFacts ==
  ASSUME TypeOK, EventsTrue, NEW t \in Threads, Publish(t)
  PROVE  /\ pending[t] # NoEvent /\ pending[t] \in Event
         /\ pending' = [pending EXCEPT ![t] = NoEvent]
         /\ sent' = sent + 1
         /\ channel' \in Seq(Event) /\ Len(channel') <= Capacity /\ Len(channel') <= sent'
         /\ Oldest' \in {Oldest, Oldest + 1} /\ Oldest' <= sent'
         /\ \A p \in Oldest' .. sent : p >= Oldest /\ Sent(p)' = Sent(p)
         /\ Sent(sent)' = pending[t]
         /\ latest' = [latest EXCEPT ![pending[t].row] = pending[t].to]
         /\ latest' = [latest EXCEPT ![pending[t].row] = pending[t].to]
      /\ UNCHANGED <<rows, born, clock>>
<1> DEFINE kept == IF Len(channel) = Capacity THEN Tail(channel) ELSE channel
           drop == IF Len(channel) = Capacity THEN 1 ELSE 0
<1>1. /\ pending[t] # NoEvent /\ pending[t] \in Event
      /\ channel' = Append(kept, pending[t]) /\ sent' = sent + 1
      /\ pending' = [pending EXCEPT ![t] = NoEvent]
      /\ latest' = [latest EXCEPT ![pending[t].row] = pending[t].to]
      /\ UNCHANGED <<rows, born, clock>>
  BY DEF Publish, TypeOK, RegistryOK
<1>2. /\ channel \in Seq(Event) /\ Len(channel) <= Capacity /\ Capacity \in Nat \ {0}
      /\ Len(channel) \in Nat /\ sent \in Nat /\ Len(channel) <= sent
  BY BroadcastAssumption DEF TypeOK, RegistryOK, EventsTrue
<1>3. /\ kept \in Seq(Event) /\ Len(kept) = Len(channel) - drop
      /\ \A i \in 1 .. Len(kept) : kept[i] = channel[i + drop]
  <2>1. CASE Len(channel) = Capacity
    <3>1. channel # <<>>
      BY <1>2, <2>1
    <3>2. QED
      BY <1>2, <2>1, <3>1, TailFacts
  <2>2. CASE Len(channel) # Capacity
    BY <1>2, <2>2
  <2>3. QED
    BY <2>1, <2>2
<1>4. drop \in {0, 1} /\ Len(channel) - drop + 1 <= Capacity
  BY <1>2
<1> HIDE DEF kept, drop
<1>5. /\ channel' \in Seq(Event) /\ Len(channel') = Len(channel) - drop + 1
      /\ \A i \in 1 .. Len(channel) - drop : channel'[i] = channel[i + drop]
      /\ channel'[Len(channel) - drop + 1] = pending[t]
  BY <1>1, <1>3, AppendFacts
<1>6. Oldest' = Oldest + drop
  BY <1>1, <1>2, <1>4, <1>5 DEF Oldest
<1>7. \A p \in Oldest' .. sent : p >= Oldest /\ Sent(p)' = Sent(p)
  <2> SUFFICES ASSUME NEW p \in Oldest' .. sent PROVE p >= Oldest /\ Sent(p)' = Sent(p)
    OBVIOUS
  <2>1. /\ p - Oldest' + 1 \in 1 .. Len(channel) - drop
        /\ p - Oldest' + 1 + drop = p - Oldest + 1 /\ p >= Oldest
    BY <1>2, <1>4, <1>6 DEF Oldest
  <2>2. QED
    BY <1>5, <2>1 DEF Sent
<1>8. Sent(sent)' = pending[t]
  <2>1. sent' - Oldest' + 1 = Len(channel) - drop + 1
    BY <1>1, <1>2, <1>4, <1>6 DEF Oldest
  <2>2. QED
    BY <1>1, <1>5, <2>1 DEF Sent
<1>9. QED
  BY <1>1, <1>2, <1>4, <1>5, <1>6, <1>7, <1>8 DEF Oldest

LEMMA ChangeKeepsEvents ==
  ASSUME TypeOK, EventsTrue, NEW t \in Threads, Change(t)
  PROVE  /\ EventsTrue'
         /\ \A id \in Ids : rows'[id] # rows[id] => InPending(id)'
         /\ \A id \in Ids, pos \in Nat : Coming(id, pos) => Coming(id, pos)'
<1>1. PICK id \in Ids :
        /\ pending[t] = NoEvent
        /\ \A i \in Ids \ {id} : rows'[i] = rows[i]
        /\ pending' = [pending EXCEPT ![t] = [row |-> id, to |-> rows'[id]]]
        /\ UNCHANGED <<channel, sent, latest>>
  BY ChangeFacts
<1>2. /\ pending \in [Threads -> Event] /\ pending'[t] = [row |-> id, to |-> rows'[id]]
      /\ \A u \in Threads \ {t} : pending'[u] = pending[u]
  BY <1>1 DEF TypeOK, RegistryOK
<1>3. Window' = Window /\ \A p : Sent(p)' = Sent(p) /\ Lags(p)' = Lags(p)
  BY <1>1 DEF Window, Sent, Oldest, Lags
<1>4. \A i \in Ids : InPending(i) => InPending(i)'
  <2> SUFFICES ASSUME NEW i \in Ids, InPending(i) PROVE InPending(i)'
    OBVIOUS
  <2>1. PICK u \in Threads : pending[u].row = i
    BY DEF InPending
  <2>2. u # t
    BY <1>1, <2>1, EventTypes
  <2>3. QED
    BY <1>2, <2>1, <2>2 DEF InPending
<1>5. InPending(id)'
  BY <1>2 DEF InPending
<1>6. \A u \in Threads : pending'[u] # NoEvent => pending'[u].row \in Ids
  BY <1>2 DEF EventsTrue
<1>7. EventsTrue'
  <2>1. \A p \in Window' :
          \/ \E q \in p + 1 .. sent' : Sent(q)'.row = Sent(p)'.row
          \/ Sent(p)'.to = latest'[Sent(p)'.row]
    BY <1>1, <1>3 DEF EventsTrue
  <2>2. QED
    BY <1>1, <1>3, <1>6, <2>1 DEF EventsTrue
<1>8. \A i \in Ids, pos \in Nat : Coming(i, pos) => Coming(i, pos)'
  BY <1>1, <1>3, <1>4 DEF Coming
<1>9. QED
  BY <1>1, <1>5, <1>7, <1>8

LEMMA PublishKeepsEvents ==
  ASSUME TypeOK, EventsTrue, NEW t \in Threads, Publish(t)
  PROVE  /\ EventsTrue'
         /\ \A id \in Ids, pos \in Nat : pos <= sent + 1 /\ Coming(id, pos) => Coming(id, pos)'
         /\ \A id \in Ids, pos \in Nat :
              pos <= sent + 1 /\ latest'[id] # latest[id] => Coming(id, pos)'
<1> DEFINE id == pending[t].row
<1>1. /\ pending \in [Threads -> Event] /\ id \in Ids
      /\ pending'[t] = NoEvent
      /\ \A u \in Threads \ {t} : pending'[u] = pending[u]
      /\ latest'[id] = pending[t].to /\ \A i \in Ids \ {id} : latest'[i] = latest[i]
  BY PublishFacts DEF TypeOK, RegistryOK, EventsTrue, List
<1>2. /\ sent \in Nat /\ Oldest \in Nat /\ Oldest' \in Nat /\ sent' = sent + 1
      /\ Oldest' \in {Oldest, Oldest + 1} /\ Oldest' <= sent'
      /\ \A p \in Oldest' .. sent : p >= Oldest /\ Sent(p)' = Sent(p)
      /\ Sent(sent)' = pending[t]
  BY ChannelFacts, PublishFacts
<1>3. \A i \in Ids : i # id /\ InPending(i) => InPending(i)'
  BY <1>1 DEF InPending
<1>4. \A p \in Oldest' .. sent' : Sent(p)' = IF p = sent' THEN pending[t] ELSE Sent(p)
  <2> SUFFICES ASSUME NEW p \in Oldest' .. sent'
               PROVE  Sent(p)' = IF p = sent' THEN pending[t] ELSE Sent(p)
    OBVIOUS
  <2>1. CASE p = sent'
    <3>1. Sent(p)' = channel'[p - Oldest' + 1]
      BY DEF Sent
    <3>2. Sent(sent)' = channel'[sent' - Oldest' + 1]
      BY DEF Sent
    <3>3. QED
      BY <1>2, <2>1, <3>1, <3>2
  <2>2. CASE p # sent'
    BY <1>2, <2>2
  <2>3. QED
    BY <2>1, <2>2
<1>5. \A u \in Threads : pending'[u] # NoEvent => pending'[u].row \in Ids
  BY <1>1 DEF EventsTrue
<1>6. ASSUME NEW p \in Oldest' .. sent'
      PROVE  /\ Sent(p)'.row \in Ids
             /\ \/ \E q \in p + 1 .. sent' : Sent(q)'.row = Sent(p)'.row
                \/ Sent(p)'.to = latest'[Sent(p)'.row]
  <2>1. CASE p = sent'
    BY <1>1, <1>2, <1>4, <2>1
  <2>2. CASE p # sent'
    <3>1. p \in Window /\ Sent(p)' = Sent(p) /\ p + 1 \in Nat /\ Sent(p).row \in Ids
      BY <1>2, <1>4, <2>2 DEF Window, EventsTrue
    <3>2. CASE Sent(p).row = id
      <4>1. sent' \in p + 1 .. sent' /\ sent' \in Oldest' .. sent'
        BY <1>2, <2>2, <3>1
      <4>2. ASSUME NEW q \in Oldest' .. sent', q = sent'
            PROVE  Sent(q)'.row = id
        BY <1>4, <4>2
      <4>3. QED
        BY <3>1, <3>2, <4>1, <4>2
    <3>3. ASSUME NEW q \in p + 1 .. sent, Sent(q).row = Sent(p).row
          PROVE  \E r \in p + 1 .. sent' : Sent(r)'.row = Sent(p)'.row
      <4>1. q \in Oldest' .. sent' /\ q # sent' /\ q \in p + 1 .. sent'
        BY <1>2, <2>2, <3>1
      <4>2. QED
        BY <1>4, <3>1, <3>3, <4>1
    <3>4. QED
      BY <1>1, <3>1, <3>2, <3>3 DEF EventsTrue
  <2>3. QED
    BY <2>1, <2>2
<1>7. EventsTrue'
  <2>1. \A p \in Window' :
          \/ \E q \in p + 1 .. sent' : Sent(q)'.row = Sent(p)'.row
          \/ Sent(p)'.to = latest'[Sent(p)'.row]
    BY <1>6 DEF Window
  <2>2. \A p \in Window' : Sent(p)'.row \in Ids
    BY <1>6 DEF Window
  <2>3. Len(channel') <= sent'
    BY PublishFacts
  <2>4. QED
    BY <1>5, <2>1, <2>2, <2>3 DEF EventsTrue
<1>8. ASSUME NEW i \in Ids, i = id, NEW pos \in Nat, pos <= sent + 1 PROVE Coming(i, pos)'
  <2>1. CASE pos < Oldest'
    BY <2>1 DEF Coming, Lags
  <2>2. CASE pos >= Oldest'
    <3>1. ASSUME NEW q \in Oldest' .. sent', q = sent' PROVE Sent(q)'.row = i
      BY <1>4, <1>8, <3>1
    <3>2. sent' \in Oldest' .. sent' /\ sent' \in pos .. sent'
      BY <1>2, <1>8
    <3>3. QED
      BY <3>1, <3>2 DEF Coming
  <2>3. QED
    BY <1>2, <2>1, <2>2
<1>9. ASSUME NEW i \in Ids, NEW pos \in Nat, pos <= sent + 1, Coming(i, pos)
      PROVE  Coming(i, pos)'
  <2>1. CASE Lags(pos)
    BY <1>2, <2>1 DEF Coming, Lags
  <2>2. CASE InPending(i)
    <3>1. CASE i = id
      BY <1>8, <1>9, <3>1
    <3>2. QED
      BY <1>3, <2>2, <3>1 DEF Coming
  <2>3. ASSUME NEW p \in pos .. sent, Sent(p).row = i, ~Lags(pos)
        PROVE  Coming(i, pos)'
    <3>1. CASE p >= Oldest'
      <4>1. p \in Oldest' .. sent' /\ p # sent' /\ p \in pos .. sent'
        BY <1>2, <3>1
      <4>2. Sent(p)'.row = i
        BY <1>4, <2>3, <4>1
      <4>3. QED
        BY <4>1, <4>2 DEF Coming
    <3>2. CASE p < Oldest'
      BY <1>2, <3>2 DEF Coming, Lags
    <3>3. QED
      BY <1>2, <3>1, <3>2
  <2>4. QED
    BY <1>9, <2>1, <2>2, <2>3 DEF Coming
<1>10. ASSUME NEW i \in Ids, NEW pos \in Nat, pos <= sent + 1, latest'[i] # latest[i]
       PROVE  Coming(i, pos)'
  <2>1. i = id
    BY <1>1, <1>10
  <2>2. QED
    BY <1>8, <1>10, <2>1
<1>11. QED
  BY <1>7, <1>9, <1>10

LEMMA StillBelow == \A n, a, b \in Nat : n <= a + 1 /\ a <= b => n <= b + 1
OBVIOUS

LEMMA RegistrySteps ==
  ASSUME SessionInv, NEW t \in Threads, ManagerStep(t)
  PROVE  SessionInv'
<1>1. TypeOK /\ EventsTrue /\ Positions /\ sent \in Nat
  BY DEF SessionInv, TypeOK, RegistryOK
<1>2. UNCHANGED <<session, outbox, call, peer>>
  BY DEF ManagerStep
<1>3. UNCHANGED <<server, tap, answer, fwd, outbox, call, asked, client, view, lost>>
  BY <1>2 DEF session, peer
<1>4. /\ EventsTrue' /\ sent' \in {sent, sent + 1}
      /\ \A id \in Ids, pos \in Nat : pos <= sent + 1 /\ Coming(id, pos) => Coming(id, pos)'
      /\ \A id \in Ids, pos \in Nat :
           pos <= sent + 1 /\ ~Coming(id, pos)' => rows'[id] = rows[id] /\ latest'[id] = latest[id]
  <2>1. CASE Change(t)
    BY <1>1, <2>1, ChangeKeepsEvents DEF Change, Coming
  <2>2. CASE Publish(t)
    BY <1>1, <2>2, PublishKeepsEvents, PublishFacts
  <2>3. QED
    BY <2>1, <2>2 DEF ManagerStep
<1>5. TypeOK'
  <2>1. /\ rows' \in List /\ born' \in List /\ clock' \in Versions /\ latest' \in List
        /\ pending' \in [Threads -> Event]
        /\ channel' \in Seq(Event) /\ Len(channel') <= Capacity /\ sent' \in Nat
    <3>1. CASE Change(t)
      <4>1. PICK id \in Ids :
              /\ rows' \in List
              /\ pending' = [pending EXCEPT ![t] = [row |-> id, to |-> rows'[id]]]
              /\ [row |-> id, to |-> rows'[id]] \in Event
              /\ clock' \in Versions /\ born' \in List
              /\ UNCHANGED <<channel, sent, latest>>
        BY <1>1, <3>1, ChangeFacts
      <4> DEFINE e == [row |-> id, to |-> rows'[id]]
      <4>2. pending' = [pending EXCEPT ![t] = e] /\ e \in Event
        BY <4>1
      <4> HIDE DEF e
      <4>3. QED
        BY <1>1, <4>1, <4>2 DEF TypeOK, RegistryOK
    <3>2. CASE Publish(t)
      <4>1. pending' \in [Threads -> Event]
        BY <1>1, <3>2, PublishFacts, EventTypes DEF TypeOK, RegistryOK
      <4>2. latest' \in List
        BY <1>1, <3>2, PublishFacts DEF TypeOK, RegistryOK, List, Event
      <4>3. QED
        BY <1>1, <3>2, <4>1, <4>2, PublishFacts DEF TypeOK, RegistryOK
    <3>3. QED
      BY <3>1, <3>2 DEF ManagerStep
  <2>2. QED
    BY <1>1, <1>2, <2>1 DEF TypeOK, RegistryOK, session, peer
<1>6. Positions'
  <2>1. tap \in Nat /\ fwd.pos \in Nat
    BY <1>1 DEF TypeOK, RegistryOK, Forwarder
  <2>2. tap' <= sent' + 1 /\ fwd'.pos <= sent' + 1
    <3>1. tap <= sent + 1 /\ fwd.pos <= sent + 1
      BY <1>1 DEF Positions
    <3>2. sent' \in Nat /\ sent <= sent' /\ sent \in Nat
      BY <1>1, <1>4
    <3>3. \A n \in Nat : n <= sent + 1 => n <= sent' + 1
      BY <3>2, StillBelow
    <3>4. QED
      BY <1>3, <2>1, <3>1, <3>3
  <2>3. QED
    BY <1>1, <1>3, <2>2 DEF Positions, IsReply
<1>7. client' = "on" => OneReply' /\ OneSubscription'
  BY <1>3 DEF SessionInv, OneReply, OneSubscription, Listed, Subscribing
<1>8. ASSUME client = "on", Subscribing, NEW id \in Ids PROVE Told(id)'
  <2>1. Told(id)
    BY <1>8 DEF SessionInv
  <2>2. Position' = Position /\ Position \in Nat /\ Position <= sent + 1
    BY <1>1, <1>3 DEF Position, TypeOK, RegistryOK, Positions, Forwarder
  <2>3. CASE Coming(id, Position)
    <3>1. Coming(id, Position)'
      BY <1>4, <2>2, <2>3 DEF Coming, Lags
    <3>2. QED
      BY <3>1 DEF Told, Right
  <2>4. CASE ~Coming(id, Position) /\ ~Coming(id, Position)'
    <3>1. rows'[id] = rows[id] /\ latest'[id] = latest[id]
      <4>1. PICK pos \in Nat : pos = Position /\ pos <= sent + 1
        BY <2>2
      <4>2. ~Coming(id, pos)'
        BY <2>2, <2>4, <4>1 DEF Coming, Lags
      <4>3. QED
        BY <1>4, <4>1, <4>2
    <3>2. QED
      BY <1>3, <2>1, <2>4, <3>1 DEF Told, Right, InHand, OnItsWay, Base, IsLast, Excused
  <2>5. QED
    BY <2>3, <2>4 DEF Told
<1>9. Subscribing' = Subscribing
  BY <1>3 DEF Subscribing, Listed
<1>10. QED
  BY <1>3, <1>4, <1>5, <1>6, <1>7, <1>8, <1>9 DEF SessionInv

\* Every other step leaves the list and the channel alone.
LEMMA RegistryStays ==
  ASSUME UNCHANGED registry
  PROVE  /\ EventsTrue => EventsTrue'
         /\ rows' = rows /\ latest' = latest /\ sent' = sent /\ Oldest' = Oldest
         /\ \A id, pos : Coming(id, pos)' <=> Coming(id, pos)
         /\ \A p : Sent(p)' = Sent(p)
<1>1. UNCHANGED <<rows, pending, channel, sent, latest>>
  BY DEF registry
<1>2. Oldest' = Oldest /\ Window' = Window /\ \A p : Sent(p)' = Sent(p)
  BY <1>1 DEF Oldest, Window, Sent
<1>3. \A id : InPending(id)' <=> InPending(id)
  BY <1>1 DEF InPending
<1>4. \A id, pos : Coming(id, pos)' <=> Coming(id, pos)
  BY <1>1, <1>2, <1>3 DEF Coming, Lags
<1>5. EventsTrue => EventsTrue'
  <2>1. SUFFICES ASSUME EventsTrue PROVE EventsTrue'
    OBVIOUS
  <2>2. \A p \in Window :
          \/ \E q \in p + 1 .. sent : Sent(q).row = Sent(p).row
          \/ Sent(p).to = latest'[Sent(p).row]
    BY <1>1, <1>2, <2>1 DEF EventsTrue
  <2>3. QED
    BY <1>1, <1>2, <2>1, <2>2 DEF EventsTrue
<1>6. QED
  BY <1>1, <1>2, <1>4, <1>5

LEMMA ListStays ==
  ASSUME SessionInv, UNCHANGED registry
  PROVE  EventsTrue' /\ rows' = rows /\ latest' = latest /\ sent' = sent
BY RegistryStays DEF SessionInv

---------------------------------------------------------------------------
(* The outbox. *)

LEMMA OutboxAfterPut ==
  ASSUME TypeOK, NEW m \in Message, outbox' = Append(outbox, m), HasRoom
  PROVE  /\ outbox' \in Seq(Message) /\ Len(outbox') <= Depth
         /\ Len(outbox) \in Nat /\ Len(outbox') = Len(outbox) + 1
         /\ \A i \in 1 .. Len(outbox) : outbox'[i] = outbox[i] /\ outbox[i] \in Message
         /\ outbox'[Len(outbox')] = m
<1>1. outbox \in Seq(Message) /\ Depth \in Nat
  BY SessionAssumption DEF TypeOK, RegistryOK
<1>2. QED
  BY <1>1, AppendFacts DEF HasRoom

\* A message that does not name a row leaves what is on its way about it.
LEMMA PutPast ==
  ASSUME TypeOK, NEW m \in Message, outbox' = Append(outbox, m), HasRoom,
         NEW id \in Ids, ~Names(m, id), OnItsWay(id),
         UNCHANGED <<rows, latest, lost>>, Base' = Base
  PROVE  OnItsWay(id)'
<1>1. /\ Len(outbox) \in Nat /\ Len(outbox') = Len(outbox) + 1
      /\ \A i \in 1 .. Len(outbox) : outbox'[i] = outbox[i]
      /\ outbox'[Len(outbox')] = m
  BY OutboxAfterPut
<1>2. ASSUME NEW j \in 1 .. Len(outbox'), IsLast(j, id)'
      PROVE  Says(outbox[j], id)' \in Right(id)' \/ Excused(j, id)'
  <2>1. j \in 1 .. Len(outbox)
    BY <1>1, <1>2 DEF IsLast, Names
  <2>2. IsLast(j, id)
    BY <1>1, <1>2, <2>1 DEF IsLast, Names
  <2>3. Says(outbox[j], id) \in Right(id) \/ Excused(j, id)
    BY <2>1, <2>2 DEF OnItsWay, Right
  <2>4. Excused(j, id) => Excused(j, id)'
    BY <1>1, <2>1 DEF Excused, Names
  <2>5. QED
    BY <1>1, <2>1, <2>3, <2>4 DEF Says, Right
<1>3. (\A j \in 1 .. Len(outbox') : ~Names(outbox[j], id)') => id \in lost' \/ Base'[id] \in Right(id)'
  BY <1>1 DEF OnItsWay, Right, Names
<1>4. QED
  BY <1>2, <1>3 DEF OnItsWay, Right

\* One that names it is the last about it.
LEMMA PutAbout ==
  ASSUME TypeOK, NEW m \in Message, outbox' = Append(outbox, m), HasRoom,
         NEW id \in Ids, Names(m, id),
         \/ Says(m, id) \in Right(id)'
         \/ /\ m.kind = "list" /\ UNCHANGED <<rows, latest, lost>>
            /\ OnItsWay(id) /\ Base = m.list
  PROVE  OnItsWay(id)'
<1>1. /\ Len(outbox) \in Nat /\ Len(outbox') = Len(outbox) + 1
      /\ \A i \in 1 .. Len(outbox) : outbox'[i] = outbox[i]
      /\ outbox'[Len(outbox')] = m
  BY OutboxAfterPut
<1>2. Names(outbox'[Len(outbox')], id)
  BY <1>1
<1>3. ASSUME NEW j \in 1 .. Len(outbox'), IsLast(j, id)'
      PROVE  Says(outbox[j], id)' \in Right(id)' \/ Excused(j, id)'
  <2>1. j = Len(outbox')
    BY <1>1, <1>2, <1>3 DEF IsLast, Names
  <2>2. CASE Says(m, id) \in Right(id)'
    BY <1>1, <2>1, <2>2 DEF Says
  <2>3. CASE m.kind = "list" /\ UNCHANGED <<rows, latest, lost>> /\ OnItsWay(id) /\ Base = m.list
    <3>1. CASE \A i \in 1 .. Len(outbox) : ~Names(outbox[i], id)
      BY <1>1, <2>1, <2>3, <3>1 DEF OnItsWay, Right, Excused, Says
    <3>2. CASE \E i \in 1 .. Len(outbox) : Names(outbox[i], id)
      <4>1. PICK i \in 1 .. Len(outbox) : Names(outbox[i], id)
        BY <3>2
      <4>2. i \in 1 .. j - 1 /\ Names(outbox[i], id)'
        BY <1>1, <2>1, <4>1 DEF Names
      <4>3. QED
        BY <1>1, <2>1, <2>3, <4>2 DEF Excused
    <3>3. QED
      BY <3>1, <3>2
  <2>4. QED
    BY <2>2, <2>3
<1>4. Len(outbox') \in 1 .. Len(outbox') /\ Names(outbox[Len(outbox)], id)'
  BY <1>1, <1>2 DEF Names
<1>5. QED
  BY <1>3, <1>4 DEF OnItsWay, Right

LEMMA OutboxAfterTake ==
  ASSUME TypeOK, outbox # <<>>, outbox' = Tail(outbox)
  PROVE  /\ outbox' \in Seq(Message) /\ Len(outbox') <= Depth
         /\ Len(outbox) \in Nat \ {0} /\ Len(outbox') = Len(outbox) - 1
         /\ \A i \in 1 .. Len(outbox') : outbox'[i] = outbox[i + 1] /\ i + 1 \in 2 .. Len(outbox)
         /\ \A i \in 1 .. Len(outbox) : outbox[i] \in Message
         /\ Head(outbox) = outbox[1] /\ Head(outbox) \in Message
<1>1. outbox \in Seq(Message) /\ Depth \in Nat /\ Len(outbox) <= Depth
  BY SessionAssumption DEF TypeOK, RegistryOK
<1>2. QED
  BY <1>1, TailFacts

\* The client takes a message: what it keeps of it, and what it throws away.
LEMMA TakeOne ==
  ASSUME TypeOK, outbox # <<>>, outbox' = Tail(outbox), UNCHANGED <<rows, latest>>,
         NEW id \in Ids, OnItsWay(id),
         \/ \A i \in 2 .. Len(outbox) : outbox[i].kind # "list"
         \/ id \in lost \/ Names(Head(outbox), id) => id \in lost',
         Names(Head(outbox), id) /\ (\/ Says(Head(outbox), id) \in Right(id)
                                     \/ Head(outbox).kind = "list" /\ id \in lost)
           => id \in lost' \/ Base'[id] \in Right(id)',
         ~Names(Head(outbox), id) /\ (id \in lost \/ Base[id] \in Right(id))
           => id \in lost' \/ Base'[id] \in Right(id)'
  PROVE  OnItsWay(id)'
<1>1. /\ Len(outbox) \in Nat \ {0} /\ Len(outbox') = Len(outbox) - 1
      /\ \A i \in 1 .. Len(outbox') : outbox'[i] = outbox[i + 1] /\ i + 1 \in 2 .. Len(outbox)
      /\ Head(outbox) = outbox[1]
  BY OutboxAfterTake
<1>2. ASSUME NEW j \in 1 .. Len(outbox'), IsLast(j, id)'
      PROVE  Says(outbox[j], id)' \in Right(id)' \/ Excused(j, id)'
  <2>1. j + 1 \in 2 .. Len(outbox) /\ outbox'[j] = outbox[j + 1]
    BY <1>1
  <2>2. IsLast(j + 1, id)
    <3>1. Names(outbox[j + 1], id)
      BY <1>2, <2>1 DEF IsLast, Names
    <3>2. ASSUME NEW k \in j + 2 .. Len(outbox) PROVE ~Names(outbox[k], id)
      <4>1. k - 1 \in j + 1 .. Len(outbox') /\ outbox'[k - 1] = outbox[k]
        BY <1>1
      <4>2. QED
        BY <1>2, <4>1 DEF IsLast, Names
    <3>3. QED
      BY <1>1, <3>1, <3>2 DEF IsLast
  <2>3. Says(outbox[j + 1], id) \in Right(id) \/ Excused(j + 1, id)
    BY <1>1, <2>1, <2>2 DEF OnItsWay, Right
  <2>4. Excused(j + 1, id) => Excused(j, id)'
    <3> SUFFICES ASSUME Excused(j + 1, id) PROVE Excused(j, id)'
      OBVIOUS
    <3>1. outbox[j + 1].kind = "list" /\ (id \in lost \/ Names(Head(outbox), id) => id \in lost')
      BY <2>1 DEF Excused
    <3>2. CASE id \in lost
      BY <2>1, <3>1, <3>2 DEF Excused
    <3>3. ASSUME NEW i \in 1 .. j, Names(outbox[i], id) PROVE Excused(j, id)'
      <4>1. CASE i = 1
        BY <1>1, <2>1, <3>1, <3>3, <4>1 DEF Excused
      <4>2. CASE i # 1
        <5>1. i - 1 \in 1 .. j - 1 /\ i - 1 \in 1 .. Len(outbox') /\ outbox'[i - 1] = outbox[i]
          BY <1>1, <4>2
        <5>2. Names(outbox[i - 1], id)'
          BY <3>3, <5>1 DEF Names
        <5>3. QED
          BY <2>1, <3>1, <5>1, <5>2 DEF Excused
      <4>3. QED
        BY <4>1, <4>2
    <3>4. QED
      BY <1>1, <3>2, <3>3 DEF Excused
  <2>5. QED
    BY <2>1, <2>3, <2>4 DEF Says, Right
<1>3. ASSUME \A j \in 1 .. Len(outbox') : ~Names(outbox[j], id)'
      PROVE  id \in lost' \/ Base'[id] \in Right(id)'
  <2>1. \A k \in 2 .. Len(outbox) : ~Names(outbox[k], id)
    <3> SUFFICES ASSUME NEW k \in 2 .. Len(outbox) PROVE ~Names(outbox[k], id)
      OBVIOUS
    <3>1. k - 1 \in 1 .. Len(outbox') /\ outbox'[k - 1] = outbox[k]
      BY <1>1
    <3>2. QED
      BY <1>3, <3>1 DEF Names
  <2>2. CASE Names(Head(outbox), id)
    <3>1. 1 \in 1 .. Len(outbox) /\ IsLast(1, id)
      BY <1>1, <2>1, <2>2 DEF IsLast
    <3>2. Says(outbox[1], id) \in Right(id) \/ Excused(1, id)
      BY <3>1 DEF OnItsWay, Right
    <3>3. QED
      BY <1>1, <2>2, <3>2 DEF Excused
  <2>3. CASE ~Names(Head(outbox), id)
    <3>1. \A k \in 1 .. Len(outbox) : ~Names(outbox[k], id)
      BY <1>1, <2>1, <2>3
    <3>2. QED
      BY <2>3, <3>1 DEF OnItsWay, Right
  <2>4. QED
    BY <2>2, <2>3
<1>4. QED
  BY <1>2, <1>3 DEF OnItsWay, Right

---------------------------------------------------------------------------
(* The session. *)

LEMMA ReadKeepsSession ==
  ASSUME SessionInv, Read PROVE SessionInv'
<1>1. /\ TypeOK /\ Positions /\ sent \in Nat
      /\ UNCHANGED <<registry, fwd, outbox, asked, client, view, lost>>
      /\ UNCHANGED <<calls, peer, born, clock, pending, channel>>
      /\ server = "read" /\ call # "none" /\ call' = "none"
  BY DEF SessionInv, Read, TypeOK, RegistryOK, peer, registry
<1>2. /\ \/ /\ server' \in {"answer", "last"} /\ tap' = tap
            /\ answer' \in Message /\ answer'.kind \in {"reply", "stray"}
         \/ /\ server' = "snapshot" /\ tap' = sent + 1 /\ answer' = answer
            /\ call = "subscribe"
      /\ greeted' \in BOOLEAN
  <2>1. /\ \/ /\ \E kind \in {"reply", "stray"}, then \in {"answer", "last"} :
                     answer' = Reply(kind) /\ server' = then
                /\ tap' = tap
             \/ /\ server' = "snapshot" /\ tap' = sent + 1 /\ answer' = answer
                /\ call = "subscribe"
        /\ greeted' \in {TRUE, greeted}
    <3>1. call \in {"hello", "mismatch", "subscribe", "other", "unreadable"} /\ greeted \in BOOLEAN
      BY <1>1 DEF TypeOK, RegistryOK, Calls
    <3>2. CASE call = "unreadable"
      BY <3>2 DEF Read, Answers
    <3>3. CASE call = "hello"
      BY <3>3 DEF Read, Answers
    <3>4. CASE call \in {"mismatch", "subscribe", "other"} /\ ~greeted
      BY <3>4 DEF Read, Answers
    <3>5. CASE call \in {"mismatch", "other"} /\ greeted
      BY <3>5 DEF Read, Answers
    <3>6. CASE call = "subscribe" /\ greeted
      BY <3>6 DEF Read, Answers
    <3>7. QED
      BY <3>1, <3>2, <3>3, <3>4, <3>5, <3>6
  <2>2. \A kind \in {"reply", "stray"} : Reply(kind) \in Message /\ Reply(kind).kind = kind
    BY MessageTypes
  <2>3. greeted' \in BOOLEAN
    BY <1>1, <2>1 DEF TypeOK, RegistryOK
  <2>4. CASE \E kind \in {"reply", "stray"}, then \in {"answer", "last"} :
               answer' = Reply(kind) /\ server' = then
    <3>1. PICK kind \in {"reply", "stray"}, then \in {"answer", "last"} :
            answer' = Reply(kind) /\ server' = then
      BY <2>4
    <3>2. server' \notin {"snapshot"}
      BY <3>1
    <3>3. QED
      BY <2>1, <2>2, <2>3, <3>1, <3>2
  <2>5. QED
    BY <2>1, <2>3, <2>4
<1>3. EventsTrue' /\ rows' = rows /\ latest' = latest /\ sent' = sent
  BY <1>1, ListStays
<1>4. TypeOK'
  <2>1. /\ server' \in ServerSteps /\ tap' \in Nat /\ answer' \in Message /\ call' \in Calls
    BY <1>1, <1>2 DEF ServerSteps, Calls, TypeOK, RegistryOK
  <2>2. QED
    BY <1>1, <1>2, <2>1 DEF TypeOK, RegistryOK, registry
<1>5. Positions'
  <2>1. tap' <= sent' + 1 /\ fwd'.pos <= sent' + 1
    BY <1>1, <1>2, <1>3 DEF Positions
  <2>2. server' \in {"spawn", "answer", "last"} => IsReply(answer)'
    BY <1>2 DEF IsReply
  <2>3. QED
    BY <1>1, <2>1, <2>2 DEF Positions
<1>6. ASSUME client = "on"
      PROVE  /\ OneReply' /\ OneSubscription'
             /\ Subscribing' => Subscribing /\ view # <<>> /\ server' # "snapshot"
  <2>1. /\ OneReply /\ OneSubscription /\ call = asked /\ asked # "none"
        /\ \A i \in 1 .. Len(outbox) : ~IsReply(outbox[i])
    BY <1>1, <1>6 DEF SessionInv, OneReply
  <2>2. ~Listed /\ answer.kind # "list" /\ outbox \in Seq(Message)
    BY <1>1, <2>1 DEF Listed, IsReply, OneSubscription, TypeOK, RegistryOK
  <2>3. answer'.kind # "list" /\ ~Listed'
    BY <1>1, <1>2, <2>2 DEF Listed
  <2>4. OneReply'
    BY <1>1, <1>2, <2>1 DEF OneReply
  <2>5. server' = "snapshot" => asked = "subscribe" /\ view = <<>> /\ fwd.step = "off"
    BY <1>2, <2>1, <2>2 DEF OneSubscription, Subscribing
  <2>6. fwd.step = "off" => outbox = <<>>
    BY <2>1, <2>2 DEF OneSubscription
  <2>7. Subscribing <=> Subscribing'
    BY <1>1, <2>2, <2>3 DEF Subscribing
  <2>8. OneSubscription'
    <3>1. OneSubscription
      BY <2>1
    <3>2. /\ server' \in {"snapshot", "spawn"} =>
               asked' = "subscribe" /\ view' = <<>> /\ fwd'.step = "off" /\ outbox' = <<>>
      BY <1>1, <1>2, <2>5, <2>6
    <3>3. /\ server' # "spawn"
          /\ asked' = "subscribe" => view' = <<>>
          /\ view' # <<>> => fwd'.step # "off"
          /\ fwd'.step # "off" => Subscribing'
          /\ fwd'.step = "off" => \A i \in 1 .. Len(outbox') : IsReply(outbox'[i])
      BY <1>1, <1>2, <2>7, <3>1 DEF OneSubscription
    <3>4. QED
      BY <2>3, <3>2, <3>3 DEF OneSubscription, IsReply
  <2>9. Subscribing' => view # <<>> /\ server' # "snapshot"
    BY <1>1, <2>3, <2>5 DEF Subscribing
  <2>10. QED
    BY <2>4, <2>7, <2>8, <2>9
<1>7. ASSUME client = "on", Subscribing', NEW id \in Ids PROVE Told(id)'
  <2>1. Told(id) /\ view # <<>> /\ server' \in {"answer", "last"}
    BY <1>2, <1>6, <1>7 DEF SessionInv
  <2>2. Position = fwd.pos /\ Position' = fwd.pos /\ Base' = Base
    BY <1>1, <2>1 DEF Position, Base
  <2>3. Coming(id, Position)' <=> Coming(id, Position)
    BY <1>1, <2>2, RegistryStays DEF Coming, Lags
  <2>4. OnItsWay(id) => OnItsWay(id)'
    BY <1>1, <1>3, <2>2 DEF OnItsWay, Right, IsLast, Excused, Names, Says
  <2>5. QED
    BY <1>1, <1>3, <2>1, <2>3, <2>4 DEF Told, Right, InHand
<1>8. QED
  BY <1>1, <1>3, <1>4, <1>5, <1>6, <1>7 DEF SessionInv

LEMMA SnapshotKeepsSession ==
  ASSUME SessionInv, Snapshot PROVE SessionInv'
<1>1. /\ TypeOK /\ Positions /\ rows \in List
      /\ UNCHANGED <<registry, greeted, tap, fwd, outbox, call, asked, calls, client, view, lost>>
      /\ server = "snapshot" /\ server' = "spawn" /\ answer' = ListMessage("list", rows)
  BY DEF SessionInv, Snapshot, TypeOK, RegistryOK, peer
<1>2. answer' \in Message /\ answer'.kind = "list" /\ answer'.list = rows
  BY <1>1, MessageTypes
<1>3. EventsTrue' /\ rows' = rows /\ latest' = latest /\ sent' = sent
  BY <1>1, ListStays
<1>4. TypeOK'
  BY <1>1, <1>2 DEF TypeOK, RegistryOK, ServerSteps, registry
<1>5. Positions'
  BY <1>1, <1>2, <1>3 DEF Positions, IsReply
<1>6. ASSUME client = "on"
      PROVE  /\ OneReply' /\ OneSubscription'
             /\ view = <<>> /\ outbox = <<>> /\ fwd.step = "off"
  <2>1. OneReply /\ OneSubscription /\ view = <<>> /\ outbox = <<>> /\ fwd.step = "off"
    BY <1>1, <1>6 DEF SessionInv, OneSubscription
  <2>2. OneReply'
    BY <1>1, <2>1 DEF OneReply
  <2>3. OneSubscription'
    BY <1>1, <1>2, <2>1 DEF OneSubscription, Listed, Subscribing
  <2>4. QED
    BY <2>1, <2>2, <2>3
<1>7. ASSUME client = "on", NEW id \in Ids PROVE Told(id)'
  <2>1. OnItsWay(id)'
    BY <1>1, <1>2, <1>3, <1>6, <1>7 DEF OnItsWay, Right, Base
  <2>2. QED
    BY <1>1, <1>6, <1>7, <2>1 DEF Told, Right, InHand
<1>8. QED
  BY <1>1, <1>3, <1>4, <1>5, <1>6, <1>7 DEF SessionInv

LEMMA SpawnKeepsSession ==
  ASSUME SessionInv, Spawn PROVE SessionInv'
<1>1. /\ TypeOK /\ Positions /\ tap \in Nat
      /\ UNCHANGED <<registry, greeted, answer, outbox, call, asked, calls, client, view, lost>>
      /\ server = "spawn" /\ server' = "answer" /\ tap' = 0
      /\ fwd' = [NoForwarder EXCEPT !.step = "wait", !.pos = tap]
  BY DEF SessionInv, Spawn, TypeOK, RegistryOK, peer
<1>2. fwd' \in Forwarder /\ fwd'.step = "wait" /\ fwd'.pos = tap
  BY <1>1, MessageTypes DEF Forwarder, NoForwarder
<1>3. EventsTrue' /\ rows' = rows /\ latest' = latest /\ sent' = sent /\ sent \in Nat
  BY <1>1, ListStays DEF TypeOK, RegistryOK
<1>4. TypeOK'
  BY <1>1, <1>2 DEF TypeOK, RegistryOK, ServerSteps, registry
<1>5. ASSUME client = "on"
      PROVE  OneReply' /\ OneSubscription' /\ answer.kind = "list" /\ fwd.step = "off"
  <2>1. OneReply /\ OneSubscription /\ view = <<>> /\ outbox = <<>> /\ asked = "subscribe"
    BY <1>1, <1>5 DEF SessionInv, OneSubscription
  <2>2. OneReply'
    BY <1>1, <2>1 DEF OneReply
  <2>3. OneSubscription'
    BY <1>1, <1>2, <2>1 DEF OneSubscription, Listed, Subscribing
  <2>4. QED
    BY <1>1, <2>1, <2>2, <2>3 DEF OneSubscription
<1>6. Positions'
  <2>1. tap' <= sent' + 1 /\ fwd'.pos <= sent' + 1
    BY <1>1, <1>2, <1>3 DEF Positions
  <2>2. IsReply(answer)'
    BY <1>1 DEF Positions, IsReply
  <2>3. QED
    BY <1>1, <1>2, <2>1, <2>2 DEF Positions
<1>7. ASSUME client = "on", NEW id \in Ids PROVE Told(id)'
  <2>1. Told(id) /\ Subscribing
    BY <1>1, <1>5, <1>7 DEF SessionInv, Subscribing
  <2>2. Position = tap /\ Position' = tap
    BY <1>1, <1>2 DEF Position
  <2>3. Coming(id, Position)' <=> Coming(id, Position)
    BY <1>1, <2>2, RegistryStays DEF Coming, Lags
  <2>4. OnItsWay(id) => OnItsWay(id)'
    BY <1>1, <1>3 DEF OnItsWay, Right, IsLast, Excused, Names, Says, Base
  <2>5. QED
    BY <1>2, <1>5, <1>7, <2>1, <2>3, <2>4 DEF Told, Right, InHand
<1>8. QED
  BY <1>1, <1>3, <1>4, <1>5, <1>6, <1>7 DEF SessionInv

LEMMA AnswerKeepsSession ==
  ASSUME SessionInv, Answer PROVE SessionInv'
<1>1. /\ TypeOK /\ Positions /\ HasRoom /\ answer \in Message /\ IsReply(answer)
      /\ UNCHANGED <<registry, greeted, tap, fwd, call, asked, calls, client, view, lost>>
      /\ server \in {"answer", "last"} /\ server' \in {"read", "over"}
      /\ answer' = NoMessage /\ outbox' = Append(outbox, answer)
  BY DEF SessionInv, Answer, TypeOK, RegistryOK, peer, Positions
<1>2. /\ outbox' \in Seq(Message) /\ Len(outbox') <= Depth
      /\ Len(outbox) \in Nat /\ Len(outbox') = Len(outbox) + 1
      /\ \A i \in 1 .. Len(outbox) : outbox'[i] = outbox[i]
      /\ outbox'[Len(outbox')] = answer
  BY <1>1, OutboxAfterPut
<1>3. EventsTrue' /\ rows' = rows /\ latest' = latest /\ sent' = sent
  BY <1>1, ListStays
<1>4. TypeOK'
  BY <1>1, <1>2, MessageTypes DEF TypeOK, RegistryOK, ServerSteps, registry
<1>5. Positions'
  <2>1. tap' <= sent' + 1 /\ fwd'.pos <= sent' + 1
    BY <1>1, <1>3 DEF Positions
  <2>2. \A i \in 1 .. Len(outbox') :
          /\ outbox'[i].kind = "event" => outbox'[i].event.row \in Ids
          /\ outbox'[i].kind # "none"
    BY <1>1, <1>2 DEF Positions, IsReply
  <2>3. QED
    BY <1>1, <2>1, <2>2 DEF Positions
<1>6. ASSUME client = "on"
      PROVE  /\ OneReply' /\ OneSubscription' /\ (Subscribing' <=> Subscribing)
             /\ ~Listed /\ (answer.kind = "list" => view = <<>>)
  <2>1. /\ OneReply /\ OneSubscription /\ call = "none" /\ asked # "none"
        /\ \A i \in 1 .. Len(outbox) : ~IsReply(outbox[i])
    BY <1>1, <1>6 DEF SessionInv, OneReply
  <2>2. ~Listed /\ (Listed' <=> answer.kind = "list")
    BY <1>2, <2>1 DEF Listed, IsReply
  <2>3. OneReply'
    <3>1. \A i \in 1 .. Len(outbox') : IsReply(outbox'[i]) => i = Len(outbox')
      BY <1>2, <2>1
    <3>2. QED
      BY <1>1, <2>1, <3>1 DEF OneReply, IsReply
  <2>4. /\ answer'.kind # "list" /\ (Subscribing' <=> Subscribing)
        /\ answer.kind = "list" => view = <<>> /\ asked = "subscribe" /\ fwd.step # "off"
    BY <1>1, <2>1, <2>2, MessageTypes DEF Subscribing, OneSubscription
  <2>5. fwd.step = "off" => \A i \in 1 .. Len(outbox') : IsReply(outbox'[i])
    BY <1>1, <1>2, <2>1 DEF OneSubscription
  <2>6. OneSubscription'
    BY <1>1, <2>1, <2>2, <2>4, <2>5 DEF OneSubscription, IsReply
  <2>7. QED
    BY <2>2, <2>3, <2>4, <2>6
<1>7. ASSUME client = "on", Subscribing, NEW id \in Ids PROVE Told(id)'
  <2>1. Told(id) /\ Position' = fwd.pos /\ Position = fwd.pos
    BY <1>1, <1>7 DEF SessionInv, Position
  <2>2. Coming(id, Position)' <=> Coming(id, Position)
    BY <1>1, <2>1, RegistryStays DEF Coming, Lags
  <2>3. OnItsWay(id) => OnItsWay(id)'
    <3>1. CASE answer.kind = "list"
      <4>1. Base = answer.list /\ Names(answer, id)
        BY <1>6, <1>7, <3>1 DEF Base, Names
      <4>2. QED
        BY <1>1, <1>3, <3>1, <4>1, PutAbout
    <3>2. CASE answer.kind # "list"
      <4>1. ~Names(answer, id) /\ view # <<>>
        BY <1>1, <1>6, <1>7, <3>2 DEF Names, IsReply, Subscribing
      <4>2. Base' = Base
        BY <1>1, <4>1 DEF Base
      <4>3. QED
        BY <1>1, <1>3, <4>1, <4>2, PutPast
    <3>3. QED
      BY <3>1, <3>2
  <2>4. QED
    BY <1>1, <1>3, <2>1, <2>2, <2>3 DEF Told, Right, InHand
<1>8. QED
  BY <1>1, <1>3, <1>4, <1>5, <1>6, <1>7 DEF SessionInv

LEMMA HangUpKeepsSession ==
  ASSUME SessionInv, HangUp PROVE SessionInv'
<1>1. /\ TypeOK /\ Positions /\ client' = "off" /\ sent \in Nat
      /\ UNCHANGED <<registry, greeted, asked, calls, client, view, lost>>
      /\ server' = "over" /\ fwd' = NoForwarder /\ answer' = NoMessage /\ tap' = 0
      /\ call' = "none" /\ outbox' = <<>>
  BY DEF SessionInv, HangUp, TypeOK, RegistryOK, peer
<1>2. /\ NoForwarder \in Forwarder /\ NoForwarder.step = "off" /\ NoForwarder.pos = 0
      /\ NoMessage \in Message
  BY MessageTypes DEF Forwarder, NoForwarder
<1>3. EventsTrue' /\ rows' = rows /\ latest' = latest /\ sent' = sent
  BY <1>1, ListStays
<1>4. TypeOK'
  BY <1>1, <1>2, SessionAssumption DEF TypeOK, RegistryOK, ServerSteps, Calls, registry
<1>5. Positions'
  BY <1>1, <1>2, <1>3 DEF Positions
<1>6. QED
  BY <1>1, <1>3, <1>4, <1>5 DEF SessionInv

---------------------------------------------------------------------------
(* The forwarder. *)

LEMMA ForwarderKeeps ==
  ASSUME SessionInv, fwd.step # "off", fwd'.step # "off", fwd' \in Forwarder,
         fwd'.pos <= sent + 1,
         fwd'.step = "push" => fwd'.hand.kind \in {"event", "resync"},
         fwd'.step = "push" /\ fwd'.hand.kind = "event" => fwd'.hand.event.row \in Ids,
         UNCHANGED <<registry, server, greeted, tap, answer, outbox, call, peer>>
  PROVE  /\ TypeOK' /\ EventsTrue' /\ Positions'
         /\ rows' = rows /\ latest' = latest /\ client' = client
         /\ client = "on" =>
              /\ OneReply' /\ OneSubscription' /\ Subscribing' = Subscribing
              /\ Position = fwd.pos /\ Position' = fwd'.pos
              /\ \A id \in Ids : OnItsWay(id)' <=> OnItsWay(id)
<1>1. /\ UNCHANGED <<server, tap, answer, outbox, call, asked, client, view, lost>>
      /\ EventsTrue' /\ rows' = rows /\ latest' = latest /\ sent' = sent
  BY ListStays DEF peer
<1>2. TypeOK'
  BY DEF SessionInv, TypeOK, RegistryOK, registry, peer
<1>3. Positions'
  <2>1. Positions
    BY DEF SessionInv
  <2>2. QED
    BY <1>1, <2>1 DEF Positions, IsReply
<1>4. ASSUME client = "on"
      PROVE  /\ OneReply' /\ OneSubscription' /\ Subscribing' = Subscribing
             /\ Position = fwd.pos /\ Position' = fwd'.pos
  <2>1. OneReply /\ OneSubscription
    BY <1>4 DEF SessionInv
  <2>2. Subscribing' = Subscribing /\ Listed' = Listed
    BY <1>1 DEF Subscribing, Listed
  <2>3. OneReply'
    BY <1>1, <2>1 DEF OneReply
  <2>4. OneSubscription'
    BY <1>1, <2>1, <2>2 DEF OneSubscription
  <2>5. server \notin {"snapshot", "spawn"}
    BY <2>1 DEF OneSubscription
  <2>6. QED
    BY <1>1, <2>2, <2>3, <2>4, <2>5 DEF Position
<1>5. \A id \in Ids : OnItsWay(id)' <=> OnItsWay(id)
  BY <1>1 DEF OnItsWay, Right, IsLast, Excused, Names, Says, Base
<1>6. QED
  BY <1>1, <1>2, <1>3, <1>4, <1>5

LEMMA ReceiveKeepsSession ==
  ASSUME SessionInv, Receive PROVE SessionInv'
<1>1. /\ TypeOK /\ EventsTrue /\ Positions /\ fwd \in Forwarder /\ fwd.step = "wait"
      /\ UNCHANGED <<registry, server, greeted, tap, answer, outbox, call, peer>>
  BY DEF SessionInv, Receive, TypeOK, RegistryOK
<1>2. /\ sent \in Nat /\ Oldest \in Nat /\ Oldest <= sent + 1 /\ fwd.pos \in Nat
      /\ \A p \in Window : Sent(p) \in Event
  BY <1>1, ChannelFacts DEF Forwarder
<1>3. CASE Lags(fwd.pos) /\ fwd' = [fwd EXCEPT !.step = "lagged", !.pos = Oldest]
  <2>1. fwd' \in Forwarder /\ fwd'.step = "lagged" /\ fwd'.pos = Oldest
    BY <1>1, <1>2, <1>3 DEF Forwarder
  <2>2. /\ TypeOK' /\ EventsTrue' /\ Positions' /\ client' = client
        /\ client = "on" => OneReply' /\ OneSubscription'
    BY <1>1, <1>2, <2>1, ForwarderKeeps
  <2>3. QED
    BY <2>1, <2>2 DEF SessionInv, Told, Right
<1>4. CASE /\ HasNext(fwd.pos)
           /\ fwd' = [fwd EXCEPT !.step = "push", !.pos = @ + 1,
                                 !.hand = EventMessage(Sent(fwd.pos))]
  <2> DEFINE p == fwd.pos
             e == Sent(p)
  <2>1. p \in Window /\ p + 1 <= sent + 1 /\ p + 1 \in Nat
    BY <1>2, <1>4 DEF HasNext, Window
  <2>2. e \in Event /\ e.row \in Ids
    BY <1>1, <1>2, <2>1 DEF EventsTrue
  <2>3. /\ EventMessage(e) \in Message /\ EventMessage(e).kind = "event"
        /\ EventMessage(e).event = e
    BY <2>2, MessageTypes
  <2>4. fwd' = [fwd EXCEPT !.step = "push", !.pos = p + 1, !.hand = EventMessage(e)]
    BY <1>4
  <2> HIDE DEF e
  <2>5. /\ fwd' \in Forwarder /\ fwd'.step = "push" /\ fwd'.pos = p + 1
        /\ fwd'.hand = EventMessage(e)
    BY <1>1, <2>1, <2>3, <2>4 DEF Forwarder
  <2>6. /\ TypeOK' /\ EventsTrue' /\ Positions' /\ rows' = rows /\ latest' = latest /\ client' = client
        /\ client = "on" =>
             /\ OneReply' /\ OneSubscription' /\ Subscribing' = Subscribing
             /\ Position = fwd.pos /\ Position' = fwd'.pos
             /\ \A id \in Ids : OnItsWay(id)' <=> OnItsWay(id)
    BY <1>1, <2>1, <2>2, <2>3, <2>5, ForwarderKeeps
  <2>7. ASSUME client = "on", Subscribing, NEW id \in Ids PROVE Told(id)'
    <3>1. Told(id) /\ Position = p /\ Position' = p + 1 /\ ~InHand(id)
      BY <1>1, <2>5, <2>6, <2>7 DEF SessionInv, InHand
    <3>2. Coming(id, p + 1) => Coming(id, Position)'
      BY <1>1, <3>1, RegistryStays DEF Coming, Lags
    <3>3. InHand(id)' <=> e.row = id
      BY <2>3, <2>5 DEF InHand, Names
    <3>4. CASE ~Coming(id, p + 1) /\ e.row = id
      <4>1. e.to = latest[id]
        BY <1>1, <2>1, <3>4 DEF EventsTrue, Coming, e
      <4>2. Says(fwd'.hand, id) \in Right(id)
        BY <2>3, <2>5, <4>1 DEF Says, Right
      <4>3. QED
        BY <2>6, <3>3, <3>4, <4>2 DEF Told, Right, Says
    <3>5. CASE ~Coming(id, p + 1) /\ e.row # id
      <4>1. ~Coming(id, p)
        <5>1. ~Lags(p)
          BY <1>2, <2>1 DEF Lags, Window
        <5>2. \A q \in p .. sent : Sent(q).row # id
          BY <1>2, <3>5 DEF Coming, e
        <5>3. QED
          BY <3>5, <5>1, <5>2 DEF Coming
      <4>2. OnItsWay(id)
        BY <1>1, <3>1, <4>1 DEF Told, Right
      <4>3. QED
        BY <2>6, <2>7, <3>3, <3>5, <4>2 DEF Told, Right
    <3>6. QED
      BY <3>2, <3>4, <3>5 DEF Told, Right
  <2>8. QED
    BY <2>6, <2>7 DEF SessionInv
<1>5. QED
  BY <1>3, <1>4 DEF Receive

LEMMA ResyncKeepsSession ==
  ASSUME SessionInv, Resync PROVE SessionInv'
<1>1. /\ TypeOK /\ Positions /\ fwd \in Forwarder /\ fwd.step = "lagged" /\ rows \in List
      /\ fwd' = [fwd EXCEPT !.step = "push", !.hand = ListMessage("resync", rows)]
      /\ UNCHANGED <<registry, server, greeted, tap, answer, outbox, call, peer>>
  BY DEF SessionInv, Resync, TypeOK, RegistryOK
<1>2. /\ ListMessage("resync", rows) \in Message
      /\ ListMessage("resync", rows).kind = "resync" /\ ListMessage("resync", rows).list = rows
  BY <1>1, MessageTypes
<1>3. /\ fwd' \in Forwarder /\ fwd'.step = "push" /\ fwd'.pos = fwd.pos
      /\ fwd'.hand = ListMessage("resync", rows) /\ fwd.pos <= sent + 1
  BY <1>1, <1>2 DEF Forwarder, Positions
<1>4. /\ TypeOK' /\ EventsTrue' /\ Positions' /\ rows' = rows /\ latest' = latest /\ client' = client
      /\ client = "on" => OneReply' /\ OneSubscription'
  BY <1>1, <1>2, <1>3, ForwarderKeeps
<1>5. \A id \in Ids : Told(id)'
  BY <1>2, <1>3, <1>4 DEF Told, Right, InHand, Names, Says
<1>6. QED
  BY <1>4, <1>5 DEF SessionInv

LEMMA PushKeepsSession ==
  ASSUME SessionInv, Push PROVE SessionInv'
<1>1. /\ TypeOK /\ Positions /\ fwd \in Forwarder /\ fwd.step = "push" /\ HasRoom
      /\ outbox' = Append(outbox, fwd.hand)
      /\ fwd' = [fwd EXCEPT !.step = "wait", !.hand = NoMessage]
      /\ UNCHANGED <<registry, server, greeted, tap, answer, call, asked, calls, client, view, lost>>
  BY DEF SessionInv, Push, TypeOK, RegistryOK, peer
<1>2. /\ fwd' \in Forwarder /\ fwd'.step = "wait" /\ fwd'.pos = fwd.pos /\ fwd.pos <= sent + 1
      /\ fwd.hand \in Message /\ fwd.hand.kind \in {"event", "resync"}
      /\ fwd.hand.kind = "event" => fwd.hand.event.row \in Ids
  BY <1>1, MessageTypes DEF Forwarder, Positions
<1>3. /\ outbox' \in Seq(Message) /\ Len(outbox') <= Depth
      /\ Len(outbox) \in Nat /\ Len(outbox') = Len(outbox) + 1
      /\ \A i \in 1 .. Len(outbox) : outbox'[i] = outbox[i]
      /\ outbox'[Len(outbox')] = fwd.hand
  BY <1>1, <1>2, OutboxAfterPut
<1>4. EventsTrue' /\ rows' = rows /\ latest' = latest /\ sent' = sent
  BY <1>1, ListStays
<1>5. TypeOK'
  BY <1>1, <1>2, <1>3 DEF TypeOK, RegistryOK, registry
<1>6. Positions'
  <2>1. \A i \in 1 .. Len(outbox') :
          /\ outbox'[i].kind = "event" => outbox'[i].event.row \in Ids
          /\ outbox'[i].kind # "none"
    BY <1>1, <1>2, <1>3 DEF Positions
  <2>2. tap' <= sent' + 1 /\ fwd'.pos <= sent' + 1
    BY <1>1, <1>2, <1>4 DEF Positions
  <2>3. QED
    BY <1>1, <1>2, <2>1, <2>2 DEF Positions, IsReply
<1>7. ASSUME client = "on"
      PROVE  /\ OneReply' /\ OneSubscription' /\ (Subscribing' <=> Subscribing)
             /\ Position = fwd.pos /\ Position' = fwd.pos
  <2>1. OneReply /\ OneSubscription /\ server \notin {"snapshot", "spawn"}
    BY <1>1, <1>7 DEF SessionInv, OneSubscription
  <2>2. ~IsReply(fwd.hand) /\ fwd.hand.kind # "list"
    BY <1>2 DEF IsReply
  <2>3. Listed' <=> Listed
    BY <1>3, <2>2 DEF Listed
  <2>4. \A i \in 1 .. Len(outbox') : IsReply(outbox'[i]) => i \in 1 .. Len(outbox) /\ IsReply(outbox[i])
    BY <1>3, <2>2
  <2>5. OneReply'
    BY <1>1, <2>1, <2>4 DEF OneReply, IsReply
  <2>6. Subscribing' <=> Subscribing
    BY <1>1, <2>3 DEF Subscribing
  <2>7. OneSubscription'
    BY <1>1, <1>2, <2>1, <2>3, <2>6 DEF OneSubscription
  <2>8. QED
    BY <1>1, <1>2, <2>1, <2>5, <2>6, <2>7 DEF Position
<1>8. ASSUME client = "on", Subscribing, NEW id \in Ids PROVE Told(id)'
  <2>1. Told(id) /\ Position = fwd.pos /\ Position' = fwd.pos /\ Base' = Base
    BY <1>1, <1>7, <1>8 DEF SessionInv, Base
  <2>2. Coming(id, Position)' <=> Coming(id, Position)
    BY <1>1, <2>1, RegistryStays DEF Coming, Lags
  <2>3. CASE InHand(id) /\ ~Coming(id, Position)
    <3>1. Says(fwd.hand, id) \in Right(id)' /\ Names(fwd.hand, id)
      BY <1>1, <1>4, <2>1, <2>3 DEF Told, Right, InHand
    <3>2. OnItsWay(id)'
      BY <1>1, <1>2, <3>1, PutAbout
    <3>3. QED
      BY <1>2, <3>2 DEF Told, Right, InHand
  <2>4. CASE ~InHand(id) /\ ~Coming(id, Position)
    <3>1. OnItsWay(id) /\ ~Names(fwd.hand, id)
      BY <1>1, <2>1, <2>4 DEF Told, Right, InHand
    <3>2. OnItsWay(id)'
      BY <1>1, <1>2, <1>4, <2>1, <3>1, PutPast
    <3>3. QED
      BY <1>2, <3>2 DEF Told, Right, InHand
  <2>5. QED
    BY <2>2, <2>3, <2>4 DEF Told, Right
<1>9. QED
  BY <1>1, <1>4, <1>5, <1>6, <1>7, <1>8 DEF SessionInv

---------------------------------------------------------------------------
(* The client. *)

LEMMA AskKeepsSession ==
  ASSUME SessionInv, NEW request \in Calls, Ask(request) PROVE SessionInv'
<1>1. /\ TypeOK /\ Positions /\ asked = "none" /\ asked' = request /\ call' = request
      /\ client = "on" /\ calls < MaxCalls /\ calls' = calls + 1
      /\ request \in {"hello", "mismatch", "subscribe", "other", "unreadable"}
      /\ request = "subscribe" => view = <<>>
      /\ UNCHANGED <<registry, server, greeted, tap, answer, fwd, outbox, client, view, lost>>
  BY DEF SessionInv, Ask, session
<1>2. EventsTrue' /\ rows' = rows /\ latest' = latest /\ sent' = sent
  BY <1>1, ListStays
<1>3. TypeOK'
  <2>1. calls' \in 0 .. MaxCalls
    BY <1>1, SessionAssumption DEF TypeOK, RegistryOK
  <2>2. QED
    BY <1>1, <2>1 DEF TypeOK, RegistryOK, registry
<1>4. Positions'
  BY <1>1, <1>2 DEF Positions, IsReply
<1>5. OneReply /\ OneSubscription /\ Subscribing' = Subscribing /\ Listed' = Listed
  BY <1>1 DEF SessionInv, Subscribing, Listed
<1>6. OneReply'
  BY <1>1, <1>5 DEF OneReply
<1>7. ~Listed /\ answer.kind # "list"
  BY <1>1, <1>5 DEF OneSubscription
<1>8. OneSubscription'
  BY <1>1, <1>5, <1>7 DEF OneSubscription, OneReply
<1>9. ASSUME Subscribing, NEW id \in Ids PROVE Told(id)'
  <2>1. Told(id) /\ Position' = Position
    BY <1>1, <1>9 DEF SessionInv, Position
  <2>2. Coming(id, Position)' <=> Coming(id, Position)
    BY <1>1, <2>1, RegistryStays DEF Coming, Lags
  <2>3. OnItsWay(id)' <=> OnItsWay(id)
    BY <1>1, <1>2 DEF OnItsWay, Right, IsLast, Excused, Names, Says, Base
  <2>4. QED
    BY <1>1, <1>2, <2>1, <2>2, <2>3 DEF Told, Right, InHand
<1>10. QED
  BY <1>2, <1>3, <1>4, <1>5, <1>6, <1>8, <1>9 DEF SessionInv

\* What every message that is taken leaves alone.
LEMMA TakeFacts ==
  ASSUME SessionInv, Take
  PROVE  /\ TypeOK /\ client = "on" /\ outbox # <<>> /\ outbox' = Tail(outbox)
         /\ OneReply /\ OneSubscription
         /\ UNCHANGED <<registry, server, greeted, tap, answer, fwd, call, calls>>
         /\ EventsTrue' /\ rows' = rows /\ latest' = latest /\ sent' = sent
         /\ server \notin {"snapshot", "spawn"}
         /\ Head(outbox) \in Message /\ Head(outbox) = outbox[1] /\ 1 \in 1 .. Len(outbox)
         /\ Head(outbox).kind = "event" => Head(outbox).event.row \in Ids
         /\ \A i \in 1 .. Len(outbox') : outbox'[i] = outbox[i + 1] /\ i + 1 \in 2 .. Len(outbox)
         /\ \A i \in 2 .. Len(outbox) : i - 1 \in 1 .. Len(outbox') /\ outbox'[i - 1] = outbox[i]
         /\ 2 .. Len(outbox) \subseteq 1 .. Len(outbox)
<1>1. /\ TypeOK /\ client = "on" /\ outbox # <<>> /\ outbox' = Tail(outbox)
      /\ OneReply /\ OneSubscription
      /\ UNCHANGED <<registry, session, call, calls>>
  BY DEF SessionInv, Take
<1>2. EventsTrue' /\ rows' = rows /\ latest' = latest /\ sent' = sent
  BY <1>1, ListStays
<1>3. /\ Len(outbox) \in Nat \ {0} /\ Len(outbox') = Len(outbox) - 1
      /\ \A i \in 1 .. Len(outbox') : outbox'[i] = outbox[i + 1] /\ i + 1 \in 2 .. Len(outbox)
      /\ Head(outbox) = outbox[1] /\ Head(outbox) \in Message
  BY <1>1, OutboxAfterTake
<1>4. \A i \in 2 .. Len(outbox) : i - 1 \in 1 .. Len(outbox') /\ outbox'[i - 1] = outbox[i]
  BY <1>3
<1>5. 1 \in 1 .. Len(outbox) /\ 2 .. Len(outbox) \subseteq 1 .. Len(outbox)
  BY <1>3
<1>6. outbox[1].kind = "event" => outbox[1].event.row \in Ids
  BY <1>5 DEF SessionInv, Positions
<1>7. server \notin {"snapshot", "spawn"}
  BY <1>1 DEF OneSubscription
<1>8. QED
  BY <1>1, <1>2, <1>3, <1>4, <1>5, <1>6, <1>7 DEF session

LEMMA TakenPositions == SessionInv /\ Take => Positions'
<1> SUFFICES ASSUME SessionInv, Take PROVE Positions'
  OBVIOUS
<1>1. \A i \in 1 .. Len(outbox') :
        /\ outbox'[i].kind = "event" => outbox'[i].event.row \in Ids
        /\ outbox'[i].kind # "none"
  BY TakeFacts DEF SessionInv, Positions
<1>2. QED
  BY <1>1, TakeFacts DEF SessionInv, Positions, IsReply

\* From what is on its way to what the client has been told.
LEMMA TakenTold ==
  ASSUME SessionInv, Take, Subscribing, NEW id \in Ids, OnItsWay(id) => OnItsWay(id)'
  PROVE  Told(id)'
<1>1. Told(id) /\ Position' = Position
  BY TakeFacts DEF SessionInv, Position
<1>2. Coming(id, Position)' <=> Coming(id, Position)
  BY TakeFacts, <1>1, RegistryStays DEF Coming, Lags
<1>3. QED
  BY <1>1, <1>2, TakeFacts DEF Told, Right, InHand

LEMMA SkipKeepsSession ==
  ASSUME SessionInv, Take, asked # "none", Skip(Head(outbox)) PROVE SessionInv'
<1> DEFINE m == Head(outbox)
<1>1. /\ m.kind \in {"event", "resync"} /\ lost' = lost \cup Named(m)
      /\ UNCHANGED <<asked, view, client>> /\ Named(m) \subseteq Ids
      /\ \A id \in Ids : Names(m, id) => id \in Named(m)
      /\ ~IsReply(m) /\ m.kind # "list"
  BY TakeFacts DEF Skip, Named, Names, IsReply
<1>2. TypeOK'
  BY <1>1, TakeFacts, OutboxAfterTake DEF TypeOK, RegistryOK, registry
<1>3. OneReply'
  <2>1. \A i \in 1 .. Len(outbox') : IsReply(outbox'[i]) =>
          i + 1 \in 1 .. Len(outbox) /\ IsReply(outbox[i + 1])
    BY TakeFacts
  <2>2. \A i, j \in 1 .. Len(outbox') : IsReply(outbox'[i]) /\ IsReply(outbox'[j]) => i = j
    <3>1. ASSUME NEW i \in 1 .. Len(outbox'), NEW j \in 1 .. Len(outbox'),
                 IsReply(outbox'[i]), IsReply(outbox'[j])
          PROVE  i = j
      <4>1. i + 1 = j + 1
        BY <2>1, <3>1, TakeFacts DEF OneReply
      <4>2. QED
        BY <4>1
    <3>2. QED
      BY <3>1
  <2>3. QED
    BY <1>1, <2>1, <2>2, TakeFacts DEF OneReply, IsReply
<1>4. Listed' => Listed
  BY TakeFacts DEF Listed
<1>5. Listed => Listed'
  BY <1>1, TakeFacts DEF Listed
<1>6. fwd.step # "off"
  BY <1>1, TakeFacts DEF OneSubscription
<1>7. Subscribing' <=> Subscribing
  BY <1>1, <1>4, <1>5, TakeFacts DEF Subscribing
<1>8. OneSubscription'
  BY <1>1, <1>4, <1>5, <1>6, <1>7, TakeFacts DEF OneSubscription
<1>9. ASSUME NEW id \in Ids, OnItsWay(id) PROVE OnItsWay(id)'
  <2>1. Base' = Base /\ (id \in lost \/ Names(m, id) => id \in lost')
    BY <1>1, TakeFacts DEF Base
  <2>2. QED
    BY <1>1, <1>9, <2>1, TakeFacts, TakeOne DEF Right
<1>10. QED
  BY <1>2, <1>3, <1>7, <1>8, <1>9, TakenPositions, TakenTold, TakeFacts DEF SessionInv

LEMMA TakeReplyKeepsSession ==
  ASSUME SessionInv, Take, asked # "none", TakeReply(Head(outbox)) PROVE SessionInv'
<1> DEFINE m == Head(outbox)
<1>1. /\ m.kind \in {"list", "reply", "stray"} /\ IsReply(m) /\ m = outbox[1]
      /\ asked' = "none" /\ lost' = lost /\ m.list \in List
      /\ view' = IF m.kind = "list" THEN m.list ELSE view
      /\ client' \in {client, "off"}
  BY TakeFacts, MessageFields DEF TakeReply, IsReply
<1>2. TypeOK'
  <2>1. view' \in List \cup {<<>>} /\ client' \in {"on", "off"} /\ asked' \in Calls
    BY <1>1, TakeFacts DEF TypeOK, RegistryOK, Calls
  <2>2. QED
    BY <1>1, <2>1, TakeFacts, OutboxAfterTake DEF TypeOK, RegistryOK, registry
<1>3. \A i \in 2 .. Len(outbox) : ~IsReply(outbox[i])
  <2>1. \A i \in 1 .. Len(outbox) : IsReply(outbox[i]) => i = 1
    BY <1>1, TakeFacts DEF OneReply
  <2>2. QED
    BY <2>1, TakeFacts
<1>4. \A i \in 1 .. Len(outbox') : ~IsReply(outbox'[i])
  BY <1>3, TakeFacts
<1>5. call = "none" /\ server \in {"read", "over"}
  BY <1>1, TakeFacts DEF OneReply, TypeOK, RegistryOK, ServerSteps
<1>6. OneReply'
  BY <1>1, <1>4, <1>5, TakeFacts DEF OneReply, IsReply
<1>7. /\ answer.kind # "list" /\ ~Listed'
      /\ Listed <=> m.kind = "list"
  <2>1. answer.kind # "list"
    BY <1>5, TakeFacts DEF OneSubscription
  <2>2. ~Listed'
    BY <1>4 DEF Listed, IsReply
  <2>3. Listed <=> m.kind = "list"
    <3>1. \A i \in 1 .. Len(outbox) : i = 1 \/ i \in 2 .. Len(outbox)
      BY OutboxAfterTake, TakeFacts
    <3>2. QED
      BY <1>1, <1>3, <3>1, TakeFacts DEF Listed, IsReply
  <2>4. QED
    BY <2>1, <2>2, <2>3
<1>8. Subscribing' <=> Subscribing
  BY <1>1, <1>7, TakeFacts, ListIsNoGap DEF Subscribing
<1>9. OneSubscription'
  <2>1. view' # <<>> => fwd.step # "off"
    BY <1>1, <1>7, TakeFacts DEF OneSubscription
  <2>2. fwd.step # "off" => Subscribing'
    BY <1>8, TakeFacts DEF OneSubscription
  <2>3. fwd.step = "off" => \A i \in 1 .. Len(outbox') : IsReply(outbox'[i])
    BY TakeFacts DEF OneSubscription
  <2>4. QED
    BY <1>1, <1>5, <1>7, <2>1, <2>2, <2>3, TakeFacts DEF OneSubscription, IsReply
<1>10. ASSUME NEW id \in Ids, OnItsWay(id) PROVE OnItsWay(id)'
  <2>1. \A i \in 2 .. Len(outbox) : outbox[i].kind # "list"
    BY <1>3 DEF IsReply
  <2>2. CASE m.kind = "list"
    <3>1. Base' = m.list /\ Says(m, id) = m.list[id] /\ Names(m, id)
      BY <1>1, <2>2, ListIsNoGap DEF Base, Says, Names
    <3>2. QED
      BY <1>1, <1>10, <2>1, <3>1, TakeFacts, TakeOne DEF Right
  <2>3. CASE m.kind # "list"
    <3>1. Base' = Base /\ ~Names(m, id)
      BY <1>1, <2>3, TakeFacts DEF Base, Names
    <3>2. QED
      BY <1>1, <1>10, <2>1, <3>1, TakeFacts, TakeOne DEF Right
  <2>4. QED
    BY <2>2, <2>3
<1>11. QED
  BY <1>2, <1>6, <1>8, <1>9, <1>10, TakenPositions, TakenTold, TakeFacts DEF SessionInv

LEMMA ApplyKeepsSession ==
  ASSUME SessionInv, Take, asked = "none", Apply(Head(outbox)) PROVE SessionInv'
<1> DEFINE m == Head(outbox)
<1>1. /\ m.kind \in {"event", "resync"} /\ lost' = lost \ Named(m)
      /\ UNCHANGED <<asked, client>> /\ ~IsReply(m)
      /\ view' = IF m.kind = "event" THEN [view EXCEPT ![m.event.row] = m.event.to] ELSE m.list
  BY DEF Apply, IsReply
<1>2. /\ call = "none" /\ server \in {"read", "over"}
      /\ \A i \in 1 .. Len(outbox) : ~IsReply(outbox[i])
  BY TakeFacts DEF OneReply
<1>3. \A i \in 1 .. Len(outbox') : ~IsReply(outbox'[i])
  BY <1>2, TakeFacts
<1>4. answer.kind # "list" /\ ~Listed /\ ~Listed' /\ fwd.step # "off"
  BY <1>1, <1>2, <1>3, TakeFacts DEF OneSubscription, Listed, IsReply
<1>5. view \in List /\ view # <<>>
  BY <1>4, TakeFacts DEF OneSubscription, Subscribing, TypeOK, RegistryOK
<1>6. /\ view' \in List /\ view' # <<>>
      /\ \A id \in Ids : Names(m, id) => view'[id] = Says(m, id)
      /\ \A id \in Ids : ~Names(m, id) => view'[id] = view[id] /\ id \notin Named(m)
  <2>1. m.list \in List /\ m.event.to \in Versions /\ (m.kind = "event" => m.event.row \in Ids)
    BY TakeFacts, MessageFields
  <2>2. view' \in List
    BY <1>1, <1>5, <2>1 DEF List
  <2>3. \A id \in Ids : Names(m, id) => view'[id] = Says(m, id)
    BY <1>1, <1>5, <2>1 DEF Names, Says, List
  <2>4. \A id \in Ids : ~Names(m, id) => view'[id] = view[id] /\ id \notin Named(m)
    BY <1>1, <1>5, <2>1 DEF Names, Named, List
  <2>5. QED
    BY <2>2, <2>3, <2>4, ListIsNoGap
<1>7. TypeOK'
  <2>1. lost' \subseteq Ids
    BY <1>1, TakeFacts DEF TypeOK, RegistryOK
  <2>2. QED
    BY <1>1, <1>6, <2>1, TakeFacts, OutboxAfterTake DEF TypeOK, RegistryOK, registry
<1>8. OneReply'
  BY <1>1, <1>2, <1>3, TakeFacts DEF OneReply, IsReply
<1>9. OneSubscription' /\ Subscribing' /\ Subscribing
  BY <1>1, <1>2, <1>4, <1>5, <1>6, TakeFacts DEF OneSubscription, Subscribing
<1>10. ASSUME NEW id \in Ids, OnItsWay(id) PROVE OnItsWay(id)'
  <2>1. \A i \in 2 .. Len(outbox) : outbox[i].kind # "list"
    BY <1>2, TakeFacts DEF IsReply
  <2>2. Base' = view' /\ Base = view
    BY <1>5, <1>6 DEF Base
  <2>3. QED
    BY <1>1, <1>6, <1>10, <2>1, <2>2, TakeFacts, TakeOne DEF Right
<1>11. QED
  BY <1>1, <1>7, <1>8, <1>9, <1>10, TakenPositions, TakenTold, TakeFacts DEF SessionInv

LEMMA LeaveKeepsSession ==
  ASSUME SessionInv, Leave PROVE SessionInv'
<1>1. /\ TypeOK /\ Positions /\ client' = "off" /\ asked' = "none" /\ view' = <<>> /\ lost' = {}
      /\ UNCHANGED <<registry, server, greeted, tap, answer, fwd, outbox, call, calls>>
  BY DEF SessionInv, Leave, session
<1>2. EventsTrue' /\ rows' = rows /\ latest' = latest /\ sent' = sent
  BY <1>1, ListStays
<1>3. TypeOK'
  BY <1>1 DEF TypeOK, RegistryOK, Calls, registry
<1>4. Positions'
  BY <1>1, <1>2 DEF Positions, IsReply
<1>5. QED
  BY <1>1, <1>2, <1>3, <1>4 DEF SessionInv

---------------------------------------------------------------------------
(* Together. *)

LEMMA StutterKeepsSession ==
  ASSUME SessionInv, UNCHANGED vars PROVE SessionInv'
<1>1. /\ UNCHANGED registry
      /\ UNCHANGED <<server, greeted, tap, answer, fwd, outbox, call, asked, calls, client, view, lost>>
  BY DEF vars, session, peer
<1>2. EventsTrue' /\ rows' = rows /\ latest' = latest /\ sent' = sent
  BY <1>1, ListStays
<1>3. TypeOK' /\ Positions'
  BY <1>1, <1>2 DEF SessionInv, TypeOK, RegistryOK, registry, Positions, IsReply
<1>4. Subscribing' = Subscribing /\ Listed' = Listed
  BY <1>1 DEF Subscribing, Listed
<1>5. client' = "on" => OneReply' /\ OneSubscription'
  BY <1>1, <1>4 DEF SessionInv, OneReply, OneSubscription
<1>6. ASSUME client = "on", Subscribing, NEW id \in Ids PROVE Told(id)'
  <2>1. Told(id) /\ Position' = Position
    BY <1>1, <1>6 DEF SessionInv, Position
  <2>2. Coming(id, Position)' <=> Coming(id, Position)
    BY <1>1, <2>1, RegistryStays DEF Coming, Lags
  <2>3. OnItsWay(id)' <=> OnItsWay(id)
    BY <1>1, <1>2 DEF OnItsWay, Right, IsLast, Excused, Names, Says, Base
  <2>4. QED
    BY <1>1, <1>2, <2>1, <2>2, <2>3 DEF Told, Right, InHand
<1>7. QED
  BY <1>1, <1>2, <1>3, <1>4, <1>5, <1>6 DEF SessionInv

LEMMA SessionInvInductive == SessionInv /\ [Next]_vars => SessionInv'
<1> SUFFICES ASSUME SessionInv, [Next]_vars PROVE SessionInv'
  OBVIOUS
<1>1. CASE Take
  BY <1>1, SkipKeepsSession, TakeReplyKeepsSession, ApplyKeepsSession DEF Take
<1>2. CASE ServerStep
  BY <1>2, ReadKeepsSession, SnapshotKeepsSession, SpawnKeepsSession, AnswerKeepsSession,
     HangUpKeepsSession DEF ServerStep
<1>3. CASE ForwarderStep
  BY <1>3, ReceiveKeepsSession, ResyncKeepsSession, PushKeepsSession DEF ForwarderStep
<1>4. QED
  BY <1>1, <1>2, <1>3, RegistrySteps, AskKeepsSession, LeaveKeepsSession, StutterKeepsSession DEF Next, Rest

LEMMA SessionStarts == Init => SessionInv
<1> SUFFICES ASSUME Init PROVE SessionInv
  OBVIOUS
<1>1. /\ NoForwarder \in Forwarder /\ NoForwarder.step = "off" /\ NoForwarder.pos = 0
      /\ NoMessage \in Message /\ NoMessage.kind = "none"
  BY MessageTypes DEF Forwarder, NoForwarder
<1>2. TypeOK
  <2>1. /\ clock \in Versions /\ calls \in 0 .. MaxCalls /\ Len(outbox) <= Depth
        /\ Len(channel) <= Capacity
    BY SessionAssumption, BroadcastAssumption DEF Init, BroadcastInit, Versions
  <2>2. /\ pending \in [Threads -> Event] /\ rows \in List
        /\ born \in List /\ latest \in List
    BY EventTypes DEF Init, BroadcastInit
  <2>3. /\ answer \in Message /\ fwd \in Forwarder /\ view \in List \cup {<<>>}
        /\ lost \subseteq Ids
        /\ sent \in Nat /\ tap \in Nat /\ greeted \in BOOLEAN
        /\ client \in {"on", "off"}
    BY <1>1 DEF Init, BroadcastInit
  <2>4. channel \in Seq(Event) /\ outbox \in Seq(Message)
    BY DEF Init, BroadcastInit
  <2>5. server \in ServerSteps /\ call \in Calls /\ asked \in Calls
    BY DEF Init, ServerSteps, Calls
  <2>6. QED
    BY <2>1, <2>2, <2>3, <2>4, <2>5 DEF TypeOK, RegistryOK
<1>3. EventsTrue
  BY EventTypes DEF Init, BroadcastInit, EventsTrue, Window, Oldest
<1>4. Positions /\ OneReply
  BY <1>1 DEF Init, BroadcastInit, Positions, OneReply
<1>5. ~Listed /\ ~Subscribing
  BY <1>1 DEF Init, Listed, Subscribing
<1>6. OneSubscription
  BY <1>1, <1>5 DEF Init, OneSubscription
<1>7. QED
  BY <1>2, <1>3, <1>4, <1>5, <1>6 DEF SessionInv

LEMMA SessionInvariant == Spec => []SessionInv
BY SessionStarts, SessionInvInductive, PTL DEF Spec

\* Every variable of the registry, the session and the client keeps its type.
THEOREM SessionTyped == Spec => []TypeOK
<1>1. SessionInv => TypeOK
  BY DEF SessionInv
<1>2. QED
  BY <1>1, SessionInvariant, PTL

\* For any number of threads and rows, events of a row sent in any order, any length of
\* the channel and of the queue to the client: once nothing is on its way, a subscriber
\* shows every row as it is or as the latest event about it had it, but for those whose
\* event it threw away while it waited for a reply.
THEOREM ListenersAreRight == Spec => []ListenersEndUpRight
<1>1. ASSUME SessionInv, Quiet, Subscribed, NEW id \in Ids \ lost PROVE view[id] \in Right(id)
  <2>1. /\ client = "on" /\ view # <<>> /\ server = "read" /\ outbox = <<>>
        /\ Told(id) /\ OneSubscription
    BY <1>1 DEF Quiet, Subscribed, SessionInv, Subscribing
  <2>2. fwd.step = "wait" /\ fwd.pos > sent /\ fwd.pos \in Nat
    BY <1>1, <2>1 DEF OneSubscription, Quiet, SessionInv, TypeOK, RegistryOK, Forwarder
  <2>3. ~InPending(id)
    BY <1>1, EventTypes DEF Quiet, InPending, AllPublished
  <2>4. ~Coming(id, Position)
    <3>1. Position = fwd.pos
      BY <2>1 DEF Position
    <3>2. sent \in Nat /\ Oldest \in Nat /\ Oldest <= sent + 1
      BY <1>1, ChannelFacts DEF SessionInv
    <3>3. ~Lags(fwd.pos)
      BY <2>2, <3>2 DEF Lags
    <3>4. QED
      BY <2>2, <2>3, <3>1, <3>2, <3>3 DEF Coming
  <2>5. OnItsWay(id)
    BY <2>1, <2>2, <2>4 DEF Told, Right, InHand
  <2>6. QED
    BY <1>1, <2>1, <2>5 DEF OnItsWay, Right, Base
<1>2. SessionInv => ListenersEndUpRight
  BY <1>1 DEF ListenersEndUpRight, Right
<1>3. QED
  BY <1>2, SessionInvariant, PTL
=============================================================================
