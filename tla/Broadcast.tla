------------------------------ MODULE Broadcast ------------------------------
(***************************************************************************)
(* How a change of the list leaves the manager                             *)
(* (crates/fdm-manager/src/manager.rs): a thread changes a row under the   *)
(* lock of the registry, lets go of it and sends the event on a broadcast  *)
(* channel.  Between the two another thread may change the same row and    *)
(* send its event first.                                                   *)
(*                                                                         *)
(* A row is known by a version, 0 when it is not in the list.              *)
(***************************************************************************)
EXTENDS Naturals, Sequences

CONSTANTS
  Threads,   \* threads that carry out operations
  Ids,       \* rows
  Capacity,  \* messages the broadcast channel keeps
  MaxChanges \* bound on the changes of the list

\* No row is written as "nobody".
ASSUME BroadcastAssumption ==
  /\ Ids # {} /\ "nobody" \notin Ids
  /\ Capacity \in Nat \ {0}
  /\ MaxChanges \in Nat

Versions == 0 .. MaxChanges
List == [Ids -> Versions]
EmptyList == [id \in Ids |-> 0]

Nobody == "nobody"
Event == [row : Ids \cup {Nobody}, to : Versions]
NoEvent == [row |-> Nobody, to |-> 0]

VARIABLES
  rows,    \* the list
  born,    \* the version each row was added with
  clock,   \* versions handed out
  pending, \* the event of each thread's operation, until it is sent
  channel, \* the latest events that were sent, which the channel still has
  sent,    \* how many were sent
  latest   \* history: what the latest event of each row said

registry == <<rows, born, clock, pending, channel, sent, latest>>

BroadcastInit ==
  /\ rows = EmptyList /\ born = EmptyList /\ clock = 0
  /\ pending = [t \in Threads |-> NoEvent]
  /\ channel = <<>> /\ sent = 0
  /\ latest = EmptyList

\* An operation adds, changes or removes a row; no row is added twice.
Change(t) ==
  /\ pending[t] = NoEvent
  /\ clock < MaxChanges
  /\ clock' = clock + 1
  /\ \E id \in Ids :
       /\ \/ /\ born[id] = 0
             /\ rows' = [rows EXCEPT ![id] = clock']
             /\ born' = [born EXCEPT ![id] = clock']
          \/ /\ rows[id] # 0
             /\ \E to \in {0, clock'} : rows' = [rows EXCEPT ![id] = to]
             /\ UNCHANGED born
       /\ pending' = [pending EXCEPT ![t] = [row |-> id, to |-> rows'[id]]]
  /\ UNCHANGED <<channel, sent, latest>>

Publish(t) ==
  /\ pending[t] # NoEvent
  /\ channel' = Append(IF Len(channel) = Capacity THEN Tail(channel) ELSE channel,
                       pending[t])
  /\ sent' = sent + 1
  /\ latest' = [latest EXCEPT ![pending[t].row] = pending[t].to]
  /\ pending' = [pending EXCEPT ![t] = NoEvent]
  /\ UNCHANGED <<rows, born, clock>>

AllPublished == \A t \in Threads : pending[t] = NoEvent

\* The channel keeps the latest messages; a receiver that is further behind is
\* told so once, and goes on with the oldest that is left.
Oldest == sent - Len(channel) + 1
Lags(pos) == pos < Oldest
HasNext(pos) == Oldest <= pos /\ pos <= sent
Sent(pos) == channel[pos - Oldest + 1]

RegistryOK ==
  /\ rows \in List
  /\ born \in List
  /\ clock \in Versions
  /\ pending \in [Threads -> Event]
  /\ channel \in Seq(Event) /\ Len(channel) <= Capacity
  /\ sent \in Nat
  /\ latest \in List
=============================================================================
