---------------------------- MODULE TakeoverProofs ----------------------------
(***************************************************************************)
(* Proofs about module Takeover, for every number of downloads, URLs,      *)
(* hosts and slots: its types, that one download of a URL runs at a time,  *)
(* and that a row at "starting" is watched.                                *)
(***************************************************************************)
EXTENDS Takeover, SequenceTheorems, TLAPS

\* Who has claimed a URL and works on it holds the lock: the reason why two do
\* not.
ClaimsAreHeld ==
  \A i \in Ids : InFlight(i) /\ job[i] \in Claimed => lock[url[i]] = i

\* A command is posted to a host that has been started.
HostsAreStarted ==
  /\ port # NoHost => host[port] # "unused"
  /\ \A i \in Ids : who[i] # NoHost => host[who[i]] # "unused"

TakeoverInv == TypeOK /\ HostsAreStarted /\ ClaimsAreHeld

---------------------------------------------------------------------------
(* What the operators shared by the actions do. *)

LEMMA AfterIsARowState ==
  ASSUME NEW kind \in Kinds
  PROVE  After(kind) \in RowStates /\ After(kind) # "starting"
BY DEF After, Kinds, RowStates

LEMMA PortToType ==
  ASSUME TypeOK, NEW h \in Hosts, PortTo(h)
  PROVE  /\ port' \in Hosts \cup {NoHost}
         /\ host' \in [Hosts -> {"unused", "up", "gone"}]
BY DEF TypeOK, PortTo

LEMMA SayType ==
  ASSUME TypeOK, NEW id \in Ids, NEW kind \in Kinds, Say(id, kind)
  PROVE  mail' \in Seq([id : Ids, kind : Kinds])
<1>1. [id |-> id, kind |-> kind] \in [id : Ids, kind : Kinds]
  OBVIOUS
<1>2. mail \in Seq([id : Ids, kind : Kinds])
  BY DEF TypeOK
<1>3. Append(mail, [id |-> id, kind |-> kind]) \in Seq([id : Ids, kind : Kinds])
  BY <1>1, <1>2
<1>4. QED
  BY <1>2, <1>3 DEF Say

LEMMA HandBackType ==
  ASSUME TypeOK, NEW id \in Ids, HandBack(id)
  PROVE  /\ row' \in [Ids -> RowStates]
         /\ browser' \in [Ids -> {"none", "cancelled", "again"}]
         /\ row'[id] # "starting"
         /\ \A i \in Ids : i # id => row'[i] = row[i]
BY DEF TypeOK, HandBack, RowStates

LEMMA BecomesType ==
  ASSUME TypeOK, NEW id \in Ids, NEW state \in Jobs, Becomes(id, state)
  PROVE  /\ job' \in [Ids -> Jobs]
         /\ job'[id] = state
         /\ \A i \in Ids : i # id => job'[i] = job[i]
BY DEF TypeOK, Becomes

---------------------------------------------------------------------------
(* Types. *)

LEMMA DetachType ==
  ASSUME NEW rows \in [Ids -> RowStates]
  PROVE  /\ Detach(rows) \in [Ids -> RowStates]
         /\ \A i \in Ids : Detach(rows)[i] = rows[i] \/
              (rows[i] \in {"starting", "running"} /\ Detach(rows)[i] = "detached")
BY DEF Detach, RowStates

LEMMA InitType == ASSUME Init PROVE TypeOK
BY TakeoverAssumption DEF Init, TypeOK, RowStates, Jobs

LEMMA ExtensionKeepsType ==
  ASSUME TypeOK,
         \/ \E id \in Ids :
              TakeOver(id) \/ Post(id) \/ PostFails(id) \/ PostThrows(id) \/ Timer(id)
         \/ Deliver \/ Ping \/ PortCloses \/ Evict
  PROVE  TypeOK'
<1>1. ASSUME NEW id \in Ids, TakeOver(id) PROVE TypeOK'
  BY <1>1 DEF TakeOver, TypeOK, RowStates, hosts, history
<1>2. ASSUME NEW id \in Ids, Post(id) PROVE TypeOK'
  <2>1. PICK h \in Hosts : PortTo(h) /\ job' = [job EXCEPT ![id] = "posted"]
                                     /\ who' = [who EXCEPT ![id] = h]
    BY <1>2 DEF Post
  <2>2. /\ port' \in Hosts \cup {NoHost}
        /\ host' \in [Hosts -> {"unused", "up", "gone"}]
    BY <2>1, PortToType
  <2>3. job' \in [Ids -> Jobs] /\ who' \in [Ids -> Hosts \cup {NoHost}]
    BY <2>1 DEF TypeOK, Jobs, Working
  <2>4. QED
    BY <1>2, <2>2, <2>3 DEF Post, TypeOK, history
<1>3. ASSUME NEW id \in Ids, PostFails(id) PROVE TypeOK'
  BY <1>3, HandBackType DEF PostFails, TypeOK, hosts, history
<1>4. ASSUME NEW id \in Ids, Timer(id) PROVE TypeOK'
  <2>1. row' \in [Ids -> RowStates] /\ browser' \in [Ids -> {"none", "cancelled", "again"}]
    BY <1>4, HandBackType DEF Timer, TypeOK
  <2>2. QED
    BY <1>4, <2>1 DEF Timer, TypeOK, hosts, history
<1>5. ASSUME Deliver PROVE TypeOK'
  <2>1. mail \in Seq([id : Ids, kind : Kinds]) /\ mail # <<>>
    BY <1>5 DEF Deliver, TypeOK
  <2>2. Head(mail) \in [id : Ids, kind : Kinds] /\ Tail(mail) \in Seq([id : Ids, kind : Kinds])
    BY <2>1, HeadTailProperties
  <2>3. PICK m \in [id : Ids, kind : Kinds] :
          /\ row' = [row EXCEPT ![m.id] = IF @ = "none" THEN @ ELSE After(m.kind)]
          /\ reach' = CASE m.kind = "accepted" -> "ok"
                        [] m.kind = "mismatch" -> "mismatch"
                        [] OTHER -> reach
    BY <1>5, <2>2 DEF Deliver
  <2>4. m.id \in Ids /\ After(m.kind) \in RowStates
    BY AfterIsARowState
  <2>5. row' \in [Ids -> RowStates]
    BY <2>3, <2>4 DEF TypeOK
  <2>6. reach' \in {"unknown", "ok", "missing", "mismatch"}
    BY <2>3 DEF TypeOK
  <2>7. mail' \in Seq([id : Ids, kind : Kinds])
    BY <1>5, <2>2 DEF Deliver
  <2>8. QED
    BY <1>5, <2>5, <2>6, <2>7 DEF Deliver, TypeOK, hosts, history
<1>6. ASSUME Ping PROVE TypeOK'
  BY <1>6, PortToType DEF Ping, TypeOK, hosts, history
<1>7. ASSUME PortCloses PROVE TypeOK'
  BY <1>7, DetachType DEF PortCloses, TypeOK, UnderWay, hosts
<1>8. ASSUME Evict PROVE TypeOK'
  <2>1. trouble' \in 0 .. MaxTrouble
    BY <1>8, TakeoverAssumption DEF Evict, TypeOK
  <2>2. mail' \in Seq([id : Ids, kind : Kinds])
    BY <1>8 DEF Evict
  <2>3. QED
    BY <1>8, <2>1, <2>2 DEF Evict, TypeOK, UnderWay, hosts
<1>9. ASSUME NEW id \in Ids, PostThrows(id) PROVE TypeOK'
  <2>1. [row EXCEPT ![id] = "none"] \in [Ids -> RowStates]
    BY DEF TypeOK, RowStates
  <2>2. row' \in [Ids -> RowStates]
    BY <1>9, <2>1, DetachType DEF PostThrows
  <2>3. QED
    BY <1>9, <2>2 DEF PostThrows, TypeOK, UnderWay, hosts
<1>10. QED
  BY <1>1, <1>2, <1>3, <1>4, <1>5, <1>6, <1>7, <1>8, <1>9

LEMMA CancelKeepsType ==
  ASSUME TypeOK, NEW id \in Ids, Cancel(id)
  PROVE  TypeOK'
<1>1. PICK h \in Hosts :
        /\ PortTo(h)
        /\ IF who[id] = h /\ job[id] \in {"queued", "downloading"}
           THEN stop' = [stop EXCEPT ![id] = TRUE] /\ UNCHANGED mail
           ELSE /\ mail' = IF host'[h] = "up"
                           THEN Append(mail, [id |-> id, kind |-> "error"]) ELSE mail
                /\ UNCHANGED stop
  BY DEF Cancel
<1>2. /\ port' \in Hosts \cup {NoHost}
      /\ host' \in [Hosts -> {"unused", "up", "gone"}]
  BY <1>1, PortToType
<1>3. [id |-> id, kind |-> "error"] \in [id : Ids, kind : Kinds]
  BY DEF Kinds
<1>4. Append(mail, [id |-> id, kind |-> "error"]) \in Seq([id : Ids, kind : Kinds])
  BY <1>3 DEF TypeOK
<1>5. mail' \in Seq([id : Ids, kind : Kinds]) /\ stop' \in [Ids -> BOOLEAN]
  BY <1>1, <1>4 DEF TypeOK
<1>6. QED
  BY <1>2, <1>5 DEF Cancel, TypeOK, extension

LEMMA RelayKeepsType ==
  ASSUME TypeOK, NEW id \in Ids,
         RelayAdds(id) \/ RelayHeard(id) \/ RelayFails(id) \/ Refuse(id)
  PROVE  TypeOK'
<1>1. {"sent", "handed", "local", "failed"} \subseteq Jobs
      /\ {"accepted", "mismatch", "failed"} \subseteq Kinds
  BY DEF Jobs, Working, Kinds
<1>2. job' \in [Ids -> Jobs]
  BY <1>1, BecomesType DEF RelayAdds, RelayHeard, RelayFails, Refuse
<1>3. mail' \in Seq([id : Ids, kind : Kinds])
  BY <1>1, SayType DEF RelayAdds, RelayHeard, RelayFails, Refuse, TypeOK
<1>4. app' \in [Ids -> BOOLEAN]
  BY DEF RelayAdds, RelayHeard, RelayFails, Refuse, TypeOK
<1>5. QED
  BY <1>2, <1>3, <1>4
  DEF RelayAdds, RelayHeard, RelayFails, Refuse, TypeOK, extension, history

LEMMA LocalKeepsType ==
  ASSUME TypeOK, NEW id \in Ids,
         Claim(id) \/ Enlist(id) \/ Taken(id) \/ Begin(id) \/ Delist(id) \/ Finish(id)
  PROVE  TypeOK'
<1>1. {"failed", "cancelled", "delivered"} \cup Claimed \subseteq Jobs
      /\ {"accepted", "failed", "cancelled", "completed"} \subseteq Kinds
  BY DEF Jobs, Working, Kinds
<1>2. job' \in [Ids -> Jobs]
  BY <1>1, BecomesType DEF Claim, Enlist, Taken, Begin, Delist, Finish, Ends, Claimed
<1>3. mail' \in Seq([id : Ids, kind : Kinds])
  BY <1>1, SayType DEF Claim, Enlist, Taken, Begin, Delist, Finish, Ends, TypeOK
<1>4. lock' \in [Urls -> Ids \cup {Free}]
  BY DEF Claim, Enlist, Taken, Begin, Delist, Finish, Ends, TypeOK
<1>5. QED
  BY <1>2, <1>3, <1>4
  DEF Claim, Enlist, Taken, Begin, Delist, Finish, TypeOK, extension, history

LEMMA HostKeepsType ==
  ASSUME TypeOK, NEW h \in Hosts, HostExits(h) \/ HostDies(h)
  PROVE  TypeOK'
<1>1. CASE HostExits(h)
  BY <1>1 DEF HostExits, TypeOK, extension, hosts, history
<1>2. CASE HostDies(h)
  <2>1. trouble' \in 0 .. MaxTrouble
    BY <1>2, TakeoverAssumption DEF HostDies, TypeOK
  <2>2. lock' \in [Urls -> Ids \cup {Free}]
    BY <1>2 DEF HostDies, TypeOK
  <2>3. QED
    BY <1>2, <2>1, <2>2 DEF HostDies, TypeOK, UnderWay, extension
<1>3. QED
  BY <1>1, <1>2

LEMMA NextKeepsType ==
  ASSUME TypeOK, [Next]_vars
  PROVE  TypeOK'
<1>1. CASE UNCHANGED vars
  BY <1>1 DEF TypeOK, vars, extension, hosts, history
<1>2. CASE Next
  BY <1>2, ExtensionKeepsType, CancelKeepsType, RelayKeepsType, LocalKeepsType, HostKeepsType
  DEF Next, Step
<1>3. QED
  BY <1>1, <1>2

---------------------------------------------------------------------------
(* The claims. *)

LEMMA InitInv == ASSUME Init PROVE TakeoverInv
BY InitType DEF Init, TakeoverInv, HostsAreStarted, ClaimsAreHeld, Claimed

\* A host that has been started stays as it is.
LEMMA PortToKeepsHosts ==
  ASSUME TypeOK, HostsAreStarted, NEW h \in Hosts, PortTo(h)
  PROVE  /\ port' # NoHost => host'[port'] # "unused"
         /\ \A g \in Hosts : host[g] # "unused" => host'[g] = host[g]
         /\ host'[h] # "unused"
BY TakeoverAssumption DEF TypeOK, HostsAreStarted, PortTo

LEMMA PostKeepsInv ==
  ASSUME TakeoverInv, NEW id \in Ids, Post(id)
  PROVE  TakeoverInv'
<1>1. PICK h \in Hosts : PortTo(h) /\ job' = [job EXCEPT ![id] = "posted"]
                                   /\ who' = [who EXCEPT ![id] = h]
  BY DEF Post
<1>2. TypeOK'
  BY ExtensionKeepsType DEF TakeoverInv
<1>3. /\ port' # NoHost => host'[port'] # "unused"
      /\ \A g \in Hosts : host[g] # "unused" => host'[g] = host[g]
      /\ host'[h] # "unused"
  BY <1>1, PortToKeepsHosts DEF TakeoverInv
<1>4. HostsAreStarted'
  BY <1>1, <1>3 DEF TakeoverInv, TypeOK, HostsAreStarted
<1>5. ASSUME NEW i \in Ids, InFlight(i)', job'[i] \in Claimed
      PROVE  lock'[url'[i]] = i
  <2>1. i # id /\ job[i] = job'[i] /\ who[i] = who'[i]
    BY <1>1, <1>5 DEF TakeoverInv, TypeOK, Claimed
  <2>2. who[i] \in Hosts /\ who[i] # NoHost
    BY <1>5, <2>1, TakeoverAssumption DEF InFlight, Up
  <2>3. InFlight(i)
    BY <1>3, <1>5, <2>1, <2>2 DEF TakeoverInv, HostsAreStarted, InFlight, Up
  <2>4. QED
    BY <1>5, <2>1, <2>3 DEF Post, TakeoverInv, ClaimsAreHeld
<1>6. QED
  BY <1>2, <1>4, <1>5 DEF TakeoverInv, ClaimsAreHeld

\* Steps that post nothing and end nothing, and open a port at most.
LEMMA PortStepKeepsInv ==
  ASSUME TakeoverInv, TypeOK', UNCHANGED <<url, job, who, lock>>,
         (\E h \in Hosts : PortTo(h)) \/ (port' \in {port, NoHost} /\ host' = host)
  PROVE  TakeoverInv'
<1>1. CASE \E h \in Hosts : PortTo(h)
  <2>1. /\ port' # NoHost => host'[port'] # "unused"
        /\ \A g \in Hosts : host[g] # "unused" => host'[g] = host[g]
    BY <1>1, PortToKeepsHosts DEF TakeoverInv
  <2>2. HostsAreStarted'
    BY <2>1 DEF TakeoverInv, TypeOK, HostsAreStarted
  <2>3. \A i \in Ids : InFlight(i)' => InFlight(i)
    BY <2>1, TakeoverAssumption DEF TakeoverInv, TypeOK, HostsAreStarted, InFlight, Up
  <2>4. QED
    BY <2>2, <2>3 DEF TakeoverInv, ClaimsAreHeld
<1>2. CASE port' \in {port, NoHost} /\ host' = host
  BY <1>2 DEF TakeoverInv, HostsAreStarted, ClaimsAreHeld, InFlight, Up
<1>3. QED
  BY <1>1, <1>2

LEMMA ExtensionKeepsInv ==
  ASSUME TakeoverInv,
         \/ \E id \in Ids :
              \/ TakeOver(id) \/ Post(id) \/ PostFails(id) \/ PostThrows(id)
              \/ Timer(id) \/ Cancel(id)
         \/ Deliver \/ Ping \/ PortCloses \/ Evict
  PROVE  TakeoverInv'
<1>1. TypeOK'
  BY ExtensionKeepsType, CancelKeepsType DEF TakeoverInv
<1>2. ASSUME NEW id \in Ids, TakeOver(id) \/ PostFails(id) \/ PostThrows(id) \/ Timer(id)
      PROVE  TakeoverInv'
  BY <1>1, <1>2, PortStepKeepsInv DEF TakeOver, PostFails, PostThrows, Timer, hosts
<1>3. ASSUME NEW id \in Ids, Cancel(id) PROVE TakeoverInv'
  BY <1>1, <1>3, PortStepKeepsInv DEF Cancel
<1>4. CASE Ping
  BY <1>1, <1>4, PortStepKeepsInv DEF Ping, hosts
<1>5. CASE Deliver \/ PortCloses \/ Evict
  BY <1>1, <1>5, PortStepKeepsInv DEF Deliver, PortCloses, Evict, hosts
<1>6. QED
  BY <1>2, <1>3, <1>4, <1>5, PostKeepsInv

LEMMA RelayKeepsInv ==
  ASSUME TakeoverInv, NEW id \in Ids,
         RelayAdds(id) \/ RelayHeard(id) \/ RelayFails(id) \/ Refuse(id) \/ Taken(id)
  PROVE  TakeoverInv'
<1>1. TypeOK'
  BY RelayKeepsType, LocalKeepsType DEF TakeoverInv
<1>2. UNCHANGED <<port, host, url, who, lock>>
  BY DEF RelayAdds, RelayHeard, RelayFails, Refuse, Taken
<1>3. PICK state \in {"sent", "handed", "local", "failed"} : Becomes(id, state)
  BY DEF RelayAdds, RelayHeard, RelayFails, Refuse, Taken
<1>4. job'[id] = state /\ \A i \in Ids : i # id => job'[i] = job[i]
  BY <1>3 DEF Becomes, TakeoverInv, TypeOK
<1>5. HostsAreStarted'
  BY <1>2 DEF TakeoverInv, HostsAreStarted
<1>6. ASSUME NEW i \in Ids, InFlight(i)', job'[i] \in Claimed
      PROVE  lock'[url'[i]] = i
  <2>1. job[i] = job'[i]
    BY <1>3, <1>4, <1>6 DEF Claimed
  <2>2. InFlight(i)
    BY <1>2, <1>6, <2>1 DEF InFlight, Up
  <2>3. QED
    BY <1>2, <1>6, <2>1, <2>2 DEF TakeoverInv, ClaimsAreHeld
<1>7. ClaimsAreHeld'
  BY <1>6 DEF ClaimsAreHeld
<1>8. QED
  BY <1>1, <1>5, <1>7 DEF TakeoverInv

LEMMA LocalKeepsInv ==
  ASSUME TakeoverInv, NEW id \in Ids,
         Claim(id) \/ Enlist(id) \/ Begin(id) \/ Delist(id) \/ Finish(id)
  PROVE  TakeoverInv'
<1>1. TypeOK'
  BY LocalKeepsType DEF TakeoverInv
<1>2. UNCHANGED <<port, host, url, who>> /\ HostsAreStarted'
  BY DEF Claim, Enlist, Begin, Delist, Finish, TakeoverInv, HostsAreStarted
<1>3. \A i \in Ids : Up(who[i])' <=> Up(who[i])
  BY <1>2 DEF Up
<1>4. CASE Claim(id)
  <2>1. job'[id] = "claimed" /\ \A i \in Ids : i # id => job'[i] = job[i]
    BY <1>4 DEF Claim, Becomes, TakeoverInv, TypeOK
  <2>2. lock'[url[id]] = id /\ \A u \in Urls : u # url[id] => lock'[u] = lock[u]
    BY <1>4 DEF Claim, TakeoverInv, TypeOK
  <2>3. ASSUME NEW i \in Ids, i # id, InFlight(i)', job'[i] \in Claimed
        PROVE  lock'[url'[i]] = i
    <3>1. lock[url[i]] = i
      BY <1>2, <1>3, <2>1, <2>3 DEF TakeoverInv, ClaimsAreHeld, InFlight
    <3>2. url[i] # url[id]
      BY <1>4, <3>1, TakeoverAssumption DEF Claim
    <3>3. QED
      BY <1>2, <2>2, <3>1, <3>2 DEF TakeoverInv, TypeOK
  <2>4. QED
    BY <1>1, <1>2, <2>2, <2>3 DEF TakeoverInv, ClaimsAreHeld
<1>5. CASE job[id] \in Claimed /\ InFlight(id) /\ (\E s \in Claimed : Becomes(id, s))
           /\ UNCHANGED lock
  BY <1>1, <1>2, <1>3, <1>5
  DEF Becomes, TakeoverInv, TypeOK, ClaimsAreHeld, InFlight, Working
<1>6. ASSUME NEW state \in {"cancelled", "delivered", "failed"},
             InFlight(id), job[id] \in Claimed,
             Becomes(id, state), lock' = [lock EXCEPT ![url[id]] = Free]
      PROVE  TakeoverInv'
  <2>1. job'[id] = state /\ \A i \in Ids : i # id => job'[i] = job[i]
    BY <1>6 DEF Becomes, TakeoverInv, TypeOK
  <2>2. lock[url[id]] = id
    BY <1>6 DEF TakeoverInv, ClaimsAreHeld
  <2>3. ASSUME NEW i \in Ids, InFlight(i)', job'[i] \in Claimed
        PROVE  lock'[url'[i]] = i
    <3>1. i # id /\ InFlight(i) /\ job[i] \in Claimed
      BY <1>2, <1>3, <1>6, <2>1, <2>3 DEF InFlight, Claimed
    <3>2. lock[url[i]] = i
      BY <3>1 DEF TakeoverInv, ClaimsAreHeld
    <3>3. url[i] # url[id]
      BY <2>2, <3>1, <3>2
    <3>4. QED
      BY <1>2, <1>6, <3>2, <3>3 DEF TakeoverInv, TypeOK
  <2>4. QED
    BY <1>1, <1>2, <2>3 DEF TakeoverInv, ClaimsAreHeld
<1>7. CASE Begin(id)
  BY <1>5, <1>6, <1>7 DEF Begin, Ends, Claimed
<1>8. CASE Finish(id)
  BY <1>6, <1>8 DEF Finish, Ends, Claimed
<1>9. CASE Enlist(id) \/ Delist(id)
  BY <1>5, <1>9 DEF Enlist, Delist, Claimed
<1>10. QED
  BY <1>4, <1>7, <1>8, <1>9

LEMMA HostKeepsInv ==
  ASSUME TakeoverInv, NEW h \in Hosts, HostExits(h) \/ HostDies(h)
  PROVE  TakeoverInv'
<1>1. TypeOK'
  BY HostKeepsType DEF TakeoverInv
<1>2. /\ host' = [host EXCEPT ![h] = "gone"]
      /\ UNCHANGED <<port, url, job, who>>
  BY DEF HostExits, HostDies, hosts
<1>3. HostsAreStarted'
  BY <1>2, TakeoverAssumption DEF TakeoverInv, TypeOK, HostsAreStarted
<1>4. ASSUME NEW i \in Ids, InFlight(i)', job'[i] \in Claimed
      PROVE  lock'[url'[i]] = i
  <2>1. InFlight(i) /\ who[i] # h
    BY <1>2, <1>4 DEF InFlight, Up, TakeoverInv, TypeOK
  <2>2. lock[url[i]] = i /\ url[i] \in Urls
    BY <1>2, <1>4, <2>1 DEF TakeoverInv, TypeOK, ClaimsAreHeld
  <2>3. CASE HostExits(h)
    BY <1>2, <2>2, <2>3 DEF HostExits, hosts
  <2>4. CASE HostDies(h)
    BY <1>2, <2>1, <2>2, <2>4 DEF HostDies
  <2>5. QED
    BY <2>3, <2>4
<1>5. QED
  BY <1>1, <1>3, <1>4 DEF TakeoverInv, ClaimsAreHeld

\* Every step keeps the invariant.
LEMMA NextKeepsInv ==
  ASSUME TakeoverInv, [Next]_vars
  PROVE  TakeoverInv'
<1>1. CASE UNCHANGED vars
  <2>1. TypeOK'
    BY NextKeepsType DEF TakeoverInv
  <2>2. QED
    BY <1>1, <2>1, PortStepKeepsInv DEF vars, hosts
<1>2. CASE Next
  BY <1>2, ExtensionKeepsInv, RelayKeepsInv, LocalKeepsInv, HostKeepsInv DEF Next, Step
<1>3. QED
  BY <1>1, <1>2

\* The types, the claims and the hosts are as they should be in every state.
THEOREM TakeoverInvHolds == Spec => []TakeoverInv
<1>1. Init => TakeoverInv
  BY InitInv
<1>2. TakeoverInv /\ [Next]_vars => TakeoverInv'
  BY NextKeepsInv
<1>3. QED
  BY <1>1, <1>2, PTL DEF Spec

\* Every variable keeps to its type.
THEOREM TypesHold == Spec => []TypeOK
<1>1. TakeoverInv => TypeOK
  BY DEF TakeoverInv
<1>2. QED
  BY <1>1, TakeoverInvHolds, PTL

\* However many hosts there are, orphans included, one download of a URL runs at a
\* time: lock.rs keeps its promise.
THEOREM OneWriterHolds == Spec => []OneWriter
<1>1. TakeoverInv => OneWriter
  BY DEF TakeoverInv, TypeOK, ClaimsAreHeld, OneWriter, Claimed
<1>2. QED
  BY <1>1, TakeoverInvHolds, PTL

---------------------------------------------------------------------------
(* The rows at "starting". *)

LEMMA RowStartsWatched ==
  ASSUME TypeOK, StartingIsWatched, [Next]_vars
  PROVE  StartingIsWatched'
<1>1. CASE row' = row /\ timer' = timer /\ hurt \subseteq hurt'
  BY <1>1 DEF StartingIsWatched
<1>2. ASSUME NEW id \in Ids, TakeOver(id) PROVE StartingIsWatched'
  BY <1>2 DEF TakeOver, StartingIsWatched, TypeOK, history
<1>3. ASSUME NEW id \in Ids, Post(id) PROVE StartingIsWatched'
  BY <1>3 DEF Post, StartingIsWatched, TypeOK, history
<1>4. ASSUME NEW id \in Ids, PostFails(id) PROVE StartingIsWatched'
  BY <1>4, HandBackType DEF PostFails, StartingIsWatched, TypeOK, history
<1>5. ASSUME NEW id \in Ids, Timer(id) PROVE StartingIsWatched'
  <2>1. row'[id] # "starting" /\ \A i \in Ids : i # id => row'[i] = row[i]
    BY <1>5, HandBackType DEF Timer
  <2>2. QED
    BY <1>5, <2>1 DEF Timer, StartingIsWatched, TypeOK, history
<1>6. CASE Deliver
  <2>1. mail \in Seq([id : Ids, kind : Kinds]) /\ mail # <<>>
    BY <1>6 DEF Deliver, TypeOK
  <2>2. Head(mail) \in [id : Ids, kind : Kinds]
    BY <2>1, HeadTailProperties
  <2>3. PICK m \in [id : Ids, kind : Kinds] :
          row' = [row EXCEPT ![m.id] = IF @ = "none" THEN @ ELSE After(m.kind)]
    BY <1>6, <2>2 DEF Deliver
  <2>4. m.id \in Ids /\ After(m.kind) # "starting"
    BY AfterIsARowState
  <2>5. \A i \in Ids : row'[i] = "starting" => row[i] = "starting"
    BY <2>3, <2>4 DEF TypeOK
  <2>6. QED
    BY <1>6, <2>5 DEF Deliver, StartingIsWatched, history
<1>7. CASE PortCloses \/ Evict
  BY <1>7, DetachType DEF PortCloses, Evict, StartingIsWatched, TypeOK, UnderWay
<1>8. CASE Ping
  BY <1>1, <1>8 DEF Ping, history
<1>9. ASSUME NEW id \in Ids,
             \/ Cancel(id) \/ RelayAdds(id) \/ RelayHeard(id) \/ RelayFails(id) \/ Refuse(id)
             \/ Claim(id) \/ Enlist(id) \/ Taken(id)
             \/ Begin(id) \/ Delist(id) \/ Finish(id)
      PROVE  StartingIsWatched'
  BY <1>1, <1>9 DEF Cancel, RelayAdds, RelayHeard, RelayFails, Refuse, Claim, Enlist,
                    Taken, Begin, Delist, Finish, extension, history
<1>10. ASSUME NEW h \in Hosts, HostExits(h) \/ HostDies(h) PROVE StartingIsWatched'
  BY <1>1, <1>10 DEF HostExits, HostDies, extension, history
<1>11. CASE UNCHANGED vars
  BY <1>1, <1>11 DEF vars, extension, history
<1>12. ASSUME NEW id \in Ids, PostThrows(id) PROVE StartingIsWatched'
  <2>1. [row EXCEPT ![id] = "none"] \in [Ids -> RowStates]
    BY DEF TypeOK, RowStates
  <2>2. \A i \in Ids : row'[i] # "starting"
    BY <1>12, <2>1 DEF PostThrows, Detach
  <2>3. QED
    BY <2>2 DEF StartingIsWatched
<1>13. QED
  BY <1>2, <1>3, <1>4, <1>5, <1>6, <1>7, <1>8, <1>9, <1>10, <1>11, <1>12 DEF Next, Step

\* No row is left at "starting" without its timer, unless the worker that set it
\* was evicted.
THEOREM StartingIsWatchedHolds == Spec => []StartingIsWatched
<1>1. Init => StartingIsWatched
  BY DEF Init, StartingIsWatched
<1>2. TypeOK /\ StartingIsWatched /\ [Next]_vars => StartingIsWatched'
  BY RowStartsWatched
<1>3. QED
  BY <1>1, <1>2, TypesHold, PTL DEF Spec

---------------------------------------------------------------------------
(* No download that no death and no eviction has met is lost, for every    *)
(* number of downloads, URLs, hosts and slots.                             *)

\* The messages that end a row as failed.
Bad == {"failed", "error", "mismatch"}

\* The messages about a download that are on their way are of these kinds.
OnlyTold(id, kinds) == \A i \in 1 .. Len(mail) : mail[i].id = id => mail[i].kind \in kinds

\* The last message about it that is on its way says so.
LastIsBad(id) ==
  \E i \in 1 .. Len(mail) :
    /\ mail[i].id = id
    /\ \A j \in i .. Len(mail) : mail[j].id = id => mail[j].kind \in Bad

\* The row says that it failed, or will when its messages have come.
EndsAsFailed(id) ==
  \/ row[id] = "failed" /\ OnlyTold(id, Bad)
  \/ LastIsBad(id)

\* Nothing is said of a download that was not taken over, and what is said of the
\* end of one is so.
MessagesAreTrue(id) ==
  /\ browser[id] = "none" =>
       job[id] = "none" /\ row[id] = "none" /\ timer[id] = "none" /\ OnlyTold(id, {})
  /\ timer[id] = "asking" => job[id] = "none"
  /\ job[id] # "cancelled" => OnlyTold(id, Kinds \ {"cancelled"})
  /\ job[id] # "delivered" => OnlyTold(id, Kinds \ {"completed"}) /\ row[id] # "completed"
  /\ row[id] = "detached" => id \in hurt

\* Cancelled in the browser, and met by no death and no eviction.
Astray(id) == browser[id] = "cancelled" /\ id \notin hurt

\* The extension has the download, or a host that it can hear, or the app, or it is
\* at an end that the row says or will say.
Followed(id) ==
  /\ job[id] \in {"none", "posted"} => row[id] \in {"starting", "failed"} /\ OnlyTold(id, Bad)
  /\ job[id] \in Working => who[id] \in Hosts /\ port = who[id]
  /\ job[id] \in Working \ {"posted"} => Up(who[id])
  /\ job[id] \in {"sent", "handed"} => app[id]
  /\ job[id] = "failed" => EndsAsFailed(id)
  /\ row[id] = "none" => job[id] = "cancelled"

RowInv(id) == MessagesAreTrue(id) /\ (Astray(id) => Followed(id))

LossInv == \A id \in Ids : RowInv(id)

---------------------------------------------------------------------------
(* Messages. *)

LEMMA MailStays ==
  ASSUME NEW i \in Ids, mail' = mail
  PROVE  /\ \A K : OnlyTold(i, K) => OnlyTold(i, K)'
         /\ LastIsBad(i) => LastIsBad(i)'
BY DEF OnlyTold, LastIsBad

LEMMA NoMail ==
  ASSUME NEW i \in Ids, mail = <<>>
  PROVE  (\A K : OnlyTold(i, K)) /\ ~LastIsBad(i)
BY DEF OnlyTold, LastIsBad

LEMMA MailGrows ==
  ASSUME TypeOK, NEW i \in Ids, NEW id \in Ids, NEW kind \in Kinds,
         mail' = Append(mail, [id |-> id, kind |-> kind])
  PROVE  /\ \A K : OnlyTold(i, K) /\ (i = id => kind \in K) => OnlyTold(i, K)'
         /\ LastIsBad(i) /\ (i = id => kind \in Bad) => LastIsBad(i)'
         /\ i = id /\ kind \in Bad => LastIsBad(i)'
<1> DEFINE n == Len(mail)
<1>1. /\ n \in Nat /\ Len(mail') = n + 1
      /\ \A k \in 1 .. n : mail'[k] = mail[k]
      /\ mail'[n + 1].id = id /\ mail'[n + 1].kind = kind
  BY DEF TypeOK
<1>2. ASSUME NEW K, OnlyTold(i, K), i = id => kind \in K PROVE OnlyTold(i, K)'
  BY <1>1, <1>2 DEF OnlyTold
<1>3. ASSUME LastIsBad(i), i = id => kind \in Bad PROVE LastIsBad(i)'
  <2>1. PICK k \in 1 .. n : /\ mail[k].id = i
                            /\ \A j \in k .. n : mail[j].id = i => mail[j].kind \in Bad
    BY <1>3 DEF LastIsBad
  <2>2. k \in 1 .. n + 1 /\ mail'[k].id = i
    BY <1>1, <2>1
  <2>3. ASSUME NEW j \in k .. n + 1, mail'[j].id = i PROVE mail'[j].kind \in Bad
    BY <1>1, <1>3, <2>1, <2>3
  <2>4. QED
    BY <1>1, <2>2, <2>3 DEF LastIsBad, Bad
<1>4. ASSUME i = id, kind \in Bad PROVE LastIsBad(i)'
  <2>1. n + 1 \in 1 .. Len(mail') /\ mail'[n + 1].id = i
    BY <1>1, <1>4
  <2>2. \A j \in n + 1 .. Len(mail') : mail'[j].kind \in Bad
    BY <1>1, <1>4
  <2>3. QED
    BY <2>1, <2>2 DEF LastIsBad, Bad
<1>5. QED
  BY <1>2, <1>3, <1>4

LEMMA MailShrinks ==
  ASSUME TypeOK, NEW i \in Ids, mail # <<>>, mail' = Tail(mail)
  PROVE  /\ \A K : OnlyTold(i, K) => OnlyTold(i, K)'
         /\ LastIsBad(i) =>
              LastIsBad(i)' \/ (Head(mail).id = i /\ OnlyTold(i, Bad))
<1> DEFINE n == Len(mail)
<1>1. /\ n \in Nat \ {0} /\ Len(mail') = n - 1
      /\ \A k \in 1 .. n - 1 : mail'[k] = mail[k + 1]
      /\ Head(mail) = mail[1]
  BY DEF TypeOK
<1>2. ASSUME NEW K, OnlyTold(i, K) PROVE OnlyTold(i, K)'
  BY <1>1, <1>2 DEF OnlyTold
<1>3. ASSUME LastIsBad(i)
      PROVE  LastIsBad(i)' \/ (Head(mail).id = i /\ OnlyTold(i, Bad))
  <2>1. PICK k \in 1 .. n : /\ mail[k].id = i
                            /\ \A j \in k .. n : mail[j].id = i => mail[j].kind \in Bad
    BY <1>3 DEF LastIsBad
  <2>2. CASE k = 1
    BY <1>1, <2>1, <2>2 DEF OnlyTold
  <2>3. CASE k # 1
    <3>1. k - 1 \in 1 .. Len(mail') /\ mail'[k - 1].id = i
      BY <1>1, <2>1, <2>3
    <3>2. ASSUME NEW j \in k - 1 .. Len(mail'), mail'[j].id = i PROVE mail'[j].kind \in Bad
      <4>1. j \in 1 .. n - 1 /\ j + 1 \in k .. n
        BY <1>1, <2>1, <2>3
      <4>2. QED
        BY <1>1, <2>1, <3>2, <4>1
    <3>3. QED
      BY <3>1, <3>2 DEF LastIsBad, Bad
  <2>4. QED
    BY <2>2, <2>3
<1>4. QED
  BY <1>2, <1>3

\* A message that is said or lost does not matter to other downloads.
LEMMA MailOfOthers ==
  ASSUME TypeOK, NEW id \in Ids, NEW kind \in Kinds, NEW i \in Ids \ {id},
         mail' \in {mail, Append(mail, [id |-> id, kind |-> kind])}
  PROVE  /\ \A K : OnlyTold(i, K) => OnlyTold(i, K)'
         /\ LastIsBad(i) => LastIsBad(i)'
BY MailStays, MailGrows

---------------------------------------------------------------------------
(* What does not concern a download keeps its part of the invariant. *)

LEMMA Frame ==
  ASSUME NEW i \in Ids, RowInv(i),
         browser'[i] = browser[i], row'[i] = row[i], job'[i] = job[i], who'[i] = who[i],
         app'[i] = app[i], timer'[i] \in {timer[i], "none"}, hurt \subseteq hurt',
         Astray(i)' /\ job[i] \in Working => port' = port /\ (InFlight(i) => InFlight(i)'),
         \A K : OnlyTold(i, K) => OnlyTold(i, K)',
         LastIsBad(i) => LastIsBad(i)'
  PROVE  RowInv(i)'
<1>1. MessagesAreTrue(i)'
  BY DEF RowInv, MessagesAreTrue
<1>2. EndsAsFailed(i) => EndsAsFailed(i)'
  BY DEF EndsAsFailed
<1>3. ASSUME Astray(i)' PROVE Followed(i)'
  <2>1. Followed(i) /\ i \notin hurt'
    BY <1>3 DEF RowInv, Astray
  <2>2. job[i] \in Working \ {"posted"} => Up(who[i])'
    BY <1>3, <2>1 DEF Followed, InFlight, Working
  <2>3. QED
    BY <1>2, <1>3, <2>1, <2>2 DEF Followed
<1>4. QED
  BY <1>1, <1>3 DEF RowInv

\* A port is opened only when there is none, so who has a host that it hears keeps
\* it.
LEMMA PortToFrame ==
  ASSUME NEW h \in Hosts, PortTo(h), UNCHANGED <<job, who>>,
         NEW i \in Ids, RowInv(i), Astray(i), job[i] \in Working
  PROVE  port' = port /\ (InFlight(i) => InFlight(i)')
<1>1. port # NoHost
  BY TakeoverAssumption DEF RowInv, Followed
<1>2. UNCHANGED <<port, host>>
  BY <1>1 DEF PortTo
<1>3. QED
  BY <1>2 DEF InFlight, Up

---------------------------------------------------------------------------
(* The extension. *)

LEMMA TakeOverKeeps ==
  ASSUME TypeOK, LossInv, NEW id \in Ids, TakeOver(id), NEW i \in Ids
  PROVE  RowInv(i)'
<1>1. /\ \A K : OnlyTold(i, K) => OnlyTold(i, K)'
      /\ LastIsBad(i) => LastIsBad(i)'
  BY MailStays DEF TakeOver
<1>2. CASE i # id
  BY <1>1, <1>2, Frame DEF LossInv, TakeOver, TypeOK, hosts, history, InFlight, Up
<1>3. CASE i = id
  <2>1. /\ job'[id] = "none" /\ OnlyTold(id, {}) /\ OnlyTold(id, Bad)
        /\ row'[id] = "starting" /\ browser'[id] = "cancelled" /\ timer'[id] = "asking"
    BY DEF LossInv, RowInv, MessagesAreTrue, TakeOver, TypeOK, hosts, OnlyTold
  <2>2. \A K : OnlyTold(id, K)'
    BY <2>1 DEF OnlyTold, TakeOver
  <2>3. MessagesAreTrue(id)' /\ Followed(id)'
    BY <2>1, <2>2 DEF MessagesAreTrue, Followed, Working, Claimed
  <2>4. QED
    BY <1>3, <2>3 DEF RowInv
<1>4. QED
  BY <1>2, <1>3

LEMMA PostKeeps ==
  ASSUME TypeOK, LossInv, NEW id \in Ids, Post(id), NEW i \in Ids
  PROVE  RowInv(i)'
<1>1. /\ \A K : OnlyTold(i, K) => OnlyTold(i, K)'
      /\ LastIsBad(i) => LastIsBad(i)'
  BY MailStays DEF Post
<1>2. PICK h \in Hosts : PortTo(h) /\ job' = [job EXCEPT ![id] = "posted"]
                                   /\ who' = [who EXCEPT ![id] = h]
  BY DEF Post
<1>3. RowInv(i) /\ RowInv(id)
  BY DEF LossInv
<1>4. CASE i # id
  <2>1. job'[i] = job[i] /\ who'[i] = who[i]
    BY <1>2, <1>4 DEF TypeOK
  <2>2. ASSUME Astray(i)', job[i] \in Working
        PROVE  port' = port /\ (InFlight(i) => InFlight(i)')
    <3>1. port # NoHost
      BY <1>3, <2>2, TakeoverAssumption DEF Post, history, Astray, RowInv, Followed
    <3>2. UNCHANGED <<port, host>>
      BY <1>2, <3>1 DEF PortTo
    <3>3. QED
      BY <2>1, <3>2 DEF InFlight, Up
  <2>3. QED
    BY <1>1, <1>3, <1>4, <2>1, <2>2, Frame DEF Post, TypeOK, history
<1>5. CASE i = id
  <2>1. /\ job[id] = "none" /\ job'[id] = "posted" /\ who'[id] = h /\ port' = h
        /\ browser[id] # "none" /\ timer'[id] = "counting"
    BY <1>2, <1>3 DEF RowInv, MessagesAreTrue, Post, PortTo, TypeOK
  <2>2. UNCHANGED <<browser, row, hurt>>
    BY DEF Post, history
  <2>3. MessagesAreTrue(id)'
    BY <1>1, <1>3, <1>5, <2>1, <2>2 DEF RowInv, MessagesAreTrue
  <2>4. Astray(id)' => Followed(id)'
    BY <1>1, <1>3, <1>5, <2>1, <2>2 DEF RowInv, Astray, Followed, Working
  <2>5. QED
    BY <1>5, <2>3, <2>4 DEF RowInv
<1>6. QED
  BY <1>4, <1>5

\* What is handed back is nobody's care any more.
LEMMA HandBackKeeps ==
  ASSUME TypeOK, LossInv, NEW id \in Ids, HandBack(id), row[id] # "none" \/ job[id] = "none",
         timer' = [timer EXCEPT ![id] = "none"], UNCHANGED <<job, who, app, mail, hurt, port, host>>,
         NEW i \in Ids
  PROVE  RowInv(i)'
<1>1. /\ \A K : OnlyTold(i, K) => OnlyTold(i, K)'
      /\ LastIsBad(i) => LastIsBad(i)'
  BY MailStays
<1>2. CASE i # id
  BY <1>1, <1>2, Frame DEF LossInv, HandBack, TypeOK, InFlight, Up
<1>3. CASE i = id
  <2>1. browser'[id] = "again" /\ row'[id] = "none" /\ timer'[id] = "none"
    BY DEF HandBack, TypeOK
  <2>2. QED
    BY <1>1, <1>3, <2>1 DEF LossInv, RowInv, MessagesAreTrue, Astray
<1>4. QED
  BY <1>2, <1>3

LEMMA TimerFrame ==
  ASSUME TypeOK, LossInv, NEW id \in Ids,
         timer' = [timer EXCEPT ![id] = "none"],
         UNCHANGED <<row, browser, job, who, app, mail, hurt, port, host>>,
         NEW i \in Ids
  PROVE  RowInv(i)'
<1>1. timer'[i] \in {timer[i], "none"}
  BY DEF TypeOK
<1>2. QED
  BY <1>1, MailStays, Frame DEF LossInv, InFlight, Up

LEMMA TimerKeeps ==
  ASSUME TypeOK, LossInv, NEW id \in Ids, PostFails(id) \/ Timer(id), NEW i \in Ids
  PROVE  RowInv(i)'
<1>1. UNCHANGED <<job, who, app, mail, hurt, port, host>>
      /\ timer' = [timer EXCEPT ![id] = "none"]
  BY DEF PostFails, Timer, hosts, history
<1>2. CASE HandBack(id)
  <2>1. CASE PostFails(id)
    <3>1. timer[id] = "asking" /\ job[id] = "none"
      BY <2>1 DEF PostFails, LossInv, RowInv, MessagesAreTrue
    <3>2. QED
      BY <1>1, <1>2, <3>1, HandBackKeeps
  <2>2. CASE Timer(id) /\ row[id] = "starting"
    BY <1>1, <1>2, <2>2, HandBackKeeps
  <2>3. CASE Timer(id) /\ row[id] # "starting"
    BY <1>1, <2>3, TimerFrame DEF Timer
  <2>4. QED
    BY <2>1, <2>2, <2>3
<1>3. CASE UNCHANGED <<row, browser>>
  BY <1>1, <1>3, TimerFrame
<1>4. QED
  BY <1>2, <1>3 DEF PostFails, Timer

LEMMA DeliverKeeps ==
  ASSUME TypeOK, LossInv, Deliver, NEW i \in Ids
  PROVE  RowInv(i)'
<1> DEFINE m == Head(mail)
<1>1. mail # <<>> /\ mail' = Tail(mail)
  BY DEF Deliver
<1>2. /\ m \in [id : Ids, kind : Kinds] /\ m = mail[1] /\ 1 \in 1 .. Len(mail)
  <2>1. mail \in Seq([id : Ids, kind : Kinds])
    BY DEF TypeOK
  <2>2. Len(mail) \in Nat \ {0} /\ m = mail[1]
    BY <1>1, <2>1
  <2>3. 1 \in 1 .. Len(mail)
    BY <2>2
  <2>4. Head(mail) \in [id : Ids, kind : Kinds]
    BY <1>1, <2>1, HeadTailProperties
  <2>5. QED
    BY <2>2, <2>3, <2>4
<1>3. /\ \A K : OnlyTold(i, K) => OnlyTold(i, K)'
      /\ LastIsBad(i) => LastIsBad(i)' \/ (m.id = i /\ OnlyTold(i, Bad))
  BY <1>1, MailShrinks
<1>4. row' = [row EXCEPT ![m.id] = IF @ = "none" THEN @ ELSE After(m.kind)]
  BY DEF Deliver
<1>5. UNCHANGED <<browser, timer, port, host, job, who, app, hurt>>
  BY DEF Deliver, hosts, history
<1>6. RowInv(i)
  BY DEF LossInv
<1>7. CASE m.id # i
  <2>1. row'[i] = row[i]
    BY <1>2, <1>4, <1>7 DEF TypeOK
  <2>2. QED
    BY <1>3, <1>5, <1>6, <1>7, <2>1, Frame DEF InFlight, Up
<1>8. CASE m.id = i
  <2>1. row'[i] = IF row[i] = "none" THEN "none" ELSE After(m.kind)
    BY <1>4, <1>8 DEF TypeOK
  <2>2. \A K : OnlyTold(i, K) => m.kind \in K
    BY <1>2, <1>8 DEF OnlyTold
  <2>3. m.kind \in Bad => After(m.kind) = "failed"
    BY DEF Bad, After
  <2>4. /\ After(m.kind) = "completed" => m.kind = "completed"
        /\ After(m.kind) = "none" => m.kind = "cancelled"
        /\ After(m.kind) # "detached"
    BY <1>2 DEF After, Kinds
  <2>5. MessagesAreTrue(i)'
    BY <1>3, <1>5, <1>6, <2>1, <2>2, <2>4 DEF RowInv, MessagesAreTrue
  <2>6. ASSUME Astray(i)' PROVE Followed(i)'
    <3>1. Followed(i) /\ MessagesAreTrue(i)
      BY <1>5, <1>6, <2>6 DEF RowInv, Astray
    <3>2. job[i] \in {"none", "posted"} => row'[i] = "failed" /\ OnlyTold(i, Bad)'
      BY <1>3, <2>1, <2>2, <2>3, <3>1 DEF Followed
    <3>3. row'[i] = "none" => job[i] = "cancelled"
      BY <2>1, <2>2, <2>4, <3>1 DEF Followed, MessagesAreTrue
    <3>4. ASSUME job[i] = "failed" PROVE EndsAsFailed(i)'
      <4>1. row[i] # "none" /\ EndsAsFailed(i)
        BY <3>1, <3>4 DEF Followed
      <4>2. CASE OnlyTold(i, Bad)
        BY <1>3, <2>1, <2>2, <2>3, <4>1, <4>2 DEF EndsAsFailed
      <4>3. CASE LastIsBad(i)
        BY <1>3, <4>2, <4>3 DEF EndsAsFailed
      <4>4. QED
        BY <4>1, <4>2, <4>3 DEF EndsAsFailed
    <3>5. QED
      BY <1>5, <3>1, <3>2, <3>3, <3>4 DEF Followed, Up
  <2>7. QED
    BY <2>5, <2>6 DEF RowInv
<1>9. QED
  BY <1>7, <1>8

LEMMA PingKeeps ==
  ASSUME TypeOK, LossInv, Ping, NEW i \in Ids
  PROVE  RowInv(i)'
<1>1. PICK h \in Hosts : PortTo(h)
  BY DEF Ping
<1>2. UNCHANGED <<browser, row, timer, job, who, app, mail, hurt>>
  BY DEF Ping, hosts, history
<1>3. RowInv(i)
  BY DEF LossInv
<1>4. Astray(i)' => Astray(i)
  BY <1>2 DEF Astray
<1>5. QED
  BY <1>1, <1>2, <1>3, <1>4, PortToFrame, MailStays, Frame

\* The port closes after the last message, or a post finds it dead, and with the
\* worker all of them go.
LEMMA PortEndsKeeps ==
  ASSUME TypeOK, LossInv, NEW i \in Ids,
         PortCloses \/ Evict \/ \E id \in Ids \ {i} : PostThrows(id)
  PROVE  RowInv(i)'
<1>1. /\ browser'[i] = browser[i] /\ UNCHANGED <<job, who, app>>
      /\ hurt' = hurt \cup UnderWay
      /\ mail' = <<>> /\ timer'[i] \in {timer[i], "none"}
  BY DEF PortCloses, Evict, PostThrows, hosts, TypeOK
<1>2. RowInv(i) /\ i \in Ids
  BY DEF LossInv
<1>3. (\A K : OnlyTold(i, K)') /\ ~LastIsBad(i)'
  BY <1>1 DEF OnlyTold, LastIsBad
<1>4. \/ row'[i] = row[i]
      \/ row[i] \in {"starting", "running"} /\ row'[i] = "detached" /\ i \in hurt'
  <2>1. ASSUME NEW id \in Ids \ {i}, PostThrows(id)
        PROVE  row' = Detach([row EXCEPT ![id] = "none"])
    BY <2>1 DEF PostThrows
  <2>2. QED
    BY <1>1, <2>1 DEF PortCloses, Evict, Detach, TypeOK, UnderWay
<1>5. MessagesAreTrue(i)'
  BY <1>1, <1>2, <1>3, <1>4 DEF RowInv, MessagesAreTrue
<1>6. ASSUME Astray(i)' PROVE Followed(i)'
  <2>1. /\ Followed(i) /\ i \notin hurt
        /\ job[i] \notin Working /\ row[i] \notin {"starting", "running"}
    BY <1>1, <1>2, <1>6 DEF RowInv, Astray, UnderWay
  <2>2. row'[i] = row[i] /\ row[i] # "detached"
    BY <1>2, <1>4, <2>1 DEF RowInv, MessagesAreTrue
  <2>3. job[i] = "failed" => row[i] = "failed"
    BY <1>2, <2>1, <2>2 DEF RowInv, MessagesAreTrue, Followed, TypeOK, RowStates
  <2>4. QED
    BY <1>1, <1>3, <2>1, <2>2, <2>3 DEF Followed, EndsAsFailed, Working
<1>7. QED
  BY <1>5, <1>6 DEF RowInv

\* The download whose post threw is the browser's again.
LEMMA ThrownIsBack ==
  ASSUME TypeOK, LossInv, NEW id \in Ids, PostThrows(id)
  PROVE  RowInv(id)'
<1>1. /\ browser'[id] = "again" /\ timer'[id] = "none" /\ row'[id] = "none"
      /\ job'[id] = "none" /\ mail' = <<>>
  BY DEF PostThrows, Detach, TypeOK, hosts, LossInv, RowInv, MessagesAreTrue
<1>2. \A K : OnlyTold(id, K)'
  BY <1>1 DEF OnlyTold
<1>3. QED
  BY <1>1, <1>2 DEF RowInv, MessagesAreTrue, Astray

LEMMA CancelKeeps ==
  ASSUME TypeOK, LossInv, NEW id \in Ids, Cancel(id), NEW i \in Ids
  PROVE  RowInv(i)'
<1>1. PICK h \in Hosts : PortTo(h)
  BY DEF Cancel
<1>2. UNCHANGED <<browser, row, timer, job, who, app, hurt>>
  BY DEF Cancel, extension
<1>3. mail' \in {mail, Append(mail, [id |-> id, kind |-> "error"])}
  BY DEF Cancel
<1>4. RowInv(i) /\ "error" \in Kinds /\ "error" \in Bad
  BY DEF LossInv, Kinds, Bad
<1>5. Astray(i)' => Astray(i)
  BY <1>2 DEF Astray
<1>6. CASE i # id
  <2>1. /\ \A K : OnlyTold(i, K) => OnlyTold(i, K)'
        /\ LastIsBad(i) => LastIsBad(i)'
    BY <1>3, <1>4, <1>6, MailOfOthers
  <2>2. QED
    BY <1>1, <1>2, <1>4, <1>5, <2>1, PortToFrame, Frame
<1>7. CASE i = id
  <2>1. /\ \A K : OnlyTold(i, K) /\ "error" \in K => OnlyTold(i, K)'
        /\ LastIsBad(i) => LastIsBad(i)'
    BY <1>3, <1>4, MailStays, MailGrows
  <2>2. browser[i] # "none" /\ row[i] # "none"
    BY <1>4, <1>7 DEF Cancel, RowInv, MessagesAreTrue
  <2>3. MessagesAreTrue(i)'
    BY <1>2, <1>4, <2>1, <2>2 DEF RowInv, MessagesAreTrue
  <2>4. ASSUME Astray(i)' PROVE Followed(i)'
    <3>1. Followed(i)
      BY <1>4, <1>5, <2>4 DEF RowInv
    <3>2. job[i] \in Working => port' = port /\ (InFlight(i) => InFlight(i)')
      BY <1>1, <1>2, <1>4, <1>5, <2>4, PortToFrame
    <3>3. job[i] \in Working \ {"posted"} => Up(who[i])'
      BY <3>1, <3>2, <1>2 DEF Followed, InFlight
    <3>4. job[i] = "failed" => EndsAsFailed(i)'
      BY <1>2, <1>4, <2>1, <3>1 DEF Followed, EndsAsFailed
    <3>5. QED
      BY <1>2, <1>4, <2>1, <3>1, <3>2, <3>3, <3>4 DEF Followed
  <2>5. QED
    BY <2>3, <2>4 DEF RowInv
<1>8. QED
  BY <1>6, <1>7

---------------------------------------------------------------------------
(* The hosts. *)

\* A job of a host that is up goes on, and what is said of it is so.
LEMMA JobKeeps ==
  ASSUME TypeOK, LossInv, NEW id \in Ids, InFlight(id),
         NEW s \in Jobs \ {"none", "posted"}, Becomes(id, s),
         NEW kind \in Kinds, Say(id, kind) \/ (s # "failed" /\ mail' = mail),
         kind = "cancelled" => s = "cancelled",
         kind = "completed" => s = "delivered",
         s = "failed" => kind \in Bad,
         s = "handed" => job[id] = "sent",
         app' = IF s = "sent" THEN [app EXCEPT ![id] = TRUE] ELSE app,
         UNCHANGED <<extension, port, host, who, hurt>>,
         NEW i \in Ids
  PROVE  RowInv(i)'
<1>1. mail' \in {mail, Append(mail, [id |-> id, kind |-> kind])}
  BY DEF Say
<1>2. RowInv(i) /\ RowInv(id)
  BY DEF LossInv
<1>3. UNCHANGED <<browser, row, timer, port, host, who, hurt>>
  BY DEF extension
<1>4. CASE i # id
  <2>1. job'[i] = job[i] /\ app'[i] = app[i]
    BY <1>4 DEF Becomes, TypeOK
  <2>2. /\ \A K : OnlyTold(i, K) => OnlyTold(i, K)'
        /\ LastIsBad(i) => LastIsBad(i)'
    BY <1>1, <1>4, MailOfOthers
  <2>3. InFlight(i) => InFlight(i)'
    BY <1>3, <2>1 DEF InFlight, Up
  <2>4. QED
    BY <1>2, <1>3, <2>1, <2>2, <2>3, Frame
<1>5. CASE i = id
  <2>1. job[id] \in Working /\ job'[id] = s /\ Up(who[id])'
    BY <1>3 DEF Becomes, TypeOK, InFlight, Up
  <2>2. browser[id] # "none" /\ timer[id] # "asking"
    BY <1>2, <2>1 DEF RowInv, MessagesAreTrue, Working, Claimed
  <2>3. \A K : OnlyTold(id, K) /\ kind \in K => OnlyTold(id, K)'
    BY <1>1, MailStays, MailGrows
  <2>4. /\ s # "cancelled" => OnlyTold(id, Kinds \ {"cancelled"})'
        /\ s # "delivered" => OnlyTold(id, Kinds \ {"completed"})' /\ row[id] # "completed"
    BY <1>2, <2>1, <2>3 DEF RowInv, MessagesAreTrue, Working, Claimed
  <2>5. MessagesAreTrue(id)'
    BY <1>2, <1>3, <2>1, <2>2, <2>4 DEF RowInv, MessagesAreTrue
  <2>6. ASSUME Astray(id)' PROVE Followed(id)'
    <3>1. Followed(id)
      BY <1>2, <1>3, <2>6 DEF RowInv, Astray
    <3>2. /\ who[id] \in Hosts /\ port = who[id] /\ row[id] # "none"
          /\ job[id] = "sent" => app[id]
      BY <2>1, <3>1 DEF Followed, Working, Claimed
    <3>3. s \in {"sent", "handed"} => app'[id]
      BY <3>2 DEF TypeOK
    <3>4. s = "failed" => EndsAsFailed(id)'
      BY <3>2, MailGrows DEF Say, EndsAsFailed
    <3>5. QED
      BY <1>3, <2>1, <3>2, <3>3, <3>4 DEF Followed, Working
  <2>7. QED
    BY <1>5, <2>5, <2>6 DEF RowInv
<1>6. QED
  BY <1>4, <1>5

LEMMA RelayKeeps ==
  ASSUME TypeOK, LossInv, NEW id \in Ids,
         RelayAdds(id) \/ RelayHeard(id) \/ RelayFails(id) \/ Refuse(id) \/ Taken(id),
         NEW i \in Ids
  PROVE  RowInv(i)'
<1> USE DEF Jobs, Working, Kinds, Bad
<1>1. CASE RelayAdds(id)
  <2>1. /\ InFlight(id) /\ Becomes(id, "sent") /\ mail' = mail
        /\ app' = [app EXCEPT ![id] = TRUE]
        /\ UNCHANGED <<extension, port, host, who, hurt>>
    BY <1>1 DEF RelayAdds, history
  <2>2. "sent" \in Jobs \ {"none", "posted"} /\ "accepted" \in Kinds
    OBVIOUS
  <2>3. QED
    BY <2>1, <2>2, JobKeeps
<1>2. CASE RelayHeard(id)
  BY <1>2, JobKeeps DEF RelayHeard, history
<1>3. CASE RelayFails(id)
  BY <1>3, JobKeeps DEF RelayFails, history
<1>4. CASE Refuse(id)
  BY <1>4, JobKeeps DEF Refuse, history
<1>5. CASE Taken(id)
  BY <1>5, JobKeeps DEF Taken, history
<1>6. QED
  BY <1>1, <1>2, <1>3, <1>4, <1>5

LEMMA LocalKeeps ==
  ASSUME TypeOK, LossInv, NEW id \in Ids,
         Claim(id) \/ Enlist(id) \/ Begin(id) \/ Delist(id) \/ Finish(id),
         NEW i \in Ids
  PROVE  RowInv(i)'
<1> USE DEF Jobs, Working, Claimed, Kinds, Bad
<1>1. CASE Claim(id)
  BY <1>1, JobKeeps DEF Claim, history
<1>2. ASSUME NEW s \in Jobs, NEW kind \in Kinds, Ends(id, s, kind),
             <<s, kind>> \in {<<"delivered", "completed">>, <<"failed", "failed">>,
                              <<"cancelled", "cancelled">>},
             InFlight(id), UNCHANGED <<extension, port, host, who, app, history>>
      PROVE  RowInv(i)'
  BY <1>2, JobKeeps DEF Ends, history
<1>3. CASE Begin(id)
  <2>1. CASE stop[id]
    BY <1>2, <1>3, <2>1 DEF Begin
  <2>2. CASE ~stop[id]
    BY <1>3, <2>2, JobKeeps DEF Begin, history
  <2>3. QED
    BY <2>1, <2>2
<1>4. CASE Finish(id)
  BY <1>2, <1>4 DEF Finish
<1>5. CASE Enlist(id)
  BY <1>5, JobKeeps DEF Enlist, history
<1>6. CASE Delist(id)
  BY <1>6, JobKeeps DEF Delist, history
<1>7. QED
  BY <1>1, <1>3, <1>4, <1>5, <1>6

\* A host does not exit under a download, and one that dies marks what was under
\* way.
LEMMA HostKeeps ==
  ASSUME TypeOK, LossInv, NEW h \in Hosts, HostExits(h) \/ HostDies(h), NEW i \in Ids
  PROVE  RowInv(i)'
<1>1. /\ UNCHANGED <<browser, row, timer, port, job, who, app, mail>>
      /\ hurt \subseteq hurt'
  BY DEF HostExits, HostDies, extension, hosts, history
<1>2. ASSUME Astray(i)', job[i] \in Working PROVE InFlight(i) => InFlight(i)'
  <2>1. CASE HostExits(h)
    BY <1>1, <2>1 DEF HostExits, InFlight, Up, TypeOK
  <2>2. CASE HostDies(h)
    BY <1>2, <2>2 DEF HostDies, Astray, UnderWay
  <2>3. QED
    BY <2>1, <2>2
<1>3. QED
  BY <1>1, <1>2, MailStays, Frame DEF LossInv

---------------------------------------------------------------------------

LEMMA LossHoldsAtInit == Init => LossInv
<1>1. SUFFICES ASSUME Init, NEW id \in Ids PROVE RowInv(id)
  BY DEF LossInv
<1>2. \A K : OnlyTold(id, K)
  BY <1>1, NoMail DEF Init
<1>3. QED
  BY <1>1, <1>2 DEF Init, RowInv, MessagesAreTrue, Astray

LEMMA LossIsKept == TypeOK /\ LossInv /\ [Next]_vars => LossInv'
<1>1. SUFFICES ASSUME TypeOK, LossInv, [Next]_vars, NEW i \in Ids PROVE RowInv(i)'
  BY DEF LossInv
<1>2. CASE UNCHANGED vars
  BY <1>1, <1>2, MailStays, Frame
     DEF LossInv, vars, extension, hosts, history, InFlight, Up
<1>3. ASSUME NEW id \in Ids, Step(id) PROVE RowInv(i)'
  <2>1. CASE PostThrows(id)
    BY <1>1, <2>1, PortEndsKeeps, ThrownIsBack
  <2>2. CASE ~PostThrows(id)
    BY <1>1, <1>3, <2>2, TakeOverKeeps, PostKeeps, TimerKeeps, CancelKeeps, RelayKeeps,
       LocalKeeps
       DEF Step
  <2>3. QED
    BY <2>1, <2>2
<1>4. ASSUME NEW h \in Hosts, HostExits(h) \/ HostDies(h) PROVE RowInv(i)'
  BY <1>1, <1>4, HostKeeps
<1>5. QED
  BY <1>1, <1>2, <1>3, <1>4, DeliverKeeps, PingKeeps, PortEndsKeeps DEF Next

LEMMA LossInvHolds == Spec => []LossInv
<1>1. Spec => []TypeOK
  BY TypesHold
<1>2. QED
  BY <1>1, LossHoldsAtInit, LossIsKept, PTL DEF Spec

LEMMA FollowedIsCared ==
  ASSUME TypeOK, LossInv, StartingIsWatched PROVE LossNeedsTrouble
<1>1. SUFFICES ASSUME NEW id \in Ids, browser[id] = "cancelled", id \notin hurt
               PROVE  Cared(id)
  BY DEF LossNeedsTrouble, Cared
<1>2. Followed(id)
  BY <1>1 DEF LossInv, RowInv, Astray
<1>3. CASE job[id] \in {"none", "posted"}
  BY <1>1, <1>2, <1>3 DEF Followed, Cared, StartingIsWatched, TypeOK
<1>4. CASE job[id] \in Working \ {"posted"}
  BY <1>2, <1>4 DEF Followed, Cared, InFlight
<1>5. CASE job[id] = "failed"
  BY <1>2, <1>5 DEF Followed, EndsAsFailed, LastIsBad, Cared
<1>6. CASE job[id] \in {"handed", "delivered", "cancelled"}
  BY <1>2, <1>6 DEF Followed, Cared
<1>7. QED
  BY <1>3, <1>4, <1>5, <1>6 DEF TypeOK, Jobs, Working

\* Nothing is lost that no death and no eviction has met (extension/background.js,
\* crates/fdm-host/src/main.rs): the extension, a host that it hears, the app, the
\* browser or a row that failed has every download, whatever the relay, the timer,
\* the claim and the user do.
THEOREM NothingIsLostQuietly == Spec => []LossNeedsTrouble
<1>1. Spec => []TypeOK
  BY TypesHold
<1>2. Spec => []StartingIsWatched
  BY StartingIsWatchedHolds
<1>3. QED
  BY <1>1, <1>2, LossInvHolds, FollowedIsCared, PTL
=============================================================================
