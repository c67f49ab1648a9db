------------------------------- MODULE Takeover -------------------------------
(***************************************************************************)
(* How a download leaves the browser: the extension cancels it there and   *)
(* posts it to a native messaging host (extension/background.js), the host *)
(* hands it to the desktop app or downloads it itself                      *)
(* (crates/fdm-host/src/main.rs), one claim per URL keeping two hosts off  *)
(* one file (lock.rs).                                                     *)
(*                                                                         *)
(* A host that is not installed is one that dies before it does anything:  *)
(* the browser opens a port all the same.                                  *)
(***************************************************************************)
EXTENDS Naturals, FiniteSets, Sequences

CONSTANTS
  Ids,          \* downloads the extension takes over
  Urls,         \* what they fetch
  Hosts,        \* host processes, a bound on how many are started
  Slots,        \* downloads a host runs at once (MAX_CONCURRENT_DOWNLOADS)
  MaxCancels,   \* bound on the rows the user tries to cancel
  Evictable,    \* whether the browser evicts the extension's worker
  MaxTrouble    \* bound on the evictions and the hosts that die, together

NoHost == "no host"
Free == "free"

ASSUME TakeoverAssumption ==
  /\ NoHost \notin Hosts
  /\ Free \notin Ids
  /\ Slots \in Nat \ {0}
  /\ MaxCancels \in Nat
  /\ Evictable \in BOOLEAN
  /\ MaxTrouble \in Nat

\* "none" stands for a row that is not in the popup's list, any more or yet.
RowStates == {"none", "starting", "running", "detached", "completed", "failed"}

\* Where the command is in its host: read, added to the app whose reply is
\* awaited, left to the host, claimed, waiting for a slot, running, out of the
\* engine, and the ends of it.
Claimed == {"claimed", "queued", "downloading", "returning"}
Working == {"posted", "sent", "local"} \cup Claimed
Jobs == {"none", "handed", "delivered", "failed", "cancelled"} \cup Working

Kinds == {"accepted", "completed", "failed", "cancelled", "error", "mismatch"}

VARIABLES
  browser, \* a download in the browser: "none", "cancelled", "again"
  row,     \* its row in the extension
  timer,   \* the worker collects its headers, or counts ten seconds
  reach,   \* hostState: what the extension thinks of the host
  port,    \* the host the extension's port leads to
  host,    \* the processes
  url,     \* what each download fetches
  job,     \* what its host does about it
  who,     \* that host
  stop,    \* its token is cancelled
  app,     \* the desktop app has it
  lock,    \* who holds the claim on a URL
  mail,    \* messages on their way to the extension
  asked,   \* history: downloads the user has tried to cancel
  hurt,    \* history: downloads that were under way at a death or an eviction
  trouble  \* evictions and deaths so far

extension == <<browser, row, timer, reach>>
hosts == <<url, job, who, stop, app, lock>>
history == <<asked, hurt, trouble>>
vars == <<extension, port, host, hosts, mail, history>>

Init ==
  /\ browser = [id \in Ids |-> "none"] /\ row = [id \in Ids |-> "none"]
  /\ timer = [id \in Ids |-> "none"] /\ reach = "unknown"
  /\ port = NoHost /\ host = [h \in Hosts |-> "unused"]
  /\ url \in [Ids -> Urls]
  /\ job = [id \in Ids |-> "none"] /\ who = [id \in Ids |-> NoHost]
  /\ stop = [id \in Ids |-> FALSE] /\ app = [id \in Ids |-> FALSE]
  /\ lock = [u \in Urls |-> Free]
  /\ mail = <<>>
  /\ asked = {} /\ hurt = {} /\ trouble = 0

Up(h) == h \in Hosts /\ host[h] = "up"
InFlight(id) == job[id] \in Working /\ Up(who[id])
UnderWay == {id \in Ids : job[id] \in Working \/ row[id] \in {"starting", "running"}}

---------------------------------------------------------------------------
(* The extension. *)

\* The port leads to h: it did already, or a process is started for it.
PortTo(h) ==
  \/ port = h /\ UNCHANGED <<port, host>>
  \/ /\ port = NoHost /\ host[h] = "unused"
     /\ port' = h
     /\ host' = [host EXCEPT ![h] = "up"]

\* The browser's download is cancelled first, unless the host is known to be
\* missing or of another version; its headers are collected next.
TakeOver(id) ==
  /\ browser[id] = "none"
  /\ reach \notin {"missing", "mismatch"}
  /\ browser' = [browser EXCEPT ![id] = "cancelled"]
  /\ row' = [row EXCEPT ![id] = "starting"]
  /\ timer' = [timer EXCEPT ![id] = "asking"]
  /\ UNCHANGED <<reach, port, host, hosts, mail, history>>

Post(id) ==
  /\ timer[id] = "asking"
  /\ \E h \in Hosts :
       /\ PortTo(h)
       /\ job' = [job EXCEPT ![id] = "posted"]
       /\ who' = [who EXCEPT ![id] = h]
  /\ timer' = [timer EXCEPT ![id] = "counting"]
  /\ UNCHANGED <<browser, row, reach, url, stop, app, lock, mail, history>>

\* The row goes and the browser gets the download back.
HandBack(id) ==
  /\ row' = [row EXCEPT ![id] = "none"]
  /\ browser' = [browser EXCEPT ![id] = "again"]

\* Mutant: the row is taken away and nothing else.
PostFailsQuietly(id) ==
  /\ timer[id] = "asking" /\ port = NoHost
  /\ row' = [row EXCEPT ![id] = "none"]
  /\ timer' = [timer EXCEPT ![id] = "none"]
  /\ reach' = "missing"
  /\ UNCHANGED <<browser, port, host, hosts, mail, history>>

\* No port could be opened.
PostFails(id) ==
  /\ timer[id] = "asking" /\ port = NoHost
  /\ HandBack(id)
  /\ timer' = [timer EXCEPT ![id] = "none"]
  /\ reach' = "missing"
  /\ UNCHANGED <<port, host, hosts, mail, history>>

\* The port's host is gone: what was running or starting has nobody to report it.
Detach(rows) ==
  [id \in Ids |-> IF rows[id] \in {"starting", "running"} THEN "detached" ELSE rows[id]]

\* The port is dead and has not said so: the post throws, and the port's end is
\* noticed with it.
PostThrows(id) ==
  /\ timer[id] = "asking"
  /\ port # NoHost /\ ~Up(port) /\ mail = <<>>
  /\ port' = NoHost
  /\ browser' = [browser EXCEPT ![id] = "again"]
  /\ row' = Detach([row EXCEPT ![id] = "none"])
  /\ timer' = [timer EXCEPT ![id] = "none"]
  /\ reach' = "missing"
  /\ hurt' = hurt \cup UnderWay
  /\ UNCHANGED <<host, hosts, mail, asked, trouble>>

\* Mutant: a row that was never accepted is only looked for among the running.
TimerLate(id) ==
  /\ timer[id] = "counting"
  /\ timer' = [timer EXCEPT ![id] = "none"]
  /\ IF row[id] = "running" THEN HandBack(id) ELSE UNCHANGED <<row, browser>>
  /\ UNCHANGED <<reach, port, host, hosts, mail, history>>

\* Ten seconds have gone by: a row that is still starting is given up.
Timer(id) ==
  /\ timer[id] = "counting"
  /\ timer' = [timer EXCEPT ![id] = "none"]
  /\ IF row[id] = "starting" THEN HandBack(id) ELSE UNCHANGED <<row, browser>>
  /\ UNCHANGED <<reach, port, host, hosts, mail, history>>

\* Mutant: the row's state is the name of the message.
AfterAsSent(kind) == kind

\* A message does to a row in the list what it says, whatever the row's state.
After(kind) ==
  [accepted |-> "running", completed |-> "completed", failed |-> "failed",
   cancelled |-> "none", error |-> "failed", mismatch |-> "failed"][kind]

Deliver ==
  /\ mail # <<>>
  /\ LET m == Head(mail)
     IN  /\ row' = [row EXCEPT ![m.id] = IF @ = "none" THEN @ ELSE After(m.kind)]
         /\ reach' = CASE m.kind = "accepted" -> "ok"
                       [] m.kind = "mismatch" -> "mismatch"
                       [] OTHER -> reach
  /\ mail' = Tail(mail)
  /\ UNCHANGED <<browser, timer, port, host, hosts, history>>

\* The host is asked who it is: it answers, in this version or another one, or
\* does not in four seconds.
Ping ==
  /\ \E h \in Hosts :
       /\ PortTo(h)
       /\ reach' = "missing" \/ (host'[h] = "up" /\ reach' \in {"ok", "mismatch"})
  /\ UNCHANGED <<browser, row, timer, hosts, mail, history>>

\* The port of a host that is gone closes after the last of its messages.
PortCloses ==
  /\ port # NoHost /\ ~Up(port) /\ mail = <<>>
  /\ port' = NoHost
  /\ reach' = "missing"
  /\ row' = Detach(row)
  /\ hurt' = hurt \cup UnderWay
  /\ UNCHANGED <<browser, timer, host, hosts, mail, asked, trouble>>

\* The worker goes and comes back: its rows were saved, its timers, its port and
\* what it thought of the host are gone.
Evict ==
  /\ Evictable
  /\ trouble < MaxTrouble /\ trouble' = trouble + 1
  /\ port' = NoHost
  /\ mail' = <<>>
  /\ timer' = [id \in Ids |-> "none"]
  /\ reach' = "unknown"
  /\ hurt' = hurt \cup UnderWay
  /\ UNCHANGED <<browser, row, host, hosts, asked>>

---------------------------------------------------------------------------
(* The host. *)

\* What is said after the port has closed is lost.
Say(id, kind) ==
  mail' = IF port = who[id] THEN Append(mail, [id |-> id, kind |-> kind]) ELSE mail

Becomes(id, state) == job' = [job EXCEPT ![id] = state]

\* The user cancels: the host that is asked knows the downloads in its `running`,
\* and answers an error to any other id.
Cancel(id) ==
  /\ row[id] \in {"starting", "running", "detached"}
  /\ id \notin asked /\ Cardinality(asked) < MaxCancels
  /\ asked' = asked \cup {id}
  /\ \E h \in Hosts :
       /\ PortTo(h)
       /\ IF who[id] = h /\ job[id] \in {"queued", "downloading"}
          THEN stop' = [stop EXCEPT ![id] = TRUE] /\ UNCHANGED mail
          ELSE /\ mail' = IF host'[h] = "up"
                           THEN Append(mail, [id |-> id, kind |-> "error"]) ELSE mail
               /\ UNCHANGED stop
  /\ UNCHANGED <<extension, url, job, who, app, lock, hurt, trouble>>

\* The app takes the download; its reply is still to come.
RelayAdds(id) ==
  /\ InFlight(id) /\ job[id] = "posted"
  /\ Becomes(id, "sent")
  /\ app' = [app EXCEPT ![id] = TRUE]
  /\ UNCHANGED <<extension, port, host, url, who, stop, lock, mail, history>>

\* The reply arrives.
RelayHeard(id) ==
  /\ InFlight(id) /\ job[id] = "sent"
  /\ Becomes(id, "handed")
  /\ Say(id, "accepted")
  /\ UNCHANGED <<extension, port, host, url, who, stop, app, lock, history>>

\* The app is not running, will not start or refuses; or its reply is lost on the
\* way, though it has the download.
RelayFails(id) ==
  /\ InFlight(id) /\ job[id] \in {"posted", "sent"}
  /\ Becomes(id, "local")
  /\ UNCHANGED <<extension, port, host, url, who, stop, app, lock, mail, history>>

\* Another version, a URL that is not one, or no engine.
Refuse(id) ==
  /\ InFlight(id)
  /\ \/ job[id] = "posted" /\ Say(id, "mismatch")
     \/ job[id] = "local" /\ Say(id, "failed")
  /\ Becomes(id, "failed")
  /\ UNCHANGED <<extension, port, host, url, who, stop, app, lock, history>>

\* Mutant: the claim is let go at once.
ClaimLoosely(id) ==
  /\ InFlight(id) /\ job[id] = "local" /\ lock[url[id]] = Free
  /\ Becomes(id, "claimed")
  /\ Say(id, "accepted")
  /\ UNCHANGED <<extension, port, host, url, who, stop, app, lock, history>>

\* The claim on the URL, and the download is accepted.
Claim(id) ==
  /\ InFlight(id) /\ job[id] = "local" /\ lock[url[id]] = Free
  /\ lock' = [lock EXCEPT ![url[id]] = id]
  /\ Becomes(id, "claimed")
  /\ Say(id, "accepted")
  /\ UNCHANGED <<extension, port, host, url, who, stop, app, history>>

\* It is in `running`, so that it can be cancelled, and waits for a slot.
Enlist(id) ==
  /\ InFlight(id) /\ job[id] = "claimed"
  /\ Becomes(id, "queued")
  /\ UNCHANGED <<extension, port, host, url, who, stop, app, lock, mail, history>>

\* Another download of the URL is running, in any host.
Taken(id) ==
  /\ InFlight(id) /\ job[id] = "local" /\ lock[url[id]] # Free
  /\ Becomes(id, "failed")
  /\ Say(id, "failed")
  /\ UNCHANGED <<extension, port, host, url, who, stop, app, lock, history>>

\* The job is over, and with it its claim.
Ends(id, state, kind) ==
  /\ Becomes(id, state)
  /\ Say(id, kind)
  /\ lock' = [lock EXCEPT ![url[id]] = Free]

\* The slot is held until the outcome has been said.
Running(h) == {id \in Ids : who[id] = h /\ job[id] \in {"downloading", "returning"}}

\* A slot is free; a download that was cancelled while it waited ends here.
Begin(id) ==
  /\ InFlight(id) /\ job[id] = "queued"
  /\ Cardinality(Running(who[id])) < Slots
  /\ IF stop[id] THEN Ends(id, "cancelled", "cancelled")
                 ELSE Becomes(id, "downloading") /\ UNCHANGED <<lock, mail>>
  /\ UNCHANGED <<extension, port, host, url, who, stop, app, history>>

\* The engine returns and the download leaves `running`.
Delist(id) ==
  /\ InFlight(id) /\ job[id] = "downloading"
  /\ Becomes(id, "returning")
  /\ UNCHANGED <<extension, port, host, url, who, stop, app, lock, mail, history>>

\* The outcome is said.
Finish(id) ==
  /\ InFlight(id) /\ job[id] = "returning"
  /\ \/ Ends(id, "delivered", "completed")
     \/ Ends(id, "failed", "failed")
     \/ stop[id] /\ Ends(id, "cancelled", "cancelled")
  /\ UNCHANGED <<extension, port, host, url, who, stop, app, history>>

\* A host whose port has closed exits when it has nothing left to finish.
HostExits(h) ==
  /\ Up(h) /\ port # h
  /\ \A id \in Ids : who[id] = h => ~InFlight(id)
  /\ host' = [host EXCEPT ![h] = "gone"]
  /\ UNCHANGED <<extension, port, hosts, mail, history>>

\* A host is killed, or there was none: its claims go with it.
HostDies(h) ==
  /\ Up(h) /\ trouble < MaxTrouble /\ trouble' = trouble + 1
  /\ host' = [host EXCEPT ![h] = "gone"]
  /\ lock' = [u \in Urls |->
                IF \E id \in Ids : lock[u] = id /\ who[id] = h THEN Free ELSE lock[u]]
  /\ hurt' = hurt \cup UnderWay
  /\ UNCHANGED <<extension, port, url, job, who, stop, app, mail, asked>>

Step(id) ==
  \/ TakeOver(id) \/ Post(id) \/ PostFails(id) \/ PostThrows(id) \/ Timer(id)
  \/ Cancel(id)
  \/ RelayAdds(id) \/ RelayHeard(id) \/ RelayFails(id) \/ Refuse(id)
  \/ Claim(id) \/ Enlist(id) \/ Taken(id) \/ Begin(id) \/ Delist(id) \/ Finish(id)

Next ==
  \/ Deliver \/ Ping \/ PortCloses \/ Evict
  \/ \E id \in Ids : Step(id)
  \/ \E h \in Hosts : HostExits(h) \/ HostDies(h)

Spec == Init /\ [][Next]_vars

---------------------------------------------------------------------------
(* Properties. *)

TypeOK ==
  /\ browser \in [Ids -> {"none", "cancelled", "again"}]
  /\ row \in [Ids -> RowStates]
  /\ timer \in [Ids -> {"none", "asking", "counting"}]
  /\ reach \in {"unknown", "ok", "missing", "mismatch"}
  /\ port \in Hosts \cup {NoHost}
  /\ host \in [Hosts -> {"unused", "up", "gone"}]
  /\ url \in [Ids -> Urls]
  /\ job \in [Ids -> Jobs]
  /\ who \in [Ids -> Hosts \cup {NoHost}]
  /\ stop \in [Ids -> BOOLEAN] /\ app \in [Ids -> BOOLEAN]
  /\ lock \in [Urls -> Ids \cup {Free}]
  /\ mail \in Seq([id : Ids, kind : Kinds])
  /\ asked \subseteq Ids /\ hurt \subseteq Ids
  /\ trouble \in 0 .. MaxTrouble

\* "So two host processes cannot write the same partial file": whatever is
\* evicted, killed and clicked twice, one download of a URL runs at a time.
OneWriter ==
  \A i, j \in Ids :
    /\ InFlight(i) /\ job[i] = "downloading"
    /\ InFlight(j) /\ job[j] = "downloading"
    /\ url[i] = url[j]
    => i = j

\* Somebody has the download, is about to get it, or has been told it failed.
Cared(id) ==
  \/ browser[id] # "cancelled"
  \/ timer[id] = "asking" \/ (timer[id] = "counting" /\ row[id] = "starting")
  \/ InFlight(id) \/ app[id] \/ job[id] \in {"delivered", "cancelled"}
  \/ \E i \in 1 .. Len(mail) : mail[i].id = id
  \/ row[id] = "failed"

\* "NEVER LOSE A DOWNLOAD": what was cancelled in the browser is downloaded, or
\* handed back, or shown as failed.
NothingIsLost == \A id \in Ids : Cared(id)

\* As long as no host dies and no worker is evicted under a download, nothing is
\* lost: not by a message that goes nowhere, a relay that fails half way, a
\* timer that races the answer, a claim that is taken or a cancelled row.
LossNeedsTrouble == \A id \in Ids : Cared(id) \/ id \in hurt

\* A row at "starting" has its headers collected or its ten seconds counted, so
\* it does not stay there for ever, even when the host hangs.
StartingIsWatched ==
  \A id \in Ids : row[id] = "starting" => timer[id] # "none" \/ id \in hurt
=============================================================================
