---------------------------- MODULE Availability ----------------------------
(***************************************************************************)
(* The retained availability of a node: internal/mqttclient/manager.go     *)
(* together with the life of the processes in internal/app.                *)
(*                                                                         *)
(* Manager.Run dials, calls onMQTTConnect, waits for the client to die or  *)
(* its context to end, and dials again.  onMQTTConnect publishes "online"; *)
(* on the way out the command publishes "offline", then cancels the        *)
(* manager, which ends the session with a DISCONNECT.  A session that ends *)
(* otherwise leaves "offline", its will.  The two publications come from   *)
(* different goroutines and meet only on the wire.                         *)
(*                                                                         *)
(* The agent is not alone: once and doctor are run beside it with the same *)
(* configuration, hence with the same client identifier, and the broker    *)
(* keeps one session for it: each connection ends the one before.          *)
(***************************************************************************)
EXTENDS Integers, Sequences

CONSTANTS
    Places,     \* where a process of the node may run: under launchd, in a shell
    Nobody,     \* no place
    Commands,   \* which of "run", "once" and "doctor" each place may run
    MaxRuns,    \* bound of the exploration: processes ever started
    MaxBreaks   \* bound of the exploration: connections that break

ASSUME PlacesAssumption == Nobody \notin Places
ASSUME CommandsAssumption == Commands \in [Places -> SUBSET {"run", "once", "doctor"}]
ASSUME BoundsAssumption == {MaxRuns, MaxBreaks} \subseteq Nat

VARIABLES
    cmd,        \* the command of each process
    app,        \* "running", "leaving", "published", "cancelled", "exited"
    manager,    \* Manager.Run: "top", "dialing", "callback", "await", "sleep", "stopped"
    client,     \* is Manager.client not nil?
    up,         \* client.IsConnected()
    live,       \* whose session the broker has for our client identifier, or Nobody
    broken,     \* the connection of that session no longer carries anything
    wire,       \* what its client has written and the broker has not read
    avail,      \* the retained availability: "none", "online" or "offline"
    smooth,     \* history: who was connected and announced when told to stop, with
                \* the connection unbroken since, or Nobody
    killed,     \* history: the owner of the last connection was killed at work
    waiter,     \* Manager.WaitConnected: "check", "read", "select", "done", "failed"
    signalled,  \* is the channel that it holds closed?
    runs, breaks

process == <<cmd, app, runs>>
session == <<client, up>>
waiting == <<waiter, signalled>>
broker == <<live, broken, wire>>
history == <<smooth, killed>>
vars == <<process, waiting, manager, session, broker, avail, history, breaks>>

Cancelled(p) == app[p] \in {"cancelled", "exited"}

\* The connection of p is the one the broker serves, and it works.
Open(p) == live = p /\ ~broken

Goto(p, where) == manager' = [manager EXCEPT ![p] = where]

-----------------------------------------------------------------------------
(* The broker.                                                             *)

\* Variant of Will: CONNECT carries none.
LeaveAsIs == avail

\* The will that encodeConnect registers.
Will == "offline"

\* Write a packet; a connection that is broken or taken over swallows it.
Send(p, packet) == wire' = IF Open(p) THEN Append(wire, packet) ELSE wire

BrokerReads ==
    /\ wire # <<>>
    /\ IF Head(wire) = "DISCONNECT"
       THEN live' = Nobody /\ wire' = <<>> /\ broken' = TRUE /\ UNCHANGED avail
       ELSE wire' = Tail(wire) /\ avail' = Head(wire) /\ UNCHANGED <<live, broken>>
    /\ UNCHANGED <<process, waiting, manager, session, history, breaks>>

\* The broker finds the connection gone and publishes the will.
BrokerNotices ==
    /\ live # Nobody /\ broken
    /\ live' = Nobody /\ wire' = <<>> /\ avail' = Will
    /\ UNCHANGED <<process, waiting, manager, session, broken, history, breaks>>

\* The network or the broker breaks the connection.
Break ==
    /\ live # Nobody /\ ~broken /\ breaks < MaxBreaks
    /\ broken' = TRUE /\ breaks' = breaks + 1 /\ smooth' = Nobody
    /\ UNCHANGED <<process, waiting, manager, session, live, wire, avail, killed>>

\* readLoop, or the write of a PINGREQ, finds the connection gone: fail.
ClientNotices(p) ==
    /\ up[p] /\ ~Open(p)
    /\ up' = [up EXCEPT ![p] = FALSE]
    /\ UNCHANGED <<process, waiting, manager, client, broker, avail, history, breaks>>

-----------------------------------------------------------------------------
(* Manager.Run.                                                            *)

ManagerTop(p) ==
    /\ manager[p] = "top"
    /\ Goto(p, IF Cancelled(p) THEN "stopped" ELSE "dialing")
    /\ UNCHANGED <<process, waiting, session, broker, avail, history, breaks>>

\* The broker accepts CONNECT.  A session still live for the identifier is
\* taken over, and its will published.
Accept(p) ==
    /\ live' = p /\ wire' = <<>>
    /\ avail' = IF live # Nobody THEN Will ELSE avail
    /\ smooth' = Nobody /\ killed' = FALSE

\* Dial returns a client; setClient stores it, closes the channel of those who
\* wait and makes a new one.  Neither the TLS handshake nor the exchange of
\* CONNECT and CONNACK looks at the context.
DialSucceeds(p) ==
    /\ manager[p] = "dialing"
    /\ Accept(p) /\ broken' = FALSE
    /\ client' = [client EXCEPT ![p] = TRUE] /\ up' = [up EXCEPT ![p] = TRUE]
    /\ signalled' = [signalled EXCEPT ![p] = waiter[p] = "select"]
    /\ Goto(p, "callback")
    /\ UNCHANGED <<process, waiter, breaks>>

\* Dial fails, perhaps after the broker has accepted the CONNECT.
DialFails(p) ==
    /\ manager[p] = "dialing"
    /\ \/ UNCHANGED <<broker, avail, history, breaks>>
       \/ /\ breaks < MaxBreaks /\ breaks' = breaks + 1
          /\ Accept(p) /\ broken' = TRUE
    /\ Goto(p, "sleep")
    /\ UNCHANGED <<process, waiting, session>>

\* onMQTTConnect: Publish writes "online" before it looks at its context, and
\* an error is only logged.
Callback(p) ==
    /\ manager[p] = "callback"
    /\ IF up[p] THEN Send(p, "online") ELSE UNCHANGED wire
    /\ Goto(p, "await")
    /\ UNCHANGED <<process, waiting, session, live, broken, avail, history, breaks>>

\* Variants of ClientDied: the dead client is still the manager's; the manager
\* does not dial again.
ClientDiedKept(p) ==
    /\ manager[p] = "await" /\ ~up[p]
    /\ Goto(p, "sleep")
    /\ UNCHANGED <<process, waiting, session, broker, avail, history, breaks>>
ClientDiedForGood(p) ==
    /\ manager[p] = "await" /\ ~up[p]
    /\ client' = [client EXCEPT ![p] = FALSE]
    /\ Goto(p, "stopped")
    /\ UNCHANGED <<process, waiting, up, broker, avail, history, breaks>>

\* client.Done() is closed: clearClient, then the backoff.
ClientDied(p) ==
    /\ manager[p] = "await" /\ ~up[p]
    /\ client' = [client EXCEPT ![p] = FALSE]
    /\ Goto(p, "sleep")
    /\ UNCHANGED <<process, waiting, up, broker, avail, history, breaks>>

\* The context is done: Disconnect writes DISCONNECT and closes.
ManagerStops(p) ==
    /\ manager[p] = "await" /\ Cancelled(p)
    /\ IF up[p] THEN Send(p, "DISCONNECT") ELSE UNCHANGED wire
    /\ client' = [client EXCEPT ![p] = FALSE] /\ up' = [up EXCEPT ![p] = FALSE]
    /\ Goto(p, "stopped")
    /\ UNCHANGED <<process, waiting, live, broken, avail, history, breaks>>

SleepEnds(p) ==
    /\ manager[p] = "sleep"
    /\ Goto(p, IF Cancelled(p) THEN "stopped" ELSE "top")
    /\ UNCHANGED <<process, waiting, session, broker, avail, history, breaks>>

-----------------------------------------------------------------------------
(* Manager.WaitConnected, which once and doctor call.                      *)

Waiting(p) == waiter[p] \in {"check", "read", "select"}

Waits(p, from, to, closed) ==
    /\ app[p] = "running" /\ waiter[p] = from
    /\ waiter' = [waiter EXCEPT ![p] = to]
    /\ signalled' = [signalled EXCEPT ![p] = closed]
    /\ UNCHANGED <<process, manager, session, broker, avail, history, breaks>>

\* IsConnected
WaitChecks(p) == Waits(p, "check", IF up[p] THEN "done" ELSE "read", FALSE)

\* The channel is read after IsConnected, under a lock of its own.
WaitReads(p) == Waits(p, "read", "select", FALSE)

\* Variant of WaitWakes: without the poll.
WaitWakesBySignal(p) == signalled[p] /\ Waits(p, "select", "check", FALSE)

\* The channel is closed, or 100 ms have passed.
WaitWakes(p) == Waits(p, "select", "check", FALSE)

\* The context has ended.
WaitFails(p) == Waits(p, "select", "failed", FALSE)

-----------------------------------------------------------------------------
(* The commands.                                                           *)

\* run: a signal.  once: WaitConnected has returned and the work is over.
\* doctor: WaitConnected has returned, with an error or not.
Leave(p) ==
    /\ app[p] = "running"
    /\ cmd[p] = "once" => waiter[p] = "done"
    /\ cmd[p] = "doctor" => ~Waiting(p)
    /\ app' = [app EXCEPT ![p] = IF cmd[p] = "doctor" THEN "published" ELSE "leaving"]
    /\ smooth' = IF up[p] /\ manager[p] = "await" /\ Open(p) THEN p ELSE smooth
    /\ UNCHANGED <<cmd, runs, waiting, manager, session, broker, avail, killed, breaks>>

\* Variant of PublishOffline: nothing is published.
PublishOfflineSkipped(p) ==
    /\ app[p] = "leaving" /\ app' = [app EXCEPT ![p] = "published"]
    /\ UNCHANGED <<cmd, runs, waiting, manager, session, broker, avail, history, breaks>>

\* Publish of "offline", its error ignored, for at most three seconds.
PublishOffline(p) ==
    /\ app[p] = "leaving" /\ app' = [app EXCEPT ![p] = "published"]
    /\ IF up[p] THEN Send(p, "offline") ELSE UNCHANGED wire
    /\ UNCHANGED <<cmd, runs, waiting, manager, session, live, broken, avail, history,
                   breaks>>

\* mqttCancel: also where once returns because WaitConnected, a drain or
\* Stats failed.
Cancel(p) ==
    /\ app[p] = "published" \/ (app[p] = "running" /\ cmd[p] = "once" /\ ~Waiting(p))
    /\ app' = [app EXCEPT ![p] = "cancelled"]
    /\ UNCHANGED <<cmd, runs, waiting, manager, session, broker, avail, history, breaks>>

\* The process ends; the kernel closes a connection that is still open.
Ends(p) ==
    /\ app' = [app EXCEPT ![p] = "exited"] /\ Goto(p, "stopped")
    /\ client' = [client EXCEPT ![p] = FALSE] /\ up' = [up EXCEPT ![p] = FALSE]
    /\ broken' = (broken \/ (live = p /\ up[p]))
    /\ waiter' = [waiter EXCEPT ![p] = "done"]
    /\ signalled' = [signalled EXCEPT ![p] = FALSE]

\* run waits for the manager; the other commands do not.
Exit(p) ==
    /\ app[p] = "cancelled" /\ (cmd[p] = "run" => manager[p] = "stopped")
    /\ Ends(p)
    /\ UNCHANGED <<cmd, runs, live, wire, avail, history, breaks>>

Kill(p) ==
    /\ app[p] # "exited"
    /\ Ends(p)
    /\ killed' = (killed \/ (app[p] = "running" /\ up[p] /\ live = p))
    /\ smooth' = IF smooth = p THEN Nobody ELSE smooth
    /\ UNCHANGED <<cmd, runs, live, wire, avail, breaks>>

\* run waits for no connection.
Awaits(c) == IF c = "run" THEN "done" ELSE "check"

Start(p, c) ==
    /\ app[p] = "exited" /\ runs < MaxRuns
    /\ cmd' = [cmd EXCEPT ![p] = c] /\ app' = [app EXCEPT ![p] = "running"]
    /\ runs' = runs + 1
    /\ Goto(p, "top")
    /\ waiter' = [waiter EXCEPT ![p] = Awaits(c)]
    /\ smooth' = IF smooth = p THEN Nobody ELSE smooth
    /\ UNCHANGED <<signalled, session, broker, avail, killed, breaks>>

-----------------------------------------------------------------------------
Init ==
    /\ cmd = [p \in Places |-> "none"] /\ app = [p \in Places |-> "exited"] /\ runs = 0
    /\ waiter = [p \in Places |-> "done"] /\ signalled = [p \in Places |-> FALSE]
    /\ manager = [p \in Places |-> "stopped"]
    /\ client = [p \in Places |-> FALSE] /\ up = [p \in Places |-> FALSE]
    /\ live = Nobody /\ broken = TRUE /\ wire = <<>>
    /\ avail = "none"
    /\ smooth = Nobody /\ killed = FALSE /\ breaks = 0

Broker == BrokerReads \/ BrokerNotices \/ Break

Manager(p) ==
    \/ ManagerTop(p) \/ DialSucceeds(p) \/ DialFails(p) \/ Callback(p)
    \/ ClientNotices(p) \/ ClientDied(p) \/ ManagerStops(p) \/ SleepEnds(p)

WaitConnected(p) == WaitChecks(p) \/ WaitReads(p) \/ WaitWakes(p) \/ WaitFails(p)

Command(p) ==
    \/ Leave(p) \/ PublishOffline(p) \/ Cancel(p) \/ Exit(p) \/ Kill(p)
    \/ \E c \in Commands[p] : Start(p, c)

Next == Broker \/ \E p \in Places : Manager(p) \/ WaitConnected(p) \/ Command(p)

Spec == Init /\ [][Next]_vars

\* Goroutines keep running, each end finds out that a connection is gone (the
\* client by its PINGREQs), and a broker that is dialled again and again
\* accepts at last.  Nothing makes anybody stop a process.
Fairness ==
    /\ WF_vars(BrokerReads) /\ WF_vars(BrokerNotices)
    /\ \A p \in Places :
        /\ WF_vars(ClientNotices(p))
        /\ WF_vars(ManagerTop(p) \/ Callback(p) \/ ClientDied(p) \/ ManagerStops(p)
                   \/ SleepEnds(p))
        /\ SF_vars(DialSucceeds(p)) /\ WF_vars(DialSucceeds(p) \/ DialFails(p))
        /\ WF_vars(WaitChecks(p) \/ WaitReads(p)) /\ WF_vars(WaitWakes(p))
        /\ WF_vars(PublishOffline(p) \/ Exit(p))
        /\ WF_vars(app[p] = "published" /\ Cancel(p))

FairSpec == Spec /\ Fairness

-----------------------------------------------------------------------------
(* Properties.                                                             *)

ProcessesOK ==
    /\ app \in [Places -> {"running", "leaving", "published", "cancelled", "exited"}]
    /\ cmd \in [Places -> {"none", "run", "once", "doctor"}]
    /\ \A p \in Places : cmd[p] \in Commands[p] \/ (cmd[p] = "none" /\ app[p] = "exited")
    /\ runs \in 0 .. MaxRuns

ManagersOK ==
    /\ manager \in [Places -> {"top", "dialing", "callback", "await", "sleep", "stopped"}]
    /\ client \in [Places -> BOOLEAN] /\ up \in [Places -> BOOLEAN]
    /\ \A p \in Places : client[p] <=> manager[p] \in {"callback", "await"}
    /\ \A p \in Places : up[p] => client[p]

WaitersOK ==
    /\ waiter \in [Places -> {"check", "read", "select", "done", "failed"}]
    /\ signalled \in [Places -> BOOLEAN]
    /\ \A p \in Places : signalled[p] => waiter[p] = "select"

SessionOK ==
    /\ live \in Places \cup {Nobody} /\ broken \in BOOLEAN /\ breaks \in 0 .. MaxBreaks
    /\ live = Nobody => broken
    /\ wire \in Seq({"online", "offline", "DISCONNECT"})
    /\ wire # <<>> => live # Nobody
    /\ avail \in {"none", "online", "offline"}

HistoryOK == smooth \in Places \cup {Nobody} /\ killed \in BOOLEAN

\* The type invariant: a manager holds a client only between Dial and the end
\* of the wait, and a client is connected only while it is held.
TypeOK == ProcessesOK /\ ManagersOK /\ WaitersOK /\ SessionOK /\ HistoryOK

\* docs/topic-contract.md: availability is "`online` / LWT `offline`".  A node
\* whose processes have exited and whose session is over does not stay online.
NeverStaleOnline == (\A p \in Places : app[p] = "exited") /\ live = Nobody => avail # "online"

\* The same when the agent or once was connected and announced when told to
\* stop, the connection held and nobody else has connected since: "offline" is
\* written behind every "online" of the session and before its end, by
\* DISCONNECT or otherwise.
GracefulOffline ==
    \A p \in Places :
        smooth = p /\ cmd[p] # "doctor" /\ app[p] = "exited" /\ live = Nobody
            => avail = "offline"

\* An agent killed at work, as the last to have connected, is seen as offline,
\* unless a process of the node connects first.
CrashIsSeen == killed ~> avail # "online" \/ ~killed

\* A process that keeps running gets online for good once connections stop
\* breaking and it is alone: every reconnection announces it again, behind the
\* will of the session before, also when once or doctor have taken that over,
\* published offline on a session of their own or left without a word.
EventuallyOnline ==
    \A p \in Places :
        <>[](app[p] = "running" /\ \A q \in Places \ {p} : app[q] = "exited")
            => <>[](avail = "online")

\* once and doctor notice a connection that stays: the one that is made between
\* IsConnected and the reading of the channel, whose signal they miss, too.
ConnectionIsNoticed ==
    \A p \in Places : (Waiting(p) /\ up[p]) ~> (~Waiting(p) \/ ~up[p])
=============================================================================
