------------------------- MODULE AvailabilityProofs -------------------------
(* Theorems about Availability, for every set of places, whatever commands  *)
(* each of them runs, and every bound.                                      *)
EXTENDS Availability, TLAPS

USE PlacesAssumption, CommandsAssumption, BoundsAssumption
USE DEF process, session, waiting, history, broker, Goto

\* A process that has exited leaves no goroutine behind.
Gone == \A p \in Places : app[p] = "exited" => manager[p] = "stopped" /\ waiter[p] = "done"

Types == TypeOK /\ Gone

LEMMA InitTypes == Init => Types
<1> SUFFICES ASSUME Init PROVE Types
  OBVIOUS
<1>1. ProcessesOK
  BY DEF Init, ProcessesOK
<1>2. ManagersOK
  BY DEF Init, ManagersOK
<1>3. WaitersOK
  BY DEF Init, WaitersOK
<1>4. SessionOK
  BY DEF Init, SessionOK
<1>5. HistoryOK /\ Gone
  BY DEF Init, HistoryOK, Gone
<1> QED
  BY <1>1, <1>2, <1>3, <1>4, <1>5 DEF Types, TypeOK

LEMMA SendSession ==
    ASSUME SessionOK, NEW p \in Places, NEW packet \in {"online", "offline", "DISCONNECT"},
           Send(p, packet) \/ UNCHANGED wire, UNCHANGED <<live, broken, breaks, avail>>
    PROVE  SessionOK'
  BY DEF SessionOK, Send, Open

LEMMA BrokerTypes ==
    ASSUME Types, Broker
    PROVE  Types'
<1>1. UNCHANGED <<process, session, waiting, manager, killed>> /\ (smooth' = smooth \/ smooth' = Nobody)
  BY DEF Broker, BrokerReads, BrokerNotices, Break
<1>2. ProcessesOK' /\ ManagersOK' /\ WaitersOK' /\ HistoryOK' /\ Gone'
  BY <1>1 DEF Types, TypeOK, ProcessesOK, ManagersOK, WaitersOK, HistoryOK, Gone
<1>3. SessionOK'
  <2>1. CASE BrokerReads
    <3>1. Tail(wire) \in Seq({"online", "offline", "DISCONNECT"}) /\ live # Nobody
      BY <2>1 DEF BrokerReads, Types, TypeOK, SessionOK
    <3>2. CASE Head(wire) = "DISCONNECT"
      BY <2>1, <3>2 DEF BrokerReads, Types, TypeOK, SessionOK
    <3>3. CASE Head(wire) # "DISCONNECT"
      BY <2>1, <3>1, <3>3 DEF BrokerReads, Types, TypeOK, SessionOK
    <3> QED
      BY <3>2, <3>3
  <2>2. CASE BrokerNotices
    BY <2>2 DEF BrokerNotices, Types, TypeOK, SessionOK, Will
  <2>3. CASE Break
    BY <2>3 DEF Break, Types, TypeOK, SessionOK
  <2> QED
    BY <2>1, <2>2, <2>3 DEF Broker
<1> QED
  BY <1>2, <1>3 DEF Types, TypeOK

LEMMA ManagerTypes ==
    ASSUME Types, NEW p \in Places, Manager(p)
    PROVE  Types'
<1>1. ProcessesOK'
  BY DEF Manager, ManagerTop, DialSucceeds, DialFails, Callback, ClientNotices, ClientDied,
         ManagerStops, SleepEnds, Types, TypeOK, ProcessesOK
<1>2. ManagersOK'
  BY DEF Manager, ManagerTop, DialSucceeds, DialFails, Callback, ClientNotices, ClientDied,
         ManagerStops, SleepEnds, Types, TypeOK, ManagersOK
<1>3. WaitersOK'
  <2>1. CASE DialSucceeds(p)
    BY <2>1 DEF DialSucceeds, Types, TypeOK, WaitersOK
  <2>2. CASE ~DialSucceeds(p)
    <3>1. UNCHANGED waiting
      BY <2>2 DEF Manager, ManagerTop, DialFails, Callback, ClientNotices, ClientDied,
                  ManagerStops, SleepEnds
    <3> QED
      BY <3>1 DEF Types, TypeOK, WaitersOK
  <2> QED
    BY <2>1, <2>2
<1>4. SessionOK'
  <2>1. CASE DialSucceeds(p) \/ DialFails(p)
    <3>1. CASE Accept(p) /\ broken' \in BOOLEAN /\ breaks' \in 0 .. MaxBreaks
      <4>1. wire' \in Seq({"online", "offline", "DISCONNECT"})
        BY <3>1 DEF Accept
      <4> QED
        BY <3>1, <4>1 DEF Accept, Will, Types, TypeOK, SessionOK
    <3>2. CASE UNCHANGED <<broker, avail, breaks>>
      BY <3>2 DEF Types, TypeOK, SessionOK
    <3>3. \/ Accept(p) /\ broken' \in BOOLEAN /\ breaks' \in 0 .. MaxBreaks
          \/ UNCHANGED <<broker, avail, breaks>>
      <4>1. \/ Accept(p) /\ broken' \in BOOLEAN
            \/ UNCHANGED <<broker, avail, breaks>>
        BY <2>1, Zenon DEF DialSucceeds, DialFails
      <4>2. breaks' = breaks \/ (breaks < MaxBreaks /\ breaks' = breaks + 1)
        BY <2>1 DEF DialSucceeds, DialFails
      <4>3. breaks' \in 0 .. MaxBreaks
        BY <4>2 DEF Types, TypeOK, SessionOK
      <4> QED
        BY <4>1, <4>3, Zenon
    <3> QED
      BY <3>1, <3>2, <3>3
  <2>2. CASE Callback(p) \/ ManagerStops(p)
    BY <2>2, SendSession DEF Callback, ManagerStops, Types, TypeOK
  <2>3. CASE ManagerTop(p) \/ ClientNotices(p) \/ ClientDied(p) \/ SleepEnds(p)
    BY <2>3 DEF ManagerTop, ClientNotices, ClientDied, SleepEnds, Types, TypeOK, SessionOK
  <2> QED
    BY <2>1, <2>2, <2>3 DEF Manager
<1>5. HistoryOK'
  BY DEF Manager, ManagerTop, DialSucceeds, DialFails, Accept, Callback, ClientNotices,
         ClientDied, ManagerStops, SleepEnds, Types, TypeOK, HistoryOK
<1>6. Gone'
  BY DEF Manager, ManagerTop, DialSucceeds, DialFails, Callback, ClientNotices,
         ClientDied, ManagerStops, SleepEnds, Types, TypeOK, ManagersOK, Gone
<1> QED
  BY <1>1, <1>2, <1>3, <1>4, <1>5, <1>6 DEF Types, TypeOK

LEMMA WaitTypes ==
    ASSUME Types, NEW p \in Places, WaitConnected(p)
    PROVE  Types'
<1>1. PICK from, to \in {"check", "read", "select", "done", "failed"} : Waits(p, from, to, FALSE)
  BY DEF WaitConnected, WaitChecks, WaitReads, WaitWakes, WaitFails
<1>2. WaitersOK'
  BY <1>1 DEF Waits, Types, TypeOK, WaitersOK
<1>3. ProcessesOK' /\ ManagersOK' /\ HistoryOK'
  BY <1>1 DEF Waits, Types, TypeOK, ProcessesOK, ManagersOK, HistoryOK
<1>4. SessionOK'
  BY <1>1 DEF Waits, Types, TypeOK, SessionOK
<1>5. Gone'
  BY <1>1 DEF Waits, Types, TypeOK, WaitersOK, Gone
<1> QED
  BY <1>2, <1>3, <1>4, <1>5 DEF Types, TypeOK

LEMMA CommandTypes ==
    ASSUME Types, NEW p \in Places, Command(p)
    PROVE  Types'
<1>1. ProcessesOK'
  BY DEF Command, Leave, PublishOffline, Cancel, Exit, Kill, Ends, Start, Types, TypeOK,
         ProcessesOK
<1>2. ManagersOK'
  <2>1. CASE Leave(p) \/ PublishOffline(p) \/ Cancel(p)
    BY <2>1 DEF Leave, PublishOffline, Cancel, Types, TypeOK, ManagersOK
  <2>2. CASE Exit(p) \/ Kill(p)
    BY <2>2 DEF Exit, Kill, Ends, Types, TypeOK, ManagersOK
  <2>3. ASSUME NEW c \in Commands[p], Start(p, c) PROVE ManagersOK'
    BY <2>3 DEF Start, Types, TypeOK, ManagersOK, Gone
  <2> QED
    BY <2>1, <2>2, <2>3 DEF Command
<1>3. WaitersOK'
  <2>1. CASE Leave(p) \/ PublishOffline(p) \/ Cancel(p)
    BY <2>1 DEF Leave, PublishOffline, Cancel, Types, TypeOK, WaitersOK
  <2>2. CASE Exit(p) \/ Kill(p)
    BY <2>2 DEF Exit, Kill, Ends, Types, TypeOK, WaitersOK
  <2>3. ASSUME NEW c \in Commands[p], Start(p, c) PROVE WaitersOK'
    BY <2>3 DEF Start, Awaits, Types, TypeOK, WaitersOK, Gone
  <2> QED
    BY <2>1, <2>2, <2>3 DEF Command
<1>4. SessionOK'
  <2>1. CASE PublishOffline(p)
    BY <2>1, SendSession DEF PublishOffline, Types, TypeOK
  <2>2. CASE Exit(p) \/ Kill(p)
    BY <2>2 DEF Exit, Kill, Ends, Types, TypeOK, SessionOK, ManagersOK
  <2>3. CASE Leave(p) \/ Cancel(p) \/ \E c \in Commands[p] : Start(p, c)
    BY <2>3 DEF Leave, Cancel, Start, Types, TypeOK, SessionOK
  <2> QED
    BY <2>1, <2>2, <2>3 DEF Command
<1>5. HistoryOK'
  BY DEF Command, Leave, PublishOffline, Cancel, Exit, Kill, Ends, Start, Types, TypeOK,
         HistoryOK, ManagersOK
<1>6. Gone'
  BY DEF Command, Leave, PublishOffline, Cancel, Exit, Kill, Ends, Start, Types, TypeOK,
         ProcessesOK, ManagersOK, WaitersOK, Gone
<1> QED
  BY <1>1, <1>2, <1>3, <1>4, <1>5, <1>6 DEF Types, TypeOK

LEMMA NextTypes == Types /\ [Next]_vars => Types'
<1> SUFFICES ASSUME Types, [Next]_vars PROVE Types'
  OBVIOUS
<1>1. CASE UNCHANGED vars
  BY <1>1 DEF vars, Types, TypeOK, ProcessesOK, ManagersOK, WaitersOK, SessionOK, HistoryOK,
              Gone
<1> QED
  BY <1>1, BrokerTypes, ManagerTypes, WaitTypes, CommandTypes DEF Next

\* The type invariant for any number of places, each with any commands, and any
\* number of runs and breaks: the manager's client is there from Dial to the end
\* of the wait (setClient, clearClient), and no packet waits without a session.
THEOREM TypeCorrect == Spec => []TypeOK
<1>1. Spec => []Types
  BY InitTypes, NextTypes, PTL DEF Spec
<1>2. Types => TypeOK
  BY DEF Types
<1> QED
  BY <1>1, <1>2, PTL

-----------------------------------------------------------------------------
\* DISCONNECT is the last packet of a client, which is no longer connected.
DisconnectIsLast ==
    \A i \in DOMAIN wire : wire[i] = "DISCONNECT" => i = Len(wire) /\ ~up[live]

\* When the broker has read what is on its way, the node is offline.
SaysOffline ==
    /\ wire = <<>> => avail = "offline"
    /\ wire # <<>> =>
        \/ wire[Len(wire)] = "offline"
        \/ /\ wire[Len(wire)] = "DISCONNECT"
           /\ IF Len(wire) = 1 THEN avail = "offline" ELSE wire[Len(wire) - 1] = "offline"

\* A process p that was connected and announced when told to stop is still on
\* that connection, or its manager has stopped; nobody else has one, and from
\* PublishOffline on everything ends in "offline".
SmoothAt(p) ==
    /\ app[p] \in {"leaving", "published", "cancelled", "exited"}
    /\ manager[p] \in {"await", "stopped"}
    /\ manager[p] = "await" => up[p] /\ Open(p) /\ app[p] # "exited"
    /\ app[p] \in {"leaving", "published"} => manager[p] = "await"
    /\ live \in {p, Nobody}
    /\ cmd[p] # "doctor" /\ app[p] # "leaving" => SaysOffline

LeavingInv == Types /\ DisconnectIsLast /\ (smooth # Nobody => SmoothAt(smooth))

\* What a connected client writes comes before any DISCONNECT.
LEMMA SendKeepsLast ==
    ASSUME Types, DisconnectIsLast, NEW p \in Places, up[p],
           NEW packet \in {"online", "offline", "DISCONNECT"}, Send(p, packet),
           live' = live, packet = "DISCONNECT" => ~up'[p],
           \A q \in Places : ~up[q] => ~up'[q]
    PROVE  DisconnectIsLast'
<1>1. wire \in Seq({"online", "offline", "DISCONNECT"})
  BY DEF Types, TypeOK, SessionOK
<1>2. CASE Open(p)
  <2>1. live = p /\ wire' = Append(wire, packet)
    BY <1>2 DEF Send, Open
  <2>2. \A i \in DOMAIN wire : wire[i] # "DISCONNECT"
    BY <2>1 DEF DisconnectIsLast
  <2> QED
    BY <1>1, <2>1, <2>2 DEF DisconnectIsLast
<1>3. CASE ~Open(p)
  <2>1. wire' = wire /\ (wire # <<>> => live \in Places)
    BY <1>3 DEF Send, Types, TypeOK, SessionOK
  <2> QED
    BY <1>1, <2>1 DEF DisconnectIsLast
<1> QED
  BY <1>2, <1>3

LEMMA NextDisconnectIsLast ==
    ASSUME Types, DisconnectIsLast, Next
    PROVE  DisconnectIsLast'
<1>1. wire \in Seq({"online", "offline", "DISCONNECT"}) /\ (wire # <<>> => live \in Places)
  BY DEF Types, TypeOK, SessionOK
<1>2. ASSUME UNCHANGED <<wire, live>>, \A q \in Places : ~up[q] => ~up'[q]
      PROVE  DisconnectIsLast'
  BY <1>1, <1>2 DEF DisconnectIsLast
<1>3. ASSUME wire' = <<>> PROVE DisconnectIsLast'
  BY <1>3 DEF DisconnectIsLast
<1>4. CASE Broker
  <2>1. CASE BrokerReads
    <3>1. CASE Head(wire) = "DISCONNECT"
      BY <1>3, <2>1, <3>1 DEF BrokerReads
    <3>2. CASE Head(wire) # "DISCONNECT"
      <4>1. wire # <<>> /\ wire' = Tail(wire) /\ live' = live /\ up' = up
        BY <2>1, <3>2 DEF BrokerReads
      <4>2. ASSUME NEW i \in DOMAIN wire', wire'[i] = "DISCONNECT"
            PROVE  i = Len(wire') /\ ~up'[live']
        <5>1. i + 1 \in DOMAIN wire /\ wire[i + 1] = "DISCONNECT" /\ Len(wire') = Len(wire) - 1
          BY <1>1, <4>1, <4>2
        <5> QED
          BY <1>1, <4>1, <4>2, <5>1 DEF DisconnectIsLast
      <4> QED
        BY <4>2 DEF DisconnectIsLast
    <3> QED
      BY <3>1, <3>2
  <2>2. CASE BrokerNotices
    BY <1>3, <2>2 DEF BrokerNotices
  <2>3. CASE Break
    BY <1>2, <2>3 DEF Break
  <2> QED
    BY <1>4, <2>1, <2>2, <2>3 DEF Broker
<1>5. ASSUME NEW p \in Places, Manager(p) PROVE DisconnectIsLast'
  <2>1. CASE DialSucceeds(p) \/ DialFails(p)
    <3>1. wire' = <<>> \/ UNCHANGED <<wire, live>>
      BY <2>1, Zenon DEF DialSucceeds, DialFails, Accept
    <3>2. wire' = <<>> \/ up' = up
      BY <2>1, Zenon DEF DialSucceeds, DialFails, Accept
    <3> QED
      BY <1>2, <1>3, <3>1, <3>2
  <2>2. CASE Callback(p) \/ ManagerStops(p)
    <3>1. live' = live /\ \A q \in Places : ~up[q] => ~up'[q]
      BY <2>2 DEF Callback, ManagerStops, Types, TypeOK, ManagersOK
    <3>2. CASE ~up[p]
      BY <1>2, <2>2, <3>1, <3>2 DEF Callback, ManagerStops
    <3>3. CASE up[p] /\ Callback(p)
      BY <3>1, <3>3, SendKeepsLast DEF Callback
    <3>4. CASE up[p] /\ ManagerStops(p)
      <4>1. ~up'[p] /\ Send(p, "DISCONNECT")
        BY <3>4 DEF ManagerStops, Types, TypeOK, ManagersOK
      <4> QED
        BY <3>1, <3>4, <4>1, SendKeepsLast
    <3> QED
      BY <2>2, <3>2, <3>3, <3>4
  <2>3. CASE ManagerTop(p) \/ ClientNotices(p) \/ ClientDied(p) \/ SleepEnds(p)
    <3>1. UNCHANGED <<wire, live>> /\ \A q \in Places : ~up[q] => ~up'[q]
      BY <2>3 DEF ManagerTop, ClientNotices, ClientDied, SleepEnds, Types, TypeOK, ManagersOK
    <3> QED
      BY <1>2, <3>1
  <2> QED
    BY <1>5, <2>1, <2>2, <2>3 DEF Manager
<1>6. ASSUME NEW p \in Places, WaitConnected(p) PROVE DisconnectIsLast'
  BY <1>2, <1>6 DEF WaitConnected, WaitChecks, WaitReads, WaitWakes, WaitFails, Waits
<1>7. ASSUME NEW p \in Places, Command(p) PROVE DisconnectIsLast'
  <2>1. CASE PublishOffline(p)
    <3>1. CASE up[p]
      BY <2>1, <3>1, SendKeepsLast DEF PublishOffline
    <3>2. CASE ~up[p]
      BY <1>2, <2>1, <3>2 DEF PublishOffline
    <3> QED
      BY <3>1, <3>2
  <2>2. CASE Exit(p) \/ Kill(p)
    <3>1. UNCHANGED <<wire, live>> /\ \A q \in Places : ~up[q] => ~up'[q]
      BY <2>2 DEF Exit, Kill, Ends, Types, TypeOK, ManagersOK
    <3> QED
      BY <1>2, <3>1
  <2>3. CASE Leave(p) \/ Cancel(p) \/ \E c \in Commands[p] : Start(p, c)
    BY <1>2, <2>3 DEF Leave, Cancel, Start
  <2> QED
    BY <1>7, <2>1, <2>2, <2>3 DEF Command
<1> QED
  BY <1>4, <1>5, <1>6, <1>7 DEF Next

\* What the broker does to the announcements on the wire.
LEMMA BrokerSmooth ==
    ASSUME LeavingInv, Broker, NEW s \in Places, smooth' = s
    PROVE  SmoothAt(s)'
<1>1. smooth = s /\ SmoothAt(s) /\ Types /\ DisconnectIsLast
  BY DEF Broker, BrokerReads, BrokerNotices, Break, LeavingInv, Types, TypeOK, HistoryOK
<1>2. /\ wire \in Seq({"online", "offline", "DISCONNECT"})
      /\ live = Nobody => broken
      /\ manager \in [Places -> {"top", "dialing", "callback", "await", "sleep", "stopped"}]
  BY <1>1 DEF Types, TypeOK, SessionOK, ManagersOK
<1>3. UNCHANGED <<app, cmd, manager, up>>
  BY DEF Broker, BrokerReads, BrokerNotices, Break
<1>4. SaysOffline => SaysOffline'
  <2>1. CASE BrokerReads /\ Head(wire) = "DISCONNECT"
    <3>1. Len(wire) = 1
      <4>1. wire # <<>>
        BY <2>1 DEF BrokerReads
      <4>2. 1 \in DOMAIN wire /\ wire[1] = "DISCONNECT"
        BY <1>2, <2>1, <4>1
      <4> QED
        BY <1>1, <4>2 DEF DisconnectIsLast
    <3> QED
      <4>1. wire # <<>> /\ wire[Len(wire)] = "DISCONNECT"
        BY <1>2, <2>1, <3>1 DEF BrokerReads
      <4>2. wire' = <<>> /\ avail' = avail
        BY <2>1 DEF BrokerReads
      <4>3. SaysOffline => avail = "offline"
        BY <3>1, <4>1 DEF SaysOffline
      <4> QED
        BY <4>2, <4>3, Zenon DEF SaysOffline
  <2>2. CASE BrokerReads /\ Head(wire) # "DISCONNECT"
    <3>1. wire # <<>> /\ wire' = Tail(wire) /\ avail' = Head(wire)
      BY <2>2 DEF BrokerReads
    <3>2. CASE Len(wire) = 1
      <4>1. wire' = <<>> /\ avail' = wire[Len(wire)]
        BY <1>2, <3>1, <3>2
      <4>2. SaysOffline => wire[Len(wire)] = "offline"
        BY <2>2, <3>1, <3>2 DEF SaysOffline
      <4> QED
        BY <4>1, <4>2, Zenon DEF SaysOffline
    <3>3. CASE Len(wire) = 2
      <4>1. /\ Len(wire') = 1 /\ Len(wire) - 1 = 1
            /\ wire'[Len(wire')] = wire[Len(wire)]
        <5>1. Len(wire') = Len(wire) - 1 /\ \A i \in 1 .. Len(wire) - 1 : wire'[i] = wire[i + 1]
          BY <1>2, <3>1
        <5>2. wire'[1] = wire[2]
          BY <3>3, <5>1
        <5> QED
          BY <3>3, <5>1, <5>2
      <4>2. wire' # <<>> /\ avail' = wire[1]
        <5>1. wire' # <<>>
          <6>1. Len(<<>>) = 0 /\ 1 # 0
            OBVIOUS
          <6> QED
            BY <4>1, <6>1, Zenon
        <5> QED
          BY <1>2, <3>1, <5>1
      <4> QED
        BY <3>1, <3>3, <4>1, <4>2 DEF SaysOffline
    <3>4. CASE Len(wire) > 2
      <4>1. /\ Len(wire') = Len(wire) - 1
            /\ wire'[Len(wire')] = wire[Len(wire)]
            /\ wire'[Len(wire') - 1] = wire[Len(wire) - 1]
        <5>1. Len(wire') = Len(wire) - 1 /\ \A i \in 1 .. Len(wire) - 1 : wire'[i] = wire[i + 1]
          BY <1>2, <3>1
        <5>2. Len(wire) \in Nat
          BY <1>2
        <5>3. PICK n \in Nat : Len(wire) = n
          BY <5>2
        <5>4. /\ n - 1 \in 1 .. n - 1 /\ n - 2 \in 1 .. n - 1
              /\ (n - 1) + 1 = n /\ (n - 2) + 1 = n - 1 /\ (n - 1) - 1 = n - 2
          BY <3>4, <5>3
        <5>5. wire'[n - 1] = wire[n] /\ wire'[n - 2] = wire[n - 1]
          BY <5>1, <5>3, <5>4
        <5> QED
          BY <5>1, <5>3, <5>4, <5>5
      <4> QED
        BY <3>1, <3>4, <4>1 DEF SaysOffline
    <3>5. Len(wire) = 1 \/ Len(wire) = 2 \/ Len(wire) > 2
      <4>1. Len(wire) \in Nat /\ Len(wire) # 0
        BY <1>2, <3>1
      <4>2. \A n \in Nat : n # 0 => n = 1 \/ n = 2 \/ n > 2
        OBVIOUS
      <4> QED
        BY <4>1, <4>2, Zenon
    <3> QED
      BY <3>2, <3>3, <3>4, <3>5, Zenon
  <2>3. CASE BrokerNotices
    <3>1. wire' = <<>> /\ avail' = "offline"
      BY <2>3 DEF BrokerNotices, Will
    <3> QED
      BY <3>1, Zenon DEF SaysOffline
  <2>4. CASE Break
    BY <2>4 DEF Break, SaysOffline
  <2> QED
    BY <2>1, <2>2, <2>3, <2>4 DEF Broker
<1>5. manager[s] = "await" => Open(s)' /\ live' = s
  <2> SUFFICES ASSUME manager[s] = "await" PROVE Open(s)' /\ live' = s
    OBVIOUS
  <2>1. up[s] /\ live = s /\ ~broken
    BY <1>1 DEF SmoothAt, Open
  <2>2. ~Break /\ ~BrokerNotices
    BY <1>1, <2>1 DEF Break, BrokerNotices
  <2>3. BrokerReads /\ Head(wire) # "DISCONNECT"
    BY <1>1, <1>2, <2>1, <2>2 DEF Broker, BrokerReads, DisconnectIsLast
  <2> QED
    BY <2>1, <2>3 DEF BrokerReads, Open
<1>6. live' \in {s, Nobody}
  BY <1>1 DEF SmoothAt, Broker, BrokerReads, BrokerNotices, Break
<1> QED
  BY <1>1, <1>3, <1>4, <1>5, <1>6 DEF SmoothAt

\* Somebody else's packet goes nowhere: the session is not his.
LEMMA OthersWriteNothing ==
    ASSUME Types, NEW s \in Places, SmoothAt(s), NEW q \in Places, q # s, NEW packet,
           Send(q, packet)
    PROVE  wire' = wire
  BY DEF Types, TypeOK, SessionOK, SmoothAt, Send, Open

LEMMA ManagerSmooth ==
    ASSUME LeavingInv, NEW p \in Places, Manager(p), NEW s \in Places, smooth' = s
    PROVE  SmoothAt(s)'
<1>1. smooth = s /\ SmoothAt(s) /\ Types /\ ~Accept(p)
  BY PlacesAssumption
     DEF Manager, ManagerTop, DialSucceeds, DialFails, Accept, Callback, ClientNotices,
         ClientDied, ManagerStops, SleepEnds, LeavingInv
<1>2. ~DialSucceeds(p)
  BY <1>1 DEF DialSucceeds
<1>3. UNCHANGED <<app, cmd, live, broken, avail>>
  BY <1>1, <1>2 DEF Manager, ManagerTop, DialFails, Callback, ClientNotices, ClientDied,
                    ManagerStops, SleepEnds
<1>4. CASE p = s
  <2>1. ManagerStops(s)
    <3>1. manager[s] \in {"await", "stopped"} /\ (up[s] => manager[s] = "await" /\ Open(s))
          /\ (manager[s] = "await" => up[s])
      BY <1>1 DEF SmoothAt, Types, TypeOK, ManagersOK
    <3> QED
      BY <1>2, <1>4, <3>1
         DEF Manager, ManagerTop, DialFails, Callback, ClientNotices, ClientDied, SleepEnds
  <2>2. manager'[s] = "stopped" /\ app[s] \in {"cancelled", "exited"}
    BY <1>1, <2>1 DEF ManagerStops, Cancelled, Types, TypeOK, ManagersOK
  <2>3. wire' = Append(wire, "DISCONNECT") /\ wire \in Seq({"online", "offline", "DISCONNECT"})
    BY <1>1, <2>1 DEF ManagerStops, SmoothAt, Send, Open, Types, TypeOK, SessionOK
  <2>4. SaysOffline => SaysOffline'
    <3>1. PICK n \in Nat : Len(wire) = n
      BY <2>3
    <3>2. Len(wire') = n + 1 /\ wire'[n + 1] = "DISCONNECT" /\ (n + 1) - 1 = n
      BY <2>3, <3>1
    <3>3. wire' # <<>>
      BY <2>3
    <3>4. CASE wire = <<>>
      BY <1>3, <3>1, <3>2, <3>3, <3>4 DEF SaysOffline
    <3>5. CASE wire # <<>>
      <4>1. n \in 1 .. n /\ wire'[n] = wire[n]
        BY <2>3, <3>1, <3>5
      <4>2. wire[n] # "DISCONNECT"
        <5>1. up[live]
          BY <1>1, <2>1 DEF ManagerStops, SmoothAt, Open
        <5>2. n \in DOMAIN wire
          BY <2>3, <3>1, <4>1
        <5> QED
          BY <5>1, <5>2 DEF LeavingInv, DisconnectIsLast
      <4>3. SaysOffline => wire[n] = "offline"
        BY <3>1, <3>5, <4>2 DEF SaysOffline
      <4>4. n # 0
        BY <4>1
      <4> QED
        BY <3>1, <3>2, <3>3, <4>1, <4>3, <4>4 DEF SaysOffline
    <3> QED
      BY <3>4, <3>5
  <2> QED
    BY <1>1, <1>3, <2>2, <2>4 DEF SmoothAt
<1>5. CASE p # s
  <2>1. manager'[s] = manager[s] /\ up'[s] = up[s]
    BY <1>1, <1>2, <1>5
       DEF Manager, ManagerTop, DialFails, Callback, ClientNotices, ClientDied, ManagerStops,
           SleepEnds, Types, TypeOK, ManagersOK
  <2>2. wire' = wire
    BY <1>1, <1>2, <1>5, OthersWriteNothing
       DEF Manager, ManagerTop, DialFails, Callback, ClientNotices, ClientDied, ManagerStops,
           SleepEnds
  <2> QED
    BY <1>1, <1>3, <2>1, <2>2 DEF SmoothAt, SaysOffline, Open
<1> QED
  BY <1>4, <1>5

LEMMA CommandSmooth ==
    ASSUME LeavingInv, NEW p \in Places, Command(p), NEW s \in Places, smooth' = s
    PROVE  SmoothAt(s)'
<1>1. Types
  BY DEF LeavingInv
<1>2. CASE Leave(p)
  <2>1. UNCHANGED <<cmd, manager, up, live, broken, wire, avail>>
    BY <1>2 DEF Leave
  <2>2. CASE smooth' # smooth \/ p = s
    <3>1. p = s /\ up[s] /\ manager[s] = "await" /\ Open(s)
      BY <1>1, <1>2, <2>2 DEF Leave, LeavingInv, SmoothAt
    <3>2. app'[s] = IF cmd[s] = "doctor" THEN "published" ELSE "leaving"
      BY <1>1, <1>2, <3>1 DEF Leave, Types, TypeOK, ProcessesOK
    <3> QED
      BY <2>1, <3>1, <3>2 DEF SmoothAt, Open
  <2>3. CASE smooth' = smooth /\ p # s
    <3>1. SmoothAt(s) /\ app'[s] = app[s]
      BY <1>1, <1>2, <2>3 DEF Leave, LeavingInv, Types, TypeOK, ProcessesOK
    <3> QED
      BY <2>1, <3>1 DEF SmoothAt, SaysOffline, Open
  <2> QED
    BY <2>2, <2>3
<1>3. CASE ~Leave(p)
  <2>1. smooth = s /\ SmoothAt(s) /\ ~(Kill(p) /\ p = s) /\ \A c : ~(Start(p, c) /\ p = s)
    BY <1>3 DEF Command, PublishOffline, Cancel, Exit, Kill, Start, LeavingInv
  <2>2. CASE p = s
    <3>1. PublishOffline(s) \/ Cancel(s) \/ Exit(s)
      BY <1>3, <2>1, <2>2 DEF Command
    <3>2. UNCHANGED <<cmd, live, avail>>
      BY <3>1 DEF PublishOffline, Cancel, Exit
    <3>3. CASE PublishOffline(s)
      <4>1. app[s] = "leaving" /\ app'[s] = "published" /\ UNCHANGED <<manager, up, broken>>
        BY <1>1, <3>3 DEF PublishOffline, Types, TypeOK, ProcessesOK
      <4>2. up[s] /\ Open(s)
        BY <2>1, <4>1 DEF SmoothAt
      <4>3. wire' = Append(wire, "offline") /\ wire \in Seq({"online", "offline", "DISCONNECT"})
        BY <1>1, <3>3, <4>2 DEF PublishOffline, Send, Types, TypeOK, SessionOK
      <4>4. SaysOffline'
        BY <4>3 DEF SaysOffline
      <4> QED
        BY <2>1, <3>2, <4>1, <4>2, <4>4 DEF SmoothAt, Open
    <3>4. CASE Cancel(s)
      <4>1. /\ app'[s] = "cancelled" /\ app[s] \in {"published", "cancelled"}
            /\ UNCHANGED <<manager, up, broken, wire>>
        BY <1>1, <2>1, <3>4 DEF Cancel, SmoothAt, Types, TypeOK, ProcessesOK
      <4> QED
        BY <2>1, <3>2, <4>1 DEF SmoothAt, SaysOffline, Open
    <3>5. CASE Exit(s)
      <4>1. /\ app'[s] = "exited" /\ app[s] = "cancelled" /\ manager'[s] = "stopped"
            /\ wire' = wire
        BY <1>1, <3>5 DEF Exit, Ends, Types, TypeOK, ProcessesOK, ManagersOK
      <4> QED
        BY <2>1, <3>2, <4>1 DEF SmoothAt, SaysOffline
    <3> QED
      BY <3>1, <3>3, <3>4, <3>5
  <2>3. CASE p # s
    <3>1. UNCHANGED <<live, avail>>
      BY <1>3 DEF Command, PublishOffline, Cancel, Exit, Kill, Start
    <3>2. app'[s] = app[s] /\ cmd'[s] = cmd[s]
      BY <1>1, <1>3, <2>3
         DEF Command, PublishOffline, Cancel, Exit, Kill, Ends, Start, Types, TypeOK,
             ProcessesOK
    <3>3. manager'[s] = manager[s] /\ up'[s] = up[s]
      BY <1>1, <1>3, <2>3
         DEF Command, PublishOffline, Cancel, Exit, Kill, Ends, Start, Types, TypeOK, ManagersOK
    <3>4. live = s => broken' = broken
      <4>1. CASE Exit(p) \/ Kill(p)
        BY <1>1, <2>3, <4>1 DEF Exit, Kill, Ends, Types, TypeOK, SessionOK
      <4>2. CASE PublishOffline(p) \/ Cancel(p) \/ \E c \in Commands[p] : Start(p, c)
        BY <4>2 DEF PublishOffline, Cancel, Start
      <4> QED
        BY <1>3, <4>1, <4>2 DEF Command
    <3>5. wire' = wire
      BY <1>1, <1>3, <2>1, <2>3, OthersWriteNothing
         DEF Command, PublishOffline, Cancel, Exit, Kill, Start
    <3> QED
      BY <2>1, <3>1, <3>2, <3>3, <3>4, <3>5 DEF SmoothAt, SaysOffline, Open
  <2> QED
    BY <2>2, <2>3
<1> QED
  BY <1>2, <1>3

LEMMA NextLeaving == LeavingInv /\ [Next]_vars => LeavingInv'
<1> SUFFICES ASSUME LeavingInv, [Next]_vars PROVE LeavingInv'
  OBVIOUS
<1>1. Types'
  BY NextTypes DEF LeavingInv
<1>2. CASE UNCHANGED vars
  BY <1>1, <1>2 DEF LeavingInv, DisconnectIsLast, SmoothAt, SaysOffline, Open, vars
<1>3. CASE Next
  <2>1. DisconnectIsLast'
    BY <1>3, NextDisconnectIsLast DEF LeavingInv
  <2>2. ASSUME NEW s \in Places, smooth' = s PROVE SmoothAt(s)'
    <3>1. CASE Broker
      BY <2>2, <3>1, BrokerSmooth
    <3>2. ASSUME NEW p \in Places, Manager(p) PROVE SmoothAt(s)'
      BY <2>2, <3>2, ManagerSmooth
    <3>3. ASSUME NEW p \in Places, WaitConnected(p) PROVE SmoothAt(s)'
      <4>1. UNCHANGED <<process, manager, session, broker, avail, history>>
        BY <3>3 DEF WaitConnected, WaitChecks, WaitReads, WaitWakes, WaitFails, Waits
      <4> QED
        BY <2>2, <4>1 DEF LeavingInv, SmoothAt, SaysOffline, Open
    <3>4. ASSUME NEW p \in Places, Command(p) PROVE SmoothAt(s)'
      BY <2>2, <3>4, CommandSmooth
    <3> QED
      BY <1>3, <3>1, <3>2, <3>3, <3>4 DEF Next
  <2>3. smooth' # Nobody => smooth' \in Places
    BY <1>1 DEF Types, TypeOK, HistoryOK
  <2> QED
    BY <1>1, <2>1, <2>2, <2>3 DEF LeavingInv
<1> QED
  BY <1>2, <1>3 DEF vars

\* GracefulOffline, for every number of processes that share the client
\* identifier: one that was connected and announced when told to stop, whose
\* connection held until the broker ended it, leaves the node offline.
THEOREM OfflineOnLeaving == Spec => []GracefulOffline
<1>1. Init => LeavingInv
  <2> SUFFICES ASSUME Init PROVE LeavingInv
    OBVIOUS
  <2>1. wire = <<>> /\ smooth = Nobody
    BY DEF Init
  <2>2. DisconnectIsLast
    BY <2>1 DEF DisconnectIsLast
  <2> QED
    BY <2>1, <2>2, InitTypes DEF LeavingInv
<1>2. LeavingInv => GracefulOffline
  <2> SUFFICES ASSUME LeavingInv, NEW p \in Places, smooth = p, cmd[p] # "doctor",
                      app[p] = "exited", live = Nobody
               PROVE  avail = "offline"
    BY DEF GracefulOffline
  <2>1. SmoothAt(p) /\ wire = <<>>
    BY DEF LeavingInv, Types, TypeOK, SessionOK
  <2> QED
    BY <2>1 DEF SmoothAt, SaysOffline
<1> QED
  BY <1>1, <1>2, NextLeaving, PTL DEF Spec
=============================================================================
