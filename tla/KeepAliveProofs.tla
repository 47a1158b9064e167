--------------------------- MODULE KeepAliveProofs ---------------------------
(***************************************************************************)
(* Proofs about KeepAlive: for every keep-alive, write timeout, stall and  *)
(* queue on writeMu, a working connection is dropped neither by the read   *)
(* deadline nor by the broker, but for the keep-alives that the two        *)
(* properties name.                                                        *)
(*                                                                         *)
(* The inductive invariant is an account of time: how long ago the read    *)
(* deadline was moved, and how long the broker has heard nothing, given    *)
(* where pingLoop and the writers are.                                     *)
(***************************************************************************)
EXTENDS KeepAlive, TLAPS

\* What n writes may last on a working connection.
Lasts(n) == n * MaxStall

\* How long ago the read deadline was moved.
Elapsed == alive - deadline

\* How far a PINGREQ may be behind the tick it belongs to: the writer that had
\* writeMu at the tick, those that got it since, and its own write.
PingOnTime ==
    /\ ping # "wait" => deadline # NoDeadline
    /\ ping # "lock" => ahead = 0
    /\ ping = "lock" /\ writer = "none" => Elapsed <= Lasts(ahead + 1)
    /\ ping = "lock" /\ writer = "other" => Elapsed <= Lasts(ahead) + writing
    /\ ping = "write" => Elapsed <= Lasts(Ahead + 1) + writing

\* A tick moves the deadline at most one interval after the last, unless the
\* PINGREQ of the last took longer.
TickOnTime ==
    deadline # NoDeadline =>
        /\ ~fired => Elapsed + phase <= Interval
        /\ ping = "wait" /\ fired => Elapsed <= Larger(Interval, PingTime)

\* The broker has heard something since the last tick but one.
HeardOfLate ==
    /\ ping = "wait" /\ ~fired => quiet + phase <= Interval
    /\ ping = "wait" /\ fired => quiet <= Interval
    /\ ping # "wait" => quiet <= Interval + Elapsed

\* All that while the connection works, and what a failure owes to it.
WorkingInv == link = "up" /\ Connected => PingOnTime /\ TickOnTime /\ HeardOfLate
ClosedInv ==
    link = "closed" => 3 * Smaller(alive, MaxWire) < 2 * (Interval + PingTime)
CauseInv == (cause = "broker" => link = "closed") /\ DeadlineIsMoved
TimingInv == TypeOK /\ WorkingInv /\ ClosedInv /\ CauseInv

-----------------------------------------------------------------------------
(* Arithmetic.                                                             *)

\* One more write takes at most MaxStall longer.
LEMMA LastsGrows ==
  /\ Lasts(0) = 0
  /\ \A n \in Nat : Lasts(n) \in Nat /\ Lasts(n + 1) = Lasts(n) + MaxStall
  BY TimesAssumption DEF Lasts

\* Fewer writes take no longer.
LEMMA LastsMonotone ==
  ASSUME NEW m \in Nat, NEW n \in Nat, m <= n
  PROVE  Lasts(m) <= Lasts(n)
<1>1. PICK d \in Nat : n = m + d
  <2>1. n - m \in Nat /\ n = m + (n - m)
    OBVIOUS
  <2> QED
    BY <2>1
<1>2. d * MaxStall \in Nat
  BY TimesAssumption
<1>3. n * MaxStall = m * MaxStall + d * MaxStall
  BY <1>1, TimesAssumption
<1>4. m * MaxStall \in Nat
  BY TimesAssumption
<1> QED
  BY <1>2, <1>3, <1>4 DEF Lasts

\* PingTime in terms of the writes it is made of.
LEMMA PingTimeSplit ==
  /\ PingTime \in Nat
  /\ PingTime = Lasts(Ahead + 1) + MaxStall
  /\ Lasts(Ahead + 1) = Lasts(Ahead) + MaxStall
  /\ Lasts(Ahead) \in Nat
<1>1. PingTime = Lasts((Ahead + 1) + 1)
  BY TimesAssumption DEF PingTime, Lasts
<1> QED
  BY <1>1, LastsGrows, TimesAssumption

\* A keep-alive that Dial has let through is positive.
LEMMA AlivePositive ==
  ASSUME TypeOK
  PROVE  alive \in Nat \ {0}
  BY KeepAlivesAssumption, TimesAssumption DEF TypeOK, Effective

\* The interval of pingLoop: at least the least one, else half the keep-alive.
LEMMA IntervalBounds ==
  ASSUME TypeOK
  PROVE  /\ Interval \in Nat \ {0}
         /\ Interval >= MinInterval
         /\ Interval = MinInterval \/ 2 * Interval <= alive
<1>1. alive \in Nat \ {0}
  BY AlivePositive
<1>2. alive \div 2 \in Nat /\ 2 * (alive \div 2) <= alive
  BY <1>1
<1> QED
  BY <1>1, <1>2, TimesAssumption DEF Interval, Larger

-----------------------------------------------------------------------------
(* Type correctness.                                                       *)

\* A new connection has the types.
LEMMA StartTypes ==
  ASSUME NEW k \in KeepAlives, Start(k)
  PROVE  TypeOK'
<1>1. Effective(k) \in Nat \ {0}
  BY KeepAlivesAssumption, TimesAssumption DEF Effective
<1>2. Effective(k) \div 2 \in Nat
  BY <1>1
<1>3. Interval' = Larger(Effective(k) \div 2, MinInterval)
  BY DEF Start, Interval
<1>4. Interval' \in Nat \ {0}
  BY <1>2, <1>3, TimesAssumption DEF Larger
<1>5. phase' \in 1 .. Interval'
  BY <1>3, <1>4 DEF Start
<1>6. alive' \in {Effective(j) : j \in KeepAlives}
  BY DEF Start
<1>7. /\ cause' = "none" /\ link' = "up" /\ fired' = FALSE /\ ping' = "wait" /\ writer' = "none"
      /\ deadline' \in 0 .. alive' \cup {NoDeadline}
  BY DEF Start
<1>8. /\ writing' \in 0 .. WriteTimeout /\ writing' <= MaxStall
      /\ ahead' \in 0 .. Ahead /\ buffered' \in 0 .. SendBuffer /\ quiet' \in Nat
  BY TimesAssumption DEF Start
<1> QED
  BY <1>5, <1>6, <1>7, <1>8 DEF TypeOK

\* The types hold through each step.
LEMMA TypeStep ==
  ASSUME TypeOK, [Next]_vars
  PROVE  TypeOK'
<1> USE TimesAssumption
<1> DEFINE KeepsAlive == alive' = alive /\ Interval' = Interval
<1>1. alive' = alive => Interval' = Interval
  BY DEF Interval
<1>2. ASSUME NEW k \in KeepAlives, Redial(k) PROVE TypeOK'
  BY <1>2, StartTypes DEF Redial
<1>3. ASSUME PingTick PROVE TypeOK'
  <2>1. alive \in 0 .. alive
    BY AlivePositive
  <2>2. deadline' \in 0 .. alive' \cup {NoDeadline} /\ fired' \in BOOLEAN
    BY <1>3, <2>1 DEF PingTick
  <2>3. phase' \in 1 .. Interval' /\ (writer' = "ping" <=> ping' = "write")
    BY <1>1, <1>3 DEF PingTick, TypeOK
  <2> QED
    BY <1>3, <2>2, <2>3 DEF PingTick, TypeOK
<1>4. ASSUME PingLock PROVE TypeOK'
  BY <1>1, <1>4 DEF PingLock, TypeOK, timers
<1>5. ASSUME OtherLock PROVE TypeOK'
  BY <1>1, <1>5 DEF OtherLock, TypeOK, timers
<1>6. ASSUME WriteDone PROVE TypeOK'
  <2>1. quiet' \in Nat /\ buffered' \in 0 .. SendBuffer
    BY <1>6 DEF WriteDone, TypeOK
  <2> QED
    BY <1>1, <1>6, <2>1 DEF WriteDone, Release, TypeOK, timers
<1>7. ASSUME WriteTimesOut \/ ReadTimesOut \/ KernelGivesUp \/ ReadEnds PROVE TypeOK'
  BY <1>1, <1>7
     DEF WriteTimesOut, ReadTimesOut, KernelGivesUp, ReadEnds, Fail, TypeOK, timers, writes
<1>8. ASSUME Cut \/ BrokerCloses PROVE TypeOK'
  BY <1>1, <1>8 DEF Cut, BrokerCloses, TypeOK, timers, writes
<1>9. ASSUME TimePasses PROVE TypeOK'
  <2>1. alive \in Nat /\ Interval \in Nat \ {0} /\ Interval' = Interval
    BY <1>1, <1>9, AlivePositive, IntervalBounds DEF TimePasses
  <2>2. phase' \in 1 .. Interval
    BY <1>9, <2>1 DEF TimePasses, TypeOK
  <2>7. fired' \in BOOLEAN
    BY <1>9, Zenon DEF TimePasses, TypeOK
  <2>3. deadline' \in 0 .. alive \cup {NoDeadline}
    BY <1>9, <2>1 DEF TimePasses, Settled, TypeOK, NoDeadline
  <2>4. writing' \in 0 .. WriteTimeout /\ (link = "up" => writing' <= MaxStall)
    BY <1>9 DEF TimePasses, Settled, TypeOK
  <2>5. quiet' \in Nat
    BY <1>9 DEF TimePasses, TypeOK
  <2>6. phase' \in 1 .. Interval' /\ deadline' \in 0 .. alive' \cup {NoDeadline}
    BY <1>9, <2>1, <2>2, <2>3 DEF TimePasses
  <2> QED
    BY <1>9, <2>4, <2>5, <2>6, <2>7 DEF TimePasses, TypeOK
<1>10. ASSUME UNCHANGED vars PROVE TypeOK'
  BY <1>1, <1>10 DEF vars, timers, writes, TypeOK
<1> QED
  BY <1>2, <1>3, <1>4, <1>5, <1>6, <1>7, <1>8, <1>9, <1>10 DEF Next

\* A new connection, also the first.
LEMMA InitTypes == Init => TypeOK
<1> SUFFICES ASSUME Init PROVE TypeOK
  OBVIOUS
<1>1. PICK k \in KeepAlives : alive = Effective(k)
  BY DEF Init
<1>2. alive \in Nat \ {0}
  BY <1>1, KeepAlivesAssumption, TimesAssumption DEF Effective
<1>3. alive \div 2 \in Nat
  BY <1>2
<1>4. Interval \in Nat \ {0}
  BY <1>3, TimesAssumption DEF Interval, Larger
<1>5. alive \in {Effective(j) : j \in KeepAlives} /\ deadline \in 0 .. alive \cup {NoDeadline}
  BY <1>1 DEF Init
<1>6. phase \in 1 .. Interval
  BY <1>4 DEF Init
<1>7. /\ writing \in 0 .. WriteTimeout /\ writing <= MaxStall
      /\ ahead \in 0 .. Ahead /\ buffered \in 0 .. SendBuffer /\ quiet \in Nat
  BY TimesAssumption DEF Init
<1> QED
  BY <1>5, <1>6, <1>7 DEF Init, TypeOK

\* The type invariant of pingLoop, the deadlines and the writers.
THEOREM TypeCorrect == Spec => []TypeOK
  BY InitTypes, TypeStep, PTL DEF Spec

-----------------------------------------------------------------------------
(* The account of time.                                                    *)

\* The facts each step below needs.
LEMMA Times ==
  ASSUME TypeOK
  PROVE  /\ alive \in Nat /\ phase \in 1 .. Interval /\ quiet \in Nat
         /\ writing \in Nat /\ ahead \in 0 .. Ahead
         /\ deadline = NoDeadline \/ deadline \in 0 .. alive
         /\ Elapsed \in Int
         /\ Lasts(ahead) \in Nat /\ Lasts(ahead + 1) = Lasts(ahead) + MaxStall
         /\ Lasts(ahead) <= Lasts(Ahead)
<1>1. alive \in Nat
  BY AlivePositive
<1>2. ahead \in Nat /\ ahead <= Ahead
  BY TimesAssumption DEF TypeOK
<1>3. Lasts(ahead) <= Lasts(Ahead)
  BY <1>2, LastsMonotone, TimesAssumption
<1>4. Elapsed \in Int
  BY <1>1 DEF Elapsed, TypeOK, NoDeadline
<1> QED
  BY <1>1, <1>2, <1>3, <1>4, LastsGrows, TimesAssumption DEF TypeOK

\* The account of a connection on which no PINGREQ is under way yet.
LEMMA FreshInv ==
  ASSUME ping = "wait", deadline = NoDeadline, ahead = 0, ~fired, quiet = 0,
         phase = Interval, Interval \in Nat
  PROVE  PingOnTime /\ TickOnTime /\ HeardOfLate
  BY DEF PingOnTime, TickOnTime, HeardOfLate

\* A tick: the deadline is moved when the broker has been heard within the
\* interval, and the writer at work has been writing all the time since.
LEMMA TickStep ==
  ASSUME TypeOK, PingOnTime, HeardOfLate, PingTick
  PROVE  PingOnTime' /\ TickOnTime' /\ HeardOfLate'
<1> USE Times, IntervalBounds
<1>1. Elapsed' = 0 /\ Interval' = Interval /\ deadline' # NoDeadline
  BY DEF PingTick, Elapsed, Interval, NoDeadline
<1>2. quiet <= Interval /\ ahead = 0 /\ ping' = "lock"
  BY DEF PingTick, PingOnTime, HeardOfLate
<1>3. PingOnTime'
  <2>1. Lasts(ahead') \in Nat /\ Lasts(ahead' + 1) \in Nat /\ writing' \in Nat
    BY <1>2, LastsGrows DEF PingTick
  <2> QED
    BY <1>1, <1>2, <2>1 DEF PingTick, PingOnTime
<1>4. TickOnTime'
  BY <1>1, <1>2 DEF PingTick, TickOnTime
<1>5. HeardOfLate'
  BY <1>1, <1>2 DEF PingTick, HeardOfLate
<1> QED
  BY <1>3, <1>4, <1>5

\* pingLoop gets writeMu: all the writers before it have had their time.
LEMMA LockStep ==
  ASSUME TypeOK, PingOnTime, TickOnTime, HeardOfLate, PingLock
  PROVE  PingOnTime' /\ TickOnTime' /\ HeardOfLate'
<1>1. Elapsed' = Elapsed /\ Interval' = Interval /\ PingTime' = PingTime
  BY DEF PingLock, timers, Elapsed, Interval, PingTime
<1>2. Elapsed \in Int /\ Elapsed <= Lasts(Ahead + 1)
  <2>1. Elapsed <= Lasts(ahead + 1)
    BY DEF PingLock, PingOnTime
  <2> QED
    BY <2>1, Times, PingTimeSplit, TimesAssumption
<1>3. PingOnTime'
  <2>1. Lasts(Ahead + 1) \in Nat
    BY LastsGrows, TimesAssumption
  <2> QED
    BY <1>1, <1>2, <2>1 DEF PingLock, timers, PingOnTime
<1>4. TickOnTime' /\ HeardOfLate'
  BY <1>1 DEF PingLock, timers, TickOnTime, HeardOfLate
<1> QED
  BY <1>3, <1>4

\* Another writer gets writeMu; if it does so before a PINGREQ it counts.
LEMMA OtherStep ==
  ASSUME TypeOK, PingOnTime, TickOnTime, HeardOfLate, OtherLock
  PROVE  PingOnTime' /\ TickOnTime' /\ HeardOfLate'
<1>1. Elapsed' = Elapsed /\ Interval' = Interval /\ PingTime' = PingTime
  BY DEF OtherLock, timers, Elapsed, Interval, PingTime
<1>2. ping = "lock" => Elapsed <= Lasts(ahead') + writing'
  <2>1. ping = "lock" => Elapsed <= Lasts(ahead + 1) /\ ahead' = ahead + 1 /\ writing' = 0
    BY DEF OtherLock, PingOnTime
  <2>2. Lasts(ahead + 1) \in Nat
    BY Times, TimesAssumption
  <2> QED
    BY <2>1, <2>2
<1>3. ping # "write"
  BY DEF OtherLock, TypeOK
<1>4. PingOnTime'
  BY <1>1, <1>2, <1>3 DEF OtherLock, timers, PingOnTime
<1>5. TickOnTime' /\ HeardOfLate'
  BY <1>1 DEF OtherLock, timers, TickOnTime, HeardOfLate
<1> QED
  BY <1>4, <1>5

\* A write is over: the broker has heard something.
LEMMA WriteStep ==
  ASSUME TypeOK, link = "up", PingOnTime, TickOnTime, HeardOfLate, WriteDone
  PROVE  PingOnTime' /\ TickOnTime' /\ HeardOfLate'
<1>1. Elapsed' = Elapsed /\ Interval' = Interval /\ PingTime' = PingTime
  BY DEF WriteDone, Release, timers, Elapsed, Interval, PingTime
<1>2. /\ quiet' = 0 /\ writer' = "none" /\ writing' = 0 /\ ahead' = ahead
      /\ ping' = IF writer = "ping" THEN "wait" ELSE ping
      /\ deadline' = deadline /\ phase' = phase /\ fired' = fired
  BY DEF WriteDone, Release, timers
<1>3. writing <= MaxStall /\ MaxStall \in Nat
  BY TimesAssumption DEF TypeOK
<1>4. Elapsed \in Int
  BY Times
<1>5. CASE writer = "ping"
  <2>1. ping = "write" /\ ping' = "wait" /\ deadline # NoDeadline /\ ahead = 0
    BY <1>2, <1>5 DEF TypeOK, PingOnTime
  <2>2. Elapsed <= PingTime
    BY <2>1, <1>3, Times, PingTimeSplit DEF PingOnTime
  <2>3. PingOnTime'
    BY <1>2, <2>1 DEF PingOnTime
  <2>4. Larger(Interval, PingTime) \in Nat /\ PingTime <= Larger(Interval, PingTime)
    BY PingTimeSplit, IntervalBounds DEF Larger
  <2>5. TickOnTime'
    BY <1>1, <1>2, <1>4, <2>1, <2>2, <2>4, PingTimeSplit DEF TickOnTime
  <2>6. HeardOfLate'
    BY <1>1, <1>2, <2>1, Times, IntervalBounds DEF HeardOfLate
  <2> QED
    BY <2>3, <2>5, <2>6
<1>6. CASE writer # "ping"
  <2>1. writer = "other" /\ ping # "write" /\ ping' = ping
    BY <1>2, <1>6 DEF TypeOK, WriteDone
  <2>2. ping = "lock" => Elapsed <= Lasts(ahead + 1)
    BY <2>1, <1>3, Times DEF PingOnTime
  <2>3. PingOnTime'
    BY <1>1, <1>2, <2>1, <2>2 DEF PingOnTime
  <2>4. TickOnTime'
    BY <1>1, <1>2, <2>1 DEF TickOnTime
  <2>5. ping # "wait" => 0 <= Interval + Elapsed
    BY <1>4, Times, IntervalBounds DEF HeardOfLate
  <2>6. HeardOfLate'
    BY <1>1, <1>2, <2>1, <2>5, Times, IntervalBounds DEF HeardOfLate
  <2> QED
    BY <2>3, <2>4, <2>6
<1> QED
  BY <1>5, <1>6

\* Time passes only while pingLoop has nothing to do at once.
LEMMA TimeStep ==
  ASSUME TypeOK, link = "up", PingOnTime, TickOnTime, HeardOfLate, TimePasses
  PROVE  PingOnTime' /\ TickOnTime' /\ HeardOfLate'
<1>1. Interval' = Interval /\ PingTime' = PingTime
  BY DEF TimePasses, Interval, PingTime
<1>2. /\ ping' = ping /\ writer' = writer /\ ahead' = ahead /\ quiet' = quiet + 1
      /\ ~(ping = "wait" /\ fired) /\ ~(ping = "lock" /\ writer = "none")
      /\ deadline' # NoDeadline <=> deadline # NoDeadline
  BY Times DEF TimePasses, Settled, NoDeadline
<1>3. deadline # NoDeadline => Elapsed' = Elapsed + 1
  BY Times DEF TimePasses, Elapsed, NoDeadline
<1>4. Elapsed \in Int /\ Interval \in Nat
  BY Times, IntervalBounds
<1>5. writer # "none" => writing' = writing + 1
  BY DEF TimePasses
<1>6. IF phase = 1 THEN phase' = Interval /\ fired' = TRUE
                   ELSE phase' = phase - 1 /\ fired' = fired
  BY DEF TimePasses
<1>7. phase \in Nat /\ writing \in Nat /\ quiet \in Nat
      /\ Lasts(ahead) \in Nat /\ Lasts(ahead + 1) \in Nat /\ Lasts(Ahead + 1) \in Nat
  BY Times, PingTimeSplit, IntervalBounds, TimesAssumption
<1>8. PingOnTime'
  <2>1. ping = "lock" => writer' = "other"
    BY <1>2 DEF TypeOK
  <2>2. ping = "write" => writer # "none"
    BY DEF TypeOK
  <2>3. ping = "lock" => Elapsed' <= Lasts(ahead') + writing'
    BY <1>2, <1>3, <1>4, <1>5, <1>7, <2>1 DEF PingOnTime
  <2>4. ping = "write" => Elapsed' <= Lasts(Ahead + 1) + writing'
    BY <1>2, <1>3, <1>4, <1>5, <1>7, <2>2 DEF PingOnTime
  <2> QED
    BY <1>2, <2>1, <2>3, <2>4 DEF PingOnTime
<1>9. TickOnTime'
  <2>1. ASSUME deadline # NoDeadline, ~fired' PROVE Elapsed' + phase' <= Interval'
    BY <1>1, <1>3, <1>4, <1>6, <1>7, <2>1 DEF TickOnTime
  <2>2. ASSUME deadline # NoDeadline, ping = "wait", fired'
        PROVE  Elapsed' <= Larger(Interval', PingTime')
    <3>1. ~fired /\ phase = 1
      BY <1>2, <1>6, <2>2
    <3>2. Elapsed' <= Interval
      BY <1>3, <1>4, <2>2, <3>1 DEF TickOnTime
    <3> QED
      BY <1>1, <1>3, <1>4, <2>2, <3>2, PingTimeSplit DEF Larger
  <2> QED
    BY <1>2, <2>1, <2>2 DEF TickOnTime
<1>10. HeardOfLate'
  <2>1. ASSUME ping = "wait", ~fired' PROVE quiet' + phase' <= Interval'
    BY <1>1, <1>2, <1>4, <1>6, <1>7, <2>1 DEF HeardOfLate
  <2>2. ASSUME ping = "wait", fired' PROVE quiet' <= Interval'
    BY <1>1, <1>2, <1>4, <1>6, <1>7, <2>2 DEF HeardOfLate
  <2>3. ASSUME ping # "wait" PROVE quiet' <= Interval' + Elapsed'
    BY <1>1, <1>2, <1>3, <1>4, <1>7, <2>3 DEF HeardOfLate, PingOnTime
  <2> QED
    BY <1>2, <2>1, <2>2, <2>3 DEF HeardOfLate
<1> QED
  BY <1>8, <1>9, <1>10

\* The account holds through each step of a connection that goes on working.
LEMMA WorkingStep ==
  ASSUME TypeOK, TypeOK', WorkingInv, [Next]_vars
  PROVE  WorkingInv'
<1> SUFFICES ASSUME link' = "up", Connected'
             PROVE  PingOnTime' /\ TickOnTime' /\ HeardOfLate'
  BY DEF WorkingInv
<1>1. ASSUME NEW k \in KeepAlives, Redial(k)
      PROVE  PingOnTime' /\ TickOnTime' /\ HeardOfLate'
  <2>1. /\ ping' = "wait" /\ deadline' = NoDeadline /\ ahead' = 0 /\ ~fired'
        /\ quiet' = 0 /\ phase' = Interval'
    BY <1>1 DEF Redial, Start, Interval
  <2>2. Interval' \in Nat
    <3>1. Effective(k) \in Nat
      BY KeepAlivesAssumption, TimesAssumption DEF Effective
    <3>2. Effective(k) \div 2 \in Nat
      BY <3>1
    <3> QED
      BY <1>1, <3>2, TimesAssumption DEF Redial, Start, Interval, Larger
  <2>3. PingOnTime'
    BY <2>1 DEF PingOnTime
  <2>4. TickOnTime'
    BY <2>1 DEF TickOnTime
  <2>5. HeardOfLate'
    <3>1. quiet' + phase' <= Interval' /\ quiet' <= Interval'
      <4>1. quiet' = 0 /\ phase' = Interval'
        BY <2>1, Zenon
      <4>2. \A n \in Nat : 0 + n <= n /\ 0 <= n
        OBVIOUS
      <4> QED
        BY <2>2, <4>1, <4>2, Zenon
    <3> QED
      BY <2>1, <3>1, Zenon DEF HeardOfLate
  <2> QED
    BY <2>3, <2>4, <2>5
<1>2. ASSUME link = "up", Connected PROVE PingOnTime /\ TickOnTime /\ HeardOfLate
  BY <1>2 DEF WorkingInv
<1>3. ASSUME Connected, link = "up", PingTick \/ PingLock \/ OtherLock \/ WriteDone \/ TimePasses
      PROVE  PingOnTime' /\ TickOnTime' /\ HeardOfLate'
  BY <1>2, <1>3, TickStep, LockStep, OtherStep, WriteStep, TimeStep
<1>4. ASSUME PingTick \/ PingLock \/ OtherLock \/ WriteDone \/ TimePasses
      PROVE  Connected /\ link = "up"
  BY <1>4 DEF PingTick, PingLock, OtherLock, WriteDone, TimePasses
<1>5. ~(WriteTimesOut \/ ReadTimesOut \/ KernelGivesUp \/ ReadEnds \/ Cut \/ BrokerCloses)
  BY DEF WriteTimesOut, ReadTimesOut, KernelGivesUp, ReadEnds, Fail, Cut, BrokerCloses, Connected
<1>6. ASSUME UNCHANGED vars PROVE PingOnTime' /\ TickOnTime' /\ HeardOfLate'
  <2>1. Connected /\ link = "up"
    BY <1>6 DEF vars, Connected
  <2>2. Interval' = Interval /\ PingTime' = PingTime /\ Elapsed' = Elapsed
    BY <1>6 DEF vars, timers, Interval, PingTime, Elapsed
  <2> QED
    BY <1>2, <1>6, <2>1, <2>2 DEF vars, timers, writes, PingOnTime, TickOnTime, HeardOfLate
<1> QED
  BY <1>1, <1>3, <1>4, <1>5, <1>6 DEF Next

-----------------------------------------------------------------------------
(* What follows for the two timers.                                        *)

\* The broker closes a connection that it has heard nothing on for as long as
\* the account allows.
LEMMA ClosedStep ==
  ASSUME TypeOK, WorkingInv, ClosedInv, [Next]_vars
  PROVE  ClosedInv'
<1>1. ASSUME BrokerCloses PROVE ClosedInv'
  <2>1. 2 * quiet > 3 * Wire
    BY <1>1 DEF BrokerCloses, BrokerTires
  <2>2. HeardOfLate /\ PingOnTime
    BY <1>1 DEF BrokerCloses, WorkingInv
  <2>3. alive \in Nat \ {0} /\ Wire = Smaller(alive, MaxWire) /\ Wire \in Nat
    BY AlivePositive, TimesAssumption DEF Wire, Smaller, Larger
  <2>4. writing <= MaxStall /\ MaxStall \in Nat
    BY <1>1, TimesAssumption DEF BrokerCloses, TypeOK
  <2>5. quiet <= Interval + PingTime
    <3>1. CASE ping = "wait"
      BY <2>2, <3>1, Times, IntervalBounds, PingTimeSplit, fired \in BOOLEAN DEF HeardOfLate, TypeOK
    <3>2. CASE ping = "lock"
      <4>1. writer \in {"none", "other"}
        BY <3>2 DEF TypeOK
      <4>2. Elapsed <= PingTime
        BY <2>2, <2>4, <3>2, <4>1, Times, PingTimeSplit DEF PingOnTime
      <4> QED
        BY <2>2, <3>2, <4>2, Times, IntervalBounds, PingTimeSplit DEF HeardOfLate
    <3>3. CASE ping = "write"
      <4>1. Elapsed <= PingTime
        BY <2>2, <2>4, <3>3, Times, PingTimeSplit DEF PingOnTime
      <4> QED
        BY <2>2, <3>3, <4>1, Times, IntervalBounds, PingTimeSplit DEF HeardOfLate
    <3> QED
      BY <3>1, <3>2, <3>3 DEF TypeOK
  <2>6. 3 * Smaller(alive, MaxWire) < 2 * (Interval + PingTime)
    BY <2>1, <2>3, <2>5, Times, IntervalBounds, PingTimeSplit
  <2> QED
    BY <1>1, <2>6 DEF BrokerCloses, timers, writes, ClosedInv, Interval, PingTime
<1>2. ASSUME NEW k \in KeepAlives, Redial(k) PROVE ClosedInv'
  BY <1>2 DEF Redial, Start, ClosedInv
<1>3. ASSUME link' \in {link, "cut"}, alive' = alive PROVE ClosedInv'
  BY <1>3 DEF ClosedInv, Interval, PingTime
<1>4. ASSUME ~BrokerCloses, ~\E k \in KeepAlives : Redial(k)
      PROVE  link' \in {link, "cut"} /\ alive' = alive
  BY <1>4 DEF Next, vars, PingTick, PingLock, OtherLock, WriteDone, WriteTimesOut, ReadTimesOut,
              Cut, KernelGivesUp, ReadEnds, TimePasses
<1> QED
  BY <1>1, <1>2, <1>3, <1>4

\* The read deadline passes when the account allows it.
LEMMA DeadlineStep ==
  ASSUME TypeOK, WorkingInv, ReadTimesOut, link = "up"
  PROVE  alive <= Larger(MinInterval, PingTime)
<1>1. deadline = 0 /\ deadline # NoDeadline /\ Connected
  BY DEF ReadTimesOut, Fail, NoDeadline
<1>2. PingOnTime /\ TickOnTime
  BY <1>1 DEF WorkingInv
<1>3. alive \in Nat \ {0} /\ Elapsed = alive
  BY <1>1, AlivePositive DEF Elapsed
<1>4. writing <= MaxStall /\ MaxStall \in Nat /\ MinInterval \in Nat
  BY TimesAssumption DEF TypeOK
<1>5. CASE ping = "wait"
  <2>1. CASE fired
    <3>1. alive <= Larger(Interval, PingTime)
      BY <1>1, <1>2, <1>3, <1>5, <2>1 DEF TickOnTime
    <3> QED
      BY <1>3, <1>4, <3>1, IntervalBounds, PingTimeSplit DEF Larger
  <2>2. CASE ~fired
    <3>1. alive + phase <= Interval
      BY <1>1, <1>2, <1>3, <1>5, <2>2 DEF TickOnTime
    <3> QED
      BY <1>3, <1>4, <3>1, Times, IntervalBounds, PingTimeSplit DEF Larger
  <2> QED
    BY <2>1, <2>2
<1>6. CASE ping = "lock"
  <2>1. writer \in {"none", "other"}
    BY <1>6 DEF TypeOK
  <2>2. alive <= PingTime
    BY <1>2, <1>3, <1>4, <1>6, <2>1, Times, PingTimeSplit DEF PingOnTime
  <2> QED
    BY <1>3, <1>4, <2>2, PingTimeSplit DEF Larger
<1>7. CASE ping = "write"
  <2>1. alive <= PingTime
    BY <1>2, <1>3, <1>4, <1>7, Times, PingTimeSplit DEF PingOnTime
  <2> QED
    BY <1>3, <1>4, <2>1, PingTimeSplit DEF Larger
<1> QED
  BY <1>5, <1>6, <1>7 DEF TypeOK

\* What a failed connection owes to the account.
LEMMA CauseStep ==
  ASSUME TypeOK, WorkingInv, CauseInv, [Next]_vars
  PROVE  CauseInv'
<1> USE DEF CauseInv, DeadlineIsMoved, PingTime
<1>1. ASSUME ReadTimesOut PROVE CauseInv'
  <2>1. link = "up" => alive <= Larger(MinInterval, PingTime)
    BY <1>1, DeadlineStep
  <2> QED
    BY <1>1, <2>1 DEF ReadTimesOut, Fail
<1>2. ASSUME cause' \in {"none", "write", "error"} PROVE CauseInv'
  BY <1>2
<1>3. ASSUME ReadEnds PROVE CauseInv'
  BY <1>3 DEF ReadEnds, Fail
<1>4. ASSUME WriteTimesOut \/ KernelGivesUp PROVE CauseInv'
  BY <1>2, <1>4 DEF WriteTimesOut, KernelGivesUp, Fail
<1>5. ASSUME NEW k \in KeepAlives, Redial(k) PROVE CauseInv'
  BY <1>2, <1>5 DEF Redial, Start
<1>6. ASSUME PingTick \/ PingLock \/ OtherLock \/ WriteDone \/ TimePasses \/ Cut \/ BrokerCloses
      PROVE  CauseInv'
  BY <1>2, <1>6
     DEF PingTick, PingLock, OtherLock, WriteDone, TimePasses, Cut, BrokerCloses, Connected
<1>7. ASSUME UNCHANGED vars PROVE CauseInv'
  BY <1>7 DEF vars
<1> QED
  BY <1>1, <1>3, <1>4, <1>5, <1>6, <1>7 DEF Next

\* The inductive invariant.
THEOREM TimingInvariant == Spec => []TimingInv
<1>1. Init => TimingInv
  <2> SUFFICES ASSUME Init PROVE TimingInv
    OBVIOUS
  <2>1. TypeOK
    BY InitTypes
  <2>2. WorkingInv
    BY <2>1, FreshInv, IntervalBounds DEF Init, WorkingInv
  <2>3. ClosedInv /\ CauseInv
    BY DEF Init, ClosedInv, CauseInv, DeadlineIsMoved
  <2> QED
    BY <2>1, <2>2, <2>3 DEF TimingInv
<1>2. TimingInv /\ [Next]_vars => TimingInv'
  BY TypeStep, WorkingStep, ClosedStep, CauseStep DEF TimingInv
<1> QED
  BY <1>1, <1>2, PTL DEF Spec

\* client.go, pingLoop: while the connection works the read deadline passes only
\* if the keep-alive is no longer than the least interval or than a PINGREQ takes.
THEOREM DeadlineMoves == Spec => []DeadlineIsMoved
<1>1. TimingInv => DeadlineIsMoved
  BY DEF TimingInv, CauseInv
<1> QED
  BY <1>1, TimingInvariant, PTL

\* client.go, encodeConnect and pingLoop: the broker closes a working connection
\* only if one interval and one PINGREQ exceed what it grants to the keep-alive,
\* or to the largest that CONNECT can carry.
THEOREM BrokerWaits == Spec => []BrokerIsPatient
<1>1. TimingInv => BrokerIsPatient
  BY TimesAssumption, AlivePositive
     DEF TimingInv, CauseInv, ClosedInv, BrokerIsPatient, Smaller
<1> QED
  BY <1>1, TimingInvariant, PTL
=============================================================================
