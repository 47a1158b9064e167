----------------------------- MODULE KeepAlive -----------------------------
(***************************************************************************)
(* How long one MQTT connection may be silent, internal/mqttclient/        *)
(* client.go: pingLoop against the write lock, the two deadlines of the    *)
(* connection and the broker's own keep-alive timer.                       *)
(*                                                                         *)
(* Each tick of pingLoop moves the read deadline and writes a PINGREQ, for *)
(* which it may have to wait until another publisher has let go of         *)
(* writeMu.  A packet that arrives moves no deadline: readLoop gives       *)
(* PINGRESP no meaning, so the model has none.                             *)
(*                                                                         *)
(* Time advances in units; timers hold what is left of them.  A goroutine  *)
(* that can go on does so before time passes.                              *)
(***************************************************************************)
EXTENDS Integers

CONSTANTS
    KeepAlives,     \* the values of Config.KeepAlive to consider
    DefaultAlive,   \* what Dial takes for one that is not positive: 30 s
    MinInterval,    \* the least interval of pingLoop: 5 s
    MaxWire,        \* the largest keep-alive CONNECT can carry: 65535 s
    WriteTimeout,   \* Config.PublishTimeout, the write deadline
    MaxStall,       \* how long a write on a working connection may take
    Ahead,          \* writers that may be before a PINGREQ in writeMu's queue
    SendBuffer      \* packets the kernel takes for a connection that is cut

ASSUME KeepAlivesAssumption == KeepAlives \subseteq Int
ASSUME TimesAssumption ==
    /\ {DefaultAlive, MinInterval, MaxWire, WriteTimeout} \subseteq Nat \ {0}
    /\ {MaxStall, Ahead, SendBuffer} \subseteq Nat
    /\ MaxStall < WriteTimeout

Larger(m, n) == IF m > n THEN m ELSE n
Smaller(m, n) == IF m < n THEN m ELSE n

VARIABLES
    alive,      \* cfg.KeepAlive of this connection, after Dial's default
    cause,      \* why the client failed: "none" while it is connected
    link,       \* "up", "cut" beyond the broker's or our sight, or "closed" by it
    phase,      \* time left to the next tick
    fired,      \* a tick waits in the ticker's channel, which holds one
    deadline,   \* time left to the read deadline, or NoDeadline
    ping,       \* pingLoop: "wait", "lock", "write"
    writer,     \* who holds writeMu: "none", "ping" or "other"
    writing,    \* for how long
    ahead,      \* writers that got writeMu since pingLoop waits for it
    buffered,   \* packets written since the connection was cut
    quiet       \* time since the broker last received a packet

timers == <<phase, fired, deadline>>
writes == <<ping, writer, writing, ahead, buffered>>
vars == <<alive, cause, link, timers, writes, quiet>>

NoDeadline == -1

\* Dial, and the interval of pingLoop.
Effective(k) == IF k <= 0 THEN DefaultAlive ELSE k
Interval == Larger(alive \div 2, MinInterval)

\* Variant of Wire: the 16-bit field wraps.
WireWraps == alive % (MaxWire + 1)

\* encodeConnect: the keep-alive the broker is told; it closes a connection
\* that has been silent for more than one and a half times as long.
Wire == Smaller(Larger(alive, 1), MaxWire)
BrokerTires == 2 * quiet > 3 * Wire

Connected == cause = "none"

\* fail: pingLoop and readLoop end.
Fail(why) == Connected /\ cause' = why

-----------------------------------------------------------------------------
\* Dial has returned: no deadline is set, the ticker starts.
Start(k) ==
    /\ alive' = Effective(k) /\ cause' = "none" /\ link' = "up"
    /\ phase' = Larger(Effective(k) \div 2, MinInterval)
    /\ fired' = FALSE /\ deadline' = NoDeadline
    /\ ping' = "wait" /\ writer' = "none" /\ writing' = 0 /\ ahead' = 0
    /\ buffered' = 0 /\ quiet' = 0

Init ==
    /\ \E k \in KeepAlives : alive = Effective(k)
    /\ cause = "none" /\ link = "up"
    /\ phase = Interval /\ fired = FALSE /\ deadline = NoDeadline
    /\ ping = "wait" /\ writer = "none" /\ writing = 0 /\ ahead = 0
    /\ buffered = 0 /\ quiet = 0

\* The manager dials again.
Redial(k) == ~Connected /\ Start(k)

-----------------------------------------------------------------------------
(* pingLoop and the other writers.                                         *)

\* Variant of PingTick: the deadline is not moved while one is pending.
PingTickOnce ==
    /\ Connected /\ ping = "wait" /\ fired
    /\ fired' = FALSE
    /\ deadline' = IF deadline = NoDeadline THEN alive ELSE deadline
    /\ ping' = "lock"
    /\ UNCHANGED <<alive, cause, link, phase, writer, writing, ahead, buffered, quiet>>

\* A tick: the read deadline moves, then writePacket asks for writeMu.
PingTick ==
    /\ Connected /\ ping = "wait" /\ fired
    /\ fired' = FALSE
    /\ deadline' = alive
    /\ ping' = "lock"
    /\ UNCHANGED <<alive, cause, link, phase, writer, writing, ahead, buffered, quiet>>

PingLock ==
    /\ Connected /\ ping = "lock" /\ writer = "none"
    /\ ping' = "write" /\ writer' = "ping" /\ writing' = 0 /\ ahead' = 0
    /\ UNCHANGED <<alive, cause, link, timers, buffered, quiet>>

\* A publisher, or readLoop with a PUBACK, gets writeMu.
OtherLock ==
    /\ Connected /\ writer = "none"
    /\ IF ping = "lock" THEN ahead < Ahead /\ ahead' = ahead + 1
                        ELSE UNCHANGED ahead
    /\ writer' = "other" /\ writing' = 0
    /\ UNCHANGED <<alive, cause, link, timers, ping, buffered, quiet>>

\* Variant of Release: pingLoop does not go back to its ticker.
ReleaseStuck ==
    /\ writer' = "none" /\ writing' = 0
    /\ UNCHANGED <<ping, ahead>>

Release ==
    /\ writer' = "none" /\ writing' = 0
    /\ ping' = IF writer = "ping" THEN "wait" ELSE ping
    /\ UNCHANGED ahead

\* conn.Write returns: the packet is with the broker, or in the kernel.
WriteDone ==
    /\ Connected /\ writer # "none"
    /\ CASE link = "up"  -> quiet' = 0 /\ UNCHANGED buffered
         [] link = "cut" -> /\ buffered < SendBuffer /\ buffered' = buffered + 1
                            /\ UNCHANGED quiet
         [] OTHER        -> FALSE
    /\ Release
    /\ UNCHANGED <<alive, cause, link, timers>>

\* Variant of WriteTimesOut: no write deadline is set.
WriteTimesOutNever == FALSE /\ UNCHANGED vars

\* The write deadline passes: Publish or pingLoop calls fail.
WriteTimesOut ==
    /\ writer # "none" /\ writing >= WriteTimeout
    /\ Fail("write")
    /\ UNCHANGED <<alive, link, timers, writes, quiet>>

\* The read deadline passes: readLoop calls fail, whatever has arrived.
ReadTimesOut ==
    /\ deadline = 0
    /\ Fail("deadline")
    /\ UNCHANGED <<alive, link, timers, writes, quiet>>

-----------------------------------------------------------------------------
(* The network and the broker.                                             *)

Cut ==
    /\ Connected /\ link = "up" /\ link' = "cut"
    /\ UNCHANGED <<alive, cause, timers, writes, quiet>>

\* TCP gives up on a connection that is cut.
KernelGivesUp ==
    /\ link = "cut"
    /\ Fail("error")
    /\ UNCHANGED <<alive, link, timers, writes, quiet>>

BrokerCloses ==
    /\ Connected /\ link = "up" /\ BrokerTires
    /\ link' = "closed"
    /\ UNCHANGED <<alive, cause, timers, writes, quiet>>

\* readLoop reads the end of the stream.
ReadEnds ==
    /\ link = "closed"
    /\ Fail("broker")
    /\ UNCHANGED <<alive, link, timers, writes, quiet>>

-----------------------------------------------------------------------------
\* Nothing is to be done at once: no tick to handle, no lock to take, no
\* deadline or end of stream to notice, no write that has to be over.
Settled ==
    /\ ~(ping = "wait" /\ fired)
    /\ ~(ping = "lock" /\ writer = "none")
    /\ deadline # 0 /\ link # "closed"
    /\ writer # "none" => writing < (IF link = "up" THEN MaxStall ELSE WriteTimeout)
    /\ ~(link = "up" /\ BrokerTires)

TimePasses ==
    /\ Connected /\ Settled
    /\ IF phase = 1 THEN phase' = Interval /\ fired' = TRUE
                    ELSE phase' = phase - 1 /\ UNCHANGED fired
    /\ deadline' = IF deadline = NoDeadline THEN NoDeadline ELSE deadline - 1
    /\ writing' = IF writer = "none" THEN 0 ELSE writing + 1
    /\ quiet' = IF link = "up" THEN quiet + 1 ELSE quiet
    /\ UNCHANGED <<alive, cause, link, ping, writer, ahead, buffered>>

Next ==
    \/ \E k \in KeepAlives : Redial(k)
    \/ PingTick \/ PingLock \/ OtherLock
    \/ WriteDone \/ WriteTimesOut \/ ReadTimesOut
    \/ Cut \/ KernelGivesUp \/ BrokerCloses \/ ReadEnds
    \/ TimePasses

Spec == Init /\ [][Next]_vars

\* Time passes, pingLoop runs, and the deadlines the client sets are kept by the
\* runtime.  Nothing makes others write, nor TCP give up.
Fairness ==
    /\ WF_vars(TimePasses) /\ WF_vars(PingTick)
    /\ SF_vars(PingLock)
    /\ WF_vars(WriteDone \/ WriteTimesOut)
    /\ WF_vars(ReadTimesOut) /\ WF_vars(ReadEnds)

FairSpec == Spec /\ Fairness

-----------------------------------------------------------------------------
(* Properties.                                                             *)

\* The type invariant; a write on a working connection is over in MaxStall.
TypeOK ==
    /\ alive \in {Effective(k) : k \in KeepAlives}
    /\ cause \in {"none", "write", "deadline", "error", "broker"}
    /\ link \in {"up", "cut", "closed"}
    /\ phase \in 1 .. Interval /\ fired \in BOOLEAN
    /\ deadline \in 0 .. alive \cup {NoDeadline}
    /\ ping \in {"wait", "lock", "write"}
    /\ writer \in {"none", "ping", "other"}
    /\ writer = "ping" <=> ping = "write"
    /\ writing \in 0 .. WriteTimeout
    /\ link = "up" => writing <= MaxStall
    /\ ahead \in 0 .. Ahead /\ buffered \in 0 .. SendBuffer
    /\ quiet \in Nat

\* The longest a PINGREQ takes: the writer at work, those ahead, its own write.
PingTime == (Ahead + 2) * MaxStall

\* pingLoop: "SetReadDeadline(time.Now().Add(c.cfg.KeepAlive))" on each tick.
\* While the connection works the deadline passes only if the keep-alive is no
\* longer than the least interval between two ticks (5 s) or than a PINGREQ can
\* take: an agent with nothing to read does not drop a good connection.  No
\* answer of the broker is needed for this, so the deadline does not find a
\* broker that takes packets and says nothing either.
DeadlineIsMoved ==
    cause = "deadline" /\ link = "up" => alive <= Larger(MinInterval, PingTime)

\* encodeConnect clamps the keep-alive it announces, and pingLoop its interval.
\* The broker gives up a working connection only if the keep-alive is so short
\* that a PINGREQ at the least interval comes too late, or so long that half of
\* it, the interval, exceeds what the broker has been told.
BrokerIsPatient ==
    cause = "broker" =>
        \/ 3 * alive < 2 * (Interval + PingTime)
        \/ 3 * MaxWire < 2 * (Interval + PingTime)

\* A connection that is cut is noticed though nobody publishes and TCP does not
\* give up: PINGREQs go on until one meets its write deadline.
CutIsNoticed == link = "cut" ~> ~Connected \/ link # "cut"
=============================================================================
