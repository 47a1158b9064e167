----------------------------- MODULE MqttClient -----------------------------
(***************************************************************************)
(* One MQTT connection, internal/mqttclient/client.go: the life of a       *)
(* Client from Dial's return to the end of fail.                           *)
(*                                                                         *)
(* Several goroutines publish at once: each allocates a packet identifier, *)
(* leaves a channel for it in pending, writes under writeMu and waits for  *)
(* the channel, its timer or done.  readLoop hands PUBACKs to the          *)
(* channels; any of them, or Disconnect, may call fail, whose steps run    *)
(* once, in the goroutine that came first, while the others wait.          *)
(*                                                                         *)
(* Publications are numbered in the order they register, so a channel that *)
(* outlives its publication is told from the next one of the goroutine.    *)
(***************************************************************************)
EXTENDS Integers, Sequences, FiniteSets

CONSTANTS
    Publishers,     \* goroutines that call Publish
    Closer,         \* the goroutine that calls Disconnect
    IdSpace,        \* number of packet identifiers, 0 included: 2^16 in the code
    IdsOutrun,      \* may the identifiers wrap onto one still in flight?
    Verdicts,       \* bound of the exploration: the answers the broker may give
    MaxPublishes    \* bound of the exploration: publications ever begun

ASSUME ProcsAssumption == Closer \notin Publishers
ASSUME IdAssumption == IdSpace \in Nat /\ IdSpace > 1
ASSUME PublishesAssumption == MaxPublishes \in Nat
ASSUME VerdictsAssumption == Verdicts \subseteq {"ok", "rejected"}
ASSUME OutrunAssumption == IdsOutrun \in BOOLEAN

Procs == Publishers \cup {Closer}
Ops == 1 .. MaxPublishes
Ids == 1 .. (IdSpace - 1)

VARIABLES
    connected,  \* Client.connected
    closing,    \* fail: "open", "begun", "closed", "notified", "done"
    link,       \* the connection: "up", "closed" here, or "cut" beyond
    packetID,   \* Client.packetID, modulo IdSpace
    pending,    \* Client.pending: the publication whose channel it holds, or 0
    writeMu,    \* {} or the one goroutine that holds Client.writeMu
    pc,         \* where each goroutine is in Publish or Disconnect
    op,         \* the publication each publisher is at, 0 for none
    ops,        \* history: number of publications begun
    idOf,       \* the identifier of each publication, 0 at QoS 0
    chan,       \* the buffered channel of each publication
    outcome,    \* what each Publish returned: "none" yet, "nil" or "error"
    reader,     \* readLoop: "read", "send" a result to a channel, "stopped"
    held,       \* the publication and the result readLoop is about to send
    toBroker,   \* packets written and not yet read by the broker
    toClient,   \* packets sent by the broker and not yet read by readLoop
    accepted    \* history: publications the broker has taken

conn == <<connected, closing, link>>
publishing == <<packetID, pending, op, ops, idOf, chan, outcome>>
reading == <<reader, held>>
wire == <<toBroker, toClient, accepted>>
vars == <<conn, publishing, writeMu, pc, reading, wire>>

-----------------------------------------------------------------------------
\* nextPacketID: the counter wraps, and 0 is skipped.
NextId(n) == IF (n + 1) % IdSpace = 0 THEN 1 ELSE (n + 1) % IdSpace

\* An identifier whose publication, packet or acknowledgement is still around.  The
\* code does not look: ~IdsOutrun assumes that none is met when the counter wraps.
InFlight(id) ==
    \/ pending[id] # 0
    \/ \E k \in DOMAIN toBroker : toBroker[k].id = id
    \/ \E k \in DOMAIN toClient : toClient[k].id = id

\* fail: the first caller marks the client disconnected; later ones change
\* nothing and wait for it to finish (closeOnce).
CallFail ==
    /\ closing' = IF closing = "open" THEN "begun" ELSE closing
    /\ connected' = FALSE

Goto(p, where) == pc' = [pc EXCEPT ![p] = where]

\* Variant of Unregister: the deferred delete is missing.
UnregisterMissing(n) == UNCHANGED pending

\* Publish returns: its deferred function deletes the entry of its identifier.
Unregister(n) ==
    pending' = IF idOf[n] = 0 THEN pending ELSE [pending EXCEPT ![idOf[n]] = 0]

Return(p, result) ==
    /\ outcome' = [outcome EXCEPT ![op[p]] = result]
    /\ Unregister(op[p])
    /\ op' = [op EXCEPT ![p] = 0]
    /\ Goto(p, "idle")

-----------------------------------------------------------------------------
\* Just after Dial: CONNACK read, readLoop and pingLoop started.
Init ==
    /\ connected = TRUE /\ closing = "open" /\ link = "up"
    /\ packetID = 0 /\ pending = [id \in Ids |-> 0]
    /\ writeMu = {} /\ pc = [p \in Procs |-> "idle"]
    /\ op = [p \in Publishers |-> 0] /\ ops = 0
    /\ idOf = [n \in Ops |-> 0]
    /\ chan = [n \in Ops |-> "empty"]
    /\ outcome = [n \in Ops |-> "none"]
    /\ reader = "read" /\ held = [op |-> 0, result |-> "empty"]
    /\ toBroker = <<>> /\ toClient = <<>> /\ accepted = {}

-----------------------------------------------------------------------------
(* Publish.                                                                *)

\* The check of IsConnected passes; the registration follows later.
PublishStart(p) ==
    /\ pc[p] = "idle" /\ connected
    /\ ops + Cardinality({q \in Publishers : pc[q] = "register"}) < MaxPublishes
    /\ Goto(p, "register")
    /\ UNCHANGED <<conn, publishing, writeMu, reading, wire>>

\* At QoS 1 allocate an identifier and leave a new channel in pending.
Register(p, qos) ==
    LET n == ops + 1
        id == IF qos = 1 THEN NextId(packetID) ELSE 0
    IN  /\ pc[p] = "register" /\ n \in Ops
        /\ id # 0 => IdsOutrun \/ ~InFlight(id)
        /\ ops' = n /\ op' = [op EXCEPT ![p] = n]
        /\ idOf' = [idOf EXCEPT ![n] = id]
        /\ IF id = 0 THEN UNCHANGED <<packetID, pending>>
           ELSE packetID' = id /\ pending' = [pending EXCEPT ![id] = n]
        /\ Goto(p, "lock")
        /\ UNCHANGED <<conn, writeMu, chan, outcome, reading, wire>>

\* Variant of LockToWrite: writeMu is not taken.
LockToWriteShared(p) ==
    /\ pc[p] = "lock"
    /\ IF connected THEN Goto(p, "write") /\ writeMu' = {p}
                    ELSE Goto(p, "failing") /\ UNCHANGED writeMu
    /\ UNCHANGED <<conn, publishing, reading, wire>>

\* writePacket takes writeMu and looks at connected; if the client is not
\* connected it returns an error, on which Publish calls fail.
LockToWrite(p) ==
    /\ pc[p] = "lock" /\ writeMu = {}
    /\ IF connected THEN Goto(p, "write") /\ writeMu' = {p}
                    ELSE Goto(p, "failing") /\ UNCHANGED writeMu
    /\ UNCHANGED <<conn, publishing, reading, wire>>

Packet(p) ==
    IF p = Closer THEN [kind |-> "DISCONNECT", id |-> 0, op |-> 0]
    ELSE [kind |-> "PUBLISH", id |-> idOf[op[p]], op |-> op[p]]

\* conn.Write takes the whole packet.  What is written to a connection that is
\* already cut goes nowhere.
Write(p) ==
    /\ pc[p] = "write" /\ link # "closed"
    /\ toBroker' = IF link = "up" THEN Append(toBroker, Packet(p)) ELSE toBroker
    /\ writeMu' = {}
    /\ IF p # Closer /\ idOf[op[p]] = 0
       THEN Return(p, "nil") /\ UNCHANGED <<packetID, ops, idOf, chan>>
       ELSE /\ Goto(p, IF p = Closer THEN "failing" ELSE "wait")
            /\ UNCHANGED publishing
    /\ UNCHANGED <<conn, reading, toClient, accepted>>

\* conn.Write fails or passes its deadline: Publish and Disconnect call fail.
WriteFails(p) ==
    /\ pc[p] = "write"
    /\ writeMu' = {} /\ Goto(p, "failing")
    /\ UNCHANGED <<conn, publishing, reading, wire>>

\* The call of fail in Publish or Disconnect, then its wait for closeOnce.
Fail(p) ==
    /\ pc[p] = "failing"
    /\ CallFail /\ Goto(p, "once")
    /\ UNCHANGED <<link, publishing, writeMu, reading, wire>>

FailReturns(p) ==
    /\ pc[p] = "once" /\ closing = "done"
    /\ IF p = Closer
       THEN Goto(p, "gone") /\ UNCHANGED publishing
       ELSE Return(p, "error") /\ UNCHANGED <<packetID, ops, idOf, chan>>
    /\ UNCHANGED <<conn, writeMu, reading, wire>>

\* The select of Publish, when its channel has a result.
Answered(p) ==
    /\ pc[p] = "wait" /\ chan[op[p]] # "empty"
    /\ Return(p, IF chan[op[p]] = "ok" THEN "nil" ELSE "error")
    /\ UNCHANGED <<conn, packetID, ops, idOf, chan, writeMu, reading, wire>>

\* The select of Publish, when done is closed.
ClientDone(p) ==
    /\ pc[p] = "wait" /\ closing = "done"
    /\ Return(p, "error")
    /\ UNCHANGED <<conn, packetID, ops, idOf, chan, writeMu, reading, wire>>

\* Variant of Timeout: the select lacks the timer.
TimeoutMissing(p) ==
    /\ pc[p] = "wait" /\ closing = "done"
    /\ Return(p, "error")
    /\ UNCHANGED <<conn, packetID, ops, idOf, chan, writeMu, reading, wire>>

\* The select of Publish, when its timer fires or its context ends.
Timeout(p) ==
    /\ pc[p] = "wait"
    /\ Return(p, "error")
    /\ UNCHANGED <<conn, packetID, ops, idOf, chan, writeMu, reading, wire>>

-----------------------------------------------------------------------------
(* Disconnect, pingLoop and the steps of fail.                             *)

Disconnect ==
    /\ pc[Closer] = "idle"
    /\ Goto(Closer, IF connected THEN "lock" ELSE "failing")
    /\ UNCHANGED <<conn, publishing, writeMu, reading, wire>>

\* The write of a PINGREQ fails.
PingFails ==
    /\ connected /\ writeMu = {}
    /\ CallFail
    /\ UNCHANGED <<link, publishing, writeMu, pc, reading, wire>>

\* Packets written before the Close still reach the broker.
CloseConn ==
    /\ closing = "begun" /\ closing' = "closed"
    /\ link' = IF link = "up" THEN "closed" ELSE link
    /\ UNCHANGED <<connected, publishing, writeMu, pc, reading, wire>>

\* Variant of NotifyPending: the waiters get a nil error.
NotifyPendingNil ==
    /\ closing = "closed" /\ closing' = "notified"
    /\ chan' = [n \in Ops |-> IF \E id \in Ids : pending[id] = n /\ chan[n] = "empty"
                              THEN "ok" ELSE chan[n]]
    /\ pending' = [id \in Ids |-> 0]
    /\ UNCHANGED <<connected, link, packetID, op, ops, idOf, outcome, writeMu,
                   pc, reading, wire>>

\* Variant of NotifyPending: the map is replaced and nobody is told.
NotifyPendingSilent ==
    /\ closing = "closed" /\ closing' = "notified"
    /\ pending' = [id \in Ids |-> 0]
    /\ UNCHANGED <<connected, link, packetID, op, ops, idOf, chan, outcome, writeMu,
                   pc, reading, wire>>

\* Every channel in pending gets ErrNotConnected unless it is full already.
NotifyPending ==
    /\ closing = "closed" /\ closing' = "notified"
    /\ chan' = [n \in Ops |-> IF \E id \in Ids : pending[id] = n /\ chan[n] = "empty"
                              THEN "lost" ELSE chan[n]]
    /\ pending' = [id \in Ids |-> 0]
    /\ UNCHANGED <<connected, link, packetID, op, ops, idOf, outcome, writeMu,
                   pc, reading, wire>>

CloseDone ==
    /\ closing = "notified" /\ closing' = "done"
    /\ UNCHANGED <<connected, link, publishing, writeMu, pc, reading, wire>>

-----------------------------------------------------------------------------
(* readLoop.                                                               *)

\* A PUBACK: look its identifier up in pending.
ReadPuback ==
    /\ reader = "read" /\ toClient # <<>>
    /\ Head(toClient).kind = "PUBACK"
    /\ toClient' = Tail(toClient)
    /\ LET n == pending[Head(toClient).id]
       IN  IF n = 0 THEN UNCHANGED reading
           ELSE /\ reader' = "send"
                /\ held' = [op |-> n, result |-> Head(toClient).result]
    /\ UNCHANGED <<conn, publishing, writeMu, pc, toBroker, accepted>>

\* Then, pendingMu released, send the result without blocking.
SendResult ==
    /\ reader = "send"
    /\ chan' = [chan EXCEPT ![held.op] = IF @ = "empty" THEN held.result ELSE @]
    /\ reader' = "read" /\ held' = [op |-> 0, result |-> "empty"]
    /\ UNCHANGED <<conn, packetID, pending, op, ops, idOf, outcome, writeMu, pc, wire>>

\* Variant of ReadEnds: the loop returns without calling fail.
ReadEndsQuietly ==
    /\ reader = "read"
    /\ \/ link # "up"
       \/ toClient # <<>> /\ Head(toClient).kind = "DISCONNECT"
    /\ reader' = "stopped"
    /\ UNCHANGED <<conn, publishing, writeMu, pc, held, wire>>

\* A DISCONNECT from the broker, or a read error once the connection is gone;
\* what was received and not read is lost.
ReadEnds ==
    /\ reader = "read"
    /\ \/ link # "up"
       \/ toClient # <<>> /\ Head(toClient).kind = "DISCONNECT"
    /\ reader' = "stopped"
    /\ CallFail
    /\ UNCHANGED <<link, publishing, writeMu, pc, held, wire>>

-----------------------------------------------------------------------------
(* The broker and the network.                                             *)

Send(packet) == toClient' = IF link = "up" THEN Append(toClient, packet) ELSE toClient

\* The broker takes a publication, and answers at QoS 1; or refuses it with a
\* reason code of 0x80 or above.
BrokerPublish(result) ==
    /\ toBroker # <<>> /\ Head(toBroker).kind = "PUBLISH" /\ link # "cut"
    /\ toBroker' = Tail(toBroker)
    /\ accepted' = IF result = "ok" THEN accepted \cup {Head(toBroker).op} ELSE accepted
    /\ IF Head(toBroker).id = 0 THEN UNCHANGED toClient
       ELSE Send([kind |-> "PUBACK", id |-> Head(toBroker).id, result |-> result])
    /\ UNCHANGED <<conn, publishing, writeMu, pc, reading>>

\* The broker reads our DISCONNECT and closes; or it, or the network, ends the
\* connection on its own, with or without a DISCONNECT.
BrokerCloses(packets) ==
    /\ link # "cut" /\ link' = "cut"
    /\ toBroker' = <<>>
    /\ toClient' = IF link = "up" THEN toClient \o packets ELSE toClient
    /\ UNCHANGED <<connected, closing, publishing, writeMu, pc, reading, accepted>>

-----------------------------------------------------------------------------
Publish(p) ==
    \/ PublishStart(p)
    \/ \E qos \in {0, 1} : Register(p, qos)
    \/ Answered(p)
    \/ ClientDone(p)
    \/ Timeout(p)

WriterStep(p) == LockToWrite(p) \/ Write(p) \/ WriteFails(p) \/ Fail(p) \/ FailReturns(p)

FailSteps == CloseConn \/ NotifyPending \/ CloseDone

ReadLoop == ReadPuback \/ SendResult \/ ReadEnds

Broker ==
    \/ \E result \in Verdicts : BrokerPublish(result)
    \/ \E packets \in {<<>>, <<[kind |-> "DISCONNECT", id |-> 0, result |-> "empty"]>>} :
          BrokerCloses(packets)

Next ==
    \/ \E p \in Publishers : Publish(p)
    \/ \E p \in Procs : WriterStep(p)
    \/ Disconnect
    \/ PingFails
    \/ FailSteps
    \/ ReadLoop
    \/ Broker

Spec == Init /\ [][Next]_vars

\* Goroutines keep running, the mutex is fair, and the timer of a wait fires.
\* Nothing is asked of the broker or the network.
Fairness ==
    /\ \A p \in Procs : SF_vars(LockToWrite(p)) /\ WF_vars(Write(p) \/ WriteFails(p))
    /\ \A p \in Procs : WF_vars(Fail(p) \/ FailReturns(p))
    /\ \A p \in Publishers :
         /\ WF_vars(\E qos \in {0, 1} : Register(p, qos))
         /\ WF_vars(Answered(p) \/ ClientDone(p) \/ Timeout(p))
    /\ WF_vars(FailSteps) /\ WF_vars(ReadLoop)

FairSpec == Spec /\ Fairness

-----------------------------------------------------------------------------
(* Properties.                                                             *)

PacketToBroker ==
    [kind : {"PUBLISH"}, id : Ids \cup {0}, op : Ops]
    \cup [kind : {"DISCONNECT"}, id : {0}, op : {0}]
PacketToClient ==
    [kind : {"PUBACK"}, id : Ids, result : {"ok", "rejected"}]
    \cup [kind : {"DISCONNECT"}, id : {0}, result : {"empty"}]

\* The type invariant: writeMu has one owner, the goroutine that is writing,
\* and a publisher has a publication from its registration to its return.
TypeOK ==
    /\ connected \in BOOLEAN
    /\ closing \in {"open", "begun", "closed", "notified", "done"}
    /\ link \in {"up", "closed", "cut"}
    /\ connected <=> closing = "open"
    /\ packetID \in 0 .. IdSpace - 1
    /\ pending \in [Ids -> Ops \cup {0}]
    /\ pc \in [Procs -> {"idle", "register", "lock", "write", "wait", "failing",
                         "once", "gone"}]
    /\ writeMu = {} \/ \E p \in Procs : writeMu = {p}
    /\ \A p \in Procs : p \in writeMu <=> pc[p] = "write"
    /\ op \in [Publishers -> Ops \cup {0}]
    /\ \A p \in Publishers : op[p] = 0 <=> pc[p] \in {"idle", "register"}
    /\ ops \in Ops \cup {0}
    /\ idOf \in [Ops -> Ids \cup {0}]
    /\ chan \in [Ops -> {"empty", "ok", "rejected", "lost"}]
    /\ outcome \in [Ops -> {"none", "nil", "error"}]
    /\ reader \in {"read", "send", "stopped"}
    /\ held \in [op : Ops \cup {0}, result : {"empty", "ok", "rejected"}]
    /\ reader = "send" <=> held.op # 0
    /\ toBroker \in Seq(PacketToBroker)
    /\ toClient \in Seq(PacketToClient)
    /\ accepted \subseteq Ops

\* At QoS 1 Publish returns nil only for a publication that the broker has
\* taken: not on another's PUBACK, a refusal, a timeout or a closed connection.
\* Drain removes a record from the spool on the strength of it.
NilMeansAccepted ==
    \A n \in Ops : outcome[n] = "nil" /\ idOf[n] # 0 => n \in accepted

\* A publisher that waits can be reached: its channel has a result, or pending
\* leads to it, so that neither a PUBACK nor fail can miss it.
NoLostWaiter ==
    \A p \in Publishers :
        pc[p] = "wait" => chan[op[p]] # "empty" \/ pending[idOf[op[p]]] = op[p]

\* pending holds no channel of a Publish that has returned.
PendingIsOwned ==
    \A id \in Ids : pending[id] # 0 =>
        \E p \in Publishers : op[p] = pending[id] /\ idOf[op[p]] = id

\* Publish and Disconnect return, whatever the broker and the network do.
EveryCallReturns ==
    \A p \in Procs : pc[p] \notin {"idle", "gone"} ~> pc[p] \in {"idle", "gone"}

\* Once the connection is gone Done is closed, so Manager.Run goes on to
\* reconnect, and nobody waits any more.
DeathIsNoticed ==
    link = "cut" ~> closing = "done" /\ \A p \in Publishers : pc[p] # "wait"
=============================================================================
