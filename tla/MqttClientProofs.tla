-------------------------- MODULE MqttClientProofs --------------------------
(* Theorems about MqttClient, for every set of publishers, every number of  *)
(* packet identifiers and of publications.                                  *)
EXTENDS MqttClient, TLAPS

USE IdAssumption, ProcsAssumption, PublishesAssumption

LEMMA NextIdInRange ==
    ASSUME NEW n \in 0 .. IdSpace - 1
    PROVE  NextId(n) \in Ids
<1>1. n + 1 = IdSpace => (n + 1) % IdSpace = 0
  OBVIOUS
<1>2. n + 1 < IdSpace => (n + 1) % IdSpace = n + 1
  OBVIOUS
<1> QED
  BY <1>1, <1>2 DEF NextId, Ids

\* A return keeps the types, and gives writeMu back if it comes from a write.
LEMMA ReturnTypes ==
    ASSUME TypeOK, NEW p \in Publishers, NEW result \in {"nil", "error"},
           op[p] # 0, Return(p, result), writeMu' = writeMu \ {p},
           toBroker' \in Seq(PacketToBroker),
           UNCHANGED <<conn, packetID, ops, idOf, chan, reading, toClient, accepted>>
    PROVE  TypeOK'
<1> USE DEF conn, reading
<1>1. /\ outcome' \in [Ops -> {"none", "nil", "error"}]
      /\ pending' \in [Ids -> Ops \cup {0}]
  BY DEF TypeOK, Return, Unregister
<1>2. /\ op' = [op EXCEPT ![p] = 0] /\ pc' = [pc EXCEPT ![p] = "idle"]
  BY DEF Return, Goto
<1>3. /\ op' \in [Publishers -> Ops \cup {0}]
      /\ pc' \in [Procs -> {"idle", "register", "lock", "write", "wait",
                            "failing", "once", "gone"}]
      /\ \A q \in Publishers : op'[q] = 0 <=> pc'[q] \in {"idle", "register"}
  BY <1>2 DEF TypeOK, Procs
<1>4. writeMu' = {} \/ \E q \in Procs : writeMu' = {q}
  <2>1. CASE writeMu = {}
    BY <2>1
  <2>2. CASE writeMu # {}
    <3>1. PICK q \in Procs : writeMu = {q}
      BY <2>2 DEF TypeOK
    <3>2. writeMu' = {} \/ writeMu' = {q}
      BY <3>1
    <3> QED
      BY <3>2
  <2> QED
    BY <2>1, <2>2
<1>5. \A q \in Procs : q \in writeMu' <=> pc'[q] = "write"
  <2> TAKE q \in Procs
  <2>1. q \in writeMu' <=> q \in writeMu /\ q # p
    OBVIOUS
  <2>2. pc'[q] = IF q = p THEN "idle" ELSE pc[q]
    BY <1>2 DEF TypeOK, Procs
  <2> QED
    BY <2>1, <2>2 DEF TypeOK
<1> QED
  BY <1>1, <1>3, <1>4, <1>5 DEF TypeOK

(* The type invariant for any number of goroutines: one of them writes at a *)
(* time, and a publication lasts from its registration to its return.       *)
THEOREM ClientTypeCorrect == Spec => []TypeOK
<1>1. Init => TypeOK
  BY DEF Init, TypeOK, Procs
<1>2. TypeOK /\ [Next]_vars => TypeOK'
  <2> SUFFICES ASSUME TypeOK, [Next]_vars PROVE TypeOK'
    OBVIOUS
  <2> USE DEF conn, publishing, reading, wire, Procs
  <2>1. ASSUME NEW p \in Publishers, PublishStart(p) PROVE TypeOK'
    BY <2>1 DEF TypeOK, PublishStart, Goto
  <2>2. ASSUME NEW p \in Publishers, NEW qos \in {0, 1}, Register(p, qos) PROVE TypeOK'
    <3> DEFINE id == IF qos = 1 THEN NextId(packetID) ELSE 0
    <3>1. id \in Ids \cup {0} /\ ops + 1 \in Ops /\ ops + 1 # 0
      BY <2>2, NextIdInRange DEF Register, TypeOK, Ops
    <3>2. packetID' \in 0 .. IdSpace - 1
      BY <2>2, <3>1 DEF Register, TypeOK, Ids
    <3>5. pending' \in [Ids -> Ops \cup {0}]
      BY <2>2, <3>1 DEF Register, TypeOK
    <3>3. op' = [op EXCEPT ![p] = ops + 1] /\ idOf' = [idOf EXCEPT ![ops + 1] = id]
      BY <2>2 DEF Register
    <3> QED
      BY <2>2, <3>1, <3>2, <3>3, <3>5 DEF TypeOK, Register, Goto
  <2>3. ASSUME NEW p \in Publishers, Answered(p) PROVE TypeOK'
    <3>1. op[p] # 0 /\ writeMu' = writeMu \ {p} /\ toBroker' \in Seq(PacketToBroker)
      BY <2>3 DEF TypeOK, Answered
    <3> QED
      BY <2>3, <3>1, ReturnTypes DEF Answered
  <2>4. ASSUME NEW p \in Publishers, ClientDone(p) \/ Timeout(p) PROVE TypeOK'
    <3>1. op[p] # 0 /\ writeMu' = writeMu \ {p} /\ toBroker' \in Seq(PacketToBroker)
      BY <2>4 DEF TypeOK, ClientDone, Timeout
    <3> QED
      BY <2>4, <3>1, ReturnTypes DEF ClientDone, Timeout
  <2>5. ASSUME NEW p \in Procs, LockToWrite(p) PROVE TypeOK'
    <3>1. CASE connected
      <4>1. \A q \in Procs : pc[q] # "write"
        BY <2>5 DEF TypeOK, LockToWrite
      <4>2. writeMu' = {p} /\ pc' = [pc EXCEPT ![p] = "write"]
        BY <2>5, <3>1 DEF LockToWrite, Goto
      <4>3. \A q \in Procs : q \in writeMu' <=> pc'[q] = "write"
        BY <4>1, <4>2 DEF TypeOK
      <4> QED
        BY <2>5, <4>2, <4>3 DEF TypeOK, LockToWrite
    <3>2. CASE ~connected
      BY <2>5, <3>2 DEF TypeOK, LockToWrite, Goto
    <3> QED
      BY <3>1, <3>2
  <2>6. ASSUME NEW p \in Procs, Write(p) PROVE TypeOK'
    <3>1. writeMu = {p}
      BY <2>6 DEF TypeOK, Write
    <3>2. Packet(p) \in PacketToBroker
      <4>1. p # Closer => op[p] \in Ops /\ idOf[op[p]] \in Ids \cup {0}
        BY <2>6 DEF TypeOK, Write, Ops
      <4> QED
        BY <4>1 DEF Packet, PacketToBroker
    <3>3. toBroker' \in Seq(PacketToBroker)
      BY <2>6, <3>2 DEF TypeOK, Write
    <3>4. CASE p # Closer /\ idOf[op[p]] = 0
      <4>1. op[p] # 0 /\ p \in Publishers
        BY <2>6, <3>4 DEF TypeOK, Write
      <4>2. Return(p, "nil") /\ UNCHANGED <<packetID, ops, idOf, chan>>
        BY <2>6, <3>4 DEF Write
      <4>3. writeMu' = writeMu \ {p}
        BY <2>6, <3>1 DEF Write
      <4> QED
        BY <2>6, <3>3, <4>1, <4>2, <4>3, ReturnTypes DEF Write
    <3>5. CASE ~(p # Closer /\ idOf[op[p]] = 0)
      BY <2>6, <3>1, <3>3, <3>5 DEF TypeOK, Write, Goto
    <3> QED
      BY <3>4, <3>5
  <2>7. ASSUME NEW p \in Procs, WriteFails(p) PROVE TypeOK'
    BY <2>7 DEF TypeOK, WriteFails, Goto
  <2>8. ASSUME NEW p \in Procs, Fail(p) PROVE TypeOK'
    BY <2>8 DEF TypeOK, Fail, CallFail, Goto
  <2>9. ASSUME NEW p \in Procs, FailReturns(p) PROVE TypeOK'
    <3>1. CASE p = Closer
      BY <2>9, <3>1 DEF TypeOK, FailReturns, Goto
    <3>2. CASE p # Closer
      <4>1. op[p] # 0 /\ p \in Publishers
        BY <2>9, <3>2 DEF TypeOK, FailReturns
      <4>2. writeMu' = writeMu \ {p} /\ toBroker' \in Seq(PacketToBroker)
        BY <2>9, <3>2 DEF TypeOK, FailReturns
      <4> QED
        BY <2>9, <3>2, <4>1, <4>2, ReturnTypes DEF FailReturns
    <3> QED
      BY <3>1, <3>2
  <2>10. ASSUME Disconnect PROVE TypeOK'
    BY <2>10 DEF TypeOK, Disconnect, Goto
  <2>11. ASSUME PingFails PROVE TypeOK'
    BY <2>11 DEF TypeOK, PingFails, CallFail
  <2>12. ASSUME FailSteps PROVE TypeOK'
    BY <2>12 DEF TypeOK, FailSteps, CloseConn, NotifyPending, CloseDone
  <2>13. ASSUME ReadPuback PROVE TypeOK'
    <3>1. Head(toClient) \in PacketToClient /\ toClient' \in Seq(PacketToClient)
      BY <2>13 DEF TypeOK, ReadPuback
    <3>2. Head(toClient).id \in Ids /\ Head(toClient).result \in {"ok", "rejected"}
      BY <2>13, <3>1 DEF PacketToClient, ReadPuback
    <3> QED
      BY <2>13, <3>1, <3>2 DEF TypeOK, ReadPuback
  <2>14. ASSUME SendResult PROVE TypeOK'
    BY <2>14 DEF TypeOK, SendResult
  <2>15. ASSUME ReadEnds PROVE TypeOK'
    BY <2>15 DEF TypeOK, ReadEnds, CallFail
  <2>16. ASSUME NEW result \in Verdicts, BrokerPublish(result) PROVE TypeOK'
    <3>1. Head(toBroker) \in PacketToBroker /\ toBroker' \in Seq(PacketToBroker)
      BY <2>16 DEF TypeOK, BrokerPublish
    <3>2. Head(toBroker).op \in Ops /\ Head(toBroker).id \in Ids \cup {0}
      BY <2>16, <3>1 DEF PacketToBroker, BrokerPublish
    <3> DEFINE answer == [kind |-> "PUBACK", id |-> Head(toBroker).id, result |-> result]
    <3>4. Head(toBroker).id # 0 => answer \in PacketToClient
      BY <3>2, VerdictsAssumption DEF PacketToClient
    <3> HIDE DEF answer
    <3>5. Head(toBroker).id = 0 \/ link # "up" \/ toClient' = Append(toClient, answer)
      BY <2>16 DEF BrokerPublish, Send, answer
    <3>6. toClient' = toClient \/ (Head(toBroker).id # 0 /\ toClient' = Append(toClient, answer))
      BY <2>16, <3>5 DEF BrokerPublish, Send
    <3>7. toClient \in Seq(PacketToClient)
      BY DEF TypeOK
    <3>3. toClient' \in Seq(PacketToClient)
      BY <3>4, <3>6, <3>7
    <3> QED
      BY <2>16, <3>1, <3>2, <3>3 DEF TypeOK, BrokerPublish
  <2>17. ASSUME NEW packets \in {<<>>, <<[kind |-> "DISCONNECT", id |-> 0, result |-> "empty"]>>},
                BrokerCloses(packets)
         PROVE  TypeOK'
    <3> DEFINE goodbye == [kind |-> "DISCONNECT", id |-> 0, result |-> "empty"]
    <3>3. goodbye \in PacketToClient
      BY DEF PacketToClient
    <3> HIDE DEF goodbye
    <3>4. packets = <<>> \/ packets = <<goodbye>>
      BY DEF goodbye
    <3>1. packets \in Seq(PacketToClient)
      <4>1. <<>> \in Seq(PacketToClient) /\ <<goodbye>> \in Seq(PacketToClient)
        BY <3>3
      <4> QED
        BY <3>4, <4>1
    <3>2. toClient' \in Seq(PacketToClient) /\ toBroker' \in Seq(PacketToBroker)
      BY <2>17, <3>1 DEF TypeOK, BrokerCloses
    <3> QED
      BY <2>17, <3>2 DEF TypeOK, BrokerCloses
  <2>18. CASE UNCHANGED vars
    BY <2>18 DEF TypeOK, vars
  <2> QED
    BY <2>1, <2>2, <2>3, <2>4, <2>5, <2>6, <2>7, <2>8, <2>9, <2>10, <2>11, <2>12,
       <2>13, <2>14, <2>15, <2>16, <2>17, <2>18
    DEF Next, Publish, WriterStep, ReadLoop, Broker
<1> QED
  BY <1>1, <1>2, PTL DEF Spec

-----------------------------------------------------------------------------
\* Publications are numbered in the order they register, each has one publisher.
Distinct ==
    /\ \A p \in Publishers : op[p] <= ops
    /\ \A p, q \in Publishers : op[p] # 0 /\ op[p] = op[q] => p = q

\* How a publication ends: with nil only at QoS 0 or on a good acknowledgement.
Returning(p) ==
    /\ op[p] # 0
    /\ \E result \in {"nil", "error"} :
         /\ Return(p, result)
         /\ result = "nil" => idOf[op[p]] = 0 \/ chan[op[p]] = "ok"
    /\ UNCHANGED <<ops, idOf, chan>>

\* Only four kinds of steps touch what is known of the publications.
LEMMA RegistrySteps ==
    ASSUME TypeOK, [Next]_vars
    PROVE  \/ \E p \in Publishers, qos \in {0, 1} : Register(p, qos)
           \/ \E p \in Publishers : Returning(p)
           \/ NotifyPending
           \/ UNCHANGED <<op, ops, idOf, pending, outcome>>
<1> USE DEF publishing, Procs
<1>1. ASSUME NEW p \in Publishers, Answered(p) PROVE Returning(p)
  <2>1. op[p] # 0 /\ UNCHANGED <<ops, idOf, chan>>
    BY <1>1 DEF Answered, TypeOK
  <2> QED
    BY <1>1, <2>1 DEF Answered, Returning
<1>2. ASSUME NEW p \in Publishers, ClientDone(p) \/ Timeout(p) PROVE Returning(p)
  <2>1. op[p] # 0 /\ UNCHANGED <<ops, idOf, chan>>
    BY <1>2 DEF ClientDone, Timeout, TypeOK
  <2> QED
    BY <1>2, <2>1 DEF ClientDone, Timeout, Returning
<1>3. ASSUME NEW p \in Procs, Write(p)
      PROVE  (p \in Publishers /\ Returning(p)) \/ UNCHANGED publishing
  <2>1. CASE p # Closer /\ idOf[op[p]] = 0
    <3>1. op[p] # 0 /\ p \in Publishers
      BY <1>3, <2>1 DEF Write, TypeOK
    <3> QED
      BY <1>3, <2>1, <3>1 DEF Write, Returning
  <2>2. CASE ~(p # Closer /\ idOf[op[p]] = 0)
    BY <1>3, <2>2 DEF Write
  <2> QED
    BY <2>1, <2>2
<1>4. ASSUME NEW p \in Procs, FailReturns(p)
      PROVE  (p \in Publishers /\ Returning(p)) \/ UNCHANGED publishing
  <2>1. CASE p = Closer
    BY <1>4, <2>1 DEF FailReturns
  <2>2. CASE p # Closer
    <3>1. op[p] # 0 /\ p \in Publishers
      BY <1>4, <2>2 DEF FailReturns, TypeOK
    <3> QED
      BY <1>4, <2>2, <3>1 DEF FailReturns, Returning
  <2> QED
    BY <2>1, <2>2
<1>5. ASSUME \/ \E p \in Publishers : PublishStart(p)
             \/ \E p \in Procs : LockToWrite(p) \/ WriteFails(p) \/ Fail(p)
             \/ Disconnect \/ PingFails \/ CloseConn \/ CloseDone
             \/ ReadPuback \/ SendResult \/ ReadEnds \/ Broker \/ UNCHANGED vars
      PROVE  UNCHANGED <<op, ops, idOf, pending, outcome>>
  BY <1>5 DEF PublishStart, LockToWrite, WriteFails, Fail, Disconnect, PingFails,
       CloseConn, CloseDone, ReadPuback, SendResult, ReadEnds, Broker, BrokerPublish,
       BrokerCloses, vars
<1> QED
  BY <1>1, <1>2, <1>3, <1>4, <1>5 DEF Next, Publish, WriterStep, FailSteps, ReadLoop

\* What the four kinds of steps do to the numbering and to pending.
LEMMA RegistryKept ==
    ASSUME TypeOK, Distinct, PendingIsOwned, [Next]_vars
    PROVE  Distinct' /\ PendingIsOwned'
<1>1. ASSUME NEW p \in Publishers, NEW qos \in {0, 1}, Register(p, qos)
      PROVE  Distinct' /\ PendingIsOwned'
  <2> DEFINE id == IF qos = 1 THEN NextId(packetID) ELSE 0
  <2>1. /\ op' = [op EXCEPT ![p] = ops + 1] /\ ops' = ops + 1
        /\ idOf' = [idOf EXCEPT ![ops + 1] = id] /\ ops + 1 \in Ops /\ op[p] = 0
        /\ pending' = IF id = 0 THEN pending ELSE [pending EXCEPT ![id] = ops + 1]
    BY <1>1 DEF Register, TypeOK, Procs
  <2> HIDE DEF id
  <2>2. Distinct'
    BY <2>1 DEF Distinct, TypeOK, Ops
  <2>3. \A q \in Publishers : q # p /\ op[q] # 0 =>
            op'[q] = op[q] /\ op[q] \in Ops /\ op[q] # ops + 1 /\ idOf'[op'[q]] = idOf[op[q]]
    BY <2>1 DEF Distinct, TypeOK, Ops
  <2>4. op'[p] = ops + 1 /\ idOf'[ops + 1] = id
    BY <2>1 DEF TypeOK
  <2>5. ASSUME NEW i \in Ids, pending'[i] # 0
        PROVE  \E q \in Publishers : op'[q] = pending'[i] /\ idOf'[op'[q]] = i
    <3>1. CASE i = id /\ id # 0
      BY <2>1, <2>4, <3>1 DEF TypeOK
    <3>2. CASE ~(i = id /\ id # 0)
      <4>1. pending'[i] = pending[i]
        BY <2>1, <3>2 DEF TypeOK
      <4>2. PICK q \in Publishers : op[q] = pending[i] /\ idOf[op[q]] = i
        BY <2>5, <4>1 DEF PendingIsOwned
      <4> QED
        BY <2>1, <2>3, <2>5, <4>1, <4>2
    <3> QED
      BY <3>1, <3>2
  <2> QED
    BY <2>2, <2>5 DEF PendingIsOwned
<1>2. ASSUME NEW p \in Publishers, Returning(p)
      PROVE  Distinct' /\ PendingIsOwned'
  <2>1. /\ op' = [op EXCEPT ![p] = 0] /\ ops' = ops /\ idOf' = idOf /\ op[p] # 0
        /\ pending' = IF idOf[op[p]] = 0 THEN pending ELSE [pending EXCEPT ![idOf[op[p]]] = 0]
    BY <1>2 DEF Returning, Return, Unregister
  <2>2. Distinct'
    BY <2>1 DEF Distinct, TypeOK, Ops
  <2>3. ASSUME NEW i \in Ids, pending'[i] # 0
        PROVE  \E q \in Publishers : op'[q] = pending'[i] /\ idOf'[op'[q]] = i
    <3>1. i # idOf[op[p]] /\ pending'[i] = pending[i]
      BY <2>1, <2>3 DEF TypeOK, Ids
    <3>2. PICK q \in Publishers : op[q] = pending[i] /\ idOf[op[q]] = i
      BY <2>3, <3>1 DEF PendingIsOwned
    <3>3. q # p
      BY <3>1, <3>2
    <3> QED
      BY <2>1, <3>1, <3>2, <3>3 DEF TypeOK
  <2> QED
    BY <2>2, <2>3 DEF PendingIsOwned
<1>3. CASE NotifyPending
  BY <1>3 DEF NotifyPending, Distinct, PendingIsOwned
<1>4. CASE UNCHANGED <<op, ops, idOf, pending, outcome>>
  BY <1>4 DEF Distinct, PendingIsOwned
<1> QED
  BY <1>1, <1>2, <1>3, <1>4, RegistrySteps

(* pending leads only to publications under way, also when identifiers wrap *)
(* onto one that is still in flight: what a Publish leaves in the map, it   *)
(* or the next holder of its identifier takes out.                          *)
THEOREM PendingOwned == Spec => []PendingIsOwned
<1>1. Init => Distinct /\ PendingIsOwned
  BY DEF Init, Distinct, PendingIsOwned
<1>2. TypeOK /\ Distinct /\ PendingIsOwned /\ [Next]_vars => Distinct' /\ PendingIsOwned'
  BY RegistryKept
<1> QED
  BY <1>1, <1>2, ClientTypeCorrect, PTL DEF Spec

-----------------------------------------------------------------------------
Before == {"open", "begun", "closed"}       \* before fail tells the waiters
After == {"notified", "done"}

\* Until then pending leads to every publication at QoS 1 ...
Registered ==
    closing \in Before =>
        \A p \in Publishers : op[p] # 0 /\ idOf[op[p]] # 0 => pending[idOf[op[p]]] = op[p]

\* ... and afterwards each that may wait has its result.
Told ==
    closing \in After =>
        \A p \in Publishers :
            pc[p] \in {"write", "wait"} /\ idOf[op[p]] # 0 => chan[op[p]] # "empty"

WaitsForAck == \A p \in Publishers : pc[p] = "wait" => idOf[op[p]] # 0

Reachable == Registered /\ Told /\ WaitsForAck

\* What any step may do to a publisher that writes or waits after it.
Approach(p) ==
    pc'[p] \in {"write", "wait"} =>
        /\ op'[p] = op[p] /\ op[p] \in Ops /\ idOf'[op[p]] = idOf[op[p]]
        /\ pc[p] \in {"write", "wait"} \/ closing' = "open"
        /\ pc'[p] = "wait" => pc[p] = "wait" \/ idOf[op[p]] # 0

\* fail only goes forward, a result stays in its channel, and after fail has
\* begun nobody new comes to write.
LEMMA WaiterSteps ==
    ASSUME TypeOK, Distinct, [Next]_vars
    PROVE  /\ closing' \in Before => closing \in Before
           /\ closing' \in After => closing \in After \/ NotifyPending
           /\ \A n \in Ops : chan[n] # "empty" => chan'[n] # "empty"
           /\ \A p \in Publishers : Approach(p)
<1> DEFINE Conclusion ==
        /\ closing' \in Before => closing \in Before
        /\ closing' \in After => closing \in After \/ NotifyPending
        /\ \A n \in Ops : chan[n] # "empty" => chan'[n] # "empty"
        /\ \A p \in Publishers : Approach(p)
<1> USE DEF conn, publishing, reading, wire, Procs, Before, After
<1>1. ASSUME NEW p \in Publishers, PublishStart(p) PROVE Conclusion
  BY <1>1 DEF TypeOK, PublishStart, Goto, Approach
<1>2. ASSUME NEW p \in Publishers, NEW qos \in {0, 1}, Register(p, qos) PROVE Conclusion
  <2>1. /\ op' = [op EXCEPT ![p] = ops + 1] /\ pc' = [pc EXCEPT ![p] = "lock"]
        /\ \E id : idOf' = [idOf EXCEPT ![ops + 1] = id]
        /\ closing' = closing /\ chan' = chan
    BY <1>2 DEF Register, Goto
  <2>2. \A q \in Publishers : op[q] # ops + 1
    BY DEF Distinct, TypeOK, Ops
  <2>3. ASSUME NEW q \in Publishers, pc'[q] \in {"write", "wait"} PROVE Approach(q)
    <3>1. q # p /\ pc'[q] = pc[q]
      BY <2>1, <2>3 DEF TypeOK
    <3>2. op'[q] = op[q] /\ op[q] \in Ops
      BY <2>1, <2>3, <3>1 DEF TypeOK
    <3>3. idOf'[op[q]] = idOf[op[q]]
      BY <2>1, <2>2, <3>2 DEF TypeOK
    <3> QED
      BY <2>3, <3>1, <3>2, <3>3 DEF Approach
  <2>4. \A q \in Publishers : Approach(q)
    BY <2>3 DEF Approach
  <2> QED
    BY <2>1, <2>4
<1>3. ASSUME NEW p \in Procs, NEW where \in {"idle", "failing", "once", "gone", "lock", "write", "wait"},
             Goto(p, where), UNCHANGED <<ops, idOf, chan>>,
             \A q \in Publishers : q # p => op'[q] = op[q],
             closing' = closing \/ (closing = "open" /\ closing' = "begun"),
             where \in {"write", "wait"} /\ p \in Publishers =>
                 /\ op'[p] = op[p] /\ op[p] \in Ops
                 /\ pc[p] = "write" \/ closing' = "open"
                 /\ where = "wait" => idOf[op[p]] # 0
      PROVE  Conclusion
  <2>1. pc' = [pc EXCEPT ![p] = where]
    BY <1>3 DEF Goto
  <2>2. ASSUME NEW q \in Publishers, pc'[q] \in {"write", "wait"} PROVE Approach(q)
    <3>1. CASE q = p
      BY <1>3, <2>1, <2>2, <3>1 DEF TypeOK, Approach
    <3>2. CASE q # p
      <4>1. pc'[q] = pc[q] /\ op'[q] = op[q]
        BY <1>3, <2>1, <3>2 DEF TypeOK
      <4>2. op[q] \in Ops
        BY <2>2, <4>1 DEF TypeOK
      <4> QED
        BY <1>3, <2>2, <4>1, <4>2 DEF Approach
    <3> QED
      BY <3>1, <3>2
  <2>3. \A q \in Publishers : Approach(q)
    BY <2>2 DEF Approach
  <2> QED
    BY <1>3, <2>3 DEF TypeOK
<1>4. ASSUME NEW p \in Publishers, Answered(p) \/ ClientDone(p) \/ Timeout(p) PROVE Conclusion
  <2>1. Goto(p, "idle") /\ op' = [op EXCEPT ![p] = 0] /\ UNCHANGED <<ops, idOf, chan, closing>>
    BY <1>4 DEF Answered, ClientDone, Timeout, Return
  <2>2. \A q \in Publishers : q # p => op'[q] = op[q]
    BY <2>1 DEF TypeOK
  <2> QED
    BY <1>3, <2>1, <2>2
<1>5. ASSUME NEW p \in Procs, LockToWrite(p) PROVE Conclusion
  <2>1. UNCHANGED <<ops, op, idOf, chan, closing>>
    BY <1>5 DEF LockToWrite
  <2>2. CASE connected
    <3>1. Goto(p, "write") /\ closing' = "open" /\ (p \in Publishers => op[p] \in Ops)
      BY <1>5, <2>1, <2>2 DEF LockToWrite, TypeOK
    <3> QED
      BY <1>3, <2>1, <3>1
  <2>3. CASE ~connected
    <3>1. Goto(p, "failing")
      BY <1>5, <2>3 DEF LockToWrite
    <3> QED
      BY <1>3, <2>1, <3>1
  <2> QED
    BY <2>2, <2>3
<1>6. ASSUME NEW p \in Procs, Write(p) PROVE Conclusion
  <2>1. UNCHANGED <<ops, idOf, chan, closing>> /\ pc[p] = "write"
    BY <1>6 DEF Write
  <2>2. CASE p # Closer /\ idOf[op[p]] = 0
    <3>1. Goto(p, "idle") /\ op' = [op EXCEPT ![p] = 0] /\ p \in Publishers
      BY <1>6, <2>2 DEF Write, Return
    <3>2. \A q \in Publishers : q # p => op'[q] = op[q]
      BY <3>1 DEF TypeOK
    <3> QED
      BY <1>3, <2>1, <3>1, <3>2
  <2>3. CASE ~(p # Closer /\ idOf[op[p]] = 0)
    <3>1. Goto(p, IF p = Closer THEN "failing" ELSE "wait") /\ op' = op
      BY <1>6, <2>3 DEF Write
    <3>2. p \in Publishers => op[p] \in Ops /\ p # Closer
      BY <2>1 DEF TypeOK
    <3>3. CASE p = Closer
      BY <1>3, <2>1, <3>1, <3>2, <3>3
    <3>4. CASE p # Closer
      BY <1>3, <2>1, <2>3, <3>1, <3>2, <3>4
    <3> QED
      BY <3>3, <3>4
  <2> QED
    BY <2>2, <2>3
<1>7. ASSUME NEW p \in Procs, WriteFails(p) \/ Fail(p) PROVE Conclusion
  <2>1. /\ Goto(p, "failing") \/ Goto(p, "once")
        /\ UNCHANGED <<op, ops, idOf, chan>>
        /\ closing' = closing \/ (closing = "open" /\ closing' = "begun")
    BY <1>7 DEF WriteFails, Fail, CallFail
  <2> QED
    BY <1>3, <2>1
<1>8. ASSUME NEW p \in Procs, FailReturns(p) PROVE Conclusion
  <2>1. UNCHANGED <<ops, idOf, chan, closing>>
    BY <1>8 DEF FailReturns
  <2>2. CASE p = Closer
    <3>1. Goto(p, "gone") /\ op' = op
      BY <1>8, <2>2 DEF FailReturns
    <3> QED
      BY <1>3, <2>1, <3>1
  <2>3. CASE p # Closer
    <3>1. Goto(p, "idle") /\ op' = [op EXCEPT ![p] = 0] /\ p \in Publishers
      BY <1>8, <2>3 DEF FailReturns, Return
    <3>2. \A q \in Publishers : q # p => op'[q] = op[q]
      BY <3>1 DEF TypeOK
    <3> QED
      BY <1>3, <2>1, <3>1, <3>2
  <2> QED
    BY <2>2, <2>3
<1>9. ASSUME Disconnect PROVE Conclusion
  <2>1. Goto(Closer, "lock") \/ Goto(Closer, "failing")
    BY <1>9 DEF Disconnect
  <2>2. UNCHANGED <<op, ops, idOf, chan, closing>>
    BY <1>9 DEF Disconnect
  <2> QED
    BY <1>3, <2>1, <2>2
<1>10. ASSUME /\ UNCHANGED <<pc, op, idOf>>
              /\ \A n \in Ops : chan[n] # "empty" => chan'[n] # "empty"
              /\ closing' \in Before => closing \in Before
              /\ closing' \in After => closing \in After \/ NotifyPending
       PROVE  Conclusion
  <2>1. \A q \in Publishers : pc[q] \in {"write", "wait"} => op[q] \in Ops
    BY DEF TypeOK
  <2> QED
    BY <1>10, <2>1 DEF Approach
<1>11. ASSUME PingFails \/ CloseConn \/ CloseDone \/ ReadPuback \/ ReadEnds \/ Broker
              \/ UNCHANGED vars
       PROVE  Conclusion
  <2>1. UNCHANGED <<pc, op, idOf, chan>>
    BY <1>11 DEF PingFails, CloseConn, CloseDone, ReadPuback, ReadEnds, Broker,
         BrokerPublish, BrokerCloses, vars
  <2>2. \/ closing' = closing
        \/ closing \in Before /\ closing' \in Before
        \/ closing = "notified"
    BY <1>11 DEF PingFails, CloseConn, CloseDone, ReadPuback, ReadEnds, Broker,
         BrokerPublish, BrokerCloses, CallFail, vars, TypeOK
  <2>3. closing = "notified" => closing' \in After
    BY <1>11 DEF PingFails, CloseConn, CloseDone, ReadPuback, ReadEnds, Broker,
         BrokerPublish, BrokerCloses, CallFail, vars, TypeOK
  <2> QED
    BY <1>10, <2>1, <2>2, <2>3
<1>12. ASSUME NotifyPending PROVE Conclusion
  <2>1. \A n \in Ops : chan[n] # "empty" => chan'[n] # "empty"
    BY <1>12 DEF NotifyPending, TypeOK
  <2> QED
    BY <1>10, <1>12, <2>1 DEF NotifyPending
<1>13. ASSUME SendResult PROVE Conclusion
  <2>1. \A n \in Ops : chan[n] # "empty" => chan'[n] # "empty"
    BY <1>13 DEF SendResult, TypeOK
  <2> QED
    BY <1>10, <1>13, <2>1 DEF SendResult
<1> QED
  BY <1>1, <1>2, <1>4, <1>5, <1>6, <1>7, <1>8, <1>9, <1>11, <1>12, <1>13
  DEF Next, Publish, WriterStep, FailSteps, ReadLoop

LEMMA ReachableKept ==
    ASSUME ~IdsOutrun, TypeOK, Distinct, Reachable, [Next]_vars
    PROVE  Reachable'
<1>1. Registered'
  <2> SUFFICES ASSUME closing' \in Before, NEW q \in Publishers, op'[q] # 0, idOf'[op'[q]] # 0
               PROVE  pending'[idOf'[op'[q]]] = op'[q]
    BY DEF Registered
  <2>1. closing \in Before
    BY WaiterSteps
  <2>2. ASSUME NEW r \in Publishers, op[r] # 0, idOf[op[r]] # 0
        PROVE  /\ op[r] \in Ops /\ idOf[op[r]] \in Ids
               /\ pending[idOf[op[r]]] = op[r]
    BY <2>1, <2>2 DEF Reachable, Registered, TypeOK
  <2>3. ASSUME NEW p \in Publishers, NEW qos \in {0, 1}, Register(p, qos)
        PROVE  pending'[idOf'[op'[q]]] = op'[q]
    <3> DEFINE id == IF qos = 1 THEN NextId(packetID) ELSE 0
    <3>1. /\ op' = [op EXCEPT ![p] = ops + 1] /\ ops + 1 \in Ops
          /\ idOf' = [idOf EXCEPT ![ops + 1] = id]
          /\ pending' = IF id = 0 THEN pending ELSE [pending EXCEPT ![id] = ops + 1]
          /\ id # 0 => ~InFlight(id)
      BY <2>3 DEF Register
    <3>2. id \in Ids \cup {0}
      BY <2>3, NextIdInRange DEF TypeOK
    <3> HIDE DEF id
    <3>3. CASE q = p
      <4>1. op'[q] = ops + 1 /\ idOf'[ops + 1] = id
        BY <3>1, <3>3 DEF TypeOK
      <4> QED
        BY <3>1, <3>2, <4>1 DEF TypeOK
    <3>4. CASE q # p
      <4>1. op'[q] = op[q] /\ op[q] # ops + 1
        BY <3>1, <3>4 DEF TypeOK, Distinct, Ops
      <4>2. idOf'[op[q]] = idOf[op[q]]
        BY <2>2, <3>1, <4>1 DEF TypeOK
      <4>3. pending[idOf[op[q]]] = op[q] /\ idOf[op[q]] \in Ids
        BY <2>2, <4>1, <4>2
      <4>4. id # 0 => idOf[op[q]] # id
        BY <3>1, <4>1, <4>3 DEF InFlight
      <4> QED
        BY <3>1, <3>2, <4>1, <4>2, <4>3, <4>4 DEF TypeOK
    <3> QED
      BY <3>3, <3>4
  <2>4. ASSUME NEW p \in Publishers, Returning(p) PROVE pending'[idOf'[op'[q]]] = op'[q]
    <3>1. /\ op' = [op EXCEPT ![p] = 0] /\ idOf' = idOf
          /\ pending' = IF idOf[op[p]] = 0 THEN pending ELSE [pending EXCEPT ![idOf[op[p]]] = 0]
          /\ op[p] # 0
      BY <2>4 DEF Returning, Return, Unregister
    <3>2. q # p /\ op'[q] = op[q]
      BY <3>1 DEF TypeOK
    <3>3. pending[idOf[op[q]]] = op[q] /\ idOf[op[q]] \in Ids /\ op[q] # op[p]
      BY <2>2, <3>1, <3>2 DEF Distinct
    <3>4. idOf[op[p]] # 0 => idOf[op[p]] # idOf[op[q]]
      BY <2>2, <3>1, <3>3
    <3> QED
      BY <3>1, <3>2, <3>3, <3>4 DEF TypeOK
  <2>5. ~NotifyPending
    BY DEF NotifyPending, Before
  <2> QED
    BY <2>2, <2>3, <2>4, <2>5, RegistrySteps
<1>2. Told'
  <2> SUFFICES ASSUME closing' \in After, NEW q \in Publishers, pc'[q] \in {"write", "wait"},
                      idOf'[op'[q]] # 0
               PROVE  chan'[op'[q]] # "empty"
    BY DEF Told
  <2>1. /\ op'[q] = op[q] /\ op[q] \in Ops /\ idOf[op[q]] # 0
        /\ pc[q] \in {"write", "wait"}
    BY WaiterSteps DEF Approach, After
  <2>2. CASE NotifyPending
    <3>1. op[q] # 0 /\ closing \in Before /\ idOf[op[q]] \in Ids
      BY <2>1, <2>2 DEF NotifyPending, TypeOK, Before
    <3>2. pending[idOf[op[q]]] = op[q]
      BY <2>1, <3>1 DEF Reachable, Registered
    <3>3. chan'[op[q]] = IF chan[op[q]] = "empty" THEN "lost" ELSE chan[op[q]]
      BY <2>1, <2>2, <3>1, <3>2 DEF NotifyPending
    <3> QED
      BY <2>1, <3>3
  <2>3. CASE ~NotifyPending
    <3>1. closing \in After
      BY <2>3, WaiterSteps
    <3>2. chan[op[q]] # "empty"
      BY <2>1, <3>1 DEF Reachable, Told
    <3> QED
      BY <2>1, <3>2, WaiterSteps
  <2> QED
    BY <2>2, <2>3
<1>3. WaitsForAck'
  BY WaiterSteps DEF Reachable, WaitsForAck, Approach
<1> QED
  BY <1>1, <1>2, <1>3 DEF Reachable

(* Nobody waits in vain for PUBACK or fail, whatever the order in which     *)
(* registrations, writes, acknowledgements and the steps of fail interleave, *)
(* as long as identifiers do not wrap onto one in flight.                   *)
THEOREM WaitersReached == ASSUME ~IdsOutrun PROVE Spec => []NoLostWaiter
<1>1. Init => Distinct /\ Reachable
  BY DEF Init, Distinct, Reachable, Registered, Told, WaitsForAck, After, Procs
<1>2. TypeOK /\ Distinct /\ Reachable /\ PendingIsOwned /\ [Next]_vars
        => Distinct' /\ Reachable' /\ PendingIsOwned'
  BY RegistryKept, ReachableKept
<1>3. TypeOK /\ Reachable => NoLostWaiter
  <2> SUFFICES ASSUME TypeOK, Reachable, NEW p \in Publishers, pc[p] = "wait"
               PROVE  chan[op[p]] # "empty" \/ pending[idOf[op[p]]] = op[p]
    BY DEF NoLostWaiter
  <2>1. op[p] # 0 /\ idOf[op[p]] # 0
    BY DEF TypeOK, Reachable, WaitsForAck
  <2>2. closing \in Before \/ closing \in After
    BY DEF TypeOK, Before, After
  <2> QED
    BY <2>1, <2>2 DEF Reachable, Registered, Told
<1>4. Init => PendingIsOwned
  BY DEF Init, PendingIsOwned
<1> QED
  BY <1>1, <1>2, <1>3, <1>4, ClientTypeCorrect, PTL DEF Spec

-----------------------------------------------------------------------------
\* What is on its way agrees with pending and with what the broker has taken.
UpIsOpen == link = "up" => closing \in {"open", "begun"}

PacketsFit ==
    \A k \in DOMAIN toBroker :
        LET id == toBroker[k].id
        IN  id # 0 /\ pending[id] # 0 => pending[id] = toBroker[k].op

AnswersFit ==
    \A k \in DOMAIN toClient :
        LET id == toClient[k].id
        IN  toClient[k].result = "ok" /\ pending[id] # 0 => pending[id] \in accepted

ResultsFit ==
    /\ held.result = "ok" => held.op \in accepted
    /\ \A n \in Ops : chan[n] = "ok" => n \in accepted

Unused == \A n \in Ops : n > ops => outcome[n] = "none"

Acknowledged ==
    UpIsOpen /\ PacketsFit /\ AnswersFit /\ ResultsFit /\ Unused /\ NilMeansAccepted

\* An identifier in use goes to nobody else.
LEMMA PendingSteps ==
    ASSUME ~IdsOutrun, TypeOK, [Next]_vars, NEW id \in Ids, InFlight(id)
    PROVE  pending'[id] \in {0, pending[id]}
<1>1. ASSUME NEW p \in Publishers, NEW qos \in {0, 1}, Register(p, qos)
      PROVE  pending'[id] = pending[id]
  <2> DEFINE new == IF qos = 1 THEN NextId(packetID) ELSE 0
  <2>1. /\ new # 0 => ~InFlight(new)
        /\ pending' = IF new = 0 THEN pending ELSE [pending EXCEPT ![new] = ops + 1]
    BY <1>1 DEF Register
  <2> QED
    BY <2>1 DEF TypeOK
<1>2. ASSUME NEW p \in Publishers, Returning(p) PROVE pending'[id] \in {0, pending[id]}
  BY <1>2 DEF Returning, Return, Unregister, TypeOK
<1>3. CASE NotifyPending
  BY <1>3 DEF NotifyPending
<1> QED
  BY <1>1, <1>2, <1>3, RegistrySteps

\* Where the packets in the two directions come from.
LEMMA WireSteps ==
    ASSUME TypeOK, [Next]_vars
    PROVE  /\ \A k \in DOMAIN toBroker' :
               \/ \E j \in DOMAIN toBroker : toBroker'[k] = toBroker[j]
               \/ \E p \in Procs : Write(p) /\ link = "up" /\ toBroker'[k] = Packet(p)
           /\ \A k \in DOMAIN toClient' :
               \/ \E j \in DOMAIN toClient : toClient'[k] = toClient[j]
               \/ toClient'[k].result = "empty"
               \/ \E result \in Verdicts :
                    /\ BrokerPublish(result) /\ Head(toBroker).id # 0 /\ link = "up"
                    /\ toClient'[k] =
                         [kind |-> "PUBACK", id |-> Head(toBroker).id, result |-> result]
           /\ accepted \subseteq accepted'
<1> DEFINE FromWrite == \A k \in DOMAIN toBroker' :
               \/ \E j \in DOMAIN toBroker : toBroker'[k] = toBroker[j]
               \/ \E p \in Procs : Write(p) /\ link = "up" /\ toBroker'[k] = Packet(p)
           FromBroker == \A k \in DOMAIN toClient' :
               \/ \E j \in DOMAIN toClient : toClient'[k] = toClient[j]
               \/ toClient'[k].result = "empty"
               \/ \E result \in Verdicts :
                    /\ BrokerPublish(result) /\ Head(toBroker).id # 0 /\ link = "up"
                    /\ toClient'[k] =
                         [kind |-> "PUBACK", id |-> Head(toBroker).id, result |-> result]
<1>1. toBroker \in Seq(PacketToBroker) /\ toClient \in Seq(PacketToClient)
  BY DEF TypeOK
<1>2. ASSUME UNCHANGED wire
      PROVE  FromWrite /\ FromBroker /\ accepted' = accepted
  BY <1>2 DEF wire
<1>3. ASSUME NEW p \in Procs, Write(p)
      PROVE  FromWrite /\ FromBroker /\ accepted' = accepted
  <2>1. UNCHANGED <<toClient, accepted>>
    BY <1>3 DEF Write
  <2>2. CASE link = "up"
    <3>1. toBroker' = Append(toBroker, Packet(p))
      BY <1>3, <2>2 DEF Write
    <3>2. ASSUME NEW k \in DOMAIN toBroker', k \notin DOMAIN toBroker
          PROVE  toBroker'[k] = Packet(p)
      BY <1>1, <3>1, <3>2
    <3>3. ASSUME NEW k \in DOMAIN toBroker PROVE toBroker'[k] = toBroker[k]
      BY <1>1, <3>1
    <3> QED
      BY <1>3, <2>1, <2>2, <3>2, <3>3
  <2>3. CASE link # "up"
    BY <1>3, <2>1, <2>3 DEF Write
  <2> QED
    BY <2>2, <2>3
<1>4. ASSUME ReadPuback
      PROVE  FromWrite /\ FromBroker /\ accepted' = accepted
  <2>1. UNCHANGED <<toBroker, accepted>> /\ toClient # <<>> /\ toClient' = Tail(toClient)
    BY <1>4 DEF ReadPuback
  <2>2. \A k \in DOMAIN toClient' : k + 1 \in DOMAIN toClient /\ toClient'[k] = toClient[k + 1]
    BY <1>1, <2>1
  <2> QED
    BY <2>1, <2>2
<1>5. ASSUME NEW result \in Verdicts, BrokerPublish(result)
      PROVE  FromWrite /\ FromBroker /\ accepted \subseteq accepted'
  <2> DEFINE answer == [kind |-> "PUBACK", id |-> Head(toBroker).id, result |-> result]
  <2>1. toBroker # <<>> /\ toBroker' = Tail(toBroker) /\ accepted \subseteq accepted'
    BY <1>5 DEF BrokerPublish
  <2>2. \A k \in DOMAIN toBroker' : k + 1 \in DOMAIN toBroker /\ toBroker'[k] = toBroker[k + 1]
    BY <1>1, <2>1
  <2>3. CASE Head(toBroker).id # 0 /\ link = "up"
    <3>1. toClient' = Append(toClient, answer)
      BY <1>5, <2>3 DEF BrokerPublish, Send
    <3> HIDE DEF answer
    <3>2. \A k \in DOMAIN toClient' :
             (k \in DOMAIN toClient /\ toClient'[k] = toClient[k]) \/ toClient'[k] = answer
      BY <1>1, <3>1
    <3> QED
      BY <1>5, <2>1, <2>2, <2>3, <3>2 DEF answer
  <2>4. CASE ~(Head(toBroker).id # 0 /\ link = "up")
    <3>1. toClient' = toClient
      BY <1>5, <2>4 DEF BrokerPublish, Send
    <3> QED
      BY <2>1, <2>2, <3>1
  <2> QED
    BY <2>3, <2>4
<1>6. ASSUME NEW packets \in {<<>>, <<[kind |-> "DISCONNECT", id |-> 0, result |-> "empty"]>>},
             BrokerCloses(packets)
      PROVE  FromWrite /\ FromBroker /\ accepted' = accepted
  <2> DEFINE goodbye == [kind |-> "DISCONNECT", id |-> 0, result |-> "empty"]
  <2>1. toBroker' = <<>> /\ accepted' = accepted
    BY <1>6 DEF BrokerCloses
  <2>2. goodbye.result = "empty"
    OBVIOUS
  <2>3. goodbye \in PacketToClient
    BY DEF PacketToClient
  <2> HIDE DEF goodbye
  <2>4. toClient' \in {toClient, toClient \o <<>>, toClient \o <<goodbye>>}
    BY <1>6 DEF BrokerCloses, goodbye
  <2>5. \A k \in DOMAIN toClient' :
           (k \in DOMAIN toClient /\ toClient'[k] = toClient[k]) \/ toClient'[k] = goodbye
    <3>1. toClient \o <<>> = toClient
      BY <1>1
    <3>2. toClient' = toClient \/ toClient' = toClient \o <<goodbye>>
      BY <2>4, <3>1
    <3>3. CASE toClient' = toClient \o <<goodbye>>
      <4>1. <<goodbye>> \in Seq(PacketToClient) /\ Len(<<goodbye>>) = 1 /\ <<goodbye>>[1] = goodbye
        BY <2>3
      <4> QED
        BY <1>1, <3>3, <4>1
    <3> QED
      BY <3>2, <3>3
  <2> QED
    BY <2>1, <2>2, <2>5
<1>7. \/ UNCHANGED wire
      \/ \E p \in Procs : Write(p)
      \/ ReadPuback
      \/ \E result \in Verdicts : BrokerPublish(result)
      \/ \E packets \in {<<>>, <<[kind |-> "DISCONNECT", id |-> 0, result |-> "empty"]>>} :
            BrokerCloses(packets)
  BY DEF Next, Publish, WriterStep, FailSteps, ReadLoop, Broker, vars, PublishStart, Register,
     Answered, ClientDone, Timeout, LockToWrite, WriteFails, Fail, FailReturns, Disconnect,
     PingFails, CloseConn, NotifyPending, CloseDone, SendResult, ReadEnds
<1> QED
  BY <1>2, <1>3, <1>4, <1>5, <1>6, <1>7

LEMMA UpIsOpenKept ==
    ASSUME TypeOK, UpIsOpen, [Next]_vars
    PROVE  UpIsOpen'
<1> USE DEF UpIsOpen, conn, TypeOK
<1>1. CASE UNCHANGED conn
  BY <1>1
<1>2. CASE (\E p \in Procs : Fail(p)) \/ PingFails \/ ReadEnds
  BY <1>2 DEF Fail, PingFails, ReadEnds, CallFail
<1>3. CASE FailSteps
  BY <1>3 DEF FailSteps, CloseConn, NotifyPending, CloseDone
<1>4. ASSUME NEW packets, BrokerCloses(packets) PROVE UpIsOpen'
  BY <1>4 DEF BrokerCloses
<1> HIDE DEF UpIsOpen, TypeOK
<1>5. \/ UNCHANGED conn
      \/ (\E p \in Procs : Fail(p)) \/ PingFails \/ ReadEnds
      \/ FailSteps
      \/ \E packets : BrokerCloses(packets)
  BY DEF Next, Publish, WriterStep, ReadLoop, Broker, vars, PublishStart, Register,
     Answered, ClientDone, Timeout, LockToWrite, Write, WriteFails, FailReturns, Disconnect,
     ReadPuback, SendResult, BrokerPublish
<1> QED
  BY <1>1, <1>2, <1>3, <1>4, <1>5

LEMMA PacketsFitKept ==
    ASSUME ~IdsOutrun, TypeOK, Reachable, UpIsOpen, PacketsFit, [Next]_vars, TypeOK'
    PROVE  PacketsFit'
<1> SUFFICES ASSUME NEW k \in DOMAIN toBroker', toBroker'[k].id # 0,
                    pending'[toBroker'[k].id] # 0
             PROVE  pending'[toBroker'[k].id] = toBroker'[k].op
  BY DEF PacketsFit
<1>1. toBroker'[k].id \in Ids
  <2>1. toBroker'[k] \in PacketToBroker
    BY DEF TypeOK
  <2> QED
    BY <2>1 DEF PacketToBroker
<1>2. ASSUME NEW j \in DOMAIN toBroker, toBroker'[k] = toBroker[j]
      PROVE  pending'[toBroker'[k].id] = toBroker'[k].op
  <2>1. InFlight(toBroker'[k].id)
    BY <1>2 DEF InFlight
  <2>2. pending'[toBroker'[k].id] = pending[toBroker[j].id] /\ pending[toBroker[j].id] # 0
    BY <1>1, <1>2, <2>1, PendingSteps
  <2> QED
    BY <1>2, <2>2 DEF PacketsFit
<1>3. ASSUME NEW p \in Procs, Write(p), link = "up", toBroker'[k] = Packet(p)
      PROVE  pending'[toBroker'[k].id] = toBroker'[k].op
  <2>1. p # Closer /\ toBroker'[k].id = idOf[op[p]] /\ toBroker'[k].op = op[p]
    BY <1>3 DEF Packet
  <2>2. p \in Publishers /\ op[p] # 0 /\ pending' = pending
    BY <1>3, <2>1 DEF Write, TypeOK, Procs, publishing
  <2>3. closing \in Before
    BY <1>3 DEF UpIsOpen, Before
  <2> QED
    BY <2>1, <2>2, <2>3 DEF Reachable, Registered
<1> QED
  BY <1>2, <1>3, WireSteps

LEMMA AnswersFitKept ==
    ASSUME ~IdsOutrun, TypeOK, PacketsFit, AnswersFit, [Next]_vars, TypeOK'
    PROVE  AnswersFit'
<1> SUFFICES ASSUME NEW k \in DOMAIN toClient', toClient'[k].result = "ok",
                    pending'[toClient'[k].id] # 0
             PROVE  pending'[toClient'[k].id] \in accepted'
  BY DEF AnswersFit
<1>1. toClient'[k].id \in Ids
  <2>1. toClient'[k] \in PacketToClient
    BY DEF TypeOK
  <2> QED
    BY <2>1 DEF PacketToClient
<1>2. ASSUME NEW j \in DOMAIN toClient, toClient'[k] = toClient[j]
      PROVE  pending'[toClient'[k].id] \in accepted'
  <2>1. InFlight(toClient'[k].id)
    BY <1>2 DEF InFlight
  <2>2. pending'[toClient'[k].id] = pending[toClient[j].id] /\ pending[toClient[j].id] # 0
    BY <1>1, <1>2, <2>1, PendingSteps
  <2> QED
    BY <1>2, <2>2, WireSteps DEF AnswersFit
<1>3. ASSUME NEW result \in Verdicts, BrokerPublish(result), Head(toBroker).id # 0,
             toClient'[k] = [kind |-> "PUBACK", id |-> Head(toBroker).id, result |-> result]
      PROVE  pending'[toClient'[k].id] \in accepted'
  <2>1. /\ result = "ok" /\ toClient'[k].id = Head(toBroker).id
        /\ pending' = pending /\ Head(toBroker).op \in accepted' /\ toBroker # <<>>
    BY <1>3 DEF BrokerPublish, publishing
  <2>2. 1 \in DOMAIN toBroker /\ Head(toBroker) = toBroker[1]
    BY <2>1 DEF TypeOK
  <2>3. pending[Head(toBroker).id] = Head(toBroker).op
    BY <1>3, <2>1, <2>2 DEF PacketsFit
  <2> QED
    BY <2>1, <2>3
<1> QED
  BY <1>2, <1>3, WireSteps

LEMMA ResultsFitKept ==
    ASSUME TypeOK, AnswersFit, ResultsFit, [Next]_vars
    PROVE  ResultsFit'
<1>1. accepted \subseteq accepted'
  BY WireSteps
<1>2. CASE UNCHANGED <<held, chan>>
  BY <1>1, <1>2 DEF ResultsFit
<1>3. CASE ReadPuback
  <2>1. CASE pending[Head(toClient).id] = 0
    BY <1>1, <1>3, <2>1 DEF ReadPuback, ResultsFit, reading, publishing
  <2>2. CASE pending[Head(toClient).id] # 0
    <3>1. /\ held' = [op |-> pending[Head(toClient).id], result |-> Head(toClient).result]
          /\ chan' = chan /\ toClient # <<>>
      BY <1>3, <2>2 DEF ReadPuback, publishing
    <3>2. 1 \in DOMAIN toClient /\ Head(toClient) = toClient[1]
      BY <3>1 DEF TypeOK
    <3>3. Head(toClient).result = "ok" => pending[Head(toClient).id] \in accepted
      BY <2>2, <3>2 DEF AnswersFit
    <3> QED
      BY <1>1, <3>1, <3>3 DEF ResultsFit
  <2> QED
    BY <2>1, <2>2
<1>4. CASE SendResult
  <2>1. /\ held'.result = "empty"
        /\ \A n \in Ops : chan'[n] = chan[n] \/ (n = held.op /\ chan'[n] = held.result)
    BY <1>4 DEF SendResult, TypeOK
  <2> QED
    BY <1>1, <2>1 DEF ResultsFit
<1>5. CASE NotifyPending
  <2>1. held' = held /\ \A n \in Ops : chan'[n] \in {"lost", chan[n]}
    BY <1>5 DEF NotifyPending, reading
  <2> QED
    BY <1>1, <2>1 DEF ResultsFit
<1>6. \/ UNCHANGED <<held, chan>> \/ ReadPuback \/ SendResult \/ NotifyPending
  BY DEF Next, Publish, WriterStep, FailSteps, ReadLoop, Broker, vars, PublishStart, Register,
     Answered, ClientDone, Timeout, LockToWrite, Write, WriteFails, Fail, FailReturns,
     Disconnect, PingFails, CloseConn, CloseDone, ReadEnds, BrokerPublish, BrokerCloses,
     reading, publishing
<1> QED
  BY <1>2, <1>3, <1>4, <1>5, <1>6

LEMMA OutcomesKept ==
    ASSUME TypeOK, Distinct, ResultsFit, Unused, NilMeansAccepted, [Next]_vars
    PROVE  Unused' /\ NilMeansAccepted'
<1>1. accepted \subseteq accepted'
  BY WireSteps
<1>2. ASSUME NEW p \in Publishers, NEW qos \in {0, 1}, Register(p, qos)
      PROVE  Unused' /\ NilMeansAccepted'
  <2>1. outcome' = outcome /\ ops' = ops + 1 /\ ops \in Nat
    BY <1>2 DEF Register, TypeOK, Ops
  <2>2. \A n \in Ops : n # ops + 1 => idOf'[n] = idOf[n]
    BY <1>2 DEF Register, TypeOK
  <2>3. \A n \in Ops : outcome[n] = "nil" => n # ops + 1
    BY <2>1 DEF Unused, Ops
  <2> QED
    BY <1>1, <2>1, <2>2, <2>3 DEF Unused, NilMeansAccepted, Ops
<1>3. ASSUME NEW p \in Publishers, Returning(p)
      PROVE  Unused' /\ NilMeansAccepted'
  <2>1. PICK result \in {"nil", "error"} :
            /\ outcome' = [outcome EXCEPT ![op[p]] = result]
            /\ result = "nil" => idOf[op[p]] = 0 \/ chan[op[p]] = "ok"
    BY <1>3 DEF Returning, Return
  <2>2. op[p] \in Ops /\ op[p] <= ops /\ ops' = ops /\ idOf' = idOf
    BY <1>3 DEF Returning, TypeOK, Distinct
  <2>3. \A n \in Ops : outcome'[n] = IF n = op[p] THEN result ELSE outcome[n]
    BY <2>1 DEF TypeOK
  <2>4. Unused'
    BY <2>2, <2>3 DEF Unused, TypeOK, Ops
  <2>5. NilMeansAccepted'
    BY <1>1, <2>1, <2>2, <2>3 DEF NilMeansAccepted, ResultsFit
  <2> QED
    BY <2>4, <2>5
<1>4. CASE NotifyPending
  BY <1>1, <1>4 DEF NotifyPending, Unused, NilMeansAccepted
<1>5. CASE UNCHANGED <<op, ops, idOf, pending, outcome>>
  BY <1>1, <1>5 DEF Unused, NilMeansAccepted
<1> QED
  BY <1>2, <1>3, <1>4, <1>5, RegistrySteps

(* What Queue.Drain relies on when it removes a record: at QoS 1 nil means   *)
(* that the broker has taken this publication, although PUBACKs come late,   *)
(* identifiers are reused and fail answers the waiters as well.              *)
THEOREM NilIsAccepted == ASSUME ~IdsOutrun PROVE Spec => []NilMeansAccepted
<1>1. Init => Distinct /\ Reachable /\ PendingIsOwned
  BY DEF Init, Distinct, Reachable, Registered, Told, WaitsForAck, After, Procs,
     PendingIsOwned
<1>2. Init => Acknowledged
  BY DEF Init, Acknowledged, UpIsOpen, PacketsFit, AnswersFit, ResultsFit, Unused,
     NilMeansAccepted
<1>3. /\ TypeOK /\ TypeOK' /\ Distinct /\ Reachable /\ PendingIsOwned
      /\ Acknowledged /\ [Next]_vars
      => Distinct' /\ Reachable' /\ PendingIsOwned' /\ Acknowledged'
  BY RegistryKept, ReachableKept, UpIsOpenKept, PacketsFitKept, AnswersFitKept,
     ResultsFitKept, OutcomesKept DEF Acknowledged
<1>4. Acknowledged => NilMeansAccepted
  BY DEF Acknowledged
<1> QED
  BY <1>1, <1>2, <1>3, <1>4, ClientTypeCorrect, PTL DEF Spec
=============================================================================
