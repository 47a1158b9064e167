------------------------------- MODULE Codec -------------------------------
(***************************************************************************)
(* The packets of internal/mqttclient/client.go as bytes: PUBLISH and      *)
(* PINGREQ as they are written, and the reader of packets that the client  *)
(* and the fake broker of its tests share.  Pure functions.                *)
(*                                                                         *)
(* A byte is a number.  Half stands for 128, the bit of a variable integer *)
(* that says "more follows", so that short packets have long lengths.      *)
(***************************************************************************)
EXTENDS Integers, Sequences, SequencesExt

CONSTANTS
    Half,           \* 128
    MaxPacketSize   \* the longest packet that is read: 64 MiB

ASSUME CodecAssumption == Half \in Nat /\ Half > 1
ASSUME SizeAssumption ==
    MaxPacketSize \in Nat /\ MaxPacketSize < Half * (Half * (Half * Half))

Byte == 2 * Half
Type == [PUBLISH |-> 3, PINGREQ |-> 12]

From(bytes, i) == SubSeq(bytes, i, Len(bytes))

\* Seven bits to a byte, the low ones first.
appendVarInt[n \in Nat] ==
    IF n < Half THEN <<n>> ELSE <<(n % Half) + Half>> \o appendVarInt[n \div Half]

\* readVarInt at the start of bytes: its value and what follows; "short" when
\* it is not all there, "malformed" when it goes on after four bytes.
readVarInt(bytes) ==
    LET last == SelectInSubSeq(bytes, 1, IF Len(bytes) < 4 THEN Len(bytes) ELSE 4,
                               LAMBDA b : b < Half)
        value[i \in Nat] ==
            IF i > last THEN 0 ELSE (bytes[i] % Half) + Half * value[i + 1]
    IN  IF last # 0 THEN [result |-> "ok", value |-> value[1], rest |-> From(bytes, last + 1)]
        ELSE [result |-> IF Len(bytes) < 4 THEN "short" ELSE "malformed",
              value |-> 0, rest |-> <<>>]

\* Two bytes, the high one first; what does not fit is lost.
AppendUint16(n) == <<(n \div Byte) % Byte, n % Byte>>
Uint16(bytes) == bytes[1] * Byte + bytes[2]

makePacket(header, body) == <<header>> \o appendVarInt[Len(body)] \o body

\* encodePublish; the properties are one byte, their length zero.
encodePublish(m) ==
    makePacket(Type.PUBLISH * 16 + 2 * m.qos + (IF m.retain THEN 1 ELSE 0),
               AppendUint16(Len(m.topic)) \o m.topic
                   \o (IF m.qos = 1 THEN AppendUint16(m.id) ELSE <<>>)
                   \o <<0>> \o m.payload)

encodePing == makePacket(Type.PINGREQ * 16, <<>>)

\* What encodePublish does not refuse, in a packet that its reader takes.
Encodable(topic, payload) ==
    /\ topic \in Seq(Nat) /\ Len(topic) \in 1 .. Byte * Byte - 1 /\ payload \in Seq(Nat)
    /\ Len(topic) + Len(payload) + 5 <= MaxPacketSize

NoMessage == [topic |-> <<>>, payload |-> <<>>, qos |-> 0, retain |-> FALSE, id |-> 0]

parsePublish(flags, body) ==
    LET topicLen == Uint16(body)
        qos == (flags \div 2) % 4
        head == 2 + topicLen + (IF qos = 1 THEN 2 ELSE 0)
        properties == readVarInt(From(body, head + 1))
        fits == /\ Len(body) >= 3 /\ topicLen > 0 /\ qos < 2 /\ Len(body) >= head
                /\ properties.result = "ok" /\ properties.value <= Len(properties.rest)
    IN  [ok |-> fits,
         message |-> IF ~fits THEN NoMessage ELSE
             [topic |-> SubSeq(body, 3, 2 + topicLen),
              payload |-> From(properties.rest, properties.value + 1),
              qos |-> qos, retain |-> flags % 2 = 1,
              id |-> IF qos = 1 THEN Uint16(From(body, 3 + topicLen)) ELSE 0]]

\* readPacket: the first packet of a stream, that it is not all there yet, or that
\* its length is refused before its body is read.
readPacket(bytes) ==
    LET remaining == readVarInt(Tail(bytes))
    IN  IF bytes = <<>> \/ remaining.result = "short" THEN [result |-> "short"]
        ELSE IF remaining.result = "malformed" THEN [result |-> "malformed"]
        ELSE IF remaining.value > MaxPacketSize THEN [result |-> "large"]
        ELSE IF Len(remaining.rest) < remaining.value THEN [result |-> "short"]
        ELSE [result |-> "ok", type |-> bytes[1] \div 16, flags |-> bytes[1] % 16,
              body |-> SubSeq(remaining.rest, 1, remaining.value),
              rest |-> From(remaining.rest, remaining.value + 1)]
=============================================================================
