---------------------------- MODULE Publication ----------------------------
(***************************************************************************)
(* From the configuration to what the broker reads: config.Load, the       *)
(* topics of the node (Naming), and the packets that three goroutines      *)
(* write to one connection (Codec), internal/mqttclient's writePacket.     *)
(*                                                                         *)
(* onMQTTConnect publishes "online", a drain publishes an observation and  *)
(* pingLoop writes a PINGREQ.  conn.Write may take part of a packet, and   *)
(* then the rest or none of it before its deadline.                        *)
(***************************************************************************)
EXTENDS Naming, Codec

CONSTANTS
    PrefixTexts, IdTexts,  \* the texts that mqtt.topic_prefix and machine.id may be
    Alphabet,       \* every character of a topic, in some order
    Payloads,       \* the payloads of observations
    Plain           \* a connection that takes more after a write timed out:
                    \* TCP does, crypto/tls does not

ASSUME PublicationAssumption ==
    Plain \in BOOLEAN /\ PrefixTexts \cup IdTexts \subseteq Seq(STRING)

Writers == {"onMQTTConnect", "drain", "pingLoop"}

VARIABLES
    phase,      \* "start", "rejected", "loaded", "connected"
    cfg,        \* the configuration, once loaded and until its topics are taken
    packet,     \* what each goroutine has to send
    pc,         \* "idle", "lock", "write", "fail", "done"
    left,       \* the bytes of its packet that are not written yet
    writeMu,    \* {} or the one goroutine that holds it
    up,         \* client.IsConnected()
    sound,      \* does the connection still take bytes?
    stream,     \* bytes written and not read by the broker
    written,    \* history: the packets begun, in order
    heard       \* the packets the broker has read

wire == <<packet, pc, left, writeMu, up, sound, stream, written, heard>>
vars == <<phase, cfg, wire>>

NoConfig == [prefix |-> <<>>, id |-> <<>>]
Garbage == [NoMessage EXCEPT !.id = -1]

\* A topic or a word as bytes.
Bytes(text) == [i \in DOMAIN text |-> CHOOSE b \in DOMAIN Alphabet : Alphabet[b] = text[i]]

\* Whatever the node is called, its packets can be written.
ASSUME PacketsAssumption ==
    \A prefix \in PrefixTexts, id \in IdTexts :
        LET c == Load(prefix, id)
        IN  Validate(c) =>
                /\ Encodable(Bytes(availabilityTopic(c)), Bytes(<<"online">>))
                /\ \A kind \in EventKinds, payload \in Payloads :
                       Encodable(Bytes(eventTopic(c, kind)), payload)

\* A PINGREQ carries nothing.
Encoded(m) == IF m = NoMessage THEN encodePing ELSE encodePublish(m)

Decoded(p) ==
    CASE p.result # "ok" -> Garbage
      [] p.type = Type.PINGREQ /\ p.body = <<>> -> NoMessage
      [] p.type = Type.PUBLISH /\ parsePublish(p.flags, p.body).ok ->
             parsePublish(p.flags, p.body).message
      [] OTHER -> Garbage

-----------------------------------------------------------------------------
Init ==
    /\ phase = "start" /\ cfg = NoConfig
    /\ packet = [w \in Writers |-> NoMessage]
    /\ pc = [w \in Writers |-> "idle"] /\ left = [w \in Writers |-> <<>>]
    /\ writeMu = {} /\ up = FALSE /\ sound = FALSE
    /\ stream = <<>> /\ written = <<>> /\ heard = <<>>

LoadConfig(prefix, id) ==
    /\ phase = "start"
    /\ cfg' = Load(prefix, id)
    /\ phase' = IF Validate(Load(prefix, id)) THEN "loaded" ELSE "rejected"
    /\ UNCHANGED wire

\* Dial has returned; the topics and the QoS are all that the configuration
\* still says.
Connect(qos, kind, payload) ==
    LET Message(topic, id, retain, body) ==
            [topic |-> Bytes(topic), payload |-> body, qos |-> qos, retain |-> retain,
             id |-> IF qos = 1 THEN id ELSE 0]
    IN  /\ phase = "loaded" /\ phase' = "connected"
        /\ cfg' = NoConfig
        /\ up' = TRUE /\ sound' = TRUE
        /\ pc' = [w \in Writers |-> "lock"]
        /\ packet' =
               [onMQTTConnect |-> Message(availabilityTopic(cfg), 1, TRUE, Bytes(<<"online">>)),
                drain |-> Message(eventTopic(cfg, kind), 2, FALSE, payload),
                pingLoop |-> NoMessage]
        /\ UNCHANGED <<left, writeMu, stream, written, heard>>

-----------------------------------------------------------------------------
(* writePacket.                                                            *)

\* Variant of Lock: goroutines write without the lock.
LockShared(w) ==
    /\ pc[w] = "lock" /\ up
    /\ writeMu' = {w} /\ pc' = [pc EXCEPT ![w] = "write"]
    /\ left' = [left EXCEPT ![w] = Encoded(packet[w])]
    /\ written' = Append(written, packet[w])
    /\ UNCHANGED <<phase, cfg, packet, up, sound, stream, heard>>

\* writeMu is taken and the client is connected.
Lock(w) ==
    /\ pc[w] = "lock" /\ writeMu = {} /\ up
    /\ writeMu' = {w} /\ pc' = [pc EXCEPT ![w] = "write"]
    /\ left' = [left EXCEPT ![w] = Encoded(packet[w])]
    /\ written' = Append(written, packet[w])
    /\ UNCHANGED <<phase, cfg, packet, up, sound, stream, heard>>

\* The client is not connected any more: ErrNotConnected.
Refused(w) ==
    /\ pc[w] = "lock" /\ writeMu = {} /\ ~up
    /\ pc' = [pc EXCEPT ![w] = "fail"]
    /\ UNCHANGED <<phase, cfg, packet, left, writeMu, up, sound, stream, written, heard>>

\* Variant of Write: a short write is taken for the whole.
WriteOnce(w, n) ==
    /\ pc[w] = "write" /\ sound
    /\ stream' = stream \o SubSeq(left[w], 1, n)
    /\ left' = [left EXCEPT ![w] = <<>>]
    /\ writeMu' = {} /\ pc' = [pc EXCEPT ![w] = "done"]
    /\ UNCHANGED <<phase, cfg, packet, up, sound, written, heard>>

\* conn.Write takes n bytes; with the last of them the lock is released.
Write(w, n) ==
    /\ pc[w] = "write" /\ sound
    /\ stream' = stream \o SubSeq(left[w], 1, n)
    /\ left' = [left EXCEPT ![w] = SubSeq(@, n + 1, Len(@))]
    /\ IF n = Len(left[w])
       THEN writeMu' = {} /\ pc' = [pc EXCEPT ![w] = "done"]
       ELSE UNCHANGED <<writeMu, pc>>
    /\ UNCHANGED <<phase, cfg, packet, up, sound, written, heard>>

\* Variant of WriteFails: the lock is kept on the error path.
WriteFailsLocked(w) ==
    /\ pc[w] = "write"
    /\ sound' = (sound /\ Plain)
    /\ left' = [left EXCEPT ![w] = <<>>]
    /\ pc' = [pc EXCEPT ![w] = "fail"]
    /\ UNCHANGED <<phase, cfg, packet, writeMu, up, stream, written, heard>>

\* The write passes its deadline, or the connection takes nothing any more.
WriteFails(w) ==
    /\ pc[w] = "write"
    /\ sound' = (sound /\ Plain)
    /\ left' = [left EXCEPT ![w] = <<>>]
    /\ writeMu' = {} /\ pc' = [pc EXCEPT ![w] = "fail"]
    /\ UNCHANGED <<phase, cfg, packet, up, stream, written, heard>>

\* The caller of writePacket calls fail, which closes the connection.
Fail(w) ==
    /\ pc[w] = "fail"
    /\ up' = FALSE /\ sound' = FALSE
    /\ pc' = [pc EXCEPT ![w] = "done"]
    /\ UNCHANGED <<phase, cfg, packet, left, writeMu, stream, written, heard>>

\* The broker reads a packet; one that it cannot make out ends the connection.
BrokerReads ==
    LET p == readPacket(stream)
        clear == Decoded(p) # Garbage
    IN  /\ p.result # "short"
        /\ heard' = IF clear THEN Append(heard, Decoded(p)) ELSE heard
        /\ stream' = IF clear THEN p.rest ELSE <<>>
        /\ sound' = (sound /\ clear)
        /\ UNCHANGED <<phase, cfg, packet, pc, left, writeMu, up, written>>

writePacket(w) ==
    \/ Lock(w) \/ Refused(w) \/ WriteFails(w) \/ Fail(w)
    \/ \E n \in 1 .. Len(left[w]) : Write(w, n)

Next ==
    \/ \E prefix \in PrefixTexts, id \in IdTexts : LoadConfig(prefix, id)
    \/ \E qos \in {0, 1}, kind \in EventKinds, payload \in Payloads :
           Connect(qos, kind, payload)
    \/ \E w \in Writers : writePacket(w)
    \/ BrokerReads

Spec == Init /\ [][Next]_vars

-----------------------------------------------------------------------------
(* Properties.                                                             *)

\* The type invariant: writeMu is held exactly while a packet is written.
TypeOK ==
    /\ phase \in {"start", "rejected", "loaded", "connected"}
    /\ pc \in [Writers -> {"idle", "lock", "write", "fail", "done"}]
    /\ writeMu = {w \in Writers : pc[w] = "write"} /\ Cardinality(writeMu) <= 1
    /\ \A w \in Writers : left[w] # <<>> => pc[w] = "write"
    /\ up \in BOOLEAN /\ sound \in BOOLEAN
    /\ up \/ sound => phase = "connected"

\* Whatever machine.id says, the identifier that Load makes of it passes
\* Validate: a prefix, never an identifier, keeps the agent from starting.
IdIsAccepted == phase \in {"loaded", "rejected"} => MatchesPattern(cfg.id)

Named(topic) == \A s \in ToSet(Split(topic)) : s # <<>>

\* A prefix of blanks other than spaces passes Validate, and joinTopic drops it.
Blanks(prefix) == Trim(prefix, Blank \cup {"/"}) = <<>>

\* docs/topic-contract.md: consumers verify fleet.topic_prefix against fleet.id,
\* then read below it.  From the beacon alone a consumer gets the digest, the node's
\* own topics and where all of its topics begin: prefix and machine segment,
\* normalised on their own, are those of the topics, whose segments are never empty.
\* Of events and snapshots it gets only the branch: the document ends them in
\* <kind> and <kind>/<scope>, the beacon in the words "kind" and "kind/scope".
BeaconLeadsToTopics ==
    phase = "loaded" /\ ~Blanks(cfg.prefix) =>
        LET beacon == discoveryPayload(cfg)
            machine == Last(Split(discoveryTopic(cfg)))
            Below(what) == beacon.topic_prefix \o <<"/", "nodes", "/">> \o machine
                               \o <<"/", what>>
        IN  /\ beacon.fleet_id = Digest(beacon.topic_prefix)
            /\ beacon.availability = Below("availability")
            /\ beacon.meta = Below("meta")
            /\ beacon.heartbeat = Below("heartbeat")
            /\ beacon.events = beacon.topic_prefix \o <<"/", "events", "/">> \o machine
                                   \o <<"/", "kind">>
            /\ beacon.snapshots = Below("snapshots") \o <<"/", "kind", "/", "scope">>
            /\ \A t \in dataTopics(cfg) : Named(t) /\ IsPrefix(beacon.topic_prefix, t)

\* Every node that some configuration makes: its beacon and its topics.
Nodes == {[beacon |-> discoveryTopic(c), topics |-> dataTopics(c)] :
             c \in {c \in {Load(p, i) : p \in PrefixTexts, i \in IdTexts} : Validate(c)}}

\* docs/topic-contract.md: nodes that share a data prefix are one fleet, "while
\* multiple prefixes remain separate".  Two configurations write to a common topic
\* only if they also share the beacon's: the same fleet and the same machine.
FleetsApart ==
    phase = "loaded" => \A node \in Nodes :
        dataTopics(cfg) \cap node.topics # {} => discoveryTopic(cfg) = node.beacon

\* README: a payload is "the original JSON unchanged".  The broker reads packets
\* that were written, whole, unchanged and in the order in which their goroutines
\* got the lock; a write that fails part way is never completed by the bytes of
\* another packet.
FramesAreWhole ==
    \E at \in [DOMAIN heard -> DOMAIN written] :
        /\ \A i, k \in DOMAIN heard : i < k => at[i] < at[k]
        /\ \A i \in DOMAIN heard : heard[i] = written[at[i]]

\* While no write has failed, all that was written is read as soon as the broker
\* has read what it can: no packet waits for bytes, and none makes it hang up.
NothingHeldBack ==
    /\ up /\ \A w \in Writers : pc[w] \in {"lock", "done"}
    /\ readPacket(stream).result = "short"
    => stream = <<>> /\ heard = written
=============================================================================
