------------------------- MODULE PublicationProofs -------------------------
(* Theorems about Codec and Publication, for every text of the              *)
(* configuration, every payload and every width of a byte.                  *)
EXTENDS Publication, NamingProofs, FiniteSetTheorems, SequenceTheorems,
        WellFoundedInduction, TLAPS

(* The type invariant, with what it rests on: before Connect no goroutine   *)
(* has anything to send.                                                    *)
Unstarted ==
    /\ phase # "connected" => pc = [w \in Writers |-> "idle"]
    /\ left = [w \in Writers |-> left[w]]

TypeInv == TypeOK /\ Unstarted

(* Who holds the lock when one goroutine takes or gives it back.            *)
LEMMA HoldsAlone ==
    ASSUME NEW w
    PROVE  Cardinality({w}) <= 1 /\ Cardinality({}) <= 1
<1>1. Cardinality({w}) = 1 /\ Cardinality({}) = 0
  BY FS_Singleton, FS_EmptySet
<1> QED
  BY <1>1

(* A goroutine that writes is the only one.                                 *)
LEMMA WritesAlone ==
    ASSUME TypeOK, NEW w \in Writers, pc[w] = "write"
    PROVE  writeMu = {w}
<1>1. w \in writeMu
  BY DEF TypeOK
<1>2. IsFiniteSet(Writers)
  <2>1. IsFiniteSet({"onMQTTConnect"} \cup {"drain"} \cup {"pingLoop"})
    BY FS_Singleton, FS_Union
  <2>2. Writers = {"onMQTTConnect"} \cup {"drain"} \cup {"pingLoop"}
    BY DEF Writers
  <2> QED
    BY <2>1, <2>2
<1>3. IsFiniteSet(writeMu)
  BY <1>2, FS_Subset DEF TypeOK
<1>4. PICK v : writeMu = {} \/ writeMu = {v}
  <2>1. Cardinality(writeMu) \in Nat /\ Cardinality(writeMu) <= 1
    BY <1>3, FS_CardinalityType DEF TypeOK
  <2>2. Cardinality(writeMu) = 0 \/ Cardinality(writeMu) = 1
    BY <2>1
  <2> QED
    BY <1>3, <2>2, FS_EmptySet, FS_Singleton
<1> QED
  BY <1>1, <1>4

(* It holds at first.                                                       *)
LEMMA TypeStarts == Init => TypeInv
<1> SUFFICES ASSUME Init PROVE TypeInv
  OBVIOUS
<1>1. {w \in Writers : pc[w] = "write"} = {}
  BY DEF Init
<1> QED
  BY <1>1, HoldsAlone DEF Init, TypeInv, TypeOK, Unstarted

(* And every step keeps it.                                                 *)
LEMMA TypeStep == TypeInv /\ [Next]_vars => TypeInv'
<1> SUFFICES ASSUME TypeInv, [Next]_vars PROVE TypeInv'
  OBVIOUS
<1> USE DEF TypeInv
<1>1. ASSUME NEW prefix \in PrefixTexts, NEW id \in IdTexts, LoadConfig(prefix, id)
      PROVE  TypeInv'
  BY <1>1 DEF LoadConfig, TypeOK, Unstarted, wire
<1>2. ASSUME NEW qos \in {0, 1}, NEW kind \in EventKinds, NEW payload \in Payloads,
             Connect(qos, kind, payload)
      PROVE  TypeInv'
  <2>1. pc' = [w \in Writers |-> "lock"] /\ phase' = "connected" /\ up' = TRUE
        /\ sound' = TRUE /\ left' = left /\ writeMu' = writeMu /\ phase = "loaded"
    BY <1>2 DEF Connect
  <2>2. writeMu = {} /\ \A w \in Writers : left[w] = <<>>
    BY <2>1 DEF TypeOK, Unstarted
  <2> QED
    BY <2>1, <2>2, HoldsAlone DEF TypeOK, Unstarted
<1>3. ASSUME NEW w \in Writers, Lock(w) PROVE TypeInv'
  <2>1. phase = "connected"
    BY <1>3 DEF Lock, TypeOK
  <2>2. writeMu' = {v \in Writers : pc'[v] = "write"} /\ writeMu' = {w}
    BY <1>3 DEF Lock, TypeOK
  <2>3. \A v \in Writers : left'[v] # <<>> => pc'[v] = "write"
    BY <1>3 DEF Lock, TypeOK
  <2> QED
    BY <1>3, <2>1, <2>2, <2>3, HoldsAlone DEF Lock, TypeOK, Unstarted
<1>4. ASSUME NEW w \in Writers, Refused(w) PROVE TypeInv'
  BY <1>4 DEF Refused, TypeOK, Unstarted
<1>5. ASSUME NEW w \in Writers, NEW n \in 1 .. Len(left[w]), Write(w, n) PROVE TypeInv'
  <2>1. writeMu = {w} /\ phase = "connected" /\ pc[w] = "write"
    BY <1>5, WritesAlone DEF Write, TypeOK
  <2>2. \A v \in Writers \ {w} : pc[v] # "write" /\ pc'[v] = pc[v] /\ left'[v] = left[v]
    BY <1>5, <2>1 DEF Write, TypeOK
  <2>3. CASE n = Len(left[w])
    <3>1. writeMu' = {} /\ pc' = [pc EXCEPT ![w] = "done"]
      BY <1>5, <2>3 DEF Write
    <3>2. left' = [left EXCEPT ![w] = SubSeq(left[w], n + 1, Len(left[w]))]
      BY <1>5 DEF Write
    <3>3. SubSeq(left[w], n + 1, Len(left[w])) = <<>>
      BY <2>3, SubSeqEmpty
    <3>4. left' = [left EXCEPT ![w] = <<>>]
      BY <3>2, <3>3
    <3>5. {v \in Writers : pc'[v] = "write"} = {}
      BY <2>2, <3>1 DEF TypeOK
    <3>6. \A v \in Writers : left'[v] = <<>>
      BY <2>1, <2>2, <3>4 DEF TypeOK, Unstarted
    <3> QED
      BY <1>5, <2>1, <3>1, <3>4, <3>5, <3>6, HoldsAlone DEF Write, TypeOK, Unstarted
  <2>4. CASE n # Len(left[w])
    BY <1>5, <2>1, <2>2, <2>4 DEF Write, TypeOK, Unstarted
  <2> QED
    BY <2>3, <2>4
<1>6. ASSUME NEW w \in Writers, WriteFails(w) PROVE TypeInv'
  <2>1. writeMu = {w} /\ phase = "connected" /\ pc[w] = "write"
    BY <1>6, WritesAlone DEF WriteFails, TypeOK, Unstarted
  <2>2. \A v \in Writers \ {w} : pc[v] # "write"
    BY <2>1 DEF TypeOK
  <2>3. {v \in Writers : pc'[v] = "write"} = {} /\ \A v \in Writers : left'[v] = <<>>
    BY <1>6, <2>1, <2>2 DEF WriteFails, TypeOK, Unstarted
  <2>4. sound' \in BOOLEAN /\ (sound' => sound)
    BY <1>6 DEF WriteFails, TypeOK
  <2> QED
    BY <1>6, <2>1, <2>3, <2>4, HoldsAlone DEF WriteFails, TypeOK, Unstarted
<1>7. ASSUME NEW w \in Writers, Fail(w) PROVE TypeInv'
  BY <1>7 DEF Fail, TypeOK, Unstarted
<1>8. CASE BrokerReads
  BY <1>8 DEF BrokerReads, TypeOK, Unstarted
<1>9. CASE UNCHANGED vars
  BY <1>9 DEF vars, wire, TypeOK, Unstarted
<1> QED
  BY <1>1, <1>2, <1>3, <1>4, <1>5, <1>6, <1>7, <1>8, <1>9 DEF Next, writePacket

(* The type invariant of Publication: writeMu is held exactly while a       *)
(* packet is written, by one goroutine.                                     *)
THEOREM TypeCorrect == Spec => []TypeOK
<1> QED
  BY TypeStarts, TypeStep, PTL DEF Spec, TypeInv

-----------------------------------------------------------------------------
(* The configuration and the topics.                                        *)

(* Whatever machine.id says, the identifier that Load makes of it passes    *)
(* Validate: a prefix, never an identifier, keeps the agent from starting.  *)
THEOREM IdAlwaysAccepted == Spec => []IdIsAccepted
<1>1. Init => IdIsAccepted
  BY DEF Init, IdIsAccepted
<1>2. IdIsAccepted /\ [Next]_vars => IdIsAccepted'
  <2> SUFFICES ASSUME IdIsAccepted, [Next]_vars PROVE IdIsAccepted'
    OBVIOUS
  <2>1. ASSUME NEW prefix \in PrefixTexts, NEW id \in IdTexts, LoadConfig(prefix, id)
        PROVE  IdIsAccepted'
    <3>1. cfg'.id = sanitizeMachineID(id) /\ id \in Seq(STRING)
      BY <2>1, PublicationAssumption DEF LoadConfig, Load
    <3> QED
      BY <3>1, IdMatches DEF IdIsAccepted
  <2>2. ASSUME NEW qos \in {0, 1}, NEW kind \in EventKinds, NEW payload \in Payloads,
               Connect(qos, kind, payload)
        PROVE  IdIsAccepted'
    BY <2>2 DEF Connect, IdIsAccepted
  <2>3. CASE BrokerReads \/ UNCHANGED vars \/ \E w \in Writers : writePacket(w)
    <3>1. phase' = phase /\ cfg' = cfg
      BY <2>3 DEF BrokerReads, vars, writePacket, Lock, Refused, Write, WriteFails, Fail
    <3> QED
      BY <3>1 DEF IdIsAccepted
  <2> QED
    BY <2>1, <2>2, <2>3 DEF Next
<1> QED
  BY <1>1, <1>2, PTL DEF Spec

(* Between LoadConfig and Connect the configuration is one that Load made   *)
(* and Validate passed.                                                     *)
Configured ==
    phase = "loaded" => \E prefix \in PrefixTexts, id \in IdTexts :
                            cfg = Load(prefix, id) /\ Validate(cfg)

(* They are set together, and forgotten together.                           *)
LEMMA LoadedByLoad == Spec => []Configured
<1>1. Init => Configured
  BY DEF Init, Configured
<1>2. Configured /\ [Next]_vars => Configured'
  <2> SUFFICES ASSUME Configured, [Next]_vars PROVE Configured'
    OBVIOUS
  <2>1. ASSUME NEW prefix \in PrefixTexts, NEW id \in IdTexts, LoadConfig(prefix, id)
        PROVE  Configured'
    BY <2>1 DEF LoadConfig, Configured
  <2>2. ASSUME NEW qos \in {0, 1}, NEW kind \in EventKinds, NEW payload \in Payloads,
               Connect(qos, kind, payload)
        PROVE  Configured'
    BY <2>2 DEF Connect, Configured
  <2>3. CASE BrokerReads \/ UNCHANGED vars \/ \E w \in Writers : writePacket(w)
    <3>1. phase' = phase /\ cfg' = cfg
      BY <2>3 DEF BrokerReads, vars, writePacket, Lock, Refused, Write, WriteFails, Fail
    <3> QED
      BY <3>1 DEF Configured
  <2> QED
    BY <2>1, <2>2, <2>3 DEF Next
<1> QED
  BY <1>1, <1>2, PTL DEF Spec

(* The characters of two nodes and of their beacons: those of the texts,    *)
(* the words of the code and the digests of the two prefixes.               *)
Beacons == {"codexbar", "discovery", "v1"}
Characters(c, d) ==
    STRING \cup Literals \cup Words \cup Beacons \cup {"<", ">"}
        \cup {ToString(joinTopic(<<c.prefix>>)), ToString(joinTopic(<<d.prefix>>))}

(* What Load makes of any texts is a Node.                                  *)
LEMMA LoadsNode ==
    ASSUME NEW prefix \in PrefixTexts, NEW id \in IdTexts, NEW S,
           STRING \cup Literals \cup Words \subseteq S
    PROVE  Node(S, Load(prefix, id))
<1> DEFINE c == Load(prefix, id)
           x == Trim(prefix, {"/", " "})
           y == sanitizeMachineID(id)
<1>1. c.prefix = x /\ c.id = y
  BY DEF Load
<1>2. prefix \in Seq(STRING) /\ id \in Seq(STRING)
  BY PublicationAssumption
<1>3. x \in Seq(STRING)
  BY <1>2, Trimmed
<1>4. MatchesPattern(y) /\ y \in Seq(STRING \cup {"mac", "-"})
  BY <1>2, IdMatches
<1>5. STRING \subseteq S /\ STRING \cup {"mac", "-"} \subseteq S /\ Rich(S)
  BY DEF Literals, Rich
<1> HIDE DEF c, x, y
<1>6. x \in Seq(S)
  BY <1>3, <1>5, SeqMonotonic
<1>7. y \in Seq(S)
  BY <1>4, <1>5, SeqMonotonic
<1>8. Node(S, c)
  BY <1>1, <1>4, <1>5, <1>6, <1>7 DEF Node
<1> QED
  BY <1>8 DEF c

(* The digest of a prefix is one of the characters.                         *)
LEMMA FleetType ==
    ASSUME NEW c, NEW S, ToString(joinTopic(<<c.prefix>>)) \in S
    PROVE  fleetID(c) \in Seq(S)
<1> DEFINE x == ToString(joinTopic(<<c.prefix>>))
<1>1. fleetID(c) = <<x>>
  BY DEF fleetID, Digest
<1>2. x \in S
  OBVIOUS
<1> HIDE DEF x
<1>3. <<x>> \in Seq(S)
  BY <1>2
<1> QED
  BY <1>1, <1>3

(* docs/topic-contract.md: nodes that share a data prefix are one fleet,    *)
(* "while multiple prefixes remain separate". Two configurations write to a *)
(* common topic only if they also share the beacon's: the same fleet and    *)
(* the same machine. This asks of every scope what Validate does not, that  *)
(* it is more than blanks and has no slash.                                 *)
THEOREM FleetsStayApart ==
    ASSUME ScopesAreNames
    PROVE  Spec => []FleetsApart
<1>1. Configured => FleetsApart
  <2> SUFFICES ASSUME Configured, phase = "loaded", NEW node \in Nodes,
                      dataTopics(cfg) \cap node.topics # {}
               PROVE  discoveryTopic(cfg) = node.beacon
    BY DEF FleetsApart
  <2>1. PICK prefix \in PrefixTexts, id \in IdTexts : cfg = Load(prefix, id)
    BY DEF Configured
  <2>2. PICK p \in PrefixTexts, i \in IdTexts :
             node = [beacon |-> discoveryTopic(Load(p, i)), topics |-> dataTopics(Load(p, i))]
    BY DEF Nodes
  <2> DEFINE c == Load(p, i)
             S == Characters(cfg, c)
  <2>3. node.beacon = discoveryTopic(c) /\ node.topics = dataTopics(c)
    BY <2>2
  <2>4. /\ STRING \cup Literals \cup Words \subseteq S /\ STRING \subseteq S
        /\ {"codexbar", "discovery", "v1"} \subseteq S
        /\ ToString(joinTopic(<<cfg.prefix>>)) \in S
        /\ ToString(joinTopic(<<c.prefix>>)) \in S
    BY DEF Characters, Beacons
  <2> HIDE DEF S
  <2>5. Node(S, cfg) /\ Node(S, c)
    BY <2>1, <2>4, LoadsNode
  <2>6. fleetID(cfg) \in Seq(S) /\ fleetID(c) \in Seq(S)
    <3> HIDE DEF c
    <3> QED
      BY <2>4, FleetType
  <2> HIDE DEF c
  <2>7. discoveryTopic(cfg) = discoveryTopic(c)
    BY <2>3, <2>4, <2>5, <2>6, BeaconsMeet
  <2> QED
    BY <2>3, <2>7
<1> QED
  BY <1>1, LoadedByLoad, PTL

(* The machine segment is the last of the beacon's topic.                   *)
LEMMA BeaconEnds ==
    ASSUME NEW S, NEW c, Node(S, c), Beacons \subseteq S, fleetID(c) \in Seq(S)
    PROVE  Last(Split(discoveryTopic(c))) = Machine(c)
<1>1. PICK h \in Seq(Segments(S)) :
          /\ discoveryTopic(c) = Join(Append(h, Machine(c)))
          /\ Append(h, Machine(c)) \in Seq(Segments(S))
  BY BeaconTopic DEF Beacons
<1> DEFINE m == Machine(c)
           g == Append(h, m)
<1>2. Len(g) = Len(h) + 1 /\ Len(h) \in Nat /\ g[Len(h) + 1] = m /\ g # <<>>
  <2> HIDE DEF m
  <2> QED
    BY AppendProperties, AppendedTo
<1>3. "/" \in S
  BY DEF Node, Rich, Literals
<1> HIDE DEF g, m
<1>4. Split(Join(g)) = g
  BY <1>1, <1>2, <1>3, SegmentsTold DEF g, m
<1>5. Last(g) = m
  BY <1>2 DEF Last
<1> QED
  BY <1>1, <1>4, <1>5 DEF g, m

(* A prefix that is more than blanks and slashes has segments.              *)
LEMMA PrefixSays ==
    ASSUME NEW S, NEW c, Node(S, c), ~Blanks(c.prefix)
    PROVE  Part(c.prefix) # <<>>
<1> DEFINE text == c.prefix
<1>1. text \in Seq(S) /\ Literals \subseteq S
  BY DEF Node, Rich
<1>2. \E i \in DOMAIN text : text[i] \notin Blank \cup {"/"}
  <2> SUFFICES ASSUME ~(\E i \in DOMAIN text : text[i] \notin Blank \cup {"/"}) PROVE FALSE
    OBVIOUS
  <2>1. {i \in DOMAIN text : text[i] \notin Blank \cup {"/"}} = {}
    OBVIOUS
  <2>2. Trim(text, Blank \cup {"/"}) = <<>>
    BY <2>1 DEF Trim
  <2> QED
    BY <2>2 DEF Blanks
<1> HIDE DEF text
<1> QED
  BY <1>1, <1>2, PartType DEF text

(* docs/topic-contract.md: consumers verify fleet.topic_prefix against      *)
(* fleet.id, then read below it. From the beacon alone a consumer gets the  *)
(* digest, the node's own topics and where all of its topics begin: prefix  *)
(* and machine segment, normalised on their own, are those of the topics,   *)
(* whose segments are never empty. Of events and snapshots it gets only the *)
(* branch: the beacon ends them in the words "kind" and "kind/scope".       *)
THEOREM BeaconLeads == Spec => []BeaconLeadsToTopics
<1>1. Configured => BeaconLeadsToTopics
  <2> SUFFICES ASSUME Configured, phase = "loaded", ~Blanks(cfg.prefix)
               PROVE  BeaconLeadsToTopics
    BY DEF BeaconLeadsToTopics
  <2>1. PICK prefix \in PrefixTexts, id \in IdTexts : cfg = Load(prefix, id)
    BY DEF Configured
  <2> DEFINE S == Characters(cfg, cfg)
             base == joinTopic(<<cfg.prefix>>)
             machine == Last(Split(discoveryTopic(cfg)))
             At(what) == base \o <<"/", "nodes", "/">> \o machine \o <<"/", what>>
  <2>2. /\ STRING \cup Literals \cup Words \subseteq S /\ STRING \subseteq S
        /\ Beacons \subseteq S /\ ToString(joinTopic(<<cfg.prefix>>)) \in S
        /\ "<" \in S /\ ">" \in S
    BY DEF Characters, Beacons
  <2> HIDE DEF S
  <2>3. Node(S, cfg)
    BY <2>1, <2>2, LoadsNode
  <2>4. fleetID(cfg) \in Seq(S)
    BY <2>2, FleetType
  <2>5. machine = Machine(cfg)
    BY <2>2, <2>3, <2>4, BeaconEnds
  <2>6. Part(cfg.prefix) # <<>>
    BY <2>3, PrefixSays
  <2>7. ASSUME NEW w \in Words PROVE nodeTopic(cfg, <<w>>) = At(w)
    BY <2>3, <2>5, <2>6, NodeTopicText
  <2>8. /\ availabilityTopic(cfg) = At("availability") /\ metaTopic(cfg) = At("meta")
        /\ heartbeatTopic(cfg) = At("heartbeat")
    <3>1. "availability" \in Words /\ "meta" \in Words /\ "heartbeat" \in Words
      BY DEF Words
    <3> HIDE DEF At
    <3> QED
      BY <2>7, <3>1 DEF availabilityTopic, metaTopic, heartbeatTopic
  <2>9. ASSUME NEW t \in dataTopics(cfg) PROVE Named(t) /\ IsPrefix(base, t)
    <3>1. /\ \E g \in Seq(Segments(S)) : g # <<>> /\ Split(t) = g
          /\ Continues(S, base, t) /\ base \in Seq(S)
      BY <2>2, <2>3, <2>6, BelowPrefix
    <3>2. IsPrefix(base, t)
      <4> HIDE DEF base
      <4> QED
        BY <3>1, BeginsWith
    <3>3. PICK g \in Seq(Segments(S)) : Split(t) = g
      BY <3>1
    <3>4. \A i \in DOMAIN g : g[i] # <<>>
      <4>1. \A i \in DOMAIN g : g[i] \in Segments(S)
        OBVIOUS
      <4> QED
        BY <4>1 DEF Segments
    <3>5. Named(t)
      BY <3>3, <3>4 DEF Named, ToSet
    <3> QED
      BY <3>2, <3>5
  <2> DEFINE beacon == discoveryPayload(cfg)
  <2>10. /\ beacon.fleet_id = fleetID(cfg) /\ beacon.topic_prefix = base
         /\ beacon.availability = availabilityTopic(cfg) /\ beacon.meta = metaTopic(cfg)
         /\ beacon.heartbeat = heartbeatTopic(cfg)
    BY DEF discoveryPayload
  <2>12. /\ beacon.events = base \o <<"/", "events", "/">> \o machine \o <<"/", "kind">>
         /\ beacon.snapshots = At("snapshots") \o <<"/", "kind", "/", "scope">>
    BY <2>2, <2>3, <2>5, <2>6, BranchText
  <2>11. fleetID(cfg) = Digest(base)
    BY DEF fleetID
  <2> HIDE DEF beacon, base, machine
  <2> QED
    BY <2>8, <2>9, <2>10, <2>11, <2>12 DEF BeaconLeadsToTopics, beacon, machine
<1> QED
  BY <1>1, LoadedByLoad, PTL

-----------------------------------------------------------------------------
(* The length field of a packet.                                            *)

(* Arithmetic of Half.                                                      *)
LEMMA DivMod ==
    ASSUME NEW n \in Nat
    PROVE  /\ n \div Half \in Nat /\ n % Half \in 0 .. Half - 1
           /\ n = (n % Half) + Half * (n \div Half)
           /\ n >= Half => n \div Half < n
           /\ n < Half => n % Half = n
  BY CodecAssumption

(* The bit that says "more follows" is taken off again.                     *)
LEMMA ModPlus ==
    ASSUME NEW r \in 0 .. Half - 1
    PROVE  (r + Half) % Half = r
  BY CodecAssumption

(* A quotient stays below what the number is a multiple of.                 *)
LEMMA DivBelow ==
    ASSUME NEW n \in Nat, NEW k \in Nat, n < Half * k
    PROVE  n \div Half < k
<1>1. n \div Half \in Nat /\ n >= Half * (n \div Half)
  BY DivMod, CodecAssumption
<1>2. ASSUME n \div Half >= k PROVE FALSE
  <2>1. Half * (n \div Half) >= Half * k
    <3>1. PICK d \in Nat : n \div Half = k + d
      BY <1>1, <1>2
    <3>2. Half * (k + d) = Half * k + Half * d /\ Half * d \in Nat /\ Half * k \in Nat
      BY CodecAssumption
    <3> QED
      BY <3>1, <3>2
  <2>2. Half * k \in Nat /\ Half * (n \div Half) \in Nat
    BY <1>1, CodecAssumption
  <2> QED
    BY <1>1, <2>1, <2>2
<1> QED
  BY <1>1, <1>2

(* appendVarInt exists.                                                     *)
VarIntStep(f, n) == IF n < Half THEN <<n>> ELSE <<(n % Half) + Half>> \o f[n \div Half]
VarIntTable(f, m) == f = [n \in 0 .. m |-> VarIntStep(f, n)]

(* Two tables of appendVarInt agree where both are defined.                 *)
LEMMA TablesAgree ==
    ASSUME NEW m \in Nat, NEW k \in Nat, NEW f, NEW g, VarIntTable(f, m), VarIntTable(g, k),
           NEW n \in Nat, n <= m, n <= k
    PROVE  f[n] = g[n]
<1> DEFINE Bad == {i \in 0 .. n : f[i] # g[i]}
<1>1. SUFFICES ASSUME Bad # {} PROVE FALSE
  OBVIOUS
<1>2. PICK b \in Bad : \A i \in Bad : b <= i
  <2>1. Bad \in SUBSET Nat
    OBVIOUS
  <2> HIDE DEF Bad
  <2> QED
    BY <1>1, <2>1, Least
<1>3. f[b] = VarIntStep(f, b) /\ g[b] = VarIntStep(g, b)
  <2>1. b \in 0 .. m /\ b \in 0 .. k
    BY <1>2
  <2> QED
    BY <2>1 DEF VarIntTable
<1>4. CASE b < Half
  BY <1>3, <1>4 DEF VarIntStep
<1>5. CASE b >= Half
  <2>1. b \div Half \in 0 .. n /\ b \div Half < b
    BY <1>5, DivMod
  <2>2. f[b \div Half] = g[b \div Half]
    BY <1>2, <2>1
  <2>3. ~(b < Half)
    BY <1>5, CodecAssumption
  <2> QED
    BY <1>3, <2>2, <2>3 DEF VarIntStep
<1> QED
  BY <1>4, <1>5, CodecAssumption

(* There is one up to every number.                                         *)
LEMMA TablesExist == \A m \in Nat : \E f : VarIntTable(f, m)
<1> DEFINE Bad == {m \in Nat : ~ \E f : VarIntTable(f, m)}
<1>1. SUFFICES ASSUME Bad # {} PROVE FALSE
  OBVIOUS
<1>2. PICK m \in Bad : \A i \in Bad : m <= i
  <2>1. Bad \in SUBSET Nat
    OBVIOUS
  <2> HIDE DEF Bad
  <2> QED
    BY <1>1, <2>1, Least
<1>3. CASE m = 0
  <2> DEFINE f == [n \in 0 .. 0 |-> <<n>>]
  <2>1. \A n \in 0 .. 0 : VarIntStep(f, n) = <<n>>
    BY CodecAssumption DEF VarIntStep
  <2>2. VarIntTable(f, m)
    BY <1>3, <2>1 DEF VarIntTable
  <2> QED
    BY <2>2
<1>4. CASE m # 0
  <2>1. m - 1 \in Nat /\ m - 1 \notin Bad
    BY <1>2, <1>4
  <2>2. PICK f : VarIntTable(f, m - 1)
    BY <2>1
  <2> DEFINE g == [n \in 0 .. m |-> IF n < m THEN f[n] ELSE VarIntStep(f, m)]
  <2>3. ASSUME NEW n \in 0 .. m PROVE g[n] = VarIntStep(f, n)
    <3>1. CASE n < m
      BY <2>2, <3>1 DEF VarIntTable
    <3>2. CASE n = m
      BY <3>2
    <3> QED
      BY <3>1, <3>2
  <2>4. ASSUME NEW n \in 0 .. m PROVE VarIntStep(g, n) = VarIntStep(f, n)
    <3>1. CASE n < Half
      BY <3>1 DEF VarIntStep
    <3>2. CASE ~(n < Half)
      <4>1. n \div Half \in 0 .. m /\ n \div Half < m
        BY <3>2, DivMod, CodecAssumption
      <4>2. g[n \div Half] = f[n \div Half]
        BY <4>1
      <4> HIDE DEF g
      <4> QED
        BY <3>2, <4>2 DEF VarIntStep
    <3> QED
      BY <3>1, <3>2
  <2>5. g = [n \in 0 .. m |-> g[n]]
    OBVIOUS
  <2> HIDE DEF g
  <2>6. VarIntTable(g, m)
    BY <2>3, <2>4, <2>5 DEF VarIntTable
  <2> QED
    BY <2>6
<1> QED
  BY <1>3, <1>4

(* So appendVarInt is what its recursion says.                              *)
LEMMA VarIntAt ==
    \A n \in Nat : appendVarInt[n] = VarIntStep(appendVarInt, n)
<1> DEFINE Table(m) == CHOOSE f : VarIntTable(f, m)
           g == [n \in Nat |-> Table(n)[n]]
<1>1. \A m \in Nat : VarIntTable(Table(m), m)
  BY TablesExist
<1> HIDE DEF Table
<1>2. ASSUME NEW n \in Nat PROVE g[n] = VarIntStep(g, n)
  <2>1. g[n] = VarIntStep(Table(n), n)
    BY <1>1 DEF VarIntTable
  <2>2. CASE n < Half
    BY <2>1, <2>2 DEF VarIntStep
  <2>3. CASE ~(n < Half)
    <3>1. n \div Half \in Nat /\ n \div Half <= n
      BY <2>3, DivMod, CodecAssumption
    <3>2. Table(n \div Half)[n \div Half] = Table(n)[n \div Half]
      BY <1>1, <3>1, TablesAgree
    <3>3. g[n \div Half] = Table(n)[n \div Half]
      BY <3>1, <3>2
    <3> HIDE DEF g
    <3> QED
      BY <2>1, <2>3, <3>3 DEF VarIntStep
  <2> QED
    BY <2>2, <2>3
<1>3. g = [n \in Nat |-> VarIntStep(g, n)]
  <2>1. g = [n \in Nat |-> g[n]]
    OBVIOUS
  <2> HIDE DEF g
  <2> QED
    BY <1>2, <2>1
<1> HIDE DEF g
<1>4. appendVarInt = CHOOSE f : f = [n \in Nat |-> VarIntStep(f, n)]
  BY DEF appendVarInt, VarIntStep
<1>5. appendVarInt = [n \in Nat |-> VarIntStep(appendVarInt, n)]
  BY <1>3, <1>4
<1> QED
  BY <1>5

-----------------------------------------------------------------------------
Digit(v, i) == IF i > Len(v) THEN 0 ELSE v[i] % Half
Worth(v) == Digit(v, 1) + Half * (Digit(v, 2) + Half * (Digit(v, 3) + Half * Digit(v, 4)))

VarInt(v, n, k) ==
    /\ v \in Seq(Nat) /\ Len(v) \in 1 .. k
    /\ \A i \in 1 .. Len(v) : v[i] < Half <=> i = Len(v)
    /\ Worth(v) = n

(* A number below Half is one byte.                                         *)
LEMMA OneByte ==
    ASSUME NEW n \in Nat, n < Half
    PROVE  VarInt(<<n>>, n, 1)
<1>1. <<n>> \in Seq(Nat) /\ Len(<<n>>) = 1 /\ <<n>>[1] = n
  OBVIOUS
<1> DEFINE v == <<n>>
<1> HIDE DEF v
<1>2. Digit(v, 1) = n /\ Digit(v, 2) = 0 /\ Digit(v, 3) = 0 /\ Digit(v, 4) = 0
  BY <1>1, DivMod DEF Digit, v
<1>3. Half * 0 = 0 /\ 0 + Half * 0 = 0
  BY CodecAssumption
<1>4. Worth(v) = n
  BY <1>2, <1>3 DEF Worth
<1> QED
  BY <1>1, <1>4 DEF VarInt, v

(* A low digit in front of a length.                                        *)
LEMMA OneMore ==
    ASSUME NEW v, NEW n \in Nat, NEW k \in 1 .. 3, VarInt(v, n, k), NEW r \in 0 .. Half - 1
    PROVE  VarInt(<<r + Half>> \o v, r + Half * n, k + 1)
<1> DEFINE w == <<r + Half>> \o v
<1>1. /\ w \in Seq(Nat) /\ Len(w) = Len(v) + 1 /\ w[1] = r + Half
      /\ \A i \in 1 .. Len(v) : w[i + 1] = v[i]
  <2>1. <<r + Half>> \in Seq(Nat) /\ v \in Seq(Nat)
    BY CodecAssumption DEF VarInt
  <2> QED
    BY <2>1
<1> HIDE DEF w
<1>2. Len(v) \in Nat /\ Len(v) >= 1 /\ Len(v) <= 3 /\ Len(v) <= k
  BY DEF VarInt
<1>3. Digit(w, 1) = r
  BY <1>1, <1>2, ModPlus DEF Digit
<1>4. ASSUME NEW i \in 1 .. 3 PROVE Digit(w, i + 1) = Digit(v, i)
  BY SMTT(20), <1>1, <1>2 DEF Digit
<1>5. Digit(w, 2) = Digit(v, 1) /\ Digit(w, 3) = Digit(v, 2) /\ Digit(w, 4) = Digit(v, 3)
      /\ Digit(v, 4) = 0
  BY <1>4, <1>2 DEF Digit
<1>6. \A i \in 1 .. 3 : Digit(v, i) \in Nat
  <2> SUFFICES ASSUME NEW i \in 1 .. 3 PROVE Digit(v, i) \in Nat
    OBVIOUS
  <2>1. i <= Len(v) => v[i] \in Nat
    BY <1>2 DEF VarInt
  <2>2. ASSUME i <= Len(v) PROVE v[i] % Half \in Nat
    <3>1. v[i] % Half \in 0 .. Half - 1
      BY <2>1, <2>2, DivMod
    <3> QED
      BY <3>1, CodecAssumption
  <2> QED
    BY <1>2, <2>2 DEF Digit
<1>7. Digit(v, 3) + Half * Digit(v, 4) = Digit(v, 3)
  BY <1>5, <1>6, CodecAssumption
<1>8. Worth(w) = r + Half * n
  BY <1>3, <1>5, <1>7 DEF Worth, VarInt
<1>9. \A i \in 1 .. Len(w) : w[i] < Half <=> i = Len(w)
  <2> SUFFICES ASSUME NEW i \in 1 .. Len(w) PROVE w[i] < Half <=> i = Len(w)
    OBVIOUS
  <2>1. CASE i = 1
    BY <1>1, <1>2, <2>1, CodecAssumption
  <2>2. CASE i # 1
    <3>1. i - 1 \in 1 .. Len(v) /\ (i - 1) + 1 = i
      BY <1>1, <1>2, <2>2
    <3>2. w[i] = v[i - 1]
      BY <1>1, <3>1
    <3>3. v[i - 1] < Half <=> i - 1 = Len(v)
      BY <3>1 DEF VarInt
    <3>4. i - 1 = Len(v) <=> i = Len(w)
      BY <1>1, <1>2, <3>1
    <3> QED
      BY <3>2, <3>3, <3>4
  <2> QED
    BY <2>1, <2>2
<1> QED
  BY <1>1, <1>2, <1>8, <1>9 DEF VarInt, w

(* One digit more can be written in one byte more.                          *)
LEMMA Appended ==
    ASSUME NEW n \in Nat, NEW m \in Nat, NEW k \in 1 .. 3, n < Half * m,
           \A q \in Nat : q < m => VarInt(appendVarInt[q], q, k)
    PROVE  VarInt(appendVarInt[n], n, k + 1)
<1>1. CASE n < Half
  <2>1. appendVarInt[n] = <<n>>
    BY <1>1, VarIntAt DEF VarIntStep
  <2> QED
    BY <1>1, <2>1, OneByte DEF VarInt
<1>2. CASE ~(n < Half)
  <2>1. appendVarInt[n] = <<(n % Half) + Half>> \o appendVarInt[n \div Half]
    BY <1>2, VarIntAt DEF VarIntStep
  <2>2. n \div Half \in Nat /\ n \div Half < m
    BY DivMod, DivBelow
  <2>3. VarInt(appendVarInt[n \div Half], n \div Half, k)
    BY <2>2
  <2> QED
    <3>1. n % Half \in 0 .. Half - 1
      BY DivMod
    <3>2. VarInt(appendVarInt[n], (n % Half) + Half * (n \div Half), k + 1)
      BY <2>1, <2>2, <2>3, <3>1, OneMore
    <3>3. n = (n % Half) + Half * (n \div Half)
      BY DivMod
    <3> QED
      BY <3>2, <3>3
<1> QED
  BY <1>1, <1>2

MaxRemaining == Half * (Half * (Half * Half))

(* A number of up to four digits is written as it should be.                *)
LEMMA Written ==
    ASSUME NEW n \in Nat, n < MaxRemaining
    PROVE  VarInt(appendVarInt[n], n, 4)
<1>1. \A q \in Nat : q < Half => VarInt(appendVarInt[q], q, 1)
  BY OneByte, VarIntAt DEF VarIntStep
<1>2. Half \in Nat /\ Half * Half \in Nat /\ Half * (Half * Half) \in Nat
  BY CodecAssumption
<1>3. \A q \in Nat : q < Half * Half => VarInt(appendVarInt[q], q, 2)
  BY <1>1, <1>2, Appended
<1>4. \A q \in Nat : q < Half * (Half * Half) => VarInt(appendVarInt[q], q, 3)
  BY <1>2, <1>3, Appended
<1> QED
  BY <1>2, <1>4, Appended DEF MaxRemaining

-----------------------------------------------------------------------------
(* readVarInt.                                                              *)
Low(bytes, last, i) == IF i > last THEN 0 ELSE bytes[i] % Half
ValueTable(bytes, last, f) ==
    f = [i \in Nat |-> IF i > last THEN 0 ELSE (bytes[i] % Half) + Half * f[i + 1]]

(* The recursion of readVarInt over the bytes up to the last one has a      *)
(* solution,                                                                *)
LEMMA ValueExists ==
    ASSUME NEW bytes, NEW last \in 1 .. 4
    PROVE  \E f : ValueTable(bytes, last, f)
<1> DEFINE T(i, next) == IF i > last THEN 0 ELSE (bytes[i] % Half) + Half * next
           t4 == T(4, 0)
           t3 == T(3, t4)
           t2 == T(2, t3)
           t1 == T(1, t2)
           t0 == T(0, t1)
           f == [i \in Nat |-> IF i = 0 THEN t0 ELSE IF i = 1 THEN t1 ELSE IF i = 2 THEN t2
                               ELSE IF i = 3 THEN t3 ELSE IF i = 4 THEN t4 ELSE 0]
<1>1. f[0] = t0 /\ f[1] = t1 /\ f[2] = t2 /\ f[3] = t3 /\ f[4] = t4 /\ f[5] = 0
      /\ \A i \in Nat : i > 4 => f[i] = 0
  <2> HIDE DEF t0, t1, t2, t3, t4
  <2> QED
    OBVIOUS
<1>2. f = [i \in Nat |-> f[i]]
  OBVIOUS
<1> HIDE DEF f
<1>3. f[0] = T(0, f[1]) /\ f[1] = T(1, f[2]) /\ f[2] = T(2, f[3]) /\ f[3] = T(3, f[4])
      /\ f[4] = T(4, f[5])
  <2> HIDE DEF T
  <2> QED
    BY <1>1
<1>4. ASSUME NEW i \in Nat PROVE f[i] = T(i, f[i + 1])
  <2>1. CASE i > 4
    BY <1>1, <2>1
  <2>2. CASE i \in {0, 1, 2, 3, 4}
    <3>1. 0 + 1 = 1 /\ 1 + 1 = 2 /\ 2 + 1 = 3 /\ 3 + 1 = 4 /\ 4 + 1 = 5
      OBVIOUS
    <3> HIDE DEF T
    <3> QED
      BY <1>3, <2>2, <3>1
  <2> QED
    BY <2>1, <2>2
<1>5. ValueTable(bytes, last, f)
  BY <1>2, <1>4 DEF ValueTable
<1> QED
  BY <1>5

(* and its value at the first byte is the sum of the digits.                *)
LEMMA ValueRead ==
    ASSUME NEW bytes, NEW last \in 1 .. 4, \A i \in 1 .. last : bytes[i] \in Nat,
           NEW value, value = CHOOSE f : ValueTable(bytes, last, f)
    PROVE  value[1] = Low(bytes, last, 1) + Half * (Low(bytes, last, 2)
                          + Half * (Low(bytes, last, 3) + Half * Low(bytes, last, 4)))
<1>1. ValueTable(bytes, last, value)
  BY ValueExists
<1> DEFINE e(i) == IF i > last THEN 0 ELSE (bytes[i] % Half) + Half * value[i + 1]
<1>2. \A i \in 1 .. 5 : value[i] = e(i)
  <2>1. value = [i \in Nat |-> e(i)]
    BY <1>1 DEF ValueTable
  <2> HIDE DEF e
  <2> SUFFICES ASSUME NEW i \in Nat PROVE value[i] = e(i)
    OBVIOUS
  <2>2. [j \in Nat |-> e(j)][i] = e(i)
    OBVIOUS
  <2> QED
    BY <2>1, <2>2, Zenon
<1>3. /\ value[1] = IF 1 > last THEN 0 ELSE (bytes[1] % Half) + Half * value[2]
      /\ value[2] = IF 2 > last THEN 0 ELSE (bytes[2] % Half) + Half * value[3]
      /\ value[3] = IF 3 > last THEN 0 ELSE (bytes[3] % Half) + Half * value[4]
      /\ value[4] = IF 4 > last THEN 0 ELSE (bytes[4] % Half) + Half * value[5]
      /\ value[5] = 0
  <2>1. 1 + 1 = 2 /\ 2 + 1 = 3 /\ 3 + 1 = 4 /\ 4 + 1 = 5 /\ 5 > last
    OBVIOUS
  <2> QED
    BY <1>2, <2>1
<1>4. Half * 0 = 0 /\ 0 + Half * 0 = 0
  BY CodecAssumption
<1>5. ASSUME NEW i \in 1 .. last PROVE (bytes[i] % Half) + Half * 0 = bytes[i] % Half
  <2>1. bytes[i] % Half \in 0 .. Half - 1
    BY DivMod
  <2> QED
    BY <1>4, <2>1, CodecAssumption
<1>6. CASE last = 1
  BY <1>3, <1>4, <1>5, <1>6 DEF Low
<1>7. CASE last = 2
  BY <1>3, <1>4, <1>5, <1>7 DEF Low
<1>8. CASE last = 3
  BY <1>3, <1>4, <1>5, <1>8 DEF Low
<1>9. CASE last = 4
  BY <1>3, <1>4, <1>5, <1>9 DEF Low
<1> QED
  BY <1>6, <1>7, <1>8, <1>9

LastByte(bytes) ==
    SelectInSubSeq(bytes, 1, IF Len(bytes) < 4 THEN Len(bytes) ELSE 4, LAMBDA b : b < Half)

(* The bytes that readVarInt looks at.                                      *)
LEMMA Window ==
    ASSUME NEW l \in Nat, NEW k \in 1 .. 4
    PROVE  LET upto == IF l < 4 THEN l ELSE 4
           IN  /\ upto \in Nat
               /\ l < k => upto = l /\ l < 4
               /\ l >= k => k \in 1 .. upto /\ k \in 1 .. l
               /\ \A i \in 1 .. upto : i \in 1 .. l
  OBVIOUS

(* The last byte of a length is found, if it is there.                      *)
LEMMA LastByteFound ==
    ASSUME NEW v, Len(v) \in 1 .. 4,
           \A i \in 1 .. Len(v) : v[i] < Half <=> i = Len(v),
           NEW bytes, Len(bytes) \in Nat,
           \A i \in 1 .. Len(bytes) : i <= Len(v) => bytes[i] = v[i]
    PROVE  /\ Len(bytes) >= Len(v) => LastByte(bytes) = Len(v)
           /\ Len(bytes) < Len(v) => LastByte(bytes) = 0 /\ Len(bytes) < 4
<1> DEFINE upto == IF Len(bytes) < 4 THEN Len(bytes) ELSE 4
           I == {i \in 1 .. upto : bytes[i] < Half}
<1>1. LastByte(bytes) = IF I # {} THEN Min(I) ELSE 0
  BY DEF LastByte, SelectInSubSeq
<1>2. /\ upto \in Nat
      /\ Len(bytes) < Len(v) => upto = Len(bytes) /\ Len(bytes) < 4
      /\ Len(bytes) >= Len(v) => Len(v) \in 1 .. upto /\ Len(v) \in 1 .. Len(bytes)
      /\ \A i \in 1 .. upto : i \in 1 .. Len(bytes)
  BY Window
<1> HIDE DEF upto
<1>3. I \in SUBSET (0 .. upto)
  BY <1>2
<1>4. ASSUME NEW i \in 1 .. upto, i < Len(v) PROVE i \notin I
  <2>1. i \in 1 .. Len(v) /\ i # Len(v) /\ i \in 1 .. Len(bytes) /\ i <= Len(v)
    BY <1>2, <1>4
  <2> QED
    BY <2>1
<1>5. CASE Len(bytes) < Len(v)
  <2>1. \A i \in 1 .. upto : i < Len(v)
    BY <1>2, <1>5
  <2>2. I = {}
    BY <1>4, <2>1
  <2> HIDE DEF I
  <2>3. LastByte(bytes) = 0
    BY <1>1, <2>2
  <2>4. Len(bytes) < 4 /\ ~(Len(bytes) >= Len(v))
    BY <1>2, <1>5
  <2> QED
    BY <2>3, <2>4
<1>6. CASE Len(bytes) >= Len(v)
  <2>1. Len(v) \in 1 .. upto /\ Len(v) \in 1 .. Len(bytes)
    BY <1>2, <1>6
  <2>2. Len(v) \in I
    <3>1. v[Len(v)] < Half /\ bytes[Len(v)] = v[Len(v)]
      BY <2>1
    <3> QED
      BY <2>1, <3>1
  <2> HIDE DEF I
  <2>3. Min(I) \in I /\ Min(I) <= Len(v)
    BY <1>2, <1>3, <2>2, MinMax
  <2>4. Min(I) \in 1 .. upto
    BY <2>3 DEF I
  <2>5. Min(I) = Len(v)
    BY <1>4, <2>3, <2>4
  <2>6. LastByte(bytes) = Len(v)
    BY <1>1, <2>2, <2>5
  <2>7. ~(Len(bytes) < Len(v))
    BY <1>6
  <2> QED
    BY <2>6, <2>7
<1> QED
  BY <1>5, <1>6

(* readVarInt reads back what appendVarInt wrote, and waits for the rest of *)
(* it.                                                                      *)
LEMMA ReadVarInt ==
    ASSUME NEW n \in Nat, NEW v, VarInt(v, n, 4), NEW bytes \in Seq(Nat),
           \A i \in 1 .. Len(bytes) : i <= Len(v) => bytes[i] = v[i]
    PROVE  /\ Len(bytes) >= Len(v) =>
                  /\ readVarInt(bytes).result = "ok" /\ readVarInt(bytes).value = n
                  /\ readVarInt(bytes).rest = From(bytes, Len(v) + 1)
           /\ Len(bytes) < Len(v) => readVarInt(bytes).result = "short"
<1> DEFINE last == LastByte(bytes)
           value == CHOOSE f : ValueTable(bytes, last, f)
<1>1. readVarInt(bytes) =
          IF last # 0 THEN [result |-> "ok", value |-> value[1], rest |-> From(bytes, last + 1)]
          ELSE [result |-> IF Len(bytes) < 4 THEN "short" ELSE "malformed",
                value |-> 0, rest |-> <<>>]
  BY DEF readVarInt, LastByte, ValueTable
<1>2. Len(v) \in 1 .. 4
  BY DEF VarInt
<1>3. ASSUME Len(bytes) >= Len(v)
      PROVE  /\ readVarInt(bytes).result = "ok" /\ readVarInt(bytes).value = n
             /\ readVarInt(bytes).rest = From(bytes, Len(v) + 1)
  <2>1. last = Len(v)
    BY <1>2, <1>3, LastByteFound DEF VarInt
  <2>2. \A i \in 1 .. Len(v) : bytes[i] = v[i] /\ bytes[i] \in Nat
    BY <1>2, <1>3
  <2>3. value[1] = Low(bytes, last, 1) + Half * (Low(bytes, last, 2)
                       + Half * (Low(bytes, last, 3) + Half * Low(bytes, last, 4)))
    <3> HIDE DEF last
    <3> QED
      BY <1>2, <2>1, <2>2, ValueRead
  <2>4. \A i \in 1 .. 4 : Low(bytes, last, i) = Digit(v, i)
    <3> HIDE DEF last
    <3> QED
      BY <1>2, <2>1, <2>2 DEF Low, Digit
  <2>5. value[1] = Worth(v)
    <3> HIDE DEF last, value
    <3> QED
      BY <2>3, <2>4 DEF Worth
  <2>6. Worth(v) = n
    BY DEF VarInt
  <2> HIDE DEF last, value
  <2> QED
    BY <1>1, <1>2, <2>1, <2>5, <2>6
<1>4. ASSUME Len(bytes) < Len(v) PROVE readVarInt(bytes).result = "short"
  <2>1. last = 0 /\ Len(bytes) < 4
    BY <1>2, <1>4, LastByteFound DEF VarInt
  <2> HIDE DEF last, value
  <2> QED
    BY <1>1, <2>1
<1> QED
  BY <1>3, <1>4

-----------------------------------------------------------------------------
(* Parts of sequences, and numbers of two bytes.                             *)

(* Two sequences joined, and taken apart again.                             *)
LEMMA Joined ==
    ASSUME NEW S, NEW a \in Seq(S), NEW b \in Seq(S)
    PROVE  /\ a \o b \in Seq(S) /\ Len(a \o b) = Len(a) + Len(b)
           /\ \A i \in 1 .. Len(a) : (a \o b)[i] = a[i]
           /\ \A i \in 1 .. Len(b) : (a \o b)[Len(a) + i] = b[i]
           /\ SubSeq(a \o b, 1, Len(a)) = a
           /\ From(a \o b, Len(a) + 1) = b
<1>1. /\ a \o b \in Seq(S) /\ Len(a \o b) = Len(a) + Len(b)
      /\ \A i \in 1 .. Len(a) : (a \o b)[i] = a[i]
      /\ \A i \in 1 .. Len(b) : (a \o b)[Len(a) + i] = b[i]
      /\ Len(a) \in Nat /\ Len(b) \in Nat
  OBVIOUS
<1> DEFINE c == a \o b
<1> HIDE DEF c
<1>2. SubSeq(c, 1, Len(a)) = a
  <2>1. SubSeq(c, 1, Len(a)) \in Seq(S) /\ Len(SubSeq(c, 1, Len(a))) = Len(a)
        /\ \A i \in 1 .. Len(a) : SubSeq(c, 1, Len(a))[i] = c[i]
    BY <1>1, SubSeqProperties DEF c
  <2> QED
    BY <1>1, <2>1, SeqEqual DEF c
<1>3. From(c, Len(a) + 1) = b
  <2>1. Len(c) = Len(a) + Len(b) /\ c \in Seq(S) /\ \A i \in Len(a) + 1 .. Len(c) : c[i] \in S
    BY <1>1 DEF c
  <2>2. /\ SubSeq(c, Len(a) + 1, Len(c)) \in Seq(S)
        /\ Len(SubSeq(c, Len(a) + 1, Len(c))) = Len(b)
        /\ \A i \in 1 .. Len(b) : SubSeq(c, Len(a) + 1, Len(c))[i] = c[Len(a) + i]
    BY <1>1, <2>1, SubSeqProperties
  <2>3. \A i \in 1 .. Len(b) : c[Len(a) + i] = b[i]
    BY <1>1 DEF c
  <2> QED
    BY <2>2, <2>3, SeqEqual DEF From
<1> QED
  BY <1>1, <1>2, <1>3 DEF c

(* What From returns.                                                       *)
LEMMA SuffixOf ==
    ASSUME NEW S, NEW s \in Seq(S), NEW i \in 1 .. Len(s) + 1
    PROVE  /\ From(s, i) \in Seq(S) /\ Len(From(s, i)) = Len(s) - i + 1
           /\ \A k \in 1 .. Len(s) - i + 1 : From(s, i)[k] = s[i + k - 1]
<1>1. Len(s) \in Nat /\ \A k \in i .. Len(s) : s[k] \in S
  OBVIOUS
<1> QED
  BY <1>1, SubSeqProperties DEF From

(* A sequence that is long enough begins with the first of two parts.       *)
LEMMA SplitAt ==
    ASSUME NEW S, NEW s \in Seq(S), NEW n \in 0 .. Len(s)
    PROVE  SubSeq(s, 1, n) \in Seq(S) /\ Len(SubSeq(s, 1, n)) = n
           /\ s = SubSeq(s, 1, n) \o From(s, n + 1)
<1>1. Len(s) \in Nat
  OBVIOUS
<1>2. SubSeq(s, 1, n) \in Seq(S) /\ Len(SubSeq(s, 1, n)) = n
      /\ \A i \in 1 .. n : SubSeq(s, 1, n)[i] = s[i]
  BY <1>1, SubSeqProperties
<1>3. SubSeq(s, 1, n) \o SubSeq(s, n + 1, Len(s)) = SubSeq(s, 1, Len(s))
  <2>1. 1 \in 1 .. Len(s) + 1 /\ n \in 1 - 1 .. Len(s) /\ Len(s) \in n .. Len(s)
    BY <1>1
  <2> QED
    BY <2>1, ConcatAdjacentSubSeq
<1> QED
  BY <1>2, <1>3, SubSeqFull DEF From

(* Quotient and remainder.                                                  *)
LEMMA DivModBy ==
    ASSUME NEW b \in Nat, b > 0, NEW n \in Nat
    PROVE  /\ n \div b \in Nat /\ n % b \in 0 .. b - 1
           /\ n = (n % b) + b * (n \div b)
           /\ n < b => n % b = n
  OBVIOUS

(* AppendUint16 loses nothing of a number that fits.                        *)
LEMMA BigEndian ==
    ASSUME NEW n \in Nat, n < Byte * Byte
    PROVE  /\ AppendUint16(n) \in Seq(Nat) /\ Len(AppendUint16(n)) = 2
           /\ AppendUint16(n)[1] * Byte + AppendUint16(n)[2] = n
<1>1. Byte \in Nat /\ Byte > 0
  BY CodecAssumption DEF Byte
<1> HIDE DEF Byte
<1> DEFINE q == n \div Byte
           r == n % Byte
<1>2. q \in Nat /\ r \in 0 .. Byte - 1 /\ n = r + Byte * q
  BY <1>1, DivModBy
<1> HIDE DEF q, r
<1>3. q < Byte
  <2> SUFFICES ASSUME q >= Byte PROVE FALSE
    BY <1>1, <1>2
  <2>1. PICK d \in Nat : q = Byte + d
    BY <1>1, <1>2
  <2>2. Byte * (Byte + d) = Byte * Byte + Byte * d /\ Byte * d \in Nat /\ Byte * Byte \in Nat
    BY <1>1
  <2> QED
    BY <1>1, <1>2, <2>1, <2>2
<1>4. q % Byte = q
  BY <1>1, <1>2, <1>3, DivModBy
<1>5. AppendUint16(n) = <<q, r>>
  BY <1>4 DEF AppendUint16, q, r
<1>6. q * Byte + r = n
  BY <1>1, <1>2
<1>7. <<q, r>> \in Seq(Nat) /\ Len(<<q, r>>) = 2 /\ <<q, r>>[1] = q /\ <<q, r>>[2] = r
  <2>1. q \in Nat /\ r \in Nat
    BY <1>1, <1>2
  <2> QED
    BY <2>1
<1> QED
  BY <1>5, <1>6, <1>7

-----------------------------------------------------------------------------
(* Packets: what readPacket makes of one, and of a part of one.             *)

(* Joining is associative.                                                  *)
LEMMA Associative ==
    \A a, b, c \in Seq(Nat) : (a \o b) \o c = a \o (b \o c)
  BY ConcatAssociative

(* A packet is its header byte, its length and its body.                    *)
LEMMA PacketParts ==
    ASSUME NEW header \in Nat, NEW body \in Seq(Nat), Len(body) <= MaxPacketSize
    PROVE  LET size == appendVarInt[Len(body)]
               packet1 == makePacket(header, body)
           IN  /\ VarInt(size, Len(body), 4) /\ size \in Seq(Nat) /\ Len(size) \in 1 .. 4
               /\ packet1 = <<header>> \o (size \o body)
               /\ packet1 \in Seq(Nat) /\ Len(packet1) = 1 + Len(size) + Len(body)
               /\ \A i \in 1 .. Len(size) : packet1[i + 1] = size[i]
<1> DEFINE size == appendVarInt[Len(body)]
<1>1. VarInt(size, Len(body), 4) /\ Len(body) \in Nat
  <2>1. Len(body) \in Nat /\ Len(body) < MaxRemaining
    <3>1. MaxPacketSize \in Nat /\ MaxPacketSize < MaxRemaining /\ MaxRemaining \in Nat
      BY SizeAssumption, CodecAssumption DEF MaxRemaining
    <3> QED
      BY <3>1
  <2> QED
    BY <2>1, Written
<1>2. size \in Seq(Nat) /\ Len(size) \in 1 .. 4
  BY <1>1 DEF VarInt
<1>3. makePacket(header, body) = (<<header>> \o size) \o body
  BY DEF makePacket
<1> HIDE DEF size
<1>4. <<header>> \in Seq(Nat) /\ Len(<<header>>) = 1
  OBVIOUS
<1>5. makePacket(header, body) = <<header>> \o (size \o body)
  BY <1>2, <1>3, <1>4, ConcatAssociative
<1>6. size \o body \in Seq(Nat) /\ Len(size \o body) = Len(size) + Len(body)
      /\ \A i \in 1 .. Len(size) : (size \o body)[i] = size[i]
  BY <1>2, Joined
<1> DEFINE rest == size \o body
<1> HIDE DEF rest
<1>7. <<header>> \o rest \in Seq(Nat) /\ Len(<<header>> \o rest) = 1 + Len(rest)
      /\ \A i \in 1 .. Len(rest) : (<<header>> \o rest)[1 + i] = rest[i]
  BY <1>4, <1>6, Joined DEF rest
<1>8. \A i \in 1 .. Len(size) : i \in 1 .. Len(rest) /\ i + 1 = 1 + i
  BY <1>2, <1>6 DEF rest
<1>9. /\ <<header>> \o rest \in Seq(Nat)
      /\ Len(<<header>> \o rest) = 1 + Len(size) + Len(body)
      /\ \A i \in 1 .. Len(size) : (<<header>> \o rest)[i + 1] = size[i]
  <2>1. Len(rest) = Len(size) + Len(body) /\ Len(size) \in Nat
    BY <1>2, <1>6 DEF rest
  <2>2. Len(<<header>> \o rest) = 1 + Len(size) + Len(body)
    BY <1>1, <1>7, <2>1
  <2>3. ASSUME NEW i \in 1 .. Len(size) PROVE (<<header>> \o rest)[i + 1] = size[i]
    BY <1>6, <1>7, <1>8 DEF rest
  <2> QED
    BY <1>7, <2>2, <2>3
<1> QED
  BY <1>1, <1>2, <1>5, <1>9 DEF size, rest

(* readPacket returns a packet that is all there, and leaves what follows   *)
(* it.                                                                      *)
LEMMA WholePacket ==
    ASSUME NEW header \in Nat, NEW body \in Seq(Nat), Len(body) <= MaxPacketSize,
           NEW s \in Seq(Nat)
    PROVE  LET p == readPacket(makePacket(header, body) \o s)
           IN  /\ p.result = "ok" /\ p.type = header \div 16 /\ p.flags = header % 16
               /\ p.body = body /\ p.rest = s
<1> DEFINE size == appendVarInt[Len(body)]
           bytes == makePacket(header, body) \o s
           after == body \o s
<1>1. /\ VarInt(size, Len(body), 4) /\ size \in Seq(Nat) /\ Len(size) \in 1 .. 4
      /\ makePacket(header, body) = <<header>> \o (size \o body)
  BY PacketParts
<1> HIDE DEF size
<1>2. <<header>> \in Seq(Nat) /\ Len(<<header>>) = 1 /\ size \o body \in Seq(Nat)
      /\ after \in Seq(Nat) /\ size \o after \in Seq(Nat)
  <2>1. <<header>> \in Seq(Nat) /\ Len(<<header>>) = 1
    OBVIOUS
  <2>2. size \o body \in Seq(Nat) /\ after \in Seq(Nat)
    BY <1>1, Joined
  <2> HIDE DEF after
  <2>3. size \o after \in Seq(Nat)
    BY <1>1, <2>2, Joined
  <2> QED
    BY <2>1, <2>2, <2>3
<1>3. bytes = <<header>> \o (size \o after)
  <2>1. bytes = <<header>> \o ((size \o body) \o s)
    BY <1>1, <1>2, ConcatAssociative
  <2>2. (size \o body) \o s = size \o (body \o s)
    BY <1>1, Associative
  <2> QED
    BY <2>1, <2>2
<1> HIDE DEF bytes
<1>4. bytes \in Seq(Nat) /\ bytes # <<>> /\ bytes[1] = header /\ Tail(bytes) = size \o after
  <2> DEFINE all == size \o after
  <2>1. all \in Seq(Nat)
    BY <1>2
  <2> HIDE DEF all
  <2>2. <<header>> \o all \in Seq(Nat) /\ <<header>> \o all # <<>>
        /\ (<<header>> \o all)[1] = header
        /\ Tail(<<header>> \o all) = all
    BY <2>1
  <2> QED
    BY <1>3, <2>2 DEF all
<1>5. /\ readVarInt(size \o after).result = "ok"
      /\ readVarInt(size \o after).value = Len(body)
      /\ readVarInt(size \o after).rest = after
  <2>1. /\ Len(size \o after) = Len(size) + Len(after)
        /\ \A i \in 1 .. Len(size) : (size \o after)[i] = size[i]
        /\ From(size \o after, Len(size) + 1) = after
    <3> HIDE DEF after
    <3> QED
      BY <1>1, <1>2, Joined
  <2> DEFINE all == size \o after
  <2>2. all \in Seq(Nat) /\ Len(all) >= Len(size) /\ Len(body) \in Nat
    <3>1. Len(after) \in Nat /\ Len(size) \in Nat
      BY <1>1, <1>2
    <3> HIDE DEF after
    <3> QED
      BY <1>2, <2>1, <3>1
  <2>3. \A i \in 1 .. Len(all) : i <= Len(size) => all[i] = size[i]
    <3> SUFFICES ASSUME NEW i \in 1 .. Len(all), i <= Len(size) PROVE all[i] = size[i]
      OBVIOUS
    <3>1. i \in 1 .. Len(size)
      <4>1. Len(all) \in Nat
        BY <2>2
      <4> HIDE DEF all
      <4> QED
        BY <1>1, <4>1
    <3> QED
      BY <2>1, <3>1
  <2>4. From(all, Len(size) + 1) = after
    <3> HIDE DEF after
    <3> QED
      BY <2>1
  <2> HIDE DEF all
  <2>5. /\ readVarInt(all).result = "ok" /\ readVarInt(all).value = Len(body)
        /\ readVarInt(all).rest = From(all, Len(size) + 1)
    BY <1>1, <2>2, <2>3, ReadVarInt
  <2> QED
    BY <2>4, <2>5 DEF all
<1>6. /\ Len(after) = Len(body) + Len(s) /\ SubSeq(after, 1, Len(body)) = body
      /\ From(after, Len(body) + 1) = s
  BY Joined
<1>7. ~(Len(after) < Len(body)) /\ ~(Len(body) > MaxPacketSize)
  <2>1. Len(body) \in Nat /\ Len(s) \in Nat /\ MaxPacketSize \in Nat
    BY SizeAssumption
  <2> QED
    BY <1>6, <2>1
<1> HIDE DEF after
<1>8. readPacket(bytes) = [result |-> "ok", type |-> header \div 16, flags |-> header % 16,
                           body |-> body, rest |-> s]
  BY <1>4, <1>5, <1>6, <1>7 DEF readPacket
<1> QED
  BY <1>8 DEF bytes

(* Of a packet that is not all there it says so, wherever it stops.         *)
LEMMA PartPacket ==
    ASSUME NEW header \in Nat, NEW body \in Seq(Nat), Len(body) <= MaxPacketSize,
           NEW part \in Seq(Nat), Len(part) < Len(makePacket(header, body)),
           \A i \in 1 .. Len(part) : part[i] = makePacket(header, body)[i]
    PROVE  readPacket(part).result = "short"
<1> DEFINE size == appendVarInt[Len(body)]
           whole == makePacket(header, body)
<1>1. /\ VarInt(size, Len(body), 4) /\ size \in Seq(Nat) /\ Len(size) \in 1 .. 4
      /\ whole \in Seq(Nat) /\ Len(whole) = 1 + Len(size) + Len(body)
      /\ \A i \in 1 .. Len(size) : whole[i + 1] = size[i]
  BY PacketParts
<1>2. Len(part) < Len(whole) /\ \A i \in 1 .. Len(part) : part[i] = whole[i]
  OBVIOUS
<1> HIDE DEF size, whole
<1>3. CASE part = <<>>
  BY <1>3 DEF readPacket
<1>4. CASE part # <<>>
  <2> DEFINE t == Tail(part)
  <2>1. t \in Seq(Nat) /\ Len(t) = Len(part) - 1 /\ Len(part) \in Nat
        /\ \A i \in 1 .. Len(t) : t[i] = part[i + 1]
    BY <1>4, HeadTailProperties
  <2> HIDE DEF t
  <2>2. ASSUME NEW i \in 1 .. Len(t), i <= Len(size) PROVE t[i] = size[i]
    <3>1. Len(t) \in Nat /\ i + 1 \in 1 .. Len(part) /\ i \in 1 .. Len(size)
      BY <1>1, <2>1, <2>2
    <3> QED
      BY <1>1, <1>2, <2>1, <3>1
  <2>3. Len(body) \in Nat /\ Len(t) \in Nat
    BY <2>1
  <2>4. CASE Len(t) < Len(size)
    <3>1. readVarInt(t).result = "short"
      BY <1>1, <2>1, <2>2, <2>3, <2>4, ReadVarInt
    <3> QED
      BY <3>1 DEF readPacket, t
  <2>5. CASE Len(t) >= Len(size)
    <3>1. /\ readVarInt(t).result = "ok" /\ readVarInt(t).value = Len(body)
          /\ readVarInt(t).rest = From(t, Len(size) + 1)
      BY <1>1, <2>1, <2>2, <2>3, <2>5, ReadVarInt
    <3>2. Len(From(t, Len(size) + 1)) = Len(t) - Len(size)
      <4>1. Len(size) + 1 \in 1 .. Len(t) + 1
        BY <1>1, <2>3, <2>5
      <4>2. Len(From(t, Len(size) + 1)) = Len(t) - (Len(size) + 1) + 1
        BY <2>1, <4>1, SuffixOf
      <4> QED
        BY <1>1, <2>3, <4>2
    <3>3. Len(From(t, Len(size) + 1)) < Len(body)
      BY <1>1, <1>2, <2>1, <2>3, <3>2
    <3>4. ~(Len(body) > MaxPacketSize)
      BY <2>3, SizeAssumption
    <3> QED
      BY <1>4, <3>1, <3>3, <3>4 DEF readPacket, t
  <2> QED
    BY <1>1, <2>3, <2>4, <2>5
<1> QED
  BY <1>3, <1>4

-----------------------------------------------------------------------------
(* The body of a PUBLISH.                                                   *)

Sendable(m) ==
    /\ m = [topic |-> m.topic, payload |-> m.payload, qos |-> m.qos, retain |-> m.retain,
            id |-> m.id]
    /\ Encodable(m.topic, m.payload)
    /\ m.qos \in {0, 1} /\ m.retain \in BOOLEAN
    /\ m.id \in Nat /\ m.id < Byte * Byte /\ (m.qos = 0 => m.id = 0)

Header(m) == Type.PUBLISH * 16 + 2 * m.qos + (IF m.retain THEN 1 ELSE 0)
Id(m) == IF m.qos = 1 THEN AppendUint16(m.id) ELSE <<>>
Body(m) == AppendUint16(Len(m.topic)) \o m.topic \o Id(m) \o <<0>> \o m.payload

(* Type, QoS and retain flag come back from the header byte.                *)
LEMMA HeaderRead ==
    ASSUME NEW m, Sendable(m)
    PROVE  /\ Header(m) \in Nat /\ Header(m) \div 16 = Type.PUBLISH
           /\ ((Header(m) % 16) \div 2) % 4 = m.qos
           /\ (Header(m) % 16) % 2 = 1 <=> m.retain
<1>1. Type.PUBLISH = 3
  BY DEF Type
<1>2. m.qos \in {0, 1} /\ m.retain \in BOOLEAN
  BY DEF Sendable
<1>3. CASE m.retain
  <2>1. Header(m) = 48 + 2 * m.qos + 1
    BY <1>1, <1>2, <1>3 DEF Header
  <2> QED
    BY <1>1, <1>2, <1>3, <2>1
<1>4. CASE ~m.retain
  <2>1. Header(m) = 48 + 2 * m.qos
    BY <1>1, <1>2, <1>4 DEF Header
  <2> QED
    BY <1>1, <1>2, <1>4, <2>1
<1> QED
  BY <1>2, <1>3, <1>4

(* Where the parts of a body are.                                           *)
LEMMA BodyParts ==
    ASSUME NEW m, Sendable(m)
    PROVE  LET topic == AppendUint16(Len(m.topic)) \o m.topic
               after == Id(m) \o (<<0>> \o m.payload)
           IN  /\ Body(m) = topic \o after
               /\ Body(m) = (topic \o Id(m)) \o (<<0>> \o m.payload)
               /\ topic \in Seq(Nat) /\ Len(topic) = 2 + Len(m.topic)
               /\ Id(m) \in Seq(Nat) /\ Len(Id(m)) = IF m.qos = 1 THEN 2 ELSE 0
               /\ <<0>> \o m.payload \in Seq(Nat) /\ Len(<<0>> \o m.payload) = 1 + Len(m.payload)
               /\ after \in Seq(Nat) /\ topic \o Id(m) \in Seq(Nat)
               /\ Body(m) \in Seq(Nat)
               /\ Len(Body(m)) = 3 + Len(m.topic) + Len(Id(m)) + Len(m.payload)
               /\ Len(Body(m)) <= MaxPacketSize
<1> DEFINE size == AppendUint16(Len(m.topic))
           topic == size \o m.topic
           id == Id(m)
           rest == <<0>> \o m.payload
<1>1. /\ m.topic \in Seq(Nat) /\ Len(m.topic) \in Nat /\ Len(m.topic) < Byte * Byte
      /\ m.payload \in Seq(Nat) /\ Len(m.payload) \in Nat
      /\ Len(m.topic) + Len(m.payload) + 5 <= MaxPacketSize
      /\ MaxPacketSize \in Nat
  <2>1. Byte * Byte \in Nat /\ MaxPacketSize \in Nat
    BY CodecAssumption, SizeAssumption DEF Byte
  <2> QED
    BY <2>1 DEF Sendable, Encodable
<1>2. size \in Seq(Nat) /\ Len(size) = 2
  BY <1>1, BigEndian
<1> HIDE DEF size
<1>3. topic \in Seq(Nat) /\ Len(topic) = 2 + Len(m.topic)
  <2>1. size \o m.topic \in Seq(Nat) /\ Len(size \o m.topic) = Len(size) + Len(m.topic)
    <3>1. size \in Seq(Nat) /\ m.topic \in Seq(Nat)
      BY <1>1, <1>2
    <3> QED
      BY <3>1, Joined
  <2> QED
    BY <1>2, <2>1
<1>4. id \in Seq(Nat) /\ Len(id) = IF m.qos = 1 THEN 2 ELSE 0
  <2>1. <<>> \in Seq(Nat) /\ Len(<<>>) = 0
    OBVIOUS
  <2>2. m.id \in Nat /\ m.id < Byte * Byte
    BY DEF Sendable
  <2>3. AppendUint16(m.id) \in Seq(Nat) /\ Len(AppendUint16(m.id)) = 2
    BY <2>2, BigEndian
  <2>4. id = IF m.qos = 1 THEN AppendUint16(m.id) ELSE <<>>
    BY DEF Id
  <2>5. CASE m.qos = 1
    <3>1. id = AppendUint16(m.id)
      BY <2>4, <2>5
    <3> QED
      BY <2>3, <2>5, <3>1
  <2>6. CASE m.qos # 1
    <3>1. id = <<>>
      BY <2>4, <2>6
    <3> QED
      BY <2>1, <2>6, <3>1
  <2> QED
    BY <2>5, <2>6
<1>5. <<0>> \in Seq(Nat) /\ Len(<<0>>) = 1
  OBVIOUS
<1>6. rest \in Seq(Nat) /\ Len(rest) = 1 + Len(m.payload)
  BY <1>1, <1>5, Joined
<1>7. Body(m) = ((topic \o id) \o <<0>>) \o m.payload
  BY DEF Body, size
<1> HIDE DEF topic, id
<1>8. topic \o id \in Seq(Nat) /\ Len(topic \o id) = Len(topic) + Len(id)
  BY <1>3, <1>4, Joined
<1>9. ((topic \o id) \o <<0>>) \o m.payload = (topic \o id) \o (<<0>> \o m.payload)
  BY <1>1, <1>5, <1>8, Associative
<1> HIDE DEF rest
<1>10. (topic \o id) \o rest = topic \o (id \o rest)
  BY <1>3, <1>4, <1>6, Associative
<1>11. id \o rest \in Seq(Nat) /\ (topic \o id) \o rest \in Seq(Nat)
       /\ Len((topic \o id) \o rest) = Len(topic \o id) + Len(rest)
  BY ZenonT(40), <1>4, <1>6, <1>8, Joined
<1>12. Body(m) = (topic \o id) \o rest
  BY <1>7, <1>9 DEF rest
<1>13. Len(Body(m)) = 3 + Len(m.topic) + Len(id) + Len(m.payload)
       /\ Len(Body(m)) <= MaxPacketSize
  <2>1. Len(id) \in Nat /\ Len(id) <= 2
    BY <1>4
  <2>2. Len(Body(m)) = (2 + Len(m.topic) + Len(id)) + (1 + Len(m.payload))
    BY <1>3, <1>6, <1>8, <1>11, <1>12
  <2> DEFINE k == Len(id)
             t == Len(m.topic)
             p == Len(m.payload)
  <2>3. k \in Nat /\ k <= 2 /\ t \in Nat /\ p \in Nat /\ t + p + 5 <= MaxPacketSize
        /\ MaxPacketSize \in Nat /\ Len(Body(m)) = (2 + t + k) + (1 + p)
    BY <1>1, <2>1, <2>2
  <2> HIDE DEF k, t, p
  <2>4. Len(Body(m)) = 3 + t + k + p /\ Len(Body(m)) <= MaxPacketSize
    BY <2>3
  <2> QED
    BY <2>4 DEF k, t, p
<1> QED
  BY <1>3, <1>4, <1>6, <1>8, <1>10, <1>11, <1>12, <1>13 DEF topic, id, rest, size

(* The topic comes back.                                                    *)
LEMMA TopicRead ==
    ASSUME NEW m, Sendable(m)
    PROVE  /\ Uint16(Body(m)) = Len(m.topic)
           /\ SubSeq(Body(m), 3, 2 + Len(m.topic)) = m.topic
<1> DEFINE size == AppendUint16(Len(m.topic))
           topic == size \o m.topic
           after == Id(m) \o (<<0>> \o m.payload)
<1>1. /\ m.topic \in Seq(Nat) /\ Len(m.topic) \in Nat
      /\ size \in Seq(Nat) /\ Len(size) = 2 /\ size[1] * Byte + size[2] = Len(m.topic)
  <2>1. Len(m.topic) \in Nat /\ Len(m.topic) < Byte * Byte
    <3>1. Byte * Byte \in Nat
      BY CodecAssumption DEF Byte
    <3> QED
      BY <3>1 DEF Sendable, Encodable
  <2> QED
    BY <2>1, BigEndian DEF Sendable, Encodable
<1>2. Body(m) = topic \o after /\ topic \in Seq(Nat) /\ after \in Seq(Nat)
      /\ Len(topic) = 2 + Len(m.topic) /\ Body(m) \in Seq(Nat)
  BY BodyParts
<1> DEFINE t == m.topic
<1> HIDE DEF size, after, t
<1>3. /\ \A i \in 1 .. 2 : (size \o t)[i] = size[i]
      /\ \A i \in 1 .. Len(t) : (size \o t)[2 + i] = t[i]
  <2>1. size \in Seq(Nat) /\ t \in Seq(Nat)
    BY <1>1 DEF t
  <2>2. /\ \A i \in 1 .. Len(size) : (size \o t)[i] = size[i]
        /\ \A i \in 1 .. Len(t) : (size \o t)[Len(size) + i] = t[i]
    BY <2>1, Joined
  <2>3. Len(size) = 2
    BY <1>1
  <2> QED
    BY <2>2, <2>3
<1> HIDE DEF topic
<1>4. \A i \in 1 .. Len(topic) : (topic \o after)[i] = topic[i]
  BY <1>2, Joined
<1>5. /\ \A i \in 1 .. 2 : Body(m)[i] = size[i]
      /\ \A i \in 1 .. Len(t) : Body(m)[2 + i] = t[i]
  <2>1. ASSUME NEW i \in 1 .. 2 PROVE Body(m)[i] = size[i]
    <3>1. i \in 1 .. Len(topic)
      BY <1>1, <1>2
    <3> QED
      BY <1>2, <1>3, <1>4, <3>1 DEF topic, t
  <2>2. ASSUME NEW i \in 1 .. Len(t) PROVE Body(m)[2 + i] = t[i]
    <3>1. 2 + i \in 1 .. Len(topic)
      BY <1>1, <1>2 DEF t
    <3> QED
      BY <1>2, <1>3, <1>4, <3>1 DEF topic, t
  <2> QED
    BY <2>1, <2>2
<1>6. Uint16(Body(m)) = Len(m.topic)
  BY <1>1, <1>5 DEF Uint16
<1>7. SubSeq(Body(m), 3, 2 + Len(t)) = t
  <2> DEFINE b == Body(m)
  <2>1. b \in Seq(Nat) /\ Len(t) \in Nat /\ t \in Seq(Nat) /\ \A i \in 1 .. Len(t) : b[2 + i] = t[i]
    BY <1>1, <1>2, <1>5 DEF t
  <2> HIDE DEF b
  <2>2. \A i \in 3 .. 2 + Len(t) : b[i] \in Nat
    <3> SUFFICES ASSUME NEW i \in 3 .. 2 + Len(t) PROVE b[i] \in Nat
      OBVIOUS
    <3>1. i - 2 \in 1 .. Len(t) /\ 2 + (i - 2) = i
      BY <2>1
    <3>2. b[i] = t[i - 2] /\ t[i - 2] \in Nat
      BY <2>1, <3>1
    <3> QED
      BY <3>2
  <2>3. /\ SubSeq(b, 3, 2 + Len(t)) \in Seq(Nat) /\ Len(SubSeq(b, 3, 2 + Len(t))) = Len(t)
        /\ \A i \in 1 .. Len(t) : SubSeq(b, 3, 2 + Len(t))[i] = b[2 + i]
    <3>1. /\ SubSeq(b, 3, 2 + Len(t)) \in Seq(Nat)
          /\ Len(SubSeq(b, 3, 2 + Len(t))) = IF 3 <= 2 + Len(t) THEN 2 + Len(t) - 3 + 1 ELSE 0
          /\ \A i \in 1 .. 2 + Len(t) - 3 + 1 : SubSeq(b, 3, 2 + Len(t))[i] = b[3 + i - 1]
      <4>1. 3 \in Int /\ 2 + Len(t) \in Int
        BY <2>1
      <4> QED
        BY <2>2, <4>1, SubSeqProperties
    <3>2. 2 + Len(t) - 3 + 1 = Len(t) /\ \A i \in 1 .. Len(t) : 3 + i - 1 = 2 + i
      BY <2>1
    <3>3. Len(SubSeq(b, 3, 2 + Len(t))) = Len(t)
      BY <2>1, <3>1
    <3> QED
      BY <3>1, <3>2, <3>3
  <2>4. \A i \in 1 .. Len(t) : SubSeq(b, 3, 2 + Len(t))[i] = t[i]
    BY <2>1, <2>3
  <2>5. SubSeq(b, 3, 2 + Len(t)) = t
    BY <2>1, <2>3, <2>4, SeqEqual
  <2> QED
    BY <2>5 DEF b
<1> QED
  BY <1>6, <1>7 DEF t

(* The packet identifier comes back.                                        *)
LEMMA IdRead ==
    ASSUME NEW m, Sendable(m), m.qos = 1
    PROVE  Uint16(From(Body(m), 3 + Len(m.topic))) = m.id
<1> DEFINE topic == AppendUint16(Len(m.topic)) \o m.topic
           rest == <<0>> \o m.payload
           after == Id(m) \o rest
           id == AppendUint16(m.id)
<1>1. /\ Body(m) = topic \o after /\ topic \in Seq(Nat) /\ after \in Seq(Nat)
      /\ Len(topic) = 2 + Len(m.topic) /\ Id(m) \in Seq(Nat) /\ rest \in Seq(Nat)
  BY BodyParts
<1>2. Id(m) = id
  BY DEF Id
<1>3. Len(id) = 2 /\ id[1] * Byte + id[2] = m.id
  BY BigEndian DEF Sendable
<1> HIDE DEF topic, rest, id
<1>4. after[1] = id[1] /\ after[2] = id[2]
  <2>1. id \in Seq(Nat) /\ rest \in Seq(Nat)
    BY <1>1, <1>2
  <2>2. \A i \in 1 .. Len(id) : (id \o rest)[i] = id[i]
    BY <2>1, Joined
  <2>3. after = id \o rest
    BY <1>2
  <2>4. 1 \in 1 .. Len(id) /\ 2 \in 1 .. Len(id)
    BY <1>3
  <2> HIDE DEF after
  <2> QED
    BY <2>2, <2>3, <2>4
<1> HIDE DEF after
<1>6. From(topic \o after, Len(topic) + 1) = after
  BY <1>1, Joined
<1>7. Len(topic) + 1 = 3 + Len(m.topic)
  <2>1. Len(m.topic) \in Nat
    BY DEF Sendable, Encodable
  <2> QED
    BY <1>1, <2>1
<1>8. From(Body(m), 3 + Len(m.topic)) = after
  BY <1>1, <1>6, <1>7
<1> QED
  BY <1>3, <1>4, <1>8 DEF Uint16

(* The properties are read as empty, and the payload begins behind them.    *)
LEMMA PayloadRead ==
    ASSUME NEW m, Sendable(m)
    PROVE  LET head == 2 + Len(m.topic) + (IF m.qos = 1 THEN 2 ELSE 0)
               properties == readVarInt(From(Body(m), head + 1))
           IN  /\ Len(Body(m)) >= 3 /\ Len(Body(m)) >= head
               /\ properties.result = "ok" /\ properties.value = 0
               /\ properties.rest = m.payload
<1> DEFINE topic == AppendUint16(Len(m.topic)) \o m.topic
           front == topic \o Id(m)
           rest == <<0>> \o m.payload
           head == 2 + Len(m.topic) + (IF m.qos = 1 THEN 2 ELSE 0)
<1>1. /\ Body(m) = front \o rest /\ front \in Seq(Nat) /\ rest \in Seq(Nat)
      /\ topic \in Seq(Nat) /\ Id(m) \in Seq(Nat)
      /\ Len(topic) = 2 + Len(m.topic)
      /\ Len(Id(m)) = IF m.qos = 1 THEN 2 ELSE 0
      /\ Len(rest) = 1 + Len(m.payload)
      /\ Len(Body(m)) = 3 + Len(m.topic) + Len(Id(m)) + Len(m.payload)
  BY BodyParts
<1>2. Len(m.topic) \in Nat /\ Len(m.payload) \in Nat /\ m.payload \in Seq(Nat)
  BY DEF Sendable, Encodable
<1>3. Len(Id(m)) \in Nat
  BY <1>1
<1> HIDE DEF topic
<1>4. Len(front) = Len(topic) + Len(Id(m))
  BY <1>1, Joined
<1>5. head = Len(front)
  BY <1>1, <1>4
<1>6. Len(Body(m)) >= 3 /\ Len(Body(m)) >= head
  <2>1. head = 2 + Len(m.topic) + Len(Id(m))
    BY <1>1
  <2>2. Len(Body(m)) = 3 + Len(m.topic) + Len(Id(m)) + Len(m.payload)
    BY <1>1
  <2> DEFINE k == Len(Id(m))
             t == Len(m.topic)
             p == Len(m.payload)
             b == Len(Body(m))
  <2>3. k \in Nat /\ t \in Nat /\ p \in Nat /\ b = 3 + t + k + p /\ head = 2 + t + k
    BY <1>2, <1>3, <2>1, <2>2
  <2> HIDE DEF k, t, p, b, head, front, rest
  <2>4. b >= 3 /\ b >= head
    BY <2>3
  <2> QED
    BY <2>4 DEF b
<1> HIDE DEF front, head
<1>7. From(Body(m), head + 1) = rest
  <2>1. From(front \o rest, Len(front) + 1) = rest
    <3> HIDE DEF rest
    <3> QED
      BY <1>1, Joined
  <2> QED
    BY <1>1, <1>5, <2>1
<1>8. rest[1] = 0 /\ From(rest, 1 + 1) = m.payload
  <2>1. <<0>> \in Seq(Nat) /\ Len(<<0>>) = 1 /\ <<0>>[1] = 0 /\ 1 \in 1 .. 1
    OBVIOUS
  <2> DEFINE z == <<0>>
  <2>2. z \in Seq(Nat) /\ Len(z) = 1 /\ z[1] = 0
    BY <2>1
  <2> HIDE DEF z
  <2> DEFINE pay == m.payload
  <2>0. pay \in Seq(Nat)
    BY <1>2
  <2> HIDE DEF pay
  <2>3. /\ \A i \in 1 .. Len(z) : (z \o pay)[i] = z[i]
        /\ From(z \o pay, Len(z) + 1) = pay
    BY <2>0, <2>2, Joined
  <2>4. (z \o pay)[1] = z[1]
    <3>1. 1 \in 1 .. Len(z)
      BY <2>2
    <3> QED
      BY <2>3, <3>1
  <2> QED
    BY <2>2, <2>3, <2>4 DEF z, pay
<1> HIDE DEF rest
<1>9. VarInt(<<0>>, 0, 4) /\ Len(<<0>>) = 1 /\ <<0>>[1] = 0
  <2>1. VarInt(<<0>>, 0, 1)
    BY OneByte, CodecAssumption
  <2> QED
    BY <2>1 DEF VarInt
<1>10. /\ readVarInt(rest).result = "ok" /\ readVarInt(rest).value = 0
       /\ readVarInt(rest).rest = From(rest, 1 + 1)
  <2> DEFINE z == <<0>>
  <2>1. VarInt(z, 0, 4) /\ Len(z) = 1 /\ z[1] = 0
    BY <1>9
  <2> HIDE DEF z
  <2>2. Len(rest) \in Nat /\ Len(rest) >= 1
    BY <1>1, <1>2
  <2>3. \A i \in 1 .. Len(rest) : i <= Len(z) => rest[i] = z[i]
    <3> SUFFICES ASSUME NEW i \in 1 .. Len(rest), i <= Len(z) PROVE rest[i] = z[i]
      OBVIOUS
    <3>1. i = 1
      BY <2>1, <2>2
    <3> QED
      BY <1>8, <2>1, <3>1
  <2>4. /\ readVarInt(rest).result = "ok" /\ readVarInt(rest).value = 0
        /\ readVarInt(rest).rest = From(rest, Len(z) + 1)
    BY ZenonT(40), <1>1, <2>1, <2>2, <2>3, ReadVarInt
  <2> QED
    BY <2>1, <2>4
<1> QED
  BY <1>6, <1>7, <1>8, <1>10 DEF head

(* parsePublish undoes encodePublish.                                       *)
LEMMA PublishParsed ==
    ASSUME NEW m, Sendable(m)
    PROVE  LET p == parsePublish(Header(m) % 16, Body(m))
           IN  p.ok /\ p.message = m
<1> DEFINE flags == Header(m) % 16
           body == Body(m)
           topicLen == Uint16(body)
           qos == (flags \div 2) % 4
           head == 2 + topicLen + (IF qos = 1 THEN 2 ELSE 0)
           properties == readVarInt(From(body, head + 1))
           fits == /\ Len(body) >= 3 /\ topicLen > 0 /\ qos < 2 /\ Len(body) >= head
                   /\ properties.result = "ok" /\ properties.value <= Len(properties.rest)
           message == [topic |-> SubSeq(body, 3, 2 + topicLen),
                       payload |-> From(properties.rest, properties.value + 1),
                       qos |-> qos, retain |-> flags % 2 = 1,
                       id |-> IF qos = 1 THEN Uint16(From(body, 3 + topicLen)) ELSE 0]
<1>1. parsePublish(flags, body) = [ok |-> fits, message |-> IF ~fits THEN NoMessage ELSE message]
  BY DEF parsePublish
<1>2. qos = m.qos /\ (flags % 2 = 1) = m.retain
  BY HeaderRead DEF Sendable
<1>3. topicLen = Len(m.topic) /\ SubSeq(body, 3, 2 + Len(m.topic)) = m.topic
  BY TopicRead
<1>4. /\ m.qos \in {0, 1} /\ Len(m.topic) \in Nat /\ Len(m.topic) > 0
      /\ m.payload \in Seq(Nat) /\ Len(m.payload) \in Nat /\ (m.qos = 0 => m.id = 0)
      /\ m = [topic |-> m.topic, payload |-> m.payload, qos |-> m.qos, retain |-> m.retain,
              id |-> m.id]
  <2>1. Byte * Byte \in Nat
    BY CodecAssumption DEF Byte
  <2> QED
    BY <2>1 DEF Sendable, Encodable
<1> HIDE DEF flags, body, qos, topicLen
<1>5. head = 2 + Len(m.topic) + (IF m.qos = 1 THEN 2 ELSE 0)
  BY <1>2, <1>3
<1>6. /\ Len(body) >= 3 /\ Len(body) >= head
      /\ properties.result = "ok" /\ properties.value = 0 /\ properties.rest = m.payload
  BY <1>5, PayloadRead DEF body
<1>7. m.qos = 1 => Uint16(From(body, 3 + Len(m.topic))) = m.id
  BY IdRead DEF body
<1> HIDE DEF head, properties
<1>8. fits
  BY <1>2, <1>3, <1>4, <1>6
<1>9. From(properties.rest, properties.value + 1) = m.payload
  <2>1. SubSeq(m.payload, 1, Len(m.payload)) = m.payload /\ 0 + 1 = 1
    BY <1>4, SubSeqFull
  <2> QED
    BY <1>6, <2>1 DEF From
<1>10. (IF qos = 1 THEN Uint16(From(body, 3 + topicLen)) ELSE 0) = m.id
  BY <1>2, <1>3, <1>4, <1>7
<1>11. message = m
  BY <1>2, <1>3, <1>4, <1>9, <1>10
<1> HIDE DEF fits, message
<1>12. parsePublish(flags, body).ok = fits /\ parsePublish(flags, body).message = message
  BY <1>1, <1>8
<1> QED
  BY <1>8, <1>11, <1>12 DEF flags, body

(* What a goroutine has to send: a PUBLISH or the PINGREQ.                  *)
Message(m) == Sendable(m) \/ m = NoMessage

(* A message is one packet, of which Decoded makes the message again.       *)
LEMMA EncodedAs ==
    ASSUME NEW m, Message(m)
    PROVE  \E header \in Nat, body \in Seq(Nat) :
               /\ Len(body) <= MaxPacketSize /\ Encoded(m) = makePacket(header, body)
               /\ \A p : /\ p.result = "ok" /\ p.type = header \div 16
                         /\ p.flags = header % 16 /\ p.body = body
                         => Decoded(p) = m
<1>1. CASE Sendable(m)
  <2>1. m # NoMessage
    <3>1. Len(m.topic) # 0
      BY <1>1 DEF Sendable, Encodable
    <3>2. NoMessage.topic = <<>> /\ Len(<<>>) = 0
      BY DEF NoMessage
    <3> QED
      BY <3>1, <3>2
  <2>2. Encoded(m) = makePacket(Header(m), Body(m))
    BY <2>1 DEF Encoded, encodePublish, Header, Body, Id
  <2>3. Header(m) \in Nat /\ Body(m) \in Seq(Nat) /\ Len(Body(m)) <= MaxPacketSize
    BY <1>1, HeaderRead, BodyParts
  <2>4. ASSUME NEW p, p.result = "ok", p.type = Header(m) \div 16, p.flags = Header(m) % 16,
               p.body = Body(m)
        PROVE  Decoded(p) = m
    <3>1. p.type = Type.PUBLISH /\ Type.PUBLISH # Type.PINGREQ
      BY <1>1, <2>4, HeaderRead DEF Type
    <3>2. parsePublish(p.flags, p.body).ok /\ parsePublish(p.flags, p.body).message = m
      BY <1>1, <2>4, PublishParsed
    <3> QED
      BY <2>4, <3>1, <3>2 DEF Decoded
  <2> QED
    BY <2>2, <2>3, <2>4
<1>2. CASE m = NoMessage
  <2> DEFINE header == Type.PINGREQ * 16
  <2>1. header = 192 /\ header \in Nat /\ header \div 16 = Type.PINGREQ
    BY DEF Type
  <2>2. <<>> \in Seq(Nat) /\ Len(<<>>) = 0
    OBVIOUS
  <2>3. Len(<<>>) <= MaxPacketSize
    <3>1. MaxPacketSize \in Nat
      BY SizeAssumption
    <3> QED
      BY <2>2, <3>1
  <2>4. Encoded(m) = makePacket(header, <<>>)
    BY <1>2 DEF Encoded, encodePing
  <2>5. ASSUME NEW p, p.result = "ok", p.type = header \div 16, p.flags = header % 16,
               p.body = <<>>
        PROVE  Decoded(p) = m
    <3>1. p.type = Type.PINGREQ /\ Type.PUBLISH # Type.PINGREQ
      BY <2>1, <2>5 DEF Type
    <3> HIDE DEF header
    <3> QED
      BY <1>2, <2>5, <3>1 DEF Decoded
  <2> DEFINE nothing == <<>>
  <2>6. nothing \in Seq(Nat) /\ Len(nothing) <= MaxPacketSize
        /\ Encoded(m) = makePacket(header, nothing)
    BY <2>2, <2>3, <2>4
  <2>7. \A p : /\ p.result = "ok" /\ p.type = header \div 16 /\ p.flags = header % 16
              /\ p.body = nothing
              => Decoded(p) = m
    BY <2>5
  <2>8. header \in Nat
    BY <2>1
  <2> HIDE DEF header, nothing
  <2> QED
    BY <2>6, <2>7, <2>8
<1> QED
  BY <1>1, <1>2 DEF Message

(* What is written is read back, and what follows it is left for later, for *)
(* every message whose packet is no longer than readPacket takes.           *)
THEOREM RoundTrip ==
    ASSUME NEW m, Message(m), NEW s \in Seq(Nat)
    PROVE  LET p == readPacket(Encoded(m) \o s)
           IN  p.result = "ok" /\ p.rest = s /\ Decoded(p) = m
<1>1. PICK header \in Nat, body \in Seq(Nat) :
               /\ Len(body) <= MaxPacketSize /\ Encoded(m) = makePacket(header, body)
               /\ \A p : /\ p.result = "ok" /\ p.type = header \div 16
                         /\ p.flags = header % 16 /\ p.body = body
                         => Decoded(p) = m
  BY EncodedAs
<1> DEFINE q == readPacket(makePacket(header, body) \o s)
<1>2. /\ q.result = "ok" /\ q.type = header \div 16 /\ q.flags = header % 16
      /\ q.body = body /\ q.rest = s
  BY <1>1, WholePacket
<1>3. q = readPacket(Encoded(m) \o s)
  BY <1>1
<1> HIDE DEF q
<1>4. Decoded(q) = m
  BY <1>1, <1>2
<1> QED
  BY <1>2, <1>3, <1>4

(* A packet that is not all there yet is waited for.                        *)
LEMMA Waits ==
    ASSUME NEW m, Message(m), NEW part \in Seq(Nat), Len(part) < Len(Encoded(m)),
           \A i \in 1 .. Len(part) : part[i] = Encoded(m)[i]
    PROVE  readPacket(part).result = "short"
<1>1. PICK header \in Nat, body \in Seq(Nat) :
               Len(body) <= MaxPacketSize /\ Encoded(m) = makePacket(header, body)
  BY EncodedAs
<1> QED
  BY <1>1, PartPacket

(* It is never empty.                                                       *)
LEMMA EncodedType ==
    ASSUME NEW m, Message(m)
    PROVE  Encoded(m) \in Seq(Nat) /\ Len(Encoded(m)) > 0
<1>1. PICK header \in Nat, body \in Seq(Nat) :
               Len(body) <= MaxPacketSize /\ Encoded(m) = makePacket(header, body)
  BY EncodedAs
<1>2. LET size == appendVarInt[Len(body)]
      IN  /\ Len(size) \in 1 .. 4 /\ Encoded(m) \in Seq(Nat)
          /\ Len(Encoded(m)) = 1 + Len(size) + Len(body)
  BY <1>1, PacketParts
<1>3. Len(body) \in Nat
  OBVIOUS
<1> QED
  BY <1>2, <1>3

(* The first part of what is joined.                                        *)
LEMMA Begins ==
    \A a, b \in Seq(Nat) : \A i \in 1 .. Len(a) : (a \o b)[i] = a[i]
  BY Joined

(* The reader of a stream that begins with the packet of m, or with part    *)
(* of it.                                                                   *)
LEMMA ReadsFirst ==
    \A m, s, x, r :
        /\ Message(m) /\ s \in Seq(Nat) /\ x \in Seq(Nat) /\ r \in Seq(Nat)
        /\ s \o x = Encoded(m) \o r
        => LET p == readPacket(s)
           IN  \/ p.result = "short"
               \/ /\ p.result = "ok" /\ Decoded(p) = m /\ p.rest \in Seq(Nat)
                  /\ p.rest \o x = r
<1> TAKE m, s, x, r
<1> HAVE /\ Message(m) /\ s \in Seq(Nat) /\ x \in Seq(Nat) /\ r \in Seq(Nat)
         /\ s \o x = Encoded(m) \o r
<1> DEFINE e == Encoded(m)
           n == Len(e)
<1>1. e \in Seq(Nat) /\ n \in Nat /\ Len(s) \in Nat
  BY EncodedType
<1> HIDE DEF e, n
<1>2. \A i \in 1 .. n : (e \o r)[i] = e[i]
  BY <1>1, Joined DEF n
<1>3. \A i \in 1 .. Len(s) : (s \o x)[i] = s[i]
  BY Begins
<1>4. s \o x = e \o r
  BY DEF e
<1>5. CASE Len(s) < n
  <2>1. ASSUME NEW i \in 1 .. Len(s) PROVE s[i] = e[i]
    <3>1. i \in 1 .. n
      BY <1>1, <1>5
    <3> QED
      BY <1>2, <1>3, <1>4, <3>1
  <2>2. readPacket(s).result = "short"
    BY <1>5, <2>1, Waits DEF e, n
  <2> QED
    BY <2>2
<1>6. CASE n <= Len(s)
  <2> DEFINE a == SubSeq(s, 1, n)
             b == From(s, n + 1)
  <2>1. a \in Seq(Nat) /\ Len(a) = n /\ s = a \o b
    <3>1. n \in 0 .. Len(s)
      BY <1>1, <1>6
    <3> QED
      BY <3>1, SplitAt
  <2>2. b \in Seq(Nat)
    <3>1. n + 1 \in 1 .. Len(s) + 1
      BY <1>1, <1>6
    <3> QED
      BY <3>1, SuffixOf
  <2> HIDE DEF a, b
  <2>3. a \o (b \o x) = e \o r
    BY <1>4, <2>1, <2>2, Associative
  <2>4. b \o x \in Seq(Nat)
    BY <2>2, Joined
  <2> DEFINE c == b \o x
  <2> HIDE DEF c
  <2>5. a = e /\ c = r
    <3>1. SubSeq(a \o c, 1, Len(a)) = a /\ From(a \o c, Len(a) + 1) = c
      BY ZenonT(40), <2>1, <2>4, Joined DEF c
    <3>2. SubSeq(e \o r, 1, Len(e)) = e /\ From(e \o r, Len(e) + 1) = r
      BY <1>1, Joined
    <3>3. a \o c = e \o r /\ Len(a) = Len(e)
      BY <2>1, <2>3 DEF c, n
    <3> QED
      BY <3>1, <3>2, <3>3
  <2>6. s = Encoded(m) \o b
    BY <2>1, <2>5 DEF e
  <2>7. LET p == readPacket(s) IN p.result = "ok" /\ p.rest = b /\ Decoded(p) = m
    BY <2>2, <2>6, RoundTrip
  <2> QED
    BY <2>2, <2>5, <2>7 DEF c
<1> QED
  BY <1>1, <1>5, <1>6

-----------------------------------------------------------------------------
(* The wire, on a connection that takes nothing after a failed write.       *)

Messages ==
    {m \in [topic : Seq(Nat), payload : Seq(Nat), qos : {0, 1}, retain : BOOLEAN, id : Nat] :
        Message(m)}

WireTyped ==
    /\ packet \in [Writers -> Messages] /\ left \in [Writers -> Seq(Nat)]
    /\ stream \in Seq(Nat) /\ written \in Seq(Messages) /\ heard \in Seq(Messages)

HeardInOrder ==
    Len(heard) <= Len(written) /\ \A i \in 1 .. Len(heard) : heard[i] = written[i]

\* What the connection holds and the x that is missing are the packets up to
\* the k-th that are not read yet; tails[i] is what follows the i-th.
Frames(s, k, x, tails) ==
    /\ k \in Nat /\ x \in Seq(Nat) /\ Len(heard) <= k /\ k <= Len(written)
    /\ \A i \in Len(heard) .. k : tails[i] \in Seq(Nat)
    /\ tails[Len(heard)] = s \o x /\ tails[k] = <<>>
    /\ \A i \in Len(heard) .. k - 1 : tails[i] = Encoded(written[i + 1]) \o tails[i + 1]

\* While the connection takes bytes, all packets are there but for what the
\* writer still has.
Ready(k, x) ==
    /\ k = Len(written)
    /\ \A w \in Writers : pc[w] = "write" => x = left[w]
    /\ writeMu = {} => x = <<>>

Framed == \E k, x, tails : Frames(stream, k, x, tails) /\ (sound => Ready(k, x))

Working ==
    /\ sound => up
    /\ up /\ ~sound => \E w \in Writers : pc[w] = "fail"

Unused == phase # "connected" => stream = <<>> /\ written = <<>> /\ heard = <<>>

WireInv ==
    WireTyped /\ HeardInOrder /\ Framed /\ Working /\ Unused /\ Configured

(* What is written is a sequence of bytes.                                  *)
LEMMA MessageEncoded ==
    ASSUME NEW m \in Messages
    PROVE  Encoded(m) \in Seq(Nat) /\ Len(Encoded(m)) > 0
  BY EncodedType DEF Messages

(* A PINGREQ is a message.                                                  *)
LEMMA NothingIsMessage == NoMessage \in Messages
<1>1. <<>> \in Seq(Nat)
  OBVIOUS
<1> QED
  BY <1>1 DEF NoMessage, Messages, Message

(* All of it holds at first.                                                *)
LEMMA WireStarts == Init => WireInv
<1> SUFFICES ASSUME Init PROVE WireInv
  OBVIOUS
<1>1. /\ stream = <<>> /\ written = <<>> /\ heard = <<>> /\ sound = FALSE /\ up = FALSE
      /\ phase = "start"
      /\ packet = [w \in Writers |-> NoMessage] /\ left = [w \in Writers |-> <<>>]
  BY DEF Init
<1>2. WireTyped
  <2>1. <<>> \in Seq(Nat) /\ <<>> \in Seq(Messages)
    OBVIOUS
  <2> QED
    BY <1>1, <2>1, NothingIsMessage DEF WireTyped
<1>3. HeardInOrder
  BY <1>1 DEF HeardInOrder
<1>4. Framed
  <2>1. Len(heard) = 0 /\ Len(written) = 0 /\ <<>> \in Seq(Nat)
    BY <1>1
  <2>2. stream \o <<>> = <<>>
    BY <1>1
  <2> DEFINE nothing == <<>>
             tails == [i \in 0 .. 0 |-> nothing]
  <2>3. tails[0] = nothing /\ nothing \in Seq(Nat) /\ nothing = <<>>
    BY <2>1
  <2>4. stream \o nothing = nothing
    BY <2>2
  <2> HIDE DEF tails, nothing
  <2>5. Frames(stream, 0, nothing, tails)
    <3>1. Len(heard) .. 0 = {0} /\ Len(heard) .. 0 - 1 = {}
      BY <2>1
    <3>2. tails[Len(heard)] = stream \o nothing
      BY <2>1, <2>3, <2>4
    <3>3. nothing \in Seq(Nat) /\ tails[0] = <<>> /\ \A i \in {0} : tails[i] \in Seq(Nat)
      BY <2>3
    <3>4. 0 \in Nat /\ Len(heard) <= 0 /\ 0 <= Len(written)
      BY <2>1
    <3> QED
      BY <3>1, <3>2, <3>3, <3>4 DEF Frames
  <2>6. ~sound
    BY <1>1
  <2> QED
    BY <2>5, <2>6 DEF Framed
<1>5. Working /\ Unused /\ Configured
  BY <1>1 DEF Working, Unused, Configured
<1> QED
  BY <1>2, <1>3, <1>4, <1>5 DEF WireInv

(* Connect: what it gives the goroutines to send can be written.            *)
LEMMA ConnectSends ==
    ASSUME Configured, NEW qos \in {0, 1}, NEW kind \in EventKinds, NEW payload \in Payloads,
           Connect(qos, kind, payload)
    PROVE  packet' \in [Writers -> Messages]
<1>1. PICK prefix \in PrefixTexts, id \in IdTexts : cfg = Load(prefix, id) /\ Validate(cfg)
  BY DEF Configured, Connect
<1> DEFINE online == Bytes(<<"online">>)
           here == Bytes(availabilityTopic(cfg))
           event == Bytes(eventTopic(cfg, kind))
<1>2. Encodable(here, online) /\ Encodable(event, payload)
  BY <1>1, PacketsAssumption
<1> DEFINE M(topic, n, retain, body) ==
               [topic |-> topic, payload |-> body, qos |-> qos, retain |-> retain,
                id |-> IF qos = 1 THEN n ELSE 0]
<1>3. packet' = [onMQTTConnect |-> M(here, 1, TRUE, online), drain |-> M(event, 2, FALSE, payload),
                 pingLoop |-> NoMessage]
  BY DEF Connect
<1> HIDE DEF online, here, event
<1>4. ASSUME NEW topic, NEW body, NEW retain \in BOOLEAN, NEW n \in {1, 2}, Encodable(topic, body)
      PROVE  M(topic, n, retain, body) \in Messages
  <2> DEFINE m == M(topic, n, retain, body)
  <2>1. topic \in Seq(Nat) /\ body \in Seq(Nat)
    BY <1>4 DEF Encodable
  <2>2. /\ m.topic = topic /\ m.payload = body /\ m.qos = qos /\ m.retain = retain
        /\ m.id = IF qos = 1 THEN n ELSE 0
        /\ m = [topic |-> m.topic, payload |-> m.payload, qos |-> m.qos, retain |-> m.retain,
                id |-> m.id]
    OBVIOUS
  <2>3. m \in [topic : Seq(Nat), payload : Seq(Nat), qos : {0, 1}, retain : BOOLEAN, id : Nat]
    BY <2>1
  <2>4. 2 < Byte * Byte /\ 0 < Byte * Byte /\ 1 < Byte * Byte
    <3>1. Byte \in Nat /\ Byte >= 4
      BY CodecAssumption DEF Byte
    <3> HIDE DEF Byte
    <3>2. PICK d \in Nat : Byte = 4 + d
      BY <3>1
    <3>3. Byte * Byte = 16 + 8 * d + d * d /\ d * d \in Nat
      BY <3>2
    <3> QED
      BY <3>3
  <2> HIDE DEF m
  <2>5. Sendable(m)
    <3>1. m.id \in Nat /\ m.id < Byte * Byte /\ (m.qos = 0 => m.id = 0)
      BY <2>2, <2>4
    <3> QED
      BY <1>4, <2>2, <3>1 DEF Sendable
  <2> QED
    BY <2>3, <2>5 DEF Messages, Message, m
<1>5. M(here, 1, TRUE, online) \in Messages /\ M(event, 2, FALSE, payload) \in Messages
  BY <1>2, <1>4
<1> DEFINE a == M(here, 1, TRUE, online)
           b == M(event, 2, FALSE, payload)
           c == NoMessage
<1>6. packet' = [onMQTTConnect |-> a, drain |-> b, pingLoop |-> c]
      /\ a \in Messages /\ b \in Messages /\ c \in Messages
  BY <1>3, <1>5, NothingIsMessage
<1> HIDE DEF a, b, c
<1> QED
  BY <1>6 DEF Writers

(* A packet is begun on a connection that takes bytes: every tail grows by  *)
(* it.                                                                      *)
LEMMA FramesGrow ==
    ASSUME WireTyped, NEW k, NEW x, NEW tails, Frames(stream, k, x, tails),
           k = Len(written), x = <<>>, NEW m \in Messages,
           written' = Append(written, m), heard' = heard, stream' = stream
    PROVE  \E more : Frames(stream, k + 1, Encoded(m), more)'
<1>0. PICK h : h = Len(heard)
  OBVIOUS
<1> DEFINE e == Encoded(m)
           more == [i \in h .. k + 1 |-> IF i <= k THEN tails[i] \o e ELSE <<>>]
<1>1. /\ e \in Seq(Nat) /\ h \in Nat /\ k \in Nat /\ h <= k /\ stream \in Seq(Nat)
      /\ \A i \in h .. k : tails[i] \in Seq(Nat)
  BY <1>0, MessageEncoded DEF Frames, WireTyped
<1>2. /\ Len(written') = k + 1 /\ written'[k + 1] = m
      /\ \A i \in 1 .. k : written'[i] = written[i]
  BY AppendProperties DEF WireTyped
<1>3. /\ tails[h] = stream \o x /\ tails[k] = <<>>
      /\ \A i \in h .. k - 1 : tails[i] = Encoded(written[i + 1]) \o tails[i + 1]
  BY <1>0 DEF Frames
<1> HIDE DEF e
<1>4. /\ \A i \in h .. k : more[i] = tails[i] \o e
      /\ more[k + 1] = <<>>
  <2>1. ASSUME NEW i \in h .. k PROVE more[i] = tails[i] \o e
    <3>1. i \in h .. k + 1 /\ i <= k
      BY <1>1
    <3> QED
      BY <3>1
  <2>2. k + 1 \in h .. k + 1 /\ ~(k + 1 <= k)
    BY <1>1
  <2>3. more[k + 1] = <<>>
    BY <2>2
  <2> HIDE DEF more
  <2> QED
    BY <2>1, <2>3
<1> HIDE DEF more
<1>5. \A i \in h .. k + 1 : more[i] \in Seq(Nat)
  <2>1. \A i \in h .. k : tails[i] \o e \in Seq(Nat)
    BY <1>1, Joined
  <2>2. <<>> \in Seq(Nat)
    OBVIOUS
  <2>3. \A i \in h .. k + 1 : i \in h .. k \/ i = k + 1
    BY <1>1
  <2> QED
    BY <1>4, <2>1, <2>2, <2>3
<1>6. more[h] = stream \o e
  <2>1. h \in h .. k
    BY <1>1
  <2>2. stream \o x = stream
    BY <1>1, ConcatEmptySeq
  <2> QED
    BY <1>3, <1>4, <2>1, <2>2
<1>7. ASSUME NEW i \in h .. (k + 1) - 1
      PROVE  more[i] = Encoded(written'[i + 1]) \o more[i + 1]
  <2>1. CASE i = k
    <3>1. more[i] = <<>> \o e
      <4>1. k \in h .. k
        BY <1>1
      <4>2. more[k] = tails[k] \o e
        BY <1>4, <4>1
      <4>3. tails[k] = <<>>
        BY <1>3
      <4> QED
        BY <2>1, <4>2, <4>3
    <3>2. more[i] = e /\ e \o <<>> = e
      BY <1>1, <3>1, ConcatEmptySeq
    <3>3. Encoded(written'[i + 1]) = e
      BY <1>2, <2>1 DEF e
    <3> QED
      BY <1>4, <2>1, <3>2, <3>3
  <2>2. CASE i # k
    <3>1. i \in h .. k - 1 /\ i + 1 \in h .. k /\ i \in h .. k /\ i + 1 \in 1 .. k
      BY <1>1, <2>2
    <3> DEFINE f == Encoded(written[i + 1])
    <3>2. f \in Seq(Nat) /\ written'[i + 1] = written[i + 1]
      <4>1. i + 1 \in 1 .. Len(written)
        BY <3>1
      <4>2. written[i + 1] \in Messages
        BY <4>1 DEF WireTyped
      <4> QED
        BY <1>2, <3>1, <4>2, MessageEncoded
    <3> HIDE DEF f
    <3>3. more[i] = (f \o tails[i + 1]) \o e
      BY <1>3, <1>4, <3>1 DEF f
    <3>4. (f \o tails[i + 1]) \o e = f \o (tails[i + 1] \o e)
      BY ZenonT(40), <1>1, <3>1, <3>2, Associative
    <3>5. more[i + 1] = tails[i + 1] \o e
      BY <1>4, <3>1
    <3> QED
      BY <3>2, <3>3, <3>4, <3>5 DEF f
  <2> QED
    BY <2>1, <2>2
<1>8. h = Len(heard') /\ k + 1 \in Nat /\ h <= k + 1 /\ k + 1 <= Len(written')
  BY <1>0, <1>1, <1>2
<1>9. Frames(stream, k + 1, e, more)'
  <2>1. /\ k + 1 \in Nat /\ e \in Seq(Nat) /\ Len(heard') <= k + 1 /\ k + 1 <= Len(written')
        /\ \A i \in Len(heard') .. k + 1 : more[i] \in Seq(Nat)
    BY <1>1, <1>5, <1>8
  <2>2. more[Len(heard')] = stream' \o e /\ more[k + 1] = <<>>
    BY <1>4, <1>6, <1>8
  <2>3. \A i \in Len(heard') .. (k + 1) - 1 : more[i] = Encoded(written'[i + 1]) \o more[i + 1]
    BY <1>7, <1>8
  <2> HIDE DEF more, e
  <2> QED
    BY <2>1, <2>2, <2>3 DEF Frames
<1> QED
  BY <1>9 DEF e

(* More packets to come do not disturb what is there.                       *)
LEMMA FramesStay ==
    ASSUME WireTyped, WireTyped', NEW k, NEW x, NEW tails, Frames(stream, k, x, tails),
           NEW y, y \in Seq(Nat), stream' \o y = stream \o x,
           heard' = heard, Len(written) <= Len(written'),
           \A i \in 1 .. Len(written) : written'[i] = written[i]
    PROVE  Frames(stream, k, y, tails)'
<1>1. Len(heard) \in Nat /\ Len(written) \in Nat /\ Len(written') \in Nat
  BY DEF WireTyped
<1>2. /\ k \in Nat /\ Len(heard) <= k /\ k <= Len(written)
      /\ \A i \in Len(heard) .. k : tails[i] \in Seq(Nat)
      /\ tails[Len(heard)] = stream \o x /\ tails[k] = <<>>
      /\ \A i \in Len(heard) .. k - 1 : tails[i] = Encoded(written[i + 1]) \o tails[i + 1]
  BY DEF Frames
<1>3. ASSUME NEW i \in Len(heard) .. k - 1
      PROVE  tails[i] = Encoded(written'[i + 1]) \o tails[i + 1]
  <2>1. i + 1 \in 1 .. Len(written)
    BY <1>1, <1>2
  <2> QED
    BY <1>2, <2>1
<1>4. k <= Len(written')
  BY <1>1, <1>2
<1> QED
  BY <1>2, <1>3, <1>4 DEF Frames

(* The broker reads the next packet, or none is there.                      *)
LEMMA FramesRead ==
    ASSUME WireTyped, HeardInOrder, NEW k, NEW x, NEW tails, Frames(stream, k, x, tails),
           readPacket(stream).result # "short"
    PROVE  LET p == readPacket(stream)
           IN  /\ Len(heard) < k /\ p.rest \in Seq(Nat)
               /\ Decoded(p) = written[Len(heard) + 1] /\ Decoded(p) \in Messages
               /\ p.rest \o x = tails[Len(heard) + 1]
<1> DEFINE h == Len(heard)
           p == readPacket(stream)
<1>1. /\ h \in Nat /\ k \in Nat /\ h <= k /\ k <= Len(written) /\ Len(written) \in Nat
      /\ stream \in Seq(Nat) /\ x \in Seq(Nat)
      /\ tails[h] = stream \o x /\ tails[k] = <<>>
      /\ \A i \in h .. k : tails[i] \in Seq(Nat)
      /\ \A i \in h .. k - 1 : tails[i] = Encoded(written[i + 1]) \o tails[i + 1]
  <2>1. h \in Nat /\ Len(written) \in Nat /\ stream \in Seq(Nat)
    BY DEF WireTyped
  <2> QED
    BY <2>1 DEF Frames
<1>2. p.result # "short"
  OBVIOUS
<1> HIDE DEF h, p
<1>3. h # k
  <2> SUFFICES ASSUME h = k PROVE FALSE
    OBVIOUS
  <2>1. stream \o x = <<>>
    BY <1>1
  <2>2. stream = <<>>
    BY <1>1, <2>1, ConcatSimplifications!concIsEmpty
  <2>3. p.result = "short"
    BY <2>2 DEF readPacket, p
  <2> QED
    BY <1>2, <2>3
<1> DEFINE m == written[h + 1]
           r == tails[h + 1]
<1>4. h \in h .. k - 1 /\ h + 1 \in h .. k /\ h + 1 \in 1 .. Len(written) /\ h < k
  BY <1>1, <1>3
<1>5. m \in Messages /\ r \in Seq(Nat) /\ stream \o x = Encoded(m) \o r
  <2>1. m \in Messages
    BY <1>4 DEF WireTyped
  <2>2. r \in Seq(Nat)
    BY <1>1, <1>4
  <2>3. tails[h] = Encoded(m) \o r
    BY <1>1, <1>4
  <2> HIDE DEF m, r
  <2> QED
    BY <1>1, <2>1, <2>2, <2>3
<1> HIDE DEF m, r
<1>6. Message(m)
  BY <1>5 DEF Messages
<1>7. p.result = "ok" /\ Decoded(p) = m /\ p.rest \in Seq(Nat) /\ p.rest \o x = r
  <2>1. LET q == readPacket(stream)
        IN  \/ q.result = "short"
            \/ /\ q.result = "ok" /\ Decoded(q) = m /\ q.rest \in Seq(Nat)
               /\ q.rest \o x = r
    <3>1. stream \in Seq(Nat) /\ x \in Seq(Nat) /\ r \in Seq(Nat) /\ stream \o x = Encoded(m) \o r
      BY <1>1, <1>5
    <3> QED
      BY <1>6, <3>1, ReadsFirst, Zenon
  <2> QED
    BY <1>2, <2>1 DEF p
<1> QED
  BY <1>4, <1>5, <1>7 DEF m, r, p, h

(* A message is never taken for a packet that the broker cannot make out.   *)
LEMMA ClearlyNotGarbage ==
    ASSUME NEW m \in Messages
    PROVE  m # Garbage
<1>1. m.id \in Nat
  BY DEF Messages
<1>2. Garbage.id = -1 /\ -1 \notin Nat
  BY DEF Garbage, NoMessage
<1> QED
  BY <1>1, <1>2

(* What no step on the wire forgets.                                        *)
LEMMA WireTypedStep ==
    ASSUME WireTyped, Working, Unused, Configured, Framed, HeardInOrder, [Next]_vars
    PROVE  WireTyped'
<1>1. ASSUME NEW prefix \in PrefixTexts, NEW id \in IdTexts, LoadConfig(prefix, id)
      PROVE  WireTyped'
  BY <1>1 DEF LoadConfig, wire, WireTyped
<1>2. ASSUME NEW qos \in {0, 1}, NEW kind \in EventKinds, NEW payload \in Payloads,
             Connect(qos, kind, payload)
      PROVE  WireTyped'
  <2>1. packet' \in [Writers -> Messages]
    BY <1>2, ConnectSends
  <2> QED
    BY <1>2, <2>1 DEF Connect, WireTyped
<1>3. ASSUME NEW w \in Writers, Lock(w) PROVE WireTyped'
  <2>1. packet[w] \in Messages
    BY DEF WireTyped
  <2>2. Encoded(packet[w]) \in Seq(Nat)
    BY <2>1, MessageEncoded
  <2>3. written' \in Seq(Messages)
    BY <1>3, <2>1, AppendProperties DEF Lock, WireTyped
  <2> QED
    BY <1>3, <2>2, <2>3 DEF Lock, WireTyped
<1>4. ASSUME NEW w \in Writers, NEW n \in 1 .. Len(left[w]), Write(w, n) PROVE WireTyped'
  <2>1. left[w] \in Seq(Nat) /\ Len(left[w]) \in Nat
    BY DEF WireTyped
  <2>2. SubSeq(left[w], 1, n) \in Seq(Nat) /\ SubSeq(left[w], n + 1, Len(left[w])) \in Seq(Nat)
    <3>1. n \in 0 .. Len(left[w]) /\ n + 1 \in 1 .. Len(left[w]) + 1
      BY <2>1
    <3> QED
      BY <2>1, <3>1, SplitAt, SuffixOf DEF From
  <2>3. stream' \in Seq(Nat)
    BY <1>4, <2>2, Joined DEF Write, WireTyped
  <2>4. left' = [left EXCEPT ![w] = SubSeq(left[w], n + 1, Len(left[w]))]
    BY <1>4 DEF Write
  <2>5. left' \in [Writers -> Seq(Nat)]
    BY <2>2, <2>4 DEF WireTyped
  <2> QED
    BY <1>4, <2>3, <2>5 DEF Write, WireTyped
<1>5. ASSUME NEW w \in Writers, Refused(w) \/ WriteFails(w) \/ Fail(w) PROVE WireTyped'
  <2>1. <<>> \in Seq(Nat)
    OBVIOUS
  <2> QED
    BY <1>5, <2>1 DEF Refused, WriteFails, Fail, WireTyped
<1>6. CASE BrokerReads
  <2>1. PICK k, x, tails : Frames(stream, k, x, tails)
    BY DEF Framed
  <2> DEFINE p == readPacket(stream)
  <2>2. p.result # "short"
    BY <1>6 DEF BrokerReads
  <2>3. p.rest \in Seq(Nat) /\ Decoded(p) \in Messages
    BY <2>1, <2>2, FramesRead
  <2>4. /\ heard' = Append(heard, Decoded(p)) \/ heard' = heard
        /\ stream' = p.rest \/ stream' = <<>>
        /\ UNCHANGED <<packet, left, written>>
    BY <1>6 DEF BrokerReads
  <2> HIDE DEF p
  <2>5. heard' \in Seq(Messages)
    <3>1. heard \in Seq(Messages)
      BY DEF WireTyped
    <3>2. Append(heard, Decoded(p)) \in Seq(Messages)
      BY <2>3, <3>1, AppendProperties
    <3> QED
      BY <2>4, <3>1, <3>2
  <2>6. stream' \in Seq(Nat)
    <3>1. <<>> \in Seq(Nat)
      OBVIOUS
    <3> QED
      BY <2>3, <2>4, <3>1
  <2> QED
    BY <2>4, <2>5, <2>6 DEF WireTyped
<1>7. CASE UNCHANGED vars
  BY <1>7 DEF vars, wire, WireTyped
<1> QED
  BY <1>1, <1>2, <1>3, <1>4, <1>5, <1>6, <1>7 DEF Next, writePacket

(* What the broker reads is the next packet.                                *)
LEMMA BrokerReadsNext ==
    ASSUME WireTyped, HeardInOrder, Framed, sound \in BOOLEAN, BrokerReads
    PROVE  /\ Len(heard) < Len(written)
           /\ heard' = Append(heard, written[Len(heard) + 1])
           /\ sound' = sound /\ Framed'
           /\ UNCHANGED <<phase, cfg, packet, pc, left, writeMu, up, written>>
<1>1. PICK k, x, tails : Frames(stream, k, x, tails) /\ (sound => Ready(k, x))
  BY DEF Framed
<1> DEFINE p == readPacket(stream)
<1>2. p.result # "short"
  BY DEF BrokerReads
<1>3. /\ Len(heard) < k /\ p.rest \in Seq(Nat)
      /\ Decoded(p) = written[Len(heard) + 1] /\ Decoded(p) \in Messages
      /\ p.rest \o x = tails[Len(heard) + 1]
  BY <1>1, <1>2, FramesRead
<1>4. Decoded(p) # Garbage
  BY <1>3, ClearlyNotGarbage
<1>5. /\ heard' = Append(heard, Decoded(p)) /\ stream' = p.rest /\ sound' = (sound /\ TRUE)
      /\ UNCHANGED <<phase, cfg, packet, pc, left, writeMu, up, written>>
  BY <1>4 DEF BrokerReads
<1> HIDE DEF p
<1>6. PICK h : h = Len(heard)
  OBVIOUS
<1>7. h \in Nat /\ Len(written) \in Nat /\ k \in Nat /\ k <= Len(written) /\ h < k /\ h < Len(written)
  BY <1>1, <1>3, <1>6 DEF WireTyped, Frames
<1>8. Len(heard') = h + 1
  BY <1>3, <1>5, <1>6, AppendProperties DEF WireTyped
<1>9. Frames(stream, k, x, tails)'
  <2>1. /\ k \in Nat /\ x \in Seq(Nat) /\ Len(heard') <= k /\ k <= Len(written')
        /\ tails[Len(heard')] = stream' \o x /\ tails[k] = <<>>
    BY <1>1, <1>3, <1>5, <1>6, <1>7, <1>8 DEF Frames
  <2>2. \A i \in Len(heard') .. k : i \in h .. k
    BY <1>7, <1>8
  <2>3. \A i \in Len(heard') .. k - 1 : i \in h .. k - 1
    BY <1>7, <1>8
  <2>4. /\ \A i \in h .. k : tails[i] \in Seq(Nat)
        /\ \A i \in h .. k - 1 : tails[i] = Encoded(written[i + 1]) \o tails[i + 1]
    BY <1>1, <1>6 DEF Frames
  <2>5. \A i \in Len(heard') .. k : tails[i] \in Seq(Nat)
    BY <2>2, <2>4
  <2>6. \A i \in Len(heard') .. k - 1 : tails[i] = Encoded(written'[i + 1]) \o tails[i + 1]
    BY <1>5, <2>3, <2>4
  <2> QED
    BY <2>1, <2>5, <2>6 DEF Frames
<1>10. sound' = sound
  BY <1>5
<1>11. Ready(k, x) => Ready(k, x)'
  BY <1>5 DEF Ready
<1>12. Framed'
  BY <1>1, <1>5, <1>9, <1>11 DEF Framed
<1> QED
  BY <1>3, <1>5, <1>6, <1>7, <1>10, <1>12

(* A step of a writer leaves the packets whole.                             *)
LEMMA FramedStep ==
    ASSUME Plain = FALSE, TypeInv, WireTyped, WireTyped', HeardInOrder, Framed, Unused,
           [Next]_vars
    PROVE  Framed'
<1>1. PICK k, x, tails : Frames(stream, k, x, tails) /\ (sound => Ready(k, x))
  BY DEF Framed
<1>2. k \in Nat /\ x \in Seq(Nat) /\ stream \in Seq(Nat)
  BY <1>1 DEF Frames, WireTyped
<1>3. ASSUME UNCHANGED <<stream, written, heard>>, sound' => Ready(k, x)' PROVE Framed'
  <2>1. Frames(stream, k, x, tails)'
    BY <1>1, <1>3 DEF Frames
  <2> QED
    BY <1>3, <2>1 DEF Framed
<1>4. ASSUME NEW prefix \in PrefixTexts, NEW id \in IdTexts, LoadConfig(prefix, id)
      PROVE  Framed'
  <2>1. Ready(k, x) => Ready(k, x)'
    BY <1>4 DEF LoadConfig, wire, Ready
  <2> QED
    BY <1>1, <1>3, <1>4, <2>1 DEF LoadConfig, wire
<1>5. ASSUME NEW qos \in {0, 1}, NEW kind \in EventKinds, NEW payload \in Payloads,
             Connect(qos, kind, payload)
      PROVE  Framed'
  <2>1. stream = <<>> /\ written = <<>> /\ heard = <<>>
    BY <1>5 DEF Connect, Unused
  <2>2. UNCHANGED <<stream, written, heard>> /\ pc' = [w \in Writers |-> "lock"]
    BY <1>5 DEF Connect
  <2>3. Len(heard) = 0 /\ Len(written) = 0
    BY <2>1
  <2>4. k = 0 /\ x = <<>>
    <3>1. Len(heard) <= k /\ k <= Len(written) /\ tails[Len(heard)] = stream \o x
          /\ tails[k] = <<>>
      BY <1>1 DEF Frames
    <3>2. k = 0
      BY <1>2, <2>3, <3>1
    <3>3. stream \o x = <<>>
      BY <2>3, <3>1, <3>2
    <3>4. stream \o x = x
      BY <1>2, <2>1, ConcatEmptySeq
    <3> QED
      BY <3>2, <3>3, <3>4
  <2>5. Ready(k, x)'
    <3>1. \A w \in Writers : pc'[w] # "write"
      BY <2>2
    <3>2. k = Len(written')
      BY <2>2, <2>3, <2>4
    <3> QED
      BY <2>4, <3>1, <3>2 DEF Ready
  <2> QED
    BY <1>3, <2>2, <2>5
<1>6. ASSUME NEW w \in Writers, Lock(w) PROVE Framed'
  <2>0. PICK m : m = packet[w]
    OBVIOUS
  <2>1. m \in Messages
    BY <2>0 DEF WireTyped
  <2>2. /\ written' = Append(written, m) /\ UNCHANGED <<stream, heard, sound>>
        /\ writeMu = {} /\ writeMu' = {w} /\ pc' = [pc EXCEPT ![w] = "write"]
        /\ left' = [left EXCEPT ![w] = Encoded(m)]
    BY <1>6, <2>0 DEF Lock
  <2>3. /\ Len(written') = Len(written) + 1
        /\ \A i \in 1 .. Len(written) : written'[i] = written[i]
    BY <2>1, <2>2, AppendProperties DEF WireTyped
  <2>4. CASE ~sound
    <3>1. Len(written) <= Len(written')
      <4>1. Len(written) \in Nat
        BY DEF WireTyped
      <4> QED
        BY <2>3, <4>1
    <3>2. Frames(stream, k, x, tails)'
      BY <1>1, <1>2, <2>2, <2>3, <3>1, FramesStay
    <3> QED
      BY <2>2, <2>4, <3>2 DEF Framed
  <2>5. CASE sound
    <3>1. k = Len(written) /\ x = <<>>
      BY <1>1, <2>2, <2>5 DEF Ready
    <3>2. PICK more : Frames(stream, k + 1, Encoded(m), more)'
      BY <1>1, <2>1, <2>2, <3>1, FramesGrow
    <3>3. \A v \in Writers : pc'[v] = "write" => v = w
      BY <2>2 DEF TypeInv, TypeOK
    <3>4. left'[w] = Encoded(m)
      BY <2>2 DEF WireTyped
    <3>5. Ready(k + 1, Encoded(m))'
      BY <2>2, <2>3, <3>1, <3>3, <3>4 DEF Ready
    <3> QED
      BY <3>2, <3>5 DEF Framed
  <2> QED
    BY <2>4, <2>5
<1>7. ASSUME NEW w \in Writers, NEW n \in 1 .. Len(left[w]), Write(w, n) PROVE Framed'
  <2> DEFINE now == SubSeq(left[w], 1, n)
  <2>0. PICK later : later = From(left[w], n + 1)
    OBVIOUS
  <2>1. /\ sound /\ pc[w] = "write" /\ stream' = stream \o now
        /\ left' = [left EXCEPT ![w] = later]
        /\ UNCHANGED <<sound, written, heard>>
    BY <1>7, <2>0 DEF Write, From
  <2>2. left[w] \in Seq(Nat) /\ Len(left[w]) \in Nat /\ x = left[w] /\ k = Len(written)
    BY <1>1, <2>1 DEF WireTyped, Ready
  <2>3. now \in Seq(Nat) /\ left[w] = now \o later
    <3>1. n \in 0 .. Len(left[w])
      BY <2>2
    <3> QED
      BY ZenonT(40), <2>0, <2>2, <3>1, SplitAt
  <2>4. later \in Seq(Nat) /\ (n = Len(left[w]) => later = <<>>)
    <3>1. n + 1 \in 1 .. Len(left[w]) + 1
      BY <2>2
    <3>2. later \in Seq(Nat)
      BY <2>0, <2>2, <3>1, SuffixOf
    <3>3. n = Len(left[w]) => later = <<>>
      BY <2>0, <2>2, SubSeqEmpty DEF From
    <3> QED
      BY <3>2, <3>3
  <2> HIDE DEF now
  <2>5. stream' \o later = stream \o x
    <3>1. (stream \o now) \o later = stream \o (now \o later)
      BY <1>2, <2>3, <2>4, Associative
    <3>2. now \o later = x
      BY <2>2, <2>3
    <3>3. stream' = stream \o now
      BY <2>1
    <3> QED
      BY <3>1, <3>2, <3>3
  <2>6. Frames(stream, k, later, tails)'
    <3>1. Len(written) <= Len(written')
      <4>1. Len(written) \in Nat
        BY DEF WireTyped
      <4> QED
        BY <2>1, <4>1
    <3>2. \A i \in 1 .. Len(written) : written'[i] = written[i]
      BY <2>1
    <3> QED
      BY <1>1, <2>1, <2>4, <2>5, <3>1, <3>2, FramesStay
  <2>7. \A v \in Writers : pc'[v] = "write" => v = w
    <3>1. writeMu = {w}
      BY <2>1, WritesAlone DEF TypeInv
    <3>2. \A v \in Writers : v # w => pc[v] # "write" /\ pc'[v] = pc[v]
      BY <1>7, <3>1 DEF Write, TypeInv, TypeOK
    <3> QED
      BY <3>2
  <2>8. left'[w] = later
    BY <2>1 DEF WireTyped
  <2>9. writeMu' = {} => later = <<>>
    <3>1. writeMu # {}
      BY <2>1 DEF TypeInv, TypeOK
    <3> QED
      BY <1>7, <2>4, <3>1 DEF Write
  <2>10. Ready(k, later)'
    BY <2>1, <2>2, <2>7, <2>8, <2>9 DEF Ready
  <2> QED
    BY <2>6, <2>10 DEF Framed
<1>8. ASSUME NEW w \in Writers, Refused(w) PROVE Framed'
  <2>1. Ready(k, x) => Ready(k, x)'
    BY <1>8 DEF Refused, Ready, TypeInv, TypeOK
  <2> QED
    BY <1>1, <1>3, <1>8, <2>1 DEF Refused
<1>9. ASSUME NEW w \in Writers, WriteFails(w) \/ Fail(w) PROVE Framed'
  <2>1. ~sound' /\ UNCHANGED <<stream, written, heard>>
    BY <1>9 DEF WriteFails, Fail
  <2> QED
    BY <1>3, <2>1
<1>10. CASE BrokerReads
  BY <1>10, BrokerReadsNext DEF TypeInv, TypeOK
<1>11. CASE UNCHANGED vars
  <2>1. Ready(k, x) => Ready(k, x)'
    BY <1>11 DEF vars, wire, Ready
  <2> QED
    BY <1>1, <1>3, <1>11, <2>1 DEF vars, wire
<1> QED
  BY <1>4, <1>5, <1>6, <1>7, <1>8, <1>9, <1>10, <1>11 DEF Next, writePacket

(* The broker hears packets in the order in which they were written.        *)
LEMMA HeardStep ==
    ASSUME TypeInv, WireTyped, HeardInOrder, Framed, [Next]_vars
    PROVE  HeardInOrder'
<1>1. Len(heard) \in Nat /\ Len(written) \in Nat
  BY DEF WireTyped
<1>2. CASE BrokerReads
  <2>1. /\ Len(heard) < Len(written) /\ written' = written
        /\ heard' = Append(heard, written[Len(heard) + 1])
    BY <1>2, BrokerReadsNext DEF TypeInv, TypeOK
  <2> DEFINE h == Len(heard)
             m == written[h + 1]
  <2>2. h + 1 \in 1 .. Len(written)
    BY <1>1, <2>1
  <2>3. m \in Messages
    BY <2>2 DEF WireTyped
  <2> HIDE DEF m
  <2>4. /\ Len(heard') = h + 1 /\ heard'[h + 1] = m
        /\ \A i \in 1 .. h : heard'[i] = heard[i]
    BY <2>1, <2>3, AppendProperties DEF WireTyped, m
  <2>5. \A i \in 1 .. Len(heard') : heard'[i] = written[i]
    <3> SUFFICES ASSUME NEW i \in 1 .. Len(heard') PROVE heard'[i] = written[i]
      OBVIOUS
    <3>1. CASE i = h + 1
      BY <2>4, <3>1 DEF m
    <3>2. CASE i # h + 1
      <4>1. i \in 1 .. h
        BY <1>1, <2>4, <3>2
      <4> QED
        BY <2>4, <4>1 DEF HeardInOrder
    <3> QED
      BY <3>1, <3>2
  <2>6. Len(heard') <= Len(written')
    BY <1>1, <2>1, <2>4
  <2> QED
    BY <2>1, <2>5, <2>6 DEF HeardInOrder
<1>3. ASSUME NEW w \in Writers, Lock(w) PROVE HeardInOrder'
  <2>1. packet[w] \in Messages /\ heard' = heard /\ written' = Append(written, packet[w])
    BY <1>3 DEF Lock, WireTyped
  <2>2. /\ Len(written') = Len(written) + 1
        /\ \A i \in 1 .. Len(written) : written'[i] = written[i]
    BY <2>1, AppendProperties DEF WireTyped
  <2>3. \A i \in 1 .. Len(heard) : i \in 1 .. Len(written)
    BY <1>1 DEF HeardInOrder
  <2>4. Len(heard) <= Len(written')
    BY <1>1, <2>2 DEF HeardInOrder
  <2> QED
    BY <2>1, <2>2, <2>3, <2>4 DEF HeardInOrder
<1>4. CASE UNCHANGED <<written, heard>>
  BY <1>4 DEF HeardInOrder
<1>5. CASE ~BrokerReads /\ ~(\E w \in Writers : Lock(w))
  <2>1. UNCHANGED <<written, heard>>
    BY <1>5 DEF Next, writePacket, LoadConfig, wire, Connect, Refused, Write, WriteFails, Fail, vars
  <2> QED
    BY <1>4, <2>1
<1> QED
  BY <1>2, <1>3, <1>5

(* The remaining parts: a connection that takes no more has a writer that   *)
(* will close it, nothing is written before Connect, and its topics are     *)
(* those of a valid configuration.                                          *)
LEMMA RestStep ==
    ASSUME Plain = FALSE, TypeInv, WireTyped, HeardInOrder, Framed, Working, Unused,
           Configured, [Next]_vars
    PROVE  Working' /\ Unused' /\ Configured'
<1>1. ASSUME NEW prefix \in PrefixTexts, NEW id \in IdTexts, LoadConfig(prefix, id)
      PROVE  Working' /\ Unused' /\ Configured'
  BY <1>1 DEF LoadConfig, wire, Working, Unused, Configured
<1>2. ASSUME NEW qos \in {0, 1}, NEW kind \in EventKinds, NEW payload \in Payloads,
             Connect(qos, kind, payload)
      PROVE  Working' /\ Unused' /\ Configured'
  BY <1>2 DEF Connect, Working, Unused, Configured
<1>3. ASSUME NEW w \in Writers, writePacket(w) PROVE Working' /\ Unused' /\ Configured'
  <2>1. phase = "connected"
    <3>1. pc[w] # "idle"
      BY <1>3 DEF writePacket, Lock, Refused, Write, WriteFails, Fail
    <3> QED
      BY <3>1 DEF TypeInv, Unstarted
  <2>2. phase' = phase
    BY <1>3 DEF writePacket, Lock, Refused, Write, WriteFails, Fail
  <2>3. ASSUME Lock(w) PROVE Working'
    BY <2>3 DEF Lock, Working, TypeInv, TypeOK
  <2>4. ASSUME Refused(w) PROVE Working'
    BY <2>4 DEF Refused, Working, TypeInv, TypeOK
  <2>5. ASSUME NEW n \in 1 .. Len(left[w]), Write(w, n) PROVE Working'
    BY <2>5 DEF Write, Working, TypeInv, TypeOK
  <2>6. ASSUME WriteFails(w) PROVE Working'
    <3>1. sound' = FALSE /\ pc'[w] = "fail"
      BY <2>6 DEF WriteFails, TypeInv, TypeOK
    <3> QED
      BY <3>1 DEF Working
  <2>7. ASSUME Fail(w) PROVE Working'
    BY <2>7 DEF Fail, Working
  <2>8. Working'
    BY <1>3, <2>3, <2>4, <2>5, <2>6, <2>7 DEF writePacket
  <2> QED
    BY <2>1, <2>2, <2>8 DEF Unused, Configured
<1>4. CASE BrokerReads
  <2>1. /\ Len(heard) < Len(written) /\ sound' = sound
        /\ UNCHANGED <<phase, cfg, pc, up, written>>
    BY <1>4, BrokerReadsNext DEF TypeInv, TypeOK
  <2>2. phase = "connected"
    <3> SUFFICES ASSUME phase # "connected" PROVE FALSE
      OBVIOUS
    <3>1. Len(heard) = 0 /\ Len(written) = 0
      BY DEF Unused
    <3> QED
      BY <2>1, <3>1
  <2> QED
    BY <2>1, <2>2 DEF Working, Unused, Configured
<1>5. CASE UNCHANGED vars
  BY <1>5 DEF vars, wire, Working, Unused, Configured
<1> QED
  BY <1>1, <1>2, <1>3, <1>4, <1>5 DEF Next

(* The invariant of the wire. Plain = FALSE is crypto/tls, where a write    *)
(* that failed is the last.                                                 *)
THEOREM WireInvariant ==
    ASSUME Plain = FALSE
    PROVE  Spec => [](TypeInv /\ WireInv)
<1>1. Init => TypeInv /\ WireInv
  BY TypeStarts, WireStarts
<1>2. TypeInv /\ WireInv /\ [Next]_vars => (TypeInv /\ WireInv)'
  <2> SUFFICES ASSUME TypeInv, WireInv, [Next]_vars PROVE TypeInv' /\ WireInv'
    OBVIOUS
  <2>1. TypeInv'
    BY TypeStep
  <2>2. WireTyped /\ HeardInOrder /\ Framed /\ Working /\ Unused /\ Configured
    BY DEF WireInv
  <2>3. WireTyped'
    BY <2>2, WireTypedStep
  <2>4. Framed'
    BY <2>2, <2>3, FramedStep
  <2>5. HeardInOrder'
    BY <2>2, HeardStep
  <2>6. Working' /\ Unused' /\ Configured'
    BY <2>2, RestStep
  <2> QED
    BY <2>1, <2>3, <2>4, <2>5, <2>6 DEF WireInv
<1> QED
  BY <1>1, <1>2, PTL DEF Spec

(* README: a payload is "the original JSON unchanged". Over TLS the broker  *)
(* reads packets that were written, whole, unchanged and in the order in    *)
(* which their goroutines got the lock, wherever conn.Write stops and       *)
(* whatever the payloads are.                                               *)
THEOREM WholeFrames ==
    ASSUME Plain = FALSE
    PROVE  Spec => []FramesAreWhole
<1>1. WireInv => FramesAreWhole
  <2> SUFFICES ASSUME WireInv PROVE FramesAreWhole
    OBVIOUS
  <2> DEFINE at == [i \in DOMAIN heard |-> i]
  <2>1. /\ DOMAIN heard = 1 .. Len(heard) /\ DOMAIN written = 1 .. Len(written)
        /\ Len(heard) \in Nat /\ Len(written) \in Nat /\ Len(heard) <= Len(written)
    BY DEF WireInv, WireTyped, HeardInOrder
  <2>2. \A i \in DOMAIN heard : i \in DOMAIN written /\ i \in Nat
    BY <2>1
  <2>3. at \in [DOMAIN heard -> DOMAIN written]
    BY <2>2
  <2>4. \A i \in DOMAIN heard : heard[i] = written[at[i]]
    BY <2>1 DEF WireInv, HeardInOrder
  <2>5. \A i, k \in DOMAIN heard : i < k => at[i] < at[k]
    OBVIOUS
  <2> HIDE DEF at
  <2> QED
    BY <2>3, <2>4, <2>5 DEF FramesAreWhole
<1> QED
  BY <1>1, WireInvariant, PTL

(* While no write has failed, all that was written is read as soon as the   *)
(* broker has read what it can: no packet waits for bytes, and none makes   *)
(* it hang up.                                                              *)
THEOREM NothingStuck ==
    ASSUME Plain = FALSE
    PROVE  Spec => []NothingHeldBack
<1>1. TypeInv /\ WireInv => NothingHeldBack
  <2> SUFFICES ASSUME TypeInv, WireInv, up, \A w \in Writers : pc[w] \in {"lock", "done"},
                      readPacket(stream).result = "short"
               PROVE  stream = <<>> /\ heard = written
    BY DEF NothingHeldBack
  <2>1. sound
    BY DEF WireInv, Working
  <2>2. writeMu = {}
    BY DEF TypeInv, TypeOK
  <2>3. PICK k, x, tails : Frames(stream, k, x, tails) /\ Ready(k, x)
    BY <2>1 DEF WireInv, Framed
  <2>4. k = Len(written) /\ x = <<>>
    BY <2>2, <2>3 DEF Ready
  <2>5. /\ stream \in Seq(Nat) /\ Len(heard) \in Nat /\ k \in Nat /\ Len(heard) <= k
        /\ tails[Len(heard)] = stream \o x /\ tails[k] = <<>>
        /\ \A i \in Len(heard) .. k : tails[i] \in Seq(Nat)
        /\ \A i \in Len(heard) .. k - 1 : tails[i] = Encoded(written[i + 1]) \o tails[i + 1]
    <3>1. stream \in Seq(Nat) /\ Len(heard) \in Nat
      BY DEF WireInv, WireTyped
    <3> QED
      BY <2>3, <3>1 DEF Frames
  <2>6. stream \o x = stream
    BY <2>4, <2>5, ConcatEmptySeq
  <2>7. Len(heard) = k
    <3> SUFFICES ASSUME Len(heard) # k PROVE FALSE
      OBVIOUS
    <3> DEFINE h == Len(heard)
               m == written[h + 1]
               r == tails[h + 1]
    <3>1. h \in h .. k - 1 /\ h + 1 \in h .. k /\ h + 1 \in 1 .. Len(written)
      BY <2>4, <2>5
    <3>2. m \in Messages
      BY <3>1 DEF WireInv, WireTyped
    <3>3. r \in Seq(Nat) /\ stream = Encoded(m) \o r
      BY <2>5, <2>6, <3>1
    <3> HIDE DEF m, r
    <3>4. Message(m)
      BY <3>2 DEF Messages
    <3>5. readPacket(Encoded(m) \o r).result = "ok"
      BY <3>3, <3>4, RoundTrip
    <3> QED
      BY <3>3, <3>5
  <2>8. stream = <<>>
    BY <2>5, <2>6, <2>7
  <2>9. heard = written
    <3>1. heard \in Seq(Messages) /\ written \in Seq(Messages) /\ Len(heard) = Len(written)
          /\ \A i \in 1 .. Len(heard) : heard[i] = written[i]
      BY <2>4, <2>7 DEF WireInv, WireTyped, HeardInOrder
    <3> QED
      BY <3>1, SeqEqual
  <2> QED
    BY <2>8, <2>9
<1> QED
  BY <1>1, WireInvariant, PTL
=============================================================================
