------------------------------- MODULE Naming -------------------------------
(***************************************************************************)
(* What names the agent and everything it publishes: the machine          *)
(* identifier and topic prefix of internal/config/config.go, the topics of *)
(* internal/app/topics.go and envelope.TopicSegment, and the discovery     *)
(* beacon of internal/app/discovery.go.  Pure functions on strings.        *)
(*                                                                         *)
(* A string is a sequence of characters.  The words that the code itself   *)
(* writes stand for one character each.                                    *)
(***************************************************************************)
EXTENDS Integers, Sequences, FiniteSets, SequencesExt, TLC

CONSTANTS
    MaxIdLength,    \* bytes of a machine identifier: 128
    Kinds,          \* the kinds of observation
    Scopes          \* the scopes of their snapshots

ASSUME NamingAssumption == MaxIdLength \in Nat \ {0}

\* The kinds of buildJobs and runCostAttributionCycle.
ASSUME KindsAssumption ==
    Kinds \subseteq {<<"serve", "/", what>> : what \in {"health", "usage", "cost"}}
              \cup {<<"cli", "/", what>> : what \in {"usage-status", "active-account-probe",
                        "account-catalogue", "cost-horizon", "config-validation"}}
ASSUME ScopesAssumption == Scopes \subseteq Seq(STRING)

\* A call that brings no JSON makes an observation of its own kind; it is never
\* a success, so there is no snapshot of it.
AgentError == <<"agent", "/", "error">>
EventKinds == Kinds \cup {AgentError}

Blank == {" ", "\t"}
Wildcards == {"+", "#"}
Separators == {".", "_", "-"}
Lower(c) == IF c = "A" THEN "a" ELSE c

\* Characters that an identifier keeps, and those that a topic segment keeps.
InId(c) == c \notin Blank \cup Wildcards \cup {"/", "<", ">"}
InTopic(c) == InId(c) /\ c # "." /\ Lower(c) = c

\* strings.Trim(text, cut)
Trim(text, cut) ==
    LET kept == {i \in DOMAIN text : text[i] \notin cut}
    IN  IF kept = {} THEN <<>> ELSE SubSeq(text, Min(kept), Max(kept))

\* strings.Split(text, "/") and strings.Join(segments, "/")
Split(text) ==
    FoldLeft(LAMBDA segments, c :
                 IF c = "/" THEN Append(segments, <<>>)
                 ELSE [segments EXCEPT ![Len(segments)] = Append(@, c)],
             << <<>> >>, text)
Join(segments) ==
    IF segments = <<>> THEN <<>>
    ELSE Head(segments) \o FlattenSeq([i \in DOMAIN Tail(segments) |->
                                          <<"/">> \o Tail(segments)[i]])

-----------------------------------------------------------------------------
(* The configuration.                                                      *)

Or(text, default) == IF text = <<>> THEN default ELSE text
Cut(text) == SubSeq(text, 1, IF Len(text) > MaxIdLength THEN MaxIdLength ELSE Len(text))

\* Variant of sanitizeMachineID: what is left after trimming may be nothing.
sanitizeMachineIDUnnamed(text) ==
    LET value == Or(Trim(text, Blank), <<"mac">>)
    IN  Cut(Trim([i \in DOMAIN value |-> IF InId(value[i]) THEN value[i] ELSE "-"],
                 Separators))

sanitizeMachineID(text) ==
    LET value == Or(Trim(text, Blank), <<"mac">>)
        clean == [i \in DOMAIN value |-> IF InId(value[i]) THEN value[i] ELSE "-"]
    IN  Cut(Or(Trim(clean, Separators), <<"mac">>))

\* What Load makes of mqtt.topic_prefix and machine.id.
Load(prefix, id) == [prefix |-> Trim(prefix, {"/", " "}), id |-> sanitizeMachineID(id)]

\* machineIDPattern
MatchesPattern(id) ==
    /\ id # <<>> /\ Len(id) <= MaxIdLength
    /\ id[1] \notin Separators
    /\ \A i \in DOMAIN id : InId(id[i])

UsablePrefix(prefix) ==
    prefix # <<>> /\ \A i \in DOMAIN prefix : prefix[i] \notin Wildcards

\* What Validate asks of the two.
Validate(cfg) == MatchesPattern(cfg.id) /\ UsablePrefix(cfg.prefix)

-----------------------------------------------------------------------------
(* Topics.                                                                 *)

\* A run of characters that a topic does not keep becomes one dash.
Dashed(text) ==
    FlattenSeq([i \in DOMAIN text |->
        IF InTopic(text[i]) THEN <<text[i]>>
        ELSE IF i = 1 \/ InTopic(text[i - 1]) THEN <<"-">> ELSE <<>>])

\* Variant of TopicSegment: a segment of dashes becomes empty.
TopicSegmentEmpty(text) ==
    Trim(Dashed(Trim([i \in DOMAIN text |-> Lower(text[i])], Blank)), {"-"})

TopicSegment(text) ==
    LET value == Trim([i \in DOMAIN text |-> Lower(text[i])], Blank)
    IN  Or(Trim(Dashed(value), {"-"}), <<"default">>)

\* Segments of nothing but blanks are dropped, the others normalised.
clean(segments) ==
    FlattenSeq([i \in DOMAIN segments |->
        IF Trim(segments[i], Blank) = <<>> THEN <<>> ELSE <<TopicSegment(segments[i])>>])

joinTopic(parts) == Join(clean(FlattenSeq([i \in DOMAIN parts |-> Split(parts[i])])))

nodeTopic(cfg, what) == joinTopic(<<cfg.prefix, <<"nodes">>, cfg.id, what>>)
availabilityTopic(cfg) == nodeTopic(cfg, <<"availability">>)
metaTopic(cfg) == nodeTopic(cfg, <<"meta">>)
heartbeatTopic(cfg) == nodeTopic(cfg, <<"heartbeat">>)
eventTopic(cfg, kind) == joinTopic(<<cfg.prefix, <<"events">>, cfg.id, kind>>)

\* Variant of snapshotTopic: the machine is left out.
snapshotTopicShared(cfg, kind, scope) ==
    joinTopic(<<cfg.prefix, <<"nodes">>, <<"snapshots">>, kind, scope>>)

snapshotTopic(cfg, kind, scope) ==
    joinTopic(<<cfg.prefix, <<"nodes">>, cfg.id, <<"snapshots">>, kind, scope>>)

-----------------------------------------------------------------------------
(* Discovery.                                                              *)

\* 64 bits of SHA-256 in hexadecimal: a segment that tells what it digests.
Digest(text) == <<ToString(text)>>
fleetID(cfg) == Digest(joinTopic(<<cfg.prefix>>))
discoveryTopic(cfg) ==
    joinTopic(<< <<"codexbar", "/", "discovery", "/", "v1">>, fleetID(cfg), cfg.id>>)

\* The placeholders that end "events" and "snapshots" go through joinTopic too.
discoveryPayload(cfg) ==
    LET prefix == joinTopic(<<cfg.prefix>>)
        Placeholder(name) == <<"<", name, ">">>
    IN  [fleet_id |-> fleetID(cfg), topic_prefix |-> prefix,
         availability |-> availabilityTopic(cfg), meta |-> metaTopic(cfg),
         heartbeat |-> heartbeatTopic(cfg),
         events |-> joinTopic(<<prefix, <<"events">>, cfg.id, Placeholder("kind")>>),
         snapshots |-> joinTopic(<<prefix, <<"nodes">>, cfg.id, <<"snapshots">>,
                                   Placeholder("kind"), Placeholder("scope")>>)]

\* Everything the node writes below its prefix.
dataTopics(cfg) ==
    {availabilityTopic(cfg), metaTopic(cfg), heartbeatTopic(cfg)}
        \cup {eventTopic(cfg, k) : k \in EventKinds}
        \cup {snapshotTopic(cfg, k, s) : k \in Kinds, s \in Scopes}
=============================================================================
