--------------------------- MODULE CollectorProofs ---------------------------
(* Theorems about Collector, for every sequence of providers, every choice  *)
(* of records and any number of rounds and faults.                          *)
EXTENDS Collector, FiniteSetTheorems, SequenceTheorems, TLAPS

Topics == Probes \cup {Cost}
Phases == {"none", "before", "cost", "after"}
Collection == [cli : BOOLEAN, topic : Topics, phase : Phases]
Observation ==
    [job : Jobs, round : Nat, cli : BOOLEAN, topic : Topics, phase : Phases,
     started : Nat, finished : Nat, outcome : Outcomes \cup {"none"}]
Stored == [class : {"event", "snapshot"}, topic : Topics \cup {"agent/error"},
           obs : Observation]

InHand(j) == pc[j] \in {"running", "collected"}
Idle(j) == pc[j] \in {"idle", "stopped"}

\* A collection starts after the ones of its round before it, in the order of
\* their phases.
LEMMA StepsOK ==
    /\ \A j \in Jobs : Steps(j) \in Seq(Collection) /\ 1 \in DOMAIN Steps(j)
    /\ \A s, t \in DOMAIN Steps(Cycle) :
          s < t => Rank(Steps(Cycle)[s].phase) <= Rank(Steps(Cycle)[t].phase)
<1> DEFINE n == Len(Providers)
           before == ProbeAll("before")
           after == ProbeAll("after")
<1>1. n \in Nat /\ DOMAIN Providers = 1 .. n /\ \A i \in 1 .. n : Providers[i] \in Topics
  BY CollectorAssumption DEF Topics, Probes
<1>2. /\ before \in Seq(Collection) /\ Len(before) = n
      /\ \A i \in 1 .. n : before[i].phase = "before"
  BY <1>1 DEF ProbeAll, Probe, Collection, Phases
<1>3. /\ after \in Seq(Collection) /\ Len(after) = n
      /\ \A i \in 1 .. n : after[i].phase = "after"
  BY <1>1 DEF ProbeAll, Probe, Collection, Phases
<1>4. <<CostStep>> \in Seq(Collection) /\ <<CostStep>>[1].phase = "cost" /\ Len(<<CostStep>>) = 1
  BY DEF CostStep, Collection, Phases, Topics
<1> HIDE DEF n, before, after
<1> DEFINE most == before \o <<CostStep>>
<1>5. /\ most \in Seq(Collection) /\ Len(most) = n + 1
      /\ \A i \in 1 .. n : most[i].phase = "before"
      /\ most[n + 1].phase = "cost"
  BY <1>1, <1>2, <1>4
<1> HIDE DEF most
<1> DEFINE all == most \o after
<1>6. /\ all \in Seq(Collection) /\ Len(all) = n + 1 + n
      /\ \A i \in 1 .. n + 1 : all[i].phase = most[i].phase
      /\ \A i \in n + 2 .. n + 1 + n : all[i].phase = "after"
  BY <1>1, <1>3, <1>5
<1> HIDE DEF all
<1>7. Steps(Cycle) = all
  BY DEF Steps, all, most, before, after
<1>8. \A j \in Probes : Steps(j) = <<Probe(j, "none")>>
  BY CollectorAssumption DEF Steps, Probes
<1>9. \A j \in Jobs : Steps(j) \in Seq(Collection) /\ 1 \in DOMAIN Steps(j)
  <2>1. \A j \in Probes : Steps(j) \in Seq(Collection) /\ 1 \in DOMAIN Steps(j)
    <3> SUFFICES ASSUME NEW j \in Probes
                 PROVE  Steps(j) \in Seq(Collection) /\ 1 \in DOMAIN Steps(j)
      OBVIOUS
    <3>1. Probe(j, "none") \in Collection
      BY DEF Probe, Collection, Phases, Topics
    <3>2. \A c \in Collection : <<c>> \in Seq(Collection) /\ 1 \in DOMAIN <<c>>
      OBVIOUS
    <3> QED
      BY <1>8, <3>1, <3>2, Zenon
  <2>2. Steps(Cycle) \in Seq(Collection) /\ 1 \in DOMAIN Steps(Cycle)
    BY <1>1, <1>6, <1>7
  <2> QED
    BY <2>1, <2>2 DEF Jobs
<1>10. ASSUME NEW s \in 1 .. n + 1 + n, NEW t \in 1 .. n + 1 + n, s < t
       PROVE  Rank(all[s].phase) <= Rank(all[t].phase)
  <2>1. CASE s <= n
    <3>1. Rank(all[s].phase) = 1 /\ all[t].phase \in {"before", "cost", "after"}
      <4>1. all[s].phase = "before"
        BY <1>1, <1>5, <1>6, <2>1
      <4>2. t \in 1 .. n \/ t = n + 1 \/ t \in n + 2 .. n + 1 + n
        BY <1>1
      <4>3. all[t].phase \in {"before", "cost", "after"}
        BY <1>1, <1>5, <1>6, <4>2
      <4> QED
        BY <4>1, <4>3 DEF Rank
    <3> QED
      BY <3>1 DEF Rank
  <2>2. CASE s > n
    <3>1. t \in n + 2 .. n + 1 + n /\ (s = n + 1 \/ s \in n + 2 .. n + 1 + n)
      BY <1>1, <1>10, <2>2
    <3>2. all[t].phase = "after" /\ all[s].phase \in {"cost", "after"}
      BY <1>1, <1>5, <1>6, <3>1
    <3> QED
      BY <3>2 DEF Rank
  <2> QED
    BY <1>1, <2>1, <2>2
<1> QED
  BY <1>1, <1>6, <1>7, <1>9, <1>10

\* What enqueueObservation writes is about the one observation.
LEMMA RecordsOK ==
    ASSUME NEW o \in Observation
    PROVE  /\ Records(o) \in Seq(Stored) /\ Len(Records(o)) \in 0 .. 2
           /\ \A i \in DOMAIN Records(o) : Records(o)[i].obs = o
           /\ "event" \in Classes => Records(o) # <<>>
<1> DEFINE r(c, w) == Record(c, o, w)
<1>1. ASSUME NEW c \in {"event", "snapshot"}, NEW w \in BOOLEAN
      PROVE  /\ r(c, w) \in Seq(Stored) /\ Len(r(c, w)) \in 0 .. 1
             /\ \A i \in DOMAIN r(c, w) : r(c, w)[i].obs = o
             /\ c \in Classes /\ w => Len(r(c, w)) = 1
  <2>1. CASE c \in Classes /\ w
    <3>1. r(c, w) = <<[class |-> c, topic |-> Kind(o), obs |-> o]>>
      BY <2>1 DEF Record
    <3>2. Kind(o) \in Topics \cup {"agent/error"}
      BY DEF Kind, Observation
    <3>3. [class |-> c, topic |-> Kind(o), obs |-> o] \in Stored
      BY <3>2 DEF Stored
    <3> QED
      BY <3>1, <3>3
  <2>2. CASE ~(c \in Classes /\ w)
    <3>1. r(c, w) = <<>> /\ <<>> \in Seq(Stored)
      BY <2>2 DEF Record
    <3> QED
      BY <2>2, <3>1
  <2> QED
    BY <2>1, <2>2
<1> HIDE DEF r
<1> DEFINE e == r("event", TRUE)
           s == r("snapshot", o.outcome = "ok")
<1>2. /\ e \in Seq(Stored) /\ Len(e) \in 0 .. 1 /\ \A i \in DOMAIN e : e[i].obs = o
      /\ "event" \in Classes => Len(e) = 1
  BY <1>1
<1>3. s \in Seq(Stored) /\ Len(s) \in 0 .. 1 /\ \A i \in DOMAIN s : s[i].obs = o
  BY <1>1
<1>4. Records(o) = e \o s
  BY DEF Records, r
<1> HIDE DEF e, s
<1>5. /\ e \o s \in Seq(Stored) /\ Len(e \o s) = Len(e) + Len(s)
      /\ \A i \in 1 .. Len(e) : (e \o s)[i] = e[i]
      /\ \A i \in Len(e) + 1 .. Len(e) + Len(s) : (e \o s)[i] = s[i - Len(e)]
  BY <1>2, <1>3
<1>6. ASSUME NEW i \in 1 .. Len(e) + Len(s) PROVE (e \o s)[i].obs = o
  <2>1. CASE i <= Len(e)
    BY <1>2, <1>3, <1>5, <2>1
  <2>2. CASE i > Len(e)
    <3>1. i - Len(e) \in 1 .. Len(s) /\ i \in Len(e) + 1 .. Len(e) + Len(s)
      BY <1>2, <1>3, <2>2
    <3> QED
      BY <1>3, <1>5, <3>1
  <2> QED
    BY <1>2, <1>3, <2>1, <2>2
<1>7. "event" \in Classes => e \o s # <<>>
  <2>1. "event" \in Classes => Len(e \o s) # 0
    BY <1>2, <1>3, <1>5
  <2>2. Len(<<>>) = 0
    OBVIOUS
  <2> QED
    BY <2>1, <2>2, Zenon
<1> QED
  BY <1>2, <1>3, <1>4, <1>5, <1>6, <1>7

-----------------------------------------------------------------------------
(* Types.                                                                  *)

Shape ==
    /\ cancelled \in BOOLEAN /\ clock \in Nat /\ faults \in 0 .. MaxFaults
    /\ pc \in [Jobs -> {"idle", "next", "running", "collected", "stopped"}]
    /\ step \in [Jobs -> Nat] /\ round \in [Jobs -> Nat]
    /\ errs \in [Jobs -> BOOLEAN] /\ refused \in [Jobs -> BOOLEAN]
    /\ state \in [Jobs -> [attempts : Nat, successes : Nat, failing : BOOLEAN]]
    /\ obs \in [Jobs -> Observation]
    /\ queue \in Seq(Stored)

RoundsOK ==
    \A k \in Jobs :
        /\ IF Idle(k) THEN step[k] = 0 ELSE step[k] \in DOMAIN Steps(k)
        /\ round[k] \in 0 .. MaxRounds[k]
        /\ state[k].successes <= state[k].attempts

\* cliMu has one holder, which runs the CLI.
MutexOK ==
    /\ cliMu = {k \in Jobs : pc[k] = "running" /\ Here(k).cli}
    /\ \A k, l \in cliMu : k = l

\* The observation in hand is the one of the collection the job is at.
InHandOK ==
    \A k \in Jobs :
        /\ ~InHand(k) => obs[k] = NoObs
        /\ InHand(k) =>
            /\ obs[k].job = k /\ obs[k].round = round[k]
            /\ obs[k].cli = Here(k).cli /\ obs[k].phase = Here(k).phase
            /\ obs[k].topic = Here(k).topic
            /\ obs[k].started \in 1 .. clock
        /\ pc[k] = "collected" =>
            /\ obs[k].started < obs[k].finished /\ obs[k].finished <= clock
            /\ obs[k].outcome \in Outcomes

StoredOK ==
    \A i \in DOMAIN queue :
        LET o == queue[i].obs
        IN  o.round <= round[o.job] /\ o.finished <= clock

Types == Shape /\ RoundsOK /\ MutexOK /\ InHandOK /\ StoredOK

LEMMA NoObsOK == NoObs \in Observation /\ NoObs.started = 0
  BY DEF NoObs, Observation, Jobs, Topics, Phases

LEMMA HereOK ==
    ASSUME Types, NEW k \in Jobs, ~Idle(k)
    PROVE  Here(k) \in Collection
  BY StepsOK DEF Types, RoundsOK, Here

LEMMA StoredObs ==
    ASSUME Shape, NEW i \in DOMAIN queue
    PROVE  queue[i] \in Stored /\ queue[i].obs \in Observation
<1>1. queue[i] \in Stored
  BY DEF Shape
<1> QED
  BY <1>1 DEF Stored

LEMMA InitTypes == Init => Types
<1> SUFFICES ASSUME Init PROVE Types
  OBVIOUS
<1>1. Shape
  <2>1. queue \in Seq(Stored)
    BY DEF Init
  <2>2. obs \in [Jobs -> Observation]
    BY NoObsOK DEF Init
  <2>3. state \in [Jobs -> [attempts : Nat, successes : Nat, failing : BOOLEAN]]
    BY DEF Init
  <2>4. faults \in 0 .. MaxFaults
    BY CollectorAssumption DEF Init
  <2>5. /\ cancelled \in BOOLEAN /\ clock \in Nat
        /\ pc \in [Jobs -> {"idle", "next", "running", "collected", "stopped"}]
        /\ step \in [Jobs -> Nat] /\ round \in [Jobs -> Nat]
    BY DEF Init
  <2>6. errs \in [Jobs -> BOOLEAN] /\ refused \in [Jobs -> BOOLEAN]
    BY DEF Init
  <2> QED
    BY <2>1, <2>2, <2>3, <2>4, <2>5, <2>6 DEF Shape
<1>2. RoundsOK
  <2>1. \A k \in Jobs : MaxRounds[k] \in Nat
    BY CollectorAssumption DEF Jobs, Probes
  <2> QED
    BY <2>1 DEF Init, RoundsOK, Idle
<1>3. MutexOK /\ InHandOK
  BY DEF Init, MutexOK, InHandOK, InHand
<1>4. StoredOK
  BY DEF Init, StoredOK
<1> QED
  BY <1>1, <1>2, <1>3, <1>4 DEF Types

\* A round begins, or the goroutine ends.
LEMMA TickTypes ==
    ASSUME Types, NEW j \in Jobs, Tick(j) \/ JobStops(j)
    PROVE  Types'
<1>1. Shape'
  <2>1. UNCHANGED <<cancelled, clock, faults, state, obs, queue>>
    BY DEF Tick, JobStops
  <2>2. /\ pc' \in [Jobs -> {"idle", "next", "running", "collected", "stopped"}]
        /\ step' \in [Jobs -> Nat] /\ round' \in [Jobs -> Nat]
    <3>1. CASE Tick(j)
      BY <3>1 DEF Tick, Goto, Types, Shape
    <3>2. CASE JobStops(j)
      BY <3>2 DEF JobStops, Goto, Types, Shape
    <3> QED
      BY <3>1, <3>2
  <2>3. errs' \in [Jobs -> BOOLEAN] /\ refused' \in [Jobs -> BOOLEAN]
    BY DEF Tick, JobStops, Types, Shape
  <2> QED
    BY <2>1, <2>2, <2>3 DEF Types, Shape
<1>2. RoundsOK'
  <2> SUFFICES ASSUME NEW k \in Jobs
               PROVE  /\ IF Idle(k)' THEN step'[k] = 0 ELSE step'[k] \in DOMAIN Steps(k)
                      /\ round'[k] \in 0 .. MaxRounds[k]
                      /\ state'[k].successes <= state'[k].attempts
    BY DEF RoundsOK
  <2>1. 1 \in DOMAIN Steps(k) /\ MaxRounds[k] \in Nat
    BY StepsOK, CollectorAssumption DEF Jobs, Probes
  <2>2. state' = state
    BY DEF Tick, JobStops
  <2>3. CASE k = j /\ Tick(j)
    <3>1. pc'[k] = "next" /\ step'[k] = 1 /\ round'[k] = round[k] + 1 /\ round[k] < MaxRounds[k]
      BY <2>3 DEF Tick, Goto, Types, Shape
    <3> QED
      BY <2>1, <2>2, <3>1 DEF Types, Shape, RoundsOK, Idle
  <2>4. CASE ~(k = j /\ Tick(j))
    <3>1. /\ step'[k] = step[k] /\ round'[k] = round[k]
          /\ pc'[k] = pc[k] \/ (pc[k] = "idle" /\ pc'[k] = "stopped")
      BY <2>4 DEF Tick, JobStops, Goto, Types, Shape
    <3> QED
      BY <2>2, <3>1 DEF Types, RoundsOK, Idle
  <2> QED
    BY <2>3, <2>4
<1>3. \A k \in Jobs : (pc'[k] = "running" <=> pc[k] = "running")
                     /\ (InHand(k)' <=> InHand(k))
                     /\ (pc'[k] = "collected" <=> pc[k] = "collected")
                     /\ (InHand(k) => step'[k] = step[k] /\ round'[k] = round[k])
  BY DEF Tick, JobStops, Goto, InHand, Types, Shape
<1>4. UNCHANGED <<cliMu, obs, clock, queue>>
  BY DEF Tick, JobStops
<1>5. MutexOK'
  <2>1. \A k \in Jobs : (pc[k] = "running" /\ Here(k).cli) <=> (pc'[k] = "running" /\ Here(k)'.cli)
    BY <1>3 DEF Here, InHand
  <2> QED
    BY <1>4, <2>1 DEF Types, MutexOK
<1>6. InHandOK'
  BY <1>3, <1>4 DEF Types, InHandOK, Here
<1>7. StoredOK'
  <2>1. \A k \in Jobs : round[k] <= round'[k] /\ round[k] \in Nat /\ round'[k] \in Nat
    <3>1. round \in [Jobs -> Nat] /\ (round' = round \/ round' = [round EXCEPT ![j] = @ + 1])
      BY DEF Tick, JobStops, Types, Shape
    <3> QED
      BY <3>1
  <2>2. \A i \in DOMAIN queue : queue[i].obs \in Observation
    BY StoredObs DEF Types
  <2> QED
    BY <1>4, <2>1, <2>2 DEF Types, StoredOK, Observation
<1> QED
  BY <1>1, <1>2, <1>5, <1>6, <1>7 DEF Types

\* The observation that Start makes of n.
Begun(n, a, b, c, d, e, f) ==
    [n EXCEPT !.job = a, !.round = b, !.cli = c, !.topic = d, !.phase = e, !.started = f]

LEMMA Taking ==
    ASSUME NEW n \in Observation, NEW a \in Jobs, NEW b \in Nat, NEW c \in BOOLEAN,
           NEW d \in Topics, NEW e \in Phases, NEW f \in Nat
    PROVE  /\ Begun(n, a, b, c, d, e, f) \in Observation
           /\ Begun(n, a, b, c, d, e, f).job = a /\ Begun(n, a, b, c, d, e, f).round = b
           /\ Begun(n, a, b, c, d, e, f).cli = c /\ Begun(n, a, b, c, d, e, f).phase = e
           /\ Begun(n, a, b, c, d, e, f).topic = d
           /\ Begun(n, a, b, c, d, e, f).started = f
<1> DEFINE m == [n EXCEPT !.job = a, !.round = b, !.cli = c]
           o == [m EXCEPT !.topic = d, !.phase = e, !.started = f]
<1>1. m \in Observation /\ m.job = a /\ m.round = b /\ m.cli = c
  BY DEF Observation
<1> HIDE DEF m
<1>2. /\ o \in Observation /\ o.job = m.job /\ o.round = m.round /\ o.cli = m.cli
      /\ o.topic = d /\ o.phase = e /\ o.started = f
  BY <1>1 DEF Observation
<1> QED
  BY <1>1, <1>2 DEF m, Begun

LEMMA StartTypes ==
    ASSUME Types, NEW j \in Jobs, Start(j)
    PROVE  Types'
<1> DEFINE o == Begun(NoObs, j, round[j], Here(j).cli, Here(j).topic, Here(j).phase, clock + 1)
<1>1. /\ obs' = [obs EXCEPT ![j] = o] /\ clock' = clock + 1
      /\ pc' = [pc EXCEPT ![j] = "running"] /\ pc[j] = "next"
      /\ UNCHANGED <<cancelled, step, round, errs, state, queue, refused, faults>>
  BY DEF Start, Goto, Begun
<1>2. Here(j) \in Collection
  BY HereOK DEF Start, Idle
<1>3. /\ o \in Observation
      /\ o.job = j /\ o.round = round[j] /\ o.cli = Here(j).cli
      /\ o.topic = Here(j).topic /\ o.phase = Here(j).phase /\ o.started = clock + 1
  <2>1. /\ Here(j).cli \in BOOLEAN /\ Here(j).topic \in Topics /\ Here(j).phase \in Phases
        /\ round[j] \in Nat /\ clock + 1 \in Nat
    BY <1>2 DEF Types, Shape, Collection
  <2> QED
    BY <2>1, NoObsOK, Taking
<1> HIDE DEF o
<1>4. Shape'
  BY <1>1, <1>3 DEF Types, Shape
<1>5. RoundsOK'
  BY <1>1 DEF Types, Shape, RoundsOK, Idle
<1>6. MutexOK'
  <2>1. cliMu' = IF Here(j).cli THEN cliMu \cup {j} ELSE cliMu
    BY DEF Start
  <2>2. Here(j).cli => cliMu = {}
    BY DEF Start, MayStart
  <2>3. \A k \in Jobs : (pc'[k] = "running" /\ Here(k)'.cli)
                          <=> (k = j /\ Here(j).cli) \/ (pc[k] = "running" /\ Here(k).cli)
    BY <1>1 DEF Types, Shape, Here
  <2> QED
    BY <2>1, <2>2, <2>3 DEF Types, MutexOK
<1>7. InHandOK'
  <2> SUFFICES ASSUME NEW k \in Jobs
               PROVE  /\ ~InHand(k)' => obs'[k] = NoObs
                      /\ InHand(k)' =>
                          /\ obs'[k].job = k /\ obs'[k].round = round'[k]
                          /\ obs'[k].cli = Here(k)'.cli /\ obs'[k].phase = Here(k)'.phase
                          /\ obs'[k].topic = Here(k)'.topic
                          /\ obs'[k].started \in 1 .. clock'
                      /\ pc'[k] = "collected" =>
                          /\ obs'[k].started < obs'[k].finished /\ obs'[k].finished <= clock'
                          /\ obs'[k].outcome \in Outcomes
    BY DEF InHandOK
  <2>1. CASE k = j
    <3>1. obs'[k] = o /\ pc'[k] = "running" /\ Here(k)' = Here(k)
      BY <1>1, <2>1 DEF Types, Shape, Here
    <3> QED
      BY <1>1, <1>3, <2>1, <3>1 DEF InHand, Types, Shape
  <2>2. CASE k # j
    <3>1. obs'[k] = obs[k] /\ pc'[k] = pc[k] /\ Here(k)' = Here(k) /\ obs[k] \in Observation
      BY <1>1, <2>2 DEF Types, Shape, Here
    <3> QED
      BY <1>1, <3>1 DEF InHand, Types, Shape, InHandOK, Observation
  <2> QED
    BY <2>1, <2>2
<1>8. StoredOK'
  <2>1. \A i \in DOMAIN queue : queue[i].obs \in Observation
    BY StoredObs DEF Types
  <2> QED
    BY <1>1, <2>1 DEF Types, Shape, StoredOK, Observation
<1> QED
  BY <1>4, <1>5, <1>6, <1>7, <1>8 DEF Types

\* The observation that Finish makes of n.
Ended(n, f, x) == [n EXCEPT !.finished = f, !.outcome = x]

LEMMA Ending ==
    ASSUME NEW n \in Observation, NEW f \in Nat, NEW x \in Outcomes
    PROVE  /\ Ended(n, f, x) \in Observation
           /\ Ended(n, f, x).job = n.job /\ Ended(n, f, x).round = n.round
           /\ Ended(n, f, x).cli = n.cli /\ Ended(n, f, x).phase = n.phase
           /\ Ended(n, f, x).topic = n.topic
           /\ Ended(n, f, x).started = n.started
           /\ Ended(n, f, x).finished = f /\ Ended(n, f, x).outcome = x
  BY DEF Ended, Observation

\* What Finish does.
LEMMA FinishDoes ==
    ASSUME Types, NEW j \in Jobs, NEW outcome \in Outcomes, Finish(j, outcome)
    PROVE  /\ pc[j] = "running" /\ pc' = [pc EXCEPT ![j] = "collected"]
           /\ cliMu' = cliMu \ {j} /\ clock' = clock + 1 /\ clock \in Nat
           /\ obs'[j] = Ended(obs[j], clock + 1, outcome)
           /\ \A k \in Jobs : k # j => obs'[k] = obs[k]
           /\ obs' \in [Jobs -> Observation]
           /\ UNCHANGED <<cancelled, step, round, state, queue, refused>>
           /\ \A k \in Jobs : Here(k)' = Here(k)
<1>1. /\ pc[j] = "running" /\ pc' = [pc EXCEPT ![j] = "collected"]
      /\ cliMu' = cliMu \ {j} /\ clock' = clock + 1 /\ clock \in Nat
      /\ UNCHANGED <<cancelled, step, round, state, queue, refused>>
  BY DEF Finish, Goto, Types, Shape
<1>2. obs' = [obs EXCEPT ![j] = Ended(obs[j], clock + 1, outcome)]
  BY DEF Finish, Types, Shape, Ended
<1>3. obs \in [Jobs -> Observation] /\ Ended(obs[j], clock + 1, outcome) \in Observation
  BY <1>1, Ending DEF Types, Shape
<1> QED
  BY <1>1, <1>2, <1>3 DEF Here

LEMMA FinishTypes ==
    ASSUME Types, NEW j \in Jobs, NEW outcome \in Outcomes, Finish(j, outcome)
    PROVE  Types'
<1>1. Shape'
  <2>1. faults' \in 0 .. MaxFaults
    <3>1. faults' = faults + (IF outcome = "ok" THEN 0 ELSE 1) /\ faults' <= MaxFaults
      BY DEF Finish, Faults
    <3> QED
      BY <3>1, CollectorAssumption DEF Types, Shape
  <2>2. errs' \in [Jobs -> BOOLEAN]
    BY DEF Finish, Types, Shape
  <2>3. pc' \in [Jobs -> {"idle", "next", "running", "collected", "stopped"}]
    BY FinishDoes DEF Types, Shape
  <2> QED
    BY <2>1, <2>2, <2>3, FinishDoes DEF Types, Shape
<1>2. RoundsOK'
  BY FinishDoes DEF Types, Shape, RoundsOK, Idle
<1>3. MutexOK'
  <2>1. \A k \in Jobs : pc'[k] = "running" <=> (pc[k] = "running" /\ k # j)
    BY FinishDoes DEF Types, Shape
  <2> QED
    BY <2>1, FinishDoes DEF Types, MutexOK
<1>4. InHandOK'
  <2> SUFFICES ASSUME NEW k \in Jobs
               PROVE  /\ ~InHand(k)' => obs'[k] = NoObs
                      /\ InHand(k)' =>
                          /\ obs'[k].job = k /\ obs'[k].round = round'[k]
                          /\ obs'[k].cli = Here(k)'.cli /\ obs'[k].phase = Here(k)'.phase
                          /\ obs'[k].topic = Here(k)'.topic
                          /\ obs'[k].started \in 1 .. clock'
                      /\ pc'[k] = "collected" =>
                          /\ obs'[k].started < obs'[k].finished /\ obs'[k].finished <= clock'
                          /\ obs'[k].outcome \in Outcomes
    BY DEF InHandOK
  <2>1. CASE k = j
    <3>1. /\ obs[j].job = j /\ obs[j].round = round[j] /\ obs[j].cli = Here(j).cli
          /\ obs[j].phase = Here(j).phase /\ obs[j].started \in 1 .. clock
          /\ obs[j].topic = Here(j).topic
      BY FinishDoes DEF Types, InHandOK, InHand
    <3>2. /\ obs'[j].job = obs[j].job /\ obs'[j].round = obs[j].round
          /\ obs'[j].cli = obs[j].cli /\ obs'[j].phase = obs[j].phase
          /\ obs'[j].topic = obs[j].topic
          /\ obs'[j].started = obs[j].started /\ obs'[j].finished = clock + 1
          /\ obs'[j].outcome = outcome
      <4>1. obs[j] \in Observation /\ clock + 1 \in Nat
        BY DEF Types, Shape
      <4>2. obs'[j] = Ended(obs[j], clock + 1, outcome)
        BY FinishDoes
      <4> QED
        BY <4>1, <4>2, Ending
    <3>3. pc'[j] = "collected"
      BY FinishDoes DEF Types, Shape
    <3> QED
      BY <2>1, <3>1, <3>2, <3>3, FinishDoes DEF InHand
  <2>2. CASE k # j
    <3>1. obs'[k] = obs[k] /\ pc'[k] = pc[k] /\ obs[k] \in Observation
      BY <2>2, FinishDoes DEF Types, Shape
    <3> QED
      BY <3>1, FinishDoes DEF InHand, Types, InHandOK, Observation
  <2> QED
    BY <2>1, <2>2
<1>5. StoredOK'
  <2>1. \A i \in DOMAIN queue : queue[i].obs \in Observation
    BY StoredObs DEF Types
  <2> QED
    BY <2>1, FinishDoes DEF Types, StoredOK, Observation
<1> QED
  BY <1>1, <1>2, <1>3, <1>4, <1>5 DEF Types

\* What enqueueObservation adds to the queue.
LEMMA QueueGrows ==
    ASSUME Types, NEW j \in Jobs, NEW written \in 0 .. 2, NEW failed \in BOOLEAN,
           EnqueueObservation(j, written, failed)
    PROVE  /\ queue' \in Seq(Stored)
           /\ Len(queue) \in Nat /\ Len(queue') = Len(queue) + written
           /\ \A i \in 1 .. Len(queue) : queue'[i] = queue[i]
           /\ \A i \in Len(queue) + 1 .. Len(queue) + written : queue'[i].obs = obs[j]
           /\ ~failed /\ "event" \in Classes => written > 0
<1> DEFINE R == Records(obs[j])
           W == SubSeq(R, 1, written)
           n == Len(queue)
<1>1. /\ R \in Seq(Stored) /\ Len(R) \in 0 .. 2 /\ \A i \in DOMAIN R : R[i].obs = obs[j]
      /\ "event" \in Classes => R # <<>>
  BY RecordsOK DEF Types, Shape
<1>2. written <= Len(R) /\ queue' = queue \o W /\ (~failed => written = Len(R))
  BY DEF EnqueueObservation
<1> HIDE DEF R
<1>3. W \in Seq(Stored) /\ Len(W) = written /\ \A i \in 1 .. written : W[i] = R[i]
  BY <1>1, <1>2
<1> HIDE DEF W
<1>4. queue \in Seq(Stored) /\ n \in Nat
  BY DEF Types, Shape
<1> HIDE DEF n
<1>5. /\ queue' \in Seq(Stored) /\ Len(queue') = n + written
      /\ \A i \in 1 .. n : queue'[i] = queue[i]
      /\ \A i \in n + 1 .. n + written : queue'[i] = W[i - n]
  BY <1>2, <1>3, <1>4 DEF n
<1>6. ASSUME NEW i \in n + 1 .. n + written PROVE queue'[i].obs = obs[j]
  <2>1. i - n \in 1 .. written /\ i - n \in DOMAIN R
    BY <1>1, <1>2, <1>4
  <2> QED
    BY <1>1, <1>3, <1>5, <2>1
<1>7. ~failed /\ "event" \in Classes => written > 0
  <2>1. R # <<>> => Len(R) # 0
    BY <1>1
  <2> QED
    BY <1>1, <1>2, <2>1
<1> QED
  BY <1>4, <1>5, <1>6, <1>7 DEF n

\* What else it does.
LEMMA EnqueueDoes ==
    ASSUME Types, NEW j \in Jobs, NEW written \in 0 .. 2, NEW failed \in BOOLEAN,
           EnqueueObservation(j, written, failed)
    PROVE  /\ pc[j] = "collected" /\ UNCHANGED <<cancelled, round, cliMu, clock>>
           /\ obs' = [obs EXCEPT ![j] = NoObs] /\ faults' \in 0 .. MaxFaults
           /\ refused' = [refused EXCEPT ![j] = @ \/ failed]
           /\ errs' = [errs EXCEPT ![j] = @ \/ failed]
           /\ \/ /\ step[j] = Len(Steps(j))
                 /\ pc' = [pc EXCEPT ![j] = "idle"] /\ step' = [step EXCEPT ![j] = 0]
                 /\ UpdateJob(j, failed \/ errs[j])
              \/ /\ step[j] # Len(Steps(j))
                 /\ pc' = [pc EXCEPT ![j] = "next"] /\ step' = [step EXCEPT ![j] = @ + 1]
                 /\ UNCHANGED state
<1>1. faults' \in 0 .. MaxFaults
  BY CollectorAssumption DEF EnqueueObservation, Faults, Types, Shape
<1> QED
  BY <1>1 DEF EnqueueObservation, LastStep, RoundFailed, Goto

LEMMA EnqueueTypes ==
    ASSUME Types, NEW j \in Jobs, NEW written \in 0 .. 2, NEW failed \in BOOLEAN,
           EnqueueObservation(j, written, failed)
    PROVE  Types'
<1>1. state' \in [Jobs -> [attempts : Nat, successes : Nat, failing : BOOLEAN]]
      /\ \A k \in Jobs : state'[k].successes <= state'[k].attempts
  <2>1. /\ state \in [Jobs -> [attempts : Nat, successes : Nat, failing : BOOLEAN]]
        /\ errs \in [Jobs -> BOOLEAN] /\ \A k \in Jobs : state[k].successes <= state[k].attempts
    BY DEF Types, Shape, RoundsOK
  <2>2. CASE UpdateJob(j, failed \/ errs[j])
    <3> DEFINE new == [attempts |-> state[j].attempts + 1,
                       successes |-> IF failed \/ errs[j] THEN state[j].successes
                                     ELSE state[j].successes + 1,
                       failing |-> (failed \/ errs[j])]
    <3>1. state' = [state EXCEPT ![j] = new]
      BY <2>2 DEF UpdateJob
    <3>2. /\ new \in [attempts : Nat, successes : Nat, failing : BOOLEAN]
          /\ new.successes <= new.attempts
      BY <2>1
    <3> HIDE DEF new
    <3> QED
      BY <2>1, <3>1, <3>2
  <2>3. CASE state' = state
    BY <2>1, <2>3
  <2> QED
    BY <2>2, <2>3, EnqueueDoes
<1>2. Shape'
  <2>1. /\ pc' \in [Jobs -> {"idle", "next", "running", "collected", "stopped"}]
        /\ step' \in [Jobs -> Nat]
    <3>1. \/ pc' = [pc EXCEPT ![j] = "idle"] /\ step' = [step EXCEPT ![j] = 0]
          \/ pc' = [pc EXCEPT ![j] = "next"] /\ step' = [step EXCEPT ![j] = @ + 1]
      BY EnqueueDoes
    <3>2. /\ step \in [Jobs -> Nat]
          /\ pc \in [Jobs -> {"idle", "next", "running", "collected", "stopped"}]
      BY DEF Types, Shape
    <3> QED
      BY <3>1, <3>2
  <2>2. errs' \in [Jobs -> BOOLEAN] /\ refused' \in [Jobs -> BOOLEAN]
    <3>1. /\ refused' = [refused EXCEPT ![j] = @ \/ failed]
          /\ errs' = [errs EXCEPT ![j] = @ \/ failed]
      BY EnqueueDoes
    <3> QED
      BY <3>1 DEF Types, Shape
  <2>3. obs' \in [Jobs -> Observation]
    <3>1. obs' = [obs EXCEPT ![j] = NoObs]
      BY EnqueueDoes
    <3> QED
      BY <3>1, NoObsOK DEF Types, Shape
  <2>4. queue' \in Seq(Stored)
    BY QueueGrows
  <2> QED
    <3>1. faults' \in 0 .. MaxFaults /\ UNCHANGED <<cancelled, round, clock>>
      BY EnqueueDoes
    <3> QED
      BY <1>1, <2>1, <2>2, <2>3, <2>4, <3>1 DEF Types, Shape
<1>3. \A k \in Jobs : /\ k # j => step'[k] = step[k] /\ pc'[k] = pc[k] /\ obs'[k] = obs[k]
                      /\ InHand(k)' => k # j /\ InHand(k)
                      /\ pc'[k] = "running" <=> pc[k] = "running"
  <2>1. /\ obs' = [obs EXCEPT ![j] = NoObs] /\ pc[j] = "collected"
        /\ \/ pc' = [pc EXCEPT ![j] = "idle"] /\ step' = [step EXCEPT ![j] = 0]
           \/ pc' = [pc EXCEPT ![j] = "next"] /\ step' = [step EXCEPT ![j] = @ + 1]
    BY EnqueueDoes
  <2>2. /\ obs \in [Jobs -> Observation] /\ step \in [Jobs -> Nat]
        /\ pc \in [Jobs -> {"idle", "next", "running", "collected", "stopped"}]
    BY DEF Types, Shape
  <2> QED
    BY <2>1, <2>2 DEF InHand
<1>4. RoundsOK'
  <2> SUFFICES ASSUME NEW k \in Jobs
               PROVE  IF Idle(k)' THEN step'[k] = 0 ELSE step'[k] \in DOMAIN Steps(k)
    BY <1>1, EnqueueDoes DEF Types, RoundsOK
  <2>1. CASE k # j
    BY <1>3, <2>1 DEF Types, RoundsOK, Idle
  <2>2. CASE k = j
    <3>1. step[j] \in 1 .. Len(Steps(j)) /\ Len(Steps(j)) \in Nat /\ DOMAIN Steps(j) = 1 .. Len(Steps(j))
      BY EnqueueDoes, StepsOK DEF Types, RoundsOK, Idle
    <3>2. \/ pc'[j] = "idle" /\ step'[j] = 0
          \/ pc'[j] = "next" /\ step'[j] = step[j] + 1 /\ step[j] # Len(Steps(j))
      BY EnqueueDoes DEF Types, Shape
    <3> QED
      BY <2>2, <3>1, <3>2 DEF Idle
  <2> QED
    BY <2>1, <2>2
<1>5. MutexOK'
  <2>1. \A k \in Jobs : (pc'[k] = "running" /\ Here(k)'.cli) <=> (pc[k] = "running" /\ Here(k).cli)
    BY <1>3, EnqueueDoes DEF Here
  <2> QED
    BY <2>1, EnqueueDoes DEF Types, MutexOK
<1>6. InHandOK'
  <2>1. \A k \in Jobs : ~InHand(k)' => obs'[k] = NoObs
    <3>1. obs'[j] = NoObs
      <4>1. obs' = [obs EXCEPT ![j] = NoObs]
        BY EnqueueDoes
      <4> QED
        BY <4>1 DEF Types, Shape
    <3> QED
      BY <1>3, <3>1 DEF Types, InHandOK, InHand
  <2>2. \A k \in Jobs : InHand(k)' => obs'[k] = obs[k] /\ Here(k)' = Here(k) /\ pc'[k] = pc[k]
    BY <1>3 DEF Here
  <2>3. \A k \in Jobs : pc'[k] = "collected" => InHand(k)'
    BY DEF InHand
  <2> QED
    BY <1>3, <2>1, <2>2, <2>3, EnqueueDoes DEF Types, InHandOK
<1>7. StoredOK'
  <2> SUFFICES ASSUME NEW i \in DOMAIN queue'
               PROVE  queue'[i].obs.round <= round[queue'[i].obs.job] /\ queue'[i].obs.finished <= clock
    BY EnqueueDoes DEF StoredOK
  <2>1. i \in 1 .. Len(queue) \/ i \in Len(queue) + 1 .. Len(queue) + written
    BY QueueGrows
  <2>2. CASE i \in 1 .. Len(queue)
    <3>1. queue'[i] = queue[i] /\ i \in DOMAIN queue
      BY <2>2, QueueGrows DEF Types, Shape
    <3> QED
      BY <3>1 DEF Types, StoredOK
  <2>3. CASE i \in Len(queue) + 1 .. Len(queue) + written
    <3>1. queue'[i].obs = obs[j]
      BY <2>3, QueueGrows
    <3>2. obs[j].job = j /\ obs[j].round = round[j] /\ obs[j].finished <= clock /\ round[j] \in Nat
      BY EnqueueDoes DEF Types, Shape, InHandOK, InHand
    <3> QED
      BY <3>1, <3>2
  <2> QED
    BY <2>1, <2>2, <2>3
<1> QED
  BY <1>2, <1>4, <1>5, <1>6, <1>7 DEF Types

LEMMA NextTypes == Types /\ [Next]_vars => Types'
<1> SUFFICES ASSUME Types, [Next]_vars PROVE Types'
  OBVIOUS
<1>1. CASE UNCHANGED vars
  BY <1>1 DEF vars, Types, Shape, RoundsOK, MutexOK, InHandOK, StoredOK, Idle, InHand, Here
<1>2. CASE Cancel
  <2>1. Shape'
    BY <1>2 DEF Cancel, Types, Shape
  <2> QED
    BY <1>2, <2>1 DEF Cancel, Types, RoundsOK, MutexOK, InHandOK, StoredOK, Idle, InHand, Here
<1>3. ASSUME NEW j \in Jobs, Job(j) PROVE Types'
  BY <1>3, TickTypes, StartTypes, FinishTypes, EnqueueTypes DEF Job
<1> QED
  BY <1>1, <1>2, <1>3 DEF Next

\* The type invariant, for any providers, rounds and faults: cliMu has at most
\* one holder, and it runs the CLI; an observation is in hand exactly between the
\* start of its collection and its enqueueing.
THEOREM TypeCorrect == Spec => []TypeOK
<1>1. Spec => []Types
  BY InitTypes, NextTypes, PTL DEF Spec
<1>2. Types => TypeOK
  <2> SUFFICES ASSUME Types PROVE TypeOK
    OBVIOUS
  <2>1. ASSUME NEW k \in Jobs PROVE obs[k] # NoObs <=> pc[k] \in {"running", "collected"}
    <3>1. InHand(k) => obs[k].started # 0
      BY DEF Types, Shape, InHandOK
    <3> QED
      BY <3>1, NoObsOK DEF Types, InHandOK, InHand
  <2>2. \A k \in Jobs : IF pc[k] \in {"idle", "stopped"} THEN step[k] = 0
                        ELSE step[k] \in DOMAIN Steps(k)
    BY DEF Types, RoundsOK, Idle
  <2> QED
    BY <2>1, <2>2 DEF Types, Shape, RoundsOK, MutexOK, TypeOK
<1> QED
  BY <1>1, <1>2, PTL

-----------------------------------------------------------------------------
(* cliMu keeps the runs of the CLI apart.                                  *)

\* The observations that are complete: stored, or about to be.
Taken == Obs \cup {obs[k] : k \in {l \in Jobs : pc[l] = "collected"}}

Apart(o1, o2) == o1.finished < o2.started \/ o2.finished < o1.started

ApartInv ==
    /\ \A o1, o2 \in Taken : o1.cli /\ o2.cli /\ o1 # o2 => Apart(o1, o2)
    /\ \A k \in Jobs : pc[k] = "running" /\ obs[k].cli =>
          \A o \in Taken : o.cli => o.finished < obs[k].started

LEMMA TakenOK ==
    ASSUME Types, NEW o \in Taken
    PROVE  o \in Observation /\ o.finished <= clock
<1>1. CASE o \in Obs
  <2>1. PICK i \in DOMAIN queue : o = queue[i].obs
    BY <1>1 DEF Obs
  <2> QED
    BY <2>1, StoredObs DEF Types, StoredOK
<1>2. ASSUME NEW k \in Jobs, pc[k] = "collected", o = obs[k]
      PROVE  o \in Observation /\ o.finished <= clock
  BY <1>2 DEF Types, Shape, InHandOK
<1> QED
  BY <1>1, <1>2 DEF Taken

LEMMA NextApart == Types /\ ApartInv /\ [Next]_vars => ApartInv'
<1> SUFFICES ASSUME Types, ApartInv, [Next]_vars PROVE ApartInv'
  OBVIOUS
<1>1. ASSUME Taken' \subseteq Taken,
             \A k \in Jobs : pc'[k] = "running" => pc[k] = "running" /\ obs'[k] = obs[k]
      PROVE  ApartInv'
  BY <1>1 DEF ApartInv, Apart
<1>2. CASE UNCHANGED <<pc, obs, queue>>
  BY <1>1, <1>2 DEF Taken, Obs
<1>3. ASSUME NEW j \in Jobs, Tick(j) \/ JobStops(j) PROVE ApartInv'
  <2>1. /\ UNCHANGED <<obs, queue>>
        /\ \A k \in Jobs : (pc'[k] = "collected" <=> pc[k] = "collected")
                           /\ (pc'[k] = "running" => pc[k] = "running")
    BY <1>3 DEF Tick, JobStops, Goto, Types, Shape
  <2> QED
    BY <1>1, <2>1 DEF Taken, Obs
<1>4. ASSUME NEW j \in Jobs, Start(j) PROVE ApartInv'
  <2>1. /\ pc[j] = "next" /\ pc' = [pc EXCEPT ![j] = "running"] /\ queue' = queue
        /\ obs' \in [Jobs -> Observation] /\ clock \in Nat
        /\ \A k \in Jobs : k # j => obs'[k] = obs[k]
    BY <1>4, StartTypes DEF Start, Goto, Types, Shape
  <2>2. \A k \in Jobs : /\ pc'[k] = "collected" <=> pc[k] = "collected"
                        /\ pc[k] = "collected" => k # j
                        /\ k # j => pc'[k] = pc[k]
    BY <2>1 DEF Types, Shape
  <2>3. Taken' = Taken
    BY <2>1, <2>2 DEF Taken, Obs
  <2>4. obs'[j].started = clock + 1
    <3>1. obs' = [obs EXCEPT ![j] = Begun(NoObs, j, round[j], Here(j).cli, Here(j).topic,
                                          Here(j).phase, clock + 1)]
      BY <1>4 DEF Start, Begun
    <3>2. Here(j) \in Collection
      BY <1>4, HereOK DEF Start, Idle
    <3>3. /\ Here(j).cli \in BOOLEAN /\ Here(j).topic \in Topics /\ Here(j).phase \in Phases
          /\ round[j] \in Nat /\ clock + 1 \in Nat
      BY <3>2 DEF Types, Shape, Collection
    <3>4. Begun(NoObs, j, round[j], Here(j).cli, Here(j).topic, Here(j).phase,
                clock + 1).started = clock + 1
      BY <3>3, NoObsOK, Taking
    <3> QED
      BY <3>1, <3>4 DEF Types, Shape
  <2>5. \A o \in Taken : o.finished < clock + 1
    BY <2>1, TakenOK DEF Observation
  <2> QED
    BY <2>1, <2>2, <2>3, <2>4, <2>5 DEF ApartInv, Apart
<1>5. ASSUME NEW j \in Jobs, NEW outcome \in Outcomes, Finish(j, outcome) PROVE ApartInv'
  <2>1. /\ pc[j] = "running" /\ clock' = clock + 1 /\ clock \in Nat /\ queue' = queue
        /\ \A k \in Jobs : /\ pc'[k] = "collected" <=> (k = j \/ pc[k] = "collected")
                           /\ pc'[k] = "running" <=> (k # j /\ pc[k] = "running")
                           /\ k # j => obs'[k] = obs[k]
    BY <1>5, FinishDoes DEF Types, Shape
  <2>2. obs'[j].cli = obs[j].cli /\ obs'[j].started = obs[j].started
    <3>1. obs[j] \in Observation /\ clock + 1 \in Nat
      BY DEF Types, Shape
    <3>2. obs'[j] = Ended(obs[j], clock + 1, outcome)
      BY <1>5, FinishDoes
    <3> QED
      BY <3>1, <3>2, Ending
  <2>3. Taken' \subseteq Taken \cup {obs'[j]}
    BY <2>1 DEF Taken, Obs
  <2>4. ASSUME NEW o \in Taken, o.cli, obs'[j].cli PROVE o.finished < obs'[j].started
    BY <2>1, <2>2, <2>4 DEF ApartInv
  <2>5. ASSUME NEW o1 \in Taken', NEW o2 \in Taken', o1.cli, o2.cli, o1 # o2
        PROVE  Apart(o1, o2)
    BY <2>3, <2>4, <2>5 DEF ApartInv, Apart
  <2>6. ASSUME NEW k \in Jobs, pc'[k] = "running", obs'[k].cli, NEW o \in Taken', o.cli
        PROVE  o.finished < obs'[k].started
    <3>1. k # j /\ pc[k] = "running" /\ obs'[k] = obs[k]
      BY <2>1, <2>6
    <3>2. ~obs'[j].cli
      <4>1. (Here(k).cli <=> obs[k].cli) /\ (Here(j).cli <=> obs[j].cli)
        BY <2>1, <3>1 DEF Types, InHandOK, InHand
      <4>2. k \in cliMu
        BY <2>6, <3>1, <4>1 DEF Types, MutexOK
      <4>3. j \notin cliMu
        BY <3>1, <4>2 DEF Types, MutexOK
      <4> QED
        BY <2>1, <2>2, <4>1, <4>3 DEF Types, MutexOK
    <3>3. o \in Taken
      BY <2>3, <2>6, <3>2
    <3> QED
      BY <2>6, <3>1, <3>3 DEF ApartInv
  <2> QED
    BY <2>5, <2>6 DEF ApartInv, Apart
<1>6. ASSUME NEW j \in Jobs, NEW written \in 0 .. 2, NEW failed \in BOOLEAN,
             EnqueueObservation(j, written, failed)
      PROVE  ApartInv'
  <2>1. pc[j] = "collected" /\ obs' = [obs EXCEPT ![j] = NoObs]
        /\ (pc' = [pc EXCEPT ![j] = "idle"] \/ pc' = [pc EXCEPT ![j] = "next"])
    BY <1>6, EnqueueDoes
  <2>2. \A k \in Jobs : /\ pc'[k] = "collected" => k # j /\ pc[k] = "collected"
                        /\ pc'[k] = "running" => k # j /\ pc[k] = "running"
                        /\ k # j => obs'[k] = obs[k]
    BY <2>1 DEF Types, Shape
  <2>3. Obs' \subseteq Obs \cup {obs[j]}
    <3> SUFFICES ASSUME NEW i \in DOMAIN queue' PROVE queue'[i].obs \in Obs \cup {obs[j]}
      BY DEF Obs
    <3>1. i \in 1 .. Len(queue) \/ i \in Len(queue) + 1 .. Len(queue) + written
      BY <1>6, QueueGrows
    <3>2. CASE i \in 1 .. Len(queue)
      <4>1. queue'[i] = queue[i] /\ i \in DOMAIN queue
        BY <1>6, <3>2, QueueGrows DEF Types, Shape
      <4> QED
        BY <4>1 DEF Obs
    <3>3. CASE i \in Len(queue) + 1 .. Len(queue) + written
      BY <1>6, <3>3, QueueGrows
    <3> QED
      BY <3>1, <3>2, <3>3
  <2>4. Taken' \subseteq Taken
    BY <2>1, <2>2, <2>3 DEF Taken
  <2> QED
    BY <1>1, <2>2, <2>4
<1>7. ASSUME NEW j \in Jobs, Job(j) PROVE ApartInv'
  BY <1>3, <1>4, <1>5, <1>6, <1>7 DEF Job
<1> QED
  BY <1>2, <1>7 DEF Next, Cancel, vars

\* cliMu, for any number of jobs: no two CLI observations overlap in time, also
\* while probes fail, commands are killed and the context ends.
THEOREM RunsApart == Spec => []CliRunsApart
<1>1. Init => ApartInv
  <2> SUFFICES ASSUME Init PROVE ApartInv
    OBVIOUS
  <2>1. Obs = {} /\ \A k \in Jobs : pc[k] = "idle"
    BY DEF Init, Obs
  <2> QED
    BY <2>1 DEF ApartInv, Taken
<1>2. ApartInv => CliRunsApart
  BY DEF ApartInv, CliRunsApart, Taken, Apart
<1> QED
  BY <1>1, <1>2, InitTypes, NextTypes, NextApart, PTL DEF Spec

-----------------------------------------------------------------------------
(* The cost lies between the probes of its cycle.                          *)

\* What the cycle has stored in this round is not of a later phase than the
\* collection it is at, and was over before that began.
CycleInv ==
    \A i \in DOMAIN queue :
        LET a == queue[i].obs
        IN  a.job = Cycle /\ a.round = round[Cycle] /\ ~Idle(Cycle) =>
                /\ Rank(a.phase) <= Rank(Here(Cycle).phase)
                /\ InHand(Cycle) => a.finished < obs[Cycle].started

LEMMA RankOK ==
    ASSUME NEW phase
    PROVE  Rank(phase) \in 0 .. 3
  BY DEF Rank

LEMMA NextBracketed == Types /\ Bracketed /\ CycleInv /\ [Next]_vars => (Bracketed /\ CycleInv)'
<1> SUFFICES ASSUME Types, Bracketed, CycleInv, [Next]_vars PROVE Bracketed' /\ CycleInv'
  OBVIOUS
<1>0. Cycle \in Jobs
  BY DEF Jobs
<1>1. ASSUME UNCHANGED <<queue, round>>,
             ~Idle(Cycle)' => step'[Cycle] = step[Cycle] /\ ~Idle(Cycle),
             InHand(Cycle)' => InHand(Cycle) /\ obs'[Cycle].started = obs[Cycle].started
      PROVE  Bracketed' /\ CycleInv'
  <2>1. Bracketed'
    BY <1>1 DEF Bracketed
  <2>2. ~Idle(Cycle)' => Here(Cycle)' = Here(Cycle)
    BY <1>1 DEF Here
  <2> QED
    BY <1>1, <2>1, <2>2 DEF CycleInv
<1>2. CASE Cancel \/ UNCHANGED vars
  BY <1>1, <1>2 DEF Cancel, vars, Idle, InHand
<1>3. ASSUME NEW j \in Jobs, Tick(j) PROVE Bracketed' /\ CycleInv'
  <2>1. UNCHANGED <<queue, obs>> /\ Bracketed'
    BY <1>3 DEF Tick, Bracketed
  <2>2. CASE j = Cycle
    <3>1. round'[Cycle] = round[Cycle] + 1 /\ round[Cycle] \in Nat
      BY <1>0, <1>3, <2>2 DEF Tick, Types, Shape
    <3>2. \A i \in DOMAIN queue : /\ queue[i].obs.round <= round[queue[i].obs.job]
                                  /\ queue[i].obs.round \in Nat
      BY StoredObs DEF Types, StoredOK, Observation
    <3>3. \A i \in DOMAIN queue : queue[i].obs.job = Cycle => queue[i].obs.round # round'[Cycle]
      BY <3>1, <3>2
    <3> QED
      BY <2>1, <3>3 DEF CycleInv
  <2>3. CASE j # Cycle
    <3>1. pc'[Cycle] = pc[Cycle] /\ step'[Cycle] = step[Cycle] /\ round'[Cycle] = round[Cycle]
      BY <1>0, <1>3, <2>3 DEF Tick, Goto, Types, Shape
    <3> QED
      BY <2>1, <3>1 DEF CycleInv, Idle, InHand, Here
  <2> QED
    BY <2>2, <2>3
<1>4. ASSUME NEW j \in Jobs, JobStops(j) PROVE Bracketed' /\ CycleInv'
  <2>1. UNCHANGED <<queue, obs, round, step>>
    BY <1>4 DEF JobStops
  <2>2. pc'[Cycle] = pc[Cycle] \/ pc'[Cycle] = "stopped"
    BY <1>0, <1>4 DEF JobStops, Goto, Types, Shape
  <2> QED
    BY <1>1, <2>1, <2>2 DEF Idle, InHand
<1>5. ASSUME NEW j \in Jobs, Start(j) PROVE Bracketed' /\ CycleInv'
  <2>1. UNCHANGED <<queue, round, step>> /\ Bracketed'
    BY <1>5 DEF Start, Bracketed
  <2>2. CASE j = Cycle
    <3>1. pc[Cycle] = "next" /\ pc'[Cycle] = "running" /\ clock' = clock + 1 /\ clock \in Nat
      BY <1>0, <1>5, <2>2 DEF Start, Goto, Types, Shape
    <3>2. obs'[Cycle].started = clock + 1
      <4>1. obs' = [obs EXCEPT ![Cycle] = Begun(NoObs, Cycle, round[Cycle], Here(Cycle).cli,
                                Here(Cycle).topic, Here(Cycle).phase, clock + 1)]
        BY <1>5, <2>2 DEF Start, Begun
      <4>2. Here(Cycle) \in Collection
        BY <1>0, <3>1, HereOK DEF Idle
      <4>3. /\ Here(Cycle).cli \in BOOLEAN /\ Here(Cycle).topic \in Topics
            /\ Here(Cycle).phase \in Phases /\ round[Cycle] \in Nat /\ clock + 1 \in Nat
        BY <1>0, <4>2 DEF Types, Shape, Collection
      <4>4. Begun(NoObs, Cycle, round[Cycle], Here(Cycle).cli, Here(Cycle).topic,
                  Here(Cycle).phase, clock + 1).started = clock + 1
        BY <1>0, <4>3, NoObsOK, Taking
      <4> QED
        BY <1>0, <4>1, <4>4 DEF Types, Shape
    <3>3. \A i \in DOMAIN queue : queue[i].obs.finished < clock + 1
      BY <3>1, StoredObs DEF Types, StoredOK, Observation
    <3>4. ~Idle(Cycle) /\ Here(Cycle)' = Here(Cycle)
      BY <2>1, <3>1 DEF Idle, Here
    <3> QED
      BY <2>1, <3>2, <3>3, <3>4 DEF CycleInv
  <2>3. CASE j # Cycle
    <3>1. pc'[Cycle] = pc[Cycle] /\ obs'[Cycle] = obs[Cycle]
      BY <1>0, <1>5, <2>3 DEF Start, Goto, Types, Shape
    <3> QED
      BY <1>1, <2>1, <3>1 DEF Idle, InHand
  <2> QED
    BY <2>2, <2>3
<1>6. ASSUME NEW j \in Jobs, NEW outcome \in Outcomes, Finish(j, outcome)
      PROVE  Bracketed' /\ CycleInv'
  <2>1. UNCHANGED <<queue, round, step>>
    BY <1>6 DEF Finish
  <2>2. obs'[Cycle].started = obs[Cycle].started
    <3>1. obs[j] \in Observation /\ clock + 1 \in Nat
      BY DEF Types, Shape
    <3>2. obs'[j] = Ended(obs[j], clock + 1, outcome) /\ (j # Cycle => obs'[Cycle] = obs[Cycle])
      BY <1>0, <1>6, FinishDoes
    <3> QED
      BY <3>1, <3>2, Ending
  <2>3. pc'[Cycle] = pc[Cycle] \/ (pc[Cycle] = "running" /\ pc'[Cycle] = "collected")
    BY <1>0, <1>6, FinishDoes DEF Types, Shape
  <2> QED
    BY <1>1, <2>1, <2>2, <2>3 DEF Idle, InHand
<1>7. ASSUME NEW j \in Jobs, NEW written \in 0 .. 2, NEW failed \in BOOLEAN,
             EnqueueObservation(j, written, failed)
      PROVE  Bracketed' /\ CycleInv'
  <2> DEFINE n == Len(queue)
             Old(i) == i \in DOMAIN queue /\ queue'[i] = queue[i] /\ i <= n
             New(i) == queue'[i].obs = obs[j] /\ i > n
  <2>1. n \in Nat /\ \A i \in DOMAIN queue' : i \in Nat /\ (Old(i) \/ New(i))
    <3>1. /\ n \in Nat /\ queue' \in Seq(Stored) /\ Len(queue') = n + written
          /\ \A i \in 1 .. n : queue'[i] = queue[i]
          /\ \A i \in n + 1 .. n + written : queue'[i].obs = obs[j]
      BY <1>7, QueueGrows
    <3>2. DOMAIN queue = 1 .. n
      BY DEF Types, Shape
    <3> HIDE DEF n
    <3>3. DOMAIN queue' = 1 .. (n + written)
      BY <3>1
    <3>4. \A i \in 1 .. (n + written) :
            i \in Nat /\ \/ i \in 1 .. n /\ i <= n
                         \/ i \in n + 1 .. n + written /\ i > n
      <4>1. n \in Nat /\ written \in Nat
        BY <3>1
      <4> QED
        BY <4>1
    <3> QED
      BY <3>1, <3>2, <3>3, <3>4
  <2>2. /\ pc[j] = "collected" /\ obs[j].job = j /\ obs[j].round = round[j]
        /\ obs[j].phase = Here(j).phase /\ InHand(j) /\ ~Idle(j) /\ UNCHANGED round
        /\ obs[j].started < obs[j].finished
    BY <1>7, EnqueueDoes DEF Types, InHandOK, InHand, Idle
  <2>3. /\ \A k \in Jobs : k # j => pc'[k] = pc[k] /\ step'[k] = step[k] /\ obs'[k] = obs[k]
        /\ \/ pc'[j] = "idle"
           \/ pc'[j] = "next" /\ step'[j] = step[j] + 1
    <3>1. /\ obs' = [obs EXCEPT ![j] = NoObs]
          /\ \/ pc' = [pc EXCEPT ![j] = "idle"] /\ step' = [step EXCEPT ![j] = 0]
             \/ pc' = [pc EXCEPT ![j] = "next"] /\ step' = [step EXCEPT ![j] = @ + 1]
      BY <1>7, EnqueueDoes
    <3>2. /\ obs \in [Jobs -> Observation] /\ step \in [Jobs -> Nat]
          /\ pc \in [Jobs -> {"idle", "next", "running", "collected", "stopped"}]
      BY DEF Types, Shape
    <3> QED
      BY <3>1, <3>2
  <2> HIDE DEF n
  <2>4. ASSUME NEW i \in DOMAIN queue', NEW k \in DOMAIN queue',
               queue'[i].obs.job = Cycle, queue'[k].obs.job = Cycle,
               queue'[i].obs.round = queue'[k].obs.round,
               Rank(queue'[i].obs.phase) < Rank(queue'[k].obs.phase)
        PROVE  i < k /\ queue'[i].obs.finished < queue'[k].obs.started
    <3>1. CASE Old(i) /\ Old(k)
      BY <2>4, <3>1 DEF Bracketed
    <3>2. CASE Old(i) /\ New(k)
      <4>1. i < k
        BY <2>1, <3>2
      <4>2. queue[i].obs.finished < obs[j].started
        BY <2>2, <2>4, <3>2 DEF CycleInv
      <4> QED
        BY <3>2, <4>1, <4>2
    <3>3. CASE New(i)
      <4>1. j = Cycle /\ queue'[i].obs.phase = Here(Cycle).phase
        BY <2>2, <2>4, <3>3
      <4>2. CASE New(k)
        BY <2>4, <3>3, <4>2, RankOK
      <4>3. CASE Old(k)
        <5>1. Rank(queue[k].obs.phase) <= Rank(Here(Cycle).phase)
          BY <2>2, <2>4, <3>3, <4>1, <4>3 DEF CycleInv
        <5>2. /\ Rank(queue[k].obs.phase) \in 0 .. 3 /\ Rank(Here(Cycle).phase) \in 0 .. 3
          BY RankOK
        <5> QED
          BY <2>4, <4>1, <4>3, <5>1, <5>2
      <4> QED
        BY <2>1, <4>2, <4>3
    <3> QED
      BY <2>1, <3>1, <3>2, <3>3
  <2>5. CASE j = Cycle
    <3>1. ~InHand(Cycle)'
      BY <2>3, <2>5 DEF InHand
    <3>2. ASSUME NEW i \in DOMAIN queue', queue'[i].obs.job = Cycle,
                 queue'[i].obs.round = round[Cycle], ~Idle(Cycle)'
          PROVE  Rank(queue'[i].obs.phase) <= Rank(Here(Cycle)'.phase)
      <4>1. step'[Cycle] = step[Cycle] + 1 /\ pc'[Cycle] = "next"
        BY <2>3, <2>5, <3>2 DEF Idle
      <4>2. step[Cycle] \in DOMAIN Steps(Cycle) /\ step'[Cycle] \in DOMAIN Steps(Cycle)
        BY <1>0, <1>7, <2>2, <2>5, <3>2, EnqueueTypes DEF Types, RoundsOK
      <4>3. Steps(Cycle) \in Seq(Collection) /\ step[Cycle] < step'[Cycle]
        BY <1>0, <4>1, <4>2, StepsOK DEF Types, Shape
      <4>4. Rank(Here(Cycle).phase) <= Rank(Here(Cycle)'.phase)
        BY <4>2, <4>3, StepsOK DEF Here
      <4>5. Rank(queue'[i].obs.phase) <= Rank(Here(Cycle).phase)
        <5>1. CASE Old(i)
          BY <2>2, <2>5, <3>2, <5>1 DEF CycleInv
        <5>2. CASE New(i)
          <6>1. Rank(Here(Cycle).phase) \in 0 .. 3
            BY RankOK
          <6> QED
            BY <2>2, <2>5, <5>2, <6>1
        <5> QED
          BY <2>1, <5>1, <5>2
      <4> QED
        <5>1. /\ Rank(queue'[i].obs.phase) \in 0 .. 3 /\ Rank(Here(Cycle).phase) \in 0 .. 3
              /\ Rank(Here(Cycle)'.phase) \in 0 .. 3
          BY RankOK
        <5> QED
          BY <4>4, <4>5, <5>1
    <3> QED
      BY <2>2, <2>4, <3>1, <3>2 DEF Bracketed, CycleInv
  <2>6. CASE j # Cycle
    <3>1. ASSUME NEW i \in DOMAIN queue', queue'[i].obs.job = Cycle PROVE Old(i)
      BY <2>1, <2>2, <2>6, <3>1
    <3>2. UNCHANGED <<pc[Cycle], step[Cycle], obs[Cycle]>>
      BY <1>0, <2>3, <2>6
    <3>3. CycleInv'
      BY <2>2, <3>1, <3>2 DEF CycleInv, Idle, InHand, Here
    <3> QED
      BY <2>4, <3>3 DEF Bracketed
  <2> QED
    BY <2>5, <2>6
<1>8. ASSUME NEW j \in Jobs, Job(j) PROVE Bracketed' /\ CycleInv'
  BY <1>3, <1>4, <1>5, <1>6, <1>7, <1>8 DEF Job
<1> QED
  BY <1>2, <1>8 DEF Next

\* docs/topic-contract.md: an "account observation immediately before/after cost
\* sampling", for any number of providers: whatever fails and whatever the other
\* jobs do, the opening probes of a cycle are over before its cost is sampled, the
\* closing ones start after it, and they are spooled in that order.
THEOREM CostIsBracketed == Spec => []Bracketed
<1>1. Init => Bracketed /\ CycleInv
  BY DEF Init, Bracketed, CycleInv
<1> QED
  BY <1>1, InitTypes, NextTypes, NextBracketed, PTL DEF Spec

-----------------------------------------------------------------------------
(* The health of a job.                                                    *)

\* Something stored of this round of k is no success.
BadStored(k) == \E o \in Obs : o.job = k /\ o.round = round[k] /\ o.outcome # "ok"
Bad(k) == refused[k] = TRUE \/ BadStored(k)

HealthInv ==
    "event" \in Classes => \A k \in Jobs :
        /\ pc[k] \in {"next", "running"} => (errs[k] = TRUE <=> Bad(k))
        /\ pc[k] = "collected" => (errs[k] = TRUE <=> Bad(k) \/ obs[k].outcome # "ok")
        /\ pc[k] = "idle" /\ round[k] > 0 => (state[k].failing = TRUE <=> Bad(k))

LEMMA NextHealth == Types /\ HealthInv /\ [Next]_vars => HealthInv'
<1> SUFFICES ASSUME Types, HealthInv, [Next]_vars, "event" \in Classes, NEW k \in Jobs
             PROVE  /\ pc'[k] \in {"next", "running"} => (errs'[k] = TRUE <=> Bad(k)')
                    /\ pc'[k] = "collected" => (errs'[k] = TRUE <=> Bad(k)' \/ obs'[k].outcome # "ok")
                    /\ pc'[k] = "idle" /\ round'[k] > 0 => (state'[k].failing = TRUE <=> Bad(k)')
  BY DEF HealthInv
<1> DEFINE Goal == /\ pc'[k] \in {"next", "running"} => (errs'[k] = TRUE <=> Bad(k)')
                   /\ pc'[k] = "collected" => (errs'[k] = TRUE <=> Bad(k)' \/ obs'[k].outcome # "ok")
                   /\ pc'[k] = "idle" /\ round'[k] > 0 => (state'[k].failing = TRUE <=> Bad(k)')
<1>0. /\ pc[k] \in {"next", "running"} => (errs[k] = TRUE <=> Bad(k))
      /\ pc[k] = "collected" => (errs[k] = TRUE <=> Bad(k) \/ obs[k].outcome # "ok")
      /\ pc[k] = "idle" /\ round[k] > 0 => (state[k].failing = TRUE <=> Bad(k))
  BY DEF HealthInv
\* A step of another job, or one that k does not see.
<1>1. ASSUME UNCHANGED <<pc[k], errs[k], obs[k], round[k], state[k], refused[k]>>,
             BadStored(k)' <=> BadStored(k)
      PROVE  Goal
  BY <1>0, <1>1 DEF Bad
<1>2. ASSUME UNCHANGED <<queue, round[k]>> PROVE BadStored(k)' <=> BadStored(k)
  BY <1>2 DEF BadStored, Obs
<1>3. CASE Cancel \/ UNCHANGED vars
  BY <1>1, <1>2, <1>3 DEF Cancel, vars
<1>4. ASSUME NEW j \in Jobs, Tick(j) PROVE Goal
  <2>1. CASE j = k
    <3>1. /\ pc'[k] = "next" /\ errs'[k] = FALSE /\ refused'[k] = FALSE
          /\ round'[k] = round[k] + 1 /\ round[k] \in Nat /\ queue' = queue
      BY <1>4, <2>1 DEF Tick, Goto, Types, Shape
    <3>2. \A i \in DOMAIN queue : /\ queue[i].obs.round <= round[queue[i].obs.job]
                                  /\ queue[i].obs.round \in Nat
      BY StoredObs DEF Types, StoredOK, Observation
    <3>3. \A i \in DOMAIN queue : queue[i].obs.job = k => queue[i].obs.round # round'[k]
      BY <3>1, <3>2
    <3>4. ~BadStored(k)'
      BY <3>1, <3>3 DEF BadStored, Obs
    <3> QED
      BY <3>1, <3>4 DEF Bad
  <2>2. CASE j # k
    <3>1. UNCHANGED <<pc[k], errs[k], obs[k], round[k], state[k], refused[k], queue>>
      BY <1>4, <2>2 DEF Tick, Goto, Types, Shape
    <3> QED
      BY <1>1, <1>2, <3>1
  <2> QED
    BY <2>1, <2>2
<1>5. ASSUME NEW j \in Jobs, JobStops(j) PROVE Goal
  <2>1. /\ UNCHANGED <<errs[k], obs[k], round[k], state[k], refused[k], queue>>
        /\ pc'[k] = pc[k] \/ pc'[k] = "stopped"
    BY <1>5 DEF JobStops, Goto, Types, Shape
  <2>2. BadStored(k)' <=> BadStored(k)
    BY <1>2, <2>1
  <2> QED
    BY <1>0, <2>1, <2>2 DEF Bad
<1>6. ASSUME NEW j \in Jobs, Start(j) PROVE Goal
  <2>1. UNCHANGED <<errs[k], round[k], state[k], refused[k], queue>>
    BY <1>6 DEF Start
  <2>2. BadStored(k)' <=> BadStored(k)
    BY <1>2, <2>1
  <2>3. CASE j = k
    <3>1. pc[k] = "next" /\ pc'[k] = "running"
      BY <1>6, <2>3 DEF Start, Goto, Types, Shape
    <3> QED
      BY <1>0, <2>1, <2>2, <3>1 DEF Bad
  <2>4. CASE j # k
    <3>1. UNCHANGED <<pc[k], obs[k]>>
      BY <1>6, <2>4 DEF Start, Goto, Types, Shape
    <3> QED
      BY <1>1, <2>1, <2>2, <3>1
  <2> QED
    BY <2>3, <2>4
<1>7. ASSUME NEW j \in Jobs, NEW outcome \in Outcomes, Finish(j, outcome) PROVE Goal
  <2>1. UNCHANGED <<round[k], state[k], refused[k], queue>>
    BY <1>7 DEF Finish
  <2>2. BadStored(k)' <=> BadStored(k)
    BY <1>2, <2>1
  <2>3. CASE j = k
    <3>1. pc[k] = "running" /\ pc'[k] = "collected"
      BY <1>7, <2>3, FinishDoes DEF Types, Shape
    <3>2. obs'[k].outcome = outcome
      <4>1. obs[k] \in Observation /\ clock + 1 \in Nat
        BY DEF Types, Shape
      <4>2. obs'[k] = Ended(obs[k], clock + 1, outcome)
        BY <1>7, <2>3, FinishDoes
      <4> QED
        BY <4>1, <4>2, Ending
    <3>3. errs'[k] = TRUE <=> (errs[k] = TRUE \/ outcome # "ok")
      BY <1>7, <2>3 DEF Finish, Types, Shape
    <3> QED
      BY <1>0, <2>1, <2>2, <3>1, <3>2, <3>3 DEF Bad
  <2>4. CASE j # k
    <3>1. pc'[k] = pc[k] /\ obs'[k] = obs[k]
      BY <1>7, <2>4, FinishDoes DEF Types, Shape
    <3>2. errs'[k] = errs[k]
      BY <1>7, <2>4 DEF Finish, Types, Shape
    <3> QED
      BY <1>1, <2>1, <2>2, <3>1, <3>2
  <2> QED
    BY <2>3, <2>4
<1>8. ASSUME NEW j \in Jobs, NEW written \in 0 .. 2, NEW failed \in BOOLEAN,
             EnqueueObservation(j, written, failed)
      PROVE  Goal
  <2> DEFINE n == Len(queue)
  <2>0. /\ n \in Nat /\ DOMAIN queue = 1 .. n /\ DOMAIN queue' = 1 .. (n + written)
        /\ \A i \in 1 .. n : queue'[i] = queue[i]
        /\ \A i \in n + 1 .. n + written : queue'[i].obs = obs[j]
        /\ ~failed => written > 0
    <3>1. /\ n \in Nat /\ queue' \in Seq(Stored) /\ Len(queue') = n + written
          /\ \A i \in 1 .. n : queue'[i] = queue[i]
          /\ \A i \in n + 1 .. n + written : queue'[i].obs = obs[j]
          /\ ~failed => written > 0
      BY <1>8, QueueGrows
    <3>2. DOMAIN queue = 1 .. n
      BY DEF Types, Shape
    <3> HIDE DEF n
    <3>3. DOMAIN queue' = 1 .. (n + written)
      BY <3>1
    <3> QED
      BY <3>1, <3>2, <3>3
  <2> HIDE DEF n
  <2>1. Obs \subseteq Obs' /\ Obs' \subseteq Obs \cup {obs[j]}
    <3>1. \A i \in 1 .. n : i \in 1 .. (n + written)
      BY <2>0
    <3>2. \A i \in 1 .. (n + written) : i \in 1 .. n \/ i \in n + 1 .. n + written
      BY <2>0
    <3> QED
      BY <2>0, <3>1, <3>2 DEF Obs
  <2>2. ~failed => obs[j] \in Obs'
    <3>1. ~failed => n + 1 \in n + 1 .. n + written /\ n + 1 \in 1 .. (n + written)
      BY <2>0
    <3> QED
      BY <2>0, <3>1 DEF Obs
  <2>3. obs[j].job = j /\ obs[j].round = round[j] /\ round' = round /\ pc[j] = "collected"
    BY <1>8, EnqueueDoes DEF Types, InHandOK, InHand
  <2>4. CASE j = k
    <3>1. refused'[k] = TRUE <=> (refused[k] = TRUE \/ failed = TRUE)
      <4>1. refused' = [refused EXCEPT ![j] = @ \/ failed]
        BY <1>8, EnqueueDoes
      <4> QED
        BY <2>4, <4>1 DEF Types, Shape
    <3>2. errs'[k] = TRUE <=> (errs[k] = TRUE \/ failed = TRUE)
      <4>1. errs' = [errs EXCEPT ![j] = @ \/ failed]
        BY <1>8, EnqueueDoes
      <4> QED
        BY <2>4, <4>1 DEF Types, Shape
    <3>3. BadStored(k)' => BadStored(k) \/ obs[k].outcome # "ok"
      BY <2>1, <2>3, <2>4 DEF BadStored
    <3>4. BadStored(k) => BadStored(k)'
      BY <2>1, <2>3 DEF BadStored
    <3>5. ~failed /\ obs[k].outcome # "ok" => BadStored(k)'
      BY <2>2, <2>3, <2>4 DEF BadStored
    <3>6. (errs[k] = TRUE \/ failed = TRUE) <=> Bad(k)'
      BY <1>0, <2>3, <2>4, <3>1, <3>3, <3>4, <3>5 DEF Bad
    <3>7. \/ pc'[k] = "next"
          \/ pc'[k] = "idle" /\ state'[k].failing = (failed \/ errs[k])
      <4>1. \/ pc' = [pc EXCEPT ![j] = "next"]
            \/ pc' = [pc EXCEPT ![j] = "idle"] /\ UpdateJob(j, failed \/ errs[j])
        BY <1>8, EnqueueDoes
      <4> QED
        BY <2>4, <4>1 DEF UpdateJob, Types, Shape
    <3>8. errs[k] \in BOOLEAN
      BY DEF Types, Shape
    <3>9. pc'[k] = "idle" => (state'[k].failing = TRUE <=> (errs[k] = TRUE \/ failed = TRUE))
      BY <3>7, <3>8
    <3> QED
      BY <3>2, <3>6, <3>7, <3>9
  <2>5. CASE j # k
    <3>1. UNCHANGED <<pc[k], errs[k], obs[k], refused[k]>>
      <4>1. /\ pc' = [pc EXCEPT ![j] = "next"] \/ pc' = [pc EXCEPT ![j] = "idle"]
            /\ obs' = [obs EXCEPT ![j] = NoObs]
            /\ refused' = [refused EXCEPT ![j] = @ \/ failed]
            /\ errs' = [errs EXCEPT ![j] = @ \/ failed]
        BY <1>8, EnqueueDoes
      <4> QED
        BY <2>5, <4>1 DEF Types, Shape
    <3>2. state'[k] = state[k]
      <4>1. state' = state \/ UpdateJob(j, failed \/ errs[j])
        BY <1>8, EnqueueDoes
      <4> QED
        BY <2>5, <4>1 DEF UpdateJob, Types, Shape
    <3>3. BadStored(k)' <=> BadStored(k)
      BY <2>1, <2>3, <2>5 DEF BadStored
    <3> QED
      BY <1>1, <2>3, <3>1, <3>2, <3>3
  <2> QED
    BY <2>4, <2>5
<1>9. ASSUME NEW j \in Jobs, Job(j) PROVE Goal
  BY <1>4, <1>5, <1>6, <1>7, <1>8, <1>9 DEF Job
<1> QED
  BY <1>3, <1>9 DEF Next

\* updateJob gets the joined error of the whole round: the health in the heartbeat
\* tells of every failed collection and every refused Enqueue, also when a later
\* step of the round went well, for any list of probes.
THEOREM HealthTold == Spec => []HealthIsHonest
<1>1. Init => HealthInv
  BY DEF Init, HealthInv
<1>2. Types /\ HealthInv => HealthIsHonest
  <2> SUFFICES ASSUME Types, HealthInv, NEW k \in Jobs, pc[k] = "idle", round[k] > 0,
                      "event" \in Classes
               PROVE  state[k].failing <=>
                        \/ refused[k]
                        \/ \E o \in Obs : o.job = k /\ o.round = round[k] /\ o.outcome # "ok"
    BY DEF HealthIsHonest
  <2>1. state[k].failing \in BOOLEAN /\ refused[k] \in BOOLEAN
    BY DEF Types, Shape
  <2>2. state[k].failing = TRUE <=> Bad(k)
    BY DEF HealthInv
  <2> QED
    BY <2>1, <2>2 DEF Bad, BadStored
<1> QED
  BY <1>1, <1>2, InitTypes, NextTypes, NextHealth, PTL DEF Spec

-----------------------------------------------------------------------------
(* A finished round is accounted for.                                      *)

\* The collections of a round differ in their topic or in their phase: the
\* providers of a cycle are distinct.
LEMMA StepsDiffer ==
    \A j \in Jobs : \A s, t \in DOMAIN Steps(j) :
        /\ Steps(j)[s].topic = Steps(j)[t].topic
        /\ Steps(j)[s].phase = Steps(j)[t].phase
        => s = t
<1> DEFINE n == Len(Providers)
           before == ProbeAll("before")
           after == ProbeAll("after")
<1>1. /\ n \in Nat /\ DOMAIN Providers = 1 .. n
      /\ \A i, k \in 1 .. n : Providers[i] = Providers[k] => i = k
  BY CollectorAssumption
<1>2. /\ before \in Seq(Collection) /\ Len(before) = n
      /\ \A i \in 1 .. n : before[i].phase = "before" /\ before[i].topic = Providers[i]
  BY <1>1 DEF ProbeAll, Probe, Collection, Phases, Topics, Probes
<1>3. /\ after \in Seq(Collection) /\ Len(after) = n
      /\ \A i \in 1 .. n : after[i].phase = "after" /\ after[i].topic = Providers[i]
  BY <1>1 DEF ProbeAll, Probe, Collection, Phases, Topics, Probes
<1>4. <<CostStep>> \in Seq(Collection) /\ <<CostStep>>[1].phase = "cost" /\ Len(<<CostStep>>) = 1
  BY DEF CostStep, Collection, Phases, Topics
<1> HIDE DEF n, before, after
<1> DEFINE most == before \o <<CostStep>>
<1>5. /\ most \in Seq(Collection) /\ Len(most) = n + 1
      /\ \A i \in 1 .. n : most[i].phase = "before" /\ most[i].topic = Providers[i]
      /\ most[n + 1].phase = "cost"
  BY <1>1, <1>2, <1>4
<1> HIDE DEF most
<1> DEFINE all == most \o after
<1>6. /\ all \in Seq(Collection) /\ Len(all) = n + 1 + n
      /\ \A i \in 1 .. n + 1 : all[i] = most[i]
      /\ \A i \in n + 2 .. n + 1 + n : all[i] = after[i - (n + 1)]
  BY <1>1, <1>3, <1>5
<1> HIDE DEF all
<1>7. Steps(Cycle) = all
  BY DEF Steps, all, most, before, after
<1>8. \A j \in Probes : DOMAIN Steps(j) = {1}
  <2>1. \A j \in Probes : Steps(j) = <<Probe(j, "none")>>
    BY CollectorAssumption DEF Steps, Probes
  <2>2. \A c : DOMAIN <<c>> = {1}
    OBVIOUS
  <2> QED
    BY <2>1, <2>2, Zenon
<1>9. ASSUME NEW s \in 1 .. n + 1 + n
      PROVE  \/ s \in 1 .. n /\ all[s].phase = "before" /\ all[s].topic = Providers[s]
             \/ s = n + 1 /\ all[s].phase = "cost"
             \/ /\ s - (n + 1) \in 1 .. n /\ all[s].phase = "after"
                /\ all[s].topic = Providers[s - (n + 1)]
  <2>1. s \in 1 .. n \/ s = n + 1 \/ (s \in n + 2 .. n + 1 + n /\ s - (n + 1) \in 1 .. n)
    BY <1>1
  <2>2. \A i \in 1 .. n : i \in 1 .. n + 1
    BY <1>1
  <2>3. n + 1 \in 1 .. n + 1
    BY <1>1
  <2> QED
    BY <1>3, <1>5, <1>6, <2>1, <2>2, <2>3
<1>10. ASSUME NEW s \in 1 .. n + 1 + n, NEW t \in 1 .. n + 1 + n,
              all[s].topic = all[t].topic, all[s].phase = all[t].phase
       PROVE  s = t
  <2>1. CASE s \in 1 .. n /\ all[s].phase = "before" /\ all[s].topic = Providers[s]
    <3>1. t \in 1 .. n /\ all[t].topic = Providers[t]
      BY <1>9, <1>10, <2>1
    <3> QED
      BY <1>1, <1>10, <2>1, <3>1
  <2>2. CASE s = n + 1 /\ all[s].phase = "cost"
    BY <1>9, <1>10, <2>2
  <2>3. CASE /\ s - (n + 1) \in 1 .. n /\ all[s].phase = "after"
             /\ all[s].topic = Providers[s - (n + 1)]
    <3>1. t - (n + 1) \in 1 .. n /\ all[t].topic = Providers[t - (n + 1)]
      BY <1>9, <1>10, <2>3
    <3>2. s - (n + 1) = t - (n + 1)
      BY <1>1, <1>10, <2>3, <3>1
    <3> QED
      BY <1>1, <3>2
  <2> QED
    BY <1>9, <2>1, <2>2, <2>3
<1>11. DOMAIN all = 1 .. n + 1 + n
  BY <1>1, <1>6
<1>12. ASSUME NEW j \in Jobs, NEW s \in DOMAIN Steps(j), NEW t \in DOMAIN Steps(j),
              Steps(j)[s].topic = Steps(j)[t].topic, Steps(j)[s].phase = Steps(j)[t].phase
       PROVE  s = t
  <2>1. CASE j = Cycle
    <3>1. s \in 1 .. n + 1 + n /\ t \in 1 .. n + 1 + n
      BY <1>7, <1>11, <2>1
    <3>2. all[s].topic = all[t].topic /\ all[s].phase = all[t].phase
      BY <1>7, <1>12, <2>1
    <3> QED
      BY <1>10, <3>1, <3>2
  <2>2. CASE j \in Probes
    BY <1>8, <2>2
  <2> QED
    BY <2>1, <2>2 DEF Jobs
<1> QED
  BY <1>12

\* The event comes first, a snapshot follows where the collection succeeded.
LEMMA RecordsExact ==
    ASSUME NEW o \in Observation, "event" \in Classes
    PROVE  /\ Len(Records(o)) \in 1 .. 2
           /\ Records(o)[1].class = "event"
           /\ Len(Records(o)) = 2 =>
                /\ Records(o)[2].class = "snapshot" /\ Records(o)[2].topic = o.topic
                /\ o.outcome = "ok"
           /\ "snapshot" \in Classes /\ o.outcome = "ok" => Len(Records(o)) = 2
<1> DEFINE e == <<[class |-> "event", topic |-> Kind(o), obs |-> o]>>
           s == <<[class |-> "snapshot", topic |-> Kind(o), obs |-> o]>>
<1>1. Record("event", o, TRUE) = e
  BY DEF Record
<1>2. CASE "snapshot" \in Classes /\ o.outcome = "ok"
  <2>1. Records(o) = e \o s
    BY <1>1, <1>2 DEF Records, Record
  <2>2. Kind(o) = o.topic /\ o.topic \in Topics
    BY <1>2 DEF Kind, Observation
  <2>3. /\ e \in Seq(Stored) /\ Len(e) = 1 /\ e[1].class = "event"
        /\ s \in Seq(Stored) /\ Len(s) = 1 /\ s[1].class = "snapshot" /\ s[1].topic = o.topic
    BY <2>2 DEF Stored
  <2> HIDE DEF e, s
  <2>4. Len(e \o s) = 2 /\ (e \o s)[1] = e[1] /\ (e \o s)[2] = s[1]
    <3>1. /\ Len(e \o s) = Len(e) + Len(s)
          /\ \A i \in 1 .. Len(e) : (e \o s)[i] = e[i]
          /\ \A i \in Len(e) + 1 .. Len(e) + Len(s) : (e \o s)[i] = s[i - Len(e)]
      <4>1. e \in Seq(Stored) /\ s \in Seq(Stored)
        BY <2>3
      <4> QED
        BY <4>1
    <3>2. 1 \in 1 .. Len(e) /\ 2 \in Len(e) + 1 .. Len(e) + Len(s) /\ 2 - Len(e) = 1
      BY <2>3
    <3> QED
      BY <2>3, <3>1, <3>2
  <2> QED
    BY <1>2, <2>1, <2>3, <2>4
<1>3. CASE ~("snapshot" \in Classes /\ o.outcome = "ok")
  <2>1. Records(o) = e \o <<>>
    BY <1>1, <1>3 DEF Records, Record
  <2>2. e \o <<>> = e /\ Len(e) = 1 /\ e[1].class = "event"
    OBVIOUS
  <2> QED
    BY <1>3, <2>1, <2>2
<1> QED
  BY <1>2, <1>3

\* The records of q in class about the collection c in round r of job j.
Matches(e, j, r, c) ==
    e.obs.job = j /\ e.obs.round = r /\ e.obs.topic = c.topic /\ e.obs.phase = c.phase
About(q, j, r, c, class) ==
    {i \in DOMAIN q : q[i].class = class /\ Matches(q[i], j, r, c)}
Accounted(q, j, r, c) ==
    /\ "event" \in Classes => \E i : About(q, j, r, c, "event") = {i}
    /\ Classes = {"event", "snapshot"} =>
         \A i \in About(q, j, r, c, "event") :
            IF q[i].obs.outcome = "ok"
            THEN \E k \in About(q, j, r, c, "snapshot") :
                    /\ About(q, j, r, c, "snapshot") = {k} /\ k > i
                    /\ q[k].topic = c.topic
            ELSE About(q, j, r, c, "snapshot") = {}
Absent(q, j, r, c) == \A i \in DOMAIN q : ~Matches(q[i], j, r, c)

\* A queue that grows by records about something else.
LEMMA AboutElse ==
    ASSUME NEW q, NEW p, NEW j, NEW r, NEW c, DOMAIN q \subseteq DOMAIN p,
           \A i \in DOMAIN q : p[i] = q[i],
           \A i \in DOMAIN p \ DOMAIN q : ~Matches(p[i], j, r, c)
    PROVE  /\ Accounted(q, j, r, c) => Accounted(p, j, r, c)
           /\ Absent(q, j, r, c) => Absent(p, j, r, c)
<1>1. \A class : About(p, j, r, c, class) = About(q, j, r, c, class)
  BY DEF About
<1>2. \A i \in About(q, j, r, c, "event") : p[i] = q[i]
  BY DEF About
<1>3. \A i \in About(q, j, r, c, "snapshot") : p[i] = q[i]
  BY DEF About
<1>4. Accounted(q, j, r, c) => Accounted(p, j, r, c)
  BY <1>1, <1>2, <1>3 DEF Accounted
<1> QED
  BY <1>4 DEF Absent

\* A queue that grows by the records of the first observation about c.
LEMMA AboutThis ==
    ASSUME NEW q \in Seq(Stored), NEW j, NEW r, NEW c, NEW o \in Observation,
           Absent(q, j, r, c),
           o.job = j, o.round = r, o.topic = c.topic, o.phase = c.phase
    PROVE  Accounted(q \o Records(o), j, r, c)
<1> DEFINE R == Records(o)
           p == q \o R
           n == Len(q)
<1> SUFFICES ASSUME "event" \in Classes PROVE Accounted(p, j, r, c)
  BY DEF Accounted
<1>1. /\ R \in Seq(Stored) /\ \A i \in DOMAIN R : R[i].obs = o
      /\ Len(R) \in 1 .. 2 /\ R[1].class = "event"
      /\ Len(R) = 2 => R[2].class = "snapshot" /\ R[2].topic = o.topic /\ o.outcome = "ok"
      /\ "snapshot" \in Classes /\ o.outcome = "ok" => Len(R) = 2
  BY RecordsOK, RecordsExact
<1> HIDE DEF R
<1>2. n \in Nat /\ DOMAIN q = 1 .. n
  OBVIOUS
<1> HIDE DEF n
<1>3. /\ DOMAIN p = 1 .. (n + Len(R))
      /\ \A i \in 1 .. n : p[i] = q[i]
      /\ \A i \in DOMAIN R : p[n + i] = R[i]
  BY <1>1, <1>2 DEF n
<1> HIDE DEF p
<1>4. DOMAIN R = 1 .. Len(R)
  BY <1>1
<1>5. \A i \in 1 .. n : ~Matches(p[i], j, r, c)
  BY <1>2, <1>3 DEF Absent
<1>6. p[n + 1].obs = o /\ p[n + 1].class = "event" /\ n + 1 \in DOMAIN p
  BY <1>1, <1>2, <1>3, <1>4
<1>7. Len(R) = 2 => /\ p[n + 2].obs = o /\ p[n + 2].class = "snapshot"
                    /\ p[n + 2].topic = o.topic /\ n + 2 \in DOMAIN p
  BY <1>1, <1>2, <1>3, <1>4
<1>8. \A i \in DOMAIN p : i \in 1 .. n \/ i = n + 1 \/ (i = n + 2 /\ Len(R) = 2)
  BY <1>1, <1>2, <1>3
<1>9. About(p, j, r, c, "event") = {n + 1}
  BY <1>5, <1>6, <1>7, <1>8 DEF About, Matches
<1>10. CASE Len(R) = 2
  <2>1. About(p, j, r, c, "snapshot") = {n + 2}
    BY <1>5, <1>6, <1>7, <1>8, <1>10 DEF About, Matches
  <2>2. n + 2 > n + 1
    BY <1>2
  <2> QED
    BY <1>1, <1>6, <1>7, <1>9, <1>10, <2>1, <2>2, Zenon DEF Accounted
<1>11. CASE Len(R) # 2
  <2>1. About(p, j, r, c, "snapshot") = {}
    BY <1>5, <1>6, <1>8, <1>11 DEF About
  <2>2. Classes = {"event", "snapshot"} => o.outcome # "ok"
    BY <1>1, <1>11
  <2> QED
    BY <1>6, <1>9, <2>1, <2>2, Zenon DEF Accounted
<1> QED
  BY <1>10, <1>11

\* The collections of the round behind a job are accounted for, those before it
\* have left nothing.
AccountInv ==
    \A k \in Jobs : refused[k] = FALSE /\ round[k] > 0 =>
        \A s \in DOMAIN Steps(k) :
            /\ Idle(k) \/ s < step[k] => Accounted(queue, k, round[k], Steps(k)[s])
            /\ ~Idle(k) /\ s >= step[k] => Absent(queue, k, round[k], Steps(k)[s])

LEMMA NextAccount == Types /\ AccountInv /\ [Next]_vars => AccountInv'
<1> SUFFICES ASSUME Types, AccountInv, [Next]_vars, NEW k \in Jobs,
                    refused'[k] = FALSE, round'[k] > 0, NEW s \in DOMAIN Steps(k)
             PROVE  /\ Idle(k)' \/ s < step'[k] => Accounted(queue', k, round'[k], Steps(k)[s])
                    /\ ~Idle(k)' /\ s >= step'[k] => Absent(queue', k, round'[k], Steps(k)[s])
  BY DEF AccountInv
<1> DEFINE c == Steps(k)[s]
           Goal == /\ Idle(k)' \/ s < step'[k] => Accounted(queue', k, round'[k], c)
                   /\ ~Idle(k)' /\ s >= step'[k] => Absent(queue', k, round'[k], c)
<1>0. ASSUME refused[k] = FALSE, round[k] > 0
      PROVE  /\ Idle(k) \/ s < step[k] => Accounted(queue, k, round[k], c)
             /\ ~Idle(k) /\ s >= step[k] => Absent(queue, k, round[k], c)
  BY <1>0 DEF AccountInv
<1> HIDE DEF c
\* A step that k does not see.
<1>1. ASSUME UNCHANGED <<queue, step[k], round[k], refused[k]>>, Idle(k)' <=> Idle(k)
      PROVE  Goal
  BY <1>0, <1>1
<1>2. CASE Cancel \/ UNCHANGED vars
  <2>1. UNCHANGED <<queue, step[k], round[k], refused[k], pc[k]>>
    BY <1>2 DEF Cancel, vars
  <2>2. Idle(k)' <=> Idle(k)
    BY <2>1 DEF Idle
  <2> QED
    BY <1>1, <2>1, <2>2 DEF c
<1>3. ASSUME NEW j \in Jobs, Tick(j) PROVE Goal
  <2>1. CASE j = k
    <3>1. /\ pc'[k] = "next" /\ step'[k] = 1
          /\ round'[k] = round[k] + 1 /\ round[k] \in Nat /\ queue' = queue
      BY <1>3, <2>1 DEF Tick, Goto, Types, Shape
    <3>2. \A i \in DOMAIN queue : /\ queue[i].obs.round <= round[queue[i].obs.job]
                                  /\ queue[i].obs.round \in Nat
      BY StoredObs DEF Types, StoredOK, Observation
    <3>3. \A i \in DOMAIN queue : queue[i].obs.job = k => queue[i].obs.round # round'[k]
      BY <3>1, <3>2
    <3>4. Absent(queue', k, round'[k], c)
      BY <3>1, <3>3 DEF Absent, Matches
    <3>5. ~(s < 1)
      BY StepsOK
    <3> QED
      BY <3>1, <3>4, <3>5 DEF Idle
  <2>2. CASE j # k
    <3>1. UNCHANGED <<queue, step[k], round[k], refused[k], pc[k]>>
      BY <1>3, <2>2 DEF Tick, Goto, Types, Shape
    <3> QED
      BY <1>1, <3>1 DEF Idle
  <2> QED
    BY <2>1, <2>2
<1>4. ASSUME NEW j \in Jobs, JobStops(j) \/ Start(j) \/ \E outcome \in Outcomes : Finish(j, outcome)
      PROVE  Goal
  <2>1. UNCHANGED <<queue, step, round, refused>>
    BY <1>4 DEF JobStops, Start, Finish
  <2>2. Idle(k)' <=> Idle(k)
    BY <1>4 DEF JobStops, Start, Finish, Goto, Idle, Types, Shape
  <2> QED
    BY <1>1, <2>1, <2>2
<1>5. ASSUME NEW j \in Jobs, NEW written \in 0 .. 2, NEW failed \in BOOLEAN,
             EnqueueObservation(j, written, failed)
      PROVE  Goal
  <2> DEFINE o == obs[j]
  <2>1. /\ o.job = j /\ o.round = round[j] /\ round' = round /\ pc[j] = "collected"
        /\ o.topic = Here(j).topic /\ o.phase = Here(j).phase /\ o \in Observation
    BY <1>5, EnqueueDoes DEF Types, Shape, InHandOK, InHand
  <2>2. /\ DOMAIN queue \subseteq DOMAIN queue' /\ \A i \in DOMAIN queue : queue'[i] = queue[i]
        /\ \A i \in DOMAIN queue' \ DOMAIN queue : queue'[i].obs = o
    <3> DEFINE n == Len(queue)
    <3>1. /\ n \in Nat /\ queue' \in Seq(Stored) /\ Len(queue') = n + written
          /\ \A i \in 1 .. n : queue'[i] = queue[i]
          /\ \A i \in n + 1 .. n + written : queue'[i].obs = o
      BY <1>5, QueueGrows
    <3>2. DOMAIN queue = 1 .. n
      BY DEF Types, Shape
    <3> HIDE DEF n, o
    <3>3. DOMAIN queue' = 1 .. (n + written)
      BY <3>1
    <3>4. \A i \in 1 .. (n + written) : i \in 1 .. n \/ i \in n + 1 .. n + written
      BY <3>1
    <3>5. 1 .. n \subseteq 1 .. (n + written)
      BY <3>1
    <3> QED
      BY <3>1, <3>2, <3>3, <3>4, <3>5
  <2> HIDE DEF o
  <2>3. CASE j # k
    <3>1. UNCHANGED <<step[k], round[k], refused[k], pc[k]>>
      <4>1. /\ \/ pc' = [pc EXCEPT ![j] = "idle"] /\ step' = [step EXCEPT ![j] = 0]
               \/ pc' = [pc EXCEPT ![j] = "next"] /\ step' = [step EXCEPT ![j] = @ + 1]
            /\ refused' = [refused EXCEPT ![j] = @ \/ failed]
        BY <1>5, EnqueueDoes
      <4> QED
        BY <2>1, <2>3, <4>1 DEF Types, Shape
    <3>2. \A i \in DOMAIN queue' \ DOMAIN queue : ~Matches(queue'[i], k, round[k], c)
      BY <2>1, <2>2, <2>3 DEF Matches
    <3>3. /\ Accounted(queue, k, round[k], c) => Accounted(queue', k, round[k], c)
          /\ Absent(queue, k, round[k], c) => Absent(queue', k, round[k], c)
      BY <2>2, <3>2, AboutElse
    <3> QED
      BY <1>0, <2>1, <3>1, <3>3 DEF Idle
  <2>4. CASE j = k
    <3>1. refused[k] = FALSE /\ failed = FALSE
      <4>1. refused' = [refused EXCEPT ![j] = @ \/ failed]
        BY <1>5, EnqueueDoes
      <4>2. refused'[k] = (refused[k] \/ failed) /\ refused[k] \in BOOLEAN
        BY <2>4, <4>1 DEF Types, Shape
      <4> QED
        BY <4>2
    <3>2. round[k] > 0 /\ round'[k] = round[k]
      BY <2>1
    <3>3. step[k] \in DOMAIN Steps(k) /\ ~Idle(k)
      BY <2>1, <2>4 DEF Types, RoundsOK, Idle
    <3>4. \/ pc'[k] = "next" /\ step'[k] = step[k] + 1
          \/ pc'[k] = "idle" /\ step'[k] = 0 /\ step[k] = Len(Steps(k))
      <4>1. \/ pc' = [pc EXCEPT ![j] = "idle"] /\ step' = [step EXCEPT ![j] = 0] /\ step[j] = Len(Steps(j))
            \/ pc' = [pc EXCEPT ![j] = "next"] /\ step' = [step EXCEPT ![j] = @ + 1]
        BY <1>5, EnqueueDoes
      <4> QED
        BY <2>4, <4>1 DEF Types, Shape
    <3>5. DOMAIN Steps(k) = 1 .. Len(Steps(k)) /\ Len(Steps(k)) \in Nat
      BY StepsOK
    <3>6. CASE s = step[k]
      <4>1. queue' = queue \o Records(o)
        <5>1. /\ queue' = queue \o SubSeq(Records(o), 1, written)
              /\ written = Len(Records(o))
          BY <1>5, <3>1 DEF EnqueueObservation, o
        <5>2. Records(o) \in Seq(Stored)
          BY <2>1, RecordsOK
        <5>3. SubSeq(Records(o), 1, written) = Records(o)
          BY <5>1, <5>2
        <5> QED
          BY <5>1, <5>3
      <4>2. o.topic = c.topic /\ o.phase = c.phase
        BY <2>1, <2>4, <3>6 DEF Here, c
      <4>3. s >= step[k]
        BY <3>3, <3>5, <3>6
      <4>4. Absent(queue, k, round[k], c)
        BY <1>0, <3>1, <3>2, <3>3, <4>3
      <4>5. Accounted(queue \o Records(o), k, round[k], c)
        BY <2>1, <2>4, <4>2, <4>4, AboutThis DEF Types, Shape
      <4>6. ~(~Idle(k)' /\ s >= step'[k])
        BY <3>3, <3>4, <3>5, <3>6 DEF Idle
      <4> QED
        BY <3>2, <4>1, <4>5, <4>6
    <3>7. CASE s # step[k]
      <4>1. ~(Here(k).topic = c.topic /\ Here(k).phase = c.phase)
        BY <3>3, <3>7, StepsDiffer DEF Here, c
      <4>2. \A i \in DOMAIN queue' \ DOMAIN queue : ~Matches(queue'[i], k, round[k], c)
        BY <2>1, <2>2, <2>4, <4>1 DEF Matches
      <4>3. /\ Accounted(queue, k, round[k], c) => Accounted(queue', k, round[k], c)
            /\ Absent(queue, k, round[k], c) => Absent(queue', k, round[k], c)
        BY <2>2, <4>2, AboutElse
      <4>4. Idle(k)' \/ s < step'[k] => s < step[k]
        BY <3>3, <3>4, <3>5, <3>7 DEF Idle
      <4>5. ~Idle(k)' /\ s >= step'[k] => s >= step[k]
        BY <3>3, <3>4, <3>5 DEF Idle
      <4> QED
        BY <1>0, <3>1, <3>2, <3>3, <4>3, <4>4, <4>5
    <3> QED
      BY <3>6, <3>7
  <2> QED
    BY <2>3, <2>4
<1>6. ASSUME NEW j \in Jobs, Job(j) PROVE Goal
  BY <1>3, <1>4, <1>5, <1>6 DEF Job
<1> QED
  BY <1>2, <1>6 DEF Next, c

\* A round that is over and met no refusal has one event of each of its
\* collections, and behind it a snapshot under the same topic exactly if the
\* collection succeeded: a missing bracket of the cost can only be one the spool
\* lost.  For any list of providers, any records configured and any faults.
THEOREM RoundsAccountedFor == Spec => []AccountedFor
<1>1. Init => AccountInv
  BY DEF Init, AccountInv
<1>2. Types /\ AccountInv => AccountedFor
  <2> SUFFICES ASSUME Types, AccountInv, NEW j \in Jobs, pc[j] = "idle", round[j] > 0,
                      ~refused[j], NEW s \in DOMAIN Steps(j)
               PROVE  LET Of(class) == {i \in DOMAIN queue :
                              /\ queue[i].class = class
                              /\ queue[i].obs.job = j /\ queue[i].obs.round = round[j]
                              /\ queue[i].obs.topic = Steps(j)[s].topic
                              /\ queue[i].obs.phase = Steps(j)[s].phase}
                      IN  /\ "event" \in Classes => Cardinality(Of("event")) = 1
                          /\ Classes = {"event", "snapshot"} =>
                              \A i \in Of("event") :
                                  IF queue[i].obs.outcome = "ok"
                                  THEN \E k \in Of("snapshot") :
                                          /\ Of("snapshot") = {k} /\ k > i
                                          /\ queue[k].topic = Steps(j)[s].topic
                                  ELSE Of("snapshot") = {}
    BY DEF AccountedFor
  <2> DEFINE c == Steps(j)[s]
             Of(class) == {i \in DOMAIN queue :
                              /\ queue[i].class = class
                              /\ queue[i].obs.job = j /\ queue[i].obs.round = round[j]
                              /\ queue[i].obs.topic = Steps(j)[s].topic
                              /\ queue[i].obs.phase = Steps(j)[s].phase}
  <2>1. \A class : Of(class) = About(queue, j, round[j], c, class)
    BY DEF About, Matches
  <2>2. refused[j] = FALSE
    BY DEF Types, Shape
  <2>3. Accounted(queue, j, round[j], c)
    BY <2>2 DEF AccountInv, Idle
  <2> HIDE DEF Of, c
  <2>4. "event" \in Classes => Cardinality(Of("event")) = 1
    BY <2>1, <2>3, FS_Singleton DEF Accounted
  <2>5. Classes = {"event", "snapshot"} =>
            \A i \in Of("event") :
                IF queue[i].obs.outcome = "ok"
                THEN \E k \in Of("snapshot") :
                        Of("snapshot") = {k} /\ k > i /\ queue[k].topic = c.topic
                ELSE Of("snapshot") = {}
    BY <2>1, <2>3 DEF Accounted
  <2> QED
    BY <2>4, <2>5 DEF Of, c
<1> QED
  BY <1>1, <1>2, InitTypes, NextTypes, NextAccount, PTL DEF Spec
=============================================================================
