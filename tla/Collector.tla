----------------------------- MODULE Collector -----------------------------
(***************************************************************************)
(* The collection jobs, internal/app/jobs.go, up to the calls of Enqueue.  *)
(*                                                                         *)
(* Every job has a goroutine that runs a round when its ticker fires.  A   *)
(* round is a list of collections: one for most jobs; for the cost cycle a *)
(* probe of each provider's active account, the cost over HTTP, and the    *)
(* probes again.  The CLI runs under cliMu, which is released before the   *)
(* observation is enqueued.  A failed collection is an observation too: it *)
(* leaves an event, but no snapshot.                                       *)
(*                                                                         *)
(* Time is a counter that moves when a collection starts and when it ends. *)
(***************************************************************************)
EXTENDS Integers, Sequences, FiniteSets

CONSTANTS
    Providers,   \* ActiveAccountProbeProviders without blanks and duplicates
    Cycle,       \* the cost-attribution-cycle job
    Cost,        \* the topic of the cost observation
    Classes,     \* the classes of records that the configuration publishes
    MaxRounds,   \* bound of the exploration: how many rounds each job runs
    MaxFaults    \* bound of the exploration: collections and Enqueues that fail

ASSUME CollectorAssumption ==
    /\ Providers \in Seq({Providers[i] : i \in DOMAIN Providers})
    /\ \A i, k \in DOMAIN Providers : Providers[i] = Providers[k] => i = k
    /\ {Cycle, Cost} \cap {Providers[i] : i \in DOMAIN Providers} = {}
    /\ Classes \subseteq {"event", "snapshot"}
    /\ MaxRounds \in [{Providers[i] : i \in DOMAIN Providers} \cup {Cycle} -> Nat]
    /\ MaxFaults \in Nat

\* One cli-active-account job for each provider, and the cost cycle.
Probes == {Providers[i] : i \in DOMAIN Providers}
Jobs == Probes \cup {Cycle}

Probe(p, phase) == [cli |-> TRUE, topic |-> p, phase |-> phase]
ProbeAll(phase) == [i \in DOMAIN Providers |-> Probe(Providers[i], phase)]
CostStep == [cli |-> FALSE, topic |-> Cost, phase |-> "cost"]

\* Variant of Steps: the closing probes are taken before the cost.
StepsEarly(j) ==
    IF j = Cycle THEN ProbeAll("before") \o ProbeAll("after") \o <<CostStep>>
    ELSE <<Probe(j, "none")>>

\* The collections of one round of job j.
Steps(j) ==
    IF j = Cycle THEN ProbeAll("before") \o <<CostStep>> \o ProbeAll("after")
    ELSE <<Probe(j, "none")>>

VARIABLES
    cancelled,  \* the context of the jobs is done
    pc,         \* "idle", "next", "running", "collected", "stopped"
    step,       \* the collection of its round each job is at
    round,      \* rounds each job has begun
    cliMu,      \* {} or the one job that holds App.cliMu
    obs,        \* the observation each job has in hand
    errs,       \* has the round of the job met an error?
    state,      \* App.jobs: attempts, successes and whether the last one failed
    queue,      \* records enqueued, in order
    refused,    \* history: did an Enqueue of the last round of the job fail?
    clock, faults

vars == <<cancelled, pc, step, round, cliMu, obs, errs, state, queue, refused, clock,
          faults>>

Here(j) == Steps(j)[step[j]]
NoObs == [job |-> Cycle, round |-> 0, cli |-> FALSE, topic |-> Cost, phase |-> "none",
          started |-> 0, finished |-> 0, outcome |-> "none"]

\* "ok": JSON and no error.  "reported": JSON that a failing command or an HTTP
\* status of failure came with.  "failed": anything else; envelope.NewError then
\* makes an observation of kind agent/error.
Outcomes == {"ok", "reported", "failed"}
Kind(o) == IF o.outcome = "failed" THEN "agent/error" ELSE o.topic

\* The record of o in class, if there is to be one.
Record(class, o, wanted) ==
    IF class \in Classes /\ wanted THEN <<[class |-> class, topic |-> Kind(o), obs |-> o]>>
    ELSE <<>>

\* Variant of Records: observations of failure have a snapshot, too.
RecordsOfAll(o) == Record("event", o, TRUE) \o Record("snapshot", o, TRUE)

\* What enqueueObservation gives to Enqueue.
Records(o) == Record("event", o, TRUE) \o Record("snapshot", o, o.outcome = "ok")

Goto(j, where) == pc' = [pc EXCEPT ![j] = where]

-----------------------------------------------------------------------------
Init ==
    /\ cancelled = FALSE
    /\ pc = [j \in Jobs |-> "idle"]
    /\ step = [j \in Jobs |-> 0]
    /\ round = [j \in Jobs |-> 0]
    /\ cliMu = {}
    /\ obs = [j \in Jobs |-> NoObs]
    /\ errs = [j \in Jobs |-> FALSE]
    /\ state = [j \in Jobs |-> [attempts |-> 0, successes |-> 0, failing |-> FALSE]]
    /\ queue = <<>>
    /\ refused = [j \in Jobs |-> FALSE]
    /\ clock = 0 /\ faults = 0

\* scheduleJob: the ticker fires.  A select that also finds the context done
\* may still choose the ticker.
Tick(j) ==
    /\ pc[j] = "idle" /\ round[j] < MaxRounds[j]
    /\ Goto(j, "next")
    /\ step' = [step EXCEPT ![j] = 1]
    /\ round' = [round EXCEPT ![j] = @ + 1]
    /\ errs' = [errs EXCEPT ![j] = FALSE]
    /\ refused' = [refused EXCEPT ![j] = FALSE]
    /\ UNCHANGED <<cancelled, cliMu, obs, state, queue, clock, faults>>

JobStops(j) ==
    /\ pc[j] = "idle" /\ cancelled
    /\ Goto(j, "stopped")
    /\ UNCHANGED <<cancelled, step, round, cliMu, obs, errs, state, queue, refused, clock,
                   faults>>

Cancel ==
    /\ ~cancelled /\ cancelled' = TRUE
    /\ UNCHANGED <<pc, step, round, cliMu, obs, errs, state, queue, refused, clock, faults>>

\* Variant of MayStart: the CLI is not serialised.
MayStartAlways(j) == TRUE

\* collectCLIMeta waits for cliMu; collectHTTPMeta for nothing.
MayStart(j) == Here(j).cli => cliMu = {}

Start(j) ==
    /\ pc[j] = "next" /\ MayStart(j)
    /\ cliMu' = IF Here(j).cli THEN cliMu \cup {j} ELSE cliMu
    /\ clock' = clock + 1
    /\ obs' = [obs EXCEPT ![j] = [NoObs EXCEPT !.job = j, !.round = round[j],
                                  !.cli = Here(j).cli, !.topic = Here(j).topic,
                                  !.phase = Here(j).phase, !.started = clock + 1]]
    /\ Goto(j, "running")
    /\ UNCHANGED <<cancelled, step, round, errs, state, queue, refused, faults>>

\* At most MaxFaults faults happen.
Faults(n) == faults' = faults + n /\ faults' <= MaxFaults

\* Variant of Finish: the lock is kept when the command fails.
FinishLocked(j, outcome) ==
    /\ pc[j] = "running"
    /\ cliMu' = IF outcome = "ok" THEN cliMu \ {j} ELSE cliMu
    /\ clock' = clock + 1
    /\ obs' = [obs EXCEPT ![j].finished = clock + 1, ![j].outcome = outcome]
    /\ errs' = [errs EXCEPT ![j] = @ \/ outcome # "ok"]
    /\ Faults(IF outcome = "ok" THEN 0 ELSE 1)
    /\ Goto(j, "collected")
    /\ UNCHANGED <<cancelled, step, round, state, queue, refused>>

\* RunJSON or Fetch returns: JSON, an error, its timeout, or the context's end,
\* which kills the command.  cliMu is released.
Finish(j, outcome) ==
    /\ pc[j] = "running"
    /\ cliMu' = cliMu \ {j}
    /\ clock' = clock + 1
    /\ obs' = [obs EXCEPT ![j].finished = clock + 1, ![j].outcome = outcome]
    /\ errs' = [errs EXCEPT ![j] = @ \/ outcome # "ok"]
    /\ Faults(IF outcome = "ok" THEN 0 ELSE 1)
    /\ Goto(j, "collected")
    /\ UNCHANGED <<cancelled, step, round, state, queue, refused>>

\* updateJob at the end of a round.
UpdateJob(j, failed) ==
    state' = [state EXCEPT ![j] =
        [attempts |-> @.attempts + 1,
         successes |-> IF failed THEN @.successes ELSE @.successes + 1,
         failing |-> failed]]

\* Variant of RoundFailed: a round is as good as its last collection.
RoundFailedLast(j, failed) == failed \/ obs[j].outcome # "ok"

\* errors.Join of everything the round met.
RoundFailed(j, failed) == failed \/ errs[j]

\* Variant of LastStep: a round ends with the first error.
LastStepOrFailed(j, failed) == step[j] = Len(Steps(j)) \/ failed \/ errs[j]

\* A round goes on after errors.
LastStep(j, failed) == step[j] = Len(Steps(j))

\* enqueueObservation: Enqueue writes the records one by one and then prunes; an
\* error on the way leaves those written before it.
EnqueueObservation(j, written, failed) ==
    /\ pc[j] = "collected"
    /\ written <= Len(Records(obs[j]))
    /\ IF failed THEN Records(obs[j]) # <<>> /\ Faults(1)
       ELSE written = Len(Records(obs[j])) /\ UNCHANGED faults
    /\ queue' = queue \o SubSeq(Records(obs[j]), 1, written)
    /\ refused' = [refused EXCEPT ![j] = @ \/ failed]
    /\ errs' = [errs EXCEPT ![j] = @ \/ failed]
    /\ obs' = [obs EXCEPT ![j] = NoObs]
    /\ IF LastStep(j, failed)
       THEN /\ Goto(j, "idle")
            /\ step' = [step EXCEPT ![j] = 0]
            /\ UpdateJob(j, RoundFailed(j, failed))
       ELSE /\ Goto(j, "next")
            /\ step' = [step EXCEPT ![j] = @ + 1]
            /\ UNCHANGED state
    /\ UNCHANGED <<cancelled, round, cliMu, clock>>

-----------------------------------------------------------------------------
Job(j) ==
    \/ Tick(j)
    \/ JobStops(j)
    \/ Start(j)
    \/ \E outcome \in Outcomes : Finish(j, outcome)
    \/ \E written \in 0 .. 2, failed \in BOOLEAN : EnqueueObservation(j, written, failed)

Next == Cancel \/ \E j \in Jobs : Job(j)

Spec == Init /\ [][Next]_vars

\* The goroutines run, commands and requests end (they have timeouts), the
\* mutex is fair, and a select between the ticker and the context's end does
\* not choose the ticker for ever.
Fairness ==
    \A j \in Jobs :
        /\ SF_vars(Start(j)) /\ SF_vars(JobStops(j))
        /\ WF_vars(\/ \E outcome \in Outcomes : Finish(j, outcome)
                   \/ \E written \in 0 .. 2, failed \in BOOLEAN :
                        EnqueueObservation(j, written, failed))

FairSpec == Spec /\ Fairness

-----------------------------------------------------------------------------
(* Properties.                                                             *)

Obs == {queue[i].obs : i \in DOMAIN queue}

\* The type invariant: cliMu is held exactly while a CLI collection runs.
TypeOK ==
    /\ cancelled \in BOOLEAN
    /\ pc \in [Jobs -> {"idle", "next", "running", "collected", "stopped"}]
    /\ \A j \in Jobs : IF pc[j] \in {"idle", "stopped"} THEN step[j] = 0
                       ELSE step[j] \in DOMAIN Steps(j)
    /\ \A j \in Jobs : round[j] \in 0 .. MaxRounds[j]
    /\ cliMu = {j \in Jobs : pc[j] = "running" /\ Here(j).cli}
    /\ \A j \in Jobs : obs[j] # NoObs <=> pc[j] \in {"running", "collected"}
    /\ errs \in [Jobs -> BOOLEAN] /\ refused \in [Jobs -> BOOLEAN]
    /\ \A j \in Jobs : state[j].successes <= state[j].attempts
    /\ clock \in Nat /\ faults \in 0 .. MaxFaults

\* No two CLI observations overlap in time: the account an active-account probe
\* saw was not disturbed by another command of this agent.
CliRunsApart ==
    \A o1, o2 \in {o \in Obs : o.cli} :
        o1 # o2 => o1.finished < o2.started \/ o2.finished < o1.started

Rank(phase) == CASE phase = "before" -> 1 [] phase = "cost" -> 2
                 [] phase = "after" -> 3 [] OTHER -> 0

\* docs/topic-contract.md: an "account observation immediately before/after cost
\* sampling".  In a cycle, every opening probe is over before the cost is
\* sampled and every closing probe starts after it, and they are spooled in that
\* order, whatever failed and whatever the other jobs did.
Bracketed ==
    \A i, k \in DOMAIN queue :
        LET a == queue[i].obs  b == queue[k].obs
        IN  /\ a.job = Cycle /\ b.job = Cycle /\ a.round = b.round
            /\ Rank(a.phase) < Rank(b.phase)
            => i < k /\ a.finished < b.started

\* README.md: "If an account changes or either bracket is missing, the delta must
\* remain ambiguous".  A round that is over has left one event of every one of its
\* collections, the failed ones included, and a snapshot of exactly those that
\* succeeded, behind the event and under the topic of the collection, unless an
\* Enqueue failed: what is missing tells the consumer that the spool lost it.
AccountedFor ==
    \A j \in Jobs : pc[j] = "idle" /\ round[j] > 0 /\ ~refused[j] =>
        \A s \in DOMAIN Steps(j) :
            LET Of(class) == {i \in DOMAIN queue :
                    /\ queue[i].class = class
                    /\ queue[i].obs.job = j /\ queue[i].obs.round = round[j]
                    /\ queue[i].obs.topic = Steps(j)[s].topic
                    /\ queue[i].obs.phase = Steps(j)[s].phase}
            IN  /\ "event" \in Classes => Cardinality(Of("event")) = 1
                /\ Classes = {"event", "snapshot"} =>
                    \A i \in Of("event") :
                        IF queue[i].obs.outcome = "ok"
                        THEN \E k \in Of("snapshot") :
                                /\ Of("snapshot") = {k} /\ k > i
                                /\ queue[k].topic = Steps(j)[s].topic
                        ELSE Of("snapshot") = {}

\* The job health in the heartbeat tells whether anything in the last completed
\* round failed: a collection, or the spooling of one.
HealthIsHonest ==
    \A j \in Jobs : pc[j] = "idle" /\ round[j] > 0 /\ "event" \in Classes =>
        (state[j].failing <=>
            \/ refused[j]
            \/ \E o \in Obs : o.job = j /\ o.round = round[j] /\ o.outcome # "ok")

\* Snapshots of a topic are spooled in the order in which they were taken, so that
\* the retained one is the "latest successful observation" (docs/topic-contract.md).
\* The code does not ensure it and no run asks for it: collectCLIMeta releases cliMu
\* before it enqueues, and TLC finds two probes of one provider that overtake.
SnapshotsInOrder ==
    \A i, k \in DOMAIN queue :
        /\ i < k /\ queue[i].topic = queue[k].topic
        /\ queue[i].class = "snapshot" /\ queue[k].class = "snapshot"
        => queue[i].obs.finished < queue[k].obs.finished

\* Every job ends once its context is cancelled: App.Run's wg.Wait returns.
JobsEnd == cancelled ~> \A j \in Jobs : pc[j] = "stopped"
=============================================================================
