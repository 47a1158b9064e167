# codexbar-mqtt: specifications, model checking and proofs

codexbar-mqtt runs on a Mac, collects observations from CodexBar (its HTTP
service and its command line) and publishes them over MQTT. What a reader of the
topics relies on is that observations arrive in order and are not lost in
silence, that a retained snapshot is the latest, and that `availability` tells
whether the node is there. These modules state that, check it with TLC and prove
most of its safety with TLAPS.

Paths below are relative to the repository (`internal/...`, `docs/...`).

## 1. Inventory

| Component | State | Operations | What is hard |
|---|---|---|---|
| **Spool**, `internal/spool/spool.go` | a directory of `<id>.json` files, limits, `mu`, `drainMu`, `dropped` | `Enqueue` (write, rename, prune), `Drain` (peek, publish, remove), `Stats`, `New` | publication outside `mu`; prune during a publication; two drainers; crash between acknowledgement and removal; nothing is synced; a listing that passes over a file; names from the wall clock |
| **MQTT connection**, `internal/mqttclient/client.go` | `connected`, `pending`, `packetID`, `writeMu`, `closeOnce`, `done`, the socket | `Dial`, `Publish`, `Disconnect`, `Subscribe`, `readLoop`, `pingLoop`, `fail` | four kinds of goroutines; identifier reuse; `fail` from anywhere; timeouts against late answers |
| **Manager**, `internal/mqttclient/manager.go` | `client`, `connected` (a signal), `started`, backoff | `Run`, `Publish`, `WaitConnected`, `IsConnected` | reconnection; cancellation while dialling; the callback's errors |
| **Agent**, `internal/app/app.go`, `doctor.go`, `cmd/codexbar-mqtt/main.go` | contexts, wait group | `Run`, `RunOnce`, `Doctor`, `onMQTTConnect`, `drainLoop`, `heartbeatLoop` | order of `online`, `offline` and DISCONNECT from two goroutines; will; kill and restart |
| **Collection jobs**, `internal/app/jobs.go` | `cliMu`, `jobs` (health) | `scheduleJob`, `executeJob`, `runCostAttributionCycle`, `collectCLIMeta`, `collectHTTPMeta`, `updateJob` | jobs interleave; the lock is released before the observation is spooled; a cycle goes on after failures |
| **Serve supervisor**, `internal/codexbar/supervisor.go` | the child process, `cmd`, backoff | `Run`, `stop`, `logPipe` | the port is shared by all processes of the machine; a child that hangs or outlives its process; cancellation |
| **CLI runner, HTTP client**, `internal/codexbar/runner.go`, `client.go` | none | `RunJSON`, `Version`, `Fetch`, `Healthy` | timeouts, partial failure |
| **Packet codec**, in `client.go` | none | `encode*`, `parse*`, `readPacket`, `writePacket` | lengths at their limits; writes that take part of a packet |
| **Topics, discovery, envelope, config** | none | pure functions, read once | prefix and identifier are trimmed, cut and lowered in several places that must agree |

Interaction: jobs call `Enqueue`; `drainLoop` (every second) and a goroutine
started at each connect call `Drain`, which calls `Manager.Publish`, which calls
the current `Client.Publish`; `onMQTTConnect` publishes `online`, meta and
discovery directly, the heartbeat publishes directly, and `Run` publishes
`offline` when its context is done and then cancels the manager.

What makes each component correct:

* Spool: FIFO replay; no loss that the counter does not tell; both limits hold
  when `Enqueue` returned nil; pruning takes superseded snapshots, then the
  oldest, and no more than it must (it does take more: finding 1); everything
  leaves in the end.
* Connection: nil from `Publish` at QoS 1 means that the broker has the
  publication; every waiter can be reached and every call returns; death of the
  connection closes `Done`.
* Manager and agent: online while connected, offline after leaving or dying.
* Jobs: CLI runs do not overlap; the cost lies inside its bracket of probes; every
  collection leaves its records; health is honest; jobs end.
* Time: a connection that works is kept, one that does not is noticed.
* Supervisor: a process has at most the serve it waits for, ends when told to, and
  gets an answering serve in the end.
* Names and packets: an identifier that `Load` makes is valid, a consumer finds
  where every topic begins from the beacon, fleets do not mix, and the broker reads the packets
  that were written.

## 2. Modules

| Module | Models | Checked through |
|---|---|---|
| `SpoolPromise` | what the spool promises: a FIFO that delivers at least once, and may set records aside | refined by `Spool` |
| `Spool` | the spool, the drains and the broker's view of them | `MCSpool` |
| `MqttClient` | one connection from `Dial`'s return to the end of `fail` | `MCMqttClient` |
| `KeepAlive` | the same connection's timers: `pingLoop`, both deadlines, the broker's timer | `MCKeepAlive` |
| `Availability` | managers, commands and broker session around the retained availability | `MCAvailability` |
| `Collector` | probe jobs and the cost cycle up to `Enqueue` | `MCCollector` |
| `Supervisor` | the supervisors and serves that share a port | `MCSupervisor` |
| `Naming` | machine identifier, prefix, topics and beacon, as functions on strings | in `Publication` |
| `Codec` | PUBLISH, PINGREQ, variable integers, the packet reader, as functions on bytes | in `Publication` |
| `Publication` | `Naming` and `Codec` composed with `writePacket` and a broker that reads | `MCPublication` |
| `*Proofs` | theorems about the module they are named after (`SpoolProofs`: also the refinement of `SpoolPromise`; `PublicationProofs`: `Codec` and `Publication`, from the facts of `NamingProofs`) | tlapm |

### Spool

Records are numbered by arrival in `log`; `files` is the set of numbers still in
the directory. A record has a topic, a size and one bit for `Retain ||
Class == "snapshot"`: that is all pruning looks at. `name` is the order of
`listLocked`: the arrival number when `ClockMonotone`, any unused number
otherwise.

| Code | Actions |
|---|---|
| `Enqueue` | `EnqueueStart`, one `WriteRecord` for each record, then the pruning; or `WriteFails` |
| `pruneLocked` | `PruneNothing` (line 179), `Prune`, `PruneFails` (a listing fails); operators `Obsolete` (latestByTopic), `Coalesced`, `Rest`, `Kept`, `Cut` |
| `listLocked` | `Skips`: any files whose `Info` fails are left out of the listing at hand |
| `Drain` | `DrainStart` (takes `drainMu`), the steps of `peek`, one of `PublishAcked`, `PublishUnacked`, `PublishFails`, `PublishWritten`, then `RemoveSent` or `RemoveFails`; `Release` at each return |
| `peek` | one step for each listing: `Peek` (a file that parses), `PeekDrops` (unreadable and removed), `PeekKeeps` (unreadable, counted, and its removal fails), `PeekEnds` (nothing listed, or a call fails); `mu = "peek"` between two listings |
| host crash and `New` | `Crash`: nothing is synced, so contents may become unreadable (`bad`), renamings into place vanish (`lost`) and removals be undone (`back`) |

Steps taken under `mu` are one action each, except that an `Enqueue` shows its
intermediate directories (`mu = "enqueue"`) and `peek` its listings (`mu =
"peek"`), so that a crash or a failing call can come in between. A process that
stops in the middle of `pruneLocked` is a pruning that gets `stuck`. `file.Info()`
is asked after the removal of the file (line 222) and fails, as it does wherever
`DirEntry.Info` is an `lstat`, macOS included: `Kept` keeps nothing once the byte
limit is exceeded.

A file whose `Info` fails is silently missing from one listing: the files behind it
are published, counted and pruned as if it were not there. The history variable
`strays` collects these files and those whose renaming or removal a crash has
undone. They are the exception that the properties name: a stray may be replayed
late, stay as the retained message or exceed the limits; nothing else may. The
exception cannot be less: TLC finds each of `ReplayedInOrder`, `RetainedIsLatest`,
`HolesAreSuperseded`, `WithinLimits` and `KeepsPromise` broken without it.

`SpoolPromise` is the abstract view: records are accepted at the end; the oldest,
or snapshots that a newer one supersedes, may be discarded; the oldest is
delivered, perhaps again, and let go once confirmed; records may be set aside
(`Discard`, and `Relapse` after a crash), and only these overtake or come back.
`Spool!KeepsPromise` is `SpoolPromise!Spec` under the mapping `accepted` = `log`
without names and sizes, `held` = `files`, `aside` = `strays`: every lock, drain,
failed call and restart is a stutter, or exactly one of the five steps.

### MqttClient

Publications are numbered; `chan[n]` is the buffered channel of publication `n`,
`pending[id]` the publication whose channel the map holds. `closing` goes through
the steps of `fail`. Publishers go through `register`, `lock`, `write`, `wait`
and return, or through `failing` and `once` (waiting for `closeOnce`).
`ReadPuback` looks the channel up and `SendResult` sends to it afterwards, as the
code does outside `pendingMu`. The broker may accept, refuse, disconnect, or say
nothing; the network may cut the connection at any point, and what is unread is
lost.

Packet identifiers are a counter modulo `IdSpace`. With `IdsOutrun = FALSE` an
identifier is not allocated while its predecessor's publication, packet or
PUBACK is still around (`InFlight`). That is an assumption about the environment
and nothing the code checks: to break it takes 65535 publications within one
timeout. Without it `NilMeansAccepted` and `NoLostWaiter` fail.

### KeepAlive

Time advances in units; `phase`, `deadline`, `writing` and `quiet` are timers. A
tick of `pingLoop` (`PingTick`) moves the read deadline and then asks for
`writeMu` (`PingLock`), behind other writers (`OtherLock`). `readLoop` moves no
deadline and gives PINGRESP no meaning, so the model has none. `TimePasses` is
enabled only while no goroutine has anything to do at once (`Settled`).

What the model makes plain: a broker that takes packets and answers nothing is
never noticed, since each tick moves the deadline whatever has arrived; a
keep-alive of 5 s or less lets the read deadline drop a good connection; the
keep-alive is clamped to 65535 s on the wire but not in `pingLoop`, so that a much
larger one makes the broker give up. `config` validates none of it. The properties
name exactly these exceptions.

### Availability

The processes of one node, each in a place (under launchd, in a shell), with a
command (`run`, `once`, `doctor`), its `Manager.Run` and, for `once` and `doctor`,
its `WaitConnected`. They share the client identifier, hence the broker's one
session `live`: a second connection takes it over and releases its will; so does
a broken connection when the broker notices it; a DISCONNECT does not. `wire` is
what the broker has not read of the live session, `avail` the retained message.
`smooth` and `killed` are history. `WaitConnected` is three steps (`WaitChecks`,
`WaitReads`, `WaitWakes`), because `IsConnected` and the reading of the signal
channel are under separate locks: only the poll of 100 ms saves a waiter whose
channel was closed in between.

### Collector

Each job is a goroutine that runs rounds of collections (`Steps`): one probe for
`cli-active-account-<provider>`, or probes, cost, probes for the cycle. A
collection starts (taking `cliMu` for the CLI), finishes with an outcome (releasing
it), and `EnqueueObservation` spools its records (`Records`: an event, and a
snapshot if it succeeded) in a later step, of which an error may leave only the
first. `clock` counts starts and finishes. The other jobs of `buildJobs` are single
collections of the same two kinds. For HTTP the code takes `FinishedAt` before it
reads the body; nothing here depends on it. A cycle probes each provider once, as
`buildJobs` sees to with `seen` (`CollectorAssumption`).

### Supervisor

Processes with `manage_serve` set, the serves that anybody has started, and one
port. `sup` is the program counter of `ServeSupervisor.Run`, `cmd` the child it
waits for. `once` ends without waiting for its supervisor, so that its child may
outlive it (`owner` = `Nobody`); a serve that hangs keeps the port. The SIGTERM of
`stop()` never has a `cmd` to go to, because `Run` resets it before each call;
`exec.CommandContext` is what kills the child (`ContextKills`). A hung child is
never restarted, and the backoff never returns to its first value: `ServedAgain`
is stated for serves that do not hang, and the length of the backoff is a step.

### Naming, Codec, Publication

Strings are sequences of characters; words that the code writes are one character.
`Naming` holds `Load`'s and `Validate`'s treatment of the prefix and the machine
identifier, `TopicSegment`, `joinTopic`, every topic and the beacon. `Codec` holds
the packets as bytes, where `Half` stands for 128, so that short packets need two
bytes of length. `Publication` loads any configuration of a set of texts, connects,
and lets three goroutines write their packets through `writeMu` in pieces of any
size, any of which may fail; the broker reads what it can make out.

Also visible there: several identifiers become one topic segment (a fleet must not
hold two of them), and a prefix of tabs passes `Validate` and is dropped by
`joinTopic` (`Blanks` excludes it). `KindsAssumption` lists the kinds that
`buildJobs` and the cost cycle give their observations; a collection without JSON
leaves an event of the kind `agent/error` besides (`EventKinds`). Scopes are any
texts, since they are made of provider settings that `Validate` does not look at.
The beacon writes the placeholders `<kind>` and `<scope>` through `joinTopic`, which
takes their brackets: `topic_contract.events` ends in the word `kind`,
`topic_contract.snapshots` in `kind/scope`. `BeaconLeadsToTopics` states them as they
are; docs/topic-contract.md:10 writes `<prefix>/events/<machine>/<kind>` (see the
known limits in section 4).
`MaxPacketSize` is the length from which on `readPacket` refuses a packet, 64 MiB in
the code. `PacketsAssumption` keeps the texts short enough for `encodePublish`, which
refuses a topic of more than 65535 bytes, and the packets within `MaxPacketSize`,
which nothing in the code checks on the way out.

## 3. Runs

TLC with two workers; times are in seconds on two cores.

| Run | Expect | Properties | States | s |
|---|---|---|---|---|
| `Spool_replay` | pass | `TypeOK NoSilentLoss HolesAreSuperseded RetainedIsLatest WithinLimits ReplayedInOrder KeepsWhatFits KeepsPromise` | 656,153 | 130 |
| `Spool_liveness` | pass | `EventuallyLeaves` | 50,172 | 20 |
| `Spool_byte_limit` | violation | `DropsOnlyWhatItMust` | | 1 |
| `MqttClient_acks` | pass | `TypeOK NilMeansAccepted NoLostWaiter PendingIsOwned` | 1,746,549 | 59 |
| `MqttClient_liveness` | pass | `EveryCallReturns DeathIsNoticed` | 138,798 | 102 |
| `KeepAlive_timers` | pass | `TypeOK DeadlineIsMoved BrokerIsPatient CutIsNoticed` | 41,775 | 8 |
| `Availability_node` | pass | `TypeOK GracefulOffline EventuallyOnline CrashIsSeen ConnectionIsNoticed` | 81,966 | 57 |
| `Availability_stale_online` | violation | `NeverStaleOnline` | | 1 |
| `Collector_cycles` | pass | `TypeOK CliRunsApart Bracketed AccountedFor HealthIsHonest JobsEnd` | 59,140 | 35 |
| `Supervisor_serve` | pass | `TypeOK ChildrenAreWaitedFor EndsAfterCancel ServedAgain` | 54,638 | 41 |
| `Publication_wire` | pass | `TypeOK IdIsAccepted BeaconLeadsToTopics FleetsApart FramesAreWhole NothingHeldBack` | 1,229,137 | 130 |
| `Publication_torn_packet` | violation | `FramesAreWhole` | | 2 |

What the runs show, property by property:

* *Order and loss* (`ReplayedInOrder`, `NoSilentLoss`, `HolesAreSuperseded`,
  `RetainedIsLatest`): two drains, retries after lost acknowledgements, crashes,
  pruning of the record in flight and failing file-system calls do not make the
  broker receive a record after a later one, lose one uncounted, or retain an old
  snapshot, strays apart. `WithinLimits` and `KeepsWhatFits` bound pruning from both
  sides, the latter while only the number of records is exceeded;
  `DropsOnlyWhatItMust` is the same for both limits, and is finding 1. `KeepsPromise`
  says all of it abstractly; `EventuallyLeaves` that nothing stays for ever.
* *Acknowledgements* (`NilMeansAccepted`, `NoLostWaiter`, `PendingIsOwned`,
  `EveryCallReturns`, `DeathIsNoticed`): nil from `Publish` is what `Drain` removes
  records on; `fail` reaches every waiter.
* *Time* (`DeadlineIsMoved`, `BrokerIsPatient`, `CutIsNoticed`): which keep-alives
  lose a good connection, and that a cut one is noticed by a failing PINGREQ.
* *Availability* (`GracefulOffline`, `CrashIsSeen`, `EventuallyOnline`,
  `ConnectionIsNoticed`): what consumers read when processes of one node leave,
  are killed, take the session from each other and come back.
* *Jobs* (`CliRunsApart`, `Bracketed`, `AccountedFor`, `HealthIsHonest`, `JobsEnd`):
  what a consumer may conclude about the account behind a cost.
* *Serves* (`ChildrenAreWaitedFor`, `EndsAfterCancel`, `ServedAgain`).
* *Names and packets* (`IdIsAccepted`, `BeaconLeadsToTopics`, `FleetsApart`,
  `FramesAreWhole`, `NothingHeldBack`).

Bounds, and why the interesting cases happen within them:

* `Spool_replay`: two drainers (`drainLoop` and the drain of a connect), at most
  three files and four units of bytes, four records: two observations of two
  records, or with a large event of one that failed. Both limits are exceeded, by
  count and by bytes; snapshots are superseded behind an older event; a record in
  flight is pruned; one crash, which damages one record (`MaxUndone`), one stray
  (`MaxStrays`), and one unreadable record that cannot be removed
  (`MaxMiscounts`). Drainers are symmetric. Temporary files change nothing else and
  are left to `Spool_liveness` (`MaxTmps`).
* `Spool_liveness`: three records and a crash that may damage each of them, at QoS
  0, whose steps include those of QoS 1. No faults: a directory that cannot be read
  keeps its files.
* `MqttClient_acks`: two publishers with three publications over two
  identifiers (`IdSpace` counts 0), so that identifiers are reused while late
  PUBACKs are on the way. Publishers are symmetric. `MqttClient_liveness`: two
  publications, which the broker answers or does not; a refusal wakes the
  publisher just as well.
* `KeepAlive_timers`: units of 2.5 s; unset, below, at and above the least
  interval, the default, and more than the wire can say (scaled to 15 s); one
  writer ahead of a PINGREQ, a kernel buffer of two packets. Time is unbounded:
  all timers are.
* `Availability_node`: the agent in one place, `once` or `doctor` in another, two
  processes in all and one break. A takeover and its return, a break or a kill at
  any point and a restart fit in. Three processes were explored once as well
  (316,765 states), with the same result.
* `Collector_cycles`: one provider, its probe job twice and the cycle once, one
  fault anywhere: the overlap of a probe with each part of a cycle, and health
  after a failed round followed by a good one.
* `Supervisor_serve`: an agent and `once`, two serves that crash or hang, two
  processes that end; a serve of the user's own, or none, to begin with.
* `Publication_wire`: every prefix and every identifier of up to two of five kinds
  of character, and ten longer or odd ones, with `MaxIdLength` = 2 so that the cut
  happens; both QoS; payloads on both sides of the first limit of the length field
  (`Half` = 16, and `MaxPacketSize` = 64 for the 64 MiB).

`CHECK_DEADLOCK FALSE` stands where the system may really stop: a connection that
has failed, processes that have exited for good, jobs that have stopped, packets
that have all been read. The runs of `Spool`, `KeepAlive` and `Supervisor` check
for deadlock.

Every property of a passing run has a mutant: a variant of a definition, kept
beside it ("Variant of ..."), that a plausible bug would produce and that breaks
the property under the same configuration.

### Fairness

* Spool: the goroutines run; a drain under way goes on because `publishTimeout`
  bounds its publication; strong fairness of `PublishAcked` is the assumption
  that a broker that keeps being offered a record acknowledges at last. Without
  it nothing leaves while the broker is away, except by pruning.
* MqttClient: the goroutines run; `writeMu` is a `sync.Mutex`, which lets no
  waiter starve (strong fairness of `LockToWrite`); a write ends or passes its
  deadline; the timer of a wait fires. Nothing is asked of broker or network.
* KeepAlive: time passes, `pingLoop` runs and gets the lock at last, deadlines are
  kept by the runtime. Nobody else has to write, and TCP need not give up.
* Availability: the goroutines run; both ends notice a broken connection in the
  end; a dial that is repeated for ever succeeds at last; the poll of
  `WaitConnected` fires. No fairness of signals, kills or restarts.
* Collector: commands and requests end (they have timeouts); `cliMu` is fair; a
  `select` that finds both the ticker and the end of its context does not choose
  the ticker for ever.
* Supervisor: the goroutines run, a killed child dies and is reaped, a serve ends
  up with the port or without it, and a program that is started again and again
  starts at last. Nothing makes a process end, or a serve fail.

## 4. Findings

1. **Exceeding the byte limit empties the spool** (`spool.go:222`,
   `Spool_byte_limit`). `file.Info()` is asked after `os.Remove(file)`; on Unix
   it fails, `total` never falls, and the loop removes every file. While the byte
   limit is not exceeded pruning takes no more than it must (`KeepsWhatFits`).
2. **A signal during a dial leaves the node online** (`app.go:158`,
   `Availability_stale_online`): `offline` fails with `ErrNotConnected`, the dial
   returns, the callback writes `online`, the DISCONNECT discards the will.
3. **A torn packet is completed by the next one** (`client.go:373`,
   `Publication_torn_packet`): over plain TCP, a write that passes its deadline part
   way releases `writeMu` before `fail` clears `connected`; another goroutine may
   write in between, and the broker reads the torn packet with the bytes of the
   other. `crypto/tls` refuses every write after one that timed out, so TLS
   connections are safe, which `Publication_wire` shows.

Known limits that the models show and no run asks for:

* A clock that steps back breaks FIFO (`spool.go:256`): `ReplayedInOrder` fails with
  `ClockMonotone = FALSE`, and the theorems that need the assumption say so.
* A file whose `Info` fails is passed over without an error (`spool.go:242`), and a
  crash of the host may undo a renaming (`spool.go:82`) or a removal (`spool.go:112`).
  Such a record, a stray, is replayed behind later ones; an old snapshot may then be
  the one the broker retains; and the directory may exceed the limits by the strays.
* A corrupt file that cannot be removed is counted at each listing (`spool.go:148`),
  so that `dropped` exceeds the loss, and keeps `peekUnlockedRetry` calling itself.
* The beacon's `topic_contract.events` and `.snapshots` (`discovery.go:48`) are no
  patterns: `joinTopic` makes plain words of `<kind>` and `<scope>`, where
  docs/topic-contract.md:10 and :11 have the placeholders. A consumer who reads a
  word as a topic level finds nothing there.
* A write that fails part way leaves a temporary file that no limit counts
  (`spool.go:79`; `tmps`).
* `doctor` announces `online` and leaves without `offline` (`doctor.go:97`):
  `GracefulOffline` excludes it.
* `cliMu` is released before `Enqueue` (`jobs.go:227`), so two observations of one
  snapshot topic may overtake: `Collector!SnapshotsInOrder` states what does not
  hold.
* A record pruned while in flight is delivered and counted as dropped, so that
  `dropped` may exceed the loss. At QoS 0, which `Validate` accepts, a record
  written to a dying connection is removed and not counted.
* Two processes of one node (agent and `once`) displace each other's session as long
  as both run; their CLI runs are not serialised, since `cliMu` belongs to a process.
* With identifiers that wrap onto one in flight (`IdsOutrun`), `NilMeansAccepted` and
  `NoLostWaiter` fail: 65535 publications within one timeout.
* A provider setting that is blank or holds a slash lets two fleets write to one
  topic: `usage_provider: x/nodes/b/meta` is taken apart by `joinTopic`, and a blank
  one leaves no segment behind. `Validate` (`config.go:237`) looks at no provider.
  TLC breaks `FleetsApart` with such a scope; its theorem assumes `ScopesAreNames`,
  that every scope is one segment and more than blanks.
* The limits of keep-alive and supervisor named in section 2.

## 5. Theorems

For every value of the constants that satisfies the modules' assumptions and the
column "assumes": any set of drainers, topics and batches, publishers, places and
commands, providers and rounds, processes and serves, keep-alives and durations,
texts and payloads of any length that fits a packet, and any limit or bound.

| Theorem | States | Assumes |
|---|---|---|
| `SpoolProofs!TypeCorrect` | `Spec => []TypeOK` | |
| `SpoolProofs!LossIsCounted` | `Spec => []NoSilentLoss` | `QoS = 1` |
| `SpoolProofs!LimitsHold` | `Spec => []WithinLimits` | |
| `SpoolProofs!KeepsWhatFitsIn` | `Spec => KeepsWhatFits` | |
| `SpoolProofs!OrderInvariant` | `Spec => []OrderInv` | `ClockMonotone` |
| `SpoolProofs!ReplayInOrder` | `Spec => ReplayedInOrder` | `ClockMonotone` |
| `SpoolProofs!HolesSuperseded` | `Spec => []HolesAreSuperseded` | `ClockMonotone` |
| `SpoolProofs!LatestRetained` | `Spec => []RetainedIsLatest` | `ClockMonotone` |
| `SpoolProofs!Implements` | `Spec => KeepsPromise` | `ClockMonotone` |
| `MqttClientProofs!ClientTypeCorrect` | `Spec => []TypeOK` | |
| `MqttClientProofs!PendingOwned` | `Spec => []PendingIsOwned` | |
| `MqttClientProofs!WaitersReached` | `Spec => []NoLostWaiter` | `~IdsOutrun` |
| `MqttClientProofs!NilIsAccepted` | `Spec => []NilMeansAccepted` | `~IdsOutrun` |
| `KeepAliveProofs!TypeCorrect` | `Spec => []TypeOK` | |
| `KeepAliveProofs!TimingInvariant` | `Spec => []TimingInv` | |
| `KeepAliveProofs!DeadlineMoves` | `Spec => []DeadlineIsMoved` | |
| `KeepAliveProofs!BrokerWaits` | `Spec => []BrokerIsPatient` | |
| `AvailabilityProofs!TypeCorrect` | `Spec => []TypeOK` | |
| `AvailabilityProofs!OfflineOnLeaving` | `Spec => []GracefulOffline` | |
| `CollectorProofs!TypeCorrect` | `Spec => []TypeOK` | |
| `CollectorProofs!RunsApart` | `Spec => []CliRunsApart` | |
| `CollectorProofs!CostIsBracketed` | `Spec => []Bracketed` | |
| `CollectorProofs!HealthTold` | `Spec => []HealthIsHonest` | |
| `CollectorProofs!RoundsAccountedFor` | `Spec => []AccountedFor` | |
| `SupervisorProofs!TypeCorrect` | `Spec => []TypeOK` | |
| `SupervisorProofs!NoStrayServe` | `Spec => []ChildrenAreWaitedFor` | |
| `PublicationProofs!TypeCorrect` | `Spec => []TypeOK` | |
| `PublicationProofs!IdAlwaysAccepted` | `Spec => []IdIsAccepted` | |
| `PublicationProofs!BeaconLeads` | `Spec => []BeaconLeadsToTopics` | |
| `PublicationProofs!FleetsStayApart` | `Spec => []FleetsApart` | `ScopesAreNames` |
| `NamingProofs!BeaconsMeet` | two nodes with a common topic have one beacon topic | `ScopesAreNames` |
| `PublicationProofs!RoundTrip` | `readPacket` and `parsePublish` undo `encodePublish`, whatever follows | a message that can be encoded |
| `PublicationProofs!WireInvariant` | `Spec => [](TypeInv /\ WireInv)` | `~Plain` |
| `PublicationProofs!WholeFrames` | `Spec => []FramesAreWhole` | `~Plain` |
| `PublicationProofs!NothingStuck` | `Spec => []NothingHeldBack` | `~Plain` |

The assumptions are needed: TLC breaks the order with a clock that steps back, a
wrapped identifier misleads a waiter, a scope with a slash makes fleets meet, and over plain TCP the broker reads a torn
packet (`Publication_torn_packet`). The spool's theorems hold with and without
faults, with one drainer or many, and make no exception but for strays.

*Loss.* `NoSilentLoss` is not inductive: that `RemoveSent` loses nothing needs
`RemovesReceived`, that a drainer about to remove a record has had it received.
Lemma `Counted` then says that a step which adds at most the set `T` of files to
the loss and `Cardinality(T)` to the counter keeps the inequality; `Prune`,
`PruneFails` and `PeekDrops` are its uses, and `NothingLost` covers the other steps.

*Limits.* `Bytes` is a fold over a set, so `Total` restates it by a table over all
subsets (`Totals`). That a table exists, that two agree, that an element may be taken
out anywhere and that fewer files weigh no more are shown for a minimal set where it
fails (`MinimalSubset`) instead of by induction. `WithinLimits` then follows from
`Kept` fitting (`KeptFits`, `PruneFits`) and from steps that only remove or set aside
(`FewerFit`). `KeepsWhatFits` rests on `CutFromTheFront`: the second loop removes a file
only with all older ones of its listing and, while the bytes are in range, only if the
files from it on are too many.

*Order.* `OrderInv` has three conjuncts: `Serial` (only the holder of `drainMu` is
inside `Drain`), `NamedByArrival` (the listing's order is the order of arrival)
and `Ahead` (everything spooled or in flight is at least as new as all that was
received, and a record in flight is at least as old as every file), each but for
strays.
Without `Serial` a second drainer could hold an old record; without
`NamedByArrival` the least name need not be the oldest; `Ahead` is what
`ReplayedInOrder` reads off.

*Holes.* `GivesUp` says what a step may take away: obsolete snapshots, and records
older than all that is left, strays apart. Pruning, `peek` and `RemoveSent` do no
more (`PruneGivesUp` with `CutBelow`, `PeekGivesUp`, `SentGivesUp`), and such a step
leaves no other holes (`HolesKept`), because the newest snapshot that supersedes a
record (`NewestSuperseding`, from `GreatestExists`) is not obsolete itself.

*Retained.* `RetainedIsLatest` is inductive relative to `OrderInv`, by which what is
published is no older than anything received or is a stray (`RetainedStep`).

*Promise.* `StepImplements` maps each step: an enqueued record to `Accept`, pruning
and every listing of `peek` to one `Discard` (`Discards`, from `GivesUp`), a
publication the broker receives to `Deliver` (`Delivers`, from `OrderInv`),
`RemoveSent` to `Confirm` or nothing (`Confirms`, from `ConfirmedInv`: at QoS 1 what
is removed has been received), a crash to `Relapse`, the rest to stutters.

*Waiters.* Lemma `RegistrySteps` sorts the steps into registrations, returns,
`NotifyPending` and those that do not touch the publications. `Reachable` is the
strengthening: until `fail` tells the waiters, `pending` leads to every publication
at QoS 1 (`Registered`); afterwards each that writes or waits has its result
(`Told`). The step between the two is `NotifyPending`; a publication that registers
after it never gets past `writePacket`, whose look at `connected` closes the gap.

*Acknowledgements.* `Acknowledged` follows the identifier around: a packet on its
way agrees with `pending` (`PacketsFit`), so the PUBACK made from it does
(`AnswersFit`), so the result that `readLoop` carries and leaves in a channel does
(`ResultsFit`). `UpIsOpen` is needed where a packet is written: an open socket
means that `pending` is still whole.

*Timers.* `TimingInv` is an account of time while the connection works.
`PingOnTime` bounds how far a PINGREQ is behind its tick, by the writers counted in
`ahead` and the time the one at work has had; `TickOnTime` adds what is left to the
next tick to the time since the last; `HeardOfLate` bounds the broker's silence by
the interval plus that delay. `ClosedInv` and `CauseInv` carry what a failure owes
to it over to the failed connection.

*Offline.* `LeavingInv` says that a DISCONNECT is the last packet on the wire
(`DisconnectIsLast`) and that, while `smooth` names a process, `SmoothAt` holds of
it: it is still on its connection or its manager has stopped, nobody else has the
session, and from `PublishOffline` on whatever is on the wire, or else the retained
message, ends in `offline` (`SaysOffline`). `online` of the same process cannot come
behind it because its manager is past the callback.

*Jobs.* `ApartInv` is about all collections that are complete, stored or not
(`Taken`), and says that one under way began after each of them that used the CLI:
`cliMu` is held from start to end. `CycleInv` says that what the cycle has stored
in this round is of no later phase than where it is and ended before that began.
`HealthInv` says what `errs` knows at each point of a round. `AccountInv` counts by
step: a collection behind the job's step has exactly its records in the queue
(`Accounted`, from `RecordsExact`), one that is still to come has none (`Absent`);
the distinct providers are what keeps two collections of a round apart.

*Serves.* `ChildrenAreWaitedFor` is inductive relative to `TypeOK`, whose part `cmd[a]
# 0 <=> sup[a] = "wait"` says that nothing is started while a child is waited for.

*Identifier.* What `Load` makes is trimmed at both ends (`Trimmed`, from the first and
the last character that stays), cut, and matched against the pattern character by
character (`IdMatches`).

*Topics.* `NamingProofs` first gives the folds their equations: `FlattenSeq` reads a
table over the lengths, `Split` one over sets of indices, and that the tables exist
and agree is shown by a least length without one (`FlatAt`, `SplitGoesOn`). What holds
of every text follows from the empty one and from one more character at the end
(`Growing`, about a set of texts instead of a predicate, from a shortest one outside it).
Then: `Split` undoes `Join` on segments without slashes (`SplitJoin`); `clean` goes
segment by segment and leaves neither an empty one nor one with a slash
(`SegmentType`, `PartType`); a topic is the join of the segments of its parts. So
`SegmentsTold`: two topics are equal only if their segments are. Those of a node have
one of three forms (`TopicForms`: state, event, snapshot) that end in different words
or lengths, so that topics of two forms never coincide (`FormsDiffer`), and in one form
prefix and machine can be read off from the end (`FormSame`), whatever words the
prefix itself holds. That is `BeaconsMeet`. For `BeaconLeads`, `BeaconEnds` says that
the beacon's topic ends in the machine segment and `BelowPrefix` that every topic
goes on from the normalised prefix. Both theorems need only that the configuration is
one that `Load` made (`LoadedByLoad`). That the beacon's prefix may be normalised on
its own and again inside each topic rests on `CleanTwice`: `clean` changes nothing of
what it has cleaned, since `TopicSegment` leaves the segments alone that it has made
(`Tidy`); `BranchText` then spells out what the beacon says of events and snapshots.

*Codec.* `appendVarInt` and `readVarInt` are recursive functions. A recursive function
defined over the naturals has its equations only if one exists: `TablesExist` builds it
from tables up to `n`, by a least `n` without one. `Written` gives the one to four
digits of a length, `ReadVarInt` reads them back, `WholePacket` takes a packet off the
front of what follows it (it is no longer than `MaxPacketSize`, the assumption of
`Message`), and `PublishParsed` takes its body apart. Together they are
`RoundTrip`. `PartPacket` is the other half: of a strict prefix of a packet
`readPacket` says that it is short, so the broker waits instead of misreading.

*Wire.* `Framed` says that the unread bytes, with an `x` that is missing, are the
encodings of the packets from the last one read to the `k`-th, one behind the other
(`tails` is what follows each). While no write has failed, `k` is the last written and
`x` is what the holder of `writeMu` has still to write (`Ready`); a failed write freezes
both, since nothing is written afterwards. That is where `~Plain` comes in.
`BrokerReadsNext` then makes of `RoundTrip` that the broker reads exactly the next
packet, and `HeardInOrder` adds them up.

Model-checked only: all liveness (`EventuallyLeaves`, `EveryCallReturns`,
`DeathIsNoticed`, `CutIsNoticed`, `EventuallyOnline`, `CrashIsSeen`,
`ConnectionIsNoticed`, `JobsEnd`, `EndsAfterCancel`, `ServedAgain`), which is out of
the prover's reach; every invariant and every action property of a passing run has its
theorem. The library's induction theorems are out of reach too; where a proof here
needs induction over data it takes a least or minimal counterexample, or an induction
about a set.

## 6. Not modelled

* `Subscribe` and inbound PUBLISH: the agent subscribes to nothing. Of CONNECT only
  the will and the keep-alive appear; broker URLs, TLS settings and reason
  codes do not.
* The values of the backoffs of manager and supervisor: a wait is a step.
* That `peekUnlockedRetry` ends: a corrupt file that can never be removed keeps it
  going (`PeekKeeps`, without fairness and bounded).
* A panic inside a job, and a command whose descendant keeps its pipe open after it
  was killed (`runner.go:80`): both would keep `cliMu`. `JobsEnd` assumes that
  `RunJSON` returns.
* Duplicates in `ActiveAccountProbeProviders`, which give two jobs of one name.
* `RunOnce`'s sequential order of jobs, which is one of the interleavings checked.
* Two processes over one spool directory (`once` or `doctor` beside the agent):
  each has locks of its own, so the order of replay is not protected.
* The heartbeat, which reads `Stats` and job states and publishes them, beyond the
  states themselves. A broker that refuses `online`: `onMQTTConnect` only logs it.
* The other settings of the configuration (they are the constants of the modules),
  the check that `codexbar.base_url` and the serve's port agree (there is none),
  marshalling of envelopes, logging, parsing of CLI output, packaging: data and I/O.

## 7. Plan

Done, in this order: `Spool`, its proofs, `MqttClient`, `Availability`, `Collector`,
the proofs of `MqttClient`; `SpoolPromise`, `KeepAlive`, `Supervisor`, `Naming`,
`Codec` and `Publication`; several processes in `Availability`, outcomes and records
in `Collector`; the proofs of the refinement, of `Availability`, `Collector`,
`Supervisor` and `KeepAlive`; of the limits of the spool, of the accounts of a round, of
the identifier, the codec and the wire, of the topics and the beacon.

Left, in the order of their worth:

1. Two processes over one spool directory, with the properties that survive it
   (loss and limits) and those that do not (order).
2. `Agent`: `Collector` composed with `SpoolPromise` and the heartbeat, which the
   refinement makes small enough to check.
