------------------------------- MODULE Spool -------------------------------
(***************************************************************************)
(* The bounded on-disk spool, internal/spool/spool.go.                     *)
(*                                                                         *)
(* A Queue is a directory of "<id>.json" files.  Enqueue writes a batch    *)
(* under mu and then prunes to the limits; Drain publishes the file with   *)
(* the least name and removes it once the broker has acknowledged it.      *)
(* Drain holds drainMu throughout but mu only while it lists or removes,   *)
(* so an Enqueue and its pruning may run while a publication is in flight. *)
(*                                                                         *)
(* Records are numbered by arrival: log[i] is the i-th record renamed into *)
(* place, and the directory is the set of the numbers it still holds.      *)
(***************************************************************************)
EXTENDS Integers, Sequences, FiniteSets, FiniteSetsExt

CONSTANTS
    Drainers,       \* goroutines that call Drain
    NoDrainer,      \* drainMu is free
    Topics,         \* topics of the records
    Batches,        \* batches handed to Enqueue: sequences of Payload
    MaxMessages,    \* Queue.maxMessages
    MaxBytes,       \* Queue.maxBytes
    QoS,            \* Record.QoS, the same for every record: mqtt.qos
    ClockMonotone,  \* does the wall clock that newID reads never step back?
    IOFaults,       \* may file-system calls fail?
    MaxRecords,     \* bound of the exploration: records ever enqueued
    MaxCrashes,     \* bound of the exploration: crashes
    MaxTmps,        \* bound of the exploration: abandoned temporary files
    MaxStrays,      \* bound of the exploration: records in strays
    MaxUndone,      \* bound of the exploration: records one crash damages
    MaxMiscounts    \* bound of the exploration: records dropped counts twice

\* What pruning can tell about a record: snap stands for
\* Retain \/ Class = "snapshot", size for the length of the file.
Payload == [topic : Topics, snap : BOOLEAN, size : Nat \ {0}]

ASSUME DrainersAssumption == NoDrainer \notin Drainers
ASSUME LimitsAssumption == MaxMessages \in Nat \ {0} /\ MaxBytes \in Nat \ {0}
ASSUME QoSAssumption == QoS \in {0, 1}
ASSUME BatchesAssumption == Batches \subseteq Seq(Payload)
ASSUME FlagsAssumption == {ClockMonotone, IOFaults} \subseteq BOOLEAN
ASSUME BoundsAssumption ==
    {MaxRecords, MaxCrashes, MaxTmps, MaxStrays, MaxUndone, MaxMiscounts} \subseteq Nat

VARIABLES
    log,       \* every record renamed into place, by arrival, with its name
    files,     \* the "*.json" files in the directory
    corrupt,   \* the files whose contents no longer parse
    tmps,      \* abandoned ".<id>.json.tmp" files
    mu,        \* Queue.mu: "free", "enqueue" while an Enqueue runs, or "peek"
               \* while peek goes on after an unreadable record
    todo,      \* the part of that Enqueue's batch not yet written
    failed,    \* the last Enqueue begun has not returned nil
    drainMu,   \* the drainer that holds Queue.drainMu, or NoDrainer
    pc,        \* where each drainer is in Drain
    flight,    \* the record each drainer read in peek, 0 for none
    dropped,   \* Queue.dropped: in memory, restarts at 0
    received,  \* history: records the broker has received
    lastSent,  \* history: the record the broker received last, 0 for none
    retained,  \* the broker's retained record of each topic, 0 for none
    base,      \* history: records lost before this process started
    crashes,   \* history: number of crashes
    strays     \* history: records that a listing passed over because Info
               \* failed, or whose renaming or removal a crash has undone

disk == <<log, files, corrupt, tmps>>
enqVars == <<mu, todo, failed>>
drainVars == <<drainMu, pc, flight>>
broker == <<received, lastSent, retained>>
restarts == <<base, crashes>>
vars == <<disk, enqVars, drainVars, dropped, broker, restarts, strays>>

-----------------------------------------------------------------------------
(* The directory: listing order, limits, pruning.                          *)

Name(i) == log[i].name

Bytes(S) == MapThenSumSet(LAMBDA i : log[i].size, S)

\* The limits pruneLocked checks on len(files) and total.
Fits(S) == Cardinality(S) <= MaxMessages /\ Bytes(S) <= MaxBytes

\* The files of the listing S that are sorted before f, or behind it, with f.
UpTo(S, f) == {g \in S : Name(g) <= Name(f)}
From(S, f) == {g \in S : Name(g) >= Name(f)}

\* listLocked leaves out, without an error, the files H whose Info fails: they
\* are neither counted nor replayed nor pruned.
Skips(H) ==
    /\ H = {} \/ IOFaults
    /\ strays' = strays \cup H
    /\ Cardinality(strays') <= MaxStrays

\* Variant of Obsolete: latestByTopic keeps the first name instead of the last.
ObsoleteFirst ==
    {i \in files \ corrupt :
        /\ log[i].snap
        /\ \E j \in files \ corrupt :
              log[j].snap /\ log[j].topic = log[i].topic /\ Name(j) < Name(i)}

\* The snapshots that parse and are not the last named of their topic.
Obsolete ==
    {i \in files \ corrupt :
        /\ log[i].snap
        /\ \E j \in files \ corrupt :
              log[j].snap /\ log[j].topic = log[i].topic /\ Name(j) > Name(i)}

\* Variants a test should tell from Kept below: the loop stops one record too
\* early, or one too late.
KeptOneMore(S) ==
    IF Bytes(S) > MaxBytes THEN {}
    ELSE {f \in S : Cardinality(From(S, f)) <= MaxMessages + 1}
KeptOneLess(S) ==
    IF Bytes(S) > MaxBytes THEN {}
    ELSE {f \in S : Cardinality(From(S, f)) < MaxMessages}

\* What the second loop of pruneLocked leaves of the listing S.  It removes from
\* the front while len(files) or total is out of range.  total never falls: the
\* Info of a file just removed asks the file system for it and fails.
Kept(S) ==
    IF Bytes(S) > MaxBytes THEN {}
    ELSE {f \in S : Cardinality(From(S, f)) <= MaxMessages}

\* The files pruneLocked removes: the first loop passes over a file that it
\* fails to list, to read or to remove (skipped); the second lists again,
\* without the files H, and returns at a file that it fails to remove (stuck).
\* A process that stops in the middle is a pruning that gets stuck.
Coalesced(skipped) == Obsolete \ skipped
Rest(skipped, H) == (files \ Coalesced(skipped)) \ H
Cut(skipped, H, stuck) ==
    LET rest == Rest(skipped, H)
    IN  {f \in rest \ Kept(rest) : UpTo(rest, f) \cap stuck = {}}

\* The choices that matter during one pruneLocked: any obsolete files, and at
\* most the first file that cannot be removed.
Skipping == {S \in SUBSET Obsolete : IOFaults \/ S = {}}
Sticking == IF IOFaults THEN {{}} \cup {{f} : f \in files} ELSE {{}}

\* The files S leave the directory and are counted.
Drop(S) ==
    /\ files' = files \ S
    /\ corrupt' = corrupt \ S
    /\ dropped' = dropped + Cardinality(S)

\* Records the spool no longer holds and the broker never got.
Gone == (DOMAIN log \ files) \ received

\* newID: wall clock, then random bytes.  Names are never reused, and follow
\* arrival only while the clock does not step back.
newID ==
    IF ClockMonotone THEN {Len(log) + 1}
    ELSE (1 .. MaxRecords) \ {Name(i) : i \in DOMAIN log}

-----------------------------------------------------------------------------
Init ==
    /\ log = <<>> /\ files = {} /\ corrupt = {} /\ tmps = 0
    /\ mu = "free" /\ todo = <<>> /\ failed = FALSE
    /\ drainMu = NoDrainer
    /\ pc = [d \in Drainers |-> "idle"]
    /\ flight = [d \in Drainers |-> 0]
    /\ dropped = 0
    /\ received = {} /\ lastSent = 0 /\ retained = [t \in Topics |-> 0]
    /\ base = {} /\ crashes = 0 /\ strays = {}

-----------------------------------------------------------------------------
(* Enqueue.                                                                *)

EnqueueStart(b) ==
    /\ mu = "free"
    /\ Len(log) + Len(b) <= MaxRecords
    /\ mu' = "enqueue" /\ todo' = b /\ failed' = TRUE
    /\ UNCHANGED <<disk, drainVars, dropped, broker, restarts, strays>>

\* One turn of the loop of Enqueue: WriteFile and Rename both succeed.
WriteRecord(n) ==
    /\ mu = "enqueue" /\ todo # <<>>
    /\ log' = Append(log, [name |-> n, topic |-> Head(todo).topic,
                           snap |-> Head(todo).snap, size |-> Head(todo).size])
    /\ files' = files \cup {Len(log) + 1}
    /\ todo' = Tail(todo)
    /\ UNCHANGED <<corrupt, tmps, mu, failed, drainVars, dropped, broker, restarts, strays>>

\* WriteFile fails, and its temporary file may stay behind; or Rename fails,
\* and it is removed.  Enqueue returns without writing the rest or pruning.
WriteFails(leak) ==
    /\ IOFaults
    /\ mu = "enqueue" /\ todo # <<>>
    /\ tmps + leak <= MaxTmps
    /\ tmps' = tmps + leak
    /\ mu' = "free" /\ todo' = <<>>
    /\ UNCHANGED <<log, files, corrupt, failed, drainVars, dropped, broker, restarts, strays>>

\* The batch is written: pruneLocked, then Enqueue returns.
Pruning ==
    /\ mu = "enqueue" /\ todo = <<>>
    /\ mu' = "free"
    /\ UNCHANGED <<log, tmps, todo, drainVars, broker, restarts>>

\* What the first listing shows is within the limits.
PruneNothing(H) ==
    /\ Pruning
    /\ Skips(H) /\ Fits(files \ H)
    /\ failed' = FALSE
    /\ UNCHANGED <<files, corrupt, dropped>>

\* Obsolete snapshots go, then the oldest of what is listed.
Prune(skipped, H, stuck) ==
    /\ Pruning
    /\ ~Fits(files)
    /\ Skips(H)
    /\ Drop(Coalesced(skipped) \cup Cut(skipped, H, stuck))
    /\ LET rest == Rest(skipped, H)
       IN  failed' = ((rest \ Kept(rest)) \cap stuck # {})

\* The first listing fails, or the second one after the coalescing.
PruneFails(skipped) ==
    /\ IOFaults
    /\ Pruning
    /\ Coalesced(skipped) = {} \/ ~Fits(files)
    /\ Drop(Coalesced(skipped))
    /\ UNCHANGED <<failed, strays>>

-----------------------------------------------------------------------------
(* Drain.                                                                  *)

\* Variant of Release: the record read by peek survives the return.
ReleaseKeepsFlight(d) ==
    /\ drainMu' = NoDrainer
    /\ pc' = [pc EXCEPT ![d] = "idle"]
    /\ UNCHANGED flight

\* Drain returns.
Release(d) ==
    /\ drainMu' = NoDrainer
    /\ pc' = [pc EXCEPT ![d] = "idle"]
    /\ flight' = [flight EXCEPT ![d] = 0]

\* Variant of DrainStart: drains of two goroutines are not serialised.
DrainStartUnlocked(d) ==
    /\ pc[d] = "idle"
    /\ drainMu' = d
    /\ pc' = [pc EXCEPT ![d] = "peek"]
    /\ UNCHANGED <<disk, enqVars, flight, dropped, broker, restarts, strays>>

DrainStart(d) ==
    /\ pc[d] = "idle" /\ drainMu = NoDrainer
    /\ drainMu' = d
    /\ pc' = [pc EXCEPT ![d] = "peek"]
    /\ UNCHANGED <<disk, enqVars, flight, dropped, broker, restarts, strays>>

\* The next listing of peek: the first one takes mu, which peek keeps while it
\* drops unreadable records.
Peeking(d) ==
    /\ \/ pc[d] = "peek" /\ mu = "free"
       \/ pc[d] = "retry" /\ mu = "peek"
    /\ UNCHANGED <<log, tmps, todo, failed, broker, restarts>>

\* files[0] is f: any older file is passed over.
ListsFirst(f) == Skips(UpTo(files, f) \ {f})

\* The first file listed parses.
Peek(d, f) ==
    /\ Peeking(d)
    /\ f \in files \ corrupt /\ ListsFirst(f)
    /\ mu' = "free"
    /\ pc' = [pc EXCEPT ![d] = "publish"]
    /\ flight' = [flight EXCEPT ![d] = f]
    /\ UNCHANGED <<files, corrupt, dropped, drainMu>>

\* It does not: peek removes and counts it and lists again.
PeekDrops(d, f) ==
    /\ Peeking(d)
    /\ f \in corrupt /\ ListsFirst(f)
    /\ Drop({f})
    /\ mu' = "peek"
    /\ pc' = [pc EXCEPT ![d] = "retry"]
    /\ UNCHANGED <<drainMu, flight>>

\* Its removal fails: it is counted all the same, and listed again.
PeekKeeps(d, f) ==
    /\ IOFaults
    /\ dropped < Cardinality(Gone \ base) + MaxMiscounts
    /\ Peeking(d)
    /\ f \in corrupt /\ ListsFirst(f)
    /\ dropped' = dropped + 1
    /\ mu' = "peek"
    /\ pc' = [pc EXCEPT ![d] = "retry"]
    /\ UNCHANGED <<files, corrupt, drainMu, flight>>

\* Nothing is listed, or listing or reading fails: Drain returns.
PeekEnds(d) ==
    /\ Peeking(d)
    /\ files = {} \/ IOFaults
    /\ mu' = "free"
    /\ Release(d)
    /\ UNCHANGED <<files, corrupt, dropped, strays>>

\* The broker receives record i; it retains the last snapshot of each topic.
Receive(i) ==
    /\ received' = received \cup {i}
    /\ lastSent' = i
    /\ retained' = IF log[i].snap THEN [retained EXCEPT ![log[i].topic] = i]
                   ELSE retained

\* The record arrives and Publish returns nil: at QoS 1 once the PUBACK is in.
PublishAcked(d) ==
    /\ pc[d] = "publish"
    /\ Receive(flight[d])
    /\ pc' = [pc EXCEPT ![d] = "remove"]
    /\ UNCHANGED <<disk, enqVars, drainMu, flight, dropped, restarts, strays>>

\* At QoS 0 Publish returns nil once the packet is written, though the
\* connection may fail before the broker reads it.
PublishWritten(d) ==
    /\ QoS = 0
    /\ pc[d] = "publish"
    /\ pc' = [pc EXCEPT ![d] = "remove"]
    /\ UNCHANGED <<disk, enqVars, drainMu, flight, dropped, broker, restarts, strays>>

\* The record arrives but its acknowledgement does not: timeout or lost
\* connection.  Drain returns the error and the file stays.
PublishUnacked(d) ==
    /\ pc[d] = "publish"
    /\ Receive(flight[d])
    /\ Release(d)
    /\ UNCHANGED <<disk, enqVars, dropped, restarts, strays>>

\* Variants of PublishFails: the error of Publish is ignored; Drain returns
\* with drainMu locked.
PublishFailsIgnored(d) ==
    /\ pc[d] = "publish"
    /\ pc' = [pc EXCEPT ![d] = "remove"]
    /\ UNCHANGED <<disk, enqVars, drainMu, flight, dropped, broker, restarts, strays>>
PublishFailsLocked(d) ==
    /\ pc[d] = "publish"
    /\ pc' = [pc EXCEPT ![d] = "idle"]
    /\ flight' = [flight EXCEPT ![d] = 0]
    /\ UNCHANGED <<disk, enqVars, drainMu, dropped, broker, restarts, strays>>

\* Nothing arrives, or the broker refuses the record.
PublishFails(d) ==
    /\ pc[d] = "publish"
    /\ Release(d)
    /\ UNCHANGED <<disk, enqVars, dropped, broker, restarts, strays>>

\* os.Remove after the acknowledgement; a file that is already gone is fine.
RemoveSent(d) ==
    /\ pc[d] = "remove" /\ mu = "free"
    /\ files' = files \ {flight[d]}
    /\ corrupt' = corrupt \ {flight[d]}
    /\ pc' = [pc EXCEPT ![d] = "peek"]
    /\ flight' = [flight EXCEPT ![d] = 0]
    /\ UNCHANGED <<log, tmps, enqVars, drainMu, dropped, broker, restarts, strays>>

RemoveFails(d) ==
    /\ IOFaults
    /\ pc[d] = "remove" /\ mu = "free" /\ flight[d] \in files
    /\ Release(d)
    /\ UNCHANGED <<disk, enqVars, dropped, broker, restarts, strays>>

-----------------------------------------------------------------------------
\* The host stops and the agent starts again with New, which looks at no file.
\* Nothing is synced: the contents of a file (bad), its renaming into place
\* (lost) or its removal (back) may be undone.  An Enqueue cut between WriteFile
\* and Rename leaves its temporary file, and so may a renaming undone.
Crash(lost, back, bad, leak) ==
    /\ crashes < MaxCrashes
    /\ leak = 0 \/ ((lost # {} \/ (mu = "enqueue" /\ todo # <<>>)) /\ tmps < MaxTmps)
    /\ crashes' = crashes + 1
    /\ strays' = strays \cup lost \cup back
    /\ Cardinality(strays') <= MaxStrays
    /\ files' = (files \ lost) \cup back
    /\ bad \subseteq files'
    /\ Cardinality(lost \cup back \cup bad) <= MaxUndone
    /\ corrupt' = (corrupt \ lost) \cup bad
    /\ tmps' = tmps + leak
    /\ mu' = "free" /\ todo' = <<>>
    /\ drainMu' = NoDrainer
    /\ pc' = [d \in Drainers |-> "idle"]
    /\ flight' = [d \in Drainers |-> 0]
    /\ dropped' = 0
    /\ base' = (DOMAIN log \ files') \ received
    /\ UNCHANGED <<log, failed, broker>>

-----------------------------------------------------------------------------
Enqueue ==
    \/ \E b \in Batches : EnqueueStart(b)
    \/ \E n \in newID : WriteRecord(n)
    \/ \E leak \in {0, 1} : WriteFails(leak)
    \/ \E H \in SUBSET files : PruneNothing(H)
    \/ \E skipped \in Skipping, stuck \in Sticking :
          \E H \in SUBSET (files \ Coalesced(skipped)) : Prune(skipped, H, stuck)
    \/ \E skipped \in Skipping : PruneFails(skipped)

Drain(d) ==
    \/ DrainStart(d)
    \/ \E f \in files : Peek(d, f) \/ PeekDrops(d, f) \/ PeekKeeps(d, f)
    \/ PeekEnds(d)
    \/ PublishAcked(d)
    \/ PublishWritten(d)
    \/ PublishUnacked(d)
    \/ PublishFails(d)
    \/ RemoveSent(d)
    \/ RemoveFails(d)

Next ==
    \/ Enqueue
    \/ \E d \in Drainers : Drain(d)
    \/ \E lost \in SUBSET files, back \in SUBSET (DOMAIN log \ files),
          bad \in SUBSET DOMAIN log, leak \in {0, 1} : Crash(lost, back, bad, leak)

Spec == Init /\ [][Next]_vars

\* An Enqueue runs to its end; drainLoop calls Drain every second; a drain
\* under way goes on, its publication bounded by publishTimeout; and a broker
\* that keeps being offered records acknowledges one at last.
Fairness ==
    /\ WF_vars(\E n \in newID : WriteRecord(n))
    /\ WF_vars(\/ \E H \in SUBSET files : PruneNothing(H)
               \/ \E skipped \in Skipping, stuck \in Sticking :
                     \E H \in SUBSET (files \ Coalesced(skipped)) : Prune(skipped, H, stuck))
    /\ WF_vars(\E d \in Drainers : DrainStart(d))
    /\ \A d \in Drainers :
         /\ WF_vars((\E f \in files : Peek(d, f) \/ PeekDrops(d, f)) \/ PeekEnds(d))
         /\ WF_vars(PublishAcked(d) \/ PublishUnacked(d) \/ PublishFails(d))
         /\ SF_vars(PublishAcked(d))
         /\ WF_vars(RemoveSent(d))

FairSpec == Spec /\ Fairness
-----------------------------------------------------------------------------
(* Properties.                                                             *)

LogEntry ==
    [name : Nat, topic : Topics, snap : BOOLEAN, size : Nat \ {0}]

\* The type invariant: the directory lists only records that were renamed into
\* place, a corrupt file is in the directory, and a drainer past peek carries a
\* record.
TypeOK ==
    /\ log \in Seq(LogEntry)
    /\ files \subseteq DOMAIN log /\ corrupt \subseteq files
    /\ tmps \in 0 .. MaxTmps
    /\ mu \in {"free", "enqueue", "peek"}
    /\ todo \in Seq(Payload)
    /\ failed \in BOOLEAN
    /\ drainMu \in Drainers \cup {NoDrainer}
    /\ pc \in [Drainers -> {"idle", "peek", "retry", "publish", "remove"}]
    /\ flight \in [Drainers -> DOMAIN log \cup {0}]
    /\ \A d \in Drainers : flight[d] = 0 <=> pc[d] \in {"idle", "peek", "retry"}
    /\ dropped \in Nat
    /\ received \subseteq DOMAIN log
    /\ lastSent \in DOMAIN log \cup {0}
    /\ retained \in [Topics -> DOMAIN log \cup {0}]
    /\ base \subseteq DOMAIN log
    /\ crashes \in 0 .. MaxCrashes
    /\ strays \subseteq DOMAIN log

\* README: "heartbeat.spool.dropped exposes the loss".  Whatever pruning,
\* corruption and failed calls took away since the process started is in the
\* counter (Drain removes a file only after Publish, pruning and peek count).
NoSilentLoss == Cardinality(Gone \ base) <= dropped

\* README: a "bounded disk spool".  When the last Enqueue returned nil the
\* directory is within both limits, whatever drains did since, but for files
\* that a listing passed over or that a crash brought back: pruneLocked counts
\* only what listLocked shows.
WithinLimits == ~failed => Fits(files \ strays)

\* "obsolete retained snapshots are coalesced by topic", and otherwise "the
\* oldest remaining messages are removed": a record missing while an older one
\* is still spooled is a snapshot that a newer one of its topic supersedes,
\* spooled or itself a stray.  No event leaves before an older record; so what
\* reaches the broker keeps the account transitions, and the newest snapshot of
\* each topic.  The exception are strays, listed late or lost by a crash.
HolesAreSuperseded ==
    \A i \in files \ strays : \A j \in DOMAIN log \ (files \cup strays) :
        j > i => /\ log[j].snap
                 /\ \E k \in files \cup strays : /\ k > j /\ log[k].snap
                                                 /\ log[k].topic = log[j].topic

\* README: "replayed FIFO".  What the broker receives is never older than
\* anything it has received before, drains on two goroutines, retries, crashes
\* and pruning notwithstanding; only a stray, a record that a listing passed
\* over or that a crash brought back, may come late.
ReplayedInOrder ==
    [][\/ lastSent' = lastSent
       \/ lastSent' \in strays
       \/ \A r \in received : r <= lastSent']_vars

Snapshots(t) == {i \in DOMAIN log : log[i].snap /\ log[i].topic = t}

\* docs/topic-contract.md: a retained snapshot is the "latest successful
\* observation".  Once the newest snapshot of a topic has reached the broker it
\* is the one the broker retains, unless a stray came behind it.
RetainedIsLatest ==
    \A t \in Topics : \A i \in Snapshots(t) :
        (i \in received /\ \A j \in Snapshots(t) : j <= i)
            => retained[t] \in {i} \cup strays

\* No removed file but those of C could have stayed: putting back the records
\* from any other one on would break a limit again.
RemovesNoMore(C) ==
    \A f \in files \ (files' \cup C) : ~Fits(files' \cup From(files \ C, f))

PruneStep ==
    mu = "enqueue" /\ todo = <<>> /\ mu' = "free" /\ crashes' = crashes

\* README: "obsolete retained snapshots are coalesced by topic", then "the
\* oldest remaining messages are removed" because the limits "are exceeded":
\* pruning removes no more than it takes, whichever obsolete snapshots C it
\* coalesced.  It does not hold where the byte limit is exceeded (see Kept).
DropsOnlyWhatItMust ==
    [][PruneStep => \E C \in SUBSET (Obsolete \ files') : RemovesNoMore(C)]_vars

\* While only the number of records is exceeded, pruning removes no more than it
\* takes, whatever it failed to list, to read or to remove.
KeepsWhatFits ==
    [][PruneStep /\ Bytes(files) <= MaxBytes
         => \E C \in SUBSET (Obsolete \ files') : RemovesNoMore(C)]_vars

\* Seen from outside the spool is the first-in first-out store of SpoolPromise:
\* files, locks, drains, failed calls and restarts are its business.
Promise == INSTANCE SpoolPromise WITH
    AtLeastOnce <- (QoS = 1),
    accepted <- [i \in DOMAIN log |-> [topic |-> log[i].topic, snap |-> log[i].snap]],
    held <- files,
    aside <- strays

\* Every step of the spool is one step of SpoolPromise or none: nothing is
\* discarded but the oldest or the superseded, nothing is let go before it is
\* confirmed, nothing overtakes but what was set aside.
KeepsPromise == Promise!Spec

\* Every record spooled is replayed or dropped in the end.
EventuallyLeaves ==
    \A i \in 1 .. MaxRecords : (i \in files) ~> (i \notin files)
=============================================================================
