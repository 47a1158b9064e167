---------------------------- MODULE SpoolProofs ----------------------------
(* Theorems about Spool, for every set of drainers, topics and batches and  *)
(* every limit, whatever calls fail and whatever a crash undoes; the second *)
(* half, on the order of replay and what the broker retains, for a clock    *)
(* that never steps back.                                                   *)
EXTENDS Spool, FiniteSetTheorems, SequenceTheorems, WellFoundedInduction, TLAPS

(* Every set of records is finite.                                          *)
LEMMA FilesFinite ==
    ASSUME TypeOK
    PROVE  /\ IsFiniteSet(DOMAIN log)
           /\ \A S \in SUBSET (DOMAIN log) : IsFiniteSet(S) /\ Cardinality(S) \in Nat
<1>1. DOMAIN log = 1 .. Len(log) /\ Len(log) \in Nat
  BY DEF TypeOK
<1>2. IsFiniteSet(DOMAIN log)
  BY <1>1, FS_Interval
<1> QED
  BY <1>2, FS_Subset, FS_CardinalityType

\* What one pruneLocked removes.
Pruned(skipped, H, stuck) == Coalesced(skipped) \cup Cut(skipped, H, stuck)

(* What pruneLocked or peek removes was there, and can be counted.          *)
LEMMA Disappearing ==
    ASSUME TypeOK
    PROVE  /\ \A skipped, H, stuck : Pruned(skipped, H, stuck) \in SUBSET files
           /\ \A skipped : Coalesced(skipped) \in SUBSET files
           /\ corrupt \in SUBSET files /\ files \in SUBSET (DOMAIN log)
           /\ \A S \in SUBSET files : Cardinality(S) \in Nat
<1>1. \A skipped, H, stuck : Pruned(skipped, H, stuck) \in SUBSET files
  BY DEF Pruned, Coalesced, Cut, Rest, Obsolete
<1>2. \A skipped : Coalesced(skipped) \in SUBSET files
  BY DEF Coalesced, Obsolete
<1> QED
  BY <1>1, <1>2, FilesFinite DEF TypeOK

(* Files that go and files passed over leave the directory well formed.     *)
LEMMA DropTyped ==
    ASSUME TypeOK, NEW S \in SUBSET files, Drop(S)
    PROVE  files' \subseteq files /\ corrupt' \subseteq files' /\ dropped' \in Nat
  BY Disappearing DEF Drop, TypeOK

LEMMA SkipTyped ==
    ASSUME TypeOK, NEW H \in SUBSET files, Skips(H)
    PROVE  strays' \subseteq DOMAIN log
  BY DEF Skips, TypeOK

(* The type invariant of every Queue: what the directory lists was renamed  *)
(* into place, and a drainer carries a record exactly while it publishes or *)
(* removes one.                                                             *)
THEOREM TypeCorrect == Spec => []TypeOK
<1>1. Init => TypeOK
  <2> SUFFICES ASSUME Init PROVE TypeOK
    OBVIOUS
  <2>1. log \in Seq(LogEntry) /\ DOMAIN log = {} /\ todo \in Seq(Payload)
    BY DEF Init
  <2>2. tmps \in 0 .. MaxTmps /\ crashes \in 0 .. MaxCrashes
    BY BoundsAssumption DEF Init
  <2>3. \A d \in Drainers : pc[d] = "idle" /\ flight[d] = 0
    BY DEF Init
  <2>4. /\ pc \in [Drainers -> {"idle", "peek", "retry", "publish", "remove"}]
        /\ flight \in [Drainers -> DOMAIN log \cup {0}]
        /\ retained \in [Topics -> DOMAIN log \cup {0}]
    BY DEF Init
  <2> QED
    BY <2>1, <2>2, <2>3, <2>4 DEF Init, TypeOK
<1>2. TypeOK /\ [Next]_vars => TypeOK'
  <2> SUFFICES ASSUME TypeOK, [Next]_vars PROVE TypeOK'
    OBVIOUS
  <2> USE DrainersAssumption, BoundsAssumption
  <2>1. ASSUME NEW b \in Batches, EnqueueStart(b) PROVE TypeOK'
    BY <2>1, BatchesAssumption
    DEF TypeOK, EnqueueStart, disk, drainVars, broker, restarts
  <2>2. ASSUME NEW n \in newID, WriteRecord(n) PROVE TypeOK'
    <3>1. n \in Nat
      BY DEF newID, TypeOK
    <3> DEFINE new == [name |-> n, topic |-> Head(todo).topic,
                       snap |-> Head(todo).snap, size |-> Head(todo).size]
    <3>2. Head(todo) \in Payload /\ Tail(todo) \in Seq(Payload)
      BY <2>2 DEF TypeOK, WriteRecord
    <3>3. new \in LogEntry
      BY <3>1, <3>2 DEF Payload, LogEntry
    <3>4. log' = Append(log, new)
      BY <2>2 DEF WriteRecord
    <3> HIDE DEF new
    <3>5. log' \in Seq(LogEntry) /\ DOMAIN log' = DOMAIN log \cup {Len(log) + 1}
      BY <3>3, <3>4 DEF TypeOK
    <3> QED
      BY <2>2, <3>2, <3>5 DEF TypeOK, WriteRecord, drainVars, broker, restarts
  <2>3. ASSUME NEW leak \in {0, 1}, WriteFails(leak) PROVE TypeOK'
    BY <2>3 DEF TypeOK, WriteFails, drainVars, broker, restarts
  <2>4. ASSUME Pruning, files' \subseteq files, corrupt' \subseteq files',
               dropped' \in Nat, failed' \in BOOLEAN, strays' \subseteq DOMAIN log
        PROVE  TypeOK'
    BY <2>4 DEF TypeOK, Pruning, drainVars, broker, restarts
  <2>41. ASSUME NEW H \in SUBSET files, PruneNothing(H) PROVE TypeOK'
    BY <2>4, <2>41, SkipTyped DEF PruneNothing, TypeOK
  <2>42. ASSUME NEW skipped \in Skipping, NEW stuck \in Sticking,
                NEW H \in SUBSET (files \ Coalesced(skipped)), Prune(skipped, H, stuck)
         PROVE  TypeOK'
    <3>1. Drop(Pruned(skipped, H, stuck)) /\ Skips(H) /\ failed' \in BOOLEAN /\ Pruning
      BY <2>42 DEF Prune, Pruned
    <3>2. Pruned(skipped, H, stuck) \in SUBSET files /\ H \in SUBSET files
      BY Disappearing
    <3> QED
      BY <2>4, <3>1, <3>2, DropTyped, SkipTyped
  <2>43. ASSUME NEW skipped \in Skipping, PruneFails(skipped) PROVE TypeOK'
    <3>1. Coalesced(skipped) \in SUBSET files
      BY Disappearing
    <3> QED
      BY <2>4, <2>43, <3>1, DropTyped DEF PruneFails, TypeOK
  <2>5. ASSUME NEW d \in Drainers, DrainStart(d) PROVE TypeOK'
    BY <2>5 DEF TypeOK, DrainStart, disk, enqVars, broker, restarts
  <2>6. ASSUME NEW d \in Drainers, NEW f \in files, Peek(d, f) PROVE TypeOK'
    <3>1. strays' \subseteq DOMAIN log
      BY <2>6, SkipTyped DEF Peek, ListsFirst, UpTo
    <3>2. f \in DOMAIN log /\ f # 0 /\ log' = log
      BY <2>6 DEF TypeOK, Peek, Peeking
    <3> QED
      BY <2>6, <3>1, <3>2 DEF TypeOK, Peek, Peeking, broker, restarts
  <2>61. ASSUME NEW d \in Drainers, NEW f \in files, PeekDrops(d, f) PROVE TypeOK'
    <3>1. strays' \subseteq DOMAIN log
      BY <2>61, SkipTyped DEF PeekDrops, ListsFirst, UpTo
    <3>2. files' \subseteq files /\ corrupt' \subseteq files' /\ dropped' \in Nat
      BY <2>61, DropTyped DEF PeekDrops
    <3> QED
      BY <2>61, <3>1, <3>2 DEF TypeOK, PeekDrops, Peeking, broker, restarts
  <2>62. ASSUME NEW d \in Drainers, NEW f \in files, PeekKeeps(d, f) PROVE TypeOK'
    <3>1. strays' \subseteq DOMAIN log
      BY <2>62, SkipTyped DEF PeekKeeps, ListsFirst, UpTo
    <3> QED
      BY <2>62, <3>1 DEF TypeOK, PeekKeeps, Peeking, broker, restarts
  <2>7. ASSUME NEW d \in Drainers, PeekEnds(d) PROVE TypeOK'
    BY <2>7 DEF TypeOK, PeekEnds, Peeking, Release, broker, restarts
  <2>8. ASSUME NEW d \in Drainers, pc[d] = "publish", Receive(flight[d]),
               UNCHANGED log
        PROVE  /\ received' \subseteq DOMAIN log'
               /\ lastSent' \in DOMAIN log' \cup {0}
               /\ retained' \in [Topics -> DOMAIN log' \cup {0}]
    BY <2>8 DEF TypeOK, Receive
  <2>9. ASSUME NEW d \in Drainers, PublishAcked(d) PROVE TypeOK'
    BY <2>8, <2>9 DEF TypeOK, PublishAcked, disk, enqVars, restarts
  <2>10. ASSUME NEW d \in Drainers, PublishWritten(d) PROVE TypeOK'
    BY <2>10 DEF TypeOK, PublishWritten, disk, enqVars, broker, restarts
  <2>11. ASSUME NEW d \in Drainers, PublishUnacked(d) PROVE TypeOK'
    BY <2>8, <2>11 DEF TypeOK, PublishUnacked, Release, disk, enqVars, restarts
  <2>12. ASSUME NEW d \in Drainers, PublishFails(d) PROVE TypeOK'
    BY <2>12 DEF TypeOK, PublishFails, Release, disk, enqVars, broker, restarts
  <2>13. ASSUME NEW d \in Drainers, RemoveSent(d) PROVE TypeOK'
    BY <2>13 DEF TypeOK, RemoveSent, enqVars, broker, restarts
  <2>14. ASSUME NEW d \in Drainers, RemoveFails(d) PROVE TypeOK'
    BY <2>14 DEF TypeOK, RemoveFails, Release, disk, enqVars, broker, restarts
  <2>15. ASSUME NEW lost \in SUBSET files, NEW back \in SUBSET (DOMAIN log \ files),
                NEW bad \in SUBSET DOMAIN log, NEW leak \in {0, 1},
                Crash(lost, back, bad, leak)
         PROVE  TypeOK'
    BY <2>15 DEF TypeOK, Crash, broker
  <2>16. CASE UNCHANGED vars
    BY <2>16 DEF TypeOK, vars, disk, enqVars, drainVars, broker, restarts
  <2> QED
    BY <2>1, <2>2, <2>3, <2>41, <2>42, <2>43, <2>5, <2>6, <2>61, <2>62, <2>7,
       <2>9, <2>10, <2>11, <2>12, <2>13, <2>14, <2>15, <2>16
    DEF Next, Enqueue, Drain
<1> QED
  BY <1>1, <1>2, PTL DEF Spec

-----------------------------------------------------------------------------
(* Counting.  Drain takes a record out of the spool only after the broker   *)
(* has received it; pruning and peek count what they take.                  *)

RemovesReceived ==
    \A d \in Drainers : pc[d] = "remove" => flight[d] \in received

LossInv == RemovesReceived /\ NoSilentLoss

(* What is lost in two ways is at most the sum of both.                     *)
LEMMA UnionBound ==
    ASSUME NEW S, NEW T, IsFiniteSet(S), IsFiniteSet(T)
    PROVE  /\ IsFiniteSet(S \cup T)
           /\ Cardinality(S \cup T) <= Cardinality(S) + Cardinality(T)
<1>1. IsFiniteSet(S \cup T) /\ IsFiniteSet(S \cap T)
  BY FS_Union, FS_Intersection
<1>2. Cardinality(S \cup T) = Cardinality(S) + Cardinality(T) - Cardinality(S \cap T)
  BY FS_Union
<1>3. /\ Cardinality(S) \in Nat /\ Cardinality(T) \in Nat
      /\ Cardinality(S \cap T) \in Nat
  BY <1>1, FS_CardinalityType
<1> QED
  BY <1>1, <1>2, <1>3

(* What a step adds to Gone is covered by what it adds to dropped.          *)
LEMMA Counted ==
    ASSUME TypeOK, TypeOK', NoSilentLoss,
           base' = base, dropped' \in Nat,
           NEW T \in SUBSET files,
           Gone' \subseteq Gone \cup T,
           dropped' = dropped + Cardinality(T)
    PROVE  NoSilentLoss'
<1>1. /\ IsFiniteSet(Gone \ base) /\ IsFiniteSet(T)
      /\ Cardinality(Gone \ base) \in Nat /\ Cardinality(T) \in Nat
      /\ dropped \in Nat
  BY FilesFinite DEF TypeOK, Gone
<1>2. /\ IsFiniteSet((Gone \ base) \cup T)
      /\ Cardinality((Gone \ base) \cup T) <= Cardinality(Gone \ base) + Cardinality(T)
  BY <1>1, UnionBound
<1>3. (Gone \ base)' \subseteq (Gone \ base) \cup T
  OBVIOUS
<1>4. /\ Cardinality((Gone \ base)') <= Cardinality((Gone \ base) \cup T)
      /\ Cardinality((Gone \ base)') \in Nat
      /\ Cardinality((Gone \ base) \cup T) \in Nat
  BY <1>2, <1>3, FS_Subset, FS_CardinalityType
<1> QED
  BY <1>1, <1>2, <1>4 DEF NoSilentLoss

(* A step that loses nothing and leaves the counter alone.                  *)
LEMMA NothingLost ==
    ASSUME TypeOK, TypeOK', NoSilentLoss,
           base' = base, dropped' = dropped, Gone' \subseteq Gone
    PROVE  NoSilentLoss'
<1>1. Cardinality({}) = 0 /\ dropped \in Nat
  BY FS_EmptySet DEF TypeOK
<1> QED
  BY <1>1, Counted

(* README: "heartbeat.spool.dropped exposes the loss".  At QoS 1, whatever  *)
(* the spool lost since the process started is in the counter: pruning,     *)
(* unreadable files and failing calls included, however drains and          *)
(* enqueues interleave.                                                     *)
THEOREM LossIsCounted ==
    ASSUME QoS = 1
    PROVE  Spec => []NoSilentLoss
<1>1. Init => LossInv
  <2> SUFFICES ASSUME Init PROVE LossInv
    OBVIOUS
  <2>1. Gone \ base = {} /\ dropped = 0
    BY DEF Init, Gone
  <2>2. RemovesReceived
    BY DEF Init, RemovesReceived
  <2> QED
    BY <2>1, <2>2, FS_EmptySet DEF LossInv, NoSilentLoss
<1>2. LossInv /\ TypeOK /\ TypeOK' /\ [Next]_vars => LossInv'
  <2> SUFFICES ASSUME LossInv, TypeOK, TypeOK', [Next]_vars PROVE LossInv'
    OBVIOUS
  <2> USE DEF LossInv
  <2>1. ASSUME NEW b \in Batches, EnqueueStart(b) PROVE LossInv'
    BY <2>1, NothingLost
    DEF EnqueueStart, Gone, RemovesReceived, disk, drainVars, broker, restarts
  <2>2. ASSUME NEW n \in newID, WriteRecord(n) PROVE LossInv'
    <3>1. DOMAIN log' = DOMAIN log \cup {Len(log) + 1}
      BY <2>2 DEF WriteRecord, TypeOK
    <3> QED
      BY <2>2, <3>1, NothingLost
      DEF WriteRecord, Gone, RemovesReceived, drainVars, broker, restarts
  <2>3. ASSUME NEW leak \in {0, 1}, WriteFails(leak) PROVE LossInv'
    BY <2>3, NothingLost
    DEF WriteFails, Gone, RemovesReceived, drainVars, broker, restarts
  <2>4. ASSUME NEW T \in SUBSET files, Drop(T), log' = log, broker' = broker, base' = base
        PROVE  NoSilentLoss'
    <3>1. Gone' \subseteq Gone \cup T
      BY <2>4 DEF Drop, Gone, broker
    <3>2. dropped' = dropped + Cardinality(T) /\ dropped' \in Nat
      BY <2>4, Disappearing DEF Drop, TypeOK
    <3> QED
      BY <2>4, <3>1, <3>2, Counted
  <2>41. ASSUME NEW H \in SUBSET files, PruneNothing(H) PROVE LossInv'
    BY <2>41, NothingLost
    DEF PruneNothing, Pruning, Gone, RemovesReceived, drainVars, broker, restarts
  <2>42. ASSUME NEW skipped \in Skipping, NEW stuck \in Sticking,
                NEW H \in SUBSET (files \ Coalesced(skipped)), Prune(skipped, H, stuck)
         PROVE  LossInv'
    <3>1. Drop(Pruned(skipped, H, stuck)) /\ Pruned(skipped, H, stuck) \in SUBSET files
      BY <2>42, Disappearing DEF Prune, Pruned
    <3>2. NoSilentLoss'
      BY <2>4, <2>42, <3>1 DEF Prune, Pruning, restarts
    <3> QED
      BY <2>42, <3>2 DEF Prune, Pruning, RemovesReceived, drainVars, broker
  <2>43. ASSUME NEW skipped \in Skipping, PruneFails(skipped) PROVE LossInv'
    <3>1. NoSilentLoss'
      BY <2>4, <2>43, Disappearing DEF PruneFails, Pruning, restarts
    <3> QED
      BY <2>43, <3>1 DEF PruneFails, Pruning, RemovesReceived, drainVars, broker
  <2>5. ASSUME NEW d \in Drainers, DrainStart(d) PROVE LossInv'
    BY <2>5, NothingLost
    DEF DrainStart, Gone, RemovesReceived, TypeOK, disk, broker, restarts
  <2>6. ASSUME NEW d \in Drainers, NEW f \in files, Peek(d, f) PROVE LossInv'
    BY <2>6, NothingLost
    DEF Peek, Peeking, Gone, RemovesReceived, TypeOK, broker, restarts
  <2>61. ASSUME NEW d \in Drainers, NEW f \in files, PeekDrops(d, f) PROVE LossInv'
    <3>1. NoSilentLoss'
      BY <2>4, <2>61 DEF PeekDrops, Peeking, restarts
    <3> QED
      BY <2>61, <3>1 DEF PeekDrops, Peeking, RemovesReceived, TypeOK, broker
  <2>62. ASSUME NEW d \in Drainers, NEW f \in files, PeekKeeps(d, f) PROVE LossInv'
    <3>1. /\ (Gone \ base)' = Gone \ base /\ dropped' = dropped + 1
          /\ dropped \in Nat /\ Cardinality(Gone \ base) \in Nat
      BY <2>62, FilesFinite DEF PeekKeeps, Peeking, Gone, TypeOK, broker, restarts
    <3>2. Cardinality(Gone \ base) <= dropped /\ Cardinality((Gone \ base)') = Cardinality(Gone \ base)
      BY <3>1 DEF NoSilentLoss
    <3>3. NoSilentLoss'
      BY <3>1, <3>2 DEF NoSilentLoss
    <3> QED
      BY <2>62, <3>3 DEF PeekKeeps, Peeking, RemovesReceived, TypeOK, broker
  <2>7. ASSUME NEW d \in Drainers, PeekEnds(d) PROVE LossInv'
    BY <2>7, NothingLost
    DEF PeekEnds, Peeking, Release, Gone, RemovesReceived, TypeOK, broker, restarts
  <2>8. ASSUME NEW d \in Drainers, PublishAcked(d) PROVE LossInv'
    BY <2>8, NothingLost
    DEF PublishAcked, Receive, Gone, RemovesReceived, TypeOK, disk, restarts
  <2>9. ASSUME NEW d \in Drainers, PublishWritten(d) PROVE LossInv'
    BY <2>9 DEF PublishWritten
  <2>10. ASSUME NEW d \in Drainers, PublishUnacked(d) PROVE LossInv'
    BY <2>10, NothingLost
    DEF PublishUnacked, Receive, Release, Gone, RemovesReceived, TypeOK, disk, restarts
  <2>11. ASSUME NEW d \in Drainers, PublishFails(d) PROVE LossInv'
    BY <2>11, NothingLost
    DEF PublishFails, Release, Gone, RemovesReceived, TypeOK, disk, broker, restarts
  <2>12. ASSUME NEW d \in Drainers, RemoveSent(d) PROVE LossInv'
    BY <2>12, NothingLost
    DEF RemoveSent, Gone, RemovesReceived, TypeOK, broker, restarts
  <2>13. ASSUME NEW d \in Drainers, RemoveFails(d) PROVE LossInv'
    BY <2>13, NothingLost
    DEF RemoveFails, Release, Gone, RemovesReceived, TypeOK, disk, broker, restarts
  <2>14. ASSUME NEW lost \in SUBSET files, NEW back \in SUBSET (DOMAIN log \ files),
                NEW bad \in SUBSET DOMAIN log, NEW leak \in {0, 1},
                Crash(lost, back, bad, leak)
         PROVE  LossInv'
    <3>1. (Gone \ base)' = {} /\ dropped' = 0
      BY <2>14 DEF Crash, Gone, broker
    <3>2. NoSilentLoss'
      BY <3>1, FS_EmptySet DEF NoSilentLoss
    <3> QED
      BY <2>14, <3>2 DEF Crash, RemovesReceived
  <2>15. CASE UNCHANGED vars
    BY <2>15, NothingLost
    DEF vars, Gone, RemovesReceived, disk, drainVars, broker, restarts
  <2> QED
    BY <2>1, <2>2, <2>3, <2>41, <2>42, <2>43, <2>5, <2>6, <2>61, <2>62, <2>7,
       <2>8, <2>9, <2>10, <2>11, <2>12, <2>13, <2>14, <2>15
    DEF Next, Enqueue, Drain
<1>3. LossInv => NoSilentLoss
  BY DEF LossInv
<1> QED
  BY <1>1, <1>2, <1>3, TypeCorrect, PTL DEF Spec

-----------------------------------------------------------------------------
(* Sums over finite sets.  The sum of a set removes chosen elements one at  *)
(* a time; what it returns is shown on a smallest set that would contradict *)
(* the claim.                                                               *)

(* Among sets of subsets of a finite set one is minimal.                    *)
LEMMA MinimalSubset ==
    ASSUME NEW S, IsFiniteSet(S), NEW T \in SUBSET (SUBSET S), T # {}
    PROVE  \E X \in T : \A Y \in SUBSET X : Y # X => Y \notin T
<1> DEFINE R == StrictSubsetOrdering(S)
<1>1. T \subseteq FiniteSubsetsOf(S)
  BY FS_Subset DEF FiniteSubsetsOf
<1>2. PICK X \in T : \A Y \in T : <<Y, X>> \notin R
  <2> HIDE DEF R
  <2> QED
    BY <1>1, FS_StrictSubsetOrderingWellFounded, WFMin DEF R
<1>3. ASSUME NEW Y \in SUBSET X, Y # X, Y \in T PROVE FALSE
  <2>1. <<Y, X>> \in R
    BY <1>3 DEF StrictSubsetOrdering
  <2> QED
    BY <1>2, <1>3, <2>1
<1> QED
  BY <1>3

\* The table the fold of MapThenSumSet fills in for the subsets of S, and its
\* last entry; L[x].size is the weight of x.
Choice(s) == CHOOSE x \in s : TRUE
Totals(L, S, g) ==
    g = [s \in SUBSET S |-> IF s = {} THEN 0
                            ELSE L[Choice(s)].size + g[s \ {Choice(s)}]]
Total(L, S) == (CHOOSE g : Totals(L, S, g))[S]

(* The element the sum starts with is one of the set.                       *)
LEMMA ChoiceIn == \A s : s # {} => Choice(s) \in s
  BY DEF Choice

(* What a table says of a set, by the element it starts with.               *)
LEMMA TotalsAt ==
    ASSUME NEW L, NEW S, NEW g, Totals(L, S, g), NEW s \in SUBSET S
    PROVE  /\ s = {} => g[s] = 0
           /\ s # {} => g[s] = L[Choice(s)].size + g[s \ {Choice(s)}]
  BY DEF Totals

(* Two such tables agree on the sets that both cover.                       *)
LEMMA TotalsAgree ==
    ASSUME NEW L, NEW X, NEW Y, NEW g, NEW h, IsFiniteSet(X),
           Totals(L, X, g), Totals(L, Y, h)
    PROVE  \A s \in SUBSET (X \cap Y) : g[s] = h[s]
<1> DEFINE T == {s \in SUBSET (X \cap Y) : g[s] # h[s]}
<1> SUFFICES ASSUME T # {} PROVE FALSE
  OBVIOUS
<1>1. PICK s \in T : \A r \in SUBSET s : r # s => r \notin T
  <2>1. T \in SUBSET (SUBSET X)
    OBVIOUS
  <2> HIDE DEF T
  <2> QED
    BY <2>1, MinimalSubset
<1>2. s # {} /\ Choice(s) \in s
  BY <1>1, TotalsAt, ChoiceIn
<1>3. s \ {Choice(s)} \notin T /\ s \ {Choice(s)} \in SUBSET (X \cap Y)
  BY <1>1, <1>2
<1>4. g[s \ {Choice(s)}] = h[s \ {Choice(s)}]
  BY <1>3
<1>5. s \in SUBSET X /\ s \in SUBSET Y
  BY <1>1
<1>6. g[s] # h[s]
  BY <1>1
<1> HIDE DEF T
<1>7. g[s] = L[Choice(s)].size + g[s \ {Choice(s)}]
  BY <1>2, <1>5, TotalsAt
<1>8. h[s] = L[Choice(s)].size + h[s \ {Choice(s)}]
  BY <1>2, <1>5, TotalsAt
<1> QED
  BY <1>4, <1>6, <1>7, <1>8

(* Every finite set has its table.                                          *)
LEMMA TotalsExist ==
    ASSUME NEW L, NEW S, IsFiniteSet(S)
    PROVE  \A X \in SUBSET S : \E g : Totals(L, X, g)
<1> DEFINE T == {X \in SUBSET S : \A g : ~Totals(L, X, g)}
<1> SUFFICES ASSUME T # {} PROVE FALSE
  OBVIOUS
<1>1. PICK X \in T : \A Y \in SUBSET X : Y # X => Y \notin T
  <2>1. T \in SUBSET (SUBSET S)
    OBVIOUS
  <2> HIDE DEF T
  <2> QED
    BY <2>1, MinimalSubset
<1>2. IsFiniteSet(X) /\ \A s \in SUBSET X : IsFiniteSet(s)
  BY FS_Subset
<1> DEFINE t(s) == CHOOSE g : Totals(L, s, g)
           v(s) == t(s)[s]
           f == [s \in SUBSET X |-> IF s = {} THEN 0
                                    ELSE L[Choice(s)].size + v(s \ {Choice(s)})]
<1>3. \A s \in SUBSET X : s # X => Totals(L, s, t(s))
  <2>1. \A s \in SUBSET X : s # X => \E g : Totals(L, s, g)
    BY <1>1
  <2> QED
    BY <2>1
<1> HIDE DEF t
<1>4. ASSUME NEW s \in SUBSET X, s # X PROVE f[s] = v(s)
  <2>1. Totals(L, s, t(s))
    BY <1>3, <1>4
  <2>2. CASE s = {}
    BY <2>1, <2>2, TotalsAt
  <2>3. CASE s # {}
    <3> DEFINE r == s \ {Choice(s)}
    <3>1. r \in SUBSET X /\ r # X /\ r \in SUBSET s /\ r \cap s = r
      BY <1>4, <2>3, ChoiceIn
    <3>2. Totals(L, r, t(r))
      BY <1>3, <3>1
    <3>3. t(s)[r] = t(r)[r]
      <4> HIDE DEF r
      <4> QED
        BY <1>2, <2>1, <3>1, <3>2, TotalsAgree
    <3>4. t(s)[s] = L[Choice(s)].size + t(s)[r]
      BY <2>1, <2>3, TotalsAt
    <3> QED
      BY <2>3, <3>3, <3>4
  <2> QED
    BY <2>2, <2>3
<1>5. \A s \in SUBSET X : s # {} => f[s \ {Choice(s)}] = v(s \ {Choice(s)})
  <2> SUFFICES ASSUME NEW s \in SUBSET X, s # {}
               PROVE  f[s \ {Choice(s)}] = v(s \ {Choice(s)})
    OBVIOUS
  <2> DEFINE r == s \ {Choice(s)}
  <2>1. r \in SUBSET X /\ r # X
    BY ChoiceIn
  <2> HIDE DEF r, f, v
  <2>2. f[r] = v(r)
    BY <1>4, <2>1
  <2> QED
    BY <2>2 DEF r
<1>6. f = [s \in SUBSET X |-> IF s = {} THEN 0
                             ELSE L[Choice(s)].size + f[s \ {Choice(s)}]]
  <2> DEFINE g == [s \in SUBSET X |-> IF s = {} THEN 0
                             ELSE L[Choice(s)].size + f[s \ {Choice(s)}]]
  <2>1. \A s \in SUBSET X : f[s] = g[s]
    <3> HIDE DEF v
    <3> QED
      BY <1>5
  <2> QED
    <3> HIDE DEF v
    <3> QED BY <2>1
<1>7. Totals(L, X, f)
  <2> HIDE DEF f
  <2> QED
    BY <1>6 DEF Totals
<1> QED
  BY <1>1, <1>7

(* The sum of no element, and of one more.                                  *)
LEMMA TotalStep ==
    ASSUME NEW L, NEW S, IsFiniteSet(S)
    PROVE  /\ Total(L, {}) = 0
           /\ S # {} => Total(L, S) = L[Choice(S)].size + Total(L, S \ {Choice(S)})
<1> DEFINE t(s) == CHOOSE g : Totals(L, s, g)
<1>1. \A s \in SUBSET S : Totals(L, s, t(s))
  BY TotalsExist
<1> HIDE DEF t
<1>2. Totals(L, {}, t({})) /\ {} \in SUBSET {}
  BY <1>1
<1>3. t({})[{}] = 0
  BY <1>2, TotalsAt
<1>4. ASSUME S # {}
      PROVE  t(S)[S] = L[Choice(S)].size + t(S \ {Choice(S)})[S \ {Choice(S)}]
  <2> DEFINE r == S \ {Choice(S)}
  <2>1. r \in SUBSET S /\ S \in SUBSET S /\ r \in SUBSET (S \cap r)
    OBVIOUS
  <2>2. Totals(L, S, t(S)) /\ Totals(L, r, t(r))
    BY <1>1, <2>1
  <2>3. t(S)[S] = L[Choice(S)].size + t(S)[r]
    BY <1>4, <2>2, TotalsAt
  <2> HIDE DEF r
  <2>4. t(S)[r] = t(r)[r]
    BY <2>1, <2>2, TotalsAgree
  <2> QED
    BY <2>3, <2>4 DEF r
<1> QED
  BY <1>3, <1>4 DEF Total, t

(* A sum of natural numbers is one.                                         *)
LEMMA TotalNat ==
    ASSUME NEW L, NEW S, IsFiniteSet(S), \A x \in S : L[x].size \in Nat
    PROVE  Total(L, S) \in Nat
<1> DEFINE T == {X \in SUBSET S : Total(L, X) \notin Nat}
<1> SUFFICES ASSUME T # {} PROVE FALSE
  OBVIOUS
<1>1. PICK X \in T : \A Y \in SUBSET X : Y # X => Y \notin T
  <2>1. T \in SUBSET (SUBSET S)
    OBVIOUS
  <2> HIDE DEF T
  <2> QED
    BY <2>1, MinimalSubset
<1>2. IsFiniteSet(X) /\ X \in SUBSET S
  BY <1>1, FS_Subset
<1>3. X # {}
  <2>1. Total(L, {}) = 0
    BY TotalStep
  <2>2. Total(L, X) \notin Nat
    BY <1>1
  <2> SUFFICES ASSUME X = {} PROVE FALSE
    OBVIOUS
  <2> HIDE DEF T
  <2> QED
    BY <2>1, <2>2
<1> DEFINE c == Choice(X)
<1>4. c \in X /\ X \ {c} \notin T /\ X \ {c} \in SUBSET S
  BY <1>1, <1>3, ChoiceIn
<1>5. Total(L, X \ {c}) \in Nat /\ L[c].size \in Nat
  BY <1>2, <1>4
<1>6. Total(L, X) = L[c].size + Total(L, X \ {c})
  BY <1>2, <1>3, TotalStep
<1> QED
  BY <1>1, <1>5, <1>6

(* The sum does not depend on the order of removal.                         *)
LEMMA TotalRemove ==
    ASSUME NEW L, NEW S, IsFiniteSet(S), \A x \in S : L[x].size \in Nat
    PROVE  \A x \in S : Total(L, S) = L[x].size + Total(L, S \ {x})
<1> DEFINE Off(X) == \E x \in X : Total(L, X) # L[x].size + Total(L, X \ {x})
           T == {X \in SUBSET S : Off(X)}
<1> SUFFICES ASSUME T # {} PROVE FALSE
  OBVIOUS
<1>1. PICK X \in T : \A Y \in SUBSET X : Y # X => Y \notin T
  <2>1. T \in SUBSET (SUBSET S)
    OBVIOUS
  <2> HIDE DEF T
  <2> QED
    BY <2>1, MinimalSubset
<1>2. IsFiniteSet(X) /\ X \in SUBSET S
  BY <1>1, FS_Subset
<1>3. PICK x \in X : Total(L, X) # L[x].size + Total(L, X \ {x})
  BY <1>1
<1> DEFINE c == Choice(X)
<1>4. c \in X
  BY <1>3, ChoiceIn
<1>5. Total(L, X) = L[c].size + Total(L, X \ {c})
  BY <1>2, <1>3, TotalStep
<1>6. c # x
  BY <1>3, <1>5
<1>7. \A Y \in SUBSET X : Y # X => ~Off(Y)
  BY <1>1, <1>2
<1> HIDE DEF c
<1>8. Total(L, X \ {c}) = L[x].size + Total(L, (X \ {c}) \ {x})
  BY <1>4, <1>6, <1>7
<1>9. Total(L, X \ {x}) = L[c].size + Total(L, (X \ {x}) \ {c})
  BY <1>3, <1>4, <1>6, <1>7
<1>10. (X \ {x}) \ {c} = (X \ {c}) \ {x}
  OBVIOUS
<1>11. IsFiniteSet((X \ {c}) \ {x}) /\ (X \ {c}) \ {x} \in SUBSET S
  BY <1>2, FS_Subset
<1>12. /\ Total(L, (X \ {c}) \ {x}) \in Nat
       /\ L[x].size \in Nat /\ L[c].size \in Nat
  BY <1>2, <1>4, <1>11, TotalNat
<1>13. /\ Total(L, X) = L[c].size + (L[x].size + Total(L, (X \ {c}) \ {x}))
       /\ L[x].size + Total(L, X \ {x}) = L[x].size + (L[c].size + Total(L, (X \ {c}) \ {x}))
  BY <1>5, <1>8, <1>9, <1>10
<1>14. Total(L, X) = L[x].size + Total(L, X \ {x})
  BY <1>12, <1>13
<1> QED
  BY <1>3, <1>14

(* A set weighs no less than a part of it.                                  *)
LEMMA TotalMonotone ==
    ASSUME NEW L, NEW S, IsFiniteSet(S), \A x \in S : L[x].size \in Nat
    PROVE  \A R \in SUBSET S : Total(L, R) <= Total(L, S)
<1> SUFFICES ASSUME NEW R \in SUBSET S PROVE Total(L, R) <= Total(L, S)
  OBVIOUS
<1>0. \A X \in SUBSET S : IsFiniteSet(X) /\ \A x \in X : L[x].size \in Nat
  BY FS_Subset
<1>1. \A X \in SUBSET S : Total(L, X) \in Nat
  BY <1>0, TotalNat
<1> DEFINE T == {X \in SUBSET S : R \subseteq X /\ ~(Total(L, R) <= Total(L, X))}
<1> SUFFICES ASSUME T # {} PROVE FALSE
  OBVIOUS
<1>2. PICK X \in T : \A Y \in SUBSET X : Y # X => Y \notin T
  <2>1. T \in SUBSET (SUBSET S)
    OBVIOUS
  <2> HIDE DEF T
  <2> QED
    BY <2>1, MinimalSubset
<1>3. PICK x \in X \ R : TRUE
  <2>1. Total(L, R) <= Total(L, R)
    BY <1>1
  <2>2. R \subseteq X /\ ~(Total(L, R) <= Total(L, X))
    BY <1>2
  <2> HIDE DEF T
  <2> SUFFICES ASSUME R = X PROVE FALSE
    BY <2>2
  <2> QED
    BY <2>1, <2>2
<1>4. Total(L, X) = L[x].size + Total(L, X \ {x})
  BY <1>0, <1>2, <1>3, TotalRemove
<1>5. Total(L, R) <= Total(L, X \ {x})
  BY <1>2, <1>3
<1>6. /\ Total(L, R) \in Nat /\ Total(L, X \ {x}) \in Nat
      /\ L[x].size \in Nat
  BY <1>0, <1>1, <1>2, <1>3
<1>7. Total(L, R) <= Total(L, X)
  BY <1>4, <1>5, <1>6
<1> QED
  BY <1>2, <1>7
-----------------------------------------------------------------------------
(* The limits of pruneLocked.                                               *)

(* Names and sizes are integers.                                            *)
LEMMA EntriesTyped ==
    ASSUME TypeOK
    PROVE  \A i \in DOMAIN log : Name(i) \in Int /\ log[i].size \in Nat
<1>1. \A i \in DOMAIN log : log[i] \in LogEntry
  BY DEF TypeOK
<1> QED
  BY <1>1 DEF LogEntry, Name

(* Bytes, which the code sums up in listLocked's order, is this sum.        *)
LEMMA BytesIsTotal == \A S : Bytes(S) = Total(log, S)
  BY DEF Bytes, MapThenSumSet, MapThenFoldSet, Total, Totals, Choice

(* The limits ask only for the files, not for what else changed.            *)
LEMMA BytesNext ==
    ASSUME log' = log
    PROVE  Fits(files \ strays)' <=> Fits(files' \ strays')
<1>1. Bytes(files \ strays)' = Total(log', files' \ strays')
  BY DEF Bytes, MapThenSumSet, MapThenFoldSet, Total, Totals, Choice
<1>2. Bytes(files' \ strays') = Total(log, files' \ strays')
  BY BytesIsTotal
<1> QED
  BY <1>1, <1>2 DEF Fits

(* Fewer files have no more bytes.                                          *)
LEMMA BytesMonotone ==
    ASSUME TypeOK, NEW S \in SUBSET (DOMAIN log), NEW R \in SUBSET S
    PROVE  /\ Bytes({}) = 0 /\ Bytes(S) \in Nat /\ Bytes(R) \in Nat
           /\ Bytes(R) <= Bytes(S)
<1>1. /\ IsFiniteSet(DOMAIN log) /\ IsFiniteSet(S) /\ IsFiniteSet(R)
      /\ IsFiniteSet({})
  BY FilesFinite, FS_EmptySet
<1>2. \A i \in DOMAIN log : log[i].size \in Nat
  BY EntriesTyped
<1>3. Total(log, {}) = 0
  BY <1>1, TotalStep
<1>4. Total(log, S) \in Nat /\ Total(log, R) \in Nat
  BY <1>1, <1>2, TotalNat
<1>5. Total(log, R) <= Total(log, S)
  BY <1>1, <1>2, TotalMonotone
<1> QED
  BY <1>3, <1>4, <1>5, BytesIsTotal

(* A directory within the limits stays within them when files go.           *)
LEMMA FitsMonotone ==
    ASSUME TypeOK, NEW S \in SUBSET (DOMAIN log), NEW R \in SUBSET S
    PROVE  /\ Fits({})
           /\ Fits(S) => Fits(R)
<1> USE LimitsAssumption
<1>1. /\ Bytes({}) = 0 /\ Bytes(S) \in Nat /\ Bytes(R) \in Nat
      /\ Bytes(R) <= Bytes(S)
  BY BytesMonotone
<1>2. /\ Cardinality({}) = 0 /\ Cardinality(S) \in Nat /\ Cardinality(R) \in Nat
      /\ Cardinality(R) <= Cardinality(S)
  BY FilesFinite, FS_EmptySet, FS_Subset
<1>3. Fits({})
  BY <1>1, <1>2 DEF Fits
<1>4. Fits(S) => Fits(R)
  BY <1>1, <1>2 DEF Fits
<1> QED
  BY <1>3, <1>4

(* What the second loop keeps begins at its least named file.               *)
LEMMA FirstKept ==
    ASSUME TypeOK, NEW S \in SUBSET (DOMAIN log), Kept(S) # {}
    PROVE  \E g \in Kept(S) : Kept(S) \subseteq From(S, g)
<1> DEFINE T == {UpTo(S, g) : g \in Kept(S)}
<1>1. T \in SUBSET (SUBSET S) /\ T # {} /\ IsFiniteSet(S)
  <2>1. T \in SUBSET (SUBSET S)
    BY DEF UpTo
  <2> QED
    BY <2>1, FilesFinite
<1>2. PICK X \in T : \A Y \in SUBSET X : Y # X => Y \notin T
  <2> HIDE DEF T
  <2> QED
    BY <1>1, MinimalSubset
<1>3. PICK g \in Kept(S) : X = UpTo(S, g)
  BY <1>2
<1>4. Kept(S) \subseteq S /\ \A f \in S : Name(f) \in Int
  BY EntriesTyped DEF Kept
<1>5. ASSUME NEW h \in Kept(S), Name(h) < Name(g) PROVE FALSE
  <2>1. UpTo(S, h) \subseteq UpTo(S, g)
    BY <1>4, <1>5 DEF UpTo
  <2>2. g \in UpTo(S, g) /\ g \notin UpTo(S, h)
    BY <1>4, <1>5 DEF UpTo
  <2>3. UpTo(S, h) \in T
    BY <1>5
  <2> QED
    BY <1>2, <1>3, <2>1, <2>2, <2>3
<1>6. ASSUME NEW f \in Kept(S) PROVE f \in From(S, g)
  BY <1>4, <1>5 DEF From
<1> QED
  BY <1>6

(* Where the second loop of pruneLocked stops, both limits hold.            *)
LEMMA KeptFits ==
    ASSUME TypeOK, NEW S \in SUBSET (DOMAIN log)
    PROVE  Fits(Kept(S))
<1>1. CASE Kept(S) = {}
  BY <1>1, FitsMonotone
<1>2. CASE Kept(S) # {}
  <2>1. PICK g \in Kept(S) : Kept(S) \subseteq From(S, g)
    BY <1>2, FirstKept
  <2>2. From(S, g) \in SUBSET S /\ Kept(S) \in SUBSET S
    BY DEF From, Kept
  <2>3. Bytes(From(S, g)) <= Bytes(S) /\ Bytes(S) \in Nat /\ Bytes(From(S, g)) \in Nat
    BY <2>2, BytesMonotone
  <2>4. Bytes(S) <= MaxBytes /\ Cardinality(From(S, g)) <= MaxMessages
    BY <2>1, <2>3, LimitsAssumption DEF Kept
  <2>5. Fits(From(S, g)) /\ From(S, g) \in SUBSET (DOMAIN log)
    BY <2>2, <2>3, <2>4, LimitsAssumption DEF Fits
  <2> QED
    BY <2>1, <2>5, FitsMonotone
<1> QED
  BY <1>1, <1>2

(* What the second loop removes it removes with everything older, and while *)
(* the bytes are in range only what is too many.                            *)
LEMMA CutFromTheFront ==
    ASSUME TypeOK, NEW S \in SUBSET (DOMAIN log), NEW f \in S \ Kept(S)
    PROVE  /\ UpTo(S, f) \cap Kept(S) = {}
           /\ Bytes(S) <= MaxBytes => ~(Cardinality(From(S, f)) <= MaxMessages)
<1>1. \A g \in S : Name(g) \in Int
  BY EntriesTyped
<1>2. ASSUME NEW g \in UpTo(S, f), g \in Kept(S) PROVE FALSE
  <2>1. From(S, f) \in SUBSET From(S, g) /\ From(S, g) \in SUBSET (DOMAIN log)
    BY <1>1, <1>2 DEF From, UpTo
  <2>2. /\ Cardinality(From(S, f)) <= Cardinality(From(S, g))
        /\ Cardinality(From(S, f)) \in Nat /\ Cardinality(From(S, g)) \in Nat
    BY <2>1, FilesFinite, FS_Subset
  <2>3. Bytes(S) <= MaxBytes /\ Cardinality(From(S, g)) <= MaxMessages
    BY <1>2, BytesMonotone, LimitsAssumption DEF Kept
  <2>4. f \in Kept(S)
    BY <2>2, <2>3, BytesMonotone, LimitsAssumption DEF Kept
  <2> QED
    BY <2>4
<1>3. Bytes(S) <= MaxBytes => ~(Cardinality(From(S, f)) <= MaxMessages)
  BY BytesMonotone, LimitsAssumption DEF Kept
<1> QED
  BY <1>2, <1>3

\* An Enqueue under way, or one that failed, promises nothing.
LimitsInv == (mu = "enqueue" => failed) /\ WithinLimits

(* A pruning that returns nil leaves what it listed within both limits.     *)
LEMMA PruneFits ==
    ASSUME TypeOK, NEW skipped, NEW stuck, NEW H \in SUBSET files,
           Prune(skipped, H, stuck), ~failed'
    PROVE  Fits(files' \ strays')
<1> DEFINE rest == Rest(skipped, H)
<1>1. rest \in SUBSET (DOMAIN log)
  BY DEF Rest, TypeOK
<1>2. (rest \ Kept(rest)) \cap stuck = {}
  BY DEF Prune
<1>3. files' \ strays' \subseteq rest \ Cut(skipped, H, stuck)
  BY DEF Prune, Drop, Skips, Rest
<1>4. ASSUME NEW f \in rest \ Kept(rest) PROVE f \in Cut(skipped, H, stuck)
  <2>1. UpTo(rest, f) \cap Kept(rest) = {} /\ UpTo(rest, f) \subseteq rest
    <3> HIDE DEF rest
    <3> QED
      BY <1>1, <1>4, CutFromTheFront DEF UpTo
  <2> QED
    BY <1>2, <1>4, <2>1 DEF Cut
<1>5. files' \ strays' \subseteq Kept(rest)
  BY <1>3, <1>4
<1>6. Kept(rest) \in SUBSET (DOMAIN log)
  BY <1>1 DEF Kept
<1> HIDE DEF rest
<1> QED
  BY <1>1, <1>5, <1>6, KeptFits, FitsMonotone

(* A step that takes files away, or only sets some aside.                   *)
LEMMA FewerFit ==
    ASSUME TypeOK, LimitsInv, log' = log, files' \ strays' \in SUBSET (files \ strays),
           failed' = failed, mu' = "enqueue" => mu = "enqueue"
    PROVE  LimitsInv'
<1>1. Fits(files \ strays)' <=> Fits(files' \ strays')
  BY BytesNext
<1>2. Fits(files \ strays) => Fits(files' \ strays')
  BY FitsMonotone DEF TypeOK
<1> QED
  BY <1>1, <1>2 DEF LimitsInv, WithinLimits

(* README: a "bounded disk spool".  When the last Enqueue returned nil the  *)
(* directory is within both limits, whatever is drained, unreadable or left *)
(* by a restart since, for any clock and any fault; the strays apart, which *)
(* a listing passed over or a crash brought back.                           *)
THEOREM LimitsHold == Spec => []WithinLimits
<1>1. Init => LimitsInv
  <2> SUFFICES ASSUME Init PROVE LimitsInv
    OBVIOUS
  <2>1. Cardinality({}) = 0 /\ Total(log, {}) = 0
    BY FS_EmptySet, TotalStep
  <2>2. Fits({}) /\ {} \ {} = {}
    BY <2>1, BytesIsTotal, LimitsAssumption DEF Fits
  <2> QED
    BY <2>2 DEF Init, LimitsInv, WithinLimits
<1>2. TypeOK /\ LimitsInv /\ [Next]_vars => LimitsInv'
  <2> SUFFICES ASSUME TypeOK, LimitsInv, [Next]_vars PROVE LimitsInv'
    OBVIOUS
  <2>1. ASSUME NEW b \in Batches, EnqueueStart(b) PROVE LimitsInv'
    BY <2>1 DEF EnqueueStart, LimitsInv, WithinLimits
  <2>2. ASSUME NEW n \in newID, WriteRecord(n) PROVE LimitsInv'
    BY <2>2 DEF WriteRecord, LimitsInv, WithinLimits
  <2>3. ASSUME NEW leak \in {0, 1}, WriteFails(leak) PROVE LimitsInv'
    BY <2>3, FewerFit DEF WriteFails
  <2>4. ASSUME NEW H \in SUBSET files, PruneNothing(H) PROVE LimitsInv'
    <3>1. /\ Fits(files \ H) /\ files' \ strays' \in SUBSET (files \ H)
          /\ files \ H \in SUBSET (DOMAIN log)
      BY <2>4 DEF PruneNothing, Skips, TypeOK
    <3>2. Fits(files' \ strays')
      BY <3>1, FitsMonotone
    <3>3. Fits(files \ strays)' <=> Fits(files' \ strays')
      BY <2>4, BytesNext DEF PruneNothing, Pruning
    <3> QED
      BY <2>4, <3>2, <3>3 DEF PruneNothing, Pruning, LimitsInv, WithinLimits
  <2>41. ASSUME NEW skipped \in Skipping, NEW stuck \in Sticking,
                NEW H \in SUBSET (files \ Coalesced(skipped)), Prune(skipped, H, stuck)
         PROVE  LimitsInv'
    <3>1. ~failed' => Fits(files' \ strays')
      BY <2>41, PruneFits
    <3>2. Fits(files \ strays)' <=> Fits(files' \ strays')
      BY <2>41, BytesNext DEF Prune, Pruning
    <3> QED
      BY <2>41, <3>1, <3>2 DEF Prune, Pruning, LimitsInv, WithinLimits
  <2>42. ASSUME NEW skipped \in Skipping, PruneFails(skipped) PROVE LimitsInv'
    BY <2>42, FewerFit DEF PruneFails, Pruning, Drop
  <2>5. ASSUME NEW d \in Drainers, Drain(d) PROVE LimitsInv'
    <3>1. /\ log' = log /\ files' \in SUBSET files /\ strays \subseteq strays'
          /\ failed' = failed
          /\ mu' = "enqueue" => mu = "enqueue"
      BY <2>5
      DEF Drain, DrainStart, Peek, PeekDrops, PeekKeeps, PeekEnds, Peeking, ListsFirst,
          Skips, Drop, PublishAcked, PublishWritten, PublishUnacked, PublishFails,
          RemoveSent, RemoveFails, disk, enqVars
    <3> QED
      BY <3>1, FewerFit
  <2>6. ASSUME NEW lost \in SUBSET files, NEW back \in SUBSET (DOMAIN log \ files),
               NEW bad \in SUBSET DOMAIN log, NEW leak \in {0, 1},
               Crash(lost, back, bad, leak)
        PROVE  LimitsInv'
    BY <2>6, FewerFit DEF Crash
  <2>7. CASE UNCHANGED vars
    BY <2>7, FewerFit DEF vars, disk, enqVars
  <2> QED
    BY <2>1, <2>2, <2>3, <2>4, <2>41, <2>42, <2>5, <2>6, <2>7 DEF Next, Enqueue
<1>3. LimitsInv => WithinLimits
  BY DEF LimitsInv
<1> QED
  BY <1>1, <1>2, <1>3, TypeCorrect, PTL DEF Spec

(* "the oldest remaining messages are removed" because the limits "are      *)
(* exceeded": where only their number is, pruning removes no more than it   *)
(* takes, whichever obsolete snapshots it coalesced and whatever it failed  *)
(* to list, to read or to remove.                                           *)
THEOREM KeepsWhatFitsIn == Spec => KeepsWhatFits
<1>1. ASSUME TypeOK, NEW skipped, NEW stuck, NEW H \in SUBSET (files \ Coalesced(skipped)),
             Prune(skipped, H, stuck), Bytes(files) <= MaxBytes
      PROVE  \E C \in SUBSET (Obsolete \ files') : RemovesNoMore(C)
  <2> DEFINE C == Coalesced(skipped)
             rest == Rest(skipped, H)
  <2>1. files' = files \ (C \cup Cut(skipped, H, stuck))
    BY <1>1 DEF Prune, Drop
  <2>2. C \in SUBSET (Obsolete \ files')
    BY <2>1 DEF Coalesced
  <2>3. ASSUME NEW f \in files \ (files' \cup C)
        PROVE  ~Fits(files' \cup From(files \ C, f))
    <3>1. f \in rest \ Kept(rest)
      BY <2>1, <2>3 DEF Cut
    <3>2. rest \in SUBSET (DOMAIN log) /\ rest \in SUBSET files /\ files \in SUBSET (DOMAIN log)
      BY <1>1 DEF Rest, TypeOK
    <3>3. Bytes(rest) <= MaxBytes
      <4> HIDE DEF rest
      <4> QED
        BY <1>1, <3>2, BytesMonotone, LimitsAssumption
    <3>4. ~Fits(From(rest, f))
      <4> HIDE DEF rest
      <4> QED
        BY <1>1, <3>1, <3>2, <3>3, CutFromTheFront DEF Fits
    <3>5. From(rest, f) \in SUBSET (files' \cup From(files \ C, f))
      BY DEF From, Rest
    <3>6. files' \cup From(files \ C, f) \in SUBSET (DOMAIN log)
      BY <2>1, <3>2 DEF From
    <3> HIDE DEF rest, C
    <3> QED
      BY <1>1, <3>4, <3>5, <3>6, FitsMonotone
  <2> HIDE DEF C
  <2> QED
    BY <2>2, <2>3 DEF RemovesNoMore
<1>2. ASSUME NEW C \in SUBSET Obsolete, files' = files \ C
      PROVE  \E D \in SUBSET (Obsolete \ files') : RemovesNoMore(D)
  <2>1. C \in SUBSET (Obsolete \ files') /\ RemovesNoMore(C)
    BY <1>2 DEF RemovesNoMore
  <2> QED
    BY <2>1
<1>3. TypeOK /\ [Next]_vars =>
        [PruneStep /\ Bytes(files) <= MaxBytes
           => \E C \in SUBSET (Obsolete \ files') : RemovesNoMore(C)]_vars
  <2> SUFFICES ASSUME TypeOK, Next, PruneStep, Bytes(files) <= MaxBytes
               PROVE  \E C \in SUBSET (Obsolete \ files') : RemovesNoMore(C)
    OBVIOUS
  <2>1. ASSUME NEW H \in SUBSET files, PruneNothing(H)
        PROVE  \E C \in SUBSET (Obsolete \ files') : RemovesNoMore(C)
    <3>1. files' = files \ {} /\ {} \in SUBSET Obsolete
      BY <2>1 DEF PruneNothing
    <3> QED
      BY <1>2, <3>1
  <2>2. ASSUME NEW skipped \in Skipping, PruneFails(skipped)
        PROVE  \E C \in SUBSET (Obsolete \ files') : RemovesNoMore(C)
    <3>1. files' = files \ Coalesced(skipped) /\ Coalesced(skipped) \in SUBSET Obsolete
      BY <2>2 DEF PruneFails, Drop, Coalesced
    <3> QED
      BY <1>2, <3>1
  <2>3. ASSUME NEW b \in Batches, EnqueueStart(b) PROVE FALSE
    BY <2>3 DEF EnqueueStart, PruneStep
  <2>4. ASSUME NEW n \in newID, WriteRecord(n) PROVE FALSE
    BY <2>4 DEF WriteRecord, PruneStep
  <2>5. ASSUME NEW leak \in {0, 1}, WriteFails(leak) PROVE FALSE
    BY <2>5 DEF WriteFails, PruneStep
  <2>6. ASSUME NEW d \in Drainers, Drain(d) PROVE FALSE
    BY <2>6
    DEF Drain, DrainStart, Peek, PeekDrops, PeekKeeps, PeekEnds, Peeking, PublishAcked,
        PublishWritten, PublishUnacked, PublishFails, RemoveSent, RemoveFails,
        enqVars, PruneStep
  <2>7. ASSUME NEW lost \in SUBSET files, NEW back \in SUBSET (DOMAIN log \ files),
               NEW bad \in SUBSET DOMAIN log, NEW leak \in {0, 1},
               Crash(lost, back, bad, leak)
        PROVE  FALSE
    BY <2>7 DEF Crash, PruneStep, TypeOK
  <2> QED
    BY <1>1, <2>1, <2>2, <2>3, <2>4, <2>5, <2>6, <2>7 DEF Next, Enqueue
<1> QED
  BY <1>3, TypeCorrect, PTL DEF Spec, KeepsWhatFits

-----------------------------------------------------------------------------
(* The inductive invariant.  drainMu serialises the drains, names follow    *)
(* arrival, and everything still to be sent -- spooled or in flight -- is   *)
(* at least as new as all the broker received; but for the strays.          *)

Serial == \A d \in Drainers : pc[d] # "idle" => drainMu = d

NamedByArrival == \A i \in DOMAIN log : Name(i) = i

Ahead ==
    /\ \A i \in files \ strays : \A r \in received : r <= i
    /\ \A d \in Drainers : flight[d] # 0 =>
          /\ flight[d] \in strays \/ \A r \in received : r <= flight[d]
          /\ \A i \in files \ strays : flight[d] <= i

OrderInv == Serial /\ NamedByArrival /\ Ahead

(* An empty directory is in order.                                          *)
LEMMA OrderInit == Init => OrderInv
  BY DEF Init, OrderInv, Serial, NamedByArrival, Ahead

(* And every step keeps the order.                                          *)
LEMMA OrderStep ==
    ASSUME ClockMonotone = TRUE, TypeOK, OrderInv, [Next]_vars
    PROVE  OrderInv'
<1> USE DEF OrderInv, Serial, NamedByArrival, Ahead
<1>0. \A d, e \in Drainers : pc[d] # "idle" /\ flight[e] # 0 => d = e
  BY DEF TypeOK
<1>1. ASSUME NEW b \in Batches, EnqueueStart(b) PROVE OrderInv'
  BY <1>1 DEF EnqueueStart, Name, disk, drainVars, broker
<1>2. ASSUME NEW n \in newID, WriteRecord(n) PROVE OrderInv'
  <2>1. n = Len(log) + 1 /\ Len(log) \in Nat
    BY DEF newID, TypeOK
  <2> DEFINE new == [name |-> n, topic |-> Head(todo).topic,
                     snap |-> Head(todo).snap, size |-> Head(todo).size]
  <2>2. log' = Append(log, new) /\ new.name = n
    BY <1>2 DEF WriteRecord
  <2> HIDE DEF new
  <2>3. /\ DOMAIN log' = DOMAIN log \cup {Len(log) + 1}
        /\ log'[Len(log) + 1] = new
        /\ \A i \in DOMAIN log : log'[i] = log[i]
    BY <2>2 DEF TypeOK
  <2>4. NamedByArrival'
    BY <2>1, <2>2, <2>3 DEF Name
  <2>5. \A i \in DOMAIN log \cup {0} : i <= Len(log) + 1
    BY <2>1 DEF TypeOK
  <2>6. Ahead'
    BY <1>2, <2>5 DEF WriteRecord, TypeOK, drainVars, broker
  <2> QED
    BY <1>2, <2>4, <2>6 DEF WriteRecord, drainVars
<1>3. ASSUME NEW leak \in {0, 1}, WriteFails(leak) PROVE OrderInv'
  BY <1>3 DEF WriteFails, Name, drainVars, broker
<1>4. ASSUME NEW T, files' = files \ T, strays \subseteq strays', log' = log,
             UNCHANGED <<drainVars, broker>>
      PROVE  OrderInv'
  BY <1>4 DEF Name, drainVars, broker
<1>41. ASSUME NEW H \in SUBSET files, PruneNothing(H) PROVE OrderInv'
  <2>1. files' = files \ {} /\ strays \subseteq strays'
    BY <1>41 DEF PruneNothing, Skips
  <2> QED
    BY <1>4, <1>41, <2>1 DEF PruneNothing, Pruning
<1>42. ASSUME NEW skipped \in Skipping, NEW stuck \in Sticking,
              NEW H \in SUBSET (files \ Coalesced(skipped)), Prune(skipped, H, stuck)
       PROVE  OrderInv'
  BY <1>4, <1>42 DEF Prune, Pruning, Skips, Drop
<1>43. ASSUME NEW skipped \in Skipping, PruneFails(skipped) PROVE OrderInv'
  BY <1>4, <1>43 DEF PruneFails, Pruning, Drop
<1>5. ASSUME NEW d \in Drainers, DrainStart(d) PROVE OrderInv'
  BY <1>5, DrainersAssumption DEF DrainStart, Name, TypeOK, disk, broker
<1>6. ASSUME NEW d \in Drainers, NEW f \in files, Peek(d, f) PROVE OrderInv'
  <2>1. /\ files' = files /\ log' = log /\ received' = received
        /\ pc[d] # "idle" /\ strays' = strays \cup (UpTo(files, f) \ {f})
    BY <1>6 DEF Peek, Peeking, ListsFirst, Skips, broker
  <2>2. f \in DOMAIN log /\ \A g \in files \ strays' : f <= g
    BY <2>1 DEF UpTo, Name, TypeOK
  <2>3. Serial'
    BY <1>6, <2>1 DEF Peek, TypeOK
  <2>4. \A e \in Drainers : flight'[e] # 0 => flight'[e] = f
    BY <1>0, <1>6, <2>1 DEF Peek, TypeOK
  <2>5. f \in strays' \/ \A r \in received : r <= f
    BY <2>1
  <2> QED
    BY <2>1, <2>2, <2>3, <2>4, <2>5 DEF Name
<1>61. ASSUME NEW d \in Drainers, NEW f \in files, PeekDrops(d, f) \/ PeekKeeps(d, f)
       PROVE  OrderInv'
  <2>1. /\ log' = log /\ received' = received /\ flight' = flight
        /\ pc[d] # "idle" /\ files' \subseteq files /\ strays \subseteq strays'
    BY <1>61 DEF PeekDrops, PeekKeeps, Peeking, ListsFirst, Skips, Drop, broker
  <2>2. Serial'
    BY <1>61, <2>1 DEF PeekDrops, PeekKeeps, TypeOK
  <2> QED
    BY <2>1, <2>2 DEF Name
<1>7. ASSUME NEW d \in Drainers, pc[d] # "idle", Release(d),
             log' = log, files' = files, strays' = strays,
             \/ received' = received
             \/ received' = received \cup {flight[d]} /\ flight[d] # 0
      PROVE  OrderInv'
  <2>1. \A e \in Drainers : flight'[e] = 0
    BY <1>0, <1>7 DEF Release, TypeOK
  <2>2. \A e \in Drainers : pc'[e] = "idle"
    BY <1>7 DEF Release, TypeOK
  <2>3. \A i \in files \ strays : \A r \in received' : r <= i
    BY <1>7
  <2> QED
    BY <1>7, <2>1, <2>2, <2>3 DEF Name
<1>8. ASSUME NEW d \in Drainers, PeekEnds(d) PROVE OrderInv'
  <2>1. /\ pc[d] # "idle" /\ Release(d) /\ received' = received
        /\ log' = log /\ files' = files /\ strays' = strays
    BY <1>8 DEF PeekEnds, Peeking, broker
  <2> QED
    BY <1>7, <2>1
<1>9. ASSUME NEW d \in Drainers, PublishAcked(d) PROVE OrderInv'
  <2>1. \A e \in Drainers : flight[e] # 0 => e = d
    BY <1>0, <1>9 DEF PublishAcked
  <2>2. /\ flight[d] # 0 /\ received' = received \cup {flight[d]}
        /\ flight[d] <= flight[d]
    BY <1>9 DEF PublishAcked, Receive, TypeOK
  <2>3. Serial'
    BY <1>9 DEF PublishAcked, TypeOK
  <2> QED
    BY <1>9, <2>1, <2>2, <2>3 DEF PublishAcked, Name, disk
<1>10. ASSUME NEW d \in Drainers, PublishWritten(d) PROVE OrderInv'
  <2>1. Serial'
    BY <1>10 DEF PublishWritten, TypeOK
  <2> QED
    BY <1>10, <2>1 DEF PublishWritten, Name, disk, broker
<1>11. ASSUME NEW d \in Drainers, PublishUnacked(d) PROVE OrderInv'
  BY <1>7, <1>11 DEF PublishUnacked, Receive, TypeOK, disk
<1>12. ASSUME NEW d \in Drainers, PublishFails(d) PROVE OrderInv'
  <2>1. /\ pc[d] # "idle" /\ Release(d) /\ received' = received
        /\ log' = log /\ files' = files /\ strays' = strays
    BY <1>12 DEF PublishFails, disk, broker
  <2> QED
    BY <1>7, <2>1
<1>13. ASSUME NEW d \in Drainers, RemoveSent(d) PROVE OrderInv'
  <2>1. Serial'
    BY <1>13 DEF RemoveSent, TypeOK
  <2>2. \A e \in Drainers : flight'[e] = 0
    BY <1>0, <1>13 DEF RemoveSent, TypeOK
  <2> QED
    BY <1>13, <2>1, <2>2 DEF RemoveSent, Name, broker
<1>14. ASSUME NEW d \in Drainers, RemoveFails(d) PROVE OrderInv'
  <2>1. /\ pc[d] # "idle" /\ Release(d) /\ received' = received
        /\ log' = log /\ files' = files /\ strays' = strays
    BY <1>14 DEF RemoveFails, disk, broker
  <2> QED
    BY <1>7, <2>1
<1>15. ASSUME NEW lost \in SUBSET files, NEW back \in SUBSET (DOMAIN log \ files),
              NEW bad \in SUBSET DOMAIN log, NEW leak \in {0, 1}, Crash(lost, back, bad, leak)
       PROVE  OrderInv'
  <2>1. /\ log' = log /\ received' = received
        /\ files' \ strays' \subseteq files \ strays
        /\ \A e \in Drainers : pc'[e] = "idle" /\ flight'[e] = 0
    BY <1>15 DEF Crash, broker
  <2> QED
    BY <2>1 DEF Name
<1>16. CASE UNCHANGED vars
  BY <1>16 DEF vars, disk, drainVars, broker, Name
<1> QED
  BY <1>1, <1>2, <1>3, <1>41, <1>42, <1>43, <1>5, <1>6, <1>61, <1>8, <1>9, <1>10,
     <1>11, <1>12, <1>13, <1>14, <1>15, <1>16
  DEF Next, Enqueue, Drain

(* What keeps replay in order, in every reachable state (spool.go:90-172).  *)
THEOREM OrderInvariant ==
    ASSUME ClockMonotone = TRUE
    PROVE  Spec => []OrderInv
<1>1. TypeOK /\ OrderInv /\ [Next]_vars => OrderInv'
  BY OrderStep
<1> QED
  BY <1>1, OrderInit, TypeCorrect, PTL DEF Spec

(* README: on reconnection the spool "is replayed FIFO".  Whatever drains   *)
(* run, whatever fails or is pruned while a record is in flight, the broker *)
(* never receives a record after a later one, unless a listing passed over  *)
(* that record or a crash brought it back.                                  *)
THEOREM ReplayInOrder ==
    ASSUME ClockMonotone = TRUE
    PROVE  Spec => ReplayedInOrder
<1>1. TypeOK /\ OrderInv /\ [Next]_vars =>
        [\/ lastSent' = lastSent
         \/ lastSent' \in strays
         \/ \A r \in received : r <= lastSent']_vars
  <2> DEFINE InOrder == \/ lastSent' = lastSent
                        \/ lastSent' \in strays
                        \/ \A r \in received : r <= lastSent'
  <2> SUFFICES ASSUME TypeOK, OrderInv, Next PROVE InOrder
    OBVIOUS
  <2>1. ASSUME NEW d \in Drainers, pc[d] = "publish", Receive(flight[d]), strays' = strays
        PROVE  InOrder
    BY <2>1 DEF Receive, OrderInv, Ahead, TypeOK
  <2>2. ASSUME NEW d \in Drainers, Drain(d) PROVE InOrder
    BY <2>1, <2>2
    DEF Drain, DrainStart, Peek, PeekDrops, PeekKeeps, PeekEnds, Peeking, PublishAcked,
        PublishWritten, PublishUnacked, PublishFails, RemoveSent, RemoveFails, broker
  <2>3. CASE Enqueue
    BY <2>3 DEF Enqueue, EnqueueStart, WriteRecord, WriteFails, PruneNothing, Prune,
                PruneFails, Pruning, broker
  <2>4. ASSUME NEW lost \in SUBSET files, NEW back \in SUBSET (DOMAIN log \ files),
               NEW bad \in SUBSET DOMAIN log, NEW leak \in {0, 1}, Crash(lost, back, bad, leak)
        PROVE  InOrder
    BY <2>4 DEF Crash, broker
  <2> QED
    BY <2>2, <2>3, <2>4 DEF Next
<1> QED
  BY <1>1, OrderInvariant, TypeCorrect, PTL DEF Spec, ReplayedInOrder

-----------------------------------------------------------------------------
(* What pruning and corruption may take from the middle of the spool.       *)

(* A set of numbers up to N that is not empty has a greatest.               *)
LEMMA GreatestExists ==
    ASSUME NEW N \in Nat, NEW S \in SUBSET (1 .. N), S # {}
    PROVE  \E m \in S : \A x \in S : x <= m
<1> DEFINE After(m) == {x \in S : x > m}
           T == {After(m) : m \in S}
<1>1. IsFiniteSet(S)
  <2>1. IsFiniteSet(1 .. N)
    BY FS_Interval
  <2> QED
    BY <2>1, FS_Subset
<1>2. PICK y \in T : \A z \in SUBSET y : z # y => z \notin T
  <2>1. T \in SUBSET (SUBSET S) /\ T # {}
    OBVIOUS
  <2> HIDE DEF T
  <2> QED
    BY <1>1, <2>1, MinimalSubset
<1>3. PICK m \in S : y = After(m)
  BY <1>2
<1>4. \A z \in S : z \in Int
  OBVIOUS
<1>5. ASSUME NEW x \in S, x > m PROVE FALSE
  <2>1. After(x) \subseteq y /\ x \in y /\ x \notin After(x)
    <3>1. \A z \in S : z > x => z > m
      BY <1>4, <1>5
    <3>2. x \in After(m) /\ ~ (x > x)
      BY <1>4, <1>5
    <3> QED
      BY <1>3, <3>1, <3>2
  <2>2. After(x) \in T
    OBVIOUS
  <2> HIDE DEF After, T
  <2> QED
    BY <1>2, <2>1, <2>2
<1> QED
  BY <1>4, <1>5

(* The second loop removes the front of what it lists: nothing it leaves     *)
(* there is older than what it removes.                                     *)
LEMMA CutBelow ==
    ASSUME TypeOK, NamedByArrival, NEW skipped, NEW H, NEW stuck,
           NEW j \in Cut(skipped, H, stuck),
           NEW i \in files \ (Pruned(skipped, H, stuck) \cup H)
    PROVE  j < i
<1> DEFINE rest == Rest(skipped, H)
<1>1. rest \in SUBSET (DOMAIN log) /\ i \in rest /\ i \in DOMAIN log /\ j \in DOMAIN log
  BY DEF Rest, Pruned, Cut, TypeOK
<1>2. j \in rest \ Kept(rest) /\ UpTo(rest, j) \cap stuck = {}
  BY DEF Cut
<1>3. i \in Kept(rest) \/ UpTo(rest, i) \cap stuck # {}
  BY <1>1 DEF Pruned, Cut
<1> HIDE DEF rest
<1>4. UpTo(rest, j) \cap Kept(rest) = {}
  BY <1>1, <1>2, CutFromTheFront
<1>5. ASSUME i <= j PROVE i \in UpTo(rest, j) /\ UpTo(rest, i) \subseteq UpTo(rest, j)
  <2>1. \A g \in rest : Name(g) = g /\ g \in Int
    BY <1>1 DEF NamedByArrival, TypeOK
  <2> QED
    BY <1>1, <1>2, <1>5, <2>1 DEF UpTo
<1> QED
  BY <1>1, <1>2, <1>3, <1>4, <1>5 DEF TypeOK

\* The records S leave the directory: the front of it, or obsolete snapshots.
GivesUp(S) ==
    /\ S \in SUBSET files /\ files' = files \ S
    /\ log' = log /\ strays \subseteq strays'
    /\ \A j \in S : j \in Obsolete \/ \A i \in files' \ strays' : j < i

(* pruneLocked gives up no other records,                                   *)
LEMMA PruneGivesUp ==
    ASSUME TypeOK, NamedByArrival, NEW skipped, NEW H, NEW stuck, Prune(skipped, H, stuck)
    PROVE  GivesUp(Pruned(skipped, H, stuck))
<1> DEFINE S == Pruned(skipped, H, stuck)
<1>1. /\ S \in SUBSET files /\ files' = files \ S
      /\ log' = log /\ strays' = strays \cup H
  BY Disappearing DEF Prune, Pruning, Drop, Skips, Pruned
<1>2. ASSUME NEW j \in S, j \notin Obsolete, NEW i \in files' \ strays' PROVE j < i
  <2>1. j \in Cut(skipped, H, stuck)
    BY <1>2 DEF Pruned, Coalesced
  <2>2. i \in files \ (S \cup H)
    BY <1>1, <1>2
  <2> QED
    BY <2>1, <2>2, CutBelow
<1> QED
  BY <1>1, <1>2 DEF GivesUp

LEMMA PruneFailsGivesUp ==
    ASSUME NEW skipped, PruneFails(skipped)
    PROVE  GivesUp(Coalesced(skipped))
  BY DEF PruneFails, Pruning, Drop, Coalesced, Obsolete, GivesUp

(* nor does peek,                                                           *)
LEMMA PeekGivesUp ==
    ASSUME TypeOK, NamedByArrival, NEW d \in Drainers, NEW f \in files, PeekDrops(d, f)
    PROVE  GivesUp({f})
<1>1. /\ files' = files \ {f} /\ log' = log
      /\ strays' = strays \cup (UpTo(files, f) \ {f})
  BY DEF PeekDrops, Peeking, Drop, ListsFirst, Skips
<1>2. ASSUME NEW i \in files' \ strays' PROVE f < i
  BY <1>1, <1>2 DEF UpTo, NamedByArrival, Name, TypeOK
<1> QED
  BY <1>1, <1>2 DEF GivesUp

(* nor Drain after a publication.                                           *)
LEMMA SentGivesUp ==
    ASSUME TypeOK, OrderInv, NEW d \in Drainers, RemoveSent(d)
    PROVE  GivesUp({flight[d]} \cap files)
<1>1. /\ files' = files \ {flight[d]} /\ log' = log /\ strays' = strays
      /\ flight[d] # 0 /\ flight[d] \in Nat /\ files \subseteq Nat
  BY DEF RemoveSent, TypeOK
<1>2. \A i \in files \ strays : flight[d] <= i
  BY <1>1 DEF OrderInv, Ahead
<1>3. ASSUME NEW i \in files' \ strays' PROVE flight[d] < i
  BY <1>1, <1>2, <1>3
<1> QED
  BY <1>1, <1>3 DEF GivesUp

(* Pruning leaves a newer snapshot wherever it takes one out from behind a  *)
(* record it leaves.                                                        *)
Supersedes(k, j) == log[k].snap /\ log[k].topic = log[j].topic /\ k > j

(* The newest of the snapshots that supersede a record is not obsolete.     *)
LEMMA NewestSuperseding ==
    ASSUME TypeOK, NamedByArrival, NEW j \in DOMAIN log,
           NEW K \in SUBSET (DOMAIN log), files \subseteq K,
           \E k \in K : Supersedes(k, j)
    PROVE  \E k \in K : Supersedes(k, j) /\ k \notin Obsolete
<1> DEFINE S == {k \in K : Supersedes(k, j)}
<1>1. Len(log) \in Nat /\ S \in SUBSET (1 .. Len(log)) /\ S # {}
  BY DEF TypeOK
<1>2. PICK k \in S : \A x \in S : x <= k
  <2> HIDE DEF S
  <2> QED
    BY <1>1, GreatestExists
<1>3. k \in K /\ Supersedes(k, j) /\ k \in Nat /\ j \in Nat
  BY <1>1, <1>2 DEF TypeOK
<1>4. k \notin Obsolete
  <2> SUFFICES ASSUME k \in Obsolete PROVE FALSE
    OBVIOUS
  <2>1. PICK l \in files : /\ log[l].snap /\ log[l].topic = log[k].topic
                           /\ Name(l) > Name(k)
    BY DEF Obsolete
  <2>2. l > k /\ l \in S
    BY <1>3, <2>1 DEF Supersedes, NamedByArrival, TypeOK, Name
  <2> QED
    BY <1>2, <2>2 DEF TypeOK
<1> QED
  BY <1>3, <1>4

(* A snapshot is obsolete because of a newer one in the directory.          *)
LEMMA ObsoleteSuperseded ==
    ASSUME TypeOK, NamedByArrival, NEW j \in Obsolete
    PROVE  log[j].snap /\ \E k \in files : Supersedes(k, j)
  BY DEF Obsolete, Supersedes, NamedByArrival, Name, TypeOK

(* Giving up the front or obsolete snapshots leaves no other holes.         *)
LEMMA HolesKept ==
    ASSUME TypeOK, NamedByArrival, HolesAreSuperseded, NEW S, GivesUp(S)
    PROVE  HolesAreSuperseded'
<1> DEFINE K == files \cup strays
<1>1. /\ S \in SUBSET files /\ files' = files \ S /\ log' = log /\ strays \subseteq strays'
      /\ K \in SUBSET (DOMAIN log) /\ files \subseteq K /\ DOMAIN log \subseteq Nat
  BY DEF GivesUp, TypeOK
<1>2. ASSUME NEW i \in files' \ strays', NEW j \in DOMAIN log \ (files' \cup strays'), j > i
      PROVE  log[j].snap /\ \E k \in files' \cup strays' : Supersedes(k, j)
  <2>1. log[j].snap /\ \E k \in K : Supersedes(k, j)
    <3>1. CASE j \in files
      <4>1. j \in Obsolete
        BY <1>1, <1>2, <3>1 DEF GivesUp
      <4> QED
        BY <4>1, ObsoleteSuperseded
    <3>2. CASE j \notin files
      BY <1>1, <1>2, <3>2 DEF HolesAreSuperseded, Supersedes
    <3> QED
      BY <3>1, <3>2
  <2>2. PICK k \in K : Supersedes(k, j) /\ k \notin Obsolete
    <3> HIDE DEF K
    <3> QED
      BY <1>1, <1>2, <2>1, NewestSuperseding
  <2>3. k > j /\ k > i
    BY <1>1, <1>2, <2>2 DEF Supersedes
  <2>4. k \notin S
    BY <1>1, <1>2, <2>2, <2>3 DEF GivesUp
  <2> QED
    BY <1>1, <2>1, <2>2, <2>4
<1> QED
  BY <1>1, <1>2 DEF HolesAreSuperseded, Supersedes

(* Every step leaves a superseding snapshot behind each hole it makes.      *)
LEMMA HolesStep ==
    ASSUME ClockMonotone = TRUE, TypeOK, OrderInv, HolesAreSuperseded,
           [Next]_vars
    PROVE  HolesAreSuperseded'
<1>0. NamedByArrival
  BY DEF OrderInv
(* Steps that leave the directory alone.                                    *)
<1>1. ASSUME files' = files, log' = log, strays \subseteq strays'
      PROVE  HolesAreSuperseded'
  <2>1. GivesUp({})
    BY <1>1 DEF GivesUp
  <2> QED
    BY <1>0, <2>1, HolesKept
<1>2. ASSUME NEW n \in newID, WriteRecord(n) PROVE HolesAreSuperseded'
  <2> DEFINE new == [name |-> n, topic |-> Head(todo).topic,
                     snap |-> Head(todo).snap, size |-> Head(todo).size]
  <2>1. log' = Append(log, new) /\ files' = files \cup {Len(log) + 1} /\ strays' = strays
    BY <1>2 DEF WriteRecord
  <2> HIDE DEF new
  <2>2. /\ DOMAIN log' = DOMAIN log \cup {Len(log) + 1}
        /\ \A i \in DOMAIN log : log'[i] = log[i] /\ i <= Len(log)
        /\ Len(log) \in Nat /\ files \subseteq DOMAIN log /\ strays \subseteq DOMAIN log
    BY <2>1 DEF TypeOK
  <2>3. ASSUME NEW i \in files' \ strays', NEW j \in DOMAIN log' \ (files' \cup strays'), j > i
        PROVE  /\ log'[j].snap
               /\ \E k \in files' \cup strays' : /\ k > j /\ log'[k].snap
                                                 /\ log'[k].topic = log'[j].topic
    <3>1. j \in DOMAIN log \ (files \cup strays) /\ i \in files \ strays
      BY <2>1, <2>2, <2>3 DEF TypeOK
    <3>2. /\ log[j].snap
          /\ \E k \in files \cup strays : /\ k > j /\ log[k].snap
                                          /\ log[k].topic = log[j].topic
      BY <2>3, <3>1 DEF HolesAreSuperseded
    <3> QED
      BY <2>1, <2>2, <3>1, <3>2
  <2> QED
    BY <2>3 DEF HolesAreSuperseded
<1>3. ASSUME NEW H \in SUBSET files, PruneNothing(H) PROVE HolesAreSuperseded'
  BY <1>1, <1>3 DEF PruneNothing, Pruning, Skips
<1>4. ASSUME NEW skipped \in Skipping, NEW stuck \in Sticking,
             NEW H \in SUBSET (files \ Coalesced(skipped)), Prune(skipped, H, stuck)
      PROVE  HolesAreSuperseded'
  BY <1>0, <1>4, PruneGivesUp, HolesKept
<1>5. ASSUME NEW skipped \in Skipping, PruneFails(skipped) PROVE HolesAreSuperseded'
  BY <1>0, <1>5, PruneFailsGivesUp, HolesKept
<1>6. ASSUME NEW d \in Drainers, Drain(d) PROVE HolesAreSuperseded'
  <2>1. ASSUME NEW f \in files, Peek(d, f) \/ PeekKeeps(d, f) PROVE HolesAreSuperseded'
    BY <1>1, <2>1 DEF Peek, PeekKeeps, Peeking, ListsFirst, Skips
  <2>2. ASSUME NEW f \in files, PeekDrops(d, f) PROVE HolesAreSuperseded'
    BY <1>0, <2>2, PeekGivesUp, HolesKept
  <2>3. ASSUME RemoveSent(d) PROVE HolesAreSuperseded'
    BY <1>0, <2>3, SentGivesUp, HolesKept
  <2> QED
    BY <1>1, <1>6, <2>1, <2>2, <2>3
    DEF Drain, DrainStart, PeekEnds, Peeking, PublishAcked, PublishWritten,
        PublishUnacked, PublishFails, RemoveFails, disk
<1>7. CASE Enqueue
  BY <1>1, <1>2, <1>3, <1>4, <1>5, <1>7 DEF Enqueue, EnqueueStart, WriteFails, disk
(* What a crash takes or brings back is a stray.                            *)
<1>8. ASSUME NEW lost \in SUBSET files, NEW back \in SUBSET (DOMAIN log \ files),
             NEW bad \in SUBSET DOMAIN log, NEW leak \in {0, 1}, Crash(lost, back, bad, leak)
      PROVE  HolesAreSuperseded'
  <2>1. /\ log' = log /\ files' = (files \ lost) \cup back
        /\ strays' = strays \cup lost \cup back
    BY <1>8 DEF Crash
  <2>2. /\ files' \ strays' \subseteq files \ strays
        /\ DOMAIN log \ (files' \cup strays') \subseteq DOMAIN log \ (files \cup strays)
        /\ files \cup strays \subseteq files' \cup strays'
    BY <2>1
  <2> QED
    BY <2>1, <2>2 DEF HolesAreSuperseded
<1>9. CASE UNCHANGED vars
  BY <1>1, <1>9 DEF vars, disk
<1> QED
  BY <1>6, <1>7, <1>8, <1>9 DEF Next

(* README: "obsolete retained snapshots are coalesced by topic", then "the  *)
(* oldest remaining messages are removed".  A record missing behind an      *)
(* older one that is still spooled is a snapshot that a newer one of its    *)
(* topic supersedes, unless a listing passed over one of the two or a crash *)
(* undid its renaming or removal: nothing else is ever lost from the middle *)
(* of the replay.                                                           *)
THEOREM HolesSuperseded ==
    ASSUME ClockMonotone = TRUE
    PROVE  Spec => []HolesAreSuperseded
<1>1. Init => HolesAreSuperseded
  BY DEF Init, HolesAreSuperseded
<1>2. /\ TypeOK /\ OrderInv /\ HolesAreSuperseded /\ [Next]_vars
      => HolesAreSuperseded'
  BY HolesStep
<1> QED
  BY <1>1, <1>2, OrderInvariant, TypeCorrect, PTL DEF Spec

-----------------------------------------------------------------------------
(* What the broker retains.                                                 *)

(* Every step leaves the newest received snapshot, or a stray, with the     *)
(* broker.                                                                  *)
LEMMA RetainedStep ==
    ASSUME TypeOK, OrderInv, RetainedIsLatest, [Next]_vars
    PROVE  RetainedIsLatest'
<1>1. ASSUME log' = log, UNCHANGED broker, strays \subseteq strays'
      PROVE  RetainedIsLatest'
  BY <1>1 DEF RetainedIsLatest, Snapshots, broker
<1>2. ASSUME NEW n \in newID, WriteRecord(n) PROVE RetainedIsLatest'
  <2> DEFINE new == [name |-> n, topic |-> Head(todo).topic,
                     snap |-> Head(todo).snap, size |-> Head(todo).size]
  <2>1. log' = Append(log, new) /\ UNCHANGED broker /\ strays' = strays
    BY <1>2 DEF WriteRecord
  <2> HIDE DEF new
  <2>2. /\ DOMAIN log' = DOMAIN log \cup {Len(log) + 1}
        /\ \A i \in DOMAIN log : log'[i] = log[i]
    BY <2>1 DEF TypeOK
  <2>3. \A t \in Topics : Snapshots(t) \subseteq Snapshots(t)'
    BY <2>2 DEF Snapshots
  <2>4. \A t \in Topics : Snapshots(t)' \cap received \subseteq Snapshots(t)
    BY <2>2 DEF TypeOK, Snapshots
  <2> QED
    BY <2>1, <2>3, <2>4 DEF broker, RetainedIsLatest
<1>3. ASSUME NEW d \in Drainers, pc[d] = "publish", Receive(flight[d]),
             log' = log, strays' = strays
      PROVE  RetainedIsLatest'
  <2> DEFINE f == flight[d]
  <2>1. /\ f # 0 /\ f \in DOMAIN log /\ DOMAIN log \subseteq Nat
        /\ f \in strays \/ \A r \in received : r <= f
    BY <1>3 DEF TypeOK, OrderInv, Ahead
  <2>2. /\ log[f].snap => retained' = [retained EXCEPT ![log[f].topic] = f]
        /\ ~ log[f].snap => retained' = retained
        /\ received' = received \cup {f}
    BY <1>3 DEF Receive
  <2> HIDE DEF f
  <2>3. \A t : Snapshots(t)' = Snapshots(t)
    BY <1>3 DEF Snapshots
  <2>4. ASSUME NEW t \in Topics, NEW i \in Snapshots(t), i \in received',
               \A j \in Snapshots(t) : j <= i
        PROVE  retained'[t] \in {i} \cup strays
    <3>1. i \in DOMAIN log /\ log[i].snap /\ log[i].topic = t
      BY DEF Snapshots
    <3>2. CASE log[f].snap /\ log[f].topic = t
      <4>1. retained'[t] = f /\ f \in Snapshots(t)
        BY <2>1, <2>2, <3>2 DEF TypeOK, Snapshots
      <4>2. CASE i \in received
        BY <2>1, <2>4, <3>1, <4>1, <4>2
      <4> QED
        BY <2>2, <2>4, <4>1, <4>2
    <3>3. CASE ~ (log[f].snap /\ log[f].topic = t)
      <4>1. retained'[t] = retained[t] /\ i \in received
        BY <2>1, <2>2, <2>4, <3>1, <3>3 DEF TypeOK
      <4> QED
        BY <2>4, <4>1 DEF RetainedIsLatest
    <3> QED
      BY <3>2, <3>3
  <2> QED
    BY <1>3, <2>3, <2>4 DEF RetainedIsLatest
<1>4. ASSUME NEW d \in Drainers, Drain(d) PROVE RetainedIsLatest'
  <2>1. CASE PublishAcked(d) \/ PublishUnacked(d)
    BY <1>3, <2>1 DEF PublishAcked, PublishUnacked, disk
  <2>2. ASSUME ~(PublishAcked(d) \/ PublishUnacked(d))
        PROVE  log' = log /\ UNCHANGED broker /\ strays \subseteq strays'
    BY <1>4, <2>2
    DEF Drain, DrainStart, Peek, PeekDrops, PeekKeeps, PeekEnds, Peeking, ListsFirst,
        Skips, PublishWritten, PublishFails, RemoveSent, RemoveFails, disk, broker
  <2> QED
    BY <1>1, <2>1, <2>2
<1>5. CASE Enqueue
  <2>1. ASSUME \A n \in newID : ~WriteRecord(n)
        PROVE  log' = log /\ UNCHANGED broker /\ strays \subseteq strays'
    BY <1>5, <2>1 DEF Enqueue, EnqueueStart, WriteFails, PruneNothing, Prune, PruneFails,
                      Pruning, Skips, disk, broker
  <2> QED
    BY <1>1, <1>2, <2>1
<1>6. ASSUME NEW lost \in SUBSET files, NEW back \in SUBSET (DOMAIN log \ files),
             NEW bad \in SUBSET DOMAIN log, NEW leak \in {0, 1}, Crash(lost, back, bad, leak)
      PROVE  RetainedIsLatest'
  BY <1>1, <1>6 DEF Crash, broker
<1>7. CASE UNCHANGED vars
  BY <1>1, <1>7 DEF vars, disk
<1> QED
  BY <1>4, <1>5, <1>6, <1>7 DEF Next

(* docs/topic-contract.md: retained snapshots are the "latest successful    *)
(* observation".  Once the newest snapshot of a topic has reached the       *)
(* broker no retry and no second drain puts an older one in its place, but  *)
(* for one that a listing passed over or that a crash brought back.         *)
THEOREM LatestRetained ==
    ASSUME ClockMonotone = TRUE
    PROVE  Spec => []RetainedIsLatest
<1>1. Init => RetainedIsLatest
  BY DEF Init, RetainedIsLatest
<1>2. TypeOK /\ OrderInv /\ RetainedIsLatest /\ [Next]_vars => RetainedIsLatest'
  BY RetainedStep
<1> QED
  BY <1>1, <1>2, OrderInvariant, TypeCorrect, PTL DEF Spec

-----------------------------------------------------------------------------
(* Spool implements SpoolPromise.                                           *)

\* At QoS 1 Drain removes what the broker has received.
ConfirmedInv == QoS = 1 => RemovesReceived

(* Every step of Drain removes only after its publication was received.     *)
LEMMA ConfirmedStep ==
    ASSUME TypeOK, ConfirmedInv, [Next]_vars
    PROVE  ConfirmedInv'
<1> SUFFICES ASSUME QoS = 1, RemovesReceived, NEW e \in Drainers, pc'[e] = "remove"
             PROVE  flight'[e] \in received'
  BY DEF ConfirmedInv, RemovesReceived
<1>1. ASSUME pc'[e] = pc[e], flight'[e] = flight[e], received \subseteq received'
      PROVE  flight'[e] \in received'
  BY <1>1 DEF RemovesReceived
<1>2. CASE Enqueue
  BY <1>1, <1>2
     DEF Enqueue, EnqueueStart, WriteRecord, WriteFails, PruneNothing, Prune, PruneFails,
         Pruning, drainVars, broker
<1>3. ASSUME NEW d \in Drainers, Drain(d) PROVE flight'[e] \in received'
  <2>1. CASE d = e
    <3>1. ASSUME NEW f \in files, Peek(e, f) \/ PeekDrops(e, f) \/ PeekKeeps(e, f)
          PROVE  FALSE
      BY <3>1 DEF Peek, PeekDrops, PeekKeeps, TypeOK
    <3>2. ASSUME \/ DrainStart(e) \/ PeekEnds(e) \/ PublishUnacked(e)
                 \/ PublishFails(e) \/ RemoveSent(e) \/ RemoveFails(e)
          PROVE  FALSE
      BY <3>2 DEF DrainStart, PeekEnds, PublishUnacked, PublishFails, RemoveSent,
                  RemoveFails, Release, TypeOK
    <3>3. PublishAcked(e)
      BY <1>3, <2>1, <3>1, <3>2 DEF Drain, PublishWritten
    <3> QED
      BY <3>3 DEF PublishAcked, Receive
  <2>2. CASE d # e
    <3>1. pc'[e] = pc[e] /\ flight'[e] = flight[e]
      BY <1>3, <2>2
         DEF Drain, DrainStart, Peek, PeekDrops, PeekKeeps, PeekEnds, PublishAcked,
             PublishWritten, PublishUnacked, PublishFails, RemoveSent, RemoveFails,
             Release, TypeOK
    <3>2. received \subseteq received'
      BY <1>3
         DEF Drain, DrainStart, Peek, PeekDrops, PeekKeeps, PeekEnds, Peeking,
             PublishAcked, PublishWritten, PublishUnacked, PublishFails, RemoveSent,
             RemoveFails, Receive, broker
    <3> QED
      BY <1>1, <3>1, <3>2
  <2> QED
    BY <2>1, <2>2
<1>4. ASSUME NEW lost \in SUBSET files, NEW back \in SUBSET (DOMAIN log \ files),
             NEW bad \in SUBSET DOMAIN log, NEW leak \in {0, 1}, Crash(lost, back, bad, leak)
      PROVE  flight'[e] \in received'
  BY <1>4 DEF Crash
<1>5. CASE UNCHANGED vars
  BY <1>1, <1>5 DEF vars, drainVars, broker
<1> QED
  BY <1>2, <1>3, <1>4, <1>5 DEF Next

-----------------------------------------------------------------------------
\* What the refinement mapping makes of log.
Accepted == [i \in DOMAIN log |-> [topic |-> log[i].topic, snap |-> log[i].snap]]

(* Appending to log appends to what the queue has accepted.                 *)
LEMMA AcceptedGrows ==
    ASSUME TypeOK, NEW r, log' = Append(log, r)
    PROVE  Accepted' = Append(Accepted, [topic |-> r.topic, snap |-> r.snap])
<1> DEFINE s == [topic |-> r.topic, snap |-> r.snap]
           n == Len(log)
           U == {s} \cup {Accepted[i] : i \in 1 .. n}
           A == Append(Accepted, s)
<1>1. /\ n \in Nat /\ DOMAIN log = 1 .. n /\ DOMAIN log' = 1 .. (n + 1)
      /\ log'[n + 1] = r /\ \A i \in 1 .. n : log'[i] = log[i]
  BY DEF TypeOK
<1> HIDE DEF n
<1>2. Accepted \in Seq(U) /\ Len(Accepted) = n /\ s \in U
  BY <1>1 DEF Accepted
<1> HIDE DEF U
<1>3. A \in Seq(U) /\ Len(A) = n + 1 /\ A[n + 1] = s /\ \A i \in 1 .. n : A[i] = Accepted[i]
  BY <1>2, AppendProperties
<1>4. Accepted'[n + 1] = s /\ \A i \in 1 .. n : Accepted'[i] = Accepted[i]
  BY <1>1 DEF Accepted
<1>5. Accepted' = [i \in 1 .. (n + 1) |-> Accepted'[i]]
  BY <1>1 DEF Accepted
<1>6. A = [i \in 1 .. (n + 1) |-> A[i]]
  BY <1>1, <1>3
<1>7. \A i \in 1 .. (n + 1) : Accepted'[i] = A[i]
  BY <1>1, <1>3, <1>4
<1> HIDE DEF A
<1> QED
  BY <1>5, <1>6, <1>7 DEF A, s

\* Steps that the outside does not see.
LEMMA Unseen ==
    ASSUME UNCHANGED <<log, files, strays, broker>>
    PROVE  UNCHANGED Promise!vars
  BY DEF Promise!vars, broker

(* Records that go unsent are the front of the spool, or superseded.        *)
LEMMA Discards ==
    ASSUME TypeOK, NamedByArrival, NEW S, GivesUp(S), UNCHANGED broker,
           NEW H \in SUBSET files, strays' = strays \cup H
    PROVE  Promise!Next
<1>1. /\ S \in SUBSET files /\ files' = files \ S /\ log' = log
      /\ files \in SUBSET (DOMAIN log) /\ DOMAIN log \subseteq Nat
  BY DEF GivesUp, TypeOK
<1>2. ASSUME NEW j \in S, NEW i \in files' \ strays', ~(j < i)
      PROVE  Promise!Superseded(j, files \ S)
  <2>1. j \in Obsolete /\ j \in DOMAIN log
    BY <1>1, <1>2 DEF GivesUp
  <2>2. log[j].snap /\ \E k \in files : Supersedes(k, j)
    BY <2>1, ObsoleteSuperseded
  <2>3. PICK k \in files : Supersedes(k, j) /\ k \notin Obsolete
    BY <1>1, <2>1, <2>2, NewestSuperseding
  <2>4. k \notin S
    BY <1>1, <1>2, <2>1, <2>3 DEF GivesUp, Supersedes
  <2> QED
    BY <1>1, <2>1, <2>2, <2>3, <2>4 DEF Promise!Superseded, Supersedes
<1>3. files' \ strays' = files \ (S \cup strays')
  BY <1>1
<1>4. \A j \in S : \/ \A i \in files \ (S \cup strays') : j < i
                   \/ Promise!Superseded(j, files \ S)
  BY <1>2, <1>3, Zenon
<1>5. Promise!Discard(S, H)
  BY <1>1, <1>4 DEF Promise!Discard, broker
<1> QED
  BY <1>1, <1>5 DEF Promise!Next

(* A listing that passes over files only sets them aside.                   *)
LEMMA SetsAside ==
    ASSUME TypeOK, NamedByArrival, UNCHANGED <<log, files, broker>>,
           NEW H \in SUBSET files, strays' = strays \cup H
    PROVE  Promise!Next
<1>1. GivesUp({})
  BY DEF GivesUp
<1>2. UNCHANGED broker
  OBVIOUS
<1> QED
  BY <1>1, <1>2, Discards

(* pruneLocked is one Discard of the queue.                                 *)
LEMMA PruneDiscards ==
    ASSUME TypeOK, OrderInv, NEW skipped \in Skipping, NEW stuck \in Sticking,
           NEW H \in SUBSET (files \ Coalesced(skipped)), Prune(skipped, H, stuck)
    PROVE  Promise!Next
<1>1. UNCHANGED broker /\ strays' = strays \cup H /\ H \in SUBSET files
  BY DEF Prune, Pruning, Skips
<1>2. NamedByArrival /\ GivesUp(Pruned(skipped, H, stuck))
  BY PruneGivesUp DEF OrderInv
<1> QED
  BY <1>1, <1>2, Discards

LEMMA PruneFailsDiscards ==
    ASSUME TypeOK, OrderInv, NEW skipped \in Skipping, PruneFails(skipped)
    PROVE  Promise!Next
<1>1. UNCHANGED broker /\ strays' = strays \cup {} /\ {} \in SUBSET files
  BY DEF PruneFails, Pruning
<1>2. NamedByArrival /\ GivesUp(Coalesced(skipped))
  BY PruneFailsGivesUp DEF OrderInv
<1> QED
  BY <1>1, <1>2, Discards

(* So is every listing of peek that shows a file.                           *)
LEMMA PeekDiscards ==
    ASSUME TypeOK, OrderInv, NEW d \in Drainers, NEW f \in files,
           Peek(d, f) \/ PeekDrops(d, f) \/ PeekKeeps(d, f)
    PROVE  Promise!Next
<1> DEFINE H == UpTo(files, f) \ {f}
<1>1. UNCHANGED <<log, broker>> /\ strays' = strays \cup H
  BY DEF Peek, PeekDrops, PeekKeeps, Peeking, ListsFirst, Skips
<1>2. H \in SUBSET files /\ NamedByArrival
  BY DEF UpTo, OrderInv
<1> HIDE DEF H
<1>3. CASE PeekDrops(d, f)
  BY <1>1, <1>2, <1>3, PeekGivesUp, Discards
<1>4. CASE Peek(d, f) \/ PeekKeeps(d, f)
  <2>1. UNCHANGED <<log, files, broker>>
    BY <1>1, <1>4 DEF Peek, PeekKeeps
  <2> QED
    BY <1>1, <1>2, <2>1, SetsAside
<1> QED
  BY <1>3, <1>4

(* Drain sends the oldest, and nothing older than what it has sent, but for *)
(* what was set aside.                                                      *)
LEMMA Delivers ==
    ASSUME TypeOK, OrderInv, NEW d \in Drainers, pc[d] = "publish", Receive(flight[d]),
           UNCHANGED <<log, files, strays>>
    PROVE  Promise!Next
<1> DEFINE f == flight[d]
<1>1. f # 0 /\ f \in DOMAIN log
  BY DEF TypeOK
<1>2. /\ f \in strays \/ \A r \in received : r <= f
      /\ \A j \in files \ strays : f <= j
  BY <1>1 DEF OrderInv, Ahead
<1>3. /\ received' = received \cup {f}
      /\ retained' = IF log[f].snap THEN [retained EXCEPT ![log[f].topic] = f] ELSE retained
  BY DEF Receive
<1> HIDE DEF f
<1>4. Promise!Deliver(f)
  BY <1>1, <1>2, <1>3 DEF Promise!Deliver
<1> QED
  BY <1>1, <1>4 DEF Promise!Next

(* os.Remove of a sent record is one Confirm, or nothing once pruned.       *)
LEMMA Confirms ==
    ASSUME TypeOK, OrderInv, ConfirmedInv, NEW d \in Drainers, RemoveSent(d)
    PROVE  [Promise!Next]_(Promise!vars)
<1> DEFINE f == flight[d]
<1>1. UNCHANGED <<log, strays, broker>> /\ files' = files \ {f}
  BY DEF RemoveSent
<1>2. CASE f \notin files
  <2>1. files' = files
    BY <1>1, <1>2
  <2> QED
    BY <1>1, <2>1, Unseen
<1>3. CASE f \in files
  <2>1. f # 0 /\ \A j \in files \ strays : f <= j
    BY DEF RemoveSent, OrderInv, Ahead, TypeOK
  <2>2. QoS = 1 => f \in received
    BY DEF RemoveSent, ConfirmedInv, RemovesReceived
  <2>3. f \in DOMAIN log
    BY <1>3 DEF TypeOK
  <2> HIDE DEF f
  <2>4. Promise!Confirm(f)
    BY <1>1, <1>3, <2>1, <2>2 DEF Promise!Confirm, broker
  <2> QED
    BY <2>3, <2>4 DEF Promise!Next
<1> QED
  BY <1>2, <1>3

(* writeAtomic of a record is one Accept.                                   *)
LEMMA Accepts ==
    ASSUME TypeOK, NEW n \in newID, WriteRecord(n)
    PROVE  Promise!Next
<1> DEFINE new == [name |-> n, topic |-> Head(todo).topic,
                   snap |-> Head(todo).snap, size |-> Head(todo).size]
           r == [topic |-> new.topic, snap |-> new.snap]
<1>1. /\ log' = Append(log, new) /\ files' = files \cup {Len(log) + 1} /\ UNCHANGED <<strays, broker>>
  BY DEF WriteRecord
<1>2. r \in Promise!Record
  <2>1. Head(todo) \in Payload
    BY DEF WriteRecord, TypeOK
  <2> QED
    BY <2>1 DEF Payload, Promise!Record
<1> HIDE DEF new
<1>3. Accepted' = Append(Accepted, r)
  BY <1>1, AcceptedGrows
<1>4. Len(Accepted) = Len(log)
  BY DEF Accepted, TypeOK
<1>5. PICK q \in Promise!Record : q = r
  BY <1>2
<1> HIDE DEF r
<1>6. Promise!Accept(q)
  BY <1>1, <1>3, <1>4, <1>5 DEF Promise!Accept, Accepted, broker
<1> QED
  BY <1>6 DEF Promise!Next

(* A restart after a crash is one Relapse.                                  *)
LEMMA Relapses ==
    ASSUME TypeOK, NEW lost \in SUBSET files, NEW back \in SUBSET (DOMAIN log \ files),
           NEW bad \in SUBSET DOMAIN log, NEW leak \in {0, 1}, Crash(lost, back, bad, leak)
    PROVE  Promise!Next
<1>1. UNCHANGED <<log, broker>> /\ files' = (files \ lost) \cup back
  BY DEF Crash
<1>2. strays' = (strays \cup lost) \cup back
  BY DEF Crash
<1>3. Promise!Relapse(lost, back)
  BY <1>1, <1>2 DEF Promise!Relapse, broker
<1>4. DOMAIN Accepted = DOMAIN log
  BY DEF Accepted
<1> QED
  BY <1>3, <1>4 DEF Promise!Next, Accepted

(* Every step of the spool is a step of the queue, or a stutter.            *)
LEMMA StepImplements ==
    ASSUME TypeOK, OrderInv, ConfirmedInv, ClockMonotone = TRUE, [Next]_vars
    PROVE  [Promise!Next]_(Promise!vars)
<1>1. CASE Enqueue
  <2>1. ASSUME NEW H \in SUBSET files, PruneNothing(H) PROVE Promise!Next
    BY <2>1, SetsAside DEF PruneNothing, Pruning, Skips, OrderInv
  <2> QED
    BY <1>1, <2>1, Accepts, PruneDiscards, PruneFailsDiscards, Unseen
       DEF Enqueue, EnqueueStart, WriteFails, disk
<1>2. ASSUME NEW d \in Drainers, Drain(d) PROVE [Promise!Next]_(Promise!vars)
  <2>1. CASE \E f \in files : Peek(d, f) \/ PeekDrops(d, f) \/ PeekKeeps(d, f)
    BY <2>1, PeekDiscards
  <2>2. CASE PublishAcked(d) \/ PublishUnacked(d)
    BY <2>2, Delivers DEF PublishAcked, PublishUnacked, disk
  <2>3. CASE RemoveSent(d)
    BY <2>3, Confirms
  <2>4. CASE \/ DrainStart(d) \/ PeekEnds(d) \/ PublishWritten(d)
             \/ PublishFails(d) \/ RemoveFails(d)
    BY <2>4, Unseen
       DEF DrainStart, PeekEnds, Peeking, PublishWritten, PublishFails, RemoveFails, disk
  <2> QED
    BY <1>2, <2>1, <2>2, <2>3, <2>4 DEF Drain
<1>3. ASSUME NEW lost \in SUBSET files, NEW back \in SUBSET (DOMAIN log \ files),
             NEW bad \in SUBSET DOMAIN log, NEW leak \in {0, 1}, Crash(lost, back, bad, leak)
      PROVE  [Promise!Next]_(Promise!vars)
  BY <1>3, Relapses
<1>4. CASE UNCHANGED vars
  BY <1>4, Unseen DEF vars, disk
<1> QED
  BY <1>1, <1>2, <1>3, <1>4 DEF Next

\* README: "a bounded disk spool", "replayed FIFO".  Whatever drains and
\* enqueues interleave, whatever fails and whatever a crash undoes, the spool is
\* the first-in first-out store of SpoolPromise: it accepts in order, gives up
\* only the oldest or the superseded, delivers in order and, at QoS 1, lets go
\* of nothing before the broker has it; the records set aside, that a listing
\* passed over or a crash took or brought back, are all that escapes the order.
THEOREM Implements ==
    ASSUME ClockMonotone = TRUE
    PROVE  Spec => KeepsPromise
<1>1. Init => Promise!Init
  <2> SUFFICES ASSUME Init PROVE Promise!Init
    OBVIOUS
  <2>1. log = <<>> /\ files = {} /\ strays = {} /\ received = {}
        /\ retained = [t \in Topics |-> 0]
    BY DEF Init
  <2>2. Accepted = <<>>
    BY <2>1 DEF Accepted
  <2> QED
    BY <2>1, <2>2 DEF Promise!Init, Accepted
<1>2. Init => ConfirmedInv
  BY DEF Init, ConfirmedInv, RemovesReceived
<1>3. TypeOK /\ ConfirmedInv /\ [Next]_vars => ConfirmedInv'
  BY ConfirmedStep
<1>4. TypeOK /\ OrderInv /\ ConfirmedInv /\ [Next]_vars => [Promise!Next]_(Promise!vars)
  BY StepImplements
<1> QED
  BY <1>1, <1>2, <1>3, <1>4, OrderInvariant, TypeCorrect, PTL
     DEF Spec, KeepsPromise, Promise!Spec
=============================================================================
