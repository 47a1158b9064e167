---------------------------- MODULE SpoolPromise ----------------------------
(***************************************************************************)
(* What the spool promises to the rest of the agent and to the consumers   *)
(* behind the broker, without files, locks or goroutines: a bounded        *)
(* first-in first-out store that delivers at least once.  Its one excuse   *)
(* are records set aside: they are out of the order, and their snapshots   *)
(* may come late.                                                          *)
(*                                                                         *)
(* Module Spool implements it.                                             *)
(***************************************************************************)
EXTENDS Integers, Sequences

CONSTANTS
    Topics,     \* topics of the records
    AtLeastOnce \* is a record kept until the broker has confirmed it?

Record == [topic : Topics, snap : BOOLEAN]

VARIABLES
    accepted,   \* every record the spool has taken, in order
    held,       \* those it still holds, by number
    aside,      \* those it has set aside, held or not
    received,   \* those the broker has received at least once
    retained    \* the one the broker retains for each topic, 0 for none

vars == <<accepted, held, aside, received, retained>>

\* A record the spool gave up without sending it, though it kept an older one,
\* must be a snapshot that a newer one of its topic stands in for.
Superseded(j, S) ==
    /\ accepted[j].snap
    /\ \E k \in S : /\ k > j /\ accepted[k].snap
                    /\ accepted[k].topic = accepted[j].topic

Init ==
    /\ accepted = <<>> /\ held = {} /\ aside = {}
    /\ received = {}
    /\ retained = [t \in Topics |-> 0]

Accept(r) ==
    /\ accepted' = Append(accepted, r)
    /\ held' = held \cup {Len(accepted) + 1}
    /\ UNCHANGED <<aside, received, retained>>

\* The spool sets the records H aside and gives up the records S: the oldest of
\* those not set aside, or superseded ones.
Discard(S, H) ==
    /\ S \subseteq held /\ H \subseteq held
    /\ aside' = aside \cup H
    /\ \A j \in S : \/ \A i \in held \ (S \cup aside') : j < i
                    \/ Superseded(j, held \ S)
    /\ held' = held \ S
    /\ UNCHANGED <<accepted, received, retained>>

\* The broker receives a record, maybe again: never one that overtakes a record
\* still held, nor one older than what was received before, set aside apart.
Deliver(i) ==
    /\ i \in aside \/ \A r \in received : r <= i
    /\ \A j \in held \ aside : i <= j
    /\ received' = received \cup {i}
    /\ retained' = IF accepted[i].snap
                   THEN [retained EXCEPT ![accepted[i].topic] = i] ELSE retained
    /\ UNCHANGED <<accepted, held, aside>>

\* The spool lets go of the oldest record, which the broker has confirmed.
Confirm(i) ==
    /\ i \in held /\ \A j \in held \ aside : i <= j
    /\ AtLeastOnce => i \in received
    /\ held' = held \ {i}
    /\ UNCHANGED <<accepted, aside, received, retained>>

\* The host stops: records vanish or come back, and are set aside.
Relapse(lost, back) ==
    /\ held' = (held \ lost) \cup back
    /\ aside' = aside \cup lost \cup back
    /\ UNCHANGED <<accepted, received, retained>>

Next ==
    \/ \E r \in Record : Accept(r)
    \/ \E S, H \in SUBSET held : Discard(S, H)
    \/ \E i \in DOMAIN accepted : Deliver(i) \/ Confirm(i)
    \/ \E lost \in SUBSET held, back \in SUBSET (DOMAIN accepted \ held) :
          Relapse(lost, back)

Spec == Init /\ [][Next]_vars
=============================================================================
