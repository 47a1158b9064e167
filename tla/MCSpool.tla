------------------------------ MODULE MCSpool ------------------------------
(* Instances of Spool for model checking.                                  *)
EXTENDS Spool, TLC

CONSTANTS loop, onConnect, ta, tb

Event == [topic |-> ta, snap |-> FALSE, size |-> 1]
BigEvent == [topic |-> ta, snap |-> FALSE, size |-> 3]
Snap(t) == [topic |-> t, snap |-> TRUE, size |-> 1]

\* The records of one observation, as enqueueObservation spools them: an event
\* and, when the collection succeeded, a snapshot.
Successes == {<<Event, Snap(ta)>>, <<Event, Snap(tb)>>}
Observations == {<<Event>>} \cup Successes
\* The event of a failed collection may take most of the spool.
LargeObservations == {<<BigEvent>>} \cup Successes

DrainerSymmetry == Permutations({loop, onConnect})
=============================================================================
