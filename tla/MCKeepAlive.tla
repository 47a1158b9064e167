---------------------------- MODULE MCKeepAlive ----------------------------
(* Instances of KeepAlive for model checking.                              *)
EXTENDS KeepAlive

\* In units of 2.5 s: unset, half the least interval, the least interval, 10 s,
\* 20 s, the default 30 s, and one that exceeds what CONNECT can say.
SomeAlives == {0, 1, 2, 4, 8, 12, 20}
=============================================================================
