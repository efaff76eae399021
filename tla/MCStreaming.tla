----------------------------- MODULE MCStreaming -----------------------------
(* Model-checking instance of Streaming. *)
EXTENDS Streaming, TLC

\* Viewers are interchangeable, and so are session ids.
Symmetry == Permutations(Request) \cup Permutations(Key)

Viewers == {r \in Request : req[r].key # None}

\* Two viewers do whatever they like; a third one only where it matters: while all start
\* and join HLS sessions in the first life of the daemon, under a cap in the file of
\* two, the budget that two videos fill and a third asks too much of.
TwoOrTogether ==
  \/ Cardinality(Viewers) <= 2
  \/ /\ \A r \in Viewers : req[r].mode = "video"
     /\ restarts = 0 /\ cfgCap = 2
=============================================================================
