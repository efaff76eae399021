------------------------------ MODULE MCBroker ------------------------------
(* Model-checking instance of Broker: codes are written in two ways. *)
EXTENDS Broker, TLC

MCSpelling == Code \X {"plain", "dashed"}
MCCanonicalCode == [x \in MCSpelling |-> x[1]]

Symmetry ==
  Permutations(Conn) \cup Permutations(Code \ {NoCode}) \cup Permutations(Sid)
    \cup Permutations(ServerId)
=============================================================================
