--------------------------- MODULE MCRemoteAccess ---------------------------
(* Model-checking instance of RemoteAccess: codes are already canonical. *)
EXTENDS RemoteAccess, TLC

MCSpelling == Code
MCCanonicalCode == [x \in Code |-> x]

Symmetry ==
  Permutations(Registrars) \cup Permutations(Callers) \cup Permutations(Peer)
    \cup Permutations(Handler) \cup Permutations(Sid) \cup Permutations(BoxCode) \cup Permutations(Ip)
=============================================================================
