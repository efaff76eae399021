---------------------------- MODULE AdmissionPool ----------------------------
(***************************************************************************)
(* What the transcode budget promises, with no counter, lock or retry: each *)
(* user of the pool holds a grant of 0, 1 (audio) or 2 (video) units, and   *)
(* the grants outstanding at any moment never add up to more than Budget.   *)
(* Streaming implements it with SessionManager.TryAcquire and its release   *)
(* closures.                                                               *)
(***************************************************************************)
EXTENDS Naturals, FiniteSets

CONSTANTS User, Budget
VARIABLE grant

Holders(c) == {u \in User : grant[u] = c}

\* Units granted in the pool.
Granted == 2 * Cardinality(Holders(2)) + Cardinality(Holders(1))

Init == grant = [u \in User |-> 0]

\* A grant of c units, only if they fit.
Acquire(u, c) ==
  /\ grant[u] = 0
  /\ Granted + c <= Budget
  /\ grant' = [grant EXCEPT ![u] = c]

Return(u) ==
  /\ grant[u] # 0
  /\ grant' = [grant EXCEPT ![u] = 0]

\* The process ends and every grant with it.
Clear == grant' = [u \in User |-> 0]

Next ==
  \/ \E u \in User, c \in {1, 2} : Acquire(u, c)
  \/ \E u \in User : Return(u)
  \/ Clear

Spec == Init /\ [][Next]_grant
=============================================================================
