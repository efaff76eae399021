------------------------------ MODULE DeviceLife ------------------------------
(***************************************************************************)
(* What pairing promises about a device, with no token in sight: it is     *)
(* paired once, under an identity of its own, and when it has been signed  *)
(* out (by itself, the operator, time, or the detection of a replayed      *)
(* token) it never comes back.  Tokens implements it with rows of refresh  *)
(* tokens.                                                                 *)
(***************************************************************************)
CONSTANT Device
VARIABLE life

Init == life \in [Device -> {"new", "paired"}]

\* A new device is paired.
Pair(d) ==
  /\ life[d] = "new"
  /\ life' = [life EXCEPT ![d] = "paired"]

\* Paired devices are signed out, several at a time perhaps.
End(D) ==
  /\ \A d \in D : life[d] = "paired"
  /\ life' = [d \in Device |-> IF d \in D THEN "ended" ELSE life[d]]

Next == (\E d \in Device : Pair(d)) \/ (\E D \in SUBSET Device : End(D))

Spec == Init /\ [][Next]_life
=============================================================================
