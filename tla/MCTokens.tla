------------------------------- MODULE MCTokens -------------------------------
(* Model-checking instance of Tokens. *)
EXTENDS Tokens, TLC

Symmetry == Permutations(Token \ Legacy) \cup Permutations(Device) \cup Permutations(Call)
=============================================================================
