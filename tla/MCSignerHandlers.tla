-------------------------- MODULE MCSignerHandlers --------------------------
(* Values of the constants of SignerHandlers for TLC. *)
EXTENDS SignerHandlers, TLC

TwoTokens == <<5, 6>>

(* Longer than the right key. *)
LongForgery == {<<"forged", "longer">>}

(* Requests and messages are all alike. *)
Symmetry == Permutations(Requests) \cup Permutations(Messages)
=============================================================================
