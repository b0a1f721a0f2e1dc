---------------------------- MODULE MCRateLimit ----------------------------
(***************************************************************************)
(* RateLimit for TLC: the calls are interchangeable.                       *)
(***************************************************************************)
EXTENDS RateLimit, TLC

CallSymmetry == Permutations(Call)
=============================================================================
