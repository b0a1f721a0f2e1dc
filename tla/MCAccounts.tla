----------------------------- MODULE MCAccounts -----------------------------
(***************************************************************************)
(* Accounts for TLC: requests and session ids are interchangeable.         *)
(***************************************************************************)
EXTENDS Accounts, TLC

Symmetry == Permutations(Request) \cup Permutations(Session)
=============================================================================
