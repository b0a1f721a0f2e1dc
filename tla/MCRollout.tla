----------------------------- MODULE MCRollout -----------------------------
(***************************************************************************)
(* Rollout for TLC: two replicas of a new build, one of the old.           *)
(***************************************************************************)
EXTENDS Rollout, TLC

CONSTANTS r1, r2, r3, old, new

Builds == (r1 :> 2 @@ r2 :> 2 @@ r3 :> 1)

\* A slip, then a rotation that lets every replica learn the new key before one uses it.
Careful == << <<old>>, <<old, old>>, <<old, new>>, <<new, old>>, <<new>> >>

\* keyring.go: "add the new key in front, deploy, and only then drop the old one".
Documented == << <<old>>, <<new, old>>, <<new>> >>
=============================================================================
