--------------------------- MODULE MCRegistration ---------------------------
(***************************************************************************)
(* Registration for TLC: a clean export with a duplicate, one with a       *)
(* malformed line, and two identities of one person.                       *)
(***************************************************************************)
EXTENDS Registration

CONSTANTS e1, e2

OneProfile == [i \in Identity |-> e1]
TwoExports == {<<e1, e2, e1>>, <<e2, None, e1>>}
=============================================================================
