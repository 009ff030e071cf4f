---------------------------- MODULE MCIdpHandler ----------------------------
(* Model-checking instance of IdpHandler: three concurrent login requests,   *)
(* two user names, two external ids and two agent owners.  Each request's *)
(* credential and requested name are chosen in Init, so two users, two    *)
(* agents, or a user and an agent can ask for the same name at once.      *)
EXTENDS IdpHandler, TLC

CONSTANTS r1, r2, r3, n1, n2, e1, e2, o1, o2

MCRequests == {r1, r2, r3}
MCUserNames == {n1, n2}
MCExternalIDs == {e1, e2}
MCOwners == {o1, o2}

MCSymmetry == Permutations(MCRequests)
=============================================================================
