------------------------- MODULE MCIdentityStore -------------------------
(* Model-checking instance of IdentityStore: two concurrent request        *)
(* handlers, two user names, two external ids and two payloads, enough for *)
(* two first logins of the same new user to race, and for a login to      *)
(* clash with a different user on one key only.                            *)
EXTENDS IdentityStore, TLC

CONSTANTS r1, r2, u1, u2, e1, e2, i1, i2

MCRequests == {r1, r2}
MCUserNames == {u1, u2}
MCExternalIDs == {e1, e2}
MCInfos == {i1, i2}

MCSymmetry == Permutations(MCRequests) \cup Permutations(MCInfos)
=============================================================================
