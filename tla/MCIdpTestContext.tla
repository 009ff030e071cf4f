------------------------ MODULE MCIdpTestContext ------------------------
(* Model-checking instance of IdpTestContext: two provider goroutines, two *)
(* user names, two external ids and two payloads.  With two names at most *)
(* two users can be stored, so the bound of two entries, which TypeOK *)
(* checks is never exceeded, cuts off no append of the code.              *)
EXTENDS IdpTestContext, TLC

CONSTANTS c1, c2, u1, u2, e1, e2, i1, i2

MCCallers == {c1, c2}
MCUserNames == {u1, u2}
MCExternalIDs == {e1, e2}
MCInfos == {i1, i2}
MCMaxUsers == 2
=============================================================================
