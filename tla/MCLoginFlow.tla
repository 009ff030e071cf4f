--------------------------- MODULE MCLoginFlow ---------------------------
(* Model-checking instance of LoginFlow: three login requests sharing a   *)
(* pool of two stores (so that Get can fail while two handlers race on    *)
(* one wait token), one wait token and two users.                         *)
EXTENDS LoginFlow, TLC

CONSTANTS l1, l2, l3, t1, u1, u2

MCLogins == {l1, l2, l3}
MCTokens == {t1}
MCUsers == {u1, u2}
MCPoolSize == 2
=============================================================================
