------------------------- MODULE UserStoreContract -------------------------
(***************************************************************************)
(* The contract of UpdateUser that identity providers rely on (spec 4.1,  *)
(* 4.5), as one atomic step per call: a user whose UserName and           *)
(* ExternalID both match a stored one replaces it; one that shares only   *)
(* one of the two with a stored user fails with AlreadyExists; any other  *)
(* is added.  A call may also fail with an error of the store itself,     *)
(* which changes nothing.                                                  *)
(***************************************************************************)
CONSTANTS Callers, UserNames, ExternalIDs, Infos

User == [username : UserNames, external_id : ExternalIDs, info : Infos]

VARIABLES users, result

(* The stored user with both keys of u, and one sharing exactly one key.   *)
SameKeys(v, u) == v.username = u.username /\ v.external_id = u.external_id
OneKeyShared(v, u) == (v.username = u.username) # (v.external_id = u.external_id)

ContractInit ==
    /\ users = {}
    /\ result = [c \in Callers |-> "none"]

Update(c, u) ==
    \/ /\ \E v \in users : SameKeys(v, u)
       /\ users' = {v \in users : ~SameKeys(v, u)} \cup {u}
       /\ result' = [result EXCEPT ![c] = "ok"]
    \/ /\ \E v \in users : OneKeyShared(v, u)
       /\ result' = [result EXCEPT ![c] = "AlreadyExists"]
       /\ UNCHANGED users
    \/ /\ \A v \in users : v.username # u.username /\ v.external_id # u.external_id
       /\ users' = users \cup {u}
       /\ result' = [result EXCEPT ![c] = "ok"]

StoreFails(c) ==
    /\ result' = [result EXCEPT ![c] = "error"]
    /\ UNCHANGED users

ContractNext == \E c \in Callers : StoreFails(c) \/ \E u \in User : Update(c, u)

ContractSpec == ContractInit /\ [][ContractNext]_<<users, result>>
=============================================================================
