------------------------ MODULE IdentityStoreProofs ------------------------
(***************************************************************************)
(* Proofs, for every value of the constants, that the concurrent upserts  *)
(* of IdentityStore keep the identities collection well typed and free of *)
(* duplicate user names and external ids.                                  *)
(***************************************************************************)
EXTENDS IdentityStore, TLAPS

(* A request whose selector matched is about to replace a document that   *)
(* is still there: documents are never deleted or re-keyed, so the match  *)
(* seen by the query step is not stale at the write step.  Without this   *)
(* conjunct UniqueIdentities is not inductive: a replacement whose match  *)
(* had vanished would insert without the index check.                      *)
MatchStillPresent ==
    \A r \in Requests :
        pc[r] = "write" /\ matched[r] => \E d \in identities : Selects(d, doc[r])

IInv == TypeOK /\ UniqueIdentities /\ MatchStillPresent

-----------------------------------------------------------------------------
(* The document a query step builds is an Identity.                        *)
LEMMA NewDocIsIdentity ==
    ASSUME NEW u \in UserNames, NEW e \in ExternalIDs, NEW i \in Infos
    PROVE  [username |-> u, external_id |-> e, uuid |-> UUID(u), info |-> i]
               \in Identity
BY DEF Identity, UUIDs

(* The initial state is well typed.                                        *)
LEMMA InitTypeOK == Init => TypeOK
<1>1. NoDoc \in Identity
  BY StoreAssumption DEF NoDoc, Identity, UUIDs
<1>2. QED
  BY <1>1 DEF Init, TypeOK, Results

(* Every step of the concurrent upserts keeps the collection a set of    *)
(* well-formed identities and each request's state in its range.         *)
LEMMA TypeStep == TypeOK /\ [Next]_vars => TypeOK'
<1> SUFFICES ASSUME TypeOK, [Next]_vars PROVE TypeOK'
  OBVIOUS
<1>1. ASSUME NEW r \in Requests, NEW u \in UserNames, NEW e \in ExternalIDs,
             NEW i \in Infos, UpsertQuery(r, u, e, i)
      PROVE  TypeOK'
  BY <1>1, NewDocIsIdentity DEF UpsertQuery, TypeOK, Results
<1>2. ASSUME NEW r \in Requests, UpsertUpdate(r) PROVE TypeOK'
  BY <1>2 DEF UpsertUpdate, TypeOK, Results
<1>3. ASSUME NEW r \in Requests, UpsertInsert(r) PROVE TypeOK'
  BY <1>3 DEF UpsertInsert, TypeOK, Results
<1>4. ASSUME NEW r \in Requests, UpsertDup(r) PROVE TypeOK'
  BY <1>4 DEF UpsertDup, TypeOK, Results
<1>5. CASE UNCHANGED vars
  BY <1>5 DEF vars, TypeOK
<1>6. QED
  BY <1>1, <1>2, <1>3, <1>4, <1>5 DEF Next

(* Type correctness: every step of the concurrent upserts keeps the      *)
(* collection a set of well-formed identities and each request's state in *)
(* its range.                                                              *)
THEOREM StoreTypeCorrect == Spec => []TypeOK
BY InitTypeOK, TypeStep, PTL DEF Spec

(* The inductive invariant holds in the initial state.                     *)
LEMMA InitIInv == Init => IInv
<1> SUFFICES ASSUME Init PROVE IInv
  OBVIOUS
<1>1. TypeOK
  BY InitTypeOK
<1>2. UniqueIdentities
  BY DEF Init, UniqueIdentities
<1>3. MatchStillPresent
  BY DEF Init, MatchStillPresent
<1>4. QED
  BY <1>1, <1>2, <1>3 DEF IInv

(* A replacement keeps the collection free of duplicates and keeps every   *)
(* pending match present: the document it writes has the keys of the one *)
(* it removes, and no other document shares either key with that one.     *)
LEMMA UpdateIInv ==
    ASSUME IInv, NEW r \in Requests, UpsertUpdate(r)
    PROVE  IInv'
<1> DEFINE nd == doc[r]
           Rest == {d \in identities : ~Selects(d, nd)}
<1>1. identities' = Rest \cup {nd}
  BY DEF UpsertUpdate
<1>2. PICK s \in identities : Selects(s, nd)
  BY DEF IInv, MatchStillPresent, UpsertUpdate
<1>3. TypeOK'
  BY DEF IInv, TypeOK, UpsertUpdate, Results
<1>4. \A d \in Rest : d.username # nd.username /\ d.external_id # nd.external_id
  BY <1>2 DEF IInv, UniqueIdentities, Selects
<1>5. UniqueIdentities'
  BY <1>1, <1>4 DEF IInv, UniqueIdentities
<1>6. MatchStillPresent'
  <2> SUFFICES ASSUME NEW q \in Requests, pc'[q] = "write", matched'[q]
               PROVE  \E d \in identities' : Selects(d, doc'[q])
    BY DEF MatchStillPresent
  <2>1. q # r /\ pc[q] = "write" /\ matched[q] /\ doc'[q] = doc[q]
    BY DEF IInv, TypeOK, UpsertUpdate
  <2>2. PICK t \in identities : Selects(t, doc[q])
    BY <2>1 DEF IInv, MatchStillPresent
  <2>3. CASE Selects(t, nd)
    BY <1>1, <2>1, <2>2, <2>3 DEF Selects
  <2>4. CASE ~Selects(t, nd)
    BY <1>1, <2>1, <2>2, <2>4
  <2>5. QED
    BY <2>3, <2>4
<1>7. QED
  BY <1>3, <1>5, <1>6 DEF IInv

(* Every step of the concurrent upserts preserves the inductive invariant.*)
LEMMA NextIInv == IInv /\ [Next]_vars => IInv'
<1> SUFFICES ASSUME IInv, [Next]_vars PROVE IInv'
  OBVIOUS
<1>1. ASSUME NEW r \in Requests, NEW u \in UserNames, NEW e \in ExternalIDs,
             NEW i \in Infos, UpsertQuery(r, u, e, i)
      PROVE  IInv'
  <2>1. TypeOK'
    BY <1>1, NewDocIsIdentity DEF IInv, UpsertQuery, TypeOK, Results
  <2>2. UniqueIdentities'
    BY <1>1 DEF IInv, UpsertQuery, UniqueIdentities
  <2>3. MatchStillPresent'
    BY <1>1 DEF IInv, TypeOK, UpsertQuery, MatchStillPresent
  <2>4. QED
    BY <2>1, <2>2, <2>3 DEF IInv
<1>2. ASSUME NEW r \in Requests, UpsertUpdate(r) PROVE IInv'
  BY <1>2, UpdateIInv
<1>3. ASSUME NEW r \in Requests, UpsertInsert(r) PROVE IInv'
  <2>1. TypeOK'
    BY <1>3 DEF IInv, UpsertInsert, TypeOK, Results
  <2>2. UniqueIdentities'
    BY <1>3 DEF IInv, UpsertInsert, UniqueIdentities, IndexClash
  <2>3. MatchStillPresent'
    BY <1>3 DEF IInv, TypeOK, UpsertInsert, MatchStillPresent
  <2>4. QED
    BY <2>1, <2>2, <2>3 DEF IInv
<1>4. ASSUME NEW r \in Requests, UpsertDup(r) PROVE IInv'
  <2>1. TypeOK'
    BY <1>4 DEF IInv, UpsertDup, TypeOK, Results
  <2>2. UniqueIdentities'
    BY <1>4 DEF IInv, UpsertDup, UniqueIdentities
  <2>3. MatchStillPresent'
    BY <1>4 DEF IInv, TypeOK, UpsertDup, MatchStillPresent
  <2>4. QED
    BY <2>1, <2>2, <2>3 DEF IInv
<1>5. CASE UNCHANGED vars
  BY <1>5 DEF vars, IInv, TypeOK, UniqueIdentities, MatchStillPresent
<1>6. QED
  BY <1>1, <1>2, <1>3, <1>4, <1>5 DEF Next

(* The store's uniqueness invariant holds in every reachable state, for    *)
(* any number of concurrent request handlers, user names and external     *)
(* ids: the unique indexes created by ensureIndexes make the              *)
(* non-atomic upsert of UpsertIdentity safe against double inserts.       *)
THEOREM Uniqueness == Spec => []UniqueIdentities
<1>1. Spec => []IInv
  BY InitIInv, NextIInv, PTL DEF Spec
<1>2. QED
  BY <1>1, PTL DEF IInv
-----------------------------------------------------------------------------
(* Every stored document, and every document a request is upserting, has *)
(* the UUID that UpsertIdentity derives from its user name.               *)
UUIDsDerived ==
    /\ \A d \in identities : d.uuid = UUID(d.username)
    /\ \A r \in Requests : doc[r].uuid = UUID(doc[r].username)

KInv == TypeOK /\ UUIDsDerived

(* One step keeps, for every stored document, one with its keys and UUID. *)
KeysKept ==
    \A d \in identities :
        \E d2 \in identities' : /\ d2.username = d.username
                                /\ d2.external_id = d.external_id
                                /\ d2.uuid = d.uuid

(* Initially nothing is stored, and NoDoc's UUID is its name's.            *)
LEMMA InitKInv == Init => KInv
BY InitTypeOK DEF Init, KInv, UUIDsDerived, NoDoc

(* A replacement writes a document with the keys of the one it removes,   *)
(* and both carry the UUID of their common user name.                      *)
LEMMA UpdateKeysKept ==
    ASSUME KInv, NEW r \in Requests, UpsertUpdate(r)
    PROVE  KeysKept
<1>1. identities' = {d \in identities : ~Selects(d, doc[r])} \cup {doc[r]}
  BY DEF UpsertUpdate
<1>2. SUFFICES ASSUME NEW d \in identities
               PROVE  \E d2 \in identities' : /\ d2.username = d.username
                                              /\ d2.external_id = d.external_id
                                              /\ d2.uuid = d.uuid
  BY DEF KeysKept
<1>3. CASE Selects(d, doc[r])
  <2>1. doc[r].username = d.username /\ doc[r].external_id = d.external_id
    BY <1>3 DEF Selects
  <2>2. doc[r].uuid = d.uuid
    BY <2>1 DEF KInv, UUIDsDerived
  <2>3. QED
    BY <1>1, <2>1, <2>2
<1>4. CASE ~Selects(d, doc[r])
  BY <1>1, <1>4
<1>5. QED
  BY <1>3, <1>4

(* Every step keeps KInv, and keeps every stored document's keys and UUID. *)
LEMMA NextKInv == KInv /\ [Next]_vars => KInv' /\ [KeysKept]_identities
<1> SUFFICES ASSUME KInv, [Next]_vars PROVE KInv' /\ [KeysKept]_identities
  OBVIOUS
<1>1. TypeOK'
  BY TypeStep DEF KInv
<1>2. ASSUME NEW r \in Requests, NEW u \in UserNames, NEW e \in ExternalIDs,
             NEW i \in Infos, UpsertQuery(r, u, e, i)
      PROVE  KInv' /\ KeysKept
  BY <1>1, <1>2 DEF KInv, UUIDsDerived, UpsertQuery, TypeOK, KeysKept
<1>3. ASSUME NEW r \in Requests, UpsertUpdate(r) PROVE KInv' /\ KeysKept
  <2>1. UUIDsDerived'
    BY <1>3 DEF KInv, UUIDsDerived, UpsertUpdate
  <2>2. QED
    BY <1>1, <1>3, <2>1, UpdateKeysKept DEF KInv
<1>4. ASSUME NEW r \in Requests, UpsertInsert(r) PROVE KInv' /\ KeysKept
  BY <1>1, <1>4 DEF KInv, UUIDsDerived, UpsertInsert, KeysKept
<1>5. ASSUME NEW r \in Requests, UpsertDup(r) PROVE KInv' /\ KeysKept
  BY <1>1, <1>5 DEF KInv, UUIDsDerived, UpsertDup, KeysKept
<1>6. CASE UNCHANGED vars
  BY <1>1, <1>6 DEF vars, KInv, UUIDsDerived
<1>7. QED
  BY <1>2, <1>3, <1>4, <1>5, <1>6 DEF Next

(* No upsert ever deletes a stored identity or changes its UserName,      *)
(* ExternalID or UUID, however the two halves of concurrent upserts       *)
(* interleave: the UUID handed out for a user is stable.                  *)
THEOREM KeysStable == Spec => IdentityKeysStable
<1>1. Init => KInv
  BY InitKInv
<1>2. KInv /\ [Next]_vars => KInv' /\ [KeysKept]_identities
  BY NextKInv
<1>3. QED
  BY <1>1, <1>2, PTL DEF Spec, IdentityKeysStable, KeysKept

=============================================================================
