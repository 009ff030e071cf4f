------------------------ MODULE IdpTestContextProofs ------------------------
(***************************************************************************)
(* Proofs, for any callers, names, ids, payloads and slice bound, that     *)
(* idptest.TestContext keeps its users slice well typed and that it        *)
(* implements the atomic UpdateUser contract of UserStoreContract.  Both   *)
(* rest on one invariant: no two entries of the slice share a user name   *)
(* or an external id.  Then the first entry that shares a key with a new  *)
(* user is the only candidate of its kind, and the Go loop's "first"      *)
(* picks what the contract's set-level conditions describe.               *)
(***************************************************************************)
EXTENDS IdpTestContext, SequenceTheorems, TLAPS

Slice == {users[i] : i \in 1..Len(users)}

KeysDistinct ==
    \A i, j \in 1..Len(users) :
        i # j => /\ users[i].username # users[j].username
                 /\ users[i].external_id # users[j].external_id

IInv == TypeOK /\ KeysDistinct

-----------------------------------------------------------------------------
AtMostTwo(I) == \A x, y, z \in I : x = y \/ y = z \/ x = z

(* A non-empty set of at most two naturals has a least element.            *)
LEMMA LeastOfAtMostTwo ==
    ASSUME NEW I \in SUBSET Nat, I # {}, AtMostTwo(I)
    PROVE  \E i \in I : \A j \in I : i <= j
<1>1. PICK a \in I : TRUE
  OBVIOUS
<1>2. CASE \A j \in I : a <= j
  BY <1>2
<1>3. CASE \E b \in I : ~(a <= b)
  <2>1. PICK b \in I : ~(a <= b)
    BY <1>3
  <2>2. \A j \in I : b <= j
    BY <2>1 DEF AtMostTwo
  <2>3. QED
    BY <2>2
<1>4. QED
  BY <1>2, <1>3

(* Under KeysDistinct, the indices of entries that share a key with u, or  *)
(* that have a given key, are at most two, so the least one exists.       *)
LEMMA LeastSharing ==
    ASSUME IInv, NEW u \in User, NEW I \in SUBSET (1..Len(users)), I # {},
           \A i \in I : users[i].username = u.username
                        \/ users[i].external_id = u.external_id
    PROVE  /\ (CHOOSE i \in I : \A j \in I : i <= j) \in I
           /\ \A j \in I : (CHOOSE i \in I : \A j2 \in I : i <= j2) <= j
<1>1. AtMostTwo(I)
  BY DEF IInv, KeysDistinct, AtMostTwo
<1>2. \E i \in I : \A j \in I : i <= j
  BY <1>1, LeastOfAtMostTwo
<1>3. QED
  BY <1>2

(* What FirstSharing returns: 0 when no entry shares a key with u, and     *)
(* otherwise an index of an entry that does.                               *)
LEMMA FirstSharingSpec ==
    ASSUME IInv, NEW u \in User
    PROVE  /\ FirstSharing(u) = 0 <=>
                 \A i \in 1..Len(users) : users[i].username # u.username
                                          /\ users[i].external_id # u.external_id
           /\ FirstSharing(u) # 0 =>
                 /\ FirstSharing(u) \in 1..Len(users)
                 /\ \/ users[FirstSharing(u)].username = u.username
                    \/ users[FirstSharing(u)].external_id = u.external_id
<1> DEFINE I == {i \in 1..Len(users) : users[i].username = u.username
                                       \/ users[i].external_id = u.external_id}
<1>1. CASE I = {}
  BY <1>1 DEF FirstSharing
<1>2. CASE I # {}
  <2>1. (CHOOSE i \in I : \A j \in I : i <= j) \in I
    BY <1>2, LeastSharing
  <2>2. FirstSharing(u) = CHOOSE i \in I : \A j \in I : i <= j
    BY <1>2 DEF FirstSharing
  <2>3. FirstSharing(u) \in 1..Len(users)
    BY <2>1, <2>2
  <2>4. FirstSharing(u) # 0
    BY <2>3
  <2>5. ~ \A i \in 1..Len(users) : users[i].username # u.username
                                   /\ users[i].external_id # u.external_id
    BY <1>2
  <2>6. \/ users[FirstSharing(u)].username = u.username
        \/ users[FirstSharing(u)].external_id = u.external_id
    BY <2>1, <2>2
  <2>7. QED
    BY <2>3, <2>4, <2>5, <2>6
<1>3. QED
  BY <1>1, <1>2

(* The entries FindUserByName or FindUserByExternalId looks through all   *)
(* have one user name, or all have one external id.                       *)
OneKey(I) ==
    \/ \A i, j \in I : users[i].username = users[j].username
    \/ \A i, j \in I : users[i].external_id = users[j].external_id

(* What FindBy returns is an entry of the slice, or NotFound.              *)
LEMMA FoundIsUser ==
    ASSUME IInv, NEW I \in SUBSET (1..Len(users)), OneKey(I), NEW b \in BOOLEAN
    PROVE  (IF b \/ I = {} THEN NotFound
            ELSE users[CHOOSE i \in I : \A j \in I : i <= j]) \in User \cup {NotFound}
<1>1. users \in Seq(User) /\ Len(users) \in Nat
  BY DEF IInv, TypeOK
<1>2. CASE ~b /\ I # {}
  <2>1. AtMostTwo(I)
    BY DEF OneKey, IInv, KeysDistinct, AtMostTwo
  <2>2. \E i \in I : \A j \in I : i <= j
    BY <1>1, <1>2, <2>1, LeastOfAtMostTwo
  <2>3. (CHOOSE i \in I : \A j \in I : i <= j) \in I
    BY <2>2
  <2>4. users[CHOOSE i \in I : \A j \in I : i <= j] \in User
    BY <1>1, <2>3, LenProperties
  <2>5. QED
    BY <1>2, <2>4
<1>3. QED
  BY <1>2

-----------------------------------------------------------------------------
(* The invariant holds initially, and the contract starts where the fake  *)
(* does.                                                                   *)
LEMMA InitIInv == Init => IInv /\ Contract!ContractInit
<1> SUFFICES ASSUME Init PROVE IInv /\ Contract!ContractInit
  OBVIOUS
<1>1. users = << >> /\ Len(users) = 0
  BY DEF Init
<1>2. TypeOK
  <2>1. username \in UserNames
    BY TestContextAssumption DEF Init
  <2>2. users \in Seq(User)
    BY <1>1, EmptySeq
  <2>3. Len(users) <= MaxUsers
    BY <1>1, TestContextAssumption
  <2>4. result \in [Callers -> {"none", "ok", "AlreadyExists", "error"}]
    BY DEF Init
  <2>5. found \in [Callers -> User \cup {NotFound}]
    BY DEF Init
  <2>6. QED
    BY <2>1, <2>2, <2>3, <2>4, <2>5 DEF Init, TypeOK
<1>3. KeysDistinct /\ Slice = {}
  BY <1>1 DEF KeysDistinct, Slice
<1>4. QED
  BY <1>2, <1>3 DEF IInv, Init, Contract!ContractInit

(* UpdateUser appends a user that shares no key with any entry: the       *)
(* contract's insert.                                                      *)
LEMMA AppendStep ==
    ASSUME IInv, NEW c \in Callers, NEW u \in User, UpdateUser(c, u),
           FirstSharing(u) = 0
    PROVE  IInv' /\ Contract!Update(c, u)
<1>1. users \in Seq(User) /\ Len(users) \in Nat
  BY LenProperties DEF IInv, TypeOK
<1>2. /\ Len(users) < MaxUsers
      /\ users' = Append(users, u)
      /\ result' = [result EXCEPT ![c] = "ok"]
      /\ UNCHANGED <<found, paramsSet, username, usernameSet, errSet, injected>>
  BY DEF UpdateUser, injected
<1>3. \A i \in 1..Len(users) : users[i].username # u.username
                               /\ users[i].external_id # u.external_id
  BY FirstSharingSpec
<1>4. /\ users' \in Seq(User)
      /\ Len(users') = Len(users) + 1
      /\ \A i \in 1..Len(users) : users'[i] = users[i]
      /\ users'[Len(users) + 1] = u
  BY <1>1, <1>2, AppendProperties
<1>5. TypeOK'
  <2>1. Len(users') <= MaxUsers
    BY <1>1, <1>2, <1>4, TestContextAssumption
  <2>2. result' \in [Callers -> {"none", "ok", "AlreadyExists", "error"}]
    BY <1>2 DEF IInv, TypeOK
  <2>3. QED
    BY <1>2, <1>4, <2>1, <2>2 DEF IInv, TypeOK, injected
<1>6. KeysDistinct'
  <2> SUFFICES ASSUME NEW i \in 1..Len(users'), NEW j \in 1..Len(users'), i # j
               PROVE  /\ users'[i].username # users'[j].username
                      /\ users'[i].external_id # users'[j].external_id
    BY DEF KeysDistinct
  <2>1. CASE i \in 1..Len(users) /\ j \in 1..Len(users)
    BY <2>1, <1>4 DEF IInv, KeysDistinct
  <2>2. CASE i = Len(users) + 1 /\ j \in 1..Len(users)
    BY <2>2, <1>3, <1>4
  <2>3. CASE j = Len(users) + 1 /\ i \in 1..Len(users)
    BY <2>3, <1>3, <1>4
  <2>4. QED
    BY <1>1, <1>4, <2>1, <2>2, <2>3
<1>7. Slice' = Slice \cup {u}
  BY <1>1, <1>4 DEF Slice
<1>8. \A v \in Slice : v.username # u.username /\ v.external_id # u.external_id
  BY <1>3 DEF Slice
<1>9. QED
  BY <1>2, <1>5, <1>6, <1>7, <1>8 DEF IInv, Contract!Update, Slice

(* UpdateUser replaces the entry with both keys of u: the contract's       *)
(* replacement, since no other entry has either key.                      *)
LEMMA ReplaceStep ==
    ASSUME IInv, NEW c \in Callers, NEW u \in User, UpdateUser(c, u),
           FirstSharing(u) # 0,
           users[FirstSharing(u)].username = u.username,
           users[FirstSharing(u)].external_id = u.external_id
    PROVE  IInv' /\ Contract!Update(c, u)
<1> DEFINE k == FirstSharing(u)
<1>1. users \in Seq(User) /\ Len(users) \in Nat
  BY LenProperties DEF IInv, TypeOK
<1>2. k \in 1..Len(users)
  BY FirstSharingSpec
<1>3. /\ users' = [users EXCEPT ![k] = u]
      /\ result' = [result EXCEPT ![c] = "ok"]
      /\ UNCHANGED <<found, paramsSet, username, usernameSet, errSet, injected>>
  BY DEF UpdateUser, injected
<1>4. /\ users' \in Seq(User)
      /\ Len(users') = Len(users)
      /\ \A j \in 1..Len(users) : users'[j] = IF j = k THEN u ELSE users[j]
  BY <1>1, <1>2, <1>3, ExceptSeq
<1>5. \A j \in 1..Len(users) : /\ users'[j].username = users[j].username
                               /\ users'[j].external_id = users[j].external_id
  BY <1>4
<1>6. TypeOK'
  <2>1. result' \in [Callers -> {"none", "ok", "AlreadyExists", "error"}]
    BY <1>3 DEF IInv, TypeOK
  <2>2. QED
    BY <1>3, <1>4, <2>1 DEF IInv, TypeOK, injected
<1>7. KeysDistinct'
  BY <1>4, <1>5 DEF IInv, KeysDistinct
<1>8. \A j \in 1..Len(users) : j # k => ~Contract!SameKeys(users[j], u)
  BY <1>2 DEF IInv, KeysDistinct, Contract!SameKeys
<1>9. Slice' = {v \in Slice : ~Contract!SameKeys(v, u)} \cup {u}
  <2>1. Slice' \subseteq {v \in Slice : ~Contract!SameKeys(v, u)} \cup {u}
    BY <1>4, <1>8 DEF Slice
  <2>2. u \in Slice'
    BY <1>2, <1>4 DEF Slice
  <2>3. \A v \in Slice : ~Contract!SameKeys(v, u) => v \in Slice'
    BY <1>2, <1>4, <1>8 DEF Slice, Contract!SameKeys
  <2>4. QED
    BY <2>1, <2>2, <2>3
<1>10. \E v \in Slice : Contract!SameKeys(v, u)
  BY <1>2 DEF Slice, Contract!SameKeys
<1>11. QED
  BY <1>3, <1>6, <1>7, <1>9, <1>10 DEF IInv, Contract!Update, Slice

(* UpdateUser refuses u on the first entry that shares one key with it:   *)
(* the contract's AlreadyExists.                                           *)
LEMMA RefuseStep ==
    ASSUME IInv, NEW c \in Callers, NEW u \in User, UpdateUser(c, u),
           FirstSharing(u) # 0,
           ~ (/\ users[FirstSharing(u)].username = u.username
              /\ users[FirstSharing(u)].external_id = u.external_id)
    PROVE  IInv' /\ Contract!Update(c, u)
<1> DEFINE k == FirstSharing(u)
<1>1. k \in 1..Len(users)
  BY FirstSharingSpec
<1>2. /\ result' = [result EXCEPT ![c] = "AlreadyExists"]
      /\ UNCHANGED <<users, found, paramsSet, username, usernameSet, errSet, injected>>
  BY DEF UpdateUser, injected
<1>3. Contract!OneKeyShared(users[k], u)
  BY FirstSharingSpec DEF Contract!OneKeyShared
<1>4. users[k] \in Slice
  BY <1>1 DEF Slice
<1>5. IInv'
  BY <1>2 DEF IInv, TypeOK, KeysDistinct, injected
<1>6. Slice' = Slice
  BY <1>2 DEF Slice
<1>7. QED
  BY <1>2, <1>3, <1>4, <1>5, <1>6 DEF Contract!Update, Slice

(* Every step of the fake keeps the invariant and is a step of the        *)
(* contract on the slice seen as a set, or leaves the set and the results *)
(* alone.                                                                  *)
LEMMA NextStep ==
    IInv /\ [Next]_vars => IInv' /\ [Contract!ContractNext]_<<Slice, result>>
<1> SUFFICES ASSUME IInv, [Next]_vars
             PROVE  IInv' /\ [Contract!ContractNext]_<<Slice, result>>
  OBVIOUS
<1> USE DEF IInv, TypeOK, KeysDistinct
<1>1. CASE Params \/ LoginFailure \/ UNCHANGED vars
  <2>1. UNCHANGED <<users, result, found, username, injected>>
    BY <1>1 DEF Params, LoginFailure, vars, injected
  <2>2. QED
    BY <1>1, <2>1 DEF Params, LoginFailure, vars, injected, Slice
<1>2. CASE \E n \in UserNames : LoginSuccess(n)
  BY <1>2 DEF LoginSuccess, injected, Slice
<1>3. CASE \E c \in Callers : UpdateUserFails(c)
  <2>1. PICK c \in Callers : UpdateUserFails(c)
    BY <1>3
  <2>2. Contract!StoreFails(c)
    BY <2>1 DEF UpdateUserFails, Contract!StoreFails, Slice
  <2>3. QED
    BY <2>1, <2>2 DEF UpdateUserFails, injected, Contract!ContractNext
<1>4. CASE \E c \in Callers, u \in User : UpdateUser(c, u)
  <2>1. PICK c \in Callers, u \in User : UpdateUser(c, u)
    BY <1>4
  <2>2. IInv' /\ Contract!Update(c, u)
    BY <2>1, AppendStep, ReplaceStep, RefuseStep
  <2>3. QED
    BY <2>2 DEF Contract!ContractNext, Contract!User, User
<1>5. CASE \E c \in Callers, n \in UserNames : FindUserByName(c, n)
  <2>1. PICK c \in Callers, n \in UserNames : FindUserByName(c, n)
    BY <1>5
  <2> DEFINE I == {i \in 1..Len(users) : users[i].username = n}
  <2>2. OneKey(I)
    BY DEF OneKey
  <2>3. (IF findError \/ I = {} THEN NotFound
         ELSE users[CHOOSE i \in I : \A j \in I : i <= j]) \in User \cup {NotFound}
    BY <2>2, FoundIsUser
  <2>4. QED
    BY <2>1, <2>3 DEF FindUserByName, FindBy, injected, Slice
<1>6. CASE \E c \in Callers, e \in ExternalIDs : FindUserByExternalId(c, e)
  <2>1. PICK c \in Callers, e \in ExternalIDs : FindUserByExternalId(c, e)
    BY <1>6
  <2> DEFINE I == {i \in 1..Len(users) : users[i].external_id = e}
  <2>2. OneKey(I)
    BY DEF OneKey
  <2>3. (IF findError \/ I = {} THEN NotFound
         ELSE users[CHOOSE i \in I : \A j \in I : i <= j]) \in User \cup {NotFound}
    BY <2>2, FoundIsUser
  <2>4. QED
    BY <2>1, <2>3 DEF FindUserByExternalId, FindBy, injected, Slice
<1>7. QED
  BY <1>1, <1>2, <1>3, <1>4, <1>5, <1>6 DEF Next

-----------------------------------------------------------------------------
(* The fake's variables keep their types in every reachable state; in     *)
(* particular the users slice never outgrows its bound.                    *)
THEOREM TestContextTypeCorrect == Spec => []TypeOK
<1>1. Init => IInv
  BY InitIInv
<1>2. IInv /\ [Next]_vars => IInv'
  BY NextStep
<1>3. QED
  BY <1>1, <1>2, PTL DEF Spec, IInv

(* idptest.TestContext implements the atomic UpdateUser contract: seen as *)
(* a set, its users slice and the results its UpdateUser returns change  *)
(* only as UserStoreContract allows, whatever the goroutines' calls and   *)
(* the injected errors.                                                    *)
THEOREM TestContextImplementsContract == Spec => ImplementsContract
<1>1. Init => IInv /\ Contract!ContractInit
  BY InitIInv
<1>2. IInv /\ [Next]_vars => IInv' /\ [Contract!ContractNext]_<<Slice, result>>
  BY NextStep
<1>3. QED
  BY <1>1, <1>2, PTL DEF Spec, ImplementsContract, Contract!ContractSpec, Slice
=============================================================================
