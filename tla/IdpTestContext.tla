-------------------------- MODULE IdpTestContext --------------------------
(***************************************************************************)
(* idptest.TestContext: the in-memory idp.Context against which identity  *)
(* providers are tested.  Its users are a slice searched in order, and    *)
(* every method takes the context's mutex, so concurrent goroutines of an *)
(* identity provider see each call as one atomic step.  The errors a test *)
(* injects (UpdateUserError, FindUserBy...Error, FailOnLoginSuccess) are  *)
(* fixed before the provider runs.                                         *)
(***************************************************************************)
EXTENDS Naturals, Sequences

CONSTANTS
    Callers,      \* goroutines of the identity provider under test
    UserNames, ExternalIDs, Infos,
    MaxUsers      \* bound on the length of the users slice

ASSUME TestContextAssumption == MaxUsers \in Nat /\ UserNames # {}

User == [username : UserNames, external_id : ExternalIDs, info : Infos]

NotFound == [username |-> "none", external_id |-> "none", info |-> "none"]

VARIABLES
    users,                \* c.users, in slice order
    result,               \* per caller: error returned by its last UpdateUser
    found,                \* per caller: user returned by its last FindUserBy...
    paramsSet,            \* c.params has been generated
    username, usernameSet,  \* the recorded LoginSuccess call
    errSet,               \* a LoginFailure call has been recorded
    updateUserError, findError, failOnLoginSuccess  \* injected by the test

vars == <<users, result, found, paramsSet, username, usernameSet, errSet,
          updateUserError, findError, failOnLoginSuccess>>

Init ==
    /\ users = <<>>
    /\ result = [c \in Callers |-> "none"]
    /\ found = [c \in Callers |-> NotFound]
    /\ paramsSet = FALSE
    /\ username = CHOOSE n \in UserNames : TRUE
    /\ usernameSet = FALSE
    /\ errSet = FALSE
    /\ updateUserError \in BOOLEAN
    /\ findError \in BOOLEAN
    /\ failOnLoginSuccess \in BOOLEAN

injected == <<updateUserError, findError, failOnLoginSuccess>>

(* Params: the request parameters are generated on first use.             *)
Params ==
    /\ ~paramsSet
    /\ paramsSet' = TRUE
    /\ UNCHANGED <<users, result, found, username, usernameSet, errSet, injected>>

(* UpdateUser: the first entry of the slice that shares a key with u       *)
(* decides; an entry with the same Username either is replaced (same       *)
(* ExternalID) or refuses u, an entry with the same ExternalID only       *)
(* refuses u; when none shares a key, u is appended.                       *)
FirstSharing(u) ==
    LET I == {i \in 1..Len(users) : users[i].username = u.username
                                    \/ users[i].external_id = u.external_id}
    IN  IF I = {} THEN 0 ELSE CHOOSE i \in I : \A j \in I : i <= j

(* The loop without its "else if" branch on the ExternalID.                 *)
UpdateUserNoExternalCheck(c, u) ==
    /\ ~updateUserError
    /\ LET I == {i \in 1..Len(users) : users[i].username = u.username}
           k == IF I = {} THEN 0 ELSE CHOOSE i \in I : \A j \in I : i <= j
       IN  IF k = 0
             THEN /\ Len(users) < MaxUsers
                  /\ users' = Append(users, u)
                  /\ result' = [result EXCEPT ![c] = "ok"]
             ELSE IF users[k].external_id = u.external_id
               THEN /\ users' = [users EXCEPT ![k] = u]
                    /\ result' = [result EXCEPT ![c] = "ok"]
               ELSE /\ result' = [result EXCEPT ![c] = "AlreadyExists"]
                    /\ UNCHANGED users
    /\ UNCHANGED <<found, paramsSet, username, usernameSet, errSet, injected>>

(* The loop without the "return nil" after replacing an entry: the user   *)
(* is also appended.                                                       *)
UpdateUserMissingReturn(c, u) ==
    /\ ~updateUserError
    /\ LET k == FirstSharing(u) IN
       IF k = 0
         THEN /\ Len(users) < MaxUsers
              /\ users' = Append(users, u)
              /\ result' = [result EXCEPT ![c] = "ok"]
         ELSE IF users[k].username = u.username /\ users[k].external_id = u.external_id
           THEN /\ users' = Append([users EXCEPT ![k] = u], u)
                /\ result' = [result EXCEPT ![c] = "ok"]
           ELSE /\ result' = [result EXCEPT ![c] = "AlreadyExists"]
                /\ UNCHANGED users
    /\ UNCHANGED <<found, paramsSet, username, usernameSet, errSet, injected>>

UpdateUser(c, u) ==
    /\ ~updateUserError
    /\ LET k == FirstSharing(u) IN
       IF k = 0
         THEN /\ Len(users) < MaxUsers
              /\ users' = Append(users, u)
              /\ result' = [result EXCEPT ![c] = "ok"]
         ELSE IF users[k].username = u.username /\ users[k].external_id = u.external_id
           THEN /\ users' = [users EXCEPT ![k] = u]
                /\ result' = [result EXCEPT ![c] = "ok"]
           ELSE /\ result' = [result EXCEPT ![c] = "AlreadyExists"]
                /\ UNCHANGED users
    /\ UNCHANGED <<found, paramsSet, username, usernameSet, errSet, injected>>

(* UpdateUser returns the injected UpdateUserError.                        *)
UpdateUserFails(c) ==
    /\ updateUserError
    /\ result' = [result EXCEPT ![c] = "error"]
    /\ UNCHANGED <<users, found, paramsSet, username, usernameSet, errSet, injected>>

(* FindUserByName / FindUserByExternalId: the first entry with that key,  *)
(* or ErrNotFound, or the injected error.                                  *)
FindBy(c, match(_)) ==
    LET I == {i \in 1..Len(users) : match(users[i])}
    IN  found' = [found EXCEPT ![c] =
                    IF findError \/ I = {} THEN NotFound
                    ELSE users[CHOOSE i \in I : \A j \in I : i <= j]]

FindUserByName(c, n) ==
    /\ FindBy(c, LAMBDA v : v.username = n)
    /\ UNCHANGED <<users, result, paramsSet, username, usernameSet, errSet, injected>>

FindUserByExternalId(c, e) ==
    /\ FindBy(c, LAMBDA v : v.external_id = e)
    /\ UNCHANGED <<users, result, paramsSet, username, usernameSet, errSet, injected>>

(* LoginSuccess records the call; LoginFailure records the error.          *)
LoginSuccess(n) ==
    /\ username' = n
    /\ usernameSet' = TRUE
    /\ UNCHANGED <<users, result, found, paramsSet, errSet, injected>>

LoginFailure ==
    /\ errSet' = TRUE
    /\ UNCHANGED <<users, result, found, paramsSet, username, usernameSet, injected>>

Next ==
    \/ Params
    \/ LoginFailure
    \/ \E n \in UserNames : LoginSuccess(n)
    \/ \E c \in Callers :
          \/ UpdateUserFails(c)
          \/ \E u \in User : UpdateUser(c, u)
          \/ \E n \in UserNames : FindUserByName(c, n)
          \/ \E e \in ExternalIDs : FindUserByExternalId(c, e)

Spec == Init /\ [][Next]_vars

-----------------------------------------------------------------------------
(* LoginSuccessCall, LoginFailureCall and the assertions built on them.    *)
LoginSuccessCall == <<username, usernameSet>>

AssertLoginSuccess(n) == ~errSet /\ usernameSet /\ username = n

AssertLoginInProgress == ~errSet /\ ~usernameSet

-----------------------------------------------------------------------------
(* Every variable has the type the code gives it.                          *)
TypeOK ==
    /\ users \in Seq(User) /\ Len(users) <= MaxUsers
    /\ result \in [Callers -> {"none", "ok", "AlreadyExists", "error"}]
    /\ found \in [Callers -> User \cup {NotFound}]
    /\ paramsSet \in BOOLEAN
    /\ username \in UserNames /\ usernameSet \in BOOLEAN /\ errSet \in BOOLEAN
    /\ updateUserError \in BOOLEAN /\ findError \in BOOLEAN
    /\ failOnLoginSuccess \in BOOLEAN

(* The fake keeps the contract the real store is held to: seen as a set,   *)
(* its users slice and the results of UpdateUser behave as the atomic     *)
(* UserStoreContract, whatever the goroutines' calls and the injected     *)
(* errors, so a provider tested against it is tested against the          *)
(* contract.                                                               *)
Contract == INSTANCE UserStoreContract WITH users <- {users[i] : i \in 1..Len(users)}

ImplementsContract == Contract!ContractSpec
=============================================================================
