----------------------------- MODULE IdpHandler -----------------------------
(***************************************************************************)
(* The store-facing methods of idpHandler (internal/v1/idp.go):            *)
(* FindUserByExternalId, FindUserByName and UpdateUser.  UpdateUser routes *)
(* an agent (a user with an Owner) to store.UpsertAgent and any other user *)
(* to store.UpsertUser.  Here they are composed with the identities        *)
(* collection of IdentityStore, for several concurrent login requests.    *)
(*                                                                         *)
(* UpsertUser is the two-step database upsert of IdentityStore            *)
(* (UpsertIdentity).  UpsertAgent is not in this tree: it is modelled from *)
(* spec 3 and 4.1 as one atomic conditional write keyed on the user name  *)
(* and the owner.  A record's "info" is its Owner field: NoOwner for a    *)
(* user, and the owning user for an agent.  An agent has no ExternalID     *)
(* (NoExt).                                                                 *)
(*                                                                         *)
(* The identity provider is the environment.  It authenticates one        *)
(* credential per request and uses the context as providers do: a user is *)
(* looked up by its external id and registered under the requested name   *)
(* when unknown; an agent is looked up by name and registered when        *)
(* unknown; LoginSuccess follows a lookup or a registration that          *)
(* succeeded, and any error ends the request.                              *)
(***************************************************************************)
CONSTANTS
    Requests,     \* concurrent login requests served by idpHandler
    UserNames,    \* user names
    ExternalIDs,  \* external ids a user IDP authenticates
    Owners,       \* users that own agents (an agent's credential)
    NoExt,        \* the empty ExternalID of an agent
    NoOwner       \* the empty Owner of a user

ASSUME IdpHandlerAssumption ==
    /\ UserNames # {}
    /\ NoExt \notin ExternalIDs
    /\ NoOwner \notin Owners
    /\ ExternalIDs \cap Owners = {}
    /\ Owners # {}

VARIABLES
    identities, pc, doc, matched, result,  \* the store (IdentityStore)
    cred,    \* per request: the external id or agent owner authenticated
    name,    \* per request: the user name it registers or logs in as
    step,    \* per request: where the provider is in the login
    err      \* per request: the error its UpdateUser returned

storeVars == <<identities, pc, doc, matched, result>>
vars == <<storeVars, cred, name, step, err>>

Store == INSTANCE IdentityStore
            WITH ExternalIDs <- ExternalIDs \cup {NoExt},
                 Infos <- Owners \cup {NoOwner}

IsAgent(r) == cred[r] \in Owners

(* identityFromUser that copies an agent's Owner into its ExternalID.     *)
identityFromUserOwnerAsExternalID(r) ==
    [username |-> name[r], external_id |-> cred[r],
     uuid |-> Store!UUID(name[r]),
     info |-> IF IsAgent(r) THEN cred[r] ELSE NoOwner]

(* identityFromUser: the document UpdateUser hands to the store.           *)
identityFromUser(r) ==
    [username |-> name[r],
     external_id |-> IF IsAgent(r) THEN NoExt ELSE cred[r],
     uuid |-> Store!UUID(name[r]),
     info |-> IF IsAgent(r) THEN cred[r] ELSE NoOwner]

(* The stored record that the request's credential owns.                   *)
Owns(d, r) ==
    IF IsAgent(r) THEN d.info = cred[r] ELSE d.external_id = cred[r]

Init ==
    /\ Store!Init
    /\ cred \in [Requests -> ExternalIDs \cup Owners]
    /\ name \in [Requests -> UserNames]
    /\ step = [r \in Requests |-> "find"]
    /\ err = [r \in Requests |-> "none"]

-----------------------------------------------------------------------------
(* FindUserByExternalId(cred): the one record with that external_id, or   *)
(* ErrNotFound.  A user found logs in under its stored name; an unknown   *)
(* one is registered.                                                      *)
FindUserByExternalId(r) ==
    /\ step[r] = "find"
    /\ ~IsAgent(r)
    /\ LET D == {d \in identities : d.external_id = cred[r]} IN
       IF D = {} THEN step' = [step EXCEPT ![r] = "update"] /\ UNCHANGED name
       ELSE /\ name' = [name EXCEPT ![r] = (CHOOSE d \in D : TRUE).username]
            /\ step' = [step EXCEPT ![r] = "login"]
    /\ UNCHANGED <<storeVars, cred, err>>

(* FindUserByName(name) through store.GetIdentity: the record with that   *)
(* user name, or ErrNotFound.  An agent login proceeds when the agent     *)
(* found is owned by its credential, is refused otherwise, and registers  *)
(* the agent when it is unknown.                                           *)
FindUserByName(r) ==
    /\ step[r] = "find"
    /\ IsAgent(r)
    /\ LET D == {d \in identities : d.username = name[r]} IN
       step' = [step EXCEPT ![r] =
                  IF D = {} THEN "update"
                  ELSE IF \E d \in D : Owns(d, r) THEN "login" ELSE "failed"]
    /\ UNCHANGED <<storeVars, cred, name, err>>

(* Either lookup fails with an error of the database: the error is         *)
(* returned masked and the provider calls LoginFailure.                    *)
FindFails(r) ==
    /\ step[r] = "find"
    /\ step' = [step EXCEPT ![r] = "failed"]
    /\ UNCHANGED <<storeVars, cred, name, err>>

(* store.UpsertAgent: one atomic conditional write.  It replaces the       *)
(* agent with this name and owner, fails with AlreadyExists when the name  *)
(* belongs to any other identity, and otherwise inserts the agent; "out"  *)
(* is the outcome it returns.                                              *)
UpsertAgent(a, out) ==
    LET same == {d \in identities : d.username = a.username /\ d.info = a.info}
        taken == {d \in identities : d.username = a.username}
    IN  \/ /\ same # {}
           /\ identities' = (identities \ same) \cup {a}
           /\ out = "ok"
        \/ /\ same = {} /\ taken # {}
           /\ UNCHANGED identities
           /\ out = "AlreadyExists"
        \/ /\ taken = {}
           /\ identities' = identities \cup {a}
           /\ out = "ok"

(* The agent branch of UpdateUser: errgo.Mask(err) keeps no cause, so     *)
(* AlreadyExists reaches the provider as a plain error.                    *)
UpdateAgent(r) ==
    \E out \in {"ok", "AlreadyExists"} :
        /\ UpsertAgent(identityFromUser(r), out)
        /\ err' = [err EXCEPT ![r] = IF out = "ok" THEN "ok" ELSE "error"]
        /\ step' = [step EXCEPT ![r] = IF out = "ok" THEN "login" ELSE "failed"]
        /\ UNCHANGED <<pc, doc, matched, result>>

(* The user branch: UpsertUser's database upsert starts.                   *)
UpdatePlainUser(r) ==
    LET a == identityFromUser(r) IN
    /\ Store!UpsertQuery(r, a.username, a.external_id, a.info)
    /\ step' = [step EXCEPT ![r] = "upsert"]
    /\ UNCHANGED err

(* UpdateUser with the routing test inverted (id.Owner == "").             *)
UpdateUserSwappedRouting(r) ==
    /\ step[r] = "update"
    /\ IF ~IsAgent(r) THEN UpdateAgent(r) ELSE UpdatePlainUser(r)
    /\ UNCHANGED <<cred, name>>

(* UpdateUser: a user with an Owner is an agent and goes to UpsertAgent;   *)
(* any other user goes to UpsertUser.                                      *)
UpdateUser(r) ==
    /\ step[r] = "update"
    /\ IF IsAgent(r) THEN UpdateAgent(r) ELSE UpdatePlainUser(r)
    /\ UNCHANGED <<cred, name>>

(* UpsertUser's write completes; errgo.Mask(err, errgo.Is(                 *)
(* params.ErrAlreadyExists)) passes AlreadyExists on with its cause.       *)
UpdateUserWrite(r) ==
    /\ step[r] = "upsert"
    /\ \/ Store!UpsertUpdate(r)
       \/ Store!UpsertInsert(r)
       \/ Store!UpsertDup(r)
    /\ err' = [err EXCEPT ![r] = result'[r]]
    /\ step' = [step EXCEPT ![r] = IF result'[r] = "ok" THEN "login" ELSE "failed"]
    /\ UNCHANGED <<cred, name>>

(* LoginSuccess(name): the login completes under that user name.           *)
LoginSuccess(r) ==
    /\ step[r] = "login"
    /\ step' = [step EXCEPT ![r] = "success"]
    /\ UNCHANGED <<storeVars, cred, name, err>>

Next ==
    \E r \in Requests :
        \/ FindUserByExternalId(r)
        \/ FindUserByName(r)
        \/ FindFails(r)
        \/ UpdateUser(r)
        \/ UpdateUserWrite(r)
        \/ LoginSuccess(r)

Spec == Init /\ [][Next]_vars

-----------------------------------------------------------------------------
(* Every variable has the type the code gives it.                          *)
TypeOK ==
    /\ Store!TypeOK
    /\ cred \in [Requests -> ExternalIDs \cup Owners]
    /\ name \in [Requests -> UserNames]
    /\ step \in [Requests -> {"find", "update", "upsert",
                              "login", "success", "failed"}]
    /\ err \in [Requests -> {"none", "ok", "AlreadyExists", "error"}]

(* A completed login is bound to its credential for good: the identity    *)
(* stored under the name a request logged in as belongs to the external   *)
(* id or agent owner the provider authenticated, also after any later    *)
(* UpdateUser of other requests, users or agents, with the same name.     *)
(* Otherwise a second credential could take over an account.              *)
LoginBoundToCredential ==
    \A r \in Requests :
        step[r] = "success" =>
            \E d \in identities : d.username = name[r] /\ Owns(d, r)

(* No UpdateUser, of a user or of an agent, ever deletes a stored         *)
(* identity or changes its user name, external id or owner: UpsertAgent   *)
(* replaces only the agent with the same name and owner, and UpsertUser's *)
(* replacement only the record selected by both keys.  A step that did   *)
(* would hand an existing account to another credential.                  *)
OwnershipStable ==
    [][\A d \in identities :
         \E d2 \in identities' : /\ d2.username = d.username
                                 /\ d2.external_id = d.external_id
                                 /\ d2.info = d.info]_vars

(* Spec 4.5: UpdateUser surfaces the store's AlreadyExists verbatim, so a  *)
(* provider can tell a name clash from a failure of the store.             *)
UpdateUserSurfacesAlreadyExists ==
    \A r \in Requests : err[r] # "error"
=============================================================================
