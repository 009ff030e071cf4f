--------------------------- MODULE IdpHandlerProofs ---------------------------
(***************************************************************************)
(* Proof, for any number of requests, names, external ids and agent       *)
(* owners, that a login completed through idpHandler stays bound to the   *)
(* credential that authenticated it.  The argument: no step of            *)
(* UpdateUser, neither the user branch's upsert nor the agent branch's    *)
(* UpsertAgent, ever removes a record without putting back one with the   *)
(* same user name, external id and owner; and a user's record can never  *)
(* be taken for an agent's, because only agents lack an external id.      *)
(***************************************************************************)
EXTENDS IdpHandler, TLAPS

(* Records with an external id are users: their Owner is empty.            *)
RecordShape ==
    \A d \in identities : d.external_id \in ExternalIDs => d.info = NoOwner

(* A request is in the write half of its upsert exactly while its         *)
(* provider waits in UpdateUser's user branch, and the document in        *)
(* flight is its user's.                                                   *)
InFlightAt(r) ==
    /\ (step[r] = "upsert") <=> (pc[r] = "write")
    /\ step[r] = "upsert" =>
          /\ ~IsAgent(r)
          /\ doc[r].username = name[r]
          /\ doc[r].external_id = cred[r]
          /\ doc[r].info = NoOwner

UpsertInFlight == \A r \in Requests : InFlightAt(r)

(* A request about to call LoginSuccess, or past it, has its record.       *)
OwnedAt(r) ==
    step[r] \in {"login", "success"} =>
        \E d \in identities : d.username = name[r] /\ Owns(d, r)

LoginOwned == \A r \in Requests : OwnedAt(r)

IInv == TypeOK /\ RecordShape /\ UpsertInFlight /\ LoginOwned

(* Every step keeps, for each stored record, a record with the same user  *)
(* name, external id and owner: the fields Owns and a login look at.       *)
KeysKept ==
    \A d \in identities :
        \E d2 \in identities' : /\ d2.username = d.username
                                /\ d2.external_id = d.external_id
                                /\ d2.info = d.info

-----------------------------------------------------------------------------
(* The document UpdateUser hands to the store is an identity of it.        *)
LEMMA IdentityFromUserType ==
    ASSUME TypeOK, NEW r \in Requests
    PROVE  identityFromUser(r) \in Store!Identity
BY DEF TypeOK, identityFromUser, IsAgent, Store!Identity, Store!UUIDs, Store!UUID

(* The initial state satisfies the inductive invariant.                    *)
LEMMA InitIInv == Init => IInv
<1> SUFFICES ASSUME Init PROVE IInv
  OBVIOUS
<1>1. Store!NoDoc \in Store!Identity
  BY IdpHandlerAssumption
     DEF Store!NoDoc, Store!Identity, Store!UUIDs, Store!UUID
<1>2. TypeOK
  BY <1>1 DEF Init, Store!Init, TypeOK, Store!TypeOK, Store!Results
<1>3. QED
  BY <1>2 DEF Init, Store!Init, IInv, RecordShape, UpsertInFlight, InFlightAt,
             LoginOwned, OwnedAt

(* A request whose own state a step leaves alone keeps its record, as     *)
(* long as the step keeps every record's keys and owner.                   *)
LEMMA OwnedKept ==
    ASSUME IInv, KeysKept, cred' = cred, NEW s \in Requests,
           name'[s] = name[s], step'[s] = step[s]
    PROVE  OwnedAt(s)'
<1> SUFFICES ASSUME step'[s] \in {"login", "success"}
             PROVE  \E d \in identities' : d.username = name'[s] /\ Owns(d, s)'
  BY DEF OwnedAt
<1>1. PICK d \in identities : d.username = name[s] /\ Owns(d, s)
  BY DEF IInv, LoginOwned, OwnedAt
<1>2. PICK d2 \in identities' : /\ d2.username = d.username
                                /\ d2.external_id = d.external_id
                                /\ d2.info = d.info
  BY <1>1 DEF KeysKept
<1>3. QED
  BY <1>1, <1>2 DEF Owns, IsAgent

(* The same for the upsert in flight, when the step leaves it alone.       *)
LEMMA InFlightKept ==
    ASSUME cred' = cred, NEW s \in Requests, InFlightAt(s),
           name'[s] = name[s], step'[s] = step[s], pc'[s] = pc[s],
           doc'[s] = doc[s]
    PROVE  InFlightAt(s)'
BY DEF InFlightAt, IsAgent

(* A step that leaves the collection alone keeps every record.             *)
LEMMA KeptIfUnchanged ==
    ASSUME identities' = identities PROVE KeysKept
BY DEF KeysKept

(* FindUserByExternalId: a user found logs in under the stored name of a   *)
(* record that carries its external id.                                   *)
LEMMA FindByExternalIdStep ==
    ASSUME IInv, NEW r \in Requests, FindUserByExternalId(r)
    PROVE  IInv' /\ KeysKept
<1> DEFINE D == {d \in identities : d.external_id = cred[r]}
<1>1. /\ UNCHANGED <<storeVars, cred, err>>
      /\ step' = [step EXCEPT ![r] = IF D = {} THEN "update" ELSE "login"]
      /\ D = {} => name' = name
      /\ D # {} => name' = [name EXCEPT ![r] = (CHOOSE d \in D : TRUE).username]
      /\ ~IsAgent(r)
  BY DEF FindUserByExternalId
<1>2. KeysKept
  BY <1>1, KeptIfUnchanged DEF storeVars
<1>3. D # {} => (CHOOSE d \in D : TRUE) \in D
  OBVIOUS
<1>4. TypeOK'
  BY <1>1, <1>3 DEF IInv, TypeOK, Store!TypeOK, Store!Identity, storeVars
<1>5. ASSUME NEW s \in Requests PROVE OwnedAt(s)'
  <2>1. CASE s # r
    BY <1>1, <1>2, <2>1, OwnedKept DEF TypeOK, IInv
  <2>2. CASE s = r /\ D = {}
    BY <1>1, <2>2 DEF OwnedAt, IInv, TypeOK
  <2>3. CASE s = r /\ D # {}
    <3> DEFINE c == CHOOSE d \in D : TRUE
    <3>1. c \in identities /\ c.external_id = cred[r]
      BY <1>3, <2>3
    <3>2. name'[r] = c.username /\ step'[r] = "login"
      BY <1>1, <2>3 DEF IInv, TypeOK
    <3>3. identities' = identities /\ cred' = cred
      BY <1>1 DEF storeVars
    <3>4. QED
      BY <1>1, <2>3, <3>1, <3>2, <3>3 DEF OwnedAt, Owns, IsAgent
  <2>4. QED
    BY <2>1, <2>2, <2>3
<1>6. ASSUME NEW s \in Requests PROVE InFlightAt(s)'
  <2>1. CASE s # r
    BY <1>1, <2>1, InFlightKept DEF TypeOK, IInv, UpsertInFlight, storeVars
  <2>2. CASE s = r
    <3>1. step[r] = "find" /\ pc[r] # "write"
      BY DEF FindUserByExternalId, IInv, UpsertInFlight, InFlightAt
    <3>2. QED
      BY <1>1, <2>2, <3>1 DEF InFlightAt, IInv, TypeOK, storeVars
  <2>3. QED
    BY <2>1, <2>2
<1>7. RecordShape'
  BY <1>1 DEF IInv, RecordShape, storeVars
<1>8. QED
  BY <1>2, <1>4, <1>5, <1>6, <1>7 DEF IInv, LoginOwned, UpsertInFlight

(* FindUserByName: an agent logs in only when the record found under its  *)
(* name is owned by its credential.                                       *)
LEMMA FindByNameStep ==
    ASSUME IInv, NEW r \in Requests, FindUserByName(r)
    PROVE  IInv' /\ KeysKept
<1> DEFINE D == {d \in identities : d.username = name[r]}
<1>1. /\ UNCHANGED <<storeVars, cred, name, err>>
      /\ step[r] = "find"
      /\ step' = [step EXCEPT ![r] = IF D = {} THEN "update"
                                     ELSE IF \E d \in D : Owns(d, r) THEN "login"
                                     ELSE "failed"]
  BY DEF FindUserByName
<1>2. KeysKept
  BY <1>1, KeptIfUnchanged DEF storeVars
<1>3. TypeOK'
  BY <1>1 DEF IInv, TypeOK, Store!TypeOK, storeVars
<1>4. ASSUME NEW s \in Requests PROVE OwnedAt(s)'
  <2>1. CASE s # r
    BY <1>1, <1>2, <2>1, OwnedKept DEF TypeOK, IInv
  <2>2. CASE s = r
    BY <1>1, <2>2 DEF OwnedAt, Owns, IsAgent, IInv, TypeOK, storeVars
  <2>3. QED
    BY <2>1, <2>2
<1>5. ASSUME NEW s \in Requests PROVE InFlightAt(s)'
  <2>1. CASE s # r
    BY <1>1, <2>1, InFlightKept DEF TypeOK, IInv, UpsertInFlight, storeVars
  <2>2. CASE s = r
    <3>1. pc[r] # "write"
      BY <1>1 DEF IInv, UpsertInFlight, InFlightAt
    <3>2. QED
      BY <1>1, <2>2, <3>1 DEF InFlightAt, IInv, TypeOK, storeVars
  <2>3. QED
    BY <2>1, <2>2
<1>6. RecordShape'
  BY <1>1 DEF IInv, RecordShape, storeVars
<1>7. QED
  BY <1>2, <1>3, <1>4, <1>5, <1>6 DEF IInv, LoginOwned, UpsertInFlight

(* FindFails and LoginSuccess only move the request along: failed, or     *)
(* from login to success.                                                 *)
LEMMA MoveStep ==
    ASSUME IInv, NEW r \in Requests, FindFails(r) \/ LoginSuccess(r)
    PROVE  IInv' /\ KeysKept
<1>1. /\ UNCHANGED <<storeVars, cred, name, err>>
      /\ \/ step[r] = "find" /\ step' = [step EXCEPT ![r] = "failed"]
         \/ step[r] = "login" /\ step' = [step EXCEPT ![r] = "success"]
  BY DEF FindFails, LoginSuccess
<1>2. KeysKept
  BY <1>1, KeptIfUnchanged DEF storeVars
<1>3. TypeOK'
  BY <1>1 DEF IInv, TypeOK, Store!TypeOK, storeVars
<1>4. ASSUME NEW s \in Requests PROVE OwnedAt(s)'
  <2>1. CASE s # r
    BY <1>1, <1>2, <2>1, OwnedKept DEF TypeOK, IInv
  <2>2. CASE s = r
    <3>1. identities' = identities /\ cred' = cred /\ name' = name
      BY <1>1 DEF storeVars
    <3>2. CASE step[r] = "find" /\ step' = [step EXCEPT ![r] = "failed"]
      BY <2>2, <3>2 DEF OwnedAt, IInv, TypeOK
    <3>3. CASE step[r] = "login" /\ step' = [step EXCEPT ![r] = "success"]
      <4>1. OwnedAt(r)
        BY DEF IInv, LoginOwned
      <4>2. QED
        BY <2>2, <3>1, <3>3, <4>1 DEF OwnedAt, Owns, IsAgent, IInv, TypeOK
    <3>4. QED
      BY <1>1, <3>2, <3>3
  <2>3. QED
    BY <2>1, <2>2
<1>5. ASSUME NEW s \in Requests PROVE InFlightAt(s)'
  <2>1. CASE s # r
    BY <1>1, <2>1, InFlightKept DEF TypeOK, IInv, UpsertInFlight, storeVars
  <2>2. CASE s = r
    <3>1. pc[r] # "write"
      BY <1>1 DEF IInv, UpsertInFlight, InFlightAt
    <3>2. QED
      BY <1>1, <2>2, <3>1 DEF InFlightAt, IInv, TypeOK, storeVars
  <2>3. QED
    BY <2>1, <2>2
<1>6. RecordShape'
  BY <1>1 DEF IInv, RecordShape, storeVars
<1>7. QED
  BY <1>2, <1>3, <1>4, <1>5, <1>6 DEF IInv, LoginOwned, UpsertInFlight

(* A write that ends a request r: the collection keeps every record's     *)
(* keys and owner and gains at most the record a, r's own, which is there *)
(* when r goes on to LoginSuccess.                                        *)
LEMMA WriteStep ==
    ASSUME IInv, NEW r \in Requests, NEW a, NEW v \in {"login", "failed"},
           a.username = name[r], Owns(a, r),
           a.external_id \in ExternalIDs => a.info = NoOwner,
           identities' \subseteq identities \cup {a}, KeysKept,
           v = "login" => a \in identities',
           step' = [step EXCEPT ![r] = v],
           cred' = cred, name' = name, doc' = doc,
           pc'[r] # "write", \A s \in Requests \ {r} : pc'[s] = pc[s]
    PROVE  RecordShape' /\ LoginOwned' /\ UpsertInFlight'
<1>1. RecordShape'
  BY DEF IInv, RecordShape
<1>2. ASSUME NEW s \in Requests PROVE OwnedAt(s)'
  <2>1. CASE s # r
    BY <2>1, OwnedKept DEF IInv, TypeOK
  <2>2. CASE s = r
    BY <2>2 DEF OwnedAt, Owns, IsAgent, IInv, TypeOK
  <2>3. QED
    BY <2>1, <2>2
<1>3. ASSUME NEW s \in Requests PROVE InFlightAt(s)'
  <2>1. CASE s # r
    BY <2>1, InFlightKept DEF IInv, TypeOK, UpsertInFlight
  <2>2. CASE s = r
    BY <2>2 DEF InFlightAt, IInv, TypeOK
  <2>3. QED
    BY <2>1, <2>2
<1>4. QED
  BY <1>1, <1>2, <1>3 DEF LoginOwned, UpsertInFlight

(* UpdateUser's agent branch: UpsertAgent replaces only an agent with the *)
(* same name and owner, so the owner of every stored name is kept.        *)
LEMMA UpdateAgentStep ==
    ASSUME IInv, NEW r \in Requests, step[r] = "update", IsAgent(r),
           UpdateAgent(r), UNCHANGED <<cred, name>>
    PROVE  IInv' /\ KeysKept
<1> DEFINE a == identityFromUser(r)
           same == {d \in identities : d.username = a.username /\ d.info = a.info}
           taken == {d \in identities : d.username = a.username}
<1>1. /\ a \in Store!Identity
      /\ a.username = name[r] /\ a.external_id = NoExt /\ a.info = cred[r]
      /\ cred[r] \in Owners
  BY IdentityFromUserType DEF IInv, identityFromUser, IsAgent
<1>2. PICK out \in {"ok", "AlreadyExists"} :
        /\ UpsertAgent(a, out)
        /\ err' = [err EXCEPT ![r] = IF out = "ok" THEN "ok" ELSE "error"]
        /\ step' = [step EXCEPT ![r] = IF out = "ok" THEN "login" ELSE "failed"]
        /\ UNCHANGED <<pc, doc, matched, result>>
  BY DEF UpdateAgent
<1>3. pc[r] # "write"
  BY DEF IInv, UpsertInFlight, InFlightAt
<1>4. /\ identities' \subseteq identities \cup {a}
      /\ out = "ok" => a \in identities'
  BY <1>2 DEF UpsertAgent
<1>5. KeysKept
  <2>1. ASSUME NEW d \in same PROVE d.external_id = a.external_id
    <3>1. d \in Store!Identity /\ d.info = cred[r]
      BY <1>1 DEF IInv, TypeOK, Store!TypeOK
    <3>2. d.external_id \notin ExternalIDs
      BY <1>1, <3>1, IdpHandlerAssumption DEF IInv, RecordShape
    <3>3. QED
      BY <1>1, <3>1, <3>2 DEF Store!Identity
  <2>2. CASE same # {} /\ identities' = (identities \ same) \cup {a}
    BY <2>1, <2>2 DEF KeysKept
  <2>3. CASE UNCHANGED identities \/ identities' = identities \cup {a}
    BY <2>3 DEF KeysKept
  <2>4. QED
    BY <1>2, <2>2, <2>3 DEF UpsertAgent
<1>6. TypeOK'
  BY <1>1, <1>2, <1>4 DEF IInv, TypeOK, Store!TypeOK
<1>7. RecordShape' /\ LoginOwned' /\ UpsertInFlight'
  <2>1. a.external_id \in ExternalIDs => a.info = NoOwner
    BY <1>1, IdpHandlerAssumption
  <2>2. Owns(a, r)
    BY <1>1 DEF Owns
  <2>3. /\ \A s \in Requests \ {r} : pc'[s] = pc[s]
        /\ pc'[r] # "write" /\ doc' = doc /\ cred' = cred /\ name' = name
    BY <1>2, <1>3
  <2>4. CASE out = "ok"
    <3>1. step' = [step EXCEPT ![r] = "login"] /\ a \in identities'
      BY <1>2, <1>4, <2>4
    <3>2. QED
      BY <1>1, <1>4, <1>5, <2>1, <2>2, <2>3, <3>1, WriteStep
  <2>5. CASE out = "AlreadyExists"
    <3>1. step' = [step EXCEPT ![r] = "failed"]
      BY <1>2, <2>5
    <3>2. QED
      BY <1>1, <1>4, <1>5, <2>1, <2>2, <2>3, <3>1, WriteStep
  <2>6. QED
    BY <2>4, <2>5
<1>8. QED
  BY <1>5, <1>6, <1>7 DEF IInv

(* UpdateUser's user branch starts UpsertUser's database upsert with the  *)
(* user's own document.                                                   *)
LEMMA UpdatePlainUserStep ==
    ASSUME IInv, NEW r \in Requests, step[r] = "update", ~IsAgent(r),
           UpdatePlainUser(r), UNCHANGED <<cred, name>>
    PROVE  IInv' /\ KeysKept
<1> DEFINE a == identityFromUser(r)
<1>1. /\ a \in Store!Identity
      /\ a.username = name[r] /\ a.external_id = cred[r] /\ a.info = NoOwner
      /\ a.uuid = Store!UUID(name[r])
  BY IdentityFromUserType DEF IInv, identityFromUser
<1>2. /\ Store!UpsertQuery(r, a.username, a.external_id, a.info)
      /\ step' = [step EXCEPT ![r] = "upsert"]
      /\ UNCHANGED err
  BY DEF UpdatePlainUser
<1>3. /\ identities' = identities
      /\ pc' = [pc EXCEPT ![r] = "write"]
      /\ matched' \in [Requests -> BOOLEAN]
      /\ result' = [result EXCEPT ![r] = "none"]
  BY <1>2 DEF Store!UpsertQuery, IInv, TypeOK, Store!TypeOK
<1>9. doc' = [doc EXCEPT ![r] = a]
  <2>1. a = [username |-> a.username, external_id |-> a.external_id,
             uuid |-> Store!UUID(a.username), info |-> a.info]
    BY <1>1 DEF Store!Identity
  <2>2. QED
    BY <1>2, <2>1 DEF Store!UpsertQuery
<1>4. KeysKept
  BY <1>3, KeptIfUnchanged
<1>5. TypeOK'
  BY <1>1, <1>2, <1>3, <1>9 DEF IInv, TypeOK, Store!TypeOK, Store!Results
<1>6. ASSUME NEW s \in Requests PROVE OwnedAt(s)' /\ InFlightAt(s)'
  <2>1. CASE s # r
    <3>1. OwnedAt(s)'
      BY <1>2, <1>4, <2>1, OwnedKept DEF IInv, TypeOK
    <3>2. InFlightAt(s)'
      BY <1>2, <1>3, <1>9, <2>1, InFlightKept DEF IInv, TypeOK, UpsertInFlight
    <3>3. QED
      BY <3>1, <3>2
  <2>2. CASE s = r
    BY <1>1, <1>2, <1>3, <1>9, <2>2 DEF OwnedAt, InFlightAt, IsAgent, IInv, TypeOK,
                                  Store!TypeOK
  <2>3. QED
    BY <2>1, <2>2
<1>7. RecordShape'
  BY <1>3 DEF IInv, RecordShape
<1>8. QED
  BY <1>4, <1>5, <1>6, <1>7 DEF IInv, LoginOwned, UpsertInFlight

(* The write half of UpsertUser: a replacement only ever replaces the     *)
(* user's own record, the one with its name and external id.             *)
LEMMA UpdateUserWriteStep ==
    ASSUME IInv, NEW r \in Requests, UpdateUserWrite(r)
    PROVE  IInv' /\ KeysKept
<1>1. /\ step[r] = "upsert" /\ pc[r] = "write" /\ ~IsAgent(r)
      /\ doc[r].username = name[r] /\ doc[r].external_id = cred[r]
      /\ doc[r].info = NoOwner
  BY DEF UpdateUserWrite, IInv, UpsertInFlight, InFlightAt
<1>2. /\ \/ Store!UpsertUpdate(r)
         \/ Store!UpsertInsert(r)
         \/ Store!UpsertDup(r)
      /\ err' = [err EXCEPT ![r] = result'[r]]
      /\ step' = [step EXCEPT ![r] = IF result'[r] = "ok" THEN "login" ELSE "failed"]
      /\ UNCHANGED <<cred, name>>
  BY DEF UpdateUserWrite
<1>3. /\ identities' \subseteq identities \cup {doc[r]}
      /\ result'[r] = "ok" => doc[r] \in identities'
      /\ result' = [result EXCEPT ![r] = result'[r]]
      /\ result'[r] \in {"ok", "AlreadyExists"}
      /\ pc' = [pc EXCEPT ![r] = "idle"]
      /\ UNCHANGED <<doc, matched>>
  BY <1>2 DEF Store!UpsertUpdate, Store!UpsertInsert, Store!UpsertDup,
             IInv, TypeOK, Store!TypeOK
<1>4. KeysKept
  <2>1. ASSUME NEW d \in identities, Store!Selects(d, doc[r])
        PROVE  d.info = doc[r].info
    BY <1>1, <2>1 DEF Store!Selects, IsAgent, IInv, RecordShape, TypeOK
  <2>2. CASE Store!UpsertUpdate(r)
    <3>1. identities' = {d \in identities : ~Store!Selects(d, doc[r])} \cup {doc[r]}
      BY <2>2 DEF Store!UpsertUpdate
    <3>2. SUFFICES ASSUME NEW d \in identities
                   PROVE  \E d2 \in identities' : /\ d2.username = d.username
                                                  /\ d2.external_id = d.external_id
                                                  /\ d2.info = d.info
      BY DEF KeysKept
    <3>3. CASE Store!Selects(d, doc[r])
      <4>1. doc[r].username = d.username /\ doc[r].external_id = d.external_id
        BY <3>3 DEF Store!Selects
      <4>2. doc[r].info = d.info
        BY <2>1, <3>3
      <4>3. QED
        BY <3>1, <4>1, <4>2
    <3>4. CASE ~Store!Selects(d, doc[r])
      BY <3>1, <3>4
    <3>5. QED
      BY <3>3, <3>4
  <2>3. CASE Store!UpsertInsert(r) \/ Store!UpsertDup(r)
    BY <2>3 DEF Store!UpsertInsert, Store!UpsertDup, KeysKept
  <2>4. QED
    BY <1>2, <2>2, <2>3
<1>5. TypeOK'
  BY <1>2, <1>3 DEF IInv, TypeOK, Store!TypeOK, Store!Results
<1>6. RecordShape' /\ LoginOwned' /\ UpsertInFlight'
  <2>1. /\ doc[r].external_id \in ExternalIDs => doc[r].info = NoOwner
        /\ Owns(doc[r], r)
        /\ \A s \in Requests \ {r} : pc'[s] = pc[s]
        /\ pc'[r] # "write" /\ doc' = doc /\ cred' = cred /\ name' = name
    BY <1>1, <1>2, <1>3 DEF Owns, IInv, TypeOK, Store!TypeOK
  <2>2. CASE result'[r] = "ok"
    <3>1. step' = [step EXCEPT ![r] = "login"] /\ doc[r] \in identities'
      BY <1>2, <1>3, <2>2
    <3>2. QED
      BY <1>1, <1>3, <1>4, <2>1, <3>1, WriteStep
  <2>3. CASE result'[r] # "ok"
    <3>1. step' = [step EXCEPT ![r] = "failed"]
      BY <1>2, <2>3
    <3>2. QED
      BY <1>1, <1>3, <1>4, <2>1, <2>3, <3>1, WriteStep
  <2>4. QED
    BY <2>2, <2>3
<1>7. QED
  BY <1>4, <1>5, <1>6 DEF IInv

(* Every step of the handler and the store keeps the inductive invariant  *)
(* and every stored record's keys and owner.                              *)
LEMMA NextStep == IInv /\ [Next]_vars => IInv' /\ [KeysKept]_vars
<1> SUFFICES ASSUME IInv, [Next]_vars PROVE IInv' /\ [KeysKept]_vars
  OBVIOUS
<1>1. ASSUME NEW r \in Requests, FindUserByExternalId(r) PROVE IInv' /\ KeysKept
  BY <1>1, FindByExternalIdStep
<1>2. ASSUME NEW r \in Requests, FindUserByName(r) PROVE IInv' /\ KeysKept
  BY <1>2, FindByNameStep
<1>3. ASSUME NEW r \in Requests, FindFails(r) \/ LoginSuccess(r)
      PROVE  IInv' /\ KeysKept
  BY <1>3, MoveStep
<1>4. ASSUME NEW r \in Requests, UpdateUser(r) PROVE IInv' /\ KeysKept
  <2>1. step[r] = "update" /\ UNCHANGED <<cred, name>>
    BY <1>4 DEF UpdateUser
  <2>2. CASE IsAgent(r)
    BY <1>4, <2>1, <2>2, UpdateAgentStep DEF UpdateUser
  <2>3. CASE ~IsAgent(r)
    BY <1>4, <2>1, <2>3, UpdatePlainUserStep DEF UpdateUser
  <2>4. QED
    BY <2>2, <2>3
<1>5. ASSUME NEW r \in Requests, UpdateUserWrite(r) PROVE IInv' /\ KeysKept
  BY <1>5, UpdateUserWriteStep
<1>6. CASE UNCHANGED vars
  BY <1>6 DEF vars, storeVars, IInv, TypeOK, Store!TypeOK, RecordShape,
              UpsertInFlight, InFlightAt, LoginOwned, OwnedAt, Owns, IsAgent
<1>7. QED
  BY <1>1, <1>2, <1>3, <1>4, <1>5, <1>6 DEF Next

(* Type correctness of the handler composed with the store.                *)
THEOREM HandlerTypeCorrect == Spec => []TypeOK
<1>1. Init => IInv
  BY InitIInv
<1>2. IInv /\ [Next]_vars => IInv'
  BY NextStep
<1>3. IInv => TypeOK
  BY DEF IInv
<1>4. QED
  BY <1>1, <1>2, <1>3, PTL DEF Spec

(* For every number of requests, names, external ids and owners, a login   *)
(* that idpHandler completed stays bound to the credential that           *)
(* authenticated it, whatever UpdateUser calls of users and agents follow. *)
THEOREM LoginBinding == Spec => []LoginBoundToCredential
<1>1. Init => IInv
  BY InitIInv
<1>2. IInv /\ [Next]_vars => IInv'
  BY NextStep
<1>3. IInv => LoginBoundToCredential
  BY DEF IInv, LoginOwned, OwnedAt, LoginBoundToCredential
<1>4. QED
  BY <1>1, <1>2, <1>3, PTL DEF Spec

(* No step ever deletes a stored identity or changes its keys or owner:    *)
(* the action property OwnershipStable, from the same invariant.           *)
THEOREM OwnershipNeverChanges == Spec => OwnershipStable
<1>1. Init => IInv
  BY InitIInv
<1>2. IInv /\ [Next]_vars => IInv' /\ [KeysKept]_vars
  BY NextStep
<1>3. [KeysKept]_vars <=>
      [\A d \in identities :
         \E d2 \in identities' : /\ d2.username = d.username
                                 /\ d2.external_id = d.external_id
                                 /\ d2.info = d.info]_vars
  BY DEF KeysKept
<1>4. QED
  BY <1>1, <1>2, <1>3, PTL DEF Spec, OwnershipStable

=============================================================================
