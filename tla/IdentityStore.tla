--------------------------- MODULE IdentityStore ---------------------------
(***************************************************************************)
(* The identities collection of the identity store (internal/store) and    *)
(* Store.UpsertIdentity, executed concurrently by several HTTP request     *)
(* handlers (possibly in several server processes) against one database.  *)
(*                                                                         *)
(* The database's upsert of the server versions this code was written for *)
(* is not one atomic step: it evaluates the selector                       *)
(* {username, external_id}, and then either replaces the matched document *)
(* or inserts the new one, where the insert is refused with a duplicate-  *)
(* key error by the unique indexes that ensureIndexes creates.  Other     *)
(* upserts can run between the two halves, so each upsert is modelled as *)
(* a query step and a write step.                                          *)
(***************************************************************************)
EXTENDS FiniteSets

CONSTANTS
    Requests,     \* request handlers that call UpsertIdentity concurrently
    UserNames,    \* values of Identity.UserName
    ExternalIDs,  \* values of Identity.ExternalID
    Infos         \* the remaining fields of an Identity (email, groups, ...)

ASSUME StoreAssumption ==
    /\ Requests # {}
    /\ UserNames # {}
    /\ ExternalIDs # {}
    /\ Infos # {}

(* uuid.NewSHA1(IdentityNamespace, []byte(doc.UserName)): a name-based    *)
(* UUID, a deterministic and (in practice) injective function of the name.*)
UUID(u) == <<"uuid", u>>

UUIDs == {UUID(u) : u \in UserNames}

Identity == [username : UserNames, external_id : ExternalIDs,
             uuid : UUIDs, info : Infos]

(* A selector on the user name alone (a query that omits "external_id").   *)
SelectsUserNameOnly(d, doc) == d.username = doc.username

(* The selector of the Upsert call: both key fields must match.            *)
Selects(d, doc) == d.username = doc.username /\ d.external_id = doc.external_id

(* Only the "username" index (ensureIndexes without its second entry).     *)
IndexClashUserNameOnly(d, doc) == d.username = doc.username

(* The unique indexes on "username" and on "external_id" refuse a         *)
(* document that shares either field with a stored one.                   *)
IndexClash(d, doc) == d.username = doc.username \/ d.external_id = doc.external_id

VARIABLES
    identities,   \* the documents of the identities collection
    pc,           \* per request: "idle" or "write" (selector evaluated)
    doc,          \* per request: the document being upserted
    matched,      \* per request: whether the selector matched a document
    result        \* per request: outcome of its last UpsertIdentity

vars == <<identities, pc, doc, matched, result>>

Results == {"none", "ok", "AlreadyExists"}

NoDoc == [username |-> CHOOSE u \in UserNames : TRUE,
          external_id |-> CHOOSE e \in ExternalIDs : TRUE,
          uuid |-> UUID(CHOOSE u \in UserNames : TRUE),
          info |-> CHOOSE i \in Infos : TRUE]

(* Store.New: an empty collection once the indexes are ensured.           *)
Init ==
    /\ identities = {}
    /\ pc = [r \in Requests |-> "idle"]
    /\ doc = [r \in Requests |-> NoDoc]
    /\ matched = [r \in Requests |-> FALSE]
    /\ result = [r \in Requests |-> "none"]

(* UpsertIdentity sets doc.UUID from the user name and sends the upsert;  *)
(* the database evaluates the selector.                                    *)
UpsertQuery(r, u, e, i) ==
    /\ pc[r] = "idle"
    /\ doc' = [doc EXCEPT ![r] = [username |-> u, external_id |-> e,
                                  uuid |-> UUID(u), info |-> i]]
    /\ matched' = [matched EXCEPT ![r] = \E d \in identities : Selects(d, doc'[r])]
    /\ pc' = [pc EXCEPT ![r] = "write"]
    /\ result' = [result EXCEPT ![r] = "none"]
    /\ UNCHANGED identities

(* The selector matched: the document is replaced in place.                *)
UpsertUpdate(r) ==
    /\ pc[r] = "write"
    /\ matched[r]
    /\ identities' = {d \in identities : ~Selects(d, doc[r])} \cup {doc[r]}
    /\ pc' = [pc EXCEPT ![r] = "idle"]
    /\ result' = [result EXCEPT ![r] = "ok"]
    /\ UNCHANGED <<doc, matched>>

(* Nothing matched and no index clashes: the document is inserted.         *)
UpsertInsert(r) ==
    /\ pc[r] = "write"
    /\ ~matched[r]
    /\ \A d \in identities : ~IndexClash(d, doc[r])
    /\ identities' = identities \cup {doc[r]}
    /\ pc' = [pc EXCEPT ![r] = "idle"]
    /\ result' = [result EXCEPT ![r] = "ok"]
    /\ UNCHANGED <<doc, matched>>

(* The duplicate-key error passed on masked, without the mgo.IsDup check.  *)
UpsertDupUnclassified(r) ==
    /\ pc[r] = "write"
    /\ ~matched[r]
    /\ \E d \in identities : IndexClash(d, doc[r])
    /\ pc' = [pc EXCEPT ![r] = "idle"]
    /\ result' = [result EXCEPT ![r] = "error"]
    /\ UNCHANGED <<identities, doc, matched>>

(* Nothing matched but the insert violates a unique index: mgo.IsDup(err) *)
(* holds and UpsertIdentity returns params.ErrAlreadyExists.              *)
UpsertDup(r) ==
    /\ pc[r] = "write"
    /\ ~matched[r]
    /\ \E d \in identities : IndexClash(d, doc[r])
    /\ pc' = [pc EXCEPT ![r] = "idle"]
    /\ result' = [result EXCEPT ![r] = "AlreadyExists"]
    /\ UNCHANGED <<identities, doc, matched>>

Next ==
    \E r \in Requests :
        \/ \E u \in UserNames, e \in ExternalIDs, i \in Infos : UpsertQuery(r, u, e, i)
        \/ UpsertUpdate(r)
        \/ UpsertInsert(r)
        \/ UpsertDup(r)

Spec == Init /\ [][Next]_vars

-----------------------------------------------------------------------------
(* Every variable has the type the code gives it.                          *)
TypeOK ==
    /\ identities \subseteq Identity
    /\ pc \in [Requests -> {"idle", "write"}]
    /\ doc \in [Requests -> Identity]
    /\ matched \in [Requests -> BOOLEAN]
    /\ result \in [Requests -> Results]

(* The store's invariant (spec 3, 4.1): however concurrent logins          *)
(* interleave their upserts, no two identities share a UserName and no    *)
(* two share an ExternalID, so two first logins of one new user never     *)
(* create two records.                                                     *)
UniqueIdentities ==
    \A d1, d2 \in identities :
        d1 # d2 => d1.username # d2.username /\ d1.external_id # d2.external_id

(* An identity, once stored, is never deleted and never re-keyed: every    *)
(* step keeps a document with the same UserName, ExternalID and UUID, so   *)
(* the UUID handed out for a user stays stable across later upserts.       *)
IdentityKeysStable ==
    [][\A d \in identities :
         \E d2 \in identities' : /\ d2.username = d.username
                                 /\ d2.external_id = d.external_id
                                 /\ d2.uuid = d.uuid]_identities

(* The doc comment of UpsertIdentity and spec 4.1: AlreadyExists is        *)
(* returned only when the identity clashes with a *different* record,      *)
(* one that shares the UserName or the ExternalID but not both.            *)
AlreadyExistsOnlyOnClash ==
    \A r \in Requests :
        pc[r] = "idle" /\ result[r] = "AlreadyExists" =>
            \E d \in identities : IndexClash(d, doc[r]) /\ ~Selects(d, doc[r])
=============================================================================
