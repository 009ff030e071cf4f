# TLA+ models of the identity server's login path

These are TLA+ specifications for the core of the identity/discharge server
(the sources are under `src/`, the design is in `spec.md`). There are TLC
configurations that model-check them on small instances, and TLAPS proofs of
their main safety invariants for every value of the constants.

## 1. Inventory of the system

| Part | Source in this tree | State | Operations that change state |
|---|---|---|---|
| Identity store | `src/unnamed/part_001` (`Store`, `New`, `ensureIndexes`, `UpsertIdentity`, `StoreDatabase`) | the `identities` collection, with unique indexes on `username` and `external_id` | `New`/`ensureIndexes`, `UpsertIdentity` (one database upsert: evaluate the selector, then replace or insert) |
| IDP login handler | `src/internal/v1/idp.go` (`newIDPHandler`, `idpHandler`) | one store taken from the pool per request; the request's `waitid` | acquire the store (`storePool.Get`) and the deferred `Put`; `LoginSuccess` (mint, `place.Done`, `UpdateIdentity` lastlogin); `LoginFailure` (`place.Done` with an error, write the error); `FindUserByExternalId`, `FindUserByName`; `UpdateUser`, which routes an agent (a user with an `Owner`) to `UpsertAgent` and any other user to `UpsertUser` |
| Login rendezvous (Place) | not in this tree (spec 4.4) | entries keyed by wait token: pending, done with a `loginInfo`, removed | create, `Done` (one terminal write), wait (consumes the entry), timeout, TTL sweep |
| Discharger and wait endpoint | not in this tree. `src/unnamed/part_002` holds its tests: login redirect whitelist, IDP choice | per discharge request | interaction-required answer (creates a pending entry), wait |
| Store pool | not in this tree (spec 7) | number of stores handed out | `Get` (fails with ServiceUnavailable when exhausted), `Put` |
| `idptest.TestContext` | `src/unnamed/part_003` | users slice, recorded LoginSuccess/LoginFailure calls, injected errors, all under a mutex | `Params`, `UpdateUser`, `FindUserByName`, `FindUserByExternalId`, `LoginSuccess`, `LoginFailure` |
| Cookie codec, debug handler | `src/unnamed/part_000` (test wrappers only) | none in this tree | none |

**How the parts interact.** A discharge request that needs interaction makes
a pending Place entry under a wait token. The client then blocks on the wait
endpoint with that token. The browser is sent to an identity provider. The
IDP request is served by `newIDPHandler`, which holds a pooled store for the
length of the request. The IDP ends the request with `LoginSuccess(user)` or
with `LoginFailure(err)`. Both deliver their outcome with `place.Done(waitid,
…)`. The waiting request receives the outcome and consumes the entry.
Alongside this, IDPs create and update users through the store's
`UpsertIdentity`. Many handlers and server processes do so against one
database.

**Behaviours that make it hard.**
- Concurrent upserts of one new user race between the two halves of one
  database upsert.
- Several IDP requests can carry the same `waitid`, for example a resubmitted
  form or a second tab.
- `place.Done` can fail inside `LoginSuccess`. `LoginFailure` then calls
  `Done` a second time, and ignores its result.
- The store pool can run out, and the store has to come back on every path.
- The in-memory `TestContext` must behave like the real store, or IDP tests
  pass against a fake that is more lenient than the store.

## 2. Modules

| Module | Models | Status |
|---|---|---|
| `IdentityStore` | `UpsertIdentity` as a query step (`UpsertQuery`: the UUID is derived and the selector evaluated) and a write step (`UpsertUpdate`, `UpsertInsert`, `UpsertDup`), for concurrent requests. `IndexClash` is the pair of unique indexes of `ensureIndexes`; `Selects` is the upsert's selector. | from source |
| `IdentityStoreProofs` | TLAPS proofs about `IdentityStore` | |
| `IdpHandler` | `idpHandler`'s store-facing methods, `FindUserByExternalId`, `FindUserByName` and `UpdateUser`, composed with `IdentityStore` (a named `INSTANCE` sharing its variables) for concurrent login requests. `UpdateUser` is the routing on `IsAgent`. The user branch is the store's two-step upsert (`UpdatePlainUser` is the query half, `UpdateUserWrite` the write half). The agent branch is `UpsertAgent`, one atomic conditional write keyed on name and owner. The provider is the environment: it authenticates one credential per request and calls `LoginSuccess` after a lookup or registration that succeeded. | handler from source; `UpsertAgent`, `UpsertUser` and the provider from the spec (not in this tree) |
| `IdpHandlerProofs` | TLAPS proofs about `IdpHandler` | |
| `LoginFlow` | `newIDPHandler` (`AcquireStore`, `PoolExhausted`, `ReleaseStore`), the IDP's choice (`IdpLoginSuccess`, `IdpLoginFailure`), `LoginSuccess` split at its calls (`SuccessMintFails`, `SuccessDone`, `SuccessDoneFails`, `SuccessUpdate`) and `LoginFailure`. Composed with the Place (`NewRendezvous`, `CanDone`/`PlaceDone`, `WaitReturns`, `WaitTimeout`, `Sweep`) and the pool counter `inUse`. | handler from source; Place, wait and pool from the spec (`spec_modelled` in the map) |
| `LoginFlowProofs` | TLAPS proofs about `LoginFlow` | |
| `UserStoreContract` | the abstract, atomic contract of `UpdateUser` (spec 4.1, 6): replace on a matching key pair, `AlreadyExists` when one key is taken by a different user, otherwise insert | from the spec |
| `IdpTestContext` | every mutex-protected method of `idptest.TestContext`. The users slice is a sequence searched in order, as the Go loop does. Injected errors are chosen in `Init`. | from source |
| `IdpTestContextProofs` | TLAPS proofs about `IdpTestContext`, including its refinement of `UserStoreContract` | |
| `MC*` | the constants of the runs below | |

Each action models the whole method or the whole segment of a method between
two calls that another request can interleave with. Its guard comes from the
code's conditions and early returns. For example, `SuccessDoneFails` is the
`if err := c.place.Done(...); err != nil` branch, and it leads to
`LoginFailure`, as the code does.

## 3. Runs

| Run | Config | Checks | Shows |
|---|---|---|---|
| `store_safety` | `MCIdentityStore.cfg`: 2 requests, 2 names, 2 external ids, 2 infos; symmetry on requests and infos | `TypeOK`, `UniqueIdentities`, `IdentityKeysStable` | Concurrent upserts never leave two records with one name or one external id. A stored record is never removed or re-keyed, so its UUID is stable. |
| `store_spurious_conflict` | `MCIdentityStoreClash.cfg` (same instance) | `AlreadyExistsOnlyOnClash` (expected violated) | See the finding below. |
| `login_flow` | `MCLoginFlow.cfg`: 3 logins, 1 token, 2 users, pool of 2 | `TypeOK`, `SuccessReachesWaiter`, `PoolAccounting` | Logins that share a token, failures of the mint step and of `Done`, and an exhausted pool: a reported success owns its entry and the pool count is exact. |
| `idp_handler_binding` | `MCIdpHandler.cfg`: 3 requests, 2 names, 2 external ids, 2 agent owners; symmetry on requests | `TypeOK`, `LoginBoundToCredential`, `OwnershipStable` | Users and agents log in concurrently, registering the same names through both branches of `UpdateUser`, against the non-atomic upsert. A completed login stays bound to its credential, and no step deletes, re-keys or re-owns a stored identity. |
| `agent_conflict_masked` | `MCIdpHandlerMask.cfg` (same instance) | `UpdateUserSurfacesAlreadyExists` (expected violated) | See finding 2 below. |
| `testcontext_contract` | `MCIdpTestContext.cfg`: 2 callers, 2 names, 2 ids, 2 infos, slice bound 2 | `TypeOK`, `ImplementsContract` | The fake refines the atomic `UpdateUser` contract, with its slice seen as a set. |

**Bounds.**
- Two requests are enough for every store race: the query/write split only
  needs a second request between the two halves. Two names and two ids allow
  both kinds of clash, on the name and on the id.
- `login_flow` has three logins, one token and a pool of two. Three logins on
  one token let two of them race `Done` while a third finds the pool full.
  Each login's `waitid` is chosen in `Init` from the token or `NoWait`, so
  every mix of logins with and without a rendezvous occurs.
- `idp_handler_binding` has three requests over two names. That lets two
  credentials compete for one name while a third request logs in under it,
  and lets one user's two first logins race in the upsert. Two owners allow
  agents of different owners to collide. Requests are symmetric because none
  is distinguished in the code; owners and ids are not, because `Init`
  assigns credentials to requests.
- The slice bound of `testcontext_contract` is 2. With two names no correct
  `UpdateUser` can make more than two users, so the bound cuts off no
  behaviour. It exists so that a duplicate append shows up as a `TypeOK`
  violation.

**No liveness.** Every property of the project is a safety property, and no
module assumes fairness. The Place, the wait endpoint and the sweep are not
in this tree. A liveness property about them, for example that every entry
is eventually reclaimed, would follow from a fairness assumption made on
spec-modelled actions, and would check nothing of this code. On the handler
side, every step of a request is always followed by another one, including
a mint failure, so "every request is answered" would hold by the shape of
the model.
`CHECK_DEADLOCK FALSE` is set in `MCLoginFlow.cfg` and `MCIdpHandler*.cfg`
only because the modelled system legitimately stops once every request has
been served.

**Mutants.** Every property of a passing run is violated by a plausible bug
in a mapped definition (`mutants` in `PROJECT.json`). Examples:
- the store without its `external_id` index;
- a `Done` that overwrites a completed entry;
- a handler that skips the deferred `Put`;
- the fake's loop without its `external_id` branch or without its `return`.

## 4. Findings

**1. Spurious `AlreadyExists` from the non-atomic upsert.**

`UpsertIdentity`'s doc comment and spec 4.1 promise `AlreadyExists` only on
a clash with a *different* record. The code issues one `Upsert` whose
selector evaluation and insert are separate steps for the database. Take two
first logins of the same new user. Both miss the selector, the first inserts,
and the second hits the unique index. That second login fails with
`AlreadyExists` although the stored record is its own (`src/unnamed/part_001:72`).
Uniqueness is never broken, because the unique indexes catch the double
insert. Spec 8 tolerates this outcome, but 4.1 does not. The `TestContext`
fake makes `UpdateUser` atomic, so IDP tests never see it.

**2. The agent branch of `UpdateUser` loses `AlreadyExists`.** Spec 4.5
says `UpdateUser` surfaces the store's `AlreadyExists` verbatim. The user
branch does, with `errgo.Mask(err, errgo.Is(params.ErrAlreadyExists))`
(`src/internal/v1/idp.go:165`). The agent branch returns `errgo.Mask(err)`
(`idp.go:160`), which keeps no cause. Take two agents of different owners
that register one name. The second gets a plain internal error, and its
provider cannot tell a name clash from a database failure
(`agent_conflict_masked`).

## 5. Proofs (TLAPS)

- **`IdentityStoreProofs`**
  - `StoreTypeCorrect`: `Spec => []TypeOK`, from the step lemma `TypeStep`.
  - `KeysStable`: `Spec => IdentityKeysStable`, the action property. The
    invariant `KInv` adds `UUIDsDerived`: every stored document, and every
    document in flight, has the UUID of its user name. A replacement writes
    a document with the name and external id of the one it removes, so by
    `UUIDsDerived` it has the same UUID as well.
  - `Uniqueness`: `Spec => []UniqueIdentities` for all sets of requests,
    names, ids and infos. `UniqueIdentities` alone is not inductive. An
    `UpsertUpdate` replaces the selected record with `doc[r]`. That preserves
    uniqueness only if the record it replaces is still there. Otherwise the
    write is an insert with no index check. So the inductive invariant adds
    `MatchStillPresent`: a request whose query matched still finds a record
    its selector selects. It holds because records are never removed, only
    replaced by one with the same keys.
- **`LoginFlowProofs`**, for any sets of logins, tokens and users and any
  pool size > 0:
  - `LoginTypeCorrect`: `Spec => []TypeOK`. It includes `inUse \in
    0..PoolSize`, so the pool is never over-committed.
  - `PoolNeverLeaks`: `Spec => []PoolAccounting`. It uses
    `FiniteSetTheorems` for the cardinality of the holders when one is added
    or removed.
  - `SuccessOwnsRendezvous`: `Spec => []SuccessReachesWaiter`. The inductive
    invariant `IInv` adds three conjuncts:
    - `RendezvousOwned`: a request past a successful `Done` owns the entry,
      which is completed or consumed and holds its user's macaroon;
    - `SuccessIsFinal`: a request that reported success has returned;
    - `ReceivedFromEntry`: a waiter only receives what the entry holds, and
      the entry is then consumed.

    Together these show that a later `Done`, whether another request's
    success or any `LoginFailure`, finds the entry not pending and cannot
    overwrite it.
- **`IdpTestContextProofs`**, for any callers, names, ids and infos and
  any slice bound:
  - `TestContextTypeCorrect`: `Spec => []TypeOK`.
  - `TestContextImplementsContract`: `Spec => ImplementsContract`. The
    refinement mapping sees the slice as the set of its elements. The
    invariant `IInv` adds `KeysDistinct`: no two entries of the slice share
    a user name or an external id. With it, the entries that share a key
    with a new user are at most two (`AtMostTwo`), and the first of them in
    slice order is the one the contract's case split is about
    (`FirstSharingSpec`, `FoundIsUser`). Then each `UpdateUser` maps to the
    contract's replace, refuse or append (`ReplaceStep`, `RefuseStep`,
    `AppendStep`), and every other step leaves the set and the results
    alone (a stutter).
- **`IdpHandlerProofs`**, for any requests, names, external ids and owners:
  - `HandlerTypeCorrect`: `Spec => []TypeOK`.
  - `LoginBinding`: `Spec => []LoginBoundToCredential`. It is not
    inductive alone, because a request at `login` has not yet succeeded.
    The invariant `IInv` adds three conjuncts:
    - `LoginOwned`: a request at `login` already has its record;
    - `RecordShape`: a record with an external id has no owner, so a
      user's record is never taken for an agent's;
    - `UpsertInFlight`: a request between the two halves of its upsert
      carries its own user's document.

    Each step keeps every record's name, external id and owner (`KeysKept`).
    `UpsertAgent` replaces only an agent with the same name and owner.
    `UpsertUser`'s replacement only replaces the record with the same name
    and external id, and by `RecordShape` that record has no owner either.
    There is one lemma per action, and `WriteStep` is shared by the two
    writes.
  - `OwnershipNeverChanges`: `Spec => OwnershipStable`, the action property,
    from the same step lemma.

Every invariant, action property and refinement of a passing run is also
proved. Only the violated properties of the two `violation` runs are left to
TLC, because they do not hold. A liveness property would also be left to
TLC, because TLAPS does not handle fairness or `ENABLED` here, but the
project states none (see "No liveness" above).

## 6. Not modelled yet, and the plan

1. `IdpHandler` abstracts `LoginSuccess` to one step, and `LoginFlow`
   models its mint and `Done` in detail. A composition of the two would
   join the rendezvous to the store. The `lastlogin` update is not
   modelled. A whole-document replacement drops it, which is reachable, but
   spec 4.1 makes the update best-effort, so there is nothing to check
   about it beyond `OwnershipStable`.
2. The store does not implement `UserStoreContract`. Its write half would
   be the commit point, but `UpsertDup` refuses a user whose identical
   record was inserted between its two halves (finding 1). A contract
   weakened to allow that would only restate the code, so no such
   refinement is claimed.
3. The login redirect whitelist and the IDP choice listing. `part_002` holds
   their tests. They would be operators checked against the behaviour those
   tests pin down.
4. The cookie codec, abstractly: round trip, tamper detection and key
   separation (spec 4.2). Its code is not in this tree.
5. The Place itself, once its code is available: its entries' life cycle,
   the wait deadline and the TTL sweep, with the liveness of reclaiming
   entries stated against that code instead of the spec.

Not to be modelled: HTTP routing, tracing, logging, the debug handler and
CLI. They are glue and change none of the state above.
