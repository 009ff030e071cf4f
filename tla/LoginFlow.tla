----------------------------- MODULE LoginFlow -----------------------------
(***************************************************************************)
(* The IDP login handler of internal/v1/idp.go (newIDPHandler, and the     *)
(* LoginSuccess and LoginFailure callbacks of idpHandler) running for     *)
(* several concurrent login requests, composed with the rendezvous Place  *)
(* that correlates a login with the discharge request waiting for it, and *)
(* with the pool of store connections the handler takes a store from.     *)
(*                                                                         *)
(* The Place, the wait endpoint of the discharger and the store pool are  *)
(* not in this source tree; they are modelled from spec 4.3, 4.4 and 7.    *)
(* The identity provider itself is the environment: it ends every         *)
(* request with either LoginSuccess for some user or LoginFailure.        *)
(***************************************************************************)
EXTENDS Naturals, FiniteSets

CONSTANTS
    Logins,     \* concurrent HTTP requests served by newIDPHandler
    Tokens,     \* wait tokens ("waitid") handed out by the discharger
    Users,      \* user names an identity provider may log in
    NoWait,     \* a request whose form carries no "waitid"
    PoolSize    \* the number of stores the store pool hands out at once

ASSUME LoginAssumption ==
    /\ Logins # {} /\ Tokens # {} /\ Users # {}
    /\ NoWait \notin Tokens
    /\ PoolSize \in Nat \ {0}
    /\ IsFiniteSet(Logins)

(* The loginInfo values a Place entry can hold.                            *)
Mac(u) == <<"macaroon", u>>
ErrInfo == <<"error">>
NoInfo == <<"none">>
Infos == {Mac(u) : u \in Users} \cup {ErrInfo}

VARIABLES
    place,      \* per token: "unused", "pending", "done" or "gone"
    info,       \* per token: the loginInfo written by the successful Done
    waiter,     \* per token: the wait request, "idle", "waiting",
                \*   "received" or "timeout"
    received,   \* per token: what the wait request returned
    inUse,      \* stores taken from the pool and not yet put back
    phase,      \* per login request: where its handler is
    waitid,     \* per login request: its "waitid" form value
    user,       \* per login request: the user the IDP reports
    resp,       \* per login request: "none", "success", "error", "unavailable"
    lastLogin   \* users whose "lastlogin" field has been set

placeVars == <<place, info, waiter, received>>
loginVars == <<inUse, phase, waitid, user, resp, lastLogin>>
vars == <<placeVars, loginVars>>

Phases == {"start", "handle", "success", "update", "failure", "release", "finished"}

(* The requests that hold a store: those past storePool.Get and before    *)
(* the deferred storePool.Put.                                             *)
Holders == {l \in Logins : phase[l] \in Phases \ {"start", "finished"}}

Init ==
    /\ place = [t \in Tokens |-> "unused"]
    /\ info = [t \in Tokens |-> NoInfo]
    /\ waiter = [t \in Tokens |-> "idle"]
    /\ received = [t \in Tokens |-> NoInfo]
    /\ inUse = 0
    /\ phase = [l \in Logins |-> "start"]
    /\ waitid \in [Logins -> Tokens \cup {NoWait}]
    /\ user = [l \in Logins |-> CHOOSE u \in Users : TRUE]
    /\ resp = [l \in Logins |-> "none"]
    /\ lastLogin = {}

-----------------------------------------------------------------------------
(* A Done that also overwrites an entry that is already completed.         *)
CanDoneOverwrite(t) == place[t] \in {"pending", "done"}

(* Place.Done(token, loginInfo): the single terminal write of a pending   *)
(* entry.  It succeeds only on a pending entry (spec 4.4); on an unknown, *)
(* completed or consumed token it fails with NotFound.                     *)
CanDone(t) == place[t] = "pending"

PlaceDone(t, v) ==
    /\ place' = [place EXCEPT ![t] = "done"]
    /\ info' = [info EXCEPT ![t] = v]

(* The discharger answers a third-party caveat that needs interaction by  *)
(* allocating a pending entry under a fresh token; the client then calls  *)
(* the wait endpoint with it.                                              *)
NewRendezvous(t) ==
    /\ place[t] = "unused"
    /\ place' = [place EXCEPT ![t] = "pending"]
    /\ waiter' = [waiter EXCEPT ![t] = "waiting"]
    /\ UNCHANGED <<info, received, loginVars>>

(* The wait endpoint returns the outcome of a completed entry and the      *)
(* entry is consumed (single consumer, spec 9).                            *)
WaitReturns(t) ==
    /\ waiter[t] = "waiting"
    /\ place[t] = "done"
    /\ received' = [received EXCEPT ![t] = info[t]]
    /\ waiter' = [waiter EXCEPT ![t] = "received"]
    /\ place' = [place EXCEPT ![t] = "gone"]
    /\ UNCHANGED <<info, loginVars>>

(* The wait deadline passes first: Timeout; the entry is left in place.    *)
WaitTimeout(t) ==
    /\ waiter[t] = "waiting"
    /\ waiter' = [waiter EXCEPT ![t] = "timeout"]
    /\ UNCHANGED <<place, info, received, loginVars>>

(* The background sweep removes an entry whose time-to-live has passed.    *)
Sweep(t) ==
    /\ place[t] \in {"pending", "done"}
    /\ place' = [place EXCEPT ![t] = "gone"]
    /\ UNCHANGED <<info, waiter, received, loginVars>>

-----------------------------------------------------------------------------
(* A pool whose Get hands out a store whatever the number in use.          *)
AcquireStoreUnbounded(l) ==
    /\ phase[l] = "start"
    /\ inUse' = inUse + 1
    /\ phase' = [phase EXCEPT ![l] = "handle"]
    /\ UNCHANGED <<placeVars, waitid, user, resp, lastLogin>>

(* newIDPHandler: storePool.Get succeeds, the deferred Put is registered   *)
(* and idp.Handle runs with a fresh idpHandler.                            *)
AcquireStore(l) ==
    /\ phase[l] = "start"
    /\ inUse < PoolSize
    /\ inUse' = inUse + 1
    /\ phase' = [phase EXCEPT ![l] = "handle"]
    /\ UNCHANGED <<placeVars, waitid, user, resp, lastLogin>>

(* newIDPHandler: storePool.Get fails with ErrServiceUnavailable; the     *)
(* error is written and the handler returns without a store to put back.  *)
PoolExhausted(l) ==
    /\ phase[l] = "start"
    /\ inUse >= PoolSize
    /\ phase' = [phase EXCEPT ![l] = "finished"]
    /\ resp' = [resp EXCEPT ![l] = "unavailable"]
    /\ UNCHANGED <<placeVars, inUse, waitid, user, lastLogin>>

(* idp.Handle ends in c.LoginSuccess(u, ...) or in c.LoginFailure(err).   *)
IdpLoginSuccess(l, u) ==
    /\ phase[l] = "handle"
    /\ phase' = [phase EXCEPT ![l] = "success"]
    /\ user' = [user EXCEPT ![l] = u]
    /\ UNCHANGED <<placeVars, inUse, waitid, resp, lastLogin>>

IdpLoginFailure(l) ==
    /\ phase[l] = "handle"
    /\ phase' = [phase EXCEPT ![l] = "failure"]
    /\ UNCHANGED <<placeVars, inUse, waitid, user, resp, lastLogin>>

(* LoginSuccess: NewMacaroon fails; LoginFailure is called.                *)
SuccessMintFails(l) ==
    /\ phase[l] = "success"
    /\ phase' = [phase EXCEPT ![l] = "failure"]
    /\ UNCHANGED <<placeVars, inUse, waitid, user, resp, lastLogin>>

(* LoginSuccess: the macaroon is minted and, when there is a waitid, the  *)
(* rendezvous is completed with it.                                        *)
SuccessDone(l) ==
    /\ phase[l] = "success"
    /\ \/ /\ waitid[l] = NoWait
          /\ UNCHANGED placeVars
       \/ /\ waitid[l] # NoWait
          /\ CanDone(waitid[l])
          /\ PlaceDone(waitid[l], Mac(user[l]))
          /\ UNCHANGED <<waiter, received>>
    /\ phase' = [phase EXCEPT ![l] = "update"]
    /\ UNCHANGED <<inUse, waitid, user, resp, lastLogin>>

(* LoginSuccess: place.Done fails ("cannot complete rendezvous");          *)
(* LoginFailure is called and LoginSuccess returns false.                  *)
SuccessDoneFails(l) ==
    /\ phase[l] = "success"
    /\ waitid[l] # NoWait
    /\ ~CanDone(waitid[l])
    /\ phase' = [phase EXCEPT ![l] = "failure"]
    /\ UNCHANGED <<placeVars, inUse, waitid, user, resp, lastLogin>>

(* LoginSuccess: UpdateIdentity sets "lastlogin" (its error is ignored)    *)
(* and LoginSuccess returns true; the IDP answers the browser.             *)
SuccessUpdate(l) ==
    /\ phase[l] = "update"
    /\ lastLogin' = lastLogin \cup {user[l]}
    /\ resp' = [resp EXCEPT ![l] = "success"]
    /\ phase' = [phase EXCEPT ![l] = "release"]
    /\ UNCHANGED <<placeVars, inUse, waitid, user>>

(* LoginFailure: with a waitid the error is delivered to the rendezvous,  *)
(* the result of place.Done being ignored; the error is written.          *)
LoginFailure(l) ==
    /\ phase[l] = "failure"
    /\ IF waitid[l] # NoWait /\ CanDone(waitid[l])
         THEN /\ PlaceDone(waitid[l], ErrInfo)
              /\ UNCHANGED <<waiter, received>>
         ELSE UNCHANGED placeVars
    /\ resp' = [resp EXCEPT ![l] = "error"]
    /\ phase' = [phase EXCEPT ![l] = "release"]
    /\ UNCHANGED <<inUse, waitid, user, lastLogin>>

(* A handler that returns without putting its store back.                  *)
ReleaseStoreNoPut(l) ==
    /\ phase[l] = "release"
    /\ phase' = [phase EXCEPT ![l] = "finished"]
    /\ UNCHANGED <<placeVars, inUse, waitid, user, resp, lastLogin>>

(* The deferred storePool.Put when the handler returns.                    *)
ReleaseStore(l) ==
    /\ phase[l] = "release"
    /\ inUse' = inUse - 1
    /\ phase' = [phase EXCEPT ![l] = "finished"]
    /\ UNCHANGED <<placeVars, waitid, user, resp, lastLogin>>

-----------------------------------------------------------------------------
LoginStep(l) ==
    \/ AcquireStore(l)
    \/ PoolExhausted(l)
    \/ \E u \in Users : IdpLoginSuccess(l, u)
    \/ IdpLoginFailure(l)
    \/ SuccessMintFails(l)
    \/ SuccessDone(l)
    \/ SuccessDoneFails(l)
    \/ SuccessUpdate(l)
    \/ LoginFailure(l)
    \/ ReleaseStore(l)

PlaceStep(t) ==
    \/ NewRendezvous(t)
    \/ WaitReturns(t)
    \/ WaitTimeout(t)
    \/ Sweep(t)

Next == (\E l \in Logins : LoginStep(l)) \/ (\E t \in Tokens : PlaceStep(t))

(* The properties of this module are safety properties: no fairness is    *)
(* assumed of the requests, the client, the wait endpoint or the sweep.    *)
Spec == Init /\ [][Next]_vars

-----------------------------------------------------------------------------
(* Every variable has the type the code gives it.                          *)
TypeOK ==
    /\ place \in [Tokens -> {"unused", "pending", "done", "gone"}]
    /\ info \in [Tokens -> Infos \cup {NoInfo}]
    /\ waiter \in [Tokens -> {"idle", "waiting", "received", "timeout"}]
    /\ received \in [Tokens -> Infos \cup {NoInfo}]
    /\ inUse \in 0..PoolSize
    /\ phase \in [Logins -> Phases]
    /\ waitid \in [Logins -> Tokens \cup {NoWait}]
    /\ user \in [Logins -> Users]
    /\ resp \in [Logins -> {"none", "success", "error", "unavailable"}]
    /\ lastLogin \subseteq Users

(* LoginSuccess reporting true for a request with a waitid means its       *)
(* user's macaroon is what the rendezvous holds, for good: however the    *)
(* other logins presenting the same waitid (a resubmitted form, a second  *)
(* tab) and their LoginFailure calls interleave with it, the wait request *)
(* can only ever return that user's macaroon (spec 4.3, 4.4).             *)
SuccessReachesWaiter ==
    \A l \in Logins :
        resp[l] = "success" /\ waitid[l] # NoWait =>
            /\ info[waitid[l]] = Mac(user[l])
            /\ received[waitid[l]] \in {NoInfo, Mac(user[l])}

(* Stores are never leaked or put back twice: the pool's count of stores  *)
(* in use is exactly the number of handlers between Get and the deferred  *)
(* Put, on the success path, on every failure path and when Get fails.    *)
PoolAccounting == inUse = Cardinality(Holders)

=============================================================================
