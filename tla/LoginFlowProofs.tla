-------------------------- MODULE LoginFlowProofs --------------------------
(***************************************************************************)
(* Proofs, for any number of login requests, wait tokens, users and any   *)
(* pool size, that the login handler keeps the store pool's count exact   *)
(* and that a login reported successful owns its rendezvous for good.     *)
(***************************************************************************)
EXTENDS LoginFlow, FiniteSetTheorems, TLAPS

(* The wait token of a request whose LoginSuccess got past place.Done,    *)
(* and which has since reported success or is about to: its entry is      *)
(* completed or consumed, and holds that request's user's macaroon.       *)
CompletedBy(l) == phase[l] = "update" \/ resp[l] = "success"

RendezvousOwned ==
    \A l \in Logins :
        CompletedBy(l) /\ waitid[l] # NoWait =>
            /\ place[waitid[l]] \in {"done", "gone"}
            /\ info[waitid[l]] = Mac(user[l])

(* A request that reported success has returned from LoginSuccess: it can *)
(* no longer be handed another user by the IDP.                           *)
SuccessIsFinal ==
    \A l \in Logins : resp[l] = "success" => phase[l] \in {"release", "finished"}

(* A wait request only ever returns what the entry holds, and the entry   *)
(* it returned is consumed.                                                *)
ReceivedFromEntry ==
    \A t \in Tokens :
        received[t] # NoInfo => received[t] = info[t] /\ place[t] = "gone"

IInv == /\ TypeOK /\ PoolAccounting
        /\ RendezvousOwned /\ SuccessIsFinal /\ ReceivedFromEntry

-----------------------------------------------------------------------------
(* The set of requests holding a store is finite.                          *)
LEMMA HoldersFinite == IsFiniteSet(Holders)
BY LoginAssumption, FS_Subset DEF Holders

(* A step that moves one request between two phases that both hold a      *)
(* store, or between two that both do not, leaves the holders unchanged.  *)
LEMMA HoldersKept ==
    ASSUME TypeOK, NEW l \in Logins, NEW p \in Phases,
           phase' = [phase EXCEPT ![l] = p],
           (phase[l] \in {"start", "finished"}) <=> (p \in {"start", "finished"})
    PROVE  Holders' = Holders
<1>1. \A k \in Logins : (phase'[k] \in Phases \ {"start", "finished"})
                        <=> (phase[k] \in Phases \ {"start", "finished"})
  BY DEF TypeOK
<1>2. QED
  BY <1>1 DEF Holders

(* The inductive invariant holds in the initial state.                     *)
LEMMA InitIInv == Init => IInv
<1> SUFFICES ASSUME Init PROVE IInv
  OBVIOUS
<1>1. TypeOK
  BY LoginAssumption DEF Init, TypeOK, Infos, Phases
<1>2. Holders = {}
  BY DEF Init, Holders
<1>3. PoolAccounting
  BY <1>2, FS_EmptySet DEF Init, PoolAccounting
<1>4. RendezvousOwned /\ SuccessIsFinal /\ ReceivedFromEntry
  BY DEF Init, RendezvousOwned, CompletedBy, SuccessIsFinal, ReceivedFromEntry
<1>5. QED
  BY <1>1, <1>3, <1>4 DEF IInv


(* The steps of the Place and of the wait endpoint keep the invariant:    *)
(* they never turn a completed entry back into a pending one and never    *)
(* touch what a completed entry holds.                                     *)
LEMMA PlaceStepIInv ==
    ASSUME IInv, NEW t \in Tokens, PlaceStep(t)
    PROVE  IInv'
<1> USE DEF IInv
<1>1. UNCHANGED loginVars
  BY DEF PlaceStep, NewRendezvous, WaitReturns, WaitTimeout, Sweep
<1>2. Holders' = Holders
  BY <1>1 DEF loginVars, Holders
<1>3. TypeOK'
  BY <1>1 DEF PlaceStep, NewRendezvous, WaitReturns, WaitTimeout, Sweep,
              TypeOK, loginVars
<1>4. PoolAccounting'
  BY <1>1, <1>2 DEF PoolAccounting, loginVars
<1>5. SuccessIsFinal'
  BY <1>1 DEF SuccessIsFinal, loginVars
<1>6. RendezvousOwned'
  BY <1>1 DEF PlaceStep, NewRendezvous, WaitReturns, WaitTimeout, Sweep,
              RendezvousOwned, CompletedBy, TypeOK, loginVars
<1>7. ReceivedFromEntry'
  BY DEF PlaceStep, NewRendezvous, WaitReturns, WaitTimeout, Sweep,
         ReceivedFromEntry, TypeOK
<1>8. QED
  BY <1>3, <1>4, <1>5, <1>6, <1>7

(* storePool.Get: one more holder and one more store in use, within the   *)
(* pool's size.                                                            *)
LEMMA AcquireIInv ==
    ASSUME IInv, NEW l \in Logins, AcquireStore(l)
    PROVE  IInv'
<1> USE DEF IInv
<1>1. Holders' = Holders \cup {l} /\ l \notin Holders
  BY DEF AcquireStore, Holders, TypeOK, Phases
<1>2. PoolAccounting'
  BY <1>1, HoldersFinite, FS_AddElement DEF AcquireStore, PoolAccounting
<1>3. TypeOK'
  BY LoginAssumption DEF AcquireStore, TypeOK, Phases, placeVars
<1>4. RendezvousOwned' /\ SuccessIsFinal' /\ ReceivedFromEntry'
  BY DEF AcquireStore, RendezvousOwned, CompletedBy, SuccessIsFinal, placeVars,
         ReceivedFromEntry, TypeOK
<1>5. QED
  BY <1>2, <1>3, <1>4

(* The deferred storePool.Put: one holder and one store in use fewer.      *)
LEMMA ReleaseIInv ==
    ASSUME IInv, NEW l \in Logins, ReleaseStore(l)
    PROVE  IInv'
<1> USE DEF IInv
<1>1. Holders' = Holders \ {l} /\ l \in Holders
  BY DEF ReleaseStore, Holders, TypeOK, Phases
<1>2. Cardinality(Holders') = inUse - 1
  BY <1>1, HoldersFinite, FS_RemoveElement DEF PoolAccounting
<1>3. inUse >= 1
  BY <1>1, HoldersFinite, FS_EmptySet, FS_CardinalityType DEF PoolAccounting
<1>4. PoolAccounting'
  BY <1>2 DEF ReleaseStore, PoolAccounting
<1>5. TypeOK'
  <2>1. inUse' \in 0..PoolSize
    BY <1>3, LoginAssumption DEF ReleaseStore, TypeOK
  <2>2. QED
    BY <2>1 DEF ReleaseStore, TypeOK, Phases, placeVars
<1>6. RendezvousOwned' /\ SuccessIsFinal' /\ ReceivedFromEntry'
  BY DEF ReleaseStore, RendezvousOwned, CompletedBy, SuccessIsFinal, placeVars,
         ReceivedFromEntry, TypeOK
<1>7. QED
  BY <1>4, <1>5, <1>6


(* The steps of a handler that touch neither the pool nor the Place keep  *)
(* the invariant.  IdpLoginSuccess is the one that changes the request's  *)
(* user, which it may only because the request has not reported success. *)
LEMMA LocalStepIInv ==
    ASSUME IInv, NEW l \in Logins,
           \/ PoolExhausted(l)
           \/ \E u \in Users : IdpLoginSuccess(l, u)
           \/ IdpLoginFailure(l)
           \/ SuccessMintFails(l)
           \/ SuccessDoneFails(l)
           \/ SuccessUpdate(l)
    PROVE  IInv'
<1> USE DEF IInv
<1>1. UNCHANGED <<placeVars, inUse, waitid>>
  BY DEF PoolExhausted, IdpLoginSuccess, IdpLoginFailure, SuccessMintFails,
         SuccessDoneFails, SuccessUpdate
<1>2. PICK p \in Phases :
        /\ phase' = [phase EXCEPT ![l] = p]
        /\ (phase[l] \in {"start", "finished"}) <=> (p \in {"start", "finished"})
  BY DEF PoolExhausted, IdpLoginSuccess, IdpLoginFailure, SuccessMintFails,
         SuccessDoneFails, SuccessUpdate, Phases
<1>3. Holders' = Holders
  BY <1>2, HoldersKept
<1>4. PoolAccounting'
  BY <1>1, <1>3 DEF PoolAccounting
<1>5. TypeOK'
  BY <1>1, <1>2 DEF PoolExhausted, IdpLoginSuccess, IdpLoginFailure,
                    SuccessMintFails, SuccessDoneFails, SuccessUpdate,
                    TypeOK, placeVars
<1>6. ReceivedFromEntry'
  BY <1>1 DEF ReceivedFromEntry, placeVars
<1>7. SuccessIsFinal'
  BY DEF PoolExhausted, IdpLoginSuccess, IdpLoginFailure, SuccessMintFails,
         SuccessDoneFails, SuccessUpdate, SuccessIsFinal, TypeOK
<1>8. RendezvousOwned'
  <2> SUFFICES ASSUME NEW k \in Logins, CompletedBy(k)', waitid'[k] # NoWait
               PROVE  /\ place'[waitid'[k]] \in {"done", "gone"}
                      /\ info'[waitid'[k]] = Mac(user'[k])
    BY DEF RendezvousOwned
  <2>1. CompletedBy(k) /\ user'[k] = user[k]
    BY DEF PoolExhausted, IdpLoginSuccess, IdpLoginFailure, SuccessMintFails,
           SuccessDoneFails, SuccessUpdate, CompletedBy, SuccessIsFinal, TypeOK
  <2>2. QED
    BY <1>1, <2>1 DEF RendezvousOwned, placeVars
<1>9. QED
  BY <1>4, <1>5, <1>6, <1>7, <1>8

(* LoginSuccess completing the rendezvous: the entry was pending, so no    *)
(* request owned it yet, and the request now owns it with its macaroon.   *)
LEMMA SuccessDoneIInv ==
    ASSUME IInv, NEW l \in Logins, SuccessDone(l)
    PROVE  IInv'
<1> USE DEF IInv
<1>1. UNCHANGED <<inUse, waitid, user, resp, lastLogin, waiter, received>>
  BY DEF SuccessDone, placeVars
<1>2. Holders' = Holders
  BY HoldersKept DEF SuccessDone, Phases
<1>3. PoolAccounting'
  BY <1>1, <1>2 DEF PoolAccounting
<1>4. TypeOK'
  BY DEF SuccessDone, TypeOK, Phases, PlaceDone, Infos, placeVars
<1>5. SuccessIsFinal'
  BY DEF SuccessDone, SuccessIsFinal, TypeOK
<1>6. CASE waitid[l] = NoWait
  <2>1. UNCHANGED placeVars
    BY <1>6 DEF SuccessDone
  <2>2. RendezvousOwned'
    BY <1>1, <1>6, <2>1 DEF SuccessDone, RendezvousOwned, CompletedBy,
                            placeVars, TypeOK
  <2>3. ReceivedFromEntry'
    BY <1>1, <2>1 DEF ReceivedFromEntry, placeVars
  <2>4. QED
    BY <1>3, <1>4, <1>5, <2>2, <2>3
<1>7. CASE waitid[l] # NoWait
  <2> DEFINE t == waitid[l]
  <2>0. t \in Tokens
    BY <1>7 DEF TypeOK
  <2>1. place[t] = "pending" /\ PlaceDone(t, Mac(user[l]))
    BY <1>7 DEF SuccessDone, CanDone
  <2>2. \A k \in Logins : CompletedBy(k) => waitid[k] # t
    BY <1>7, <2>0, <2>1 DEF RendezvousOwned, TypeOK
  <2>3. RendezvousOwned'
    BY <1>1, <2>1, <2>2 DEF SuccessDone, RendezvousOwned, CompletedBy,
                            PlaceDone, TypeOK
  <2>4. received[t] = NoInfo
    BY <2>0, <2>1 DEF ReceivedFromEntry, TypeOK
  <2>5. ReceivedFromEntry'
    BY <1>1, <2>1, <2>4 DEF ReceivedFromEntry, PlaceDone, TypeOK
  <2>6. QED
    BY <1>3, <1>4, <1>5, <2>3, <2>5
<1>8. QED
  BY <1>6, <1>7

(* LoginFailure delivering the error: only a pending entry takes it, and  *)
(* no request that reported success owns a pending entry.                 *)
LEMMA LoginFailureIInv ==
    ASSUME IInv, NEW l \in Logins, LoginFailure(l)
    PROVE  IInv'
<1> USE DEF IInv
<1>1. UNCHANGED <<inUse, waitid, user, lastLogin>>
  BY DEF LoginFailure
<1>2. Holders' = Holders
  BY HoldersKept DEF LoginFailure, Phases
<1>3. PoolAccounting'
  BY <1>1, <1>2 DEF PoolAccounting
<1>4. SuccessIsFinal'
  BY DEF LoginFailure, SuccessIsFinal, TypeOK
<1>5. ~CompletedBy(l)'
  BY DEF LoginFailure, CompletedBy, TypeOK
<1>6. \A k \in Logins \ {l} : CompletedBy(k)' = CompletedBy(k)
  BY DEF LoginFailure, CompletedBy, TypeOK
<1>7. CASE waitid[l] # NoWait /\ CanDone(waitid[l])
  <2> DEFINE t == waitid[l]
  <2>0. t \in Tokens
    BY <1>7 DEF TypeOK
  <2>1. place[t] = "pending" /\ PlaceDone(t, ErrInfo)
        /\ UNCHANGED <<waiter, received>>
    BY <1>7 DEF LoginFailure, CanDone
  <2>2. \A k \in Logins : CompletedBy(k) => waitid[k] # t
    BY <1>7, <2>0, <2>1 DEF RendezvousOwned, TypeOK
  <2>3. TypeOK'
    BY <2>1 DEF LoginFailure, TypeOK, Phases, PlaceDone, Infos
  <2>4. RendezvousOwned'
    BY <1>1, <1>5, <1>6, <2>1, <2>2 DEF RendezvousOwned, PlaceDone, TypeOK
  <2>5. received[t] = NoInfo
    BY <2>0, <2>1 DEF ReceivedFromEntry, TypeOK
  <2>6. ReceivedFromEntry'
    BY <2>1, <2>5 DEF ReceivedFromEntry, PlaceDone, TypeOK
  <2>7. QED
    BY <1>3, <1>4, <2>3, <2>4, <2>6
<1>8. CASE ~(waitid[l] # NoWait /\ CanDone(waitid[l]))
  <2>1. UNCHANGED placeVars
    BY <1>8 DEF LoginFailure
  <2>2. TypeOK'
    BY <2>1 DEF LoginFailure, TypeOK, Phases, placeVars
  <2>3. RendezvousOwned'
    BY <1>1, <1>5, <1>6, <2>1 DEF RendezvousOwned, placeVars
  <2>4. ReceivedFromEntry'
    BY <2>1 DEF ReceivedFromEntry, placeVars
  <2>5. QED
    BY <1>3, <1>4, <2>2, <2>3, <2>4
<1>9. QED
  BY <1>7, <1>8


(* Every step of the login handlers, the Place and the wait endpoint      *)
(* preserves the inductive invariant.                                      *)
LEMMA NextIInv == IInv /\ [Next]_vars => IInv'
<1> SUFFICES ASSUME IInv, [Next]_vars PROVE IInv'
  OBVIOUS
<1>1. ASSUME NEW l \in Logins, LoginStep(l) PROVE IInv'
  <2>1. CASE AcquireStore(l)
    BY <2>1, AcquireIInv
  <2>2. CASE ReleaseStore(l)
    BY <2>2, ReleaseIInv
  <2>3. CASE SuccessDone(l)
    BY <2>3, SuccessDoneIInv
  <2>4. CASE LoginFailure(l)
    BY <2>4, LoginFailureIInv
  <2>5. CASE \/ PoolExhausted(l)
             \/ \E u \in Users : IdpLoginSuccess(l, u)
             \/ IdpLoginFailure(l)
             \/ SuccessMintFails(l)
             \/ SuccessDoneFails(l)
             \/ SuccessUpdate(l)
    BY <2>5, LocalStepIInv
  <2>6. QED
    BY <1>1, <2>1, <2>2, <2>3, <2>4, <2>5 DEF LoginStep
<1>2. ASSUME NEW t \in Tokens, PlaceStep(t) PROVE IInv'
  BY <1>2, PlaceStepIInv
<1>3. CASE UNCHANGED vars
  BY <1>3 DEF vars, placeVars, loginVars, IInv, TypeOK, PoolAccounting,
              Holders, RendezvousOwned, CompletedBy, SuccessIsFinal,
              ReceivedFromEntry
<1>4. QED
  BY <1>1, <1>2, <1>3 DEF Next

(* The inductive invariant holds in every reachable state.                 *)
LEMMA IInvHolds == Spec => []IInv
BY InitIInv, NextIInv, PTL DEF Spec

(* Type correctness of the composed login flow, for any pool size: in     *)
(* particular the pool never hands out more stores than it has.           *)
THEOREM LoginTypeCorrect == Spec => []TypeOK
BY IInvHolds, PTL DEF IInv

(* The store pool's count is exact on every path of newIDPHandler: stores *)
(* are neither leaked nor put back twice.                                  *)
THEOREM PoolNeverLeaks == Spec => []PoolAccounting
BY IInvHolds, PTL DEF IInv

(* However many login requests present the same wait token, and however   *)
(* their LoginSuccess and LoginFailure calls interleave with the Place's  *)
(* sweep and the wait endpoint, a request told that LoginSuccess          *)
(* succeeded owns the rendezvous: it holds that user's macaroon and the   *)
(* wait request can return nothing else.                                   *)
THEOREM SuccessOwnsRendezvous == Spec => []SuccessReachesWaiter
<1>1. IInv => SuccessReachesWaiter
  BY DEF IInv, SuccessReachesWaiter, RendezvousOwned, CompletedBy,
         ReceivedFromEntry, TypeOK
<1>2. QED
  BY <1>1, IInvHolds, PTL
=============================================================================
