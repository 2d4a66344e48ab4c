---------------------------- MODULE KillSwitchProofs ----------------------------
(***************************************************************************)
(* Proofs about KillSwitch, for any listeners and any number of trips: its  *)
(* types, that a listener is notified exactly once per trip, and that no    *)
(* fence is open before the trips so far are delivered.                     *)
(***************************************************************************)
EXTENDS KillSwitch, TLAPS

\* A listener is owed what lies between what it was told and the newest trip;
\* one that is not registered has heard nothing.
Bounds ==
  /\ lastActive => generation > 0
  /\ \A l \in registered : since[l] <= delivered[l] /\ delivered[l] <= generation
  /\ \A l \in Listeners \ registered : runs[l] = 0

\* The delivery in progress is the next that its listener is owed.
Delivery ==
  IF running.who = Nobody THEN running.ended = "no"
  ELSE /\ running.who \in registered
       /\ running.trip = delivered[running.who] + 1
       /\ running.trip <= generation

\* An open fence was taken with nothing owed, and nothing has been published
\* since, because that needs the lock.
FenceIsTrue == fence = "open" => ~lastActive /\ ~CriticalPending

IInv == TypeOK /\ Bounds /\ Delivery /\ ExactlyOnce /\ FenceIsTrue

\* The state a power-up leaves satisfies every part.
LEMMA InitIInv == Init => IInv
  BY ListenerAssumption
  DEF Init, IInv, TypeOK, Bounds, Delivery, ExactlyOnce, FenceIsTrue, NotRunning

\* An observation keeps the generation or moves on by one.
LEMMA SyncMoves ==
  ASSUME TypeOK, Bounds, Sync, flag' \in BOOLEAN, hot' \in BOOLEAN
  PROVE  /\ lastActive' \in BOOLEAN /\ generation' \in Nat
         /\ generation' >= generation
         /\ lastActive' => generation' > 0
  BY DEF TypeOK, Bounds, Sync

\* What StartDelivery does to the drain's own variables.
LEMMA StartDeliveryTypes ==
  ASSUME TypeOK, StartDelivery, generation' \in Nat
  PROVE  /\ notifying' \in BOOLEAN /\ attempted' \subseteq Listeners \X Nat
         /\ running' = running
  BY DEF TypeOK, StartDelivery

\* Operations that leave the listeners alone and only observe, trip or reset.
LEMMA Observing ==
  ASSUME IInv, Sync, flag' \in BOOLEAN, hot' \in BOOLEAN,
         UNCHANGED <<listenerVars, delivered, running, runs>>,
         notifying' \in BOOLEAN, attempted' \subseteq Listeners \X Nat,
         fence = "none", fence' = fence,
         approval' \in [epoch : Nat, tripped : BOOLEAN]
  PROVE  IInv'
<1>1. /\ lastActive' \in BOOLEAN /\ generation' \in Nat
      /\ generation' >= generation
      /\ lastActive' => generation' > 0
  BY SyncMoves DEF IInv
<1>2. TypeOK'
  BY <1>1 DEF IInv, TypeOK, listenerVars
<1>3. Bounds'
  BY <1>1 DEF IInv, Bounds, TypeOK, listenerVars
<1>4. Delivery'
  BY <1>1 DEF IInv, Delivery, TypeOK, listenerVars
<1>5. ExactlyOnce'
  BY DEF IInv, ExactlyOnce, listenerVars
<1>6. FenceIsTrue'
  BY DEF FenceIsTrue
<1> QED BY <1>2, <1>3, <1>4, <1>5, <1>6 DEF IInv

--------------------------------------------------------------------------------
LEMMA TripStep == IInv /\ Trip => IInv'
<1> SUFFICES ASSUME IInv, Trip PROVE IInv'
  OBVIOUS
<1>1. flag' \in BOOLEAN /\ hot' \in BOOLEAN /\ Sync /\ StartDelivery
  BY DEF Trip, IInv, TypeOK
<1>2. generation' \in Nat
  BY <1>1, SyncMoves DEF IInv
<1>3. /\ notifying' \in BOOLEAN /\ attempted' \subseteq Listeners \X Nat
      /\ running' = running
  BY <1>1, <1>2, StartDeliveryTypes DEF IInv
<1>4. approval' \in [epoch : Nat, tripped : BOOLEAN]
  BY DEF Trip, IInv, TypeOK
<1> QED BY <1>1, <1>3, <1>4, Observing DEF Trip, Unlocked, listenerVars

LEMMA ResetStep == IInv /\ Reset => IInv'
<1> SUFFICES ASSUME IInv, Reset PROVE IInv'
  OBVIOUS
<1>1. flag' \in BOOLEAN /\ hot' \in BOOLEAN /\ Sync /\ StartDelivery
  BY DEF Reset, IInv, TypeOK
<1>2. generation' \in Nat
  BY <1>1, SyncMoves DEF IInv
<1>3. /\ notifying' \in BOOLEAN /\ attempted' \subseteq Listeners \X Nat
      /\ running' = running
  BY <1>1, <1>2, StartDeliveryTypes DEF IInv
<1>4. approval' \in [epoch : Nat, tripped : BOOLEAN]
  BY DEF Reset, IInv, TypeOK
<1> QED BY <1>1, <1>3, <1>4, Observing DEF Reset, Unlocked, listenerVars

LEMMA ObserveStep == IInv /\ (Observe \/ ObserveAgain) => IInv'
<1> SUFFICES ASSUME IInv, Observe \/ ObserveAgain PROVE IInv'
  OBVIOUS
<1>1. flag' \in BOOLEAN /\ hot' \in BOOLEAN /\ Sync
  BY DEF Observe, ObserveAgain, IInv, TypeOK
<1>2. generation' \in Nat
  BY <1>1, SyncMoves DEF IInv
<1>3. /\ notifying' \in BOOLEAN /\ attempted' \subseteq Listeners \X Nat
      /\ running' = running
  <2>1. CASE Observe
    BY <2>1, <1>2, StartDeliveryTypes DEF IInv, Observe
  <2>2. CASE ObserveAgain
    BY <2>2 DEF ObserveAgain, drainVars, IInv, TypeOK
  <2> QED BY <2>1, <2>2
<1>4. approval' \in [epoch : Nat, tripped : BOOLEAN]
  BY DEF Observe, ObserveAgain, IInv, TypeOK
<1> QED BY <1>1, <1>3, <1>4, Observing
        DEF Observe, ObserveAgain, Unlocked, listenerVars

LEMMA AddListenerStep ==
  ASSUME NEW l \in Listeners, NEW crit \in BOOLEAN, IInv, AddListener(l, crit)
  PROVE  IInv'
<1> DEFINE told == IF lastActive' THEN generation' - 1 ELSE generation'
<1>1. /\ lastActive' \in BOOLEAN /\ generation' \in Nat
      /\ generation' >= generation
      /\ lastActive' => generation' > 0
  BY SyncMoves DEF IInv, TypeOK, AddListener
<1>2. told \in Nat /\ told <= generation'
  <2>1. \A g \in Nat : g > 0 => g - 1 \in Nat /\ g - 1 <= g
    OBVIOUS
  <2>2. \A g \in Nat : g <= g
    OBVIOUS
  <2>3. CASE lastActive'
    BY <1>1, <2>1, <2>3
  <2>4. CASE ~lastActive'
    BY <1>1, <2>2, <2>4
  <2> QED BY <2>3, <2>4
<1>3. /\ notifying' \in BOOLEAN /\ attempted' \subseteq Listeners \X Nat
      /\ running' = running
  BY <1>1, StartDeliveryTypes DEF IInv, AddListener
<1>4. /\ UNCHANGED <<flag, hot, fence, runs, approval>>
      /\ fence = "none" /\ l \notin registered
      /\ registered' = registered \cup {l}
      /\ critical' \subseteq critical \cup {l}
      /\ since' = [since EXCEPT ![l] = told]
      /\ delivered' = [delivered EXCEPT ![l] = since'[l]]
  BY DEF AddListener, Unlocked
<1> HIDE DEF told
<1>5. /\ since' \in [Listeners -> Nat] /\ since'[l] = told
      /\ delivered' \in [Listeners -> Nat] /\ delivered'[l] = told
      /\ \A k \in registered :
           k # l /\ delivered'[k] = delivered[k] /\ since'[k] = since[k]
  BY <1>2, <1>4 DEF IInv, TypeOK
<1>6. TypeOK'
  BY <1>1, <1>3, <1>4, <1>5 DEF IInv, TypeOK
<1>7. Bounds'
  BY <1>1, <1>2, <1>4, <1>5 DEF IInv, Bounds, TypeOK
<1>8. running.who # l
  BY <1>4, ListenerAssumption DEF IInv, Delivery
<1>9. Delivery'
  BY <1>1, <1>3, <1>4, <1>5 DEF IInv, Delivery, TypeOK
<1>10. ExactlyOnce'
  <2>1. runs[l] = 0
    BY <1>4 DEF IInv, Bounds
  <2> QED BY <1>2, <1>3, <1>4, <1>5, <1>8, <2>1 DEF IInv, ExactlyOnce
<1>11. FenceIsTrue'
  BY <1>4 DEF FenceIsTrue
<1> QED BY <1>6, <1>7, <1>9, <1>10, <1>11 DEF IInv

LEMMA MakeCriticalStep ==
  ASSUME NEW l \in Listeners, IInv, MakeCritical(l)
  PROVE  IInv'
<1> USE DEF MakeCritical
<1>1. /\ lastActive' \in BOOLEAN /\ generation' \in Nat
      /\ generation' >= generation
      /\ lastActive' => generation' > 0
  BY SyncMoves DEF IInv, TypeOK
<1>2. /\ notifying' \in BOOLEAN /\ attempted' \subseteq Listeners \X Nat
      /\ running' = running
  BY <1>1, StartDeliveryTypes DEF IInv
<1>3. TypeOK'
  BY <1>1, <1>2 DEF IInv, TypeOK
<1>4. Bounds'
  BY <1>1 DEF IInv, Bounds, TypeOK
<1>5. Delivery'
  BY <1>1, <1>2 DEF IInv, Delivery, TypeOK
<1>6. ExactlyOnce'
  BY <1>2 DEF IInv, ExactlyOnce
<1>7. FenceIsTrue'
  BY DEF FenceIsTrue, Unlocked
<1> QED BY <1>3, <1>4, <1>5, <1>6, <1>7 DEF IInv

--------------------------------------------------------------------------------
LEMMA SelectStep == ASSUME NEW l \in Listeners, IInv, Select(l) PROVE IInv'
<1> USE DEF Select, Selectable
<1>1. /\ lastActive' \in BOOLEAN /\ generation' \in Nat
      /\ generation' >= generation
      /\ lastActive' => generation' > 0
  BY SyncMoves DEF IInv, TypeOK
<1>2. UNCHANGED <<registered, critical, since, delivered, runs, fence, flag, hot,
                  notifying, approval>>
  BY DEF listenerVars
<1>3. /\ l \in registered /\ delivered[l] \in Nat
      /\ delivered[l] < generation'
      /\ running' = [who |-> l, trip |-> delivered[l] + 1, ended |-> "no"]
      /\ running.who = Nobody
  BY DEF IInv, TypeOK, NotRunning
<1>4. TypeOK'
  <2>1. running' \in [who : Listeners \cup {Nobody}, trip : Nat,
                      ended : {"no", "well", "badly"}]
    BY <1>3
  <2>2. attempted' \subseteq Listeners \X Nat
    BY <1>3 DEF IInv, TypeOK
  <2> QED BY <1>1, <1>2, <2>1, <2>2 DEF IInv, TypeOK
<1>5. Bounds'
  BY <1>1, <1>2 DEF IInv, Bounds, TypeOK
<1>6. Delivery'
  BY <1>1, <1>2, <1>3 DEF Delivery
<1>7. ExactlyOnce'
  BY <1>2, <1>3, ListenerAssumption DEF IInv, ExactlyOnce, TypeOK
<1>8. FenceIsTrue'
  BY <1>2 DEF FenceIsTrue, Unlocked
<1> QED BY <1>4, <1>5, <1>6, <1>7, <1>8 DEF IInv

LEMMA DrainEndsStep == IInv /\ DrainEnds => IInv'
<1> SUFFICES ASSUME IInv, DrainEnds PROVE IInv'
  OBVIOUS
<1>1. flag' \in BOOLEAN /\ hot' \in BOOLEAN /\ Sync
  BY DEF DrainEnds, IInv, TypeOK
<1>2. generation' \in Nat
  BY <1>1, SyncMoves DEF IInv
<1> QED BY <1>1, <1>2, Observing
        DEF DrainEnds, Unlocked, listenerVars, IInv, TypeOK

\* The listener runs outside the lock: the switch may move on, but not past it.
LEMMA CallbackStep == IInv /\ (Hear \/ ListenerFails) => IInv'
<1> SUFFICES ASSUME IInv, Hear \/ ListenerFails PROVE IInv'
  OBVIOUS
<1> DEFINE l == running.who
<1>1. /\ l \in registered /\ l \in Listeners
      /\ running.trip = delivered[l] + 1 /\ running.trip <= generation
      /\ running.ended = "no"
  BY DEF Hear, ListenerFails, IInv, Delivery, TypeOK
<1>2. UNCHANGED <<flag, hot, lastActive, generation, registered, critical, since,
                  delivered, notifying, attempted, fence, approval>>
  BY DEF Hear, ListenerFails, switchVars, listenerVars
<1>3. /\ running'.who = l /\ running'.trip = running.trip
      /\ running' \in [who : Listeners \cup {Nobody}, trip : Nat,
                       ended : {"no", "well", "badly"}]
      /\ \/ /\ running'.ended = "well"
            /\ runs' = [runs EXCEPT ![l] = @ + 1]
         \/ /\ running'.ended = "badly" /\ runs' = runs
  BY DEF Hear, ListenerFails, IInv, TypeOK
<1>4. TypeOK'
  BY <1>1, <1>2, <1>3 DEF IInv, TypeOK
<1>5. Bounds'
  BY <1>1, <1>2, <1>3 DEF IInv, Bounds, TypeOK
<1>6. Delivery'
  BY <1>1, <1>2, <1>3, ListenerAssumption DEF Delivery
<1>7. ExactlyOnce'
  <2>1. runs[l] = delivered[l] - since[l]
    BY <1>1 DEF IInv, ExactlyOnce, TypeOK
  <2>2. \A k \in registered : k # l => runs[k] = delivered[k] - since[k]
    BY DEF IInv, ExactlyOnce, TypeOK
  <2> QED BY <1>1, <1>2, <1>3, <2>1, <2>2 DEF IInv, ExactlyOnce, TypeOK
<1>8. FenceIsTrue'
  BY <1>2 DEF IInv, FenceIsTrue, CriticalPending, Owed
<1> QED BY <1>4, <1>5, <1>6, <1>7, <1>8 DEF IInv

\* A delivery is settled: what ran is what is taken off.
LEMMA SettleStep == IInv /\ (Settle \/ DrainAborts) => IInv'
<1> SUFFICES ASSUME IInv, Settle \/ DrainAborts PROVE IInv'
  OBVIOUS
<1> DEFINE l == running.who
<1>1. Sync /\ flag' = flag /\ hot' = hot /\ fence = "none" /\ fence' = fence
  BY DEF Settle, DrainAborts, Unlocked
<1>2. /\ lastActive' \in BOOLEAN /\ generation' \in Nat
      /\ generation' >= generation
      /\ lastActive' => generation' > 0
  BY <1>1, SyncMoves DEF IInv, TypeOK
<1>3. /\ registered' = registered /\ critical' = critical /\ since' = since
      /\ runs' = runs /\ running' = NotRunning
      /\ \/ /\ running.ended = "well" /\ Settle
            /\ delivered' = [delivered EXCEPT ![l] = running.trip]
         \/ running.ended # "well" /\ delivered' = delivered
  BY DEF Settle, DrainAborts, listenerVars
<1>4. delivered' \in [Listeners -> Nat]
  BY <1>3 DEF IInv, TypeOK
<1>5. TypeOK'
  <2>1. /\ running' \in [who : Listeners \cup {Nobody}, trip : Nat,
                         ended : {"no", "well", "badly"}]
    BY <1>3 DEF NotRunning
  <2>2. /\ notifying' \in BOOLEAN /\ attempted' = attempted
        /\ approval' = approval
    <3>1. CASE Settle
      BY <3>1 DEF Settle, IInv, TypeOK
    <3>2. CASE DrainAborts
      BY <3>2 DEF DrainAborts, IInv, TypeOK
    <3> QED BY <3>1, <3>2
  <2> QED BY <1>1, <1>2, <1>3, <1>4, <2>1, <2>2 DEF IInv, TypeOK
<1>6. CASE delivered' = delivered /\ running.ended # "well"
  <2>1. Bounds'
    BY <1>2, <1>3, <1>6 DEF IInv, Bounds, TypeOK
  <2>2. ExactlyOnce'
    BY <1>3, <1>6 DEF IInv, ExactlyOnce, NotRunning
  <2> QED BY <1>1, <1>3, <1>5, <2>1, <2>2
          DEF IInv, Delivery, FenceIsTrue, NotRunning
<1>7. CASE /\ running.ended = "well" /\ Settle
           /\ delivered' = [delivered EXCEPT ![l] = running.trip]
  <2>1. running.who # Nobody
    BY <1>7 DEF IInv, Delivery, Settle
  <2>2. /\ l \in registered /\ l \in Listeners /\ delivered[l] \in Nat
        /\ running.trip = delivered[l] + 1 /\ running.trip <= generation
    BY <2>1 DEF IInv, Delivery, TypeOK
  <2>3. /\ delivered'[l] = delivered[l] + 1
        /\ \A k \in registered : k # l => delivered'[k] = delivered[k]
    BY <1>7, <2>2 DEF IInv, TypeOK
  <2>4. Bounds'
    BY <1>2, <1>3, <2>2, <2>3 DEF IInv, Bounds, TypeOK
  <2>5. ExactlyOnce'
    <3>1. runs[l] = delivered[l] - since[l] + 1
      BY <1>7, <2>2 DEF IInv, ExactlyOnce
    <3>2. \A k \in registered : k # l => runs[k] = delivered[k] - since[k]
      BY DEF IInv, ExactlyOnce, TypeOK
    <3>3. running'.ended # "well"
      BY <1>3 DEF NotRunning
    <3> QED BY <1>3, <2>2, <2>3, <3>1, <3>2, <3>3 DEF ExactlyOnce, IInv, TypeOK
  <2> QED BY <1>1, <1>3, <1>5, <2>4, <2>5
          DEF IInv, Delivery, FenceIsTrue, NotRunning
<1> QED BY <1>3, <1>6, <1>7

--------------------------------------------------------------------------------
LEMMA FenceStep == IInv /\ (TakeFence \/ LookAgain \/ DropFence) => IInv'
<1> SUFFICES ASSUME IInv, TakeFence \/ LookAgain \/ DropFence PROVE IInv'
  OBVIOUS
<1>1. CASE DropFence
  BY <1>1 DEF DropFence, IInv, TypeOK, Bounds, Delivery, ExactlyOnce, FenceIsTrue,
              switchVars, listenerVars, drainVars
<1>2. CASE TakeFence \/ LookAgain
  <2>1. /\ Sync /\ fence' = IF lastActive' \/ CriticalPending' THEN "blocked" ELSE "open"
        /\ UNCHANGED <<flag, hot, registered, critical, since, delivered, notifying,
                       attempted, running, runs, approval>>
    BY <1>2 DEF TakeFence, LookAgain, Look, listenerVars, drainVars
  <2>2. /\ lastActive' \in BOOLEAN /\ generation' \in Nat
        /\ generation' >= generation
        /\ lastActive' => generation' > 0
    BY <2>1, SyncMoves DEF IInv, TypeOK
  <2>3. TypeOK'
    BY <2>1, <2>2 DEF IInv, TypeOK
  <2>4. Bounds' /\ Delivery'
    BY <2>1, <2>2 DEF IInv, Bounds, Delivery, TypeOK
  <2>5. ExactlyOnce'
    BY <2>1 DEF IInv, ExactlyOnce
  <2>6. FenceIsTrue'
    BY <2>1 DEF FenceIsTrue
  <2> QED BY <2>3, <2>4, <2>5, <2>6 DEF IInv
<1> QED BY <1>1, <1>2

LEMMA OutsideStep == IInv /\ (HotFileChanges \/ Approve) => IInv'
<1> SUFFICES ASSUME IInv, HotFileChanges \/ Approve PROVE IInv'
  OBVIOUS
<1>1. UNCHANGED <<lastActive, generation, registered, critical, since, delivered,
                  notifying, attempted, running, fence, runs, flag>>
  BY DEF HotFileChanges, Approve, switchVars, listenerVars, drainVars
<1>2. hot' \in BOOLEAN /\ approval' \in [epoch : Nat, tripped : BOOLEAN]
  <2>1. CASE HotFileChanges
    BY <2>1 DEF HotFileChanges, IInv, TypeOK
  <2>2. CASE Approve
    BY <2>2, ListenerAssumption DEF Approve, switchVars, IInv, TypeOK
  <2> QED BY <2>1, <2>2
<1>3. TypeOK'
  BY <1>1, <1>2 DEF IInv, TypeOK
<1>4. Bounds' /\ Delivery' /\ ExactlyOnce' /\ FenceIsTrue'
  BY <1>1 DEF IInv, Bounds, Delivery, ExactlyOnce, FenceIsTrue, CriticalPending, Owed
<1> QED BY <1>3, <1>4 DEF IInv

\* Every operation preserves every part of the invariant.
LEMMA NextIInv == IInv /\ [Next]_vars => IInv'
<1> SUFFICES ASSUME IInv, [Next]_vars PROVE IInv'
  OBVIOUS
<1>1. CASE Trip \/ Reset \/ Observe \/ ObserveAgain
  BY <1>1, TripStep, ResetStep, ObserveStep
<1>2. CASE HotFileChanges \/ Approve
  BY <1>2, OutsideStep
<1>3. CASE \E l \in Listeners : \/ MakeCritical(l)
                               \/ \E crit \in BOOLEAN : AddListener(l, crit)
  BY <1>3, MakeCriticalStep, AddListenerStep
<1>4. CASE Drain
  BY <1>4, SelectStep, DrainEndsStep, CallbackStep, SettleStep DEF Drain
<1>5. CASE TakeFence \/ LookAgain \/ DropFence
  BY <1>5, FenceStep
<1>6. CASE UNCHANGED vars
  BY <1>6 DEF vars, switchVars, listenerVars, drainVars, IInv, TypeOK, Bounds,
              Delivery, ExactlyOnce, FenceIsTrue, CriticalPending, Owed
<1> QED BY <1>1, <1>2, <1>3, <1>4, <1>5, <1>6 DEF Next

THEOREM Invariance == Spec => []IInv
  BY InitIInv, NextIInv, PTL DEF Spec

THEOREM TypeCorrect == Spec => []TypeOK
<1>1. IInv => TypeOK
  BY DEF IInv
<1> QED BY <1>1, Invariance, PTL

\* Whatever happens during callbacks, a registered listener has run exactly
\* once for every generation that it is no longer owed.
THEOREM NotifiedExactlyOnce == Spec => []ExactlyOnce
<1>1. IInv => ExactlyOnce
  BY DEF IInv
<1> QED BY <1>1, Invariance, PTL

\* The gateway mints and consumes permits under an open fence only: by then
\* every critical listener has run for every trip, so that a reset never
\* outruns a revocation.
THEOREM RevocationComesFirst == Spec => []RevokedBeforeOpen
<1>1. IInv => RevokedBeforeOpen
  <2> SUFFICES ASSUME IInv, fence = "open", NEW l \in critical
               PROVE  runs[l] = generation - since[l]
    BY DEF RevokedBeforeOpen
  <2>1. /\ l \in registered /\ generation \in Nat
        /\ delivered[l] \in Nat /\ since[l] \in Nat
    BY DEF IInv, TypeOK
  <2>2. delivered[l] = generation
    BY <2>1 DEF IInv, FenceIsTrue, CriticalPending, Owed, Bounds
  <2>3. running.who # l
    BY <2>1, <2>2, ListenerAssumption DEF IInv, Delivery, TypeOK
  <2> QED BY <2>1, <2>2, <2>3 DEF IInv, ExactlyOnce
<1> QED BY <1>1, Invariance, PTL
================================================================================
