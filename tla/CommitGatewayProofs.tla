------------------------- MODULE CommitGatewayProofs -------------------------
(* Theorems about CommitGateway, for any number of approvals, attempts,     *)
(* retries, kill trips and policy changes; and that it implements OneShot   *)
(* and EffectOwners, whatever appends fail and whenever the power does.     *)
EXTENDS CommitGateway, TLAPS

--------------------------------------------------------------------------------
(* The ledger's steps.                                                      *)

\* A row of the gateway is a fact.
LEMMA RowIsFact ==
  ASSUME NEW e \in Effects, NEW st \in FactStates, NEW why \in Reasons
  PROVE  Row(e, st, why) \in Fact
BY DEF Row, Fact

\* Appending keeps the ledger's types, ...
LEMMA PersistType ==
  ASSUME LedgerTypeOK, NEW f \in Fact, Persist(f)
  PROVE  LedgerTypeOK'
BY DEF LedgerTypeOK, Persist, Fact

\* ... a failed append too, ...
LEMMA RaiseType ==
  ASSUME LedgerTypeOK, NEW f \in Fact, Raise(f)
  PROVE  LedgerTypeOK'
BY DEF LedgerTypeOK, Raise, Falter, Fact

\* ... and a power failure.
LEMMA PowerType ==
  ASSUME LedgerTypeOK, PowerFails
  PROVE  LedgerTypeOK'
<1>1. \A e \in Effects : Survivors(e) \subseteq Fact \cup {NoFact}
  BY DEF LedgerTypeOK, Survivors
<1>2. seen' \in [Effects -> Fact \cup {NoFact}]
  BY <1>1 DEF PowerFails
<1> QED BY <1>2 DEF PowerFails, LedgerTypeOK

--------------------------------------------------------------------------------
(* Type correctness.                                                        *)

\* The initial state has the right types.
LEMMA InitType == ASSUME Init PROVE TypeOK
BY GrantAssumption, ReasonAssumption
   DEF Init, TypeOK, LedgerInit, LedgerTypeOK, Idle, GrantStates, AttemptStates,
       PermitStates, Stages

\* The reason of a retirement is one of the gateway's.
LEMMA RetireType ==
  ASSUME IInv, NEW e \in Effects, NEW fence \in BOOLEAN, NEW st \in GrantStates,
         e \in owner => st \notin {"none", "lost"},
         BeginRetire(st, e, fence)
  PROVE  /\ pinned' \in [Effects -> Reasons]
         /\ call' \in [at : Stages, e : Effects \cup {NoEffectId},
                      todo : SUBSET Effects, fence : BOOLEAN]
         /\ call'.at # "idle" => call'.e \in Effects
<1>1. e \in owner /\ DeadReason(st, e) # "live" => DeadReason(st, e) \in Reasons
  BY ReasonAssumption DEF DeadReason, Authority, GrantStates, IInv, TypeOK
<1>2. pinned \in [Effects -> Reasons]
  BY DEF IInv, TypeOK
<1> QED BY <1>1, <1>2 DEF BeginRetire, RetirePath, Idle, Stages

\* So is the reason for which a permit is withheld.
LEMMA WithholdType ==
  ASSUME TypeOK, call.e \in Effects, NEW why \in Reasons,
         WithholdPermit(call.e, why)
  PROVE  /\ pinned' \in [Effects -> Reasons]
         /\ astate' \in [Effects -> AttemptStates]
         /\ call' \in [at : Stages, e : Effects \cup {NoEffectId},
                      todo : SUBSET Effects, fence : BOOLEAN]
         /\ call'.at # "idle" => call'.e \in Effects
<1> USE DEF TypeOK
<1>1. CASE GrantOf[call.e] \in Fenced
  BY <1>1 DEF WithholdPermit, Stages
<1>2. CASE GrantOf[call.e] \notin Fenced
  <2>1. /\ astate' = [astate EXCEPT ![call.e] = "no_effect"]
        /\ call' = Idle /\ pinned' = pinned
    BY <1>2 DEF WithholdPermit
  <2>2. astate' \in [Effects -> AttemptStates]
    BY <2>1 DEF AttemptStates
  <2> QED BY <2>1, <2>2 DEF Idle, Stages
<1> QED BY <1>1, <1>2

\* Every step keeps the types.
LEMMA TypeStep == ASSUME IInv, Next PROVE TypeOK'
<1>0. TypeOK
  BY DEF IInv
<1> USE DEF TypeOK, grantVars, permitVars, ownerVars, killVars, ledgerVars,
            envVars
<1> USE GrantAssumption, ReasonAssumption, <1>0
<1>1. ASSUME KillTrip PROVE TypeOK'
  <2>1. hot' \in BOOLEAN
    BY <1>1, Zenon DEF KillTrip
  <2>2. flag' \in BOOLEAN
    BY <1>1 DEF KillTrip
  <2>3. lastActive' \in BOOLEAN /\ generation' \in Nat
    BY <1>1 DEF KillTrip, Sync
  <2> QED BY <1>1, <2>1, <2>2, <2>3 DEF KillTrip, LedgerTypeOK
<1>2. ASSUME KillReset PROVE TypeOK'
  <2>1. hot' \in BOOLEAN
    BY <1>2, Zenon DEF KillReset
  <2>2. flag' \in BOOLEAN
    BY <1>2 DEF KillReset
  <2>3. lastActive' \in BOOLEAN /\ generation' \in Nat
    BY <1>2 DEF KillReset, Sync
  <2> QED BY <1>2, <2>1, <2>2, <2>3 DEF KillReset, LedgerTypeOK
<1>3. ASSUME HotFileChanges PROVE TypeOK'
  <2>1. hot' \in BOOLEAN
    BY <1>3, Zenon DEF HotFileChanges
  <2> QED BY <1>3, <2>1 DEF HotFileChanges, LedgerTypeOK
<1>4. ASSUME KillObserved PROVE TypeOK'
  BY <1>4 DEF KillObserved, Observe, Sync, LedgerTypeOK
<1>5. ASSUME DeliverTrip PROVE TypeOK'
  BY <1>5 DEF DeliverTrip, LedgerTypeOK
<1>6. ASSUME RegisterPolicy PROVE TypeOK'
  BY <1>6 DEF RegisterPolicy, LedgerTypeOK
<1>7. ASSUME NEW g \in Grants, GrantLapses(g) PROVE TypeOK'
  BY <1>7 DEF GrantLapses, LedgerTypeOK
<1>8. ASSUME NEW e \in Effects, PermitLapses(e) PROVE TypeOK'
  BY <1>8 DEF PermitLapses, LedgerTypeOK
<1>9. ASSUME NEW e \in Effects, Issue(e) PROVE TypeOK'
  BY <1>9 DEF Issue, GrantStates, AttemptStates, LedgerTypeOK
<1>10. ASSUME NEW e \in Effects, CleanNoEffect(e) PROVE TypeOK'
  BY <1>10 DEF CleanNoEffect, AttemptStates, LedgerTypeOK
<1>11. ASSUME NEW e \in Effects, Retry(e) PROVE TypeOK'
  BY <1>11 DEF Retry, AttemptStates, LedgerTypeOK
<1>12. ASSUME NEW e \in Effects, RetryDenied(e) PROVE TypeOK'
  BY <1>12 DEF RetryDenied, Refreshed, GrantStates, LedgerTypeOK
<1>13. ASSUME NEW e \in Effects, BeginAuthorize(e) PROVE TypeOK'
  BY <1>13 DEF BeginAuthorize, Observe, Sync, Stages, LedgerTypeOK
<1>14. ASSUME NEW e \in Effects, ClaimDenied(e) PROVE TypeOK'
  BY <1>14 DEF ClaimDenied, Idle, Stages, LedgerTypeOK
<1>15. ASSUME Spend PROVE TypeOK'
  BY <1>15 DEF Spend, Observe, Sync, Stages, GrantStates, LedgerTypeOK
<1>16. ASSUME Mint PROVE TypeOK'
  BY <1>16 DEF Mint, Observe, Sync, Idle, Stages, PermitStates, LedgerTypeOK
<1>17. ASSUME NEW e \in Effects, SkipReservation(e) PROVE TypeOK'
  BY <1>17 DEF SkipReservation, Pruned, Stages, LedgerTypeOK
<1>18. ASSUME NEW e \in Effects, Consume(e) PROVE TypeOK'
  BY <1>18 DEF Consume, Observe, Sync, PermitStates, LedgerTypeOK
<1>19. ASSUME NEW e \in Effects, Reserve(e) PROVE TypeOK'
  <2>1. Reservation(e) \in Fact
    BY <1>19, RowIsFact DEF Reserve, Reservation, FactStates, LedgerTypeOK
  <2>2. LedgerTypeOK'
    BY <1>19, <2>1, PersistType DEF Reserve
  <2> QED BY <1>19, <2>2 DEF Reserve, Pruned, AttemptStates, Stages
<1>20. ASSUME NEW e \in Effects, ReserveFails(e) PROVE TypeOK'
  <2>1. Reservation(e) \in Fact
    BY <1>20, RowIsFact DEF ReserveFails, Reservation, FactStates, LedgerTypeOK
  <2>2. LedgerTypeOK'
    BY <1>20, <2>1, RaiseType DEF ReserveFails
  <2> QED BY <1>20, <2>2 DEF ReserveFails, Idle, Stages
<1>21. ASSUME Reinstate PROVE TypeOK'
  <2>1. Reservation(call.e) \in Fact
    BY <1>21, RowIsFact DEF Reinstate, Reservation, FactStates, LedgerTypeOK
  <2>2. LedgerTypeOK'
    BY <1>21, <2>1, PersistType DEF Reinstate
  <2> QED BY <1>21, <2>2 DEF Reinstate, AttemptStates, Stages
<1>22. ASSUME ReinstateFails PROVE TypeOK'
  <2>1. Reservation(call.e) \in Fact
    BY <1>22, RowIsFact
       DEF ReinstateFails, Reservation, FactStates, LedgerTypeOK
  <2>2. LedgerTypeOK'
    BY <1>22, <2>1, RaiseType DEF ReinstateFails
  <2> QED BY <1>22, <2>2 DEF ReinstateFails, Idle, Stages
<1>23. ASSUME ClosePrepermit PROVE TypeOK'
  <2>1. Row(call.e, "no_effect", pinned[call.e]) \in Fact
    BY <1>23, RowIsFact
       DEF ClosePrepermit, Reservation, FactStates, LedgerTypeOK
  <2>2. LedgerTypeOK'
    BY <1>23, <2>1, PersistType DEF ClosePrepermit
  <2> QED BY <1>23, <2>2
             DEF ClosePrepermit, Terminalize, Idle, AttemptStates, PermitStates,
                 Stages
<1>24. ASSUME ClosePrepermitFails PROVE TypeOK'
  <2>1. Row(call.e, "no_effect", pinned[call.e]) \in Fact
    BY <1>24, RowIsFact
       DEF ClosePrepermitFails, Reservation, FactStates, LedgerTypeOK
  <2>2. LedgerTypeOK'
    BY <1>24, <2>1, RaiseType DEF ClosePrepermitFails
  <2> QED BY <1>24, <2>2 DEF ClosePrepermitFails, Idle, Stages
<1>25. ASSUME NEW e \in Effects,
             NEW st \in {"confirmed", "unknown"}, RecordOutcome(e, st)
     PROVE  TypeOK'
  <2>1. Row(e, st, "plain") \in Fact
    BY <1>25, RowIsFact DEF RecordOutcome, Reservation, FactStates, LedgerTypeOK
  <2>2. LedgerTypeOK'
    BY <1>25, <2>1, PersistType DEF RecordOutcome
  <2> QED BY <1>25, <2>2
             DEF RecordOutcome, Terminalize, AttemptStates, PermitStates
<1>26. ASSUME NEW e \in Effects,
             NEW st \in {"confirmed", "unknown"}, RecordOutcomeFails(e, st)
     PROVE  TypeOK'
  <2>1. Row(e, st, "plain") \in Fact
    BY <1>26, RowIsFact
       DEF RecordOutcomeFails, Reservation, FactStates, LedgerTypeOK
  <2>2. LedgerTypeOK'
    BY <1>26, <2>1, RaiseType DEF RecordOutcomeFails
  <2> QED BY <1>26, <2>2 DEF RecordOutcomeFails
<1>27. ASSUME NEW e \in Effects, Prune(e) PROVE TypeOK'
  <2>1. Row(e, "no_effect", "permit_expired") \in Fact
    BY RowIsFact DEF FactStates
  <2>2. LedgerTypeOK'
    BY <1>27, <2>1, PersistType DEF Prune, CloseUnconsumed, LedgerTypeOK
  <2> QED BY <1>27, <2>2
             DEF Prune, CloseUnconsumed, Terminalize, AttemptStates,
                 PermitStates, Stages
<1>28. ASSUME NEW e \in Effects, ConsumeExpired(e) PROVE TypeOK'
  <2>1. Row(e, "no_effect", "permit_expired") \in Fact
    BY RowIsFact DEF FactStates
  <2>2. LedgerTypeOK'
    BY <1>28, <2>1, PersistType
       DEF ConsumeExpired, CloseUnconsumed, LedgerTypeOK
  <2> QED BY <1>28, <2>2
             DEF ConsumeExpired, CloseUnconsumed, Terminalize, AttemptStates,
                 PermitStates, Observe, Sync
<1>29. ASSUME NEW e \in Effects, ResolveNoEffect(e) PROVE TypeOK'
  <2>1. Row(e, "no_effect", "resolved") \in Fact
    BY RowIsFact DEF FactStates
  <2>2. LedgerTypeOK'
    BY <1>29, <2>1, PersistType
       DEF ResolveNoEffect, CloseUnconsumed, LedgerTypeOK
  <2> QED BY <1>29, <2>2
             DEF ResolveNoEffect, CloseUnconsumed, Terminalize, AttemptStates,
                 PermitStates, Stages
<1>30. ASSUME NEW e \in Effects, PruneFails(e) PROVE TypeOK'
  <2>1. Row(e, "no_effect", "permit_expired") \in Fact
    BY RowIsFact DEF FactStates
  <2>2. LedgerTypeOK'
    BY <1>30, <2>1, RaiseType DEF PruneFails, CloseUnconsumedFails
  <2> QED BY <1>30, <2>2 DEF PruneFails, CloseUnconsumedFails, Idle, Stages
<1>31. ASSUME NEW e \in Effects, ConsumeExpiredFails(e) PROVE TypeOK'
  <2>1. Row(e, "no_effect", "permit_expired") \in Fact
    BY RowIsFact DEF FactStates
  <2>2. LedgerTypeOK'
    BY <1>31, <2>1, RaiseType DEF ConsumeExpiredFails, CloseUnconsumedFails
  <2> QED BY <1>31, <2>2
             DEF ConsumeExpiredFails, CloseUnconsumedFails, Observe, Sync
<1>32. ASSUME NEW e \in Effects, ResolveNoEffectFails(e) PROVE TypeOK'
  <2>1. Row(e, "no_effect", "resolved") \in Fact
    BY RowIsFact DEF FactStates
  <2>2. LedgerTypeOK'
    BY <1>32, <2>1, RaiseType DEF ResolveNoEffectFails, CloseUnconsumedFails
  <2> QED BY <1>32, <2>2 DEF ResolveNoEffectFails, CloseUnconsumedFails, Stages
<1>33. ASSUME NEW e \in Effects, IdentityDenied(e) PROVE TypeOK'
  <2>0. /\ gstate[GrantOf[e]] \in GrantStates
        /\ Refreshed(GrantOf[e]) \in GrantStates
        /\ e \in owner => /\ gstate[GrantOf[e]] \notin {"none", "lost"}
                         /\ Refreshed(GrantOf[e]) \notin {"none", "lost"}
    BY DEF Refreshed, GrantStates, IInv, MemoryInv, Lineage, OwnedIffOpen
  <2>1. gstate' \in [Grants -> GrantStates]
    BY <1>33 DEF IdentityDenied, Refreshed, GrantStates
  <2>2. /\ pinned' \in [Effects -> Reasons]
        /\ call' \in [at : Stages, e : Effects \cup {NoEffectId},
                     todo : SUBSET Effects, fence : BOOLEAN]
        /\ call'.at # "idle" => call'.e \in Effects
    BY <1>33, <2>0, RetireType DEF IdentityDenied
  <2> QED BY <1>33, <2>1, <2>2 DEF IdentityDenied, LedgerTypeOK
<1>34. ASSUME NEW e \in Effects, SettleDead(e) PROVE TypeOK'
  <2>0. /\ gstate[GrantOf[e]] \in GrantStates
        /\ Refreshed(GrantOf[e]) \in GrantStates
        /\ e \in owner => /\ gstate[GrantOf[e]] \notin {"none", "lost"}
                         /\ Refreshed(GrantOf[e]) \notin {"none", "lost"}
    BY DEF Refreshed, GrantStates, IInv, MemoryInv, Lineage, OwnedIffOpen
  <2>1. gstate' \in [Grants -> GrantStates]
    BY <1>34 DEF SettleDead, Refreshed, GrantStates
  <2>2. /\ pinned' \in [Effects -> Reasons]
        /\ call' \in [at : Stages, e : Effects \cup {NoEffectId},
                     todo : SUBSET Effects, fence : BOOLEAN]
        /\ call'.at # "idle" => call'.e \in Effects
    BY <1>34, <2>0, RetireType DEF SettleDead
  <2> QED BY <1>34, <2>1, <2>2 DEF SettleDead, LedgerTypeOK
<1>35. ASSUME KillBlocksPermit PROVE TypeOK'
  <2>1. call.e \in Effects
    BY <1>35 DEF KillBlocksPermit
  <2>2. /\ pinned' \in [Effects -> Reasons]
        /\ astate' \in [Effects -> AttemptStates]
        /\ call' \in [at : Stages, e : Effects \cup {NoEffectId},
                     todo : SUBSET Effects, fence : BOOLEAN]
        /\ call'.at # "idle" => call'.e \in Effects
    BY <1>35, <2>1, WithholdType DEF KillBlocksPermit
  <2> QED BY <1>35, <2>2 DEF KillBlocksPermit, Observe, Sync, LedgerTypeOK
<1>36. ASSUME SpendDenied PROVE TypeOK'
  <2>1. call.e \in Effects /\ gstate[GrantOf[call.e]] = "active"
    BY <1>36 DEF SpendDenied, IInv, MemoryInv, CallInProgress
  <2>2. Authority(gstate[GrantOf[call.e]], GrantOf[call.e]) \in Reasons
    BY <1>36, <2>1 DEF SpendDenied, Authority
  <2>3. /\ pinned' \in [Effects -> Reasons]
        /\ astate' \in [Effects -> AttemptStates]
        /\ call' \in [at : Stages, e : Effects \cup {NoEffectId},
                     todo : SUBSET Effects, fence : BOOLEAN]
        /\ call'.at # "idle" => call'.e \in Effects
    BY <1>36, <2>1, <2>2, WithholdType DEF SpendDenied
  <2>4. gstate' \in [Grants -> GrantStates]
    BY <1>36 DEF SpendDenied, Refreshed, GrantStates
  <2> QED BY <1>36, <2>3, <2>4 DEF SpendDenied, Observe, Sync, LedgerTypeOK
<1>37. ASSUME ProcessDies PROVE TypeOK'
  BY <1>37
     DEF ProcessDies, ForgetMemory, Idle, Stages, GrantStates, AttemptStates,
         PermitStates, LedgerTypeOK
<1>38. ASSUME PowerLoss PROVE TypeOK'
  <2>1. LedgerTypeOK'
    BY <1>38, PowerType DEF PowerLoss
  <2> QED BY <1>38, <2>1
             DEF PowerLoss, ForgetMemory, Idle, Stages, GrantStates,
                 AttemptStates, PermitStates
<1> HIDE DEF TypeOK, grantVars, permitVars, ownerVars, killVars, ledgerVars,
            envVars
<1> QED
  BY <1>1, <1>2, <1>3, <1>4, <1>5, <1>6, <1>7, <1>8, <1>9, <1>10, <1>11,
     <1>12, <1>13, <1>14, <1>15, <1>16, <1>17, <1>18, <1>19, <1>20,
     <1>21, <1>22, <1>23, <1>24, <1>25, <1>26, <1>27, <1>28, <1>29,
     <1>30, <1>31, <1>32, <1>33, <1>34, <1>35, <1>36, <1>37, <1>38
     DEF Next, EnvironmentStep, SessionStep, AuthorizeStep, CallStep

--------------------------------------------------------------------------------
(* Who may do what.                                                         *)

\* An attempt that passes the validation holds no permit, and its approval is
\* active.
LEMMA NoPermitYet ==
  ASSUME IInv, NEW e \in Effects, Valid(e)
  PROVE  permit[e] = "none" /\ gstate[GrantOf[e]] = "active"
BY GrantAssumption
   DEF IInv, TypeOK, MemoryInv, PermitHolders, PermitStates, Terminal, Valid,
       Live, Authority, GrantStates, OpenState, IsFenced

\* A retirement leaves the call idle or at work on an owner without a permit.
LEMMA RetireCall ==
  ASSUME IInv, NEW e \in Effects, NEW st, NEW fence, BeginRetire(st, e, fence),
         UNCHANGED <<astate, owner, permit>>
  PROVE  CallInProgress'
<1>1. \/ call'.at = "idle"
      \/ /\ call'.at \in {"reinstate", "close"} /\ call'.e = e
         /\ e \in owner /\ ~MintedOwner(e)
         /\ call'.at = "close" => astate[e] = "reserved"
  BY DEF BeginRetire, RetirePath, Idle
<1>2. e \in owner /\ ~MintedOwner(e) =>
        astate[e] # "unborn" /\ permit[e] = "none"
  BY DEF IInv, TypeOK, MemoryInv, OwnedIffOpen, PermitHolders, PermitStates,
         Terminal, MintedOwner
<1> QED BY <1>1, <1>2 DEF CallInProgress

\* A new process knows nothing that a crossing could follow from.
LEMMA ForgetMemoryKeeps == ASSUME IInv, ForgetMemory PROVE MemoryInv'
<1> USE GrantAssumption
<1> USE DEF IInv, TypeOK, MemoryInv, ForgetMemory
<1>1. Lineage'
  BY DEF Lineage, Idle
<1>2. PermitHolders'
  BY DEF PermitHolders, PermitStates, OpenState, IsFenced, Terminal
<1>3. Crossings'
  BY DEF Crossings, PermitStates
<1>4. CallInProgress'
  BY DEF CallInProgress, Idle
<1>5. Epochs'
  BY DEF Epochs, PermitStates
<1>6. OwnedIffOpen'
  BY DEF OwnedIffOpen
<1>7. OneCrossingPerApproval'
  BY DEF OneCrossingPerApproval
<1> QED BY <1>1, <1>2, <1>3, <1>4, <1>5, <1>6, <1>7

\* Every step keeps the part of the invariant about who may do what.
LEMMA MemoryStep == ASSUME IInv, Next PROVE MemoryInv'
<1> USE GrantAssumption
<1> USE DEF IInv, TypeOK, LedgerTypeOK, MemoryInv, Lineage, PermitHolders,
            Crossings, CallInProgress, Epochs, OwnedIffOpen,
            OneCrossingPerApproval, RecordInv, LedgerByAttempt, ClaimHeld,
            IsFenced, OpenState, Terminal, Row, Reservation, NoFact,
            grantVars, permitVars, ownerVars, killVars, ledgerVars, envVars
<1>1. ASSUME KillTrip
     PROVE  MemoryInv'
  BY <1>1 DEF KillTrip, Sync
<1>2. ASSUME KillReset
     PROVE  MemoryInv'
  BY <1>2 DEF KillReset, Sync
<1>3. ASSUME HotFileChanges
     PROVE  MemoryInv'
  BY <1>3 DEF HotFileChanges
<1>4. ASSUME KillObserved
     PROVE  MemoryInv'
  BY <1>4 DEF KillObserved, Observe, Sync
<1>5. ASSUME DeliverTrip
     PROVE  MemoryInv'
  BY <1>5 DEF DeliverTrip
<1>6. ASSUME RegisterPolicy
     PROVE  MemoryInv'
  BY <1>6 DEF RegisterPolicy
<1>7. ASSUME ProcessDies
     PROVE  MemoryInv'
  BY <1>7, ForgetMemoryKeeps DEF ProcessDies
<1>8. ASSUME PowerLoss
     PROVE  MemoryInv'
  BY <1>8, ForgetMemoryKeeps DEF PowerLoss
<1>9. ASSUME NEW g \in Grants, GrantLapses(g)
     PROVE  MemoryInv'
  BY <1>9 DEF GrantLapses
<1>10. ASSUME NEW e \in Effects, PermitLapses(e)
     PROVE  MemoryInv'
  BY <1>10 DEF PermitLapses
<1>11. ASSUME NEW e \in Effects, Issue(e)
     PROVE  MemoryInv'
  BY <1>11 DEF Issue
<1>12. ASSUME NEW e \in Effects, CleanNoEffect(e)
     PROVE  MemoryInv'
  <2>1. Lineage'
    BY <1>12 DEF CleanNoEffect
  <2>2. PermitHolders'
    BY <1>12 DEF CleanNoEffect
  <2>3. Crossings'
    BY <1>12 DEF CleanNoEffect
  <2>4. CallInProgress'
    <3>1. ASSUME call.at \in {"spend", "mint"}
          PROVE  GrantOf[call.e] # GrantOf[e] /\ call.e # e
      BY <1>12, <3>1 DEF CleanNoEffect, GrantLocked
    <3>2. ASSUME call.at \in {"reinstate", "close"} PROVE call.e # e
      BY <1>12, <3>2 DEF CleanNoEffect, GrantLocked
    <3>3. call.e \in Effects \/ call.at = "idle"
      OBVIOUS
    <3> QED BY <1>12, <3>1, <3>2, <3>3 DEF CleanNoEffect
  <2>5. Epochs'
    BY <1>12 DEF CleanNoEffect
  <2>6. OwnedIffOpen'
    BY <1>12 DEF CleanNoEffect
  <2>7. OneCrossingPerApproval'
    BY <1>12 DEF CleanNoEffect
  <2> QED BY <2>1, <2>2, <2>3, <2>4, <2>5, <2>6, <2>7
<1>13. ASSUME NEW e \in Effects, Retry(e)
     PROVE  MemoryInv'
  BY <1>13 DEF Retry, MayRetry, GrantLocked, Live, Authority
<1>14. ASSUME NEW e \in Effects, RetryDenied(e)
     PROVE  MemoryInv'
  BY <1>14 DEF RetryDenied, MayRetry, GrantLocked, Refreshed, Authority
<1>15. ASSUME NEW e \in Effects, Consume(e)
     PROVE  MemoryInv'
  BY <1>15 DEF Consume, Observe, Sync, Blocked
<1>16. ASSUME NEW e \in Effects, ConsumeExpired(e)
     PROVE  MemoryInv'
  BY <1>16
     DEF ConsumeExpired, CloseUnconsumed, Terminalize, Persist, Acceptable,
         MayFollow, MayOpen, Observe, Sync
<1>17. ASSUME NEW e \in Effects, ConsumeExpiredFails(e)
     PROVE  MemoryInv'
  BY <1>17
     DEF ConsumeExpiredFails, CloseUnconsumedFails, Raise, Falter, Acceptable,
         MayFollow, MayOpen, Observe, Sync
<1>18. ASSUME NEW e \in Effects, ResolveNoEffect(e)
     PROVE  MemoryInv'
  BY <1>18
     DEF ResolveNoEffect, CloseUnconsumed, Terminalize, Persist, Acceptable,
         MayFollow, MayOpen
<1>19. ASSUME NEW e \in Effects, ResolveNoEffectFails(e)
     PROVE  MemoryInv'
  BY <1>19
     DEF ResolveNoEffectFails, CloseUnconsumedFails, Raise, Falter, Acceptable,
         MayFollow, MayOpen
<1>20. ASSUME NEW e \in Effects, NEW st \in {"confirmed", "unknown"},
             RecordOutcome(e, st)
     PROVE  MemoryInv'
  BY <1>20
     DEF RecordOutcome, MayRecord, Terminalize, Persist, Acceptable, MayFollow,
         MayOpen
<1>21. ASSUME NEW e \in Effects, NEW st \in {"confirmed", "unknown"},
             RecordOutcomeFails(e, st)
     PROVE  MemoryInv'
  BY <1>21
     DEF RecordOutcomeFails, MayRecord, Raise, Falter, Acceptable, MayFollow,
         MayOpen
<1>22. ASSUME NEW e \in Effects, SettleDead(e)
     PROVE  MemoryInv'
  <2>1. Lineage'
    BY <1>22
       DEF SettleDead, BeginRetire, RetirePath, MintedOwner, Idle, Refreshed,
           Authority
  <2>2. PermitHolders'
    BY <1>22
       DEF SettleDead, BeginRetire, RetirePath, MintedOwner, Idle, Refreshed,
           Authority
  <2>3. Crossings'
    BY <1>22
       DEF SettleDead, BeginRetire, RetirePath, MintedOwner, Idle, Refreshed,
           Authority
  <2>4. CallInProgress'
    BY <1>22, RetireCall DEF SettleDead
  <2>5. Epochs'
    BY <1>22
       DEF SettleDead, BeginRetire, RetirePath, MintedOwner, Idle, Refreshed,
           Authority
  <2>6. OwnedIffOpen'
    BY <1>22
       DEF SettleDead, BeginRetire, RetirePath, MintedOwner, Idle, Refreshed,
           Authority
  <2>7. OneCrossingPerApproval'
    BY <1>22
       DEF SettleDead, BeginRetire, RetirePath, MintedOwner, Idle, Refreshed,
           Authority
  <2> QED BY <2>1, <2>2, <2>3, <2>4, <2>5, <2>6, <2>7
<1>23. ASSUME NEW e \in Effects, BeginAuthorize(e)
     PROVE  MemoryInv'
  BY <1>23 DEF BeginAuthorize, Observe, Sync
<1>24. ASSUME NEW e \in Effects, Prune(e)
     PROVE  MemoryInv'
  BY <1>24
     DEF Prune, CloseUnconsumed, Terminalize, Persist, Acceptable, MayFollow,
         MayOpen
<1>25. ASSUME NEW e \in Effects, PruneFails(e)
     PROVE  MemoryInv'
  BY <1>25
     DEF PruneFails, CloseUnconsumedFails, Raise, Falter, Acceptable, MayFollow,
         MayOpen, Idle
<1>26. ASSUME NEW e \in Effects, ClaimDenied(e)
     PROVE  MemoryInv'
  BY <1>26 DEF ClaimDenied, Idle
<1>27. ASSUME NEW e \in Effects, IdentityDenied(e)
     PROVE  MemoryInv'
  <2>1. Lineage'
    BY <1>27
       DEF IdentityDenied, Pruned, BeginRetire, RetirePath, MintedOwner, Idle,
           Refreshed, Authority
  <2>2. PermitHolders'
    BY <1>27
       DEF IdentityDenied, Pruned, BeginRetire, RetirePath, MintedOwner, Idle,
           Refreshed, Authority
  <2>3. Crossings'
    BY <1>27
       DEF IdentityDenied, Pruned, BeginRetire, RetirePath, MintedOwner, Idle,
           Refreshed, Authority
  <2>4. CallInProgress'
    BY <1>27, RetireCall DEF IdentityDenied
  <2>5. Epochs'
    BY <1>27
       DEF IdentityDenied, Pruned, BeginRetire, RetirePath, MintedOwner, Idle,
           Refreshed, Authority
  <2>6. OwnedIffOpen'
    BY <1>27
       DEF IdentityDenied, Pruned, BeginRetire, RetirePath, MintedOwner, Idle,
           Refreshed, Authority
  <2>7. OneCrossingPerApproval'
    BY <1>27
       DEF IdentityDenied, Pruned, BeginRetire, RetirePath, MintedOwner, Idle,
           Refreshed, Authority
  <2> QED BY <2>1, <2>2, <2>3, <2>4, <2>5, <2>6, <2>7
<1>28. ASSUME NEW e \in Effects, Reserve(e)
     PROVE  MemoryInv'
  <2>1. Lineage'
    BY <1>28
       DEF Reserve, Pruned, Valid, Live, Authority, Persist, Acceptable,
           MayFollow, MayOpen
  <2>2. PermitHolders'
    BY <1>28
       DEF Reserve, Pruned, Valid, Live, Authority, Persist, Acceptable,
           MayFollow, MayOpen
  <2>3. Crossings'
    BY <1>28
       DEF Reserve, Pruned, Valid, Live, Authority, Persist, Acceptable,
           MayFollow, MayOpen
  <2>4. CallInProgress'
    <3>1. seen'[e] = Reservation(e)
      BY <1>28 DEF Reserve, Persist
    <3>2. /\ call'.at = "spend" /\ call'.e = e /\ call'.fence = call.fence
          /\ call.at = "prune"
      BY <1>28 DEF Reserve, Pruned
    <3>3. astate'[e] = "reserved" /\ e \in owner'
      BY <1>28 DEF Reserve
    <3> QED BY <1>28, <3>1, <3>2, <3>3, NoPermitYet DEF Reserve, Valid
  <2>5. Epochs'
    BY <1>28
       DEF Reserve, Pruned, Valid, Live, Authority, Persist, Acceptable,
           MayFollow, MayOpen
  <2>6. OwnedIffOpen'
    BY <1>28
       DEF Reserve, Pruned, Valid, Live, Authority, Persist, Acceptable,
           MayFollow, MayOpen
  <2>7. OneCrossingPerApproval'
    BY <1>28
       DEF Reserve, Pruned, Valid, Live, Authority, Persist, Acceptable,
           MayFollow, MayOpen
  <2> QED BY <2>1, <2>2, <2>3, <2>4, <2>5, <2>6, <2>7
<1>29. ASSUME NEW e \in Effects, ReserveFails(e)
     PROVE  MemoryInv'
  BY <1>29
     DEF ReserveFails, Pruned, Valid, Live, Authority, Raise, Falter,
         Acceptable, MayFollow, MayOpen, Idle
<1>30. ASSUME NEW e \in Effects, SkipReservation(e)
     PROVE  MemoryInv'
  <2>1. Lineage'
    BY <1>30 DEF SkipReservation, Pruned, Valid, Live, Authority
  <2>2. PermitHolders'
    BY <1>30 DEF SkipReservation, Pruned, Valid, Live, Authority
  <2>3. Crossings'
    BY <1>30 DEF SkipReservation, Pruned, Valid, Live, Authority
  <2>4. CallInProgress'
    <3>1. /\ call'.at = "spend" /\ call'.e = e /\ call'.fence = call.fence
          /\ call.at = "prune"
      BY <1>30 DEF SkipReservation, Pruned
    <3>2. seen[e] = NoFact
      BY <1>30, NoPermitYet DEF SkipReservation, Valid
    <3> QED BY <1>30, <3>1, <3>2, NoPermitYet DEF SkipReservation, Valid
  <2>5. Epochs'
    BY <1>30 DEF SkipReservation, Pruned, Valid, Live, Authority
  <2>6. OwnedIffOpen'
    BY <1>30 DEF SkipReservation, Pruned, Valid, Live, Authority
  <2>7. OneCrossingPerApproval'
    BY <1>30 DEF SkipReservation, Pruned, Valid, Live, Authority
  <2> QED BY <2>1, <2>2, <2>3, <2>4, <2>5, <2>6, <2>7
<1>31. ASSUME KillBlocksPermit
     PROVE  MemoryInv'
  BY <1>31 DEF KillBlocksPermit, WithholdPermit, Observe, Sync, Idle
<1>32. ASSUME SpendDenied
     PROVE  MemoryInv'
  <2>1. Lineage'
    BY <1>32
       DEF SpendDenied, WithholdPermit, Observe, Sync, Idle, Refreshed, Authority
  <2>2. PermitHolders'
    BY <1>32
       DEF SpendDenied, WithholdPermit, Observe, Sync, Idle, Refreshed, Authority
  <2>3. Crossings'
    BY <1>32
       DEF SpendDenied, WithholdPermit, Observe, Sync, Idle, Refreshed, Authority
  <2>4. CallInProgress'
    BY <1>32
       DEF SpendDenied, WithholdPermit, Observe, Sync, Idle, Refreshed, Authority
  <2>5. Epochs'
    BY <1>32
       DEF SpendDenied, WithholdPermit, Observe, Sync, Idle, Refreshed, Authority
  <2>6. OwnedIffOpen'
    BY <1>32
       DEF SpendDenied, WithholdPermit, Observe, Sync, Idle, Refreshed, Authority
  <2>7. OneCrossingPerApproval'
    BY <1>32
       DEF SpendDenied, WithholdPermit, Observe, Sync, Idle, Refreshed, Authority
  <2> QED BY <2>1, <2>2, <2>3, <2>4, <2>5, <2>6, <2>7
<1>33. ASSUME Spend
     PROVE  MemoryInv'
  BY <1>33 DEF Spend, Observe, Sync, Authority
<1>34. ASSUME Mint
     PROVE  MemoryInv'
  BY <1>34 DEF Mint, Observe, Sync, Idle
<1>35. ASSUME Reinstate
     PROVE  MemoryInv'
  BY <1>35 DEF Reinstate, Persist, Acceptable, MayFollow, MayOpen
<1>36. ASSUME ReinstateFails
     PROVE  MemoryInv'
  BY <1>36
     DEF ReinstateFails, Raise, Falter, Acceptable, MayFollow, MayOpen, Idle
<1>37. ASSUME ClosePrepermit
     PROVE  MemoryInv'
  BY <1>37
     DEF ClosePrepermit, Terminalize, Persist, Acceptable, MayFollow, MayOpen,
         Idle
<1>38. ASSUME ClosePrepermitFails
     PROVE  MemoryInv'
  BY <1>38
     DEF ClosePrepermitFails, Raise, Falter, Acceptable, MayFollow, MayOpen,
         Idle
<1> HIDE DEF IInv, TypeOK, LedgerTypeOK, MemoryInv, Lineage, PermitHolders,
            Crossings, CallInProgress, Epochs, OwnedIffOpen,
            OneCrossingPerApproval, RecordInv, LedgerByAttempt, ClaimHeld,
            IsFenced, OpenState, Terminal, Row, Reservation, NoFact,
            grantVars, permitVars, ownerVars, killVars, ledgerVars, envVars
<1> QED
  BY <1>1, <1>2, <1>3, <1>4, <1>5, <1>6, <1>7, <1>8, <1>9, <1>10, <1>11,
     <1>12, <1>13, <1>14, <1>15, <1>16, <1>17, <1>18, <1>19, <1>20,
     <1>21, <1>22, <1>23, <1>24, <1>25, <1>26, <1>27, <1>28, <1>29,
     <1>30, <1>31, <1>32, <1>33, <1>34, <1>35, <1>36, <1>37, <1>38
     DEF Next, EnvironmentStep, SessionStep, AuthorizeStep, CallStep

--------------------------------------------------------------------------------
(* The record.                                                              *)

\* A power failure takes an attempt to a fact between the kept and the seen.
LEMMA PowerSpares ==
  ASSUME LedgerTypeOK, PowerFails, NEW e \in Effects
  PROVE  /\ kept'[e] = seen'[e]
         /\ \/ seen'[e] \in {kept[e], seen[e]}
            \/ /\ kept[e] = NoFact /\ seen[e] # NoFact
               /\ seen'[e].state = "reserved"
<1>1. seen'[e] \in Survivors(e)
  BY DEF PowerFails
<1>2. ASSUME NEW f \in Fact, MayFollow(f, seen[e]) PROVE f.state = "reserved"
  BY <1>2 DEF MayFollow, Fact, NoFact
<1> QED BY <1>1, <1>2 DEF Survivors, PowerFails

\* Whoever writes a row holds the claim: no other attempt is unsettled.
LEMMA WriterHoldsClaim ==
  ASSUME IInv, NEW e \in Effects, NEW f \in Fact, f.effect = e,
         Persist(f) \/ Raise(f), ClaimHeld(e), gstate[GrantOf[e]] # "lost",
         UNCHANGED <<gstate, claim>>
  PROVE  UnsettledIsClaimed' /\ OneOpenReservation'
<1>1. \A a \in Effects \ {e} : Unsettled(a)' => Unsettled(a)
  BY DEF IInv, TypeOK, LedgerTypeOK, Persist, Raise, Falter, Unsettled
<1>2. \A a \in Effects \ {e} : GrantOf[a] = GrantOf[e] => ~Unsettled(a)
  BY DEF IInv, RecordInv, UnsettledIsClaimed, ClaimHeld
<1>3. UnsettledIsClaimed'
  BY <1>1 DEF IInv, RecordInv, UnsettledIsClaimed, ClaimHeld
<1>4. OneOpenReservation'
  BY <1>1, <1>2 DEF IInv, RecordInv, OneOpenReservation
<1> QED BY <1>3, <1>4

\* A row written for e, by an attempt that holds its claim, keeps the record if
\* it tells the truth and fits what becomes of the attempt.
LEMMA WriteKeepsRecord ==
  ASSUME IInv, NEW e \in Effects, NEW f \in Fact, f.effect = e,
         Persist(f) \/ Raise(f), ClaimHeld(e), gstate[GrantOf[e]] # "lost",
         UNCHANGED <<gstate, claim, crossed>>,
         latched \subseteq latched', returned \subseteq returned',
         plapsed \subseteq plapsed',
         \A a \in Effects \ {e} :
           astate'[a] = astate[a] /\ permit'[a] = permit[a],
         e \in crossed <=> f.state \in {"confirmed", "unknown"},
         astate'[e] # "unborn",
         astate'[e] \in Terminal => astate'[e] = f.state,
         astate'[e] = "preparing" =>
           \/ e \in latched' /\ astate[e] = "preparing" /\ f = Reservation(e)
           \/ ~IsFenced(e) /\ permit'[e] = "consumed",
         astate'[e] = "reserved" => kept[e] # NoFact \/ Persist(f),
         f.state = "no_effect" /\ permit'[e] = "issued" =>
           e \in returned' \cup plapsed',
         permit'[e] = "issued" => permit[e] = "issued",
         f.state \in Terminal /\ IsFenced(e) => kept[e] # NoFact
  PROVE  RecordInv'
<1> USE DEF Fact, FactStates, NoFact, Terminal
<1>1. /\ \A a \in Effects \ {e} : seen'[a] = seen[a]
      /\ seen'[e] \in {seen[e], f}
      /\ seen[e] = f \/ MayFollow(seen[e], f)
           \/ (seen'[e] = seen[e] /\ UNCHANGED kept)
      /\ seen \in [Effects -> Fact \cup {NoFact}]
      /\ kept \in [Effects -> Fact \cup {NoFact}]
  BY DEF IInv, TypeOK, LedgerTypeOK, Persist, Raise, Falter, Acceptable
<1>2. \/ kept' = seen' /\ seen'[e] = f
      \/ UNCHANGED kept
  BY <1>1 DEF IInv, TypeOK, LedgerTypeOK, Persist, Raise, Falter
<1>3. KeptBeforeSeen'
  BY <1>1, <1>2
     DEF IInv, RecordInv, KeptBeforeSeen, MayFollow, MayOpen, IsFenced
<1>4. \A a \in Effects : kept[a] # NoFact => kept'[a] # NoFact
  BY <1>1, <1>2 DEF IInv, RecordInv, KeptBeforeSeen
<1>5. LedgerByAttempt'
  <2>1. Persist(f) => kept'[e] # NoFact
    BY DEF Persist, IInv, TypeOK, LedgerTypeOK
  <2> QED BY <1>1, <1>4, <2>1
             DEF IInv, RecordInv, LedgerByAttempt, IsFenced, Reservation, Row
<1>6. NoEffectEndsUse'
  BY <1>1 DEF IInv, RecordInv, NoEffectEndsUse
<1>7. OutcomesAreTrue'
  BY <1>1 DEF IInv, RecordInv, OutcomesAreTrue
<1>8. ASSUME NEW a \in crossed, IsFenced(a)
      PROVE  kept'[a].state \in {"reserved", "confirmed", "unknown"}
  <2>1. a \in Effects /\ kept[a].state \in {"reserved", "confirmed", "unknown"}
    BY <1>8 DEF IInv, TypeOK, RecordInv, CrossingIsOnRecord
  <2>2. seen[a] = kept[a] \/ seen[a].state \in {"confirmed", "unknown"}
    BY <2>1, <1>1, <1>8 DEF IInv, RecordInv, KeptBeforeSeen, OutcomesAreTrue
  <2> QED BY <1>1, <1>2, <2>1, <2>2, <1>8
<1>9. CrossingIsOnRecord'
  BY <1>8 DEF CrossingIsOnRecord, IsFenced
<1>10. UnsettledIsClaimed' /\ OneOpenReservation'
  BY WriterHoldsClaim
<1> QED BY <1>3, <1>5, <1>6, <1>7, <1>9, <1>10 DEF RecordInv

\* An issued permit holds the claim of a spent approval.
LEMMA IssuedPermit ==
  ASSUME IInv, NEW e \in Effects, permit[e] = "issued"
  PROVE  /\ ClaimHeld(e) /\ gstate[GrantOf[e]] = "spent"
         /\ astate[e] = OpenState(e) /\ e \notin crossed
         /\ IsFenced(e) => kept[e] # NoFact
BY DEF IInv, MemoryInv, PermitHolders, Crossings, RecordInv, LedgerByAttempt,
       OpenState

\* Closing an unused permit.
LEMMA CloseKeepsRecord ==
  ASSUME IInv, NEW e \in Effects, NEW why \in Reasons, CloseUnconsumed(e, why),
         UNCHANGED <<gstate, claim, crossed, latched>>,
         returned \subseteq returned', plapsed \subseteq plapsed'
  PROVE  RecordInv'
<1>1. permit[e] = "issued" /\ astate'[e] = "no_effect" /\ permit'[e] = "gone"
      /\ \A a \in Effects \ {e} :
           astate'[a] = astate[a] /\ permit'[a] = permit[a]
  BY DEF CloseUnconsumed, Terminalize, IInv, TypeOK
<1>2. CASE IsFenced(e)
  <2>1. Row(e, "no_effect", why) \in Fact
    BY RowIsFact DEF FactStates
  <2>2. Persist(Row(e, "no_effect", why))
    BY <1>2 DEF IsFenced, CloseUnconsumed
  <2> QED BY <1>1, <2>1, <2>2, IssuedPermit, WriteKeepsRecord DEF Row, Terminal
<1>3. CASE ~IsFenced(e)
  <2>1. UNCHANGED <<seen, kept>>
    BY <1>3 DEF IsFenced, CloseUnconsumed, ledgerVars
  <2> QED BY <1>1, <1>3, <2>1, IssuedPermit
             DEF IInv, TypeOK, LedgerTypeOK, RecordInv, LedgerByAttempt,
                 UnsettledIsClaimed, NoEffectEndsUse, KeptBeforeSeen,
                 OutcomesAreTrue, CrossingIsOnRecord, OneOpenReservation,
                 Unsettled, ClaimHeld, IsFenced
<1> QED BY <1>2, <1>3

\* Failing to close one.
LEMMA CloseFailsKeepsRecord ==
  ASSUME IInv, NEW e \in Effects, NEW why \in Reasons,
         CloseUnconsumedFails(e, why),
         UNCHANGED <<gstate, claim, crossed, latched>>,
         returned \subseteq returned', plapsed \subseteq plapsed',
         e \in returned' \cup plapsed'
  PROVE  RecordInv'
<1>1. /\ permit[e] = "issued" /\ IsFenced(e)
      /\ Raise(Row(e, "no_effect", why)) /\ UNCHANGED <<astate, permit>>
  BY DEF CloseUnconsumedFails, IsFenced
<1>2. Row(e, "no_effect", why) \in Fact
  BY RowIsFact DEF FactStates
<1> QED BY <1>1, <1>2, IssuedPermit, WriteKeepsRecord
           DEF Row, Terminal, OpenState

\* Recording the outcome of a used one.
LEMMA RecordOutcomeRecord ==
  ASSUME IInv, NEW e \in Effects, NEW st \in {"confirmed", "unknown"},
         RecordOutcome(e, st) \/ RecordOutcomeFails(e, st)
  PROVE  RecordInv'
<1> USE DEF grantVars, permitVars, ownerVars, killVars, ledgerVars, envVars
<1>1. /\ e \in crossed /\ ClaimHeld(e) /\ gstate[GrantOf[e]] = "spent"
      /\ permit[e] = "consumed" /\ astate[e] = OpenState(e)
      /\ IsFenced(e) => kept[e] # NoFact
  BY DEF RecordOutcome, RecordOutcomeFails, MayRecord, IInv, MemoryInv,
         PermitHolders, Crossings, RecordInv, LedgerByAttempt, OpenState
<1>2. Row(e, st, "plain") \in Fact
  BY RowIsFact, ReasonAssumption DEF FactStates
<1>3. CASE RecordOutcome(e, st)
  <2>1. /\ astate'[e] = st /\ permit'[e] = "gone"
        /\ \A a \in Effects \ {e} :
             astate'[a] = astate[a] /\ permit'[a] = permit[a]
    BY <1>1, <1>3 DEF RecordOutcome, Terminalize, IInv, TypeOK
  <2> QED BY <1>1, <1>2, <1>3, <2>1, WriteKeepsRecord
             DEF RecordOutcome, Row, Terminal
<1>4. CASE RecordOutcomeFails(e, st)
  BY <1>1, <1>2, <1>4, WriteKeepsRecord
     DEF RecordOutcomeFails, Row, Terminal, OpenState
<1> QED BY <1>3, <1>4

\* Reserving.
LEMMA ReserveRecord ==
  ASSUME IInv, NEW e \in Effects, Reserve(e) \/ ReserveFails(e)
  PROVE  RecordInv'
<1> USE DEF grantVars, permitVars, ownerVars, killVars, ledgerVars, envVars
<1>1. /\ ClaimHeld(e) /\ gstate[GrantOf[e]] = "active"
      /\ astate[e] = "preparing"
      /\ permit[e] = "none" /\ e \notin crossed /\ IsFenced(e)
  BY NoPermitYet
     DEF Reserve, ReserveFails, Valid, IsFenced, IInv, MemoryInv, Crossings
<1>2. Reservation(e) \in Fact
  BY RowIsFact, ReasonAssumption DEF Reservation, FactStates
<1>3. CASE Reserve(e)
  <2>1. /\ astate'[e] = "reserved"
        /\ \A a \in Effects \ {e} : astate'[a] = astate[a]
    BY <1>3 DEF Reserve, IInv, TypeOK
  <2> QED BY <1>1, <1>2, <1>3, <2>1, WriteKeepsRecord
             DEF Reserve, Row, Reservation, Terminal
<1>4. CASE ReserveFails(e)
  BY <1>1, <1>2, <1>4, WriteKeepsRecord
     DEF ReserveFails, Row, Reservation, Terminal
<1> QED BY <1>3, <1>4

\* What a call that retires an attempt knows of it.
LEMMA CallOwner ==
  ASSUME IInv, call.at \in {"reinstate", "close"}
  PROVE  /\ call.e \in Effects /\ ClaimHeld(call.e)
         /\ gstate[GrantOf[call.e]] # "lost" /\ permit[call.e] = "none"
         /\ call.e \notin crossed /\ call.e \in latched
         /\ astate[call.e] \in {"preparing", "reserved"}
         /\ call.at = "close" => astate[call.e] = "reserved"
         /\ astate[call.e] = "reserved" => kept[call.e] # NoFact
BY DEF IInv, TypeOK, MemoryInv, CallInProgress, Lineage, Crossings,
       OwnedIffOpen, RecordInv, LedgerByAttempt

\* Making the reservation of a dead owner durable, and closing it.
LEMMA ReinstateRecord ==
  ASSUME IInv, Reinstate \/ ReinstateFails
  PROVE  RecordInv'
<1> USE DEF grantVars, permitVars, ownerVars, killVars, ledgerVars, envVars
<1>1. Reservation(call.e) \in Fact
  BY CallOwner, RowIsFact, ReasonAssumption
     DEF Reinstate, ReinstateFails, Reservation, FactStates
<1>2. CASE Reinstate
  <2>1. /\ astate'[call.e] = "reserved"
        /\ \A a \in Effects \ {call.e} : astate'[a] = astate[a]
    BY <1>2, CallOwner DEF Reinstate, IInv, TypeOK
  <2> QED BY <1>1, <1>2, <2>1, CallOwner, WriteKeepsRecord
             DEF Reinstate, Row, Reservation, Terminal
<1>3. CASE ReinstateFails
  BY <1>1, <1>3, CallOwner, WriteKeepsRecord
     DEF ReinstateFails, Row, Reservation, Terminal
<1> QED BY <1>2, <1>3

\* Closing the reservation of an attempt that never got a permit.
LEMMA ClosePrepermitRecord ==
  ASSUME IInv, ClosePrepermit \/ ClosePrepermitFails
  PROVE  RecordInv'
<1> USE DEF grantVars, permitVars, ownerVars, killVars, ledgerVars, envVars
<1>1. Row(call.e, "no_effect", pinned[call.e]) \in Fact
  BY CallOwner, RowIsFact
     DEF ClosePrepermit, ClosePrepermitFails, FactStates, IInv, TypeOK
<1>2. CASE ClosePrepermit
  <2>1. /\ astate'[call.e] = "no_effect" /\ permit'[call.e] = "none"
        /\ \A a \in Effects \ {call.e} :
             astate'[a] = astate[a] /\ permit'[a] = permit[a]
    BY <1>2, CallOwner DEF ClosePrepermit, Terminalize, IInv, TypeOK
  <2> QED BY <1>1, <1>2, <2>1, CallOwner, WriteKeepsRecord
             DEF ClosePrepermit, Row, Terminal
<1>3. CASE ClosePrepermitFails
  BY <1>1, <1>3, CallOwner, WriteKeepsRecord
     DEF ClosePrepermitFails, Row, Terminal
<1> QED BY <1>2, <1>3

\* A power failure keeps the record.
LEMMA PowerRecord ==
  ASSUME IInv, PowerLoss
  PROVE  RecordInv'
<1>1. ASSUME NEW e \in Effects
      PROVE  /\ kept'[e] = seen'[e]
             /\ \/ seen'[e] \in {kept[e], seen[e]}
                \/ /\ kept[e] = NoFact /\ seen[e] # NoFact
                   /\ seen'[e].state = "reserved"
  <2>1. LedgerTypeOK /\ PowerFails
    BY DEF IInv, TypeOK, PowerLoss
  <2> QED BY <2>1, PowerSpares
<1>2. ASSUME NEW e \in Effects
      PROVE  /\ astate'[e] \in {"unborn", "lost"}
             /\ astate'[e] = "unborn" <=> astate[e] = "unborn"
             /\ permit'[e] \in {"none", "gone"}
             /\ astate[e] # "unborn" => gstate'[GrantOf[e]] = "lost"
  BY GrantAssumption
     DEF PowerLoss, ForgetMemory, IInv, TypeOK, MemoryInv, Lineage
<1>3. ASSUME NEW e \in Effects, seen'[e] # NoFact
      PROVE  seen[e] # NoFact /\ astate[e] # "unborn"
  BY <1>1, <1>3
     DEF IInv, RecordInv, LedgerByAttempt, KeptBeforeSeen, Terminal, NoFact
<1>4. ASSUME NEW e \in Effects, seen'[e].state \in Terminal
      PROVE  seen'[e] = seen[e]
  BY <1>1, <1>4 DEF IInv, RecordInv, KeptBeforeSeen, Terminal, NoFact
<1>5. UNCHANGED crossed
  BY DEF PowerLoss, ForgetMemory
<1>6. LedgerByAttempt' /\ NoEffectEndsUse' /\ KeptBeforeSeen'
  BY <1>1, <1>2, <1>3 DEF LedgerByAttempt, NoEffectEndsUse, KeptBeforeSeen
<1>7. UnsettledIsClaimed'
  BY <1>1, <1>2, <1>3 DEF UnsettledIsClaimed, Unsettled, NoFact
<1>8. OutcomesAreTrue'
  BY <1>2, <1>4, <1>5 DEF OutcomesAreTrue, IInv, RecordInv, Terminal
<1>9. ASSUME NEW e \in crossed, IsFenced(e)
      PROVE  kept'[e].state \in {"reserved", "confirmed", "unknown"}
  <2>1. e \in Effects /\ seen[e].state # "no_effect"
    BY DEF IInv, TypeOK, RecordInv, OutcomesAreTrue
  <2>2. kept[e].state \in {"reserved", "confirmed", "unknown"}
    BY <1>9 DEF IInv, RecordInv, CrossingIsOnRecord
  <2>3. kept[e] # NoFact /\ (seen[e] = kept[e] \/ seen[e].state \in Terminal)
    BY <2>1, <2>2 DEF IInv, RecordInv, KeptBeforeSeen, NoFact
  <2> QED BY <1>1, <2>1, <2>2, <2>3 DEF Terminal
<1>10. CrossingIsOnRecord'
  BY <1>5, <1>9 DEF CrossingIsOnRecord, IsFenced
<1>11. ASSUME NEW e \in Effects, Unsettled(e)' PROVE Unsettled(e)
  BY <1>1, <1>11 DEF Unsettled, IInv, RecordInv, KeptBeforeSeen, NoFact
<1>12. OneOpenReservation'
  BY <1>11 DEF IInv, RecordInv, OneOpenReservation
<1> QED BY <1>6, <1>7, <1>8, <1>10, <1>12 DEF RecordInv

\* A clean end before the commit: the attempt has no row and no crossing.
LEMMA CleanRecord ==
  ASSUME IInv, NEW e \in Effects, CleanNoEffect(e) PROVE RecordInv'
<1> USE GrantAssumption
<1> USE DEF grantVars, permitVars, ownerVars, envVars, ledgerVars
<1>1. /\ seen[e] = NoFact /\ kept[e] = NoFact /\ e \notin crossed
      /\ astate[e] = "preparing" /\ e \notin latched /\ permit[e] = "none"
      /\ gstate[GrantOf[e]] = "active" /\ claim[GrantOf[e]] = e
  BY DEF CleanNoEffect, IInv, TypeOK, RecordInv, MemoryInv, LedgerByAttempt,
         KeptBeforeSeen, Crossings, NoFact, Terminal
<1>2. /\ astate' = [astate EXCEPT ![e] = "no_effect"]
      /\ claim' = [claim EXCEPT ![GrantOf[e]] = NoEffectId]
      /\ UNCHANGED <<gstate, latched, permit, returned, plapsed, seen, kept,
                     crossed>>
  BY DEF CleanNoEffect
<1>3. /\ astate \in [Effects -> AttemptStates]
      /\ claim \in [Grants -> Effects \cup {NoEffectId}]
      /\ GrantOf \in [Effects -> Grants]
  BY DEF IInv, TypeOK
<1>4. LedgerByAttempt' /\ NoEffectEndsUse' /\ KeptBeforeSeen'
  BY <1>1, <1>2, <1>3
     DEF IInv, RecordInv, LedgerByAttempt, NoEffectEndsUse, KeptBeforeSeen,
         Reservation, Row
<1>5. UnsettledIsClaimed'
  BY <1>1, <1>2, <1>3
     DEF IInv, RecordInv, UnsettledIsClaimed, Unsettled, ClaimHeld, NoFact
<1>6. OutcomesAreTrue' /\ CrossingIsOnRecord' /\ OneOpenReservation'
  BY <1>1, <1>2, <1>3
     DEF IInv, RecordInv, OutcomesAreTrue, CrossingIsOnRecord,
         OneOpenReservation, Unsettled
<1> QED BY <1>4, <1>5, <1>6 DEF RecordInv

\* Every step keeps the part of the invariant about what is on record.
LEMMA RecordStep == ASSUME IInv, Next PROVE RecordInv'
<1> USE GrantAssumption
<1> USE DEF grantVars, permitVars, ownerVars, killVars, ledgerVars, envVars
<1> USE DEF IInv, TypeOK, LedgerTypeOK, MemoryInv, RecordInv,
            LedgerByAttempt, UnsettledIsClaimed, NoEffectEndsUse,
            KeptBeforeSeen, OutcomesAreTrue, CrossingIsOnRecord,
            OneOpenReservation, Lineage, PermitHolders, Crossings,
            CallInProgress, OwnedIffOpen, ClaimHeld, IsFenced, OpenState,
            FactStates, Fact, Terminal, Row, Reservation, NoFact, Unsettled
<1>1. ASSUME KillTrip
     PROVE  RecordInv'
  BY <1>1 DEF KillTrip, Sync
<1>2. ASSUME KillReset
     PROVE  RecordInv'
  BY <1>2 DEF KillReset, Sync
<1>3. ASSUME HotFileChanges
     PROVE  RecordInv'
  BY <1>3 DEF HotFileChanges
<1>4. ASSUME KillObserved
     PROVE  RecordInv'
  BY <1>4 DEF KillObserved, Observe, Sync
<1>5. ASSUME DeliverTrip
     PROVE  RecordInv'
  BY <1>5 DEF DeliverTrip
<1>6. ASSUME RegisterPolicy
     PROVE  RecordInv'
  BY <1>6 DEF RegisterPolicy
<1>7. ASSUME ProcessDies
     PROVE  RecordInv'
  BY <1>7 DEF ProcessDies, ForgetMemory, Idle
<1>8. ASSUME PowerLoss
     PROVE  RecordInv'
  BY <1>8, PowerRecord
<1>9. ASSUME NEW g \in Grants, GrantLapses(g)
     PROVE  RecordInv'
  BY <1>9 DEF GrantLapses
<1>10. ASSUME NEW e \in Effects, PermitLapses(e)
     PROVE  RecordInv'
  BY <1>10 DEF PermitLapses
<1>11. ASSUME NEW e \in Effects, Issue(e)
     PROVE  RecordInv'
  BY <1>11 DEF Issue
<1>12. ASSUME NEW e \in Effects, CleanNoEffect(e)
     PROVE  RecordInv'
  BY <1>12, CleanRecord
<1>13. ASSUME NEW e \in Effects, Retry(e)
     PROVE  RecordInv'
  BY <1>13 DEF Retry, MayRetry, GrantLocked, Live, Authority
<1>14. ASSUME NEW e \in Effects, RetryDenied(e)
     PROVE  RecordInv'
  BY <1>14 DEF RetryDenied, MayRetry, GrantLocked, Refreshed, Authority
<1>15. ASSUME NEW e \in Effects, Consume(e)
     PROVE  RecordInv'
  BY <1>15 DEF Consume, Observe, Sync, Blocked
<1>16. ASSUME NEW e \in Effects, ConsumeExpired(e)
     PROVE  RecordInv'
  BY <1>16, CloseKeepsRecord, ReasonAssumption DEF ConsumeExpired
<1>17. ASSUME NEW e \in Effects, ConsumeExpiredFails(e)
     PROVE  RecordInv'
  BY <1>17, CloseFailsKeepsRecord, ReasonAssumption DEF ConsumeExpiredFails
<1>18. ASSUME NEW e \in Effects, ResolveNoEffect(e)
     PROVE  RecordInv'
  BY <1>18, CloseKeepsRecord, ReasonAssumption DEF ResolveNoEffect
<1>19. ASSUME NEW e \in Effects, ResolveNoEffectFails(e)
     PROVE  RecordInv'
  BY <1>19, CloseFailsKeepsRecord, ReasonAssumption DEF ResolveNoEffectFails
<1>20. ASSUME NEW e \in Effects, NEW st \in {"confirmed", "unknown"},
             RecordOutcome(e, st)
     PROVE  RecordInv'
  BY <1>20, RecordOutcomeRecord
<1>21. ASSUME NEW e \in Effects, NEW st \in {"confirmed", "unknown"},
             RecordOutcomeFails(e, st)
     PROVE  RecordInv'
  BY <1>21, RecordOutcomeRecord
<1>22. ASSUME NEW e \in Effects, SettleDead(e)
     PROVE  RecordInv'
  BY <1>22
     DEF SettleDead, BeginRetire, RetirePath, MintedOwner, Idle, Refreshed,
         Authority
<1>23. ASSUME NEW e \in Effects, BeginAuthorize(e)
     PROVE  RecordInv'
  BY <1>23 DEF BeginAuthorize, Observe, Sync
<1>24. ASSUME NEW e \in Effects, Prune(e)
     PROVE  RecordInv'
  BY <1>24, CloseKeepsRecord, ReasonAssumption DEF Prune
<1>25. ASSUME NEW e \in Effects, PruneFails(e)
     PROVE  RecordInv'
  <2>1. e \in plapsed
    BY <1>25 DEF PruneFails, IInv, MemoryInv, CallInProgress
  <2> QED BY <1>25, <2>1, CloseFailsKeepsRecord, ReasonAssumption DEF PruneFails
<1>26. ASSUME NEW e \in Effects, ClaimDenied(e)
     PROVE  RecordInv'
  BY <1>26 DEF ClaimDenied, Idle
<1>27. ASSUME NEW e \in Effects, IdentityDenied(e)
     PROVE  RecordInv'
  BY <1>27
     DEF IdentityDenied, Pruned, BeginRetire, RetirePath, MintedOwner, Idle,
         Refreshed, Authority
<1>28. ASSUME NEW e \in Effects, Reserve(e)
     PROVE  RecordInv'
  BY <1>28, ReserveRecord
<1>29. ASSUME NEW e \in Effects, ReserveFails(e)
     PROVE  RecordInv'
  BY <1>29, ReserveRecord
<1>30. ASSUME NEW e \in Effects, SkipReservation(e)
     PROVE  RecordInv'
  BY <1>30 DEF SkipReservation, Pruned, Valid, Live, Authority
<1>31. ASSUME KillBlocksPermit
     PROVE  RecordInv'
  BY <1>31 DEF KillBlocksPermit, WithholdPermit, Observe, Sync, Idle
<1>32. ASSUME SpendDenied
     PROVE  RecordInv'
  BY <1>32
     DEF SpendDenied, WithholdPermit, Observe, Sync, Idle, Refreshed, Authority
<1>33. ASSUME Spend
     PROVE  RecordInv'
  BY <1>33 DEF Spend, Observe, Sync, Authority
<1>34. ASSUME Mint
     PROVE  RecordInv'
  BY <1>34 DEF Mint, Observe, Sync, Idle
<1>35. ASSUME Reinstate
     PROVE  RecordInv'
  BY <1>35, ReinstateRecord
<1>36. ASSUME ReinstateFails
     PROVE  RecordInv'
  BY <1>36, ReinstateRecord
<1>37. ASSUME ClosePrepermit
     PROVE  RecordInv'
  BY <1>37, ClosePrepermitRecord
<1>38. ASSUME ClosePrepermitFails
     PROVE  RecordInv'
  BY <1>38, ClosePrepermitRecord
<1> HIDE DEF IInv, TypeOK, LedgerTypeOK, MemoryInv, RecordInv,
            LedgerByAttempt, UnsettledIsClaimed, NoEffectEndsUse,
            KeptBeforeSeen, OutcomesAreTrue, CrossingIsOnRecord,
            OneOpenReservation, Lineage, PermitHolders, Crossings,
            CallInProgress, OwnedIffOpen, ClaimHeld, IsFenced, OpenState,
            FactStates, Fact, Terminal, Row, Reservation, NoFact, Unsettled
<1> QED
  BY <1>1, <1>2, <1>3, <1>4, <1>5, <1>6, <1>7, <1>8, <1>9, <1>10, <1>11,
     <1>12, <1>13, <1>14, <1>15, <1>16, <1>17, <1>18, <1>19, <1>20,
     <1>21, <1>22, <1>23, <1>24, <1>25, <1>26, <1>27, <1>28, <1>29,
     <1>30, <1>31, <1>32, <1>33, <1>34, <1>35, <1>36, <1>37, <1>38
     DEF Next, EnvironmentStep, SessionStep, AuthorizeStep, CallStep

--------------------------------------------------------------------------------
(* The theorems.                                                            *)

\* The invariant holds at the start ...
LEMMA InitInv == ASSUME Init PROVE IInv
<1>1. MemoryInv
  BY GrantAssumption
     DEF Init, Idle, MemoryInv, Lineage, PermitHolders, Crossings,
         CallInProgress, Epochs, OwnedIffOpen, OneCrossingPerApproval, ClaimHeld
<1>2. RecordInv
  BY DEF Init, LedgerInit, NoFact, RecordInv, LedgerByAttempt,
         UnsettledIsClaimed, NoEffectEndsUse, KeptBeforeSeen, OutcomesAreTrue,
         CrossingIsOnRecord, OneOpenReservation, Unsettled
<1> QED BY <1>1, <1>2, InitType DEF IInv

\* ... and through every stuttering step.
LEMMA StutterInv == ASSUME IInv, UNCHANGED vars PROVE IInv'
<1> USE DEF vars, grantVars, permitVars, ownerVars, killVars, ledgerVars,
            envVars
<1>1. TypeOK'
  BY DEF IInv, TypeOK, LedgerTypeOK
<1>2. MemoryInv'
  BY DEF IInv, MemoryInv, Lineage, PermitHolders, Crossings, CallInProgress,
         Epochs, OwnedIffOpen, OneCrossingPerApproval, ClaimHeld, IsFenced,
         OpenState, Reservation, Row
<1>3. RecordInv'
  BY DEF IInv, RecordInv, LedgerByAttempt, UnsettledIsClaimed, NoEffectEndsUse,
         KeptBeforeSeen, OutcomesAreTrue, CrossingIsOnRecord,
         OneOpenReservation, Unsettled, ClaimHeld, IsFenced, Reservation, Row
<1> QED BY <1>1, <1>2, <1>3 DEF IInv

\* The invariant is inductive: whatever calls interleave, fail and are cut off
\* by crashes, it holds of every reachable state.
THEOREM Invariance == Spec => []IInv
<1>1. Init => IInv
  BY InitInv
<1>2. IInv /\ [Next]_vars => IInv'
  <2>1. ASSUME IInv, Next PROVE IInv'
    BY <2>1, TypeStep, MemoryStep, RecordStep DEF IInv
  <2> QED BY <2>1, StutterInv
<1> QED BY <1>1, <1>2, PTL DEF Spec

\* Every variable of the gateway keeps its type.
THEOREM TypeCorrect == Spec => []TypeOK
<1>1. IInv => TypeOK
  BY DEF IInv
<1> QED BY <1>1, Invariance, PTL

\* A fenced external effect never starts without a reservation, or an outcome,
\* that survives every later crash and power failure (authorize_commit,
\* consume_permit).
THEOREM CrossingsAreOnRecord == Spec => []CrossingIsOnRecord
<1>1. IInv => CrossingIsOnRecord
  BY DEF IInv, RecordInv
<1> QED BY <1>1, Invariance, PTL

\* No closure of any kind, failed or not, calls an effect NO_EFFECT that was
\* allowed to start, and no outcome is recorded of one that was not.
THEOREM RecordTellsTheTruth == Spec => []OutcomesAreTrue
<1>1. IInv => OutcomesAreTrue
  BY DEF IInv, RecordInv
<1> QED BY <1>1, Invariance, PTL

\* One human approval starts at most one external effect.
THEOREM ApprovalsAreOneShot == Spec => []OneCrossingPerApproval
<1>1. IInv => OneCrossingPerApproval
  BY DEF IInv, MemoryInv
<1> QED BY <1>1, Invariance, PTL

\* At most one attempt of an approval is unsettled in the ledger.
THEOREM ReservationsAreNotLeftBehind == Spec => []OneOpenReservation
<1>1. IInv => OneOpenReservation
  BY DEF IInv, RecordInv
<1> QED BY <1>1, Invariance, PTL

\* The gateway owns exactly the attempts that reconciliation must not decide.
THEOREM OwnershipIsExact == Spec => []OwnedIffOpen
<1>1. IInv => OwnedIffOpen
  BY DEF IInv, MemoryInv
<1> QED BY <1>1, Invariance, PTL

\* Only consume_permit lets an effect start.
LEMMA OnlyConsumeCrosses ==
  ASSUME Next, UNCHANGED crossed => FALSE
  PROVE  \E e \in Effects : Consume(e)
BY ZenonT(40)
   DEF Next, EnvironmentStep, SessionStep, AuthorizeStep, CallStep, KillTrip,
       KillReset, HotFileChanges, KillObserved, DeliverTrip, RegisterPolicy,
       ProcessDies, PowerLoss, ForgetMemory, GrantLapses, PermitLapses, Issue,
       CleanNoEffect, Retry, RetryDenied, ConsumeExpired, ConsumeExpiredFails,
       ResolveNoEffect, ResolveNoEffectFails, RecordOutcome, RecordOutcomeFails,
       SettleDead, BeginAuthorize, Prune, PruneFails, ClaimDenied,
       IdentityDenied, Reserve, ReserveFails, SkipReservation, KillBlocksPermit,
       SpendDenied, Spend, Mint, Reinstate, ReinstateFails, ClosePrepermit,
       ClosePrepermitFails

\* An effect starts only under an approval of the current kill generation,
\* with the switch inactive, after any number of trips, resets and deliveries.
THEOREM TripsRevoke == Spec => TripRevokesApprovals
<1> DEFINE Current == \A e \in crossed' \ crossed :
                        gepoch[GrantOf[e]] = generation /\ ~Active
<1>1. IInv /\ [Next]_vars => [Current]_vars
  <2>1. ASSUME IInv, NEW e \in Effects, Consume(e) PROVE Current
    <3>1. crossed' = crossed \cup {e}
      BY <2>1 DEF Consume
    <3>2. permit[e] = "issued" /\ ~Active /\ ~(epoch < generation)
          /\ pepoch[e] = epoch
      BY <2>1 DEF Consume, Blocked
    <3>3. /\ pepoch[e] = gepoch[GrantOf[e]] /\ epoch <= generation
          /\ epoch \in Nat /\ generation \in Nat
      BY <2>1, <3>2 DEF IInv, TypeOK, MemoryInv, Epochs
    <3> QED BY <3>1, <3>2, <3>3
  <2>2. ASSUME UNCHANGED crossed PROVE Current
    BY <2>2
  <2> QED BY <2>1, <2>2, OnlyConsumeCrosses
<1>2. Spec => [][Current]_vars
  BY <1>1, Invariance, PTL DEF Spec
<1> QED BY <1>2 DEF TripRevokesApprovals

--------------------------------------------------------------------------------
(* The gateway implements OneShot and EffectOwners.                         *)

\* How the surviving fact of an effect moves in one step.
Advances(e) ==
  \/ kept'[e] = kept[e]
  \/ kept[e] = NoFact /\ kept'[e].state = "reserved"
  \/ kept[e].state = "reserved" /\ kept'[e].state \in Terminal

\* One sync hardens what is visible of every effect, and the new row.
LEMMA PersistAdvances ==
  ASSUME IInv, NEW x \in Effects, NEW f \in Fact, f.effect = x, Persist(f),
         f.state \in Terminal /\ IsFenced(x) => kept[x] # NoFact,
         NEW e \in Effects, IsFenced(e)
  PROVE  Advances(e)
<1> USE DEF Fact, FactStates, NoFact, Terminal
<1>1. /\ seen \in [Effects -> Fact \cup {NoFact}]
      /\ kept \in [Effects -> Fact \cup {NoFact}]
  BY DEF IInv, TypeOK, LedgerTypeOK
<1>2. /\ kept'[e] = IF e = x THEN f ELSE seen[e]
      /\ seen[x] = f \/ MayFollow(seen[x], f)
  BY <1>1 DEF Persist, Acceptable
<1>3. \/ kept[e] = seen[e]
      \/ kept[e] = NoFact /\ seen[e].state = "reserved"
      \/ kept[e].state = "reserved" /\ seen[e].state \in Terminal
  BY DEF IInv, RecordInv, KeptBeforeSeen
<1> QED BY <1>1, <1>2, <1>3 DEF Advances, MayFollow, MayOpen

\* A failed append hardens nothing.
LEMMA RaiseAdvances ==
  ASSUME NEW f, Raise(f), NEW e \in Effects
  PROVE  Advances(e)
BY DEF Raise, Falter, Advances

\* A power failure may harden what was visible.
LEMMA PowerAdvances ==
  ASSUME IInv, PowerFails, NEW e \in Effects, IsFenced(e)
  PROVE  Advances(e)
<1>1. \/ kept'[e] \in {kept[e], seen[e]}
      \/ kept[e] = NoFact /\ kept'[e].state = "reserved"
  <2>1. LedgerTypeOK
    BY DEF IInv, TypeOK
  <2> QED BY <2>1, PowerSpares
<1> QED BY <1>1 DEF IInv, RecordInv, KeptBeforeSeen, Advances

\* Closing an unused permit writes over a reservation that survives.
LEMMA CloseAdvances ==
  ASSUME IInv, NEW x \in Effects, NEW why \in Reasons,
         CloseUnconsumed(x, why) \/ CloseUnconsumedFails(x, why),
         NEW e \in Effects, IsFenced(e)
  PROVE  Advances(e)
<1>1. permit[x] = "issued"
  BY DEF CloseUnconsumed, CloseUnconsumedFails
<1>2. Row(x, "no_effect", why) \in Fact /\ Row(x, "no_effect", why).effect = x
  BY RowIsFact DEF FactStates, Row
<1>3. IsFenced(x) => kept[x] # NoFact
  BY <1>1, IssuedPermit
<1>4. CASE Persist(Row(x, "no_effect", why))
  BY <1>2, <1>3, <1>4, PersistAdvances
<1>5. CASE Raise(Row(x, "no_effect", why))
  BY <1>5, RaiseAdvances
<1>6. CASE UNCHANGED ledgerVars
  BY <1>6 DEF ledgerVars, Advances
<1> QED BY <1>4, <1>5, <1>6 DEF CloseUnconsumed, CloseUnconsumedFails

\* So does recording an outcome.
LEMMA OutcomeAdvances ==
  ASSUME IInv, NEW x \in Effects, NEW st \in {"confirmed", "unknown"},
         RecordOutcome(x, st) \/ RecordOutcomeFails(x, st),
         NEW e \in Effects, IsFenced(e)
  PROVE  Advances(e)
<1>1. IsFenced(x) => kept[x] # NoFact
  BY DEF RecordOutcome, RecordOutcomeFails, MayRecord, IsFenced, IInv,
         RecordInv, LedgerByAttempt
<1>2. Row(x, st, "plain") \in Fact /\ Row(x, st, "plain").effect = x
  BY RowIsFact, ReasonAssumption DEF FactStates, Row
<1> QED BY <1>1, <1>2, PersistAdvances, RaiseAdvances
           DEF RecordOutcome, RecordOutcomeFails

\* Reserving, the first time or again.
LEMMA ReserveAdvances ==
  ASSUME IInv, NEW x \in Effects,
         Persist(Reservation(x)) \/ Raise(Reservation(x)),
         NEW e \in Effects, IsFenced(e)
  PROVE  Advances(e)
<1>1. /\ Reservation(x) \in Fact /\ Reservation(x).effect = x
      /\ Reservation(x).state \notin Terminal
  BY RowIsFact, ReasonAssumption DEF Reservation, FactStates, Row, Terminal
<1> QED BY <1>1, PersistAdvances, RaiseAdvances

\* Closing a reservation whose permit will never be minted.
LEMMA PrepermitAdvances ==
  ASSUME IInv, ClosePrepermit \/ ClosePrepermitFails,
         NEW e \in Effects, IsFenced(e)
  PROVE  Advances(e)
<1> DEFINE f == Row(call.e, "no_effect", pinned[call.e])
<1>1. call.at = "close" /\ (Persist(f) \/ Raise(f))
  BY DEF ClosePrepermit, ClosePrepermitFails
<1>2. call.e \in Effects /\ kept[call.e] # NoFact
  BY <1>1, CallOwner
<1>3. f \in Fact /\ f.effect = call.e
  BY <1>2, RowIsFact DEF FactStates, Row, IInv, TypeOK
<1> HIDE DEF f
<1> QED BY <1>1, <1>2, <1>3, PersistAdvances, RaiseAdvances

\* Every step advances what survives of every fenced effect.
LEMMA StepAdvances ==
  ASSUME IInv, Next, NEW e \in Effects, IsFenced(e)
  PROVE  Advances(e)
<1>1. ASSUME NEW x \in Effects, Prune(x) \/ ConsumeExpired(x) PROVE Advances(e)
  BY <1>1, CloseAdvances, ReasonAssumption DEF Prune, ConsumeExpired
<1>2. ASSUME NEW x \in Effects, PruneFails(x) \/ ConsumeExpiredFails(x)
      PROVE  Advances(e)
  BY <1>2, CloseAdvances, ReasonAssumption DEF PruneFails, ConsumeExpiredFails
<1>3. ASSUME NEW x \in Effects, ResolveNoEffect(x) \/ ResolveNoEffectFails(x)
      PROVE  Advances(e)
  BY <1>3, CloseAdvances, ReasonAssumption
     DEF ResolveNoEffect, ResolveNoEffectFails
<1>4. ASSUME NEW x \in Effects, NEW st \in {"confirmed", "unknown"},
             RecordOutcome(x, st) \/ RecordOutcomeFails(x, st)
      PROVE  Advances(e)
  BY <1>4, OutcomeAdvances
<1>5. ASSUME NEW x \in Effects, Reserve(x) \/ ReserveFails(x) PROVE Advances(e)
  BY <1>5, ReserveAdvances DEF Reserve, ReserveFails
<1>6. ASSUME Reinstate \/ ReinstateFails PROVE Advances(e)
  <2>1. call.e \in Effects
    BY <1>6, CallOwner DEF Reinstate, ReinstateFails, IInv, TypeOK
  <2> QED BY <1>6, <2>1, ReserveAdvances DEF Reinstate, ReinstateFails
<1>7. ASSUME ClosePrepermit \/ ClosePrepermitFails PROVE Advances(e)
  BY <1>7, PrepermitAdvances
<1>8. ASSUME PowerLoss PROVE Advances(e)
  BY <1>8, PowerAdvances DEF PowerLoss
<1>9. ASSUME UNCHANGED ledgerVars PROVE Advances(e)
  BY <1>9 DEF ledgerVars, Advances
<1>10. \/ UNCHANGED ledgerVars \/ PowerLoss \/ Reinstate \/ ReinstateFails
       \/ ClosePrepermit \/ ClosePrepermitFails
       \/ \E x \in Effects :
            \/ Prune(x) \/ ConsumeExpired(x) \/ PruneFails(x)
            \/ ConsumeExpiredFails(x) \/ ResolveNoEffect(x)
            \/ ResolveNoEffectFails(x) \/ Reserve(x) \/ ReserveFails(x)
            \/ \E st \in {"confirmed", "unknown"} :
                 RecordOutcome(x, st) \/ RecordOutcomeFails(x, st)
  BY Zenon
     DEF Next, EnvironmentStep, SessionStep, AuthorizeStep, CallStep, KillTrip,
         KillReset, HotFileChanges, KillObserved, DeliverTrip, RegisterPolicy,
         ProcessDies, GrantLapses, PermitLapses, Issue, CleanNoEffect, Retry,
         RetryDenied, Consume, SettleDead, BeginAuthorize, ClaimDenied,
         IdentityDenied, SkipReservation, KillBlocksPermit, SpendDenied, Spend,
         Mint
<1> QED BY <1>1, <1>2, <1>3, <1>4, <1>5, <1>6, <1>7, <1>8, <1>9, <1>10

--------------------------------------------------------------------------------
\* Consuming a permit: its reservation survives and nothing else has moved.
LEMMA ConsumePhase ==
  ASSUME IInv, NEW x \in Effects, Consume(x), IsFenced(x)
  PROVE  kept[x].state = "reserved" /\ UNCHANGED kept
<1>1. kept[x] # NoFact /\ x \notin crossed
  BY IssuedPermit DEF Consume
<1>2. seen[x].state # "no_effect"
  BY DEF Consume, IInv, RecordInv, NoEffectEndsUse
<1>3. seen[x].state \notin {"confirmed", "unknown"}
  BY <1>1 DEF IInv, RecordInv, OutcomesAreTrue
<1>4. kept[x] \in Fact \cup {NoFact}
  BY DEF IInv, TypeOK, LedgerTypeOK
<1> QED BY <1>1, <1>2, <1>3, <1>4
           DEF Consume, ledgerVars, IInv, RecordInv, KeptBeforeSeen, Fact,
               FactStates, Terminal

\* One step of the gateway moves one fenced attempt at most one phase on.
LEMMA PhaseMoves ==
  ASSUME IInv, IInv', Next, NEW e \in Effects, IsFenced(e)
  PROVE  Phase(e)' = Phase(e) \/ <<Phase(e), Phase(e)'>> \in Abstract!Moves
<1> USE DEF NoFact, Terminal
<1>1. /\ kept[e] \in Fact \cup {NoFact} /\ kept'[e] \in Fact \cup {NoFact}
      /\ e \in crossed => kept[e].state \in {"reserved", "confirmed", "unknown"}
      /\ e \in crossed' =>
           kept'[e].state \in {"reserved", "confirmed", "unknown"}
      /\ e \notin crossed => seen[e].state \notin {"confirmed", "unknown"}
      /\ e \notin crossed' => seen'[e].state \notin {"confirmed", "unknown"}
  BY DEF IInv, TypeOK, LedgerTypeOK, RecordInv, CrossingIsOnRecord,
         OutcomesAreTrue, IsFenced
<1>2. /\ e \notin crossed => kept[e].state \notin {"confirmed", "unknown"}
      /\ e \notin crossed' => kept'[e].state \notin {"confirmed", "unknown"}
  BY <1>1 DEF IInv, RecordInv, KeptBeforeSeen
<1>3. CASE UNCHANGED crossed
  BY <1>1, <1>2, <1>3, StepAdvances
     DEF Phase, Advances, Abstract!Moves, Fact, FactStates
<1>4. CASE ~UNCHANGED crossed
  <2>1. PICK x \in Effects : Consume(x)
    BY <1>4, OnlyConsumeCrosses
  <2>2. crossed' = crossed \cup {x} /\ UNCHANGED kept
    BY <2>1 DEF Consume, ledgerVars
  <2>3. CASE e = x
    <3>1. e \notin crossed /\ kept[e].state = "reserved" /\ kept[e] # NoFact
      BY <2>1, <2>3, IssuedPermit, ConsumePhase DEF Consume
    <3> QED BY <2>2, <2>3, <3>1 DEF Phase, Abstract!Moves
  <2>4. CASE e # x
    BY <2>2, <2>4 DEF Phase
  <2> QED BY <2>3, <2>4
<1> QED BY <1>3, <1>4

\* An attempt crosses when no other attempt of its approval has or does.
LEMMA PhaseIsExclusive ==
  ASSUME IInv, IInv', Next, NEW e \in Effects, IsFenced(e), NEW b \in Effects,
         e # b, GrantOf[b] = GrantOf[e],
         Phase(e)' = "crossed"
  PROVE  Phase(b) \notin {"crossed", "settled"} /\ Phase(b)' # "crossed"
<1>1. e \in crossed'
  BY DEF Phase
<1>2. b \notin crossed'
  BY <1>1 DEF IInv, MemoryInv, OneCrossingPerApproval, TypeOK
<1>3. crossed \subseteq crossed'
  BY OnlyConsumeCrosses DEF Consume
<1> QED BY <1>2, <1>3 DEF Phase

\* The gateway's calls, the sessions and the failures around them never show
\* an observer of crossings and of the surviving ledger anything but one-shot
\* attempts.
THEOREM GatewayRefinesOneShot == Spec => ImplementsOneShot
<1>1. Init => Abstract!Init
  <2>1. ASSUME Init, NEW e \in FencedEffects PROVE Phase(e) = "idle"
    BY <2>1 DEF Init, LedgerInit, Phase, FencedEffects, NoFact
  <2> QED BY <2>1 DEF Abstract!Init
<1>2. IInv /\ IInv' /\ [Next]_vars
        => [Abstract!Next]_([e \in FencedEffects |-> Phase(e)])
  <2>1. ASSUME IInv, IInv', Next PROVE Abstract!Next
    <3>1. ASSUME NEW e \in FencedEffects
          PROVE  \/ Phase(e)' = Phase(e)
                 \/ /\ <<Phase(e), Phase(e)'>> \in Abstract!Moves
                    /\ Phase(e)' = "crossed" => Abstract!MayCross(e)
      <4>1. e \in Effects /\ IsFenced(e)
        BY DEF FencedEffects
      <4>2. Phase(e)' = "crossed" => Abstract!MayCross(e)
        BY <2>1, <4>1, PhaseIsExclusive
           DEF FencedEffects, Abstract!MayCross, Abstract!HasCrossed, IsFenced
      <4> QED BY <2>1, <4>1, <4>2, PhaseMoves
    <3>2. FencedEffects' = FencedEffects
      BY DEF FencedEffects, IsFenced
    <3> QED BY <3>1, <3>2 DEF Abstract!Next
  <2>2. ASSUME UNCHANGED vars
        PROVE  UNCHANGED [e \in FencedEffects |-> Phase(e)]
    BY <2>2 DEF vars, ledgerVars, FencedEffects, IsFenced, Phase
  <2> QED BY <2>1, <2>2
<1> QED BY <1>1, <1>2, Invariance, PTL
           DEF Spec, ImplementsOneShot, Abstract!Spec

--------------------------------------------------------------------------------
(* What the gateway promises to recovery: EffectOwners.                     *)

\* A reserved attempt passed the latch.
ReservedIsLatched == \A e \in Effects : astate[e] = "reserved" => e \in latched

\* The life of an attempt, without the overlaps that the invariant excludes.
LEMMA LifeIs ==
  ASSUME IInv, NEW e \in Effects
  PROVE  Life(e) = IF astate[e] = "unborn" THEN "unborn"
                   ELSE IF e \in owner THEN "owned"
                   ELSE IF astate[e] \in {"preparing", "reserved"} THEN "private"
                   ELSE "over"
<1>1. astate[e] \in AttemptStates /\ (e \in owner => astate[e] \in {"preparing", "reserved"})
  BY DEF IInv, TypeOK, MemoryInv, OwnedIffOpen
<1> QED BY <1>1 DEF Life, AttemptStates, Terminal

\* The same, after a step.
LEMMA LifeWillBe ==
  ASSUME IInv', NEW e \in Effects
  PROVE  Life(e)' = IF astate'[e] = "unborn" THEN "unborn"
                    ELSE IF e \in owner' THEN "owned"
                    ELSE IF astate'[e] \in {"preparing", "reserved"} THEN "private"
                    ELSE "over"
<1>1. /\ astate'[e] \in AttemptStates
      /\ e \in owner' => astate'[e] \in {"preparing", "reserved"}
  BY DEF IInv, TypeOK, MemoryInv, OwnedIffOpen
<1> QED BY <1>1 DEF Life, AttemptStates, Terminal

\* The ledger's steps are those of the owners' ledger.
LEMMA SameLedger ==
  ASSUME NEW f
  PROVE  /\ Owners!Persist(f) <=> Persist(f)
         /\ Owners!Raise(f) <=> Raise(f)
         /\ Owners!Fact = Fact
BY DEF Owners!Persist, Owners!Raise, Owners!Falter, Owners!Acceptable,
       Owners!MayFollow, Owners!MayOpen, Owners!NoFact, Owners!Terminal, Owners!Fact,
       Owners!FactStates, Persist, Raise, Falter, Acceptable, MayFollow, MayOpen,
       NoFact, Terminal, Fact, FactStates

Lifes == [e \in Effects |-> Life(e)]

\* One attempt's life moves.
LEMMA LifeMoves ==
  ASSUME NEW e \in Effects, NEW st, Life(e)' = st,
         \A b \in Effects \ {e} : Life(b)' = Life(b)
  PROVE  Owners!Lives(e, st)
BY DEF Owners!Lives

\* A reserved attempt stays latched.
LEMMA LatchedStep ==
  ASSUME IInv, ReservedIsLatched, Next PROVE ReservedIsLatched'
<1>1. CASE latched \subseteq latched'
           /\ \A e \in Effects : astate'[e] = "reserved" =>
                astate[e] = "reserved" \/ e \in latched'
  BY <1>1 DEF ReservedIsLatched
<1>2. astate \in [Effects -> AttemptStates]
  BY DEF IInv, TypeOK
<1>3. ASSUME NEW e \in Effects,
             \/ Prune(e) \/ ConsumeExpired(e) \/ ResolveNoEffect(e) \/ Issue(e)
             \/ CleanNoEffect(e) \/ Retry(e)
      PROVE  ReservedIsLatched'
  BY <1>2, <1>3
  DEF Prune, ConsumeExpired, ResolveNoEffect, CloseUnconsumed, Terminalize, Issue,
      CleanNoEffect, Retry, ReservedIsLatched
<1>4. ASSUME NEW e \in Effects, NEW st \in {"confirmed", "unknown"}, RecordOutcome(e, st)
      PROVE  ReservedIsLatched'
  BY <1>2, <1>4 DEF RecordOutcome, Terminalize, ReservedIsLatched
<1>5. ASSUME NEW e \in Effects, Reserve(e) PROVE ReservedIsLatched'
  BY <1>2, <1>5 DEF Reserve, ReservedIsLatched
<1>6. ASSUME NEW e \in Effects, ReserveFails(e) PROVE ReservedIsLatched'
  BY <1>6 DEF ReserveFails, ReservedIsLatched
<1>7. CASE Reinstate
  BY <1>2, <1>7, CallOwner DEF Reinstate, ReservedIsLatched
<1>8. CASE ClosePrepermit
  BY <1>2, <1>8 DEF ClosePrepermit, Terminalize, ReservedIsLatched
<1>9. CASE KillBlocksPermit \/ SpendDenied
  <2>1. astate' = astate \/ astate' = [astate EXCEPT ![call.e] = "no_effect"]
    BY <1>9 DEF KillBlocksPermit, SpendDenied, WithholdPermit
  <2>2. latched' = latched
    BY <1>9 DEF KillBlocksPermit, SpendDenied
  <2> QED BY <1>2, <2>1, <2>2 DEF ReservedIsLatched
<1>10. CASE ProcessDies \/ PowerLoss
  BY <1>2, <1>10 DEF ProcessDies, PowerLoss, ForgetMemory, ReservedIsLatched
<1>11. CASE UNCHANGED <<astate, latched>>
  BY <1>11 DEF ReservedIsLatched
<1> QED BY <1>3, <1>4, <1>5, <1>6, <1>7, <1>8, <1>9, <1>10, <1>11, Zenon
    DEF Next, EnvironmentStep, SessionStep, AuthorizeStep, CallStep, KillTrip,
        KillReset, HotFileChanges, KillObserved, DeliverTrip, RegisterPolicy,
        GrantLapses, PermitLapses, RetryDenied, Consume, ConsumeExpiredFails,
        ResolveNoEffectFails, RecordOutcomeFails, SettleDead, BeginAuthorize,
        PruneFails, ClaimDenied, IdentityDenied, SkipReservation, Spend, Mint,
        ReinstateFails, ClosePrepermitFails, CloseUnconsumedFails

\* A step of one attempt leaves the life of every other.
LEMMA OthersLive ==
  ASSUME IInv, IInv', NEW e \in Effects, NEW b \in Effects \ {e},
         astate'[b] = astate[b], b \in owner' <=> b \in owner
  PROVE  Life(b)' = Life(b)
BY LifeIs, LifeWillBe

\* A fact about an effect is one of its rows.
LEMMA FactsAreRows ==
  ASSUME NEW e, NEW f \in Owners!Fact, f.effect = e
  PROVE  f \in Owners!RowsOf(e)
  BY DEF Owners!Fact, Owners!RowsOf

\* An append of a true row that leaves the attempt as it is.
LEMMA OwnerWrites ==
  ASSUME IInv, NEW e \in Effects, NEW f \in Fact, f.effect = e,
         Persist(f) \/ Raise(f), UNCHANGED <<astate, owner, crossed>>,
         f.state = "no_effect" => e \notin crossed,
         f.state \in {"confirmed", "unknown"} => e \in crossed,
         \/ e \in owner
         \/ /\ astate[e] = "preparing" /\ e \in crossed
            /\ f.state \in {"confirmed", "unknown"}
  PROVE  Owners!Write(e)
<1>1. f \in Owners!Fact /\ (Owners!Persist(f) \/ Owners!Raise(f))
  BY SameLedger
<1>2. Owners!MayWrite(e, f)
  <2>1. CASE e \in owner
    <3>1. Life(e) = "owned"
      BY <2>1, LifeIs DEF IInv, MemoryInv, OwnedIffOpen
    <3> QED BY <3>1 DEF Owners!MayWrite, Owners!IsTrue
  <2>2. CASE e \notin owner
    <3>1. Life(e) = "private"
      BY <2>2, LifeIs
    <3> QED BY <2>2, <3>1 DEF Owners!MayWrite, Owners!IsTrue
  <2> QED BY <2>1, <2>2
<1>3. UNCHANGED <<Lifes, crossed>>
  BY DEF Lifes, Life
<1> QED BY <1>1, <1>2, <1>3, FactsAreRows DEF Owners!Write, Owners!MayWrite, Lifes

\* A true terminal row that is certain, and the attempt's end.
LEMMA OwnerLetsGo ==
  ASSUME IInv, IInv', NEW e \in Effects, NEW f \in Fact, f.effect = e, Persist(f),
         f.state \in Terminal, UNCHANGED crossed, Terminalize(e, f.state),
         f.state = "no_effect" => e \notin crossed,
         f.state \in {"confirmed", "unknown"} => e \in crossed,
         \/ e \in owner
         \/ /\ astate[e] = "preparing" /\ e \in crossed
            /\ f.state \in {"confirmed", "unknown"}
  PROVE  Owners!LetGo(e)
<1>1. f \in Owners!Fact /\ Owners!Persist(f) /\ f.state \in Owners!Terminal
  BY SameLedger DEF Terminal, Owners!Terminal
<1>2. Owners!MayWrite(e, f)
  <2>1. CASE e \in owner
    <3>1. Life(e) = "owned"
      BY <2>1, LifeIs DEF IInv, MemoryInv, OwnedIffOpen
    <3> QED BY <3>1 DEF Owners!MayWrite, Owners!IsTrue
  <2>2. CASE e \notin owner
    <3>1. Life(e) = "private"
      BY <2>2, LifeIs
    <3> QED BY <2>2, <3>1 DEF Owners!MayWrite, Owners!IsTrue
  <2> QED BY <2>1, <2>2
<1>3. Owners!Lives(e, "over")
  <2>1. astate \in [Effects -> AttemptStates]
    BY DEF IInv, TypeOK
  <2>2. /\ astate'[e] = f.state /\ e \notin owner'
        /\ \A b \in Effects \ {e} : astate'[b] = astate[b] /\ (b \in owner' <=> b \in owner)
    BY <2>1 DEF Terminalize
  <2>3. Life(e)' = "over"
    BY <2>2, LifeWillBe DEF Terminal
  <2> QED BY <2>2, <2>3, OthersLive, LifeMoves
<1> QED BY <1>1, <1>2, <1>3, FactsAreRows DEF Owners!LetGo

\* The attempt's end without a row, when nothing has started.
LEMMA OwnerAbandons ==
  ASSUME IInv, IInv', NEW e \in Effects, astate[e] = "preparing", e \notin owner,
         e \notin crossed, astate' = [astate EXCEPT ![e] = "no_effect"],
         owner' = owner \ {e}, UNCHANGED <<seen, kept, crossed>>
  PROVE  Owners!Abandon(e)
<1>1. astate \in [Effects -> AttemptStates]
  BY DEF IInv, TypeOK
<1>2. Life(e) = "private"
  BY LifeIs
<1>3. Life(e)' = "over"
  BY <1>1, LifeWillBe
<1>4. Owners!Lives(e, "over")
  BY <1>1, <1>3, OthersLive, LifeMoves
<1> QED BY <1>2, <1>4 DEF Owners!Abandon

\* A new attempt.
LEMMA OwnerBegins ==
  ASSUME IInv, IInv', NEW e \in Effects, Issue(e) \/ Retry(e)
  PROVE  Owners!Begin(e)
<1>1. /\ astate \in [Effects -> AttemptStates] /\ astate[e] = "unborn"
      /\ astate' = [astate EXCEPT ![e] = "preparing"]
      /\ UNCHANGED <<owner, seen, kept, crossed>>
  BY DEF IInv, TypeOK, Issue, Retry, MayRetry, ownerVars, ledgerVars
<1>2. e \notin owner
  BY <1>1 DEF IInv, MemoryInv, OwnedIffOpen
<1>3. Life(e) = "unborn" /\ Life(e)' = "private"
  BY <1>1, <1>2, LifeIs, LifeWillBe
<1>4. Owners!Lives(e, "private")
  BY <1>1, <1>3, OthersLive, LifeMoves
<1> QED BY <1>1, <1>3, <1>4 DEF Owners!Begin

\* A reservation, the first time or again, whether its append returns.
LEMMA OwnerReserves ==
  ASSUME IInv, IInv', NEW e \in Effects, Reserve(e) \/ ReserveFails(e)
  PROVE  Owners!Own(e) \/ Owners!Write(e)
<1> DEFINE f == Reservation(e)
<1>1. f \in Fact /\ f.effect = e /\ f.state = "reserved"
  BY RowIsFact, ReasonAssumption DEF Reservation, FactStates, Row
<1>2. /\ astate[e] = "preparing" /\ IsFenced(e) /\ UNCHANGED crossed
      /\ owner' = owner \cup {e} /\ (Persist(f) \/ Raise(f))
      /\ astate' \in {astate, [astate EXCEPT ![e] = "reserved"]}
  BY DEF Reserve, ReserveFails, Valid, IsFenced
<1> HIDE DEF f
<1>3. astate \in [Effects -> AttemptStates]
  BY DEF IInv, TypeOK
<1>4. \A b \in Effects \ {e} : Life(b)' = Life(b)
  BY <1>2, <1>3, OthersLive
<1>5. Life(e)' = "owned"
  BY <1>2, <1>3, LifeWillBe
<1>6. Owners!Lives(e, "owned")
  BY <1>4, <1>5, LifeMoves
<1>7. f \in Owners!Fact /\ (Owners!Persist(f) \/ Owners!Raise(f))
  BY <1>1, <1>2, SameLedger
<1>8. CASE e \notin owner
  <2>1. Life(e) = "private" /\ e \in FencedEffects
    BY <1>2, <1>8, LifeIs DEF FencedEffects
  <2> QED BY <1>1, <1>2, <1>6, <1>7, <2>1, FactsAreRows DEF Owners!Own
<1>9. CASE e \in owner
  <2>1. Life(e) = "owned"
    BY <1>2, <1>9, LifeIs
  <2>2. UNCHANGED Lifes
    BY <1>4, <1>5, <2>1 DEF Lifes
  <2>3. Owners!MayWrite(e, f)
    BY <1>1, <2>1 DEF Owners!MayWrite, Owners!IsTrue
  <2> QED BY <1>1, <1>2, <1>7, <2>1, <2>2, <2>3, FactsAreRows DEF Owners!Write, Lifes
<1> QED BY <1>8, <1>9


\* Whoever holds a permit is owned if it is fenced, and only then.
LEMMA HolderIsOwner ==
  ASSUME IInv, ReservedIsLatched, NEW e \in Effects, permit[e] \in {"issued", "consumed"}
  PROVE  IF IsFenced(e) THEN astate[e] = "reserved" /\ e \in owner
                        ELSE astate[e] = "preparing" /\ e \notin owner
BY DEF IInv, MemoryInv, PermitHolders, OpenState, OwnedIffOpen, Lineage, ReservedIsLatched

\* The external effect starts.
LEMMA OwnerCrosses ==
  ASSUME IInv, ReservedIsLatched, NEW e \in Effects, Consume(e)
  PROVE  Owners!Cross(e)
<1>1. /\ permit[e] = "issued" /\ e \notin crossed /\ crossed' = crossed \cup {e}
      /\ UNCHANGED <<seen, kept, astate, owner, Lifes>>
  BY IssuedPermit DEF Consume, ledgerVars, ownerVars, Lifes, Life
<1>2. CASE IsFenced(e)
  <2>1. Life(e) = "owned" /\ e \in FencedEffects
    BY <1>1, <1>2, HolderIsOwner, LifeIs DEF FencedEffects
  <2>2. kept[e].state = "reserved"
    BY <1>2, ConsumePhase
  <2>3. seen[e].state \notin Terminal
    BY <1>1 DEF Consume, IInv, RecordInv, NoEffectEndsUse, OutcomesAreTrue, Terminal
  <2>4. kept[e] = seen[e]
    BY <2>2, <2>3 DEF IInv, RecordInv, KeptBeforeSeen, NoFact
  <2> QED BY <1>1, <2>1, <2>2, <2>4 DEF Owners!Cross, Lifes
<1>3. CASE ~IsFenced(e)
  <2>1. Life(e) = "private" /\ e \notin FencedEffects
    BY <1>1, <1>3, HolderIsOwner, LifeIs DEF FencedEffects
  <2>2. seen[e] = NoFact
    BY <1>1, <1>3, HolderIsOwner
       DEF IInv, MemoryInv, Lineage, RecordInv, LedgerByAttempt
  <2> QED BY <1>1, <2>1, <2>2 DEF Owners!Cross, Lifes, Owners!NoFact, NoFact
<1> QED BY <1>2, <1>3

\* An unused permit is closed ...
LEMMA OwnerCloses ==
  ASSUME IInv, IInv', ReservedIsLatched, NEW e \in Effects, NEW why \in Reasons,
         CloseUnconsumed(e, why), UNCHANGED crossed
  PROVE  Owners!LetGo(e) \/ Owners!Abandon(e)
<1>1. permit[e] = "issued" /\ e \notin crossed /\ Terminalize(e, "no_effect")
  BY IssuedPermit DEF CloseUnconsumed
<1>2. CASE IsFenced(e)
  <2> DEFINE f == Row(e, "no_effect", why)
  <2>1. /\ f \in Fact /\ f.effect = e /\ f.state = "no_effect" /\ Persist(f)
        /\ e \in owner
    BY <1>1, <1>2, HolderIsOwner, RowIsFact
       DEF CloseUnconsumed, FactStates, Row, IsFenced
  <2> HIDE DEF f
  <2> QED BY <1>1, <2>1, OwnerLetsGo DEF Terminal
<1>3. CASE ~IsFenced(e)
  <2>1. UNCHANGED <<seen, kept>> /\ astate[e] = "preparing" /\ e \notin owner
    BY <1>1, <1>3, HolderIsOwner DEF CloseUnconsumed, ledgerVars, IsFenced
  <2> QED BY <1>1, <2>1, OwnerAbandons DEF Terminalize
<1> QED BY <1>2, <1>3

\* ... or its closure may have been written.
LEMMA OwnerClosesNot ==
  ASSUME IInv, ReservedIsLatched, NEW e \in Effects, NEW why \in Reasons,
         CloseUnconsumedFails(e, why), UNCHANGED crossed
  PROVE  Owners!Write(e)
<1> DEFINE f == Row(e, "no_effect", why)
<1>1. /\ permit[e] = "issued" /\ e \notin crossed /\ IsFenced(e) /\ Raise(f)
      /\ UNCHANGED <<astate, owner>>
  BY IssuedPermit DEF CloseUnconsumedFails, IsFenced
<1>2. f \in Fact /\ f.effect = e /\ f.state = "no_effect" /\ e \in owner
  BY <1>1, HolderIsOwner, RowIsFact DEF FactStates, Row
<1> HIDE DEF f
<1> QED BY <1>1, <1>2, OwnerWrites

\* The outcome of a permit that was used.
LEMMA OwnerRecords ==
  ASSUME IInv, IInv', ReservedIsLatched, NEW e \in Effects,
         NEW st \in {"confirmed", "unknown"},
         RecordOutcome(e, st) \/ RecordOutcomeFails(e, st)
  PROVE  Owners!LetGo(e) \/ Owners!Write(e)
<1> DEFINE f == Row(e, st, "plain")
<1>1. f \in Fact /\ f.effect = e /\ f.state = st
  BY RowIsFact, ReasonAssumption DEF FactStates, Row
<1>2. e \in crossed /\ (e \in owner \/ astate[e] = "preparing")
  BY HolderIsOwner
     DEF RecordOutcome, RecordOutcomeFails, MayRecord, IInv, MemoryInv, Crossings
<1>3. CASE RecordOutcome(e, st)
  <2>1. Persist(f) /\ Terminalize(e, f.state) /\ UNCHANGED crossed
    BY <1>1, <1>3 DEF RecordOutcome
  <2> HIDE DEF f
  <2> QED BY <1>1, <1>2, <2>1, OwnerLetsGo DEF Terminal
<1>4. CASE RecordOutcomeFails(e, st)
  <2>1. Raise(f) /\ UNCHANGED <<astate, owner, crossed>>
    BY <1>4 DEF RecordOutcomeFails, ownerVars
  <2> HIDE DEF f
  <2> QED BY <1>1, <1>2, <2>1, OwnerWrites
<1> QED BY <1>3, <1>4

\* A reservation that may have been written is made certain, or not.
LEMMA OwnerReinstates ==
  ASSUME IInv, IInv', NEW e \in Effects, e = call.e,
         Reinstate \/ ReinstateFails
  PROVE  Owners!Write(e)
<1> DEFINE f == Reservation(e)
<1>1. /\ e \in owner
      /\ astate[e] \in {"preparing", "reserved"} /\ astate \in [Effects -> AttemptStates]
  BY CallOwner DEF Reinstate, ReinstateFails, IInv, MemoryInv, CallInProgress, TypeOK
<1>2. f \in Fact /\ f.effect = e /\ f.state = "reserved"
  BY <1>1, RowIsFact, ReasonAssumption DEF Reservation, FactStates, Row
<1>3. CASE Reinstate
  <2>1. /\ Persist(f) /\ UNCHANGED <<owner, crossed>>
        /\ astate' = [astate EXCEPT ![e] = "reserved"]
    BY <1>3 DEF Reinstate, ownerVars
  <2> HIDE DEF f
  <2>2. UNCHANGED Lifes
    <3>1. \A b \in Effects \ {e} : Life(b)' = Life(b)
      BY <1>1, <2>1, OthersLive
    <3>2. Life(e) = "owned" /\ Life(e)' = "owned"
      BY <1>1, <2>1, LifeIs, LifeWillBe
    <3> QED BY <3>1, <3>2 DEF Lifes
  <2>3. Owners!MayWrite(e, f)
    BY <1>1, <1>2, LifeIs DEF Owners!MayWrite, Owners!IsTrue
  <2>4. f \in Owners!Fact /\ Owners!Persist(f)
    BY <1>2, <2>1, SameLedger
  <2>5. Life(e) = "owned"
    BY <1>1, LifeIs
  <2> QED BY <1>2, <2>1, <2>2, <2>3, <2>4, <2>5, FactsAreRows DEF Owners!Write, Lifes
<1>4. CASE ReinstateFails
  <2>1. Raise(f) /\ UNCHANGED <<astate, owner, crossed>>
    BY <1>4 DEF ReinstateFails, ownerVars
  <2> HIDE DEF f
  <2> QED BY <1>1, <1>2, <2>1, OwnerWrites
<1> QED BY <1>3, <1>4

\* The closure of a reservation that gets no permit.
LEMMA OwnerClosesPrepermit ==
  ASSUME IInv, IInv', NEW e \in Effects, e = call.e,
         ClosePrepermit \/ ClosePrepermitFails
  PROVE  Owners!LetGo(e) \/ Owners!Write(e)
<1> DEFINE f == Row(e, "no_effect", pinned[e])
<1>1. e \in owner /\ e \notin crossed
  BY CallOwner DEF ClosePrepermit, ClosePrepermitFails, IInv, MemoryInv, CallInProgress
<1>2. f \in Fact /\ f.effect = e /\ f.state = "no_effect"
  BY <1>1, RowIsFact DEF FactStates, Row, IInv, TypeOK
<1>3. CASE ClosePrepermit
  <2>1. Persist(f) /\ Terminalize(e, f.state) /\ UNCHANGED crossed
    BY <1>2, <1>3 DEF ClosePrepermit
  <2> HIDE DEF f
  <2> QED BY <1>1, <1>2, <2>1, OwnerLetsGo DEF Terminal
<1>4. CASE ClosePrepermitFails
  <2>1. Raise(f) /\ UNCHANGED <<astate, owner, crossed>>
    BY <1>4 DEF ClosePrepermitFails, ownerVars
  <2> HIDE DEF f
  <2> QED BY <1>1, <1>2, <2>1, OwnerWrites
<1> QED BY <1>3, <1>4

\* What an observer of the owners sees.
Observed == <<seen, kept, Lifes, crossed>>

\* No permit will be minted: an unfenced attempt ends.
LEMMA OwnerGetsNoPermit ==
  ASSUME IInv, IInv', NEW e \in Effects, e = call.e, KillBlocksPermit \/ SpendDenied
  PROVE  Owners!Abandon(e) \/ UNCHANGED Observed
<1>1. /\ call.at \in {"spend", "mint"} /\ UNCHANGED <<owner, seen, kept, crossed>>
      /\ \/ IsFenced(e) /\ UNCHANGED astate
         \/ ~IsFenced(e) /\ astate' = [astate EXCEPT ![e] = "no_effect"]
  BY DEF KillBlocksPermit, SpendDenied, WithholdPermit, IsFenced, ledgerVars
<1>2. CASE UNCHANGED astate
  BY <1>1, <1>2 DEF Observed, Lifes, Life
<1>3. CASE ~IsFenced(e) /\ astate' = [astate EXCEPT ![e] = "no_effect"]
  <2>1. /\ astate[e] = "preparing" /\ e \notin owner /\ e \notin crossed
        /\ owner' = owner \ {e}
    BY <1>1, <1>3
       DEF IInv, MemoryInv, CallInProgress, OpenState, OwnedIffOpen, Lineage, Crossings
  <2> QED BY <1>1, <1>3, <2>1, OwnerAbandons
<1> QED BY <1>1, <1>2, <1>3

\* A preparation that failed.
LEMMA OwnerCleans ==
  ASSUME IInv, IInv', NEW e \in Effects, CleanNoEffect(e)
  PROVE  Owners!Abandon(e)
<1>1. /\ astate[e] = "preparing" /\ e \notin owner /\ e \notin crossed
      /\ astate' = [astate EXCEPT ![e] = "no_effect"]
      /\ owner' = owner \ {e} /\ UNCHANGED <<seen, kept, crossed>>
  BY DEF CleanNoEffect, ownerVars, ledgerVars, IInv, MemoryInv, OwnedIffOpen, Crossings
<1> QED BY <1>1, OwnerAbandons

\* The process or the machine is gone.
LEMMA OwnersDie ==
  ASSUME IInv, IInv', ProcessDies \/ PowerLoss
  PROVE  Owners!AllOver /\ (UNCHANGED <<seen, kept>> \/ Owners!PowerFails)
<1>1. ForgetMemory /\ (UNCHANGED <<seen, kept>> \/ PowerFails)
  BY DEF ProcessDies, PowerLoss, ledgerVars
<1>2. PowerFails => Owners!PowerFails
  BY DEF PowerFails, Survivors, Owners!PowerFails, Owners!Survivors, Owners!MayOpen,
         Owners!MayFollow, Owners!NoFact, Owners!Fact, Owners!FactStates, MayOpen,
         MayFollow, NoFact, Fact, FactStates, Owners!Terminal, Terminal
<1>3. ASSUME NEW e \in Effects
      PROVE  Life(e)' = IF Life(e) = "unborn" THEN "unborn" ELSE "over"
  <2>1. astate'[e] = IF astate[e] = "unborn" THEN "unborn" ELSE "lost"
    BY <1>1 DEF ForgetMemory
  <2>2. e \notin owner'
    BY <1>1 DEF ForgetMemory
  <2> QED BY <2>1, <2>2, LifeIs, LifeWillBe
<1>4. UNCHANGED crossed
  BY <1>1 DEF ForgetMemory
<1> QED BY <1>1, <1>2, <1>3, <1>4 DEF Owners!AllOver

\* Every step of the gateway is one of the owners' steps, or none.
LEMMA OwnersStep ==
  ASSUME IInv, IInv', ReservedIsLatched, Next
  PROVE  Owners!OwnersNext \/ UNCHANGED Observed
<1>1. ASSUME NEW e \in Effects, Owners!Step(e) PROVE Owners!OwnersNext
  BY <1>1 DEF Owners!OwnersNext
<1>2. ASSUME NEW e \in Effects, Prune(e) \/ ConsumeExpired(e) \/ ResolveNoEffect(e)
      PROVE  Owners!OwnersNext
  <2>1. PICK why \in Reasons : CloseUnconsumed(e, why) /\ UNCHANGED crossed
    BY <1>2, ReasonAssumption DEF Prune, ConsumeExpired, ResolveNoEffect
  <2>2. Owners!LetGo(e) \/ Owners!Abandon(e)
    BY <2>1, OwnerCloses
  <2> QED BY <1>1, <2>2 DEF Owners!Step
<1>3. ASSUME NEW e \in Effects,
             PruneFails(e) \/ ConsumeExpiredFails(e) \/ ResolveNoEffectFails(e)
      PROVE  Owners!OwnersNext
  <2>1. PICK why \in Reasons : CloseUnconsumedFails(e, why) /\ UNCHANGED crossed
    BY <1>3, ReasonAssumption DEF PruneFails, ConsumeExpiredFails, ResolveNoEffectFails
  <2> QED BY <1>1, <2>1, OwnerClosesNot DEF Owners!Step
<1>4. ASSUME NEW e \in Effects, NEW st \in {"confirmed", "unknown"},
             RecordOutcome(e, st) \/ RecordOutcomeFails(e, st)
      PROVE  Owners!OwnersNext
  BY <1>1, <1>4, OwnerRecords DEF Owners!Step
<1>5. ASSUME NEW e \in Effects,
             \/ Issue(e) \/ Retry(e) \/ CleanNoEffect(e) \/ Consume(e)
             \/ Reserve(e) \/ ReserveFails(e)
      PROVE  Owners!OwnersNext
  BY <1>1, <1>5, OwnerBegins, OwnerCleans, OwnerCrosses, OwnerReserves DEF Owners!Step
<1>6. CASE Reinstate \/ ReinstateFails
  <2>1. PICK e \in Effects : e = call.e
    BY <1>6, CallOwner DEF Reinstate, ReinstateFails
  <2> QED BY <1>1, <1>6, <2>1, OwnerReinstates DEF Owners!Step
<1>7. CASE ClosePrepermit \/ ClosePrepermitFails
  <2>1. PICK e \in Effects : e = call.e
    BY <1>7, CallOwner DEF ClosePrepermit, ClosePrepermitFails
  <2> QED BY <1>1, <1>7, <2>1, OwnerClosesPrepermit DEF Owners!Step
<1>8. CASE KillBlocksPermit \/ SpendDenied
  <2>1. PICK e \in Effects : e = call.e
    BY <1>8 DEF KillBlocksPermit, SpendDenied, IInv, TypeOK
  <2> QED BY <1>1, <1>8, <2>1, OwnerGetsNoPermit DEF Owners!Step
<1>9. CASE ProcessDies \/ PowerLoss
  BY <1>9, OwnersDie DEF Owners!OwnersNext
<1>10. CASE UNCHANGED <<astate, owner, seen, kept, crossed>>
  BY <1>10 DEF Observed, Lifes, Life
<1> QED BY <1>2, <1>3, <1>4, <1>5, <1>6, <1>7, <1>8, <1>9, <1>10, Zenon
    DEF Next, EnvironmentStep, SessionStep, AuthorizeStep, CallStep, KillTrip,
        KillReset, HotFileChanges, KillObserved, DeliverTrip, RegisterPolicy,
        GrantLapses, PermitLapses, RetryDenied, SettleDead, BeginAuthorize,
        ClaimDenied, IdentityDenied, SkipReservation, Spend, Mint, ownerVars,
        ledgerVars

\* Recovery and reconciliation may take the gateway for the owner of its
\* effects: only an attempt it owns, or an unfenced one that has started,
\* writes rows, its rows are true, and it lets go with a terminal row that
\* survives (_live_effect_attempts, append_durable's callers).
THEOREM GatewayImplementsOwners == Spec => ImplementsOwners
<1>1. Init => IInv /\ ReservedIsLatched /\ Owners!OwnersInit
  <2>1. ASSUME Init PROVE ReservedIsLatched
    BY <2>1 DEF Init, ReservedIsLatched
  <2>2. ASSUME Init PROVE Owners!OwnersInit
    <3>1. ASSUME NEW e \in Effects PROVE Life(e) = "unborn"
      BY <2>2, InitInv, LifeIs DEF Init
    <3> QED BY <2>2, <3>1
            DEF Owners!OwnersInit, Owners!LedgerInit, Owners!NoFact, Init, LedgerInit,
                NoFact
  <2> QED BY <2>1, <2>2, InitInv
<1>2. IInv /\ IInv' /\ ReservedIsLatched /\ [Next]_vars
        => ReservedIsLatched' /\ [Owners!OwnersNext]_Observed
  <2>1. ASSUME IInv, IInv', ReservedIsLatched, Next
        PROVE  ReservedIsLatched' /\ [Owners!OwnersNext]_Observed
    BY <2>1, LatchedStep, OwnersStep
  <2>2. ASSUME ReservedIsLatched, UNCHANGED vars
        PROVE  ReservedIsLatched' /\ UNCHANGED Observed
    BY <2>2 DEF vars, ledgerVars, ownerVars, ReservedIsLatched, Observed, Lifes, Life
  <2> QED BY <2>1, <2>2
<1>3. [Owners!OwnersNext]_Observed <=> [Owners!OwnersNext]_(Owners!ownerVars)
  BY DEF Observed, Lifes, Owners!ownerVars
<1> QED BY <1>1, <1>2, <1>3, Invariance, PTL
           DEF Spec, ImplementsOwners, Owners!OwnersSpec

================================================================================
