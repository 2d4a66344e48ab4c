----------------------------- MODULE CommitGateway -----------------------------
(***************************************************************************)
(* The commit authority of the write path (safety/commit_gateway.py) with  *)
(* the objects it drives: approval grants and effect attempts              *)
(* (execution_models.py), the session that owns them                       *)
(* (m5_execution_runtime.py), the kill switch as the gateway sees it       *)
(* (kill_switch.py) and the durable ledger (DurableFacts).                 *)
(*                                                                         *)
(* An attempt owns its effect id for life, so one set, Effects, names      *)
(* both.  A gateway call holds the protocol lock from start to end;        *)
(* between its steps only time, the hot file, sessions that do not need    *)
(* the lock and crashes can act, so a call is a sequence of steps of the   *)
(* one record "call".  Time is two sets of lapsed deadlines, one per clock *)
(* domain.  The authorization epoch is bumped by the kill listener alone.  *)
(*                                                                         *)
(* Left out: intents and targets that do not match their grant (refused    *)
(* with no state change), and a torn ledger row, after which every append  *)
(* raises (any append may raise here, for ever).                           *)
(***************************************************************************)
EXTENDS DurableFacts, Integers, FiniteSets

CONSTANTS Grants,        \* human approvals
          GrantOf,       \* the grant each attempt is made under
          Fenced,        \* grants whose policy is DurabilityPolicy.REQUIRED
          MaxAttempts,   \* max_precommit_attempts
          Retried,       \* names for the attempts of retry_clean_precommit
          MaxTrips,      \* bound: kill generations and approvals
          MaxPolicies,   \* bound: policy re-registrations and approvals
          MaxBorn,       \* bound: attempts
          NoEffectId     \* "no attempt"

ASSUME GrantAssumption ==
  /\ GrantOf \in [Effects -> Grants]
  /\ Fenced \subseteq Grants
  /\ NoEffectId \notin Effects /\ Retried \subseteq Effects

ASSUME BoundAssumption ==
  {MaxAttempts, MaxTrips, MaxPolicies, MaxBorn} \subseteq Nat

\* The details that tell the gateway's NO_EFFECT rows apart.
ASSUME ReasonAssumption ==
  {"plain", "resolved", "permit_expired", "kill_switch", "expired",
   "revoked", "spent", "epoch_mismatch"} \subseteq Reasons

VARIABLES
  gstate, gepoch, gpolicy,   \* ApprovalGrant: state and bindings
  claim, tries,              \* ApprovalGrant: claimed_by, precommit_attempts
  glapsed,                   \* grants whose expires_at has passed
  astate, latched,           \* EffectAttempt: state, reservation_started
  owner,                     \* _live_effect_attempts
  pinned,                    \* _LiveEffectOwner.closure_reason
  permit, pepoch, ppolicy,   \* EffectPermit: life cycle and bindings
  plapsed,                   \* permits whose expires_at has passed
  returned,                  \* effect invocations that are over: the scoped
                             \* authority will not try its permit again
  hot, flag, lastActive,     \* KillSwitch: hot file, _flag, _last_active
  generation, epoch,         \* _trip_generation; AuthorizationEpoch
  policy,                    \* version of the registered effect policy
  call,                      \* the gateway call that holds the protocol lock
  crossed                    \* history: attempts whose permit was consumed

grantVars  == <<gstate, gepoch, gpolicy, claim, tries, glapsed>>
permitVars == <<permit, pepoch, ppolicy, plapsed, returned>>
ownerVars  == <<owner, pinned>>
killVars   == <<hot, flag, lastActive, generation>>
ledgerVars == <<seen, kept>>
envVars    == <<killVars, epoch, policy>>

vars == <<grantVars, astate, latched, ownerVars, permitVars, envVars,
          ledgerVars, call, crossed>>

GrantStates == {"none", "active", "spent", "expired", "revoked", "lost"}
AttemptStates == {"unborn", "preparing", "reserved", "no_effect",
                  "confirmed", "unknown", "lost"}
PermitStates == {"none", "issued", "consumed", "gone"}
Stages == {"idle", "prune", "reinstate", "spend", "mint", "close"}

Idle == [at |-> "idle", e |-> NoEffectId, todo |-> {}, fence |-> FALSE]

TypeOK ==
  /\ LedgerTypeOK
  /\ gstate \in [Grants -> GrantStates]
  /\ gepoch \in [Grants -> Nat]
  /\ gpolicy \in [Grants -> Nat]
  /\ claim \in [Grants -> Effects \cup {NoEffectId}]
  /\ tries \in [Grants -> Nat]
  /\ glapsed \subseteq Grants
  /\ astate \in [Effects -> AttemptStates]
  /\ latched \subseteq Effects
  /\ owner \subseteq Effects
  /\ pinned \in [Effects -> Reasons]
  /\ permit \in [Effects -> PermitStates]
  /\ pepoch \in [Effects -> Nat]
  /\ ppolicy \in [Effects -> Nat]
  /\ plapsed \subseteq Effects
  /\ returned \subseteq Effects
  /\ hot \in BOOLEAN /\ flag \in BOOLEAN /\ lastActive \in BOOLEAN
  /\ generation \in Nat /\ epoch \in Nat /\ policy \in Nat
  /\ call \in [at : Stages, e : Effects \cup {NoEffectId},
               todo : SUBSET Effects, fence : BOOLEAN]
  /\ call.at # "idle" => call.e \in Effects
  /\ crossed \subseteq Effects

Init ==
  /\ LedgerInit
  /\ gstate = [g \in Grants |-> "none"]
  /\ gepoch = [g \in Grants |-> 0]
  /\ gpolicy = [g \in Grants |-> 0]
  /\ claim = [g \in Grants |-> NoEffectId]
  /\ tries = [g \in Grants |-> 0]
  /\ glapsed = {}
  /\ astate = [e \in Effects |-> "unborn"]
  /\ latched = {} /\ owner = {}
  /\ pinned = [e \in Effects |-> "plain"]
  /\ permit = [e \in Effects |-> "none"]
  /\ pepoch = [e \in Effects |-> 0]
  /\ ppolicy = [e \in Effects |-> 0]
  /\ plapsed = {} /\ returned = {}
  /\ hot \in BOOLEAN /\ flag = FALSE /\ lastActive = FALSE
  /\ generation = 0 /\ epoch = 0 /\ policy = 0
  /\ call = Idle
  /\ crossed = {}

--------------------------------------------------------------------------------
(* The bounds.  An approval takes the place of a kill generation and of a  *)
(* policy version, so a behaviour with fewer approvals has more of those.  *)

Given == Cardinality({g \in Grants : gstate[g] # "none"})

RoomForTrip == generation + Given < MaxTrips
RoomForPolicy == policy + Given < MaxPolicies
RoomForAttempt == Cardinality({e \in Effects : astate[e] # "unborn"}) < MaxBorn

--------------------------------------------------------------------------------
(* The kill switch.                                                        *)

Active == flag \/ hot

\* _sync_trip_generation_unlocked, on the flag and hot file of the next state.
Sync ==
  /\ lastActive' = (flag' \/ hot')
  /\ generation' = IF lastActive' /\ ~lastActive THEN generation + 1
                                                 ELSE generation

\* Some code observes the switch: tripped(), a fence, execution_blocked_now().
Observe == UNCHANGED <<hot, flag>> /\ Sync

\* Fault: the epoch bump that is owed does not block.
BlockedWhileActive == Active

\* Active, or a critical listener (the epoch bump) is still owed.
Blocked == Active \/ epoch < generation

KillTrip ==
  /\ ~call.fence /\ RoomForTrip
  /\ flag' = TRUE /\ hot' \in {hot, TRUE}    \* touching the file may fail
  /\ Sync
  /\ UNCHANGED <<grantVars, astate, latched, ownerVars, permitVars, epoch,
                 policy, ledgerVars, call, crossed>>

KillReset ==
  /\ ~call.fence
  /\ flag' = FALSE /\ hot' \in {hot, FALSE}  \* removing the file may fail
  /\ Sync
  /\ UNCHANGED <<grantVars, astate, latched, ownerVars, permitVars, epoch,
                 policy, ledgerVars, call, crossed>>

\* Someone outside the process creates or removes the hot file.
HotFileChanges ==
  /\ hot \/ RoomForTrip
  /\ hot' = ~hot
  /\ UNCHANGED <<grantVars, astate, latched, ownerVars, permitVars, flag,
                 lastActive, generation, epoch, policy, ledgerVars, call,
                 crossed>>

\* tripped(): every guard and every gateway call's preflight observes.
KillObserved ==
  /\ ~call.fence /\ lastActive # Active
  /\ Observe
  /\ UNCHANGED <<grantVars, astate, latched, ownerVars, permitVars, epoch,
                 policy, ledgerVars, call, crossed>>

\* A drain delivers one owed generation to the epoch.  A drain selects its
\* listener under the state lock, so not while an execution fence is held.
DeliverTrip ==
  /\ ~call.fence /\ epoch < generation
  /\ epoch' = epoch + 1
  /\ UNCHANGED <<grantVars, astate, latched, ownerVars, permitVars, killVars,
                 policy, ledgerVars, call, crossed>>

\* authorize_commit holds the policy fence from its validation to its end.
PolicyFenced == call.fence /\ call.at # "prune"

\* EffectPolicyRegistry.register replaces the policy of the action type.
RegisterPolicy ==
  /\ ~PolicyFenced /\ RoomForPolicy
  /\ policy' = policy + 1
  /\ UNCHANGED <<grantVars, astate, latched, ownerVars, permitVars, killVars,
                 epoch, ledgerVars, call, crossed>>

--------------------------------------------------------------------------------
(* Grants and attempts, as a session drives them.                          *)

\* What validate_live says of a grant whose stored state is st.
Authority(st, g) ==
  IF st # "active" THEN st
  ELSE IF g \in glapsed THEN "expired"
  ELSE IF gepoch[g] # epoch THEN "epoch_mismatch" ELSE "live"

\* ... and the state it leaves the grant in.
Refreshed(g) ==
  IF Authority(gstate[g], g) = "epoch_mismatch" THEN "revoked"
  ELSE IF Authority(gstate[g], g) = "expired" THEN "expired" ELSE gstate[g]

Live(g) == Authority(gstate[g], g) = "live" /\ gpolicy[g] = policy

\* claim_fence and the lifecycle methods exclude each other on the grant lock.
GrantLocked(g) ==
  call.at \in {"reinstate", "spend", "mint", "close"} /\ GrantOf[call.e] = g

\* Fault: an approval that a dead process left behind is taken up once more.
IssueAgain(e) ==
  LET g == GrantOf[e] IN
  /\ RoomForTrip /\ RoomForPolicy /\ RoomForAttempt
  /\ gstate[g] \in {"none", "lost"} /\ astate[e] = "unborn" /\ ~PolicyFenced
  /\ gstate' = [gstate EXCEPT ![g] = "active"]
  /\ gepoch' = [gepoch EXCEPT ![g] = epoch]
  /\ gpolicy' = [gpolicy EXCEPT ![g] = policy]
  /\ claim' = [claim EXCEPT ![g] = e]
  /\ astate' = [astate EXCEPT ![e] = "preparing"]
  /\ UNCHANGED <<tries, glapsed, latched, ownerVars, permitVars, envVars,
                 ledgerVars, call, crossed>>

\* A human approves: the runtime mints the grant and claims it for the first
\* attempt of a new session.
Issue(e) ==
  LET g == GrantOf[e] IN
  /\ e \notin Retried /\ RoomForTrip /\ RoomForPolicy /\ RoomForAttempt
  /\ gstate[g] = "none" /\ astate[e] = "unborn" /\ ~PolicyFenced
  /\ gstate' = [gstate EXCEPT ![g] = "active"]
  /\ gepoch' = [gepoch EXCEPT ![g] = epoch]
  /\ gpolicy' = [gpolicy EXCEPT ![g] = policy]
  /\ claim' = [claim EXCEPT ![g] = e]
  /\ astate' = [astate EXCEPT ![e] = "preparing"]
  /\ UNCHANGED <<tries, glapsed, latched, ownerVars, permitVars, envVars,
                 ledgerVars, call, crossed>>

\* A preparation failed before any commit authority: the claim is released.
CleanNoEffect(e) ==
  LET g == GrantOf[e] IN
  /\ astate[e] = "preparing" /\ e \notin latched /\ permit[e] = "none"
  /\ gstate[g] = "active" /\ claim[g] = e /\ ~GrantLocked(g)
  /\ astate' = [astate EXCEPT ![e] = "no_effect"]
  /\ claim' = [claim EXCEPT ![g] = NoEffectId]
  /\ tries' = [tries EXCEPT ![g] = @ + 1]
  /\ UNCHANGED <<gstate, gepoch, gpolicy, glapsed, latched, ownerVars,
                 permitVars, envVars, ledgerVars, call, crossed>>

\* retry_clean_precommit: the session's last attempt is clean.
MayRetry(e) ==
  /\ e \in Retried /\ astate[e] = "unborn" /\ gstate[GrantOf[e]] = "active"
  /\ ~GrantLocked(GrantOf[e]) /\ ~PolicyFenced
  /\ \A b \in Effects : GrantOf[b] = GrantOf[e] =>
       astate[b] \in {"unborn", "no_effect"} /\ permit[b] = "none"

Retry(e) ==
  LET g == GrantOf[e] IN
  /\ MayRetry(e) /\ Live(g) /\ RoomForAttempt
  /\ claim[g] = NoEffectId /\ tries[g] < MaxAttempts
  /\ claim' = [claim EXCEPT ![g] = e]
  /\ astate' = [astate EXCEPT ![e] = "preparing"]
  /\ UNCHANGED <<gstate, gepoch, gpolicy, tries, glapsed, latched, ownerVars,
                 permitVars, envVars, ledgerVars, call, crossed>>

\* The claim is refused; looking at the grant may have made it terminal.
RetryDenied(e) ==
  LET g == GrantOf[e] IN
  /\ MayRetry(e) /\ Refreshed(g) # gstate[g]
  /\ gstate' = [gstate EXCEPT ![g] = Refreshed(g)]
  /\ UNCHANGED <<gepoch, gpolicy, claim, tries, glapsed, astate, latched,
                 ownerVars, permitVars, envVars, ledgerVars, call, crossed>>

GrantLapses(g) ==
  /\ gstate[g] = "active" /\ g \notin glapsed
  /\ glapsed' = glapsed \cup {g}
  /\ UNCHANGED <<gstate, gepoch, gpolicy, claim, tries, astate, latched,
                 ownerVars, permitVars, envVars, ledgerVars, call, crossed>>

PermitLapses(e) ==
  /\ permit[e] = "issued" /\ e \notin plapsed
  /\ plapsed' = plapsed \cup {e}
  /\ UNCHANGED <<grantVars, astate, latched, ownerVars, permit, pepoch, ppolicy,
                 returned, envVars, ledgerVars, call, crossed>>

--------------------------------------------------------------------------------
(* Ledger rows and closures shared by the gateway's operations.            *)

Row(e, st, why) == [effect |-> e, state |-> st, why |-> why]

Reservation(e) == Row(e, "reserved", "plain")

MintedOwner(e) == e \in owner /\ permit[e] \in {"issued", "consumed"}

\* The in-memory half of every terminal outcome: the attempt is terminal, its
\* owner is retired and its permit, if any, evicted.
Terminalize(e, st) ==
  /\ astate' = [astate EXCEPT ![e] = st]
  /\ owner' = owner \ {e}
  /\ permit' = [permit EXCEPT ![e] = IF @ = "none" THEN "none" ELSE "gone"]

\* Fault: a consumed permit is closed as unused.
CloseAnyPermit(e, why) ==
  /\ permit[e] \in {"issued", "consumed"}
  /\ IF GrantOf[e] \in Fenced THEN Persist(Row(e, "no_effect", why))
                              ELSE UNCHANGED ledgerVars
  /\ Terminalize(e, "no_effect")

\* _close_unconsumed_permit_no_effect: a fenced permit is closed in the ledger
\* first; the grant stays spent and its claim held.
CloseUnconsumed(e, why) ==
  /\ permit[e] = "issued"
  /\ IF GrantOf[e] \in Fenced THEN Persist(Row(e, "no_effect", why))
                              ELSE UNCHANGED ledgerVars
  /\ Terminalize(e, "no_effect")

CloseUnconsumedFails(e, why) ==
  /\ permit[e] = "issued" /\ GrantOf[e] \in Fenced
  /\ Raise(Row(e, "no_effect", why))
  /\ UNCHANGED <<astate, owner, permit>>

--------------------------------------------------------------------------------
(* authorize_commit, one step per point where something can fail or where  *)
(* the world outside the gateway's locks can move.                         *)

\* Entry: the kill fence is taken and is open; the permits to prune are
\* those that have lapsed by now.
BeginAuthorize(e) ==
  /\ call = Idle /\ astate[e] \notin {"unborn", "lost"}
  /\ ~Blocked /\ Observe
  /\ call' = [at |-> "prune", e |-> e, fence |-> TRUE,
              todo |-> {p \in plapsed : permit[p] = "issued"}]
  /\ UNCHANGED <<grantVars, astate, latched, ownerVars, permitVars, epoch,
                 policy, ledgerVars, crossed>>

Prune(p) ==
  /\ call.at = "prune" /\ p \in call.todo
  /\ CloseUnconsumed(p, "permit_expired")
  /\ call' = [call EXCEPT !.todo = @ \ {p}]
  /\ UNCHANGED <<grantVars, latched, pinned, pepoch, ppolicy, plapsed,
                 returned, envVars, crossed>>

\* One closure that fails ends the whole call: expiry_close_failed.
PruneFails(p) ==
  /\ call.at = "prune" /\ p \in call.todo
  /\ CloseUnconsumedFails(p, "permit_expired")
  /\ call' = Idle
  /\ UNCHANGED <<grantVars, latched, pinned, pepoch, ppolicy, plapsed,
                 returned, envVars, crossed>>

\* claim_fence and _validate_grant_identity.
Pruned(e) == call.at = "prune" /\ call.todo = {} /\ call.e = e

ClaimHeld(e) == claim[GrantOf[e]] = e

Valid(e) == ClaimHeld(e) /\ astate[e] = "preparing" /\ Live(GrantOf[e])

ClaimDenied(e) ==
  /\ Pruned(e) /\ ~ClaimHeld(e)
  /\ call' = Idle
  /\ UNCHANGED <<grantVars, astate, latched, ownerVars, permitVars, envVars,
                 ledgerVars, crossed>>

\* Fault: a retried closure computes its reason anew.
DeadReasonAnew(st, e) == Authority(st, GrantOf[e])

\* Where _retire_dead_prepermit_owner_if_possible goes for e: to a closure
\* with a pinned reason, or nowhere.
DeadReason(st, e) ==
  IF pinned[e] # "plain" THEN pinned[e] ELSE Authority(st, GrantOf[e])

RetirePath(st, e) ==
  IF e \notin owner \/ MintedOwner(e) \/ DeadReason(st, e) = "live" THEN "idle"
  ELSE IF astate[e] = "reserved" THEN "close"
  ELSE IF astate[e] = "preparing" /\ e \in latched THEN "reinstate" ELSE "idle"

\* What retiring e does to the memory of grant and owner; st is the grant's
\* state when the retirement looks at it.
BeginRetire(st, e, fence) ==
  LET path == RetirePath(st, e)
      dies == e \in owner /\ ~MintedOwner(e) /\ DeadReason(st, e) # "live"
  IN
  /\ pinned' = IF dies THEN [pinned EXCEPT ![e] = DeadReason(st, e)] ELSE pinned
  /\ call' = IF path = "idle" THEN Idle
             ELSE [at |-> path, e |-> e, todo |-> {}, fence |-> fence]

\* A denial retires the owner if it can no longer get a permit.  The grant's
\* clock and epoch are consulted only if its stored state and the attempt's
\* passed, so it is the refreshed state that the retirement then reads.
IdentityDenied(e) ==
  LET g == GrantOf[e]
      st == IF astate[e] = "preparing" THEN Refreshed(g) ELSE gstate[g]
  IN
  /\ Pruned(e) /\ ClaimHeld(e) /\ ~Valid(e)
  /\ BeginRetire(st, e, TRUE)
  /\ gstate' = [gstate EXCEPT ![g] =
                  IF e \in owner /\ ~MintedOwner(e) /\ pinned[e] = "plain"
                  THEN Refreshed(g) ELSE st]
  /\ UNCHANGED <<gepoch, gpolicy, claim, tries, glapsed, astate, latched, owner,
                 permitVars, envVars, ledgerVars, crossed>>

\* REQUIRED: own, latch, and append the reservation.
Reserve(e) ==
  /\ Pruned(e) /\ Valid(e) /\ GrantOf[e] \in Fenced
  /\ owner' = owner \cup {e} /\ latched' = latched \cup {e}
  /\ Persist(Reservation(e))
  /\ astate' = [astate EXCEPT ![e] = "reserved"]
  /\ call' = [call EXCEPT !.at = "spend"]
  /\ UNCHANGED <<grantVars, pinned, permitVars, envVars, crossed>>

\* Faults: the owner is registered only after the append; a failed append is
\* only logged.
ReserveFailsUnowned(e) ==
  /\ Pruned(e) /\ Valid(e) /\ GrantOf[e] \in Fenced
  /\ latched' = latched \cup {e}
  /\ Raise(Reservation(e))
  /\ call' = Idle
  /\ UNCHANGED <<grantVars, astate, ownerVars, permitVars, envVars, crossed>>

ReserveFailureIgnored(e) ==
  /\ Pruned(e) /\ Valid(e) /\ GrantOf[e] \in Fenced
  /\ owner' = owner \cup {e} /\ latched' = latched \cup {e}
  /\ Raise(Reservation(e))
  /\ astate' = [astate EXCEPT ![e] = "reserved"]
  /\ call' = [call EXCEPT !.at = "spend"]
  /\ UNCHANGED <<grantVars, pinned, permitVars, envVars, crossed>>

\* reservation_failed: the attempt stays latched and may try again.
ReserveFails(e) ==
  /\ Pruned(e) /\ Valid(e) /\ GrantOf[e] \in Fenced
  /\ owner' = owner \cup {e} /\ latched' = latched \cup {e}
  /\ Raise(Reservation(e))
  /\ call' = Idle
  /\ UNCHANGED <<grantVars, astate, pinned, permitVars, envVars, crossed>>

\* Fault: no action is reserved.
NeverReserve(e) ==
  /\ Pruned(e) /\ Valid(e)
  /\ call' = [call EXCEPT !.at = "spend"]
  /\ UNCHANGED <<grantVars, astate, latched, ownerVars, permitVars, envVars,
                 ledgerVars, crossed>>

\* BEST_EFFORT has no reservation.
SkipReservation(e) ==
  /\ Pruned(e) /\ Valid(e) /\ GrantOf[e] \notin Fenced
  /\ call' = [call EXCEPT !.at = "spend"]
  /\ UNCHANGED <<grantVars, astate, latched, ownerVars, permitVars, envVars,
                 ledgerVars, crossed>>

\* No permit will be minted, for reason why: a reservation is closed in the
\* ledger next, an unfenced attempt ends at once.
WithholdPermit(e, why) ==
  IF GrantOf[e] \in Fenced
  THEN /\ pinned' = [pinned EXCEPT ![e] = IF @ = "plain" THEN why ELSE @]
       /\ call' = [call EXCEPT !.at = "close"]
       /\ UNCHANGED astate
  ELSE /\ astate' = [astate EXCEPT ![e] = "no_effect"]
       /\ call' = Idle
       /\ UNCHANGED pinned

\* The kill switch is observed before and after the grant is spent.
KillBlocksPermit ==
  LET e == call.e IN
  /\ call.at \in {"spend", "mint"}
  /\ Blocked /\ Observe
  /\ WithholdPermit(e, "kill_switch")
  /\ UNCHANGED <<grantVars, latched, owner, permitVars, epoch, policy,
                 ledgerVars, crossed>>

\* spend_if_live denies: the grant died while the reservation was written.
SpendDenied ==
  LET e == call.e  g == GrantOf[e] IN
  /\ call.at = "spend" /\ ~Blocked /\ Authority(gstate[g], g) # "live"
  /\ gstate' = [gstate EXCEPT ![g] = Refreshed(g)]
  /\ Observe /\ WithholdPermit(e, Authority(gstate[g], g))
  /\ UNCHANGED <<gepoch, gpolicy, claim, tries, glapsed, latched, owner,
                 permitVars, epoch, policy, ledgerVars, crossed>>

Spend ==
  LET e == call.e  g == GrantOf[e] IN
  /\ call.at = "spend" /\ ~Blocked /\ Authority(gstate[g], g) = "live"
  /\ gstate' = [gstate EXCEPT ![g] = "spent"]
  /\ call' = [call EXCEPT !.at = "mint"]
  /\ Observe
  /\ UNCHANGED <<gepoch, gpolicy, claim, tries, glapsed, astate, latched,
                 ownerVars, permitVars, epoch, policy, ledgerVars, crossed>>

Mint ==
  LET e == call.e IN
  /\ call.at = "mint" /\ ~Blocked /\ Observe
  /\ permit' = [permit EXCEPT ![e] = "issued"]
  /\ pepoch' = [pepoch EXCEPT ![e] = epoch]
  /\ ppolicy' = [ppolicy EXCEPT ![e] = policy]
  /\ call' = Idle
  /\ UNCHANGED <<grantVars, astate, latched, ownerVars, plapsed, returned,
                 epoch, policy, ledgerVars, crossed>>

--------------------------------------------------------------------------------
(* Retiring an attempt that can no longer get a permit.                    *)

\* Reconciliation asks the gateway to settle a dead owner.  Only the protocol
\* lock is held, no kill or policy fence.
SettleDead(e) ==
  LET g == GrantOf[e] IN
  /\ call = Idle /\ e \in owner /\ ~MintedOwner(e)
  /\ BeginRetire(gstate[g], e, FALSE)
  /\ gstate' = [gstate EXCEPT ![g] =
                  IF pinned[e] = "plain" THEN Refreshed(g) ELSE @]
  /\ UNCHANGED <<gepoch, gpolicy, claim, tries, glapsed, astate, latched, owner,
                 permitVars, envVars, ledgerVars, crossed>>

\* The reservation's append may have failed after writing the row: the exact
\* same fact is made durable first.
Reinstate ==
  LET e == call.e IN
  /\ call.at = "reinstate" /\ ClaimHeld(e)
  /\ Persist(Reservation(e))
  /\ astate' = [astate EXCEPT ![e] = "reserved"]
  /\ call' = [call EXCEPT !.at = "close"]
  /\ UNCHANGED <<grantVars, latched, ownerVars, permitVars, envVars, crossed>>

ReinstateFails ==
  /\ call.at = "reinstate"
  /\ Raise(Reservation(call.e))
  /\ call' = Idle
  /\ UNCHANGED <<grantVars, astate, latched, ownerVars, permitVars, envVars,
                 crossed>>

\* _close_reserved_before_permit
ClosePrepermit ==
  LET e == call.e IN
  /\ call.at = "close"
  /\ Persist(Row(e, "no_effect", pinned[e]))
  /\ Terminalize(e, "no_effect")
  /\ call' = Idle
  /\ UNCHANGED <<grantVars, latched, pinned, pepoch, ppolicy, plapsed,
                 returned, envVars, crossed>>

\* prepermit_close_failed: owner and reason stay for the next try.
ClosePrepermitFails ==
  /\ call.at = "close"
  /\ Raise(Row(call.e, "no_effect", pinned[call.e]))
  /\ call' = Idle
  /\ UNCHANGED <<grantVars, astate, latched, ownerVars, permitVars, envVars,
                 crossed>>

--------------------------------------------------------------------------------
(* The permit's use: each of these is one critical section.                *)

\* consume_permit returns: the external effect may happen from here on.
Consume(e) ==
  /\ call = Idle /\ permit[e] = "issued" /\ e \notin returned
  /\ ~Blocked /\ Observe
  /\ pepoch[e] = epoch /\ ppolicy[e] = policy /\ e \notin plapsed
  /\ permit' = [permit EXCEPT ![e] = "consumed"]
  /\ crossed' = crossed \cup {e}
  /\ UNCHANGED <<grantVars, astate, latched, ownerVars, pepoch, ppolicy,
                 plapsed, returned,
                 epoch, policy, ledgerVars, call>>

\* consume_permit finds the permit expired and closes it.
ConsumeExpired(e) ==
  /\ call = Idle /\ e \in plapsed \ returned /\ ~Blocked /\ Observe
  /\ CloseUnconsumed(e, "permit_expired")
  /\ UNCHANGED <<grantVars, latched, pinned, pepoch, ppolicy, plapsed,
                 returned, epoch, policy, call, crossed>>

ConsumeExpiredFails(e) ==
  /\ call = Idle /\ e \in plapsed \ returned /\ ~Blocked /\ Observe
  /\ CloseUnconsumedFails(e, "permit_expired")
  /\ UNCHANGED <<grantVars, latched, pinned, pepoch, ppolicy, plapsed,
                 returned, epoch, policy, call, crossed>>

\* The invocation is over and its permit was not consumed:
\* close_unconsumed_permit_no_effect.
ResolveNoEffect(e) ==
  /\ call = Idle
  /\ returned' = returned \cup {e}
  /\ CloseUnconsumed(e, "resolved")
  /\ UNCHANGED <<grantVars, latched, pinned, pepoch, ppolicy, plapsed, envVars,
                 call, crossed>>

ResolveNoEffectFails(e) ==
  /\ call = Idle
  /\ returned' = returned \cup {e}
  /\ CloseUnconsumedFails(e, "resolved")
  /\ UNCHANGED <<grantVars, latched, pinned, pepoch, ppolicy, plapsed, envVars,
                 call, crossed>>

\* Fault: an outcome is accepted for a permit that was not consumed.
MayRecordIssued(e) ==
  /\ call = Idle /\ permit[e] \in {"issued", "consumed"}
  /\ astate[e] = IF GrantOf[e] \in Fenced THEN "reserved" ELSE "preparing"

\* record_effect_confirmed and record_effect_unknown, fenced or not: the row
\* first, the attempt's end after it.
MayRecord(e) ==
  /\ call = Idle /\ permit[e] = "consumed"
  /\ astate[e] = IF GrantOf[e] \in Fenced THEN "reserved" ELSE "preparing"

RecordOutcome(e, st) ==
  /\ MayRecord(e)
  /\ returned' = returned \cup {e}
  /\ Persist(Row(e, st, "plain"))
  /\ Terminalize(e, st)
  /\ UNCHANGED <<grantVars, latched, pinned, pepoch, ppolicy, plapsed, envVars,
                 call, crossed>>

RecordOutcomeFails(e, st) ==
  /\ MayRecord(e)
  /\ returned' = returned \cup {e}
  /\ Raise(Row(e, st, "plain"))
  /\ UNCHANGED <<grantVars, astate, latched, ownerVars, permit, pepoch, ppolicy,
                 plapsed, envVars,
                 call, crossed>>

--------------------------------------------------------------------------------
(* Failures.  Everything but the ledger, the hot file and the outside      *)
(* world is process memory.                                                *)

ForgetMemory ==
  /\ gstate' = [g \in Grants |-> IF gstate[g] = "none" THEN "none" ELSE "lost"]
  /\ astate' = [e \in Effects |->
                  IF astate[e] = "unborn" THEN "unborn" ELSE "lost"]
  /\ gepoch' = [g \in Grants |-> 0] /\ gpolicy' = [g \in Grants |-> 0]
  /\ claim' = [g \in Grants |-> NoEffectId] /\ tries' = [g \in Grants |-> 0]
  /\ glapsed' = {} /\ latched' = {} /\ owner' = {}
  /\ pinned' = [e \in Effects |-> "plain"]
  /\ permit' = [e \in Effects |-> IF permit[e] = "none" THEN "none" ELSE "gone"]
  /\ pepoch' = [e \in Effects |-> 0] /\ ppolicy' = [e \in Effects |-> 0]
  /\ plapsed' = {} /\ returned' = {}
  /\ flag' = FALSE /\ lastActive' = FALSE /\ generation' = 0 /\ epoch' = 0
  /\ policy' = 0
  /\ call' = Idle
  /\ UNCHANGED <<hot, crossed>>

ProcessDies == ForgetMemory /\ UNCHANGED ledgerVars

PowerLoss == ForgetMemory /\ PowerFails

--------------------------------------------------------------------------------
EnvironmentStep ==
  \/ KillTrip \/ KillReset \/ HotFileChanges \/ KillObserved \/ DeliverTrip
  \/ RegisterPolicy \/ ProcessDies \/ PowerLoss
  \/ \E g \in Grants : GrantLapses(g)
  \/ \E e \in Effects : PermitLapses(e)

SessionStep(e) ==
  \/ Issue(e) \/ CleanNoEffect(e) \/ Retry(e) \/ RetryDenied(e)
  \/ Consume(e) \/ ConsumeExpired(e) \/ ConsumeExpiredFails(e)
  \/ ResolveNoEffect(e) \/ ResolveNoEffectFails(e)
  \/ \E st \in {"confirmed", "unknown"} :
       RecordOutcome(e, st) \/ RecordOutcomeFails(e, st)
  \/ SettleDead(e)

AuthorizeStep(e) ==
  \/ BeginAuthorize(e) \/ Prune(e) \/ PruneFails(e)
  \/ ClaimDenied(e) \/ IdentityDenied(e)
  \/ Reserve(e) \/ ReserveFails(e) \/ SkipReservation(e)

CallStep ==
  \/ KillBlocksPermit \/ SpendDenied \/ Spend \/ Mint
  \/ Reinstate \/ ReinstateFails \/ ClosePrepermit \/ ClosePrepermitFails

Next ==
  \/ EnvironmentStep
  \/ \E e \in Effects : SessionStep(e) \/ AuthorizeStep(e)
  \/ CallStep

Spec == Init /\ [][Next]_vars

--------------------------------------------------------------------------------
(* Safety.                                                                 *)

IsFenced(e) == GrantOf[e] \in Fenced

FencedEffects == {e \in Effects : IsFenced(e)}

\* An external effect of a fenced action is only ever allowed to start when
\* its reservation is certain to survive, and no crash, power failure or
\* failed append afterwards leaves a restart without an unresolved or a true
\* outcome row for it (authorize_commit, consume_permit, record_effect_*).
CrossingIsOnRecord ==
  \A e \in crossed : IsFenced(e) =>
    kept[e].state \in {"reserved", "confirmed", "unknown"}

\* Outcome rows and terminal attempts tell the truth: NO_EFFECT, whichever
\* closure wrote it and whether or not the write was reported as failed, only
\* of an attempt whose permit never was and never will be consumed, and
\* CONFIRMED or UNKNOWN only of one whose permit was.
OutcomesAreTrue ==
  \A e \in Effects :
    /\ "no_effect" \in {seen[e].state, astate[e]} => e \notin crossed
    /\ {seen[e].state, astate[e]} \cap {"confirmed", "unknown"} # {}
         => e \in crossed

\* One human approval lets at most one external effect start, across retries
\* of attempts, failed appends, closures and crashes.
OneCrossingPerApproval ==
  \A e, f \in crossed : GrantOf[e] = GrantOf[f] => e = f

\* The last row of e is a reservation, or may not survive a power failure.
Unsettled(e) == seen[e].state = "reserved" \/ kept[e] # seen[e]

\* At most one attempt of an approval is unsettled in the ledger at a time: a
\* retry never leaves the ambiguous reservation of an attempt behind, and no
\* power failure brings a second one back.
OneOpenReservation ==
  \A e, f \in Effects :
    e # f /\ GrantOf[e] = GrantOf[f] => ~(Unsettled(e) /\ Unsettled(f))

\* Reconciliation may decide an effect when the gateway does not own it: so an
\* unowned effect has no attempt that could still reserve, cross or close it,
\* and an owned one still does.
OwnedIffOpen ==
  \A e \in Effects :
    e \in owner <=> e \in latched /\ astate[e] \in {"preparing", "reserved"}

\* No approval given before an observed kill trip starts an effect after it,
\* not even once the switch is reset: reset never outruns the epoch bump.
TripRevokesApprovals ==
  [][\A e \in crossed' \ crossed :
       gepoch[GrantOf[e]] = generation /\ ~Active]_vars

\* The expiry of an issued permit can close it: whatever happened to the
\* permit before, the ledger accepts the NO_EFFECT row that pruning writes.
ExpiryCanClose ==
  \A e \in plapsed : permit[e] = "issued" /\ IsFenced(e) =>
    Acceptable(Row(e, "no_effect", "permit_expired"))

--------------------------------------------------------------------------------
(* The inductive invariant behind the safety properties.                   *)

\* The state of an attempt that holds a permit or is about to get one.
OpenState(e) == IF IsFenced(e) THEN "reserved" ELSE "preparing"

\* An attempt that is born has an approval; one that has started its
\* reservation is fenced; an owner holds the claim of a known approval.
Lineage ==
  /\ \A g \in Grants : gstate[g] = "none" => claim[g] = NoEffectId
  /\ \A e \in Effects :
       /\ astate[e] # "unborn" => gstate[GrantOf[e]] # "none"
       /\ e \in latched => IsFenced(e) /\ astate[e] # "unborn"
       /\ e \in owner => ClaimHeld(e) /\ gstate[GrantOf[e]] # "lost"

\* Whoever holds a permit holds the claim of a spent grant.
PermitHolders ==
  \A e \in Effects :
    /\ permit[e] \in {"issued", "consumed"} =>
         /\ gstate[GrantOf[e]] = "spent" /\ ClaimHeld(e)
         /\ astate[e] = OpenState(e)
    /\ permit[e] = "gone" => astate[e] \in Terminal \cup {"lost"}

\* A crossing goes with a consumed permit, and its grant stays spent under the
\* same claim until the process is gone.
Crossings ==
  \A e \in Effects :
    /\ e \in crossed => /\ permit[e] \in {"consumed", "gone"}
                        /\ \/ gstate[GrantOf[e]] = "lost"
                           \/ gstate[GrantOf[e]] = "spent" /\ ClaimHeld(e)
    /\ permit[e] = "consumed" => e \in crossed

\* A call past its validation works for an attempt that has no permit yet, and
\* one that may still mint keeps the kill fence.
CallInProgress ==
  LET e == call.e IN
  /\ call.at # "idle" => astate[e] # "unborn"
  /\ call.at \notin {"idle", "prune"} => permit[e] = "none"
  /\ call.at \in {"prune", "spend", "mint"} => call.fence
  /\ call.at = "prune" => call.todo \subseteq plapsed
  /\ call.at \in {"spend", "mint"} =>
       /\ ClaimHeld(e) /\ astate[e] = OpenState(e)
       /\ gstate[GrantOf[e]] = IF call.at = "mint" THEN "spent" ELSE "active"
       /\ seen[e] = IF IsFenced(e) THEN Reservation(e) ELSE NoFact
       /\ IsFenced(e) => e \in owner
  /\ call.at = "mint" => gepoch[GrantOf[e]] = epoch
  /\ call.at \in {"reinstate", "close"} => e \in owner
  /\ call.at = "close" => astate[e] = "reserved"

\* What the ledger holds for an attempt, by the attempt's state.
LedgerByAttempt ==
  \A e \in Effects :
    /\ astate[e] = "unborn" => seen[e] = NoFact
    /\ astate[e] = "preparing" /\ e \notin latched /\ permit[e] # "consumed"
         => seen[e] = NoFact
    /\ astate[e] = "preparing" /\ IsFenced(e) =>
         seen[e] \in {NoFact, Reservation(e)}
    /\ astate[e] = "reserved" => kept[e] # NoFact

\* An unsettled attempt keeps the claim of its approval.
UnsettledIsClaimed ==
  \A e \in Effects : Unsettled(e) => gstate[GrantOf[e]] = "lost" \/ ClaimHeld(e)

\* A NO_EFFECT row of an open permit can only come from a closure that also
\* ended the permit's use.
NoEffectEndsUse ==
  \A e \in Effects :
    seen[e].state = "no_effect" /\ permit[e] = "issued" =>
      e \in returned \cup plapsed

\* The surviving fact is the visible one, or the one before it; a fenced
\* outcome is only written over a reservation that survives.
KeptBeforeSeen ==
  \A e \in Effects :
    \/ kept[e] = seen[e]
    \/ kept[e] = NoFact /\ (IsFenced(e) => seen[e].state = "reserved")
    \/ kept[e].state = "reserved" /\ seen[e].state \in Terminal

\* The epoch never runs ahead of the trips, and a permit carries its grant's.
Epochs ==
  /\ epoch <= generation
  /\ \A e \in Effects : permit[e] = "issued" => pepoch[e] = gepoch[GrantOf[e]]

\* Who may do what, in memory ...
MemoryInv ==
  /\ Lineage /\ PermitHolders /\ Crossings /\ CallInProgress /\ Epochs
  /\ OwnedIffOpen /\ OneCrossingPerApproval

\* ... and what the ledger says of it.
RecordInv ==
  /\ LedgerByAttempt /\ UnsettledIsClaimed /\ NoEffectEndsUse /\ KeptBeforeSeen
  /\ OutcomesAreTrue /\ CrossingIsOnRecord /\ OneOpenReservation

IInv == TypeOK /\ MemoryInv /\ RecordInv

--------------------------------------------------------------------------------
(* Liveness: an operator who keeps asking to reconcile gets the protocol    *)
(* lock now and then, calls that hold it go on, and the ledger does not     *)
(* fail for ever.                                                           *)

CallGoesOn ==
  call # Idle /\ (CallStep \/ \E e \in Effects : AuthorizeStep(e))

Fairness ==
  /\ WF_vars(CallGoesOn)
  /\ \A e \in FencedEffects : SF_vars(SettleDead(e))
  /\ SF_vars(Reinstate \/ ClosePrepermit)

FairSpec == Spec /\ Fairness

\* An owner that can get no permit any more, because its approval is dead or
\* its closure has begun, does not block reconciliation for ever, however
\* often the closure failed before and whatever the approval died of since.
DeadOwnerSettles ==
  \A e \in FencedEffects :
    ( /\ e \in owner /\ ~MintedOwner(e)
      /\ pinned[e] # "plain" \/ gstate[GrantOf[e]] \in {"expired", "revoked"} )
      ~> e \notin owner

--------------------------------------------------------------------------------
(* What the gateway promises about each fenced attempt: see OneShot.        *)

Phase(e) ==
  IF e \in crossed
  THEN IF kept[e].state = "reserved" THEN "crossed" ELSE "settled"
  ELSE CASE kept[e] = NoFact -> "idle"
         [] kept[e].state = "no_effect" -> "void"
         [] OTHER -> "reserved"

Abstract == INSTANCE OneShot
              WITH Attempts <- FencedEffects,
                   ApprovalOf <- [e \in FencedEffects |-> GrantOf[e]],
                   phase <- [e \in FencedEffects |-> Phase(e)]

ImplementsOneShot == Abstract!Spec

--------------------------------------------------------------------------------
(* What recovery and reconciliation may rely on: see EffectOwners.          *)

Life(e) ==
  CASE astate[e] = "unborn" -> "unborn"
    [] e \in owner -> "owned"
    [] e \notin owner /\ astate[e] \in {"preparing", "reserved"} -> "private"
    [] astate[e] \in Terminal \cup {"lost"} -> "over"

Owners == INSTANCE EffectOwners
            WITH Required <- FencedEffects,
                 life <- [e \in Effects |-> Life(e)]

\* The gateway is the owner that reconciliation takes it for: only an attempt
\* it owns, or an unfenced one that has started, writes rows, its rows are
\* true, and it lets go with a terminal row that survives.
ImplementsOwners == Owners!OwnersSpec
================================================================================
