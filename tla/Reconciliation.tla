----------------------------- MODULE Reconciliation ----------------------------
(***************************************************************************)
(* Recovery and reconciliation: the durable file of verdicts               *)
(* (reconciliation_ledger.py), the authority a human gives for one verdict *)
(* (reconciliation_authority.py, reconciliation_operator.py), the protocol *)
(* that makes it durable (reconciliation_coordinator.py) and the guard     *)
(* that is rebuilt from both ledgers (recovery_projector.py,               *)
(* recovery_guard.py), on top of effects that the commit gateway owns      *)
(* (EffectOwners).                                                         *)
(*                                                                         *)
(* An authority stands for its proposal and for the one fact it may make   *)
(* durable, so a row of the file is the authority whose fact it is.  One   *)
(* record, call, holds whoever has the publication fence: a resolution,    *)
(* which also holds the gateway's protocol lock so that no effect moves,   *)
(* or a refresh of the guard, under which effects do move.                 *)
(*                                                                         *)
(* Left out: lineage and evidence checks (a fact is built from the very    *)
(* record it is checked against), identifier collisions, and a failing     *)
(* authority clock, each a refusal with no state change.                   *)
(***************************************************************************)
EXTENDS EffectOwners

CONSTANTS Authorities,   \* proposals of a verdict on one effect
          EffectOf,      \* the effect each is about
          Tokens,        \* confirmation tokens, minted and used by WriteKernel
          NoOne          \* "no authority"

ASSUME AuthorityAssumption ==
  /\ EffectOf \in [Authorities -> Effects]
  /\ NoOne \notin Authorities

VARIABLES
  rows, keptRows,   \* per effect, whose fact the file holds: visible, certain
  torn,             \* the file ends in a row cut short
  latch,            \* _PathState.ambiguous_fact
  stage,            \* each authority's life
  lapsed,           \* authorities whose TTL has passed
  pinned,           \* _committed_by_effect
  call,             \* the holder of the publication fence
  guard,            \* RecoveryGuard: _available and the effects of _blocks
  valid             \* ConfirmationState: pending tokens of the current epoch

fileVars == <<rows, keptRows, torn, latch>>
recVars  == <<fileVars, stage, lapsed, pinned, call, guard, valid>>
recoveryVars == <<ownerVars, recVars>>

Someone == Authorities \cup {NoOne}

Idle == [at |-> "idle", by |-> NoOne, open |-> {}]

Down == [up |-> FALSE, blocks |-> {}]

RecoveryTypeOK ==
  /\ OwnersTypeOK
  /\ rows \in [Effects -> Someone] /\ keptRows \in [Effects -> Someone]
  /\ torn \in BOOLEAN /\ latch \in Someone
  /\ stage \in [Authorities ->
        {"none", "proposed", "confirmed", "committed", "consumed", "gone"}]
  /\ lapsed \subseteq Authorities
  /\ pinned \in [Effects -> Someone]
  /\ call \in [at : {"idle", "append", "join"}, by : Someone,
               open : SUBSET Effects]
  /\ guard \in [up : BOOLEAN, blocks : SUBSET Effects]
  /\ valid \subseteq Tokens

RecoveryInit ==
  /\ OwnersInit
  /\ rows = [e \in Effects |-> NoOne] /\ keptRows = rows
  /\ torn = FALSE /\ latch = NoOne
  /\ stage = [a \in Authorities |-> "none"] /\ lapsed = {}
  /\ pinned = [e \in Effects |-> NoOne]
  /\ call = Idle /\ guard = Down /\ valid = {}

--------------------------------------------------------------------------------
(* Reading the two ledgers.                                                *)

\* _RECONCILABLE_STATES: the last row says RESERVED or EFFECT_UNKNOWN.
Open(e) == seen[e].state \in {"reserved", "unknown"}

\* read_authoritative: refused while the latch is set or the file is torn;
\* otherwise what is visible is made durable before anyone relies on it.
ReadAuthoritative ==
  /\ latch = NoOne /\ ~torn
  /\ keptRows' = rows /\ UNCHANGED <<rows, torn, latch>>

\* A verdict on an effect that has no row, or that settled, spoils the whole
\* composite history: RecoveryProjectorCorruptError.
Composite(open) == \A e \in Effects : rows[e] # NoOne => e \in open

Unreconciled(open) == {e \in open : rows[e] = NoOne}

\* Fault: a reservation without an outcome is not open.
UnknownEffects == {e \in Effects : seen[e].state = "unknown"}

OpenEffects == {e \in Effects : Open(e)}

\* list_targets and describe_target read, and publish nothing.
Inspect ==
  /\ call = Idle /\ ReadAuthoritative
  /\ UNCHANGED <<ownerVars, stage, lapsed, pinned, call, guard, valid>>

--------------------------------------------------------------------------------
(* The guard.                                                              *)

\* refresh() has the fence and has read the effect ledger ...
BeginRefresh ==
  /\ call = Idle
  /\ call' = [Idle EXCEPT !.at = "join", !.open = OpenEffects]
  /\ UNCHANGED <<ownerVars, fileVars, stage, lapsed, pinned, guard, valid>>

\* Fault: rows that are only visible clear their effects.
PublishVisible ==
  /\ call.at = "join" /\ ~torn /\ Composite(call.open)
  /\ guard' = [up |-> TRUE, blocks |-> Unreconciled(call.open)]
  /\ call' = Idle
  /\ UNCHANGED <<ownerVars, fileVars, stage, lapsed, pinned, valid>>

\* ... joins it with the verdicts, and publishes.
Publish ==
  /\ call.at = "join"
  /\ ReadAuthoritative /\ Composite(call.open)
  /\ guard' = [up |-> TRUE, blocks |-> Unreconciled(call.open)]
  /\ call' = Idle
  /\ UNCHANGED <<ownerVars, stage, lapsed, pinned, valid>>

\* Whatever failed, a read, the latch or the join, the guard knows nothing.
PublishFails ==
  /\ call.at = "join"
  /\ guard' = Down /\ call' = Idle
  /\ UNCHANGED <<ownerVars, fileVars, stage, lapsed, pinned, valid>>

--------------------------------------------------------------------------------
(* The operator and the coordinator.                                       *)

\* Fault: the gateway gives its owner up with the permit.
OwnedUntilCrossing(e) == life[e] = "owned" /\ e \notin crossed

\* live_attempt_owns_effect
Owned(e) == life[e] = "owned"

MoveTo(a, st) == stage' = [stage EXCEPT ![a] = st]

\* prepare_resolution: the gateway, asked first to settle a dead owner (LetGo),
\* owns the effect no more, and the effect is unresolved.
Propose(a) ==
  LET e == EffectOf[a] IN
  /\ call = Idle /\ stage[a] = "none"
  /\ ~Owned(e) /\ pinned[e] = NoOne
  /\ ReadAuthoritative /\ Composite(OpenEffects)
  /\ e \in Unreconciled(OpenEffects)
  /\ MoveTo(a, "proposed")
  /\ UNCHANGED <<ownerVars, lapsed, pinned, call, guard, valid>>

\* confirm_resolution: the human types the text; an authority is minted.
Confirm(a) ==
  /\ stage[a] = "proposed" /\ MoveTo(a, "confirmed")
  /\ lapsed' = lapsed \ {a}
  /\ UNCHANGED <<ownerVars, fileVars, pinned, call, guard, valid>>

AuthorityLapses(a) ==
  /\ stage[a] = "confirmed" /\ a \notin lapsed
  /\ lapsed' = lapsed \cup {a}
  /\ UNCHANGED <<ownerVars, fileVars, stage, pinned, call, guard, valid>>

\* Fault: a committed fact does not hold its effect.
MayResolveUnpinned(a) ==
  LET e == EffectOf[a] IN
  /\ call = Idle /\ stage[a] \in {"confirmed", "committed"}
  /\ ~Owned(e) /\ Open(e)
  /\ IF stage[a] = "committed" /\ latch # NoOne
     THEN UNCHANGED fileVars
     ELSE ReadAuthoritative /\ rows[e] = NoOne

\* resolve(), up to the authority's own check.  Only the retry of a fact that
\* is committed already goes on without reading the file, and only while the
\* file's durability is ambiguous.
MayResolve(a) ==
  LET e == EffectOf[a] IN
  /\ call = Idle /\ stage[a] \in {"confirmed", "committed"}
  /\ ~Owned(e) /\ Open(e)
  /\ IF stage[a] = "committed" /\ latch # NoOne
     THEN UNCHANGED fileVars
     ELSE ReadAuthoritative /\ rows[e] = NoOne
  /\ pinned[e] = IF stage[a] = "committed" THEN a ELSE NoOne

\* Too late: the proposal stays and needs a fresh confirmation.
ResolveExpired(a) ==
  /\ MayResolve(a) /\ stage[a] = "confirmed" /\ a \in lapsed
  /\ MoveTo(a, "proposed")
  /\ UNCHANGED <<ownerVars, lapsed, pinned, call, guard, valid>>

\* Fault: the confirmation epoch is not advanced.
BeginResolveSameEpoch(a) ==
  /\ MayResolve(a) /\ (stage[a] = "confirmed" => a \notin lapsed)
  /\ MoveTo(a, "committed")
  /\ pinned' = [pinned EXCEPT ![EffectOf[a]] = a]
  /\ call' = [at |-> "append", by |-> a, open |-> {}]
  /\ UNCHANGED <<ownerVars, lapsed, guard, valid>>

\* advance_epoch revokes every confirmation, and the authority commits to the
\* fact that it will go on with until it is durable.
BeginResolve(a) ==
  /\ MayResolve(a) /\ (stage[a] = "confirmed" => a \notin lapsed)
  /\ valid' = {}
  /\ MoveTo(a, "committed")
  /\ pinned' = [pinned EXCEPT ![EffectOf[a]] = a]
  /\ call' = [at |-> "append", by |-> a, open |-> {}]
  /\ UNCHANGED <<ownerVars, lapsed, guard>>

\* append_durable returns: the authority is consumed, the pin removed, and the
\* guard refreshed under the same fences.
Appended(a) ==
  /\ MoveTo(a, "consumed")
  /\ pinned' = [pinned EXCEPT ![EffectOf[a]] = NoOne]
  /\ call' = [call EXCEPT !.at = "join", !.open = OpenEffects]
  /\ UNCHANGED <<ownerVars, lapsed, guard, valid>>

Append ==
  LET a == call.by IN
  /\ call.at = "append" /\ latch = NoOne
  /\ rows' = [rows EXCEPT ![EffectOf[a]] = a] /\ keptRows' = rows'
  /\ UNCHANGED <<torn, latch>> /\ Appended(a)

\* Fault: what is visible counts as durable.
AppendAgainUnsynced ==
  LET a == call.by IN
  /\ call.at = "append" /\ latch = a /\ ~torn /\ rows[EffectOf[a]] = a
  /\ latch' = NoOne
  /\ UNCHANGED <<rows, keptRows, torn>> /\ Appended(a)

\* The retry of the very fact that is ambiguous: it is there, whole, and only
\* has to be made durable.
AppendAgain ==
  LET a == call.by IN
  /\ call.at = "append" /\ latch = a /\ ~torn /\ rows[EffectOf[a]] = a
  /\ keptRows' = rows /\ latch' = NoOne
  /\ UNCHANGED <<rows, torn>> /\ Appended(a)

\* ReconciliationPersistenceError, or the process dies next: the fact stays
\* committed.  Unless the file is known to be untouched the latch is set; with
\* another's latch, or with its own while the row is not there or can not be
\* synced, nothing changes.
AppendFails ==
  LET a == call.by IN
  /\ call.at = "append" /\ call' = Idle
  /\ \/ UNCHANGED fileVars
     \/ /\ latch = NoOne /\ latch' = a
        /\ \/ rows' = [rows EXCEPT ![EffectOf[a]] = a] /\ UNCHANGED torn
           \/ torn' = TRUE /\ UNCHANGED rows
           \/ UNCHANGED <<rows, torn>>
        /\ UNCHANGED keptRows
  /\ UNCHANGED <<ownerVars, stage, lapsed, pinned, guard, valid>>

--------------------------------------------------------------------------------
(* Failures: all but the two files and the world is process memory.        *)

\* A consumed authority has no state to lose; keeping it is history.
ForgetAuthorities ==
  /\ stage' = [a \in Authorities |->
                IF stage[a] \in {"none", "consumed"} THEN stage[a] ELSE "gone"]
  /\ lapsed' = {} /\ pinned' = [e \in Effects |-> NoOne]
  /\ latch' = NoOne /\ call' = Idle /\ guard' = Down /\ valid' = {}

RecoveryDies ==
  /\ AllOver /\ ForgetAuthorities
  /\ UNCHANGED <<seen, kept, rows, keptRows, torn>>

\* A row that is only visible may be lost, whole or in part.
RecoveryPowerLoss ==
  /\ AllOver /\ PowerFails /\ ForgetAuthorities
  /\ rows' \in {rows, keptRows} /\ keptRows' = rows'
  /\ torn' \in {torn, FALSE, rows' # rows}

--------------------------------------------------------------------------------
\* A resolution holds the gateway's protocol lock.
GatewayHeld == call.by # NoOne

\* What the gateway and the sessions do, as Reconciliation sees it.
OwnerStep(e) ==
  /\ \/ Begin(e) \/ Abandon(e)
     \/ ~GatewayHeld /\ (Own(e) \/ Cross(e) \/ Write(e) \/ LetGo(e))
  /\ UNCHANGED recVars

OperatorStep(a) ==
  \/ Propose(a) \/ Confirm(a) \/ AuthorityLapses(a)
  \/ ResolveExpired(a) \/ BeginResolve(a)

CoordinatorStep ==
  Inspect \/ Append \/ AppendAgain \/ AppendFails

RecoveryNext ==
  \/ CoordinatorStep \/ \E a \in Authorities : OperatorStep(a)
  \/ BeginRefresh \/ Publish \/ PublishFails
  \/ RecoveryDies \/ RecoveryPowerLoss
  \/ \E e \in Effects : OwnerStep(e)

RecoverySpec == RecoveryInit /\ [][RecoveryNext]_recoveryVars

--------------------------------------------------------------------------------
(* Safety.                                                                 *)

\* A verdict whose resolution returned is the effect's verdict for good: no
\* other fact, failed append, crash or power failure replaces or loses it.
VerdictStands ==
  \A a \in Authorities :
    stage[a] = "consumed" =>
      rows[EffectOf[a]] = a /\ keptRows[EffectOf[a]] = a

\* The gateway never writes an outcome of an effect that has a verdict, nor is
\* one given where an outcome was written: otherwise the two histories could
\* not be joined any more and every write would be refused.
VerdictOrOutcome ==
  \A e \in Effects :
    rows[e] # NoOne => seen[e].state \notin {"confirmed", "no_effect"}

\* Once an append may have begun, the effect's only possible verdict in this
\* process is the frozen fact that the operator approved.
FrozenFactPrevails ==
  \A e \in Effects :
    /\ pinned[e] # NoOne => rows[e] \in {NoOne, pinned[e]}
    /\ \A a, b \in Authorities :
         stage[a] = "committed" /\ stage[b] = "committed"
           /\ EffectOf[a] = EffectOf[b] => a = b

\* A guard that blocked an effect stops doing so only for a verdict that is
\* certain to survive, or because the effect's outcome is on record.
BlocksEndWithFacts ==
  [][\A e \in guard.blocks :
       guard'.up /\ e \notin guard'.blocks =>
         keptRows'[e] # NoOne \/ ~Open(e)']_recoveryVars

\* The histories can be joined: each verdict is about an effect that the
\* effect ledger still has.
VerdictHasItsEffect == Composite(OpenEffects)
================================================================================
