------------------------------- MODULE KillSwitch -------------------------------
(***************************************************************************)
(* The kill switch (safety/kill_switch.py): a flag and a hot file that     *)
(* make it active, a generation per observed activation, and listeners     *)
(* that are each owed every generation.                                    *)
(*                                                                         *)
(* Every method works under the state lock, but listeners run outside it.  *)
(* A drain (one thread at a time: _notifying) selects an owed event, runs  *)
(* its listener and settles the event, each a step of its own; any thread, *)
(* the running listener included, may trip, reset or observe in between.   *)
(* An execution fence holds the state lock over a whole authority          *)
(* transition, while the hot file, which no lock covers, may still change. *)
(***************************************************************************)
EXTENDS Integers

CONSTANTS Listeners,
          Epoch,       \* the gateway's listener, which bumps the epoch
          Nobody,
          MaxTrips     \* bound: trip generations

ASSUME ListenerAssumption == Epoch \in Listeners /\ Nobody \notin Listeners

ASSUME TripAssumption == MaxTrips \in Nat

VARIABLES
  flag, hot,        \* the two mechanisms
  lastActive, generation,
  registered, critical, delivered,   \* the index-aligned listener arrays
  notifying, attempted,              \* the drain
  running,          \* the event being delivered and how its listener ended
  fence,            \* "none", or what the fence that is held has seen
  runs,             \* history: how often each listener ran successfully
  since,            \* history: the last generation a listener is not owed
  approval          \* history: the epoch an approval was given under, and
                    \* whether trip() was called since

switchVars   == <<flag, hot, lastActive, generation>>
listenerVars == <<registered, critical, since>>
drainVars    == <<notifying, attempted, running>>

vars == <<switchVars, listenerVars, delivered, drainVars, fence, runs, approval>>

NotRunning == [who |-> Nobody, trip |-> 0, ended |-> "no"]

TypeOK ==
  /\ flag \in BOOLEAN /\ hot \in BOOLEAN /\ lastActive \in BOOLEAN
  /\ generation \in Nat
  /\ registered \subseteq Listeners /\ critical \subseteq registered
  /\ delivered \in [Listeners -> Nat] /\ since \in [Listeners -> Nat]
  /\ runs \in [Listeners -> Nat]
  /\ notifying \in BOOLEAN /\ attempted \subseteq Listeners \X Nat
  /\ running \in [who : Listeners \cup {Nobody}, trip : Nat,
                  ended : {"no", "well", "badly"}]
  /\ fence \in {"none", "open", "blocked"}
  /\ approval \in [epoch : Nat, tripped : BOOLEAN]

\* The environment variable may have set the flag at boot, and the hot file may
\* be there.  The gateway is built, and its listener added, before anything else.
Init ==
  /\ flag \in BOOLEAN /\ hot \in BOOLEAN
  /\ lastActive = (flag \/ hot)
  /\ generation = IF lastActive THEN 1 ELSE 0
  /\ registered = {Epoch} /\ critical = {Epoch}
  /\ delivered = [l \in Listeners |-> 0]
  /\ since = [l \in Listeners |-> 0]
  /\ runs = [l \in Listeners |-> 0]
  /\ notifying = lastActive
  /\ attempted = {} /\ running = NotRunning
  /\ fence = "none"
  /\ approval = [epoch |-> 0, tripped |-> FALSE]

--------------------------------------------------------------------------------
\* _sync_trip_generation_unlocked: one generation per observed activation.
Sync ==
  /\ lastActive' = (flag' \/ hot')
  /\ generation' = IF lastActive' /\ ~lastActive THEN generation + 1
                                                 ELSE generation

Owed(l) == l \in registered /\ delivered[l] < generation

\* _has_pending_critical_events_unlocked
CriticalPending == \E l \in critical : Owed(l)

\* _start_delivery_unlocked, on the state that the caller leaves behind.
StartDelivery ==
  LET owed == \E l \in registered' : delivered'[l] < generation' IN
  /\ notifying' = (notifying \/ owed)
  /\ attempted' = IF ~notifying /\ owed THEN {} ELSE attempted
  /\ UNCHANGED running

Unlocked == fence = "none"

Trip ==
  /\ Unlocked /\ generation < MaxTrips
  /\ flag' = TRUE /\ hot' \in {hot, TRUE}     \* touching the file may fail
  /\ approval' = [approval EXCEPT !.tripped = TRUE]
  /\ UNCHANGED <<listenerVars, delivered, fence, runs>>
  /\ Sync /\ StartDelivery

Reset ==
  /\ Unlocked
  /\ flag' = FALSE /\ hot' \in {hot, FALSE}   \* removing the file may fail
  /\ UNCHANGED <<listenerVars, delivered, fence, runs, approval>>
  /\ Sync /\ StartDelivery

\* tripped(), state() and guard() observe, and drain unless someone else does.
Observe ==
  /\ Unlocked
  /\ UNCHANGED <<flag, hot, listenerVars, delivered, fence, runs, approval>>
  /\ Sync /\ StartDelivery

\* What _observe_and_drain does last: it looks again and starts nothing.
ObserveAgain ==
  /\ Unlocked
  /\ UNCHANGED <<flag, hot>> /\ Sync
  /\ UNCHANGED <<listenerVars, delivered, drainVars, fence, runs, approval>>

\* Someone outside the process creates or removes the hot file.
HotFileChanges ==
  /\ hot \/ generation < MaxTrips
  /\ hot' = ~hot
  /\ UNCHANGED <<flag, lastActive, generation, listenerVars, delivered,
                 drainVars, fence, runs, approval>>

\* add_trip_listener: a new listener is owed the trip that is active now.
AddListener(l, crit) ==
  /\ Unlocked /\ l \notin registered
  /\ UNCHANGED <<flag, hot>> /\ Sync
  /\ registered' = registered \cup {l}
  /\ critical' = IF crit THEN critical \cup {l} ELSE critical
  /\ since' = [since EXCEPT ![l] =
                 IF lastActive' THEN generation' - 1 ELSE generation']
  /\ delivered' = [delivered EXCEPT ![l] = since'[l]]
  /\ UNCHANGED <<fence, runs, approval>>
  /\ StartDelivery

\* ... one that is known may become critical.
MakeCritical(l) ==
  /\ Unlocked /\ l \in registered \ critical
  /\ UNCHANGED <<flag, hot>> /\ Sync
  /\ critical' = critical \cup {l}
  /\ UNCHANGED <<registered, since, delivered, fence, runs, approval>>
  /\ StartDelivery

--------------------------------------------------------------------------------
(* A drain: _drain_pending_listener_events.                                *)

\* An event this drain has not tried yet, given the newest generation.
Selectable(l, newest) ==
  /\ l \in registered /\ delivered[l] < newest
  /\ <<l, delivered[l] + 1>> \notin attempted

\* The drain's look at the switch, and _select_pending_event_unlocked: it takes
\* an oldest event.
Select(l) ==
  /\ Unlocked /\ notifying /\ running = NotRunning
  /\ UNCHANGED <<flag, hot>> /\ Sync
  /\ Selectable(l, generation')
  /\ \A k \in Listeners :
       Selectable(k, generation') => delivered[l] <= delivered[k]
  /\ running' = [who |-> l, trip |-> delivered[l] + 1, ended |-> "no"]
  /\ attempted' = attempted \cup {<<l, delivered[l] + 1>>}
  /\ UNCHANGED <<listenerVars, delivered, notifying, fence, runs, approval>>

\* No candidate: idleness is published under the lock that saw there was none.
DrainEnds ==
  /\ Unlocked /\ notifying /\ running = NotRunning
  /\ UNCHANGED <<flag, hot>> /\ Sync
  /\ \A l \in Listeners : ~Selectable(l, generation')
  /\ notifying' = FALSE
  /\ UNCHANGED <<listenerVars, delivered, attempted, running, fence, runs,
                 approval>>

\* The listener itself, outside the lock.
Hear ==
  /\ running.who # Nobody /\ running.ended = "no"
  /\ running' = [running EXCEPT !.ended = "well"]
  /\ runs' = [runs EXCEPT ![running.who] = @ + 1]
  /\ UNCHANGED <<switchVars, listenerVars, delivered, notifying, attempted,
                 fence, approval>>

ListenerFails ==
  /\ running.who # Nobody /\ running.ended = "no"
  /\ running' = [running EXCEPT !.ended = "badly"]
  /\ UNCHANGED <<switchVars, listenerVars, delivered, notifying, attempted,
                 fence, runs, approval>>

\* Fault: a delivery that failed counts.
SettleEvenFailed ==
  /\ Unlocked /\ running.ended # "no"
  /\ UNCHANGED <<flag, hot>> /\ Sync
  /\ running' = NotRunning
  /\ delivered' = [delivered EXCEPT ![running.who] = running.trip]
  /\ UNCHANGED <<listenerVars, notifying, attempted, fence, runs, approval>>

\* Fault: a delivery satisfies every generation published so far.
SettleAll ==
  /\ Unlocked /\ running.ended # "no"
  /\ UNCHANGED <<flag, hot>> /\ Sync
  /\ running' = NotRunning
  /\ delivered' = IF running.ended = "well"
                  THEN [delivered EXCEPT ![running.who] = generation]
                  ELSE delivered
  /\ UNCHANGED <<listenerVars, notifying, attempted, fence, runs, approval>>

\* Only a delivery that succeeded is taken off what is owed.
Settle ==
  /\ Unlocked /\ running.ended # "no"
  /\ UNCHANGED <<flag, hot>> /\ Sync
  /\ running' = NotRunning
  /\ delivered' = IF running.ended = "well"
                  THEN [delivered EXCEPT ![running.who] = running.trip]
                  ELSE delivered
  /\ UNCHANGED <<listenerVars, notifying, attempted, fence, runs, approval>>

\* A BaseException from a listener ends the drain and clears the latch.
DrainAborts ==
  /\ Unlocked /\ running.who # Nobody /\ running.ended = "no"
  /\ UNCHANGED <<flag, hot>> /\ Sync
  /\ running' = NotRunning /\ notifying' = FALSE
  /\ UNCHANGED <<listenerVars, delivered, attempted, fence, runs, approval>>

--------------------------------------------------------------------------------
(* The gateway's side.                                                     *)

\* What the gateway learns when it looks at the switch under the lock.
Look ==
  /\ UNCHANGED <<flag, hot, registered, critical, delivered>> /\ Sync
  /\ fence' = IF lastActive' \/ CriticalPending' THEN "blocked" ELSE "open"

\* execution_fence
TakeFence ==
  /\ Unlocked
  /\ Look
  /\ UNCHANGED <<listenerVars, delivered, drainVars, runs, approval>>

\* execution_blocked_now, under the fence: what it finds replaces what the
\* fence found.
LookAgain ==
  /\ fence # "none"
  /\ Look
  /\ UNCHANGED <<listenerVars, delivered, drainVars, runs, approval>>

DropFence ==
  /\ fence # "none" /\ fence' = "none"
  /\ UNCHANGED <<switchVars, listenerVars, delivered, drainVars, runs, approval>>

\* An approval is given under the current epoch; `issue` reads the epoch and does
\* not observe the switch.  History follows one given while nothing is active.
Approve ==
  /\ ~flag /\ ~hot
  /\ approval' = [epoch |-> runs[Epoch], tripped |-> FALSE]
  /\ UNCHANGED <<switchVars, listenerVars, delivered, drainVars, fence, runs>>

Drain ==
  \/ \E l \in Listeners : Select(l)
  \/ DrainEnds \/ Hear \/ ListenerFails \/ Settle \/ DrainAborts

Next ==
  \/ Trip \/ Reset \/ Observe \/ ObserveAgain \/ HotFileChanges
  \/ \E l \in Listeners : \/ MakeCritical(l)
                          \/ \E crit \in BOOLEAN : AddListener(l, crit)
  \/ Drain
  \/ TakeFence \/ LookAgain \/ DropFence \/ Approve

Spec == Init /\ [][Next]_vars

--------------------------------------------------------------------------------
(* Safety.                                                                 *)

\* Each listener ran successfully exactly once per generation taken off what
\* it is owed, plus the delivery that has ended and is not settled: whatever
\* trips, resets and failures happen during callbacks, no generation is
\* skipped, merged with another, or delivered twice.
ExactlyOnce ==
  \A l \in registered :
    runs[l] = delivered[l] - since[l]
                + (IF running.who = l /\ running.ended = "well" THEN 1 ELSE 0)

\* A fence is only open when the switch was seen inactive and every critical
\* listener has run for every trip so far: a reset never outruns revocation.
RevokedBeforeOpen ==
  fence = "open" => \A l \in critical : runs[l] = generation - since[l]

\* Calling trip() in this process revokes every approval that was given before
\* it while the switch was off, even after a reset.
TripEndsAuthority ==
  fence = "open" /\ approval.tripped => approval.epoch # runs[Epoch]

--------------------------------------------------------------------------------
(* Liveness: the process goes on looking at the switch, threads get the    *)
(* state lock in the end, and the epoch's bump does not fail for ever.     *)
(* Other listeners may always fail, but not always with a BaseException:   *)
(* one that does would end every drain before the epoch is selected.       *)

DrainGoesOn ==
  \/ \E l \in Listeners : Select(l)
  \/ DrainEnds \/ Settle

Fairness ==
  /\ SF_vars(Observe) /\ SF_vars(DrainGoesOn) /\ WF_vars(DropFence)
  /\ SF_vars(Hear \/ ListenerFails) /\ SF_vars(Hear /\ running.who = Epoch)

FairSpec == Spec /\ Fairness

\* The epoch hears of every trip in the end, whatever other listeners do.
EpochCatchesUp ==
  \A g \in 1..MaxTrips : generation >= g ~> runs[Epoch] >= g
================================================================================
