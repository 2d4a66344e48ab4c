# WireAgent in TLA+

WireAgent (`src/src/webwire`) lets a language-model agent act on a social network
through a real browser. Everything that changes the outside world (a post, a
reply, a like, a deletion) passes an approval by a human or by a rule the human
confirmed, a kill switch, and a durable record, and is reconciled by an operator
when a crash leaves it unclear whether it happened. This directory specifies
that machinery, model-checks it on small instances with TLC and proves the most
important results for every instance with TLAPS.

## 1. The system

### 1.1 Parts, state and operations

| Part (source) | State | Operations | Correct when |
| --- | --- | --- | --- |
| Effect ledger (`safety/effect_ledger.py`) | one JSON-lines file, its directory entry | `append_durable`, `read_records`, `recovery_projection` | an acknowledged fact survives a power failure; an exact retry makes the same fact durable and adds none; no effect has two outcomes |
| Grants and attempts (`safety/execution_models.py`) | grant state, claim, tries; attempt state, reservation latch | `validate_live`, `claim`, `release_clean_no_effect`, `spend_if_live`, `mark_*` | one approval is claimed by one attempt at a time and spent once |
| Commit gateway (`safety/commit_gateway.py`) | issued permits, live owners per ledger path, authorization epoch | `authorize_commit`, `consume_permit`, `close_unconsumed_permit_no_effect`, `record_effect_*`, `settle_dead_prepermit_owner_for_reconciliation` | no effect starts without a durable reservation, under a stale approval or after a kill; outcomes are true |
| Kill switch (`safety/kill_switch.py`) | flag, hot file, trip generation, per-listener delivered generation | `trip`, `reset`, `tripped`, `execution_fence`, `execution_blocked_now`, `add_trip_listener` | a trip revokes every earlier approval before anything is allowed again; no owed notification is forgotten |
| Policy registry (`safety/effect_policy.py`) | policy and version per action type | `register`, `policy_fence`, bindings | an approval is used under the policy it was given for |
| Execution session (`safety/m5_execution_runtime.py`) | attempts of one approval, permit of the last | `issue`, `retry_clean_precommit`, `resolve_*` | a retry only after a clean no-effect |
| Scoped authority (`safety/scoped_authority.py`) | preparation tracker, commit gate | reversible steps, `final_commit` | the one canonical mutation crosses only after the exact approved preparation |
| Executors, brokers, adapters (`safety/m5_*`, `m5_*broker.py`, `m6_*`) | browser page, composer lease | compose, bind, submit, verify | one writer per browser; a submit belongs to the approved composer |
| Write kernel (`safety/write_kernel.py`, `confirmation_state.py`, `dedupe.py`, `token_bucket.py`, `risk_registry.py`) | pending previews, one-shot tokens, budgets | `prepare`, `confirm` and execution | a token executes at most once, what was previewed, within its life |
| User rules and compiler (`safety/user_rules.py`, `m8_*`) | rule file | save, match, compile, re-confirm | only a rule the owner confirmed, within the tier ceiling and its life, replaces a confirmation |
| Recovery (`safety/recovery_*.py`, `reconciliation_*.py`, `offline_recovery.py`) | reconciliation ledger, operator proposals | list, prepare, confirm, resolve, guard | an unresolved effect blocks its logical action until an operator's decision is durable |
| Authority ownership (`authority.py`, `authority_session.py`, `authority_operators.py`) | owner lock per state directory, session state, active work | acquire, release, activate, drain, terminalize | one owner per directory; nothing runs after the drain |
| Authority IPC (`authority_ipc_*.py`, `authority_media_ingress.py`) | retained request table, connections, media registry | request pipeline, ingest, resolve, release | a retried request is never executed twice |
| Dispatcher, session, capabilities (`dispatcher.py`, `session.py`, `capabilities/*`) | started components, browser session | `start`, `invoke`, `stop` | an invocation runs only between start and stop, with the verified account |
| Journal, envelope, config (`journal.py`, `envelope.py`, `config.py`) | audit file | append, rotate | diagnostic only |

### 1.2 How they interact

A capability call enters the dispatcher, is admitted by the authority session,
goes through the kernel (preview, policy, confirmation), and if it mutates the
outside world the session of the execution runtime issues an `ApprovalGrant` and
an `EffectAttempt`. The executor prepares the page with reversible steps and asks
the scoped authority to cross: `authorize_commit` reserves the effect in the
ledger, spends the grant and mints a permit; `consume_permit` is the last check
before the click; `record_effect_*` writes the outcome. The kill switch calls
the authorization epoch back on a trip. After a restart the recovery projector
reads the two ledgers, the guard refuses actions whose effect is unresolved, and
an operator decides with `ReconciliationCoordinator`, which asks the gateway
whether a live attempt still owns the effect. All of it runs inside the one
process that holds the owner lock; other processes are IPC clients.

### 1.3 What is hard

* Durability in two steps: a row is visible before it is durable, an append can
  raise after writing, and the process or the power can fail in between.
* Authority that decays while a call runs: approval and permit deadlines in two
  clock domains, the kill switch's external hot file, policy re-registration.
* Callbacks outside locks: a trip is delivered to the epoch after the flag is
  set, and may still be owed when the switch is reset.
* Retries: of a reservation, of an attempt, of a closure, of an outcome row, of
  an IPC request.
* Async interleavings: several invocations, a drain and a shutdown.

The hazards are listed one by one, with the lines where they bite and the
properties that cover them, in `PROJECT.json`.

## 2. The modules

### 2.1 The ledger

`LedgerFacts` is the vocabulary: facts about effects and which may follow which
(`_INITIAL_STATES`, `_ALLOWED_SUCCESSORS`, `_validate_history`). `why` stands for
the row's details, which take part in the exact-fact comparison (`_same_fact`).

`EffectLedger` is the file: rows that are written, torn or whole, how much of the
file is synced, whether the directory entry is, and one action per outcome of
`append_durable` (directory creation fails, write fails or is short, fsync fails,
directory fsync fails, success) and of the exact-fact retry, plus power failure.
`DurableFacts` is what its callers rely on: per effect the latest fact a reader
`seen` and the latest fact certain to be `kept`. `EffectLedger!ImplementsPromise`
states the refinement. It holds for a file that existed before the
process; for a file that the process creates it is false, because an append that
failed may leave a directory (or a file) whose entry was not synced and which the next
append takes for an old one (`ledger_hole`, a finding). `LostOnlyWithTheFile` shows
that the loss is confined to the whole file. A run covers both kinds of start:
`existed` is chosen by `Init`.

### 2.2 The gateway

`CommitGateway` is built on the steps of `DurableFacts`. A gateway call holds the
protocol lock from start to end, so `call` is the one call in progress, and an
authorization is a sequence of steps, one per point where an append can fail or
where time, the hot file or a lock-free part of a session can act in between:
`BeginAuthorize`, `Prune*`, `ClaimDenied`/`IdentityDenied`/`Reserve*`/
`SkipReservation`, `KillBlocksPermit`/`SpendDenied`/`Spend`, `Mint`, and the
retirement `Reinstate*`, `ClosePrepermit*`. Consuming, closing and recording are
one step each: they are single critical sections with one append.

Deadlines are sets of lapsed grants and permits, one per clock domain
(`expires_at` of grants is wall-clock, that of permits monotonic): any order of
the two is possible. `returned` is the one fact of the scoped authority the
gateway's safety rests on: an invocation that is over does not try its permit
again (`_invoke_exact`). The kill switch's only critical listener is the bump of
the authorization epoch; `generation - epoch` bumps are owed. A process death
takes every variable back to its initial value except the ledger, the hot file
and, as `"lost"` or `"gone"`, the fact that a grant, attempt or permit existed;
`crossed` is a history variable.

`OneShot` is what commit authority is for, seen from outside, and
`CommitGateway!Abstract` maps the gateway to it: the phase of a fenced attempt is
read off the surviving ledger row and `crossed`.

Left out of `CommitGateway`: requests that name an intent, a target or a policy
other than the approved one (refused without a state change), the timestamps
and digests of rows, and torn rows (after one, every append raises, which
`Raise` allows at any time and for ever).

What is left to the callers: the gateway's interface alone would let a permit
be consumed after a closure of it failed half way. The scoped authority excludes
this (`_invoke_exact`, `scoped_authority.py:773-799`, refuses a handle that was
used). `returned` models it, and no theorem shows it: it is read off that code, and
nothing in `Executors` uses an effect handle twice.

### 2.3 The kill switch

`KillSwitch` is the switch in full. Every method works under the state lock and
is one step (`Trip`, `Reset`, `Observe`, `AddListener`, `MakeCritical`), except
that listeners run outside it: a drain, begun by whichever method finds an event
owed and nobody `notifying` (`StartDelivery`), selects an oldest event it has not
tried (`Select`), runs its listener (`Hear`, `ListenerFails`), settles it
(`Settle`), and ends when there is no candidate (`DrainEnds`) or on a
`BaseException` (`DrainAborts`). Between these any thread, the listener included,
may trip, reset or observe. The hot file appears and disappears at any time, also
inside an execution fence (`TakeFence`, `LookAgain`, `DropFence`). `runs`, `since`
and `offered` are history, as is `approval`, which follows one approval given
while nothing is active. `state()` only observes; its texts are left out.

### 2.4 Recovery and reconciliation

`EffectOwners` is what `CommitGateway` promises to the parts that only see it
through the ledger and `live_attempt_owns_effect`: an effect has an attempt with
a life in this process; only an owned attempt writes; what it writes is true; it
is let go with a terminal row that is certain. `CommitGateway!ImplementsOwners`
is that refinement, checked by `gateway_safe` for fenced and best-effort effects, and
proved for any number (section 4).

`Reconciliation` is the other side. An authority stands for the proposal, its
confirmation and the one fact it may make durable, so `rows` maps an effect to
the authority whose fact the file holds. `call` is the holder of the publication
fence: `BeginResolve` takes it together with the gateway's protocol lock,
`Append`, `AppendAgain` (the exact-fact retry) and `AppendFails` are the ways
`append_durable` ends, `Publish` and `PublishFails` the refresh of the guard that
follows under the same fences, or after `BeginRefresh` alone. A crash
(`RecoveryDies`) and a power failure (`RecoveryPowerLoss`) may come at each of
these points; a death in the middle of an append is `AppendFails` followed by it.
Readers (`Inspect`, `Propose`) hold the fence while they read, so each is a step.

### 2.5 The write pipeline and the rules

`RuleStore` is the owner's standing rules, one document that the compiler's
confirm, the re-confirmation of a reviewed rule and the owner's own edits change
from several threads and processes. A writer decides on what it saw of a rule
(`Compile` and `ConfirmDraft`, or `Review`), takes the fence and reads the document
strictly (`Enter`), and replaces the file (`Install`) or gives up anywhere
(`GiveUp`, which is also its crash). Readers never take the fence: `Match` is what
`load` and `match` make of the file at one moment, with an invalid entry voiding
the read. A selector is reduced to the intents it matches, a validity window to
the moment of confirmation and `Lapse`. A hand edit with a text editor, which takes
no fence in the code, is modelled as `Save` and `Spoil`, which respect it: what is
said of the rules (`RulesKeepTheirWord`, `RulesStand`) is said of writers that take the
fence. The compare-and-swap can not protect from a program that does not use it.

`WriteKernel` is the pipeline over `Reconciliation` and `RuleStore`, one invocation
at a time as the dispatcher's `_invoke_lock` has it. The stages are those between
which the operator's thread, the owner, the clock and crashes act: `Refresh` and
`Refreshed` (the guard's refresh under the publication fence), `PassChecks` or
`Duplicate` (the guard, asked after the fence was given up, the buckets and the
dedupe store, in one go), the preview, `RuleGate` (on every invocation, with a
token or without), `MintToken`, `UseToken` or `RuleApproves`, and the execution,
`Attempt` and the steps of its effects, until it `Return`s or is cut short
(`Leave`). The only refreshes are those of writes and of resolutions; the one at
start-up is the first write's. `under`, `done` and `heard` are history.

What the model shows of the code, and the design allows: a confirmed write takes a
token of its bucket twice, once when it asks and once when it is confirmed; an
execution that raises or is cancelled leaves its intent out of the dedupe store
(a fenced effect is then kept from being repeated by the recovery guard alone, a
best-effort one by nothing); a verdict of no effect does not clear the dedupe
entry; a ban installed after the gate does not stop the execution under way.

### 2.6 Ownership and life cycle

`OwnerLifecycle` is who may act on a state directory. A runtime is a Dispatcher
or the offline recovery owner, and lives in a process (`ProcessOf`). `osLock` is
the lock of the operating system, `reserved` the registry that keeps a second
owner of the same process out, `handle` the owner lock objects that are kept
after the acquisition. Taking the lock never waits: `Acquire` is enabled when it
succeeds, and a refused attempt changes nothing. A close whose result is unknown
(`AcquireAmbiguous`, `ReleaseAmbiguous`) leaves the process reserved for ever.

A start is the chain `Hydrate`, `Launch`, `Install`, `Bind`, `Activate`; a failure
or a cancellation at any of them goes to `TeardownRoot` and, only if the browser is
proven stopped, `Unbind` and `Release`. A stop is `BeginStop` (admission and
endpoint close and the call joins the queue of the invocation lock, without an
await between), `Drained` or `DrainTimesOut`, `Retire`, `Release`. `pc` is the step
the holder of the lifecycle gate is at; between two steps its work, its clients,
other runtimes and crashes act. The offline owner has the same life without a
browser and a queue (`BeginClose`).

Work is a capability invocation, which is admitted and then waits for the
invocation lock in first-come order (`queue`, its holder first), or an operation
of a reconciliation operator, which is only admitted. That `stop()` does not wait for
what waits for it rests on this order, and on admission being closed in the same step
in which it joins the queue (`StopComesLast`). Work is called by the owner's
own code (`Call`) or sent by a client that names the instance it was once told of
(`Send`, `Serve`): the socket file belongs to whoever bound it last (`path`), so a
client may reach another owner than the one it names.

Left out: the early answers of a tripped kill switch, which change nothing here
(`KillSwitch` has them); an invocation while there is no session, which finds no
browser; the fork hooks; two threads inside `revoke_authority`, which the lifecycle
gate excludes; the request table (2.7). Consequences of the code that the model shows and the
design allows (`docs/M7_DESIGN.md:689`): after a failed start whose browser could
not be stopped, `stop()` can stop the browser but never end the session, and
after an offline `close()` timed out it can not be repeated; in both the
directory stays locked until the process ends.

### 2.7 The owner behind its socket

`AuthorityIPC` is one owner instance as its clients see it. A call is a
connection: it is admitted by the transport or refused (`MaxHandlers`), its request
waits for the loop, is classified by the table of requests (a new one, a
repetition of a running or of a retained one, a reuse of the id for something
else, no room), and a run that it starts goes on by itself, whatever happens to
the connections that wait for it. A run, and what it issues (a confirmation token,
a media reference), bears the number of the call that started it. The connection
may time out or be lost at any time; the client's retry is another call. A run
ends with a terminal frame, chosen by the same ladder of failures as the code's:
an outcome, a failure before anything was done, doubt (`unsure`), or the failure
without data that the dispatcher makes of an execution that raised (`Raises`). Doubt
with which an execution returns is told whatever the size of its texts
(`DoubtSurvivesTheFrame`, part of `AnswersAreTrue`). Of one that raised nothing is told,
though its effect may have happened: `DoubtIsTold`, the promise without that exception,
is the finding of `ipc_doubt`. `_completed`
is bounded, keeps a repeated entry young (`Renewed`) and evicts the oldest;
`last`, `since`, `wrote`, `unsure` and `raised` are
history. It is composed with two registries that clients drive over the wire:

* `MediaIngress`, the artifacts: `Ingest`, `Pin` and `Unpin` around a request that
  reads them, `Release`, the cleanup of the drain, and files that fail to go, that
  somebody else changed, or that an older owner left. Two references may share a
  file, since it is named after its digest.
* `OperatorSessions`, the reconciliation sessions: `Open`, `Prepare`, `Confirm`,
  `Resolve` and its failures before and after the fact is durable, `Close`. What
  resolving means is `Reconciliation`; here it is who can still continue it.

Observations, which no document contradicts: a client that stays silent holds
its handler slot; the limit of proposals answers "resolve or close" though
resolving never gives a place back (`authority_ipc_server.py:981`); a crash in the
middle of an ingest leaves a temporary file that no cleanup looks for; and a
success too big for a frame is answered as such, without its facts
(`authority_ipc_server.py:774`).

### 2.8 The composer and the executors

`ScopedAuthority` is the handle an approved attempt works through: the
preparation tracker with its order checks, its generations and the late results
of steps that a cleanup overtook, and the effect handle that crosses once.
`LeasedBroker` is the browser behind it: an operation lock that serializes calls,
and a content lease and a bound composer that outlive them, over a page that
changes by itself. `Executors` has the executors step by step, as scripts over
these (`Script`): stage, prove, take a baseline, cross, capture, verify; and what
each makes of a failed, lost or cancelled call, of an abort, and of evidence
(`Record`, `Settle`). A call is three steps (asked for, holding the lock, answered), between which
other tasks act: `Stray` is another task that calls the same handle. The gateway
behind the commit gate is reduced to the permit it grants or refuses:
`CommitGateway` has the rest.

What a page shows is a text, a target and a number of images; a post that the
actor made elsewhere has another text than the approved one, since that is all
the evidence of a plain post can tell apart. What the model shows, and the design
describes (`docs/M5_LAYER4_DESIGN.md:235`): a `click_submit` that is interrupted
after the crossing keeps the content lease, so that one-shots and reads stay
refused until a later content attempt is refused as well and its abort closes
the composer. The lease belongs to the broker and not to an attempt, so only the
dispatcher's lock on invocations keeps one attempt's abort away from another's
composer. A second task that kept the handle of an ended attempt could do the same
within one: `close_composer` (`safety/scoped_authority.py:581`) asks neither whether
its attempt is alive nor whose composer is bound, so a late cleanup releases the
composer of the attempt that runs now. That attempt does not click then, since a
submit needs its own composer (`AtWork`), and no other composer can be put in the
place (`NoRival`). `StagedMeansHeld` therefore says of every running attempt that
the bound composer is its own or none, and only of one that nobody disturbed that the
lease and the composer are still there. No executor keeps a handle. A refusal by the
scope, or a failure of storage, leaves the engagement executor as an exception with
its attempt still preparing.

## 3. The runs

| Run | Instance | Question |
| --- | --- | --- |
| `ledger_safe` | two effects, two details, file there before or not | is a loss confined to a whole new file; is the promise implemented |
| `ledger_hole` (violation) | two effects, one detail | does every acknowledged fact survive |
| `gateway_safe` | a fenced approval with an attempt and its retry and a best-effort approval, any two attempts, at most 3 trips and approvals, 2 policy changes and approvals | the one-shot property, record, truth of outcomes, ownership, revocation by a trip; does a dead owner stop blocking reconciliation; refinement of `OneShot` and `EffectOwners` |
| `gateway_wedge` (violation) | one fenced approval | can the expiry of a permit always close it |
| `kill_safe` | the epoch and one more listener, 2 trips | every trip is delivered once, revocation before reopening; does the epoch hear of every trip |
| `kill_trip` (violation) | the same | does `trip()` end every authority given before it |
| `reconcile_orphan` (violation) | one effect, two proposals | does a verdict always have its effect |
| `owner_safe` | two Dispatchers and the recovery owner in two processes, two invocations, one operation | only the owner acts, work keeps its browser, requests run where addressed, an owner can be reached, stop() comes last at the lock; does it return, and free the directory when it is retried |
| `kernel_safe` | five stories: two fenced effects of one intent with three rival proposals and a human; the same with one proposal under a rule that allows it; one effect with a proposal and two confirmations; two writers of two rules; invocations below and above the ceiling while the rules change | verdicts stand, never meet outcomes, are frozen; what unblocks is certain; no blind replay, nothing done again; no confirmation outlives a verdict; the rules keep the owner's word, and bind the gate |
| `ipc_safe` | five connections of clients to one owner in five workloads | no request runs twice, at once or while remembered; answers are true, doubt is told; media in use stay; a committed reconciliation can be continued; does work that was queued end |
| `ipc_doubt` (violation) | the same | is the client told of every effect that may have happened |
| `composer_safe` | invocations in turn on one browser, or one with a second task on its handle | only approved content is clicked, outcomes are true, credited preparation is backed by the lease, the browser is given back; does every invocation end |

Bounds: `MaxAttempts` is a constant of the code (`max_precommit_attempts`);
`MaxBorn` bounds the attempts of a run: two at once, which may be an attempt and its
retry or attempts of two approvals. `Retried` names those that `retry_clean_precommit`
makes. `MaxTrips` bounds the kill generations of a process life together with the
approvals, and `MaxPolicies` the policy changes together with the approvals: with one
approval two trips (one during the delivery of another) and one policy change are
left, with two approvals one trip and none. Nothing bounds crashes,
failed appends or retries of calls. Deadlock checking is off for the gateway:
when every attempt is terminal nothing is left to do but crash. The retries of an
unfenced approval are not run: that one approval crosses once however often it is
tried is the theorem `ApprovalsAreOneShot`, for every approval.

Fairness (`FairSpec`): steps of a call that holds the lock go on (the code has no
wait in it), an operator who keeps asking to settle a dead owner gets the
protocol lock infinitely often and so eventually acts (strong fairness of
`SettleDead`), and appends that are tried again and again do not fail for ever
(strong fairness of `Reinstate` and `ClosePrepermit`). No kill reset, no expiry
and no retry by a session is assumed.

Two effects are enough for `kernel_safe`: the latch is one per file and makes an
append of another effect fail, so a second effect shows every interference, and
both carry the same key, because only those can be replays of each other. Three
proposals give a rival on the first. One story has two
tokens, because a confirmation that was given before a verdict must survive the
one that started the effect. A
bucket holds one invocation of an action and two altogether (`ActionLimit`,
`GlobalLimit`), so that both limits bind; a window has to pass between asking and
confirming, which it may at any time. `MaxNow` bounds the moments at which rules
change: two let one writer overtake another. Two rules, one of them for both
intents, give every conflict of `never`, `ask` and `allow`. The stories (`Casts`) are
kept apart because the parts meet only in `Match` and in `Attempt`: writers need no
effects, and the gate is asked before an effect exists.

In `ipc_safe` a table of two, with two requests at once and one handler, is full
after two of the three ids, so that eviction, refusal and reuse all happen within
five calls; `Litter` is a file of an older owner. The workloads are sequences of
what each call may ask: an approval that is used and repeated under its own id and
another, repetitions across an eviction, requests that are refused, two
references to the same or to different images, an operator's session from its
opening to its close. Two of them at once would add only requests that do not
touch the same entries.

In `composer_safe` a workload (`load`) says which attempts are issued, how often the
second task calls and how often the world or a cancellation interferes
(`surprises`: 1, with media 2). A reply and a quote with equal texts are told apart
by their targets alone, and so show a composer that is taken for another's. A post and a
reply in turn with one call of the second task show the handle that outlives its
attempt. The kill switch is not reset there.

Fairness of `AuthorityIPC!Spec`: the owner's loop goes on with each request that it
has accepted (`OwnerStep`), which ends under the assumption of `OwnerLifecycle` that a
capability ends; clients, the transport, the disk and the drain owe nothing. Fairness of
`Executors!FairSpec` is that of `Progress`: the event loop runs what is ready, and a
browser call returns, with whatever result. Neither the page nor the second task is assumed to do anything.

Fairness of `KillSwitch!FairSpec`: somebody keeps observing the switch
(`tripped()` at every invocation), a drain that runs goes on, the epoch's bump (an
increment under a lock) does not fail for ever, and the other listener does not
for ever raise a `BaseException`, which ends a drain; it may fail with an
`Exception` for ever. No trip and no reset is assumed.

Three runtimes in two processes are enough for `owner_safe`: one competes with one
of its own process and one of another, and a third takes over after both kinds
of end. Two invocations and an operation give a waiter behind a holder of the
invocation lock beside work the lock does not cover. Nothing bounds crashes or
retries of `stop()`; a runtime's life is not repeated because the code does not
repeat it (a TERMINAL session never restarts), and the offline owner can acquire
again only in a process that has not pinned the directory. Deadlock checking is
off: all may be stopped.

Fairness of `OwnerLifecycle!FairSpec`: a start or stop that is under way goes on,
since its awaits are bounded (the drain by its timeout) or browser calls that
end, and a capability that holds the invocation lock ends. The last is needed:
the drain's timeout runs only once `stop()` holds that lock, so a capability that
hangs makes it wait for ever. An operator's
operation may hang for ever, and no caller is assumed to retry: `StopReturns`
needs no more. `DrainingReleases` is about a caller that does:
`RetrySpec` adds that `stop()` is called again while the session drains and its
endpoint does not for ever fail to close, and strong fairness of `Drained` and
`Retire`: such a caller is not for ever cancelled, and the browser does not for
ever refuse to stop. It is stated for an owner without a hanging operation.

Five runs are expected to fail: they check what the documentation says, and are
explained under `findings` in `PROJECT.json`.

## 4. The proofs

`CommitGatewayProofs` proves, for any sets of approvals and attempts and any
bounds, that `IInv` is inductive, and from it type correctness, the five state
properties and the action property (`OneOpenReservation` is proved and not run). `IInv` is needed because the
properties are about crossings and rows, while the steps are guarded by claims,
latches and locks: `PermitHolders` and `Crossings` tie a permit and a crossing to
the claim of a spent grant, `CallInProgress` says what the steps of a call have
established, `UnsettledIsClaimed` ties an ambiguous row to a claim,
`NoEffectEndsUse` excludes that a half-written closure is followed by a
consumption, `KeptBeforeSeen` bounds what a power failure can undo, and `Epochs`
relates permits to kill generations. It is split into what memory says
(`MemoryStep`) and what the ledger says of it (`RecordStep`); the latter goes
through one lemma, `WriteKeepsRecord`, for every action that writes a row.

The same invariant gives `Spec => ImplementsOneShot`:
`StepAdvances` bounds how the surviving row of an effect can move in one step,
`PhaseMoves` and `PhaseIsExclusive` turn that into the moves of `OneShot`. It also
gives `Spec => ImplementsOwners`, for which `IInv` needs one more part,
`ReservedIsLatched`: a reserved attempt passed the latch, so that with `OwnedIffOpen`
it has an owner. One lemma per kind of step (`OwnerReserves`, `OwnerCrosses`,
`OwnerCloses`, `OwnerRecords`, `OwnersDie`, ...) maps it to a step of `EffectOwners`. So
the interface that `Reconciliation` and `WriteKernel` are built on is one that the
gateway is proved to keep.

`EffectLedgerProofs` closes the chain at its lower end. For any effects, details and
length of the file it proves type correctness, `OneAckedOutcome` (one outcome per effect
among what was acknowledged and not lost with the file; proved and not run),
`LostOnlyWithTheFile`, and `ImplementsPromise`: every step of a file that was there
before the process, a power failure included, is a step of `DurableFacts`, on which the
gateway is built. The invariant says that what was acknowledged is synced (`AckedSynced`), that a file which
was there stays (`Settled`), and that the rows are `Legal`: two rows of one effect are
its reservation and then its outcome. The latter is what makes the proof possible.
`LastFact` chooses the last row of an effect; since there are at most two, `LastExists`
needs no induction on the length of the file, and the same bound lists what a
reader may find of an effect after a power failure has cut the file (`Survivors`).

`KillSwitchProofs` proves, for any set of listeners and any
number of trips, type correctness, `ExactlyOnce` and `RevokedBeforeOpen`. Its
invariant ties the selected event to what its listener is owed and the one
running drain to `_notifying`.

`OwnerLifecycleProofs` proves, for any runtimes, processes and work, that only the
lock's holder acts, that work keeps its browser, that a terminal session is
dead and that a request runs under the instance it names. None of these is
inductive: a `Launch` is guarded by `pc`, not by the lock. The invariant `Owned`
says that whoever is at a step of its life, or has a session that is not
terminal, holds the lock (`OwnersHoldTheLock`), what a runtime has at each step
(`StepsAreOrdered`) and in each state of its session (`SessionsAreOpen`), and that
admitted work is at such a runtime (`WorkIsOwned`); the step that gives the lock
up then has nothing left that could act. `TerminalIsDead` is
proved and not run. `StopComesLast` has an invariant of its own, about the queue of
the invocation lock (`Lines`): it repeats nobody, admitted invocations are in it, and
nobody is behind a stop. `Leaves` and `Joins` say what leaving and joining do to it.

`ReconciliationProofs` proves, for any effects and any number of rival proposals, the
three invariants of `Reconciliation` and `BlocksEndWithFacts`. Of the invariant `RInv`,
`VerdictsAreFinal` is the heart: where a verdict is visible the gateway is past all
writing. A verdict is given only where `~Owned` and `Open` held, `AppendIsOfAPin` carries
that to the end of the append, and `OwnerKeeps` shows for each step of an effect that
the protocol lock keeps it so. `KeptRowsAreRows` and `PinsAreCommitted` say what a
crash can leave, `BlocksHaveRows` what a join may have missed since it read.
`ReconciliationSteps` is stated for every step that recovery allows or that only moves
confirmations, so that it can be used under the kernel.

`WriteKernelProofs` begins with `RulesKeepTheirWord`, for any rules, documents and
writers: who is about to install holds the lock and has read what is there
(`InstallersAreCurrent`), and a rule that was seen is confirmed as it was seen
(`ReviewsKeepTheWord`). It then puts the two together, for any casts, tokens and
limits. Each kernel
step is a step of recovery (`KernelIsSteady`) or of the rules (`RulesAreStore`), so that
both invariants hold under the kernel. `InvMoves` lists what may happen to an
invocation, and most of the rest follows from it: `GateWasObeyed` and `PassedIsFresh`
give `GateObeysOwner` and `DoneIsNotRedone`. `NoBlindReplay` needs what each stage knows of
effects that are `Hot`, that is, that crossed behind the fence, or that a verdict could be
given on: a join knows all of them (`JoinKnows`), the guard that it publishes blocks
them (`CheckKnows`), so what has passed has none of its intent (`PassedKnows`), and within
one execution `OneTry` excludes the second. It rests on `HotMoves`: only the running
execution makes an effect hot, and `JoinIsOurs`: while a join is under way there is
no execution. `ConfirmationKnowsVerdicts` goes further: a verdict that a valid
confirmation does not know is not certain, and if visible is behind a latch
(`TokensKnow`, `DoubtHasALatch`); a confirmation given in the middle of an append is
excluded by `PassedKnows`, because the effect is hot. It is therefore the guard, and
not only the revoked epoch, that makes confirmations know.

`AuthorityIPCProofs` proves, for any workload and any number of clients, ids, table
entries, handlers, artifacts and sessions, the five properties of `AuthorityIPC`.
The invariant has a part for each of the things that hardly touch each other.
`TableInv`: an id that is in flight is that of a live run and the other way round
(`Pinned`), what is retained is the frame of a run that is over (`Kept`), and who
waits or was told, waits for or was told of a run of its own request (`Waits`, `Told`);
`NothingRunsTwice` and `AnswersAreTrue` follow. `OrderInv` is about forgetting: each entry
of the table has seen all that is younger come after it (`InOrder`), so the oldest, when
it is evicted, has seen as many others as the table holds (`Forgotten`). This needs
the renewal of a repeated entry, and without it is false (the mutant
`RetainedInPlace`). `WorldInv` is what runs leave behind: a token belongs to a
run that is over and, once used, is not valid, and a run that ended in doubt says so.
`MediaInv` is `MediaIntact` with the pins that hold it up, and `OperatorInv` binds each
durable fact to an open session that prepared it until the drain (`Bound`).

`ExecutorsProofs` proves, for any attempts, workloads, pages and second tasks, the four
invariants of `Executors`. None is inductive: what is clicked depends on
what was staged several calls earlier, and what is told on what was seen several calls
later. The invariant says, in this order:

* where everybody is (`CallInv`): an execution is at a step of its script, which has
  one crossing (`ScriptIsShaped`, `CrossAt`), with what each phase knows of it
  (`Phases`); a call that is past its admission holds the operation lock
  (`LockHeld`), a content effect crosses with a sealed tracker, so that nothing can
  be staged or given back under it (`SealedFirst`), and the permit is untouched until
  the click (`PermitOfCall`);
* what the browser holds (`BrowserInv`): the tracker admits one stage and one cleanup
  at a time (`Tracked`) and credits nothing meanwhile (`Credited`); nobody binds
  another composer while a running attempt is credited with one (`NoRival`), and
  who is at the gate or clicks has its own bound (`AtWork`). From this and the
  contents of the page follows `EffectsAreApproved`;
* who has the lease (`LeaseInv`): `LeaseStep` lists the five ways in which lease and
  composer can move, and with it an undisturbed attempt has them until it crosses
  (`Held`), a cleanup that is alone is not undone (`CleanedUp`), and a lease that
  is taken has an attempt that will give it back (`GivenBack`);
* what may be concluded (`OutcomeInv`): the evidence of each step behind the crossing
  stays true of the page (`Evident`), since effects are only added, a mutation that
  succeeds without crossing had nothing to do, and what was told rests on either.

The assumptions are those of the constants (`GrantAssumption`, `ReasonAssumption`,
`BoundAssumption`, `ListenerAssumption`, `RuntimeAssumption`, `RequiredAssumption`,
`AuthorityAssumption`, `RuleAssumption`, `KeyAssumption`, `IPCAssumption`,
`MediaAssumption`, `OperatorAssumption`, `ExecutorAssumption`; `LedgerFacts` has none). Two
are more than types. `WorkloadAssumption` says that the requests of a workload
bear ids of the model. `TextAssumption` says that plain posts which are approved in one
workload differ in their text, from each other and from what the actor posts
elsewhere; only `OutcomeIsTrue` rests on it. It is the limit of the evidence: the text is
all that the reader of a plain post compares, and equal posts within a window are
the business of the dedupe (`DoneIsNotRedone`).

Not proved are the liveness properties (`DeadOwnerSettles`, `EpochCatchesUp`, `StopReturns`,
`DrainingReleases`, `WorkEnds`, `AttemptEnds`): liveness under fairness needs `ENABLED` and
induction over well-founded data, which this prover does not have. They are
model-checked, on the instances of section 3. Every other property of a passing run is
stated by a theorem.

## 5. Plan

Done, in this order: `CommitGateway` and what it rests on, `KillSwitch`,
`Reconciliation`, `OwnerLifecycle`; `AuthorityIPC` with `MediaIngress` and
`OperatorSessions`; `Executors` over `LeasedBroker` and `ScopedAuthority`; `RuleStore`,
and `WriteKernel` with budgets, dedupe and the rule gate; the proofs of every safety
property that is run, and the refinements. Left:

1. `Executors` over `OneShot`, so that the permit of the composer is that of the
   gateway's abstract specification.
2. An abstract switch, which says of trips only what `CommitGateway` uses (a generation
   that grows, bumps that are owed and paid before a reset), implemented by
   `KillSwitch`.

## 6. Not modelled

Browser automation, page evidence, media files and text normalisation are data
and I/O: the executors see them as answers that the page may choose. Framing and
JSON encoding of the IPC are the one decision whether a request is well formed.
The parsing of a drafted rule is reduced to its result: the owner decides on what
the compiler read, not on what the model wrote. The legacy write broker's own
clicks have no live caller; the read-only extraction and the download broker
change nothing that is modelled. Journal and diagnostics decide nothing.
Capabilities are thin. The power loss of a stored rule file, which is replaced
without an fsync, is left out: the owner sees the older rule, and nothing else
depends on it. Replacing a Dispatcher by another in the same process is not
qualified (`docs/STATE.md:440`); `OwnerLifecycle` lets it try, as the code does. The operating system's lock is modelled from its use:
one holder, let go by a close or by the death of the process. Each component's
status and the reason are in `PROJECT.json`.
