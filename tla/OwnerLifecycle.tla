----------------------------- MODULE OwnerLifecycle -----------------------------
(***************************************************************************)
(* Who may act on one state directory.  A runtime (a Dispatcher, or the    *)
(* offline recovery owner) takes the directory's owner lock, opens an      *)
(* AuthoritySession over it, builds its browser root and its IPC endpoint, *)
(* admits work while READY, and gives all of it up again, the lock last    *)
(* (dispatcher.py, authority_session.py, authority.py, session.py,         *)
(* authority_ipc_transport.py, offline_recovery.py).                       *)
(*                                                                         *)
(* Several runtimes, some in one process, compete for the directory.  A    *)
(* start or stop is a chain of steps: one per await of the Dispatcher's    *)
(* lifecycle coroutine, where its work, its clients and other runtimes may *)
(* interleave.  Its lifecycle gate lets one chain run at a time.           *)
(***************************************************************************)
EXTENDS Integers, Sequences

CONSTANTS Dispatchers, Offline,    \* the two kinds of runtime
          Processes, ProcessOf,
          Invocations, Operations, \* capabilities; reconciliation operations
          NoOne, StopCall

Runtimes == Dispatchers \cup Offline
Work == Invocations \cup Operations

ASSUME RuntimeAssumption ==
  /\ Dispatchers \cap Offline = {} /\ Invocations \cap Operations = {}
  /\ NoOne \notin Runtimes /\ StopCall \notin Work
  /\ ProcessOf \in [Runtimes -> Processes]

VARIABLES
  osLock,    \* the runtime whose descriptor holds the operating system's lock
  path,      \* the runtime that bound the socket file last, if it is there
  reserved,  \* per process: AuthorityOwnerLock._registry
  pinned,    \* per process: ReconciliationCoordinator._protocol_states
  handle,    \* the runtimes that keep an owner lock object
  session, root, endpoint,   \* per runtime
  stack,     \* the runtimes with a live execution stack and a broker
  tokens,    \* the runtimes with pending phase-1 confirmations
  pc,        \* per runtime: where the holder of its lifecycle gate is
  queue,     \* per runtime: the invocation lock, its holder first
  work,      \* per unit of work: its stage, its runtime, the owner it addressed
  announced  \* history: the instances a client was ever told of

lockVars == <<osLock, reserved, handle>>
rootVars == <<root, stack, tokens>>
ipcVars  == <<endpoint, path, announced>>
workVars == <<queue, work>>

vars == <<lockVars, rootVars, ipcVars, workVars, pinned, session, pc>>

Somebody == Runtimes \cup {NoOne}

TypeOK ==
  /\ osLock \in Somebody /\ path \in Somebody
  /\ reserved \in [Processes -> Somebody] /\ pinned \in [Processes -> Somebody]
  /\ handle \subseteq Runtimes /\ stack \subseteq Runtimes
  /\ tokens \subseteq Runtimes /\ announced \subseteq Runtimes
  /\ session \in [Runtimes -> {"none", "starting", "ready", "draining", "terminal"}]
  /\ root \in [Runtimes -> {"none", "live", "unsure"}]
  /\ endpoint \in [Runtimes -> {"none", "bound", "open"}]
  /\ pc \in [Runtimes -> {"unbuilt", "refused", "idle", "hydrate", "launch",
                          "install", "bind", "activate", "teardown", "unbind",
                          "quiesce", "retire", "release", "dead"}]
  /\ queue \in [Runtimes -> Seq(Work \cup {StopCall})]
  /\ work \in [Work -> [stage : {"new", "sent", "admitted", "over"},
                        at : Somebody, to : Somebody]]

Init ==
  /\ osLock = NoOne /\ path = NoOne
  /\ reserved = [p \in Processes |-> NoOne] /\ pinned = reserved
  /\ handle = {} /\ stack = {} /\ tokens = {} /\ announced = {}
  /\ session = [r \in Runtimes |-> "none"]
  /\ root = session /\ endpoint = session
  /\ pc = [r \in Runtimes |-> IF r \in Offline THEN "idle" ELSE "unbuilt"]
  /\ queue = [r \in Runtimes |-> <<>>]
  /\ work = [w \in Work |-> [stage |-> "new", at |-> NoOne, to |-> NoOne]]

--------------------------------------------------------------------------------
Reservation(r) == reserved[ProcessOf[r]]
Reserve(r, who) == reserved' = [reserved EXCEPT ![ProcessOf[r]] = who]

\* A coordinator pins its process's confirmation state for the directory, and
\* every later coordinator brings a fresh one.
MayPin(r) == pinned[ProcessOf[r]] = NoOne
Pin(r) == pinned' = [pinned EXCEPT ![ProcessOf[r]] = r]

Goto(r, step) == pc' = [pc EXCEPT ![r] = step]
Become(r, state) == session' = [session EXCEPT ![r] = state]
RootIs(r, state) == root' = [root EXCEPT ![r] = state]

Active(r) == {w \in Work : work[w].stage = "admitted" /\ work[w].at = r}

Heads(r, x) == queue[r] # <<>> /\ Head(queue[r]) = x

\* Who leaves the lock's queue, its holder or not, lets the others move up.
Without(q, x) ==
  LET at == {i \in 1..Len(q) : q[i] = x}
      place == CHOOSE i \in at : TRUE
  IN  IF at = {} THEN q
      ELSE [i \in 1..(Len(q) - 1) |-> q[IF i < place THEN i ELSE i + 1]]
Leave(r, x) == queue' = [queue EXCEPT ![r] = Without(@, x)]

--------------------------------------------------------------------------------
\* Dispatcher.__init__, which builds the coordinator before any lock is taken.
Construct(r) ==
  /\ pc[r] = "unbuilt"
  /\ \/ MayPin(r) /\ Pin(r) /\ Goto(r, "idle")
     \/ ~MayPin(r) /\ UNCHANGED pinned /\ Goto(r, "refused")
  /\ UNCHANGED <<lockVars, rootVars, ipcVars, workVars, session>>

MayAcquire(r) == pc[r] = "idle" /\ session[r] = "none" /\ Reservation(r) = NoOne

\* start() and OfflineRecoveryAuthority.acquire() get the lock, which fails at
\* once (and changes nothing) if any runtime holds it.
Acquire(r) ==
  /\ MayAcquire(r)
  /\ osLock = NoOne
  /\ osLock' = r /\ Reserve(r, r) /\ Goto(r, "hydrate")
  /\ IF r \in Dispatchers
       THEN handle' = handle \cup {r} /\ Become(r, "starting")
       ELSE UNCHANGED <<handle, session>>
  /\ UNCHANGED <<rootVars, ipcVars, workVars, pinned>>

\* Fault: whoever tries to start clears the "stale" socket file away.
AcquireUnlinks(r) ==
  /\ MayAcquire(r)
  /\ osLock' \in {osLock} \cup (IF osLock = NoOne THEN {r} ELSE {})
  /\ Reserve(r, r) /\ path' = NoOne
  /\ UNCHANGED <<handle, rootVars, endpoint, announced, workVars, pinned, session, pc>>

\* The acquisition is interrupted and its descriptor cannot be closed for
\* certain: the process stays reserved, and may hold the operating system's lock.
AcquireAmbiguous(r) ==
  /\ MayAcquire(r)
  /\ osLock' \in {osLock} \cup (IF osLock = NoOne THEN {r} ELSE {})
  /\ Reserve(r, r)
  /\ UNCHANGED <<handle, rootVars, ipcVars, workVars, pinned, session, pc>>

\* RecoveryGuard.hydrate: the safety ledgers can be read, or the start fails.  The
\* offline owner then builds its coordinator and is READY at once.
Hydrate(r) ==
  /\ pc[r] = "hydrate"
  /\ \/ /\ r \in Dispatchers
        /\ pc' \in {[pc EXCEPT ![r] = s] : s \in {"launch", "teardown"}}
        /\ UNCHANGED <<handle, session, pinned>>
     \/ /\ r \in Offline /\ MayPin(r)
        /\ Pin(r) /\ Become(r, "ready") /\ Goto(r, "idle")
        /\ handle' = handle \cup {r}
     \/ /\ r \in Offline /\ Goto(r, "release")
        /\ UNCHANGED <<handle, session, pinned>>
  /\ UNCHANGED <<osLock, reserved, rootVars, ipcVars, workVars>>

\* SessionManager.start.  When it fails or is cancelled it stops the partial
\* browser; a browser it cannot stop is kept.
Launch(r) ==
  /\ pc[r] = "launch"
  /\ \/ RootIs(r, "live") /\ Goto(r, "install")
     \/ root' \in {root, [root EXCEPT ![r] = "unsure"]} /\ Goto(r, "teardown")
  /\ UNCHANGED <<lockVars, stack, tokens, ipcVars, workVars, pinned, session>>

\* Restoring the session may be cancelled; installing the stack may fail, and then
\* the browser is stopped on a best effort before the teardown.
Install(r) ==
  /\ pc[r] = "install"
  /\ \/ stack' = stack \cup {r} /\ UNCHANGED root /\ Goto(r, "bind")
     \/ /\ root' \in {[root EXCEPT ![r] = s] : s \in {"live", "none", "unsure"}}
        /\ UNCHANGED stack /\ Goto(r, "teardown")
  /\ UNCHANGED <<lockVars, tokens, ipcVars, workVars, pinned, session>>

\* The endpoint is bound, unlinking whatever file is there, and the listener's
\* thread made; either may fail.  Without IPC there is no endpoint.
Bind(r) ==
  /\ pc[r] = "bind"
  /\ \/ UNCHANGED <<endpoint, path>>
     \/ endpoint' = [endpoint EXCEPT ![r] = "bound"] /\ path' = r
  /\ pc' \in {[pc EXCEPT ![r] = s] : s \in {"activate", "teardown"}}
  /\ UNCHANGED <<lockVars, rootVars, announced, workVars, pinned, session>>

\* AuthoritySession.activate, and the accept gate opens.
Activate(r) ==
  /\ pc[r] = "activate"
  /\ Become(r, "ready") /\ Goto(r, "idle")
  /\ IF endpoint[r] = "bound"
       THEN endpoint' = [endpoint EXCEPT ![r] = "open"] /\ announced' = announced \cup {r}
       ELSE UNCHANGED <<endpoint, announced>>
  /\ UNCHANGED <<lockVars, rootVars, path, workVars, pinned>>

--------------------------------------------------------------------------------
\* SessionManager.stop: without a browser it succeeds; it may fail to stop one.
RootStops(r) == RootIs(r, "none")
RootStopFails(r) == root[r] # "none" /\ root' \in {root, [root EXCEPT ![r] = "unsure"]}

\* Fault: a failed start gives the lock up whether or not the root stopped.
TeardownHopes(r) ==
  /\ pc[r] = "teardown"
  /\ tokens' = tokens \ {r}
  /\ RootStops(r) \/ RootStopFails(r)
  /\ Goto(r, "unbind")
  /\ UNCHANGED <<lockVars, stack, ipcVars, workVars, pinned, session>>

\* _teardown_failed_start revokes, then proves the root stopped; if it cannot, the
\* session stays STARTING and the lock stays held.
TeardownRoot(r) ==
  /\ pc[r] = "teardown"
  /\ tokens' = tokens \ {r}
  /\ \/ RootStops(r) /\ Goto(r, "unbind")
     \/ RootStopFails(r) /\ Goto(r, "idle")
  /\ UNCHANGED <<lockVars, stack, ipcVars, workVars, pinned, session>>

\* IPCTransportServer.stop: the socket file goes, whoever's it is, if it can be
\* unlinked.
CloseEndpoint(r) ==
  /\ endpoint' = [endpoint EXCEPT ![r] = "none"]
  /\ path' \in IF endpoint[r] = "none" THEN {path} ELSE {path, NoOne}

\* The transport goes, and the session aborts: STARTING -> TERMINAL.
Unbind(r) ==
  /\ pc[r] = "unbind"
  /\ CloseEndpoint(r)
  /\ Become(r, "terminal") /\ Goto(r, "release")
  /\ UNCHANGED <<lockVars, rootVars, announced, workVars, pinned>>

--------------------------------------------------------------------------------
\* Fault: stop() refuses to run again once the session drains.
BeginStopOnce(r) ==
  /\ r \in Dispatchers /\ pc[r] = "idle" /\ r \in handle
  /\ session[r] = "ready"
  /\ Become(r, "draining") /\ CloseEndpoint(r)
  /\ Goto(r, "quiesce") /\ queue' = [queue EXCEPT ![r] = Append(@, StopCall)]
  /\ UNCHANGED <<lockVars, rootVars, announced, work, pinned>>

\* Fault: the lock prefers the call to the invocations that wait for it.
BeginStopAhead(r) ==
  /\ r \in Dispatchers /\ pc[r] = "idle" /\ r \in handle
  /\ session[r] \in {"starting", "ready", "draining"}
  /\ session' = [session EXCEPT ![r] = IF @ = "ready" THEN "draining" ELSE @]
  /\ CloseEndpoint(r)
  /\ \/ Goto(r, "quiesce") /\ queue' = [queue EXCEPT ![r] =
               IF @ = <<>> THEN <<StopCall>> ELSE <<Head(@), StopCall>> \o Tail(@)]
     \/ endpoint[r] # "none" /\ path' = path /\ UNCHANGED <<pc, queue>>
  /\ UNCHANGED <<lockVars, rootVars, announced, work, pinned>>

\* stop(): admission closes, the endpoint closes, and the call joins the queue for
\* the invocation lock, with no await between; unless closing the endpoint fails.
\* stop() may be called again after it failed, and after a failed start whose root
\* could not be stopped.
BeginStop(r) ==
  /\ r \in Dispatchers /\ pc[r] = "idle" /\ r \in handle
  /\ session[r] \in {"starting", "ready", "draining"}
  /\ session' = [session EXCEPT ![r] = IF @ = "ready" THEN "draining" ELSE @]
  /\ CloseEndpoint(r)
  /\ \/ Goto(r, "quiesce") /\ queue' = [queue EXCEPT ![r] = Append(@, StopCall)]
     \/ endpoint[r] # "none" /\ path' = path /\ UNCHANGED <<pc, queue>>
  /\ UNCHANGED <<lockVars, rootVars, announced, work, pinned>>

\* OfflineRecoveryAuthority.close(): only a READY session can begin to drain.
BeginClose(r) ==
  /\ r \in Offline /\ pc[r] = "idle" /\ session[r] = "ready"
  /\ Become(r, "draining") /\ Goto(r, "quiesce")
  /\ queue' = [queue EXCEPT ![r] = <<StopCall>>]
  /\ UNCHANGED <<lockVars, rootVars, ipcVars, work, pinned>>

\* Fault: the invocation lock alone is taken for the drain.
DrainedByLock(r) ==
  /\ pc[r] = "quiesce" /\ Heads(r, StopCall)
  /\ tokens' = tokens \ {r} /\ stack' = stack \ {r}
  /\ IF r \in Offline
       THEN Become(r, "terminal") /\ Goto(r, "release")
       ELSE UNCHANGED session /\ Goto(r, "retire")
  /\ UNCHANGED <<lockVars, root, ipcVars, workVars, pinned>>

\* wait_drained returns under the invocation lock: revoke, and drop the stack.
\* The offline owner has neither root nor lock and terminalizes.
Drained(r) ==
  /\ pc[r] = "quiesce" /\ Heads(r, StopCall)
  /\ Active(r) = {}
  /\ tokens' = tokens \ {r} /\ stack' = stack \ {r}
  /\ IF r \in Offline
       THEN Become(r, "terminal") /\ Goto(r, "release")
       ELSE UNCHANGED session /\ Goto(r, "retire")
  /\ UNCHANGED <<lockVars, root, ipcVars, workVars, pinned>>

GiveUp(r) ==
  /\ Leave(r, StopCall) /\ Goto(r, "idle")
  /\ UNCHANGED <<lockVars, rootVars, ipcVars, work, pinned, session>>

\* Fault: the drain has no deadline.
DrainForEver(r) == pc[r] = "quiesce" /\ Active(r) = {} /\ GiveUp(r)

\* wait_drained times out: the session stays DRAINING and the lock held.
DrainTimesOut(r) ==
  /\ pc[r] = "quiesce" /\ Heads(r, StopCall)
  /\ Active(r) # {}
  /\ GiveUp(r)

\* stop() is cancelled while it waits for the invocation lock or the drain.
CancelStop(r) ==
  /\ r \in Dispatchers /\ pc[r] = "quiesce"
  /\ GiveUp(r)

\* The root is stopped, and the session terminal; terminalize() refuses a session
\* that never left STARTING.
Retire(r) ==
  /\ pc[r] = "retire"
  /\ RootStops(r)
  /\ IF session[r] = "draining"
       THEN Become(r, "terminal") /\ Goto(r, "release") /\ UNCHANGED queue
       ELSE Leave(r, StopCall) /\ Goto(r, "idle") /\ UNCHANGED session
  /\ UNCHANGED <<lockVars, stack, tokens, ipcVars, work, pinned>>

RetireFails(r) ==
  /\ pc[r] = "retire"
  /\ RootStopFails(r)
  /\ Leave(r, StopCall) /\ Goto(r, "idle")
  /\ UNCHANGED <<lockVars, stack, tokens, ipcVars, work, pinned, session>>

\* AuthorityOwnerLock.release.  The offline owner forgets its session as well.
Release(r) ==
  /\ pc[r] = "release"
  /\ osLock' = NoOne /\ Reserve(r, NoOne)
  /\ handle' = handle \ {r}
  /\ session' = [session EXCEPT ![r] = IF r \in Offline THEN "none" ELSE @]
  /\ Leave(r, StopCall) /\ Goto(r, "idle")
  /\ UNCHANGED <<rootVars, ipcVars, work, pinned>>

\* The close fails: the descriptor may or may not be gone, the reservation and the
\* handle stay, and every retry of the release is refused.
ReleaseAmbiguous(r) ==
  /\ pc[r] = "release"
  /\ osLock' \in {r, NoOne}
  /\ Leave(r, StopCall) /\ Goto(r, "idle")
  /\ UNCHANGED <<reserved, handle, rootVars, ipcVars, work, pinned, session>>

--------------------------------------------------------------------------------
Over == [stage |-> "over", at |-> NoOne, to |-> NoOne]
End(w) == work' = [work EXCEPT ![w] = Over]

\* AuthoritySession.admit and, for a capability, the invocation lock: no await
\* comes between.
Admit(w, r) ==
  /\ session[r] = "ready"
  /\ work' = [work EXCEPT ![w].stage = "admitted", ![w].at = r]
  /\ queue' = IF w \in Operations THEN queue
              ELSE [queue EXCEPT ![r] = Append(@, w)]

\* invoke() by the owner's own code, or an operation of an operator's session.
Call(w, r) ==
  /\ work[w].stage = "new"
  /\ w \in Operations \/ r \in Dispatchers
  /\ \/ Admit(w, r)
     \/ session[r] \notin {"none", "ready"} /\ End(w) /\ UNCHANGED queue
  /\ UNCHANGED <<lockVars, rootVars, ipcVars, pinned, session, pc>>

\* The caller of a local invocation, waiting or running, is cancelled.
Cancel(w) ==
  /\ work[w].stage = "admitted" /\ work[w].to = NoOne
  /\ w \in Invocations
  /\ End(w) /\ Leave(work[w].at, w)
  /\ UNCHANGED <<lockVars, rootVars, ipcVars, pinned, session, pc>>

\* Fault: the instance a request names is not compared.
NeverStale(w, r) == FALSE

Stale(w, r) == work[w].to # r

\* A client's request reaches the server at the socket file, and names the owner
\* instance the client was once told of (process_request, the early check).
Send(w, r, owner) ==
  /\ work[w].stage = "new" /\ endpoint[r] = "open" /\ path = r
  /\ work' = [work EXCEPT ![w] = [stage |-> "sent", at |-> r, to |-> owner]]
  /\ UNCHANGED <<lockVars, rootVars, ipcVars, queue, pinned, session, pc>>

\* Its task runs (_admitted_request_pipeline): admitted, or refused.
Serve(w) ==
  LET r == work[w].at IN
  /\ work[w].stage = "sent" /\ r \in Runtimes /\ pc[r] # "dead"
  /\ \/ ~Stale(w, r) /\ Admit(w, r)
     \/ /\ Stale(w, r) \/ session[r] # "ready"
        /\ End(w) /\ UNCHANGED queue
  /\ UNCHANGED <<lockVars, rootVars, ipcVars, pinned, session, pc>>

\* Admitted work ends; a capability held the invocation lock to its end, and a
\* first phase leaves a confirmation pending.
Finish(w) ==
  LET r == work[w].at IN
  /\ work[w].stage = "admitted"
  /\ End(w)
  /\ \/ w \in Operations /\ UNCHANGED <<queue, tokens>>
     \/ /\ w \in Invocations /\ Heads(r, w) /\ Leave(r, w)
        /\ tokens' \in {tokens, tokens \cup {r}}
  /\ UNCHANGED <<lockVars, root, stack, ipcVars, pinned, session, pc>>

--------------------------------------------------------------------------------
\* A process that has reserved the directory dies: its descriptors close, the
\* socket file stays.  (Nobody notices the death of another.)
Crash(p) ==
  LET gone == {r \in Runtimes : ProcessOf[r] = p}
      Reset(f, x) == [r \in Runtimes |-> IF r \in gone THEN x ELSE f[r]] IN
  /\ reserved[p] # NoOne
  /\ osLock' = IF osLock \in gone THEN NoOne ELSE osLock
  /\ reserved' = [reserved EXCEPT ![p] = NoOne]
  /\ pinned' = [pinned EXCEPT ![p] = NoOne]
  /\ handle' = handle \ gone /\ stack' = stack \ gone /\ tokens' = tokens \ gone
  /\ session' = Reset(session, "none") /\ root' = Reset(root, "none")
  /\ endpoint' = Reset(endpoint, "none") /\ pc' = Reset(pc, "dead")
  /\ queue' = Reset(queue, <<>>)
  /\ work' = [w \in Work |-> IF work[w].at \in gone
                             THEN Over ELSE work[w]]
  /\ UNCHANGED <<path, announced>>

\* The steps of a start or a stop that is under way.
Proceed(r) ==
  \/ Hydrate(r) \/ Launch(r) \/ Install(r) \/ Bind(r) \/ Activate(r)
  \/ TeardownRoot(r) \/ Unbind(r)
  \/ Drained(r) \/ DrainTimesOut(r) \/ Retire(r) \/ RetireFails(r)
  \/ Release(r) \/ ReleaseAmbiguous(r)

Next ==
  \/ \E r \in Runtimes :
       \/ Acquire(r) \/ AcquireAmbiguous(r) \/ Proceed(r)
       \/ BeginStop(r) \/ BeginClose(r) \/ CancelStop(r)
  \/ \E r \in Dispatchers : Construct(r)
  \/ \E w \in Work :
       \/ \E r \in Runtimes : Call(w, r)
       \/ \E r \in Runtimes, owner \in announced : Send(w, r, owner)
       \/ Serve(w) \/ Finish(w) \/ Cancel(w)
  \/ \E p \in Processes : Crash(p)

Spec == Init /\ [][Next]_vars

\* A start or a stop that is under way goes on, and a capability that holds the
\* invocation lock ends.  An operation of an operator may hang.
Fairness ==
  /\ \A r \in Runtimes : WF_vars(Proceed(r))
  /\ \A w \in Invocations : WF_vars(Finish(w))

FairSpec == Spec /\ Fairness

\* The owner's process keeps calling stop() while it drains, is not for ever
\* cancelled, and does not for ever fail to stop its browser.
RetryFairness ==
  \A r \in Dispatchers :
    /\ WF_vars(BeginStop(r) /\ pc'[r] = "quiesce")
    /\ SF_vars(Drained(r)) /\ SF_vars(Retire(r))

RetrySpec == FairSpec /\ RetryFairness

--------------------------------------------------------------------------------
\* Whatever can still change the outside world, or take a client's request, does
\* so under the lock: at most one runtime at a time, from its browser's launch to
\* its proven stop.
Acting(r) == root[r] # "none" \/ Active(r) # {} \/ endpoint[r] # "none"

OnlyTheOwnerActs == \A r \in Runtimes : Acting(r) => osLock = r

\* No admitted work ever loses the stack or the browser under its feet: stop()
\* retires neither before everything admitted is over.
WorkKeepsItsRoot ==
  \A r \in Dispatchers : Active(r) # {} => r \in stack /\ root[r] = "live"

\* Nothing outlives a TERMINAL session: no browser, no pending confirmation, no
\* admitted work, no endpoint.
TerminalIsDead ==
  \A r \in Runtimes :
    session[r] = "terminal" => ~Acting(r) /\ r \notin tokens

\* An owner that serves clients is found at the socket file: no other runtime,
\* starting, stopping or failing, has unlinked or replaced it.
OwnerReachable ==
  \A r \in Runtimes : endpoint[r] = "open" /\ session[r] = "ready" => path = r

\* A request runs under the owner it was addressed to, however many owners came
\* and went since its client was told the instance.
RunsWhereAddressed ==
  \A w \in Work : work[w].stage = "admitted" => work[w].to \in {NoOne, work[w].at}

\* No invocation waits for the lock that stop() holds while it drains: all that
\* were admitted before it came are over by then, and none is admitted after.  So
\* what it still waits for, and may time out on, are operations of operators.
StopComesLast ==
  \A r \in Dispatchers : Heads(r, StopCall) => Active(r) \cap Invocations = {}

\* stop() returns, an operator's operation that hangs or not: the capabilities that
\* hold it up end, and its drain has a deadline.
StopReturns ==
  \A r \in Runtimes :
    pc[r] \in {"quiesce", "retire", "release"} ~> pc[r] \in {"idle", "dead"}

\* An owner that drains with no operator's operation in progress gives the lock
\* up, or its process has to die: stop() can always be completed by retrying it.
DrainingReleases ==
  \A r \in Dispatchers :
    session[r] = "draining" /\ Active(r) \cap Operations = {}
      ~> session[r] \in {"terminal", "none"} /\ pc[r] \in {"idle", "dead"}
================================================================================
