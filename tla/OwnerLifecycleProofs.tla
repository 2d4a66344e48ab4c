-------------------------- MODULE OwnerLifecycleProofs --------------------------
(***************************************************************************)
(* For any number of runtimes, processes and units of work: whatever acts  *)
(* on a state directory does so under its lock.  A lock that is held is    *)
(* given up only by the step that ends a session or by the death of its    *)
(* process, so the inductive invariant says what is true of a runtime at   *)
(* each step of a start or a stop, and that such a runtime is the owner.   *)
(* A second one (Lines) says who stands in the queue of its invocation     *)
(* lock.                                                                   *)
(***************************************************************************)
EXTENDS OwnerLifecycle, SequenceTheorems, TLAPS

\* The steps of a start or a stop, and the states of a session that is not over.
Steps == {"hydrate", "launch", "install", "bind", "activate", "teardown",
          "unbind", "quiesce", "retire", "release"}

Open == {"starting", "ready", "draining"}

Types ==
  /\ session \in [Runtimes -> {"none", "terminal"} \cup Open]
  /\ root \in [Runtimes -> {"none", "live", "unsure"}]
  /\ endpoint \in [Runtimes -> {"none", "bound", "open"}]
  /\ pc \in [Runtimes -> Steps \cup {"unbuilt", "refused", "idle", "dead"}]
  /\ tokens \subseteq Runtimes /\ stack \subseteq Runtimes /\ announced \subseteq Runtimes
  /\ work \in [Work -> [stage : {"new", "sent", "admitted", "over"},
                        at : Somebody, to : Somebody]]

\* A runtime between its acquisition and its release is the one that holds the lock.
OwnersHoldTheLock ==
  \A r \in Runtimes : pc[r] \in Steps \/ session[r] \in Open => osLock = r

\* What a runtime may have at each step.
StepsAreOrdered ==
  \A r \in Runtimes :
    /\ pc[r] = "hydrate" => session[r] = IF r \in Dispatchers THEN "starting" ELSE "none"
    /\ pc[r] \in {"launch", "install", "bind", "activate", "teardown", "unbind"} =>
         r \in Dispatchers /\ session[r] = "starting"
    /\ pc[r] \in {"install", "bind", "activate"} => root[r] = "live"
    /\ pc[r] \in {"bind", "activate"} => r \in stack
    /\ pc[r] = "unbind" => root[r] = "none"
    /\ pc[r] \in {"quiesce", "retire"} =>
         session[r] \in {"starting", "draining"} /\ endpoint[r] = "none"
    /\ pc[r] = "release" => session[r] \in {"terminal", "none"}

\* What it may have in each state of its session.
SessionsAreOpen ==
  \A r \in Runtimes :
    /\ root[r] # "none" \/ endpoint[r] # "none" => r \in Dispatchers /\ session[r] \in Open
    /\ r \in tokens => session[r] \in {"ready", "draining"} /\ pc[r] # "retire"
    /\ session[r] = "ready" /\ r \in Dispatchers => r \in stack /\ root[r] = "live"

\* Admitted work is at an owner that has not begun to retire, and was addressed to it.
WorkIsOwned ==
  \A w \in Work :
    LET r == work[w].at IN
    /\ work[w].stage = "new" => work[w].to = NoOne
    /\ work[w].stage = "admitted" =>
         /\ r \in Runtimes /\ session[r] \in {"ready", "draining"} /\ pc[r] # "retire"
         /\ r \in Dispatchers => r \in stack /\ root[r] = "live"
         /\ work[w].to \in {NoOne, r}

\* The socket file leads to the runtime that has an endpoint.
FileIsTheOwners == \A r \in Runtimes : endpoint[r] # "none" => path = r

Owned == /\ Types /\ OwnersHoldTheLock /\ StepsAreOrdered /\ SessionsAreOpen
         /\ WorkIsOwned /\ FileIsTheOwners

--------------------------------------------------------------------------------
\* The invariant holds before any runtime is built.
LEMMA OwnedInit == Init => Owned
<1> SUFFICES ASSUME Init PROVE Owned
  OBVIOUS
<1> USE RuntimeAssumption DEF Init, Steps, Open, Runtimes, Somebody
<1>1. Types
  BY DEF Types
<1>2. OwnersHoldTheLock /\ StepsAreOrdered /\ SessionsAreOpen
  BY DEF OwnersHoldTheLock, StepsAreOrdered, SessionsAreOpen
<1>3. WorkIsOwned /\ FileIsTheOwners
  BY DEF WorkIsOwned, FileIsTheOwners
<1> QED
  BY <1>1, <1>2, <1>3 DEF Owned

\* Every step keeps it.  What is owned passes from one runtime to another only
\* through an acquisition that found the lock free, when no runtime is between its
\* own acquisition and its release.
LEMMA OwnedStep == Owned /\ [Next]_vars => Owned'
<1> SUFFICES ASSUME Owned, [Next]_vars PROVE Owned'
  OBVIOUS
<1> USE RuntimeAssumption
    DEF Owned, Types, OwnersHoldTheLock, StepsAreOrdered, SessionsAreOpen, WorkIsOwned,
        FileIsTheOwners, Steps, Open, Runtimes, Somebody, lockVars, rootVars, ipcVars, workVars, Goto
<1>1. ASSUME NEW r \in Dispatchers, Construct(r) PROVE Owned'
  BY <1>1 DEF Construct
<1>2. ASSUME NEW r \in Runtimes, Acquire(r) PROVE Owned'
  BY <1>2 DEF Acquire, MayAcquire, Reserve, Become
<1>3. ASSUME NEW r \in Runtimes, AcquireAmbiguous(r) PROVE Owned'
  BY <1>3 DEF AcquireAmbiguous, MayAcquire, Reserve
<1>4. ASSUME NEW r \in Runtimes, Hydrate(r) PROVE Owned'
  BY <1>4 DEF Hydrate, Pin, Become
<1>5. ASSUME NEW r \in Runtimes, Launch(r) PROVE Owned'
  BY <1>5 DEF Launch, RootIs
<1>6. ASSUME NEW r \in Runtimes, Install(r) PROVE Owned'
  BY <1>6 DEF Install
<1>7. ASSUME NEW r \in Runtimes, Bind(r) PROVE Owned'
  BY <1>7 DEF Bind
<1>8. ASSUME NEW r \in Runtimes, Activate(r) PROVE Owned'
  BY <1>8 DEF Activate, Become
<1>9. ASSUME NEW r \in Runtimes, TeardownRoot(r) PROVE Owned'
  BY <1>9 DEF TeardownRoot, RootStops, RootStopFails, RootIs
<1>10. ASSUME NEW r \in Runtimes, Unbind(r) PROVE Owned'
  BY <1>10 DEF Unbind, CloseEndpoint, Become
<1>11. ASSUME NEW r \in Runtimes, Drained(r) PROVE Owned'
  BY <1>11 DEF Drained, Active, Become
<1>12. ASSUME NEW r \in Runtimes, DrainTimesOut(r) PROVE Owned'
  BY <1>12 DEF DrainTimesOut, GiveUp
<1>13. ASSUME NEW r \in Runtimes, Retire(r) PROVE Owned'
  BY <1>13 DEF Retire, RootStops, RootIs, Become
<1>14. ASSUME NEW r \in Runtimes, RetireFails(r) PROVE Owned'
  BY <1>14 DEF RetireFails, RootStopFails
<1>15. ASSUME NEW r \in Runtimes, Release(r) PROVE Owned'
  BY <1>15 DEF Release, Reserve
<1>16. ASSUME NEW r \in Runtimes, ReleaseAmbiguous(r) PROVE Owned'
  BY <1>16 DEF ReleaseAmbiguous
<1>17. ASSUME NEW r \in Runtimes, BeginStop(r) PROVE Owned'
  BY <1>17 DEF BeginStop, CloseEndpoint
<1>18. ASSUME NEW r \in Runtimes, BeginClose(r) PROVE Owned'
  BY <1>18 DEF BeginClose, Become
<1>19. ASSUME NEW r \in Runtimes, CancelStop(r) PROVE Owned'
  BY <1>19 DEF CancelStop, GiveUp
<1>20. ASSUME NEW w \in Work, NEW r \in Runtimes, Call(w, r) PROVE Owned'
  BY <1>20 DEF Call, Admit, End, Over
<1>21. ASSUME NEW w \in Work, NEW r \in Runtimes, NEW owner \in announced,
              Send(w, r, owner)
       PROVE  Owned'
  BY <1>21 DEF Send
<1>22. ASSUME NEW w \in Work, Serve(w) PROVE Owned'
  BY <1>22, SMTT(30) DEF Serve, Admit, End, Over, Stale
<1>23. ASSUME NEW w \in Work, Finish(w) PROVE Owned'
  BY <1>23 DEF Finish, End, Over
<1>24. ASSUME NEW w \in Work, Cancel(w) PROVE Owned'
  BY <1>24 DEF Cancel, End, Over
<1>25. ASSUME NEW p \in Processes, Crash(p) PROVE Owned'
  BY <1>25 DEF Crash, Over
<1>26. CASE UNCHANGED vars
  BY <1>26 DEF vars
<1> QED
  BY <1>1, <1>2, <1>3, <1>4, <1>5, <1>6, <1>7, <1>8, <1>9, <1>10, <1>11,
     <1>12, <1>13, <1>14, <1>15, <1>16, <1>17, <1>18, <1>19, <1>20, <1>21,
     <1>22, <1>23, <1>24, <1>25, <1>26 DEF Next, Proceed

LEMMA OwnedAlways == Spec => []Owned
  BY OwnedInit, OwnedStep, PTL DEF Spec

--------------------------------------------------------------------------------
(* The queue of the invocation lock.                                       *)

\* The admitted invocations A stand in q, each once, and stop() behind them.
InLine(q, A) ==
  /\ q \in Seq(Work \cup {StopCall})
  /\ \A i \in 1..Len(q) : q[i] \in A \cup {StopCall}
  /\ \A i, j \in 1..Len(q) : q[i] = q[j] => i = j
  /\ \A w \in A : \E i \in 1..Len(q) : q[i] = w
  /\ \A i \in 1..Len(q) : q[i] = StopCall => i = Len(q)

Stopping(q) == \E i \in 1..Len(q) : q[i] = StopCall

Invoked(r) == Active(r) \cap Invocations

\* A capability is invoked where there is a browser.
Addressees ==
  \A w \in Invocations : work[w].stage \in {"sent", "admitted"} => work[w].at \in Dispatchers

\* A call to stop() is in the line only after admission has closed.
Lines ==
  /\ queue \in [Runtimes -> Seq(Work \cup {StopCall})]
  /\ \A r \in Runtimes :
       /\ InLine(queue[r], Invoked(r))
       /\ Stopping(queue[r]) =>
            session[r] # "ready" /\ pc[r] \in {"quiesce", "retire", "release"}
  /\ Addressees

\* An invocation joins at the end, if nobody stops.
LEMMA Joins ==
  ASSUME NEW q, NEW A \in SUBSET Invocations, InLine(q, A), ~Stopping(q),
         NEW w \in Invocations, w \notin A
  PROVE  InLine(Append(q, w), A \cup {w}) /\ ~Stopping(Append(q, w))
<1> DEFINE S == Work \cup {StopCall}
<1>1. q \in Seq(S) /\ w \in S /\ w # StopCall
  BY RuntimeAssumption DEF InLine, Work
<1> HIDE DEF S
<1>2. /\ Append(q, w) \in Seq(S) /\ Len(Append(q, w)) = Len(q) + 1
      /\ \A i \in 1..Len(q) : Append(q, w)[i] = q[i]
      /\ Append(q, w)[Len(q) + 1] = w
  BY <1>1, AppendProperties
<1>3. Len(q) \in Nat
  BY <1>1, LenProperties
<1>4. \A i \in 1..Len(Append(q, w)) : i \in 1..Len(q) \/ i = Len(q) + 1
  BY <1>2, <1>3
<1>5. \A i \in 1..Len(q) : q[i] \in A /\ q[i] # w /\ q[i] # StopCall
  BY DEF InLine, Stopping
<1> QED
  BY <1>1, <1>2, <1>3, <1>4, <1>5 DEF InLine, Stopping, S

\* So does the call to stop().
LEMMA StopJoins ==
  ASSUME NEW q, NEW A \in SUBSET Invocations, InLine(q, A), ~Stopping(q)
  PROVE  InLine(Append(q, StopCall), A)
<1> DEFINE S == Work \cup {StopCall}
<1>1. q \in Seq(S) /\ StopCall \in S /\ StopCall \notin A
  BY RuntimeAssumption DEF InLine, Work
<1> HIDE DEF S
<1>2. /\ Append(q, StopCall) \in Seq(S) /\ Len(Append(q, StopCall)) = Len(q) + 1
      /\ \A i \in 1..Len(q) : Append(q, StopCall)[i] = q[i]
      /\ Append(q, StopCall)[Len(q) + 1] = StopCall
  BY <1>1, AppendProperties
<1>3. Len(q) \in Nat
  BY <1>1, LenProperties
<1>4. \A i \in 1..Len(Append(q, StopCall)) : i \in 1..Len(q) \/ i = Len(q) + 1
  BY <1>2, <1>3
<1>5. \A i \in 1..Len(q) : q[i] \in A /\ q[i] # StopCall
  BY DEF InLine, Stopping
<1> QED
  BY <1>1, <1>2, <1>3, <1>4, <1>5 DEF InLine, S

\* Whoever leaves, the others stay in line.
LEMMA Leaves ==
  ASSUME NEW q, NEW A \in SUBSET Invocations, InLine(q, A), NEW x
  PROVE  /\ InLine(Without(q, x), A \ {x})
         /\ Stopping(Without(q, x)) => Stopping(q) /\ x # StopCall
<1> DEFINE at == {i \in 1..Len(q) : q[i] = x}
           place == CHOOSE i \in at : TRUE
           p == Without(q, x)
<1>1. q \in Seq(Work \cup {StopCall}) /\ Len(q) \in Nat
  BY LenProperties DEF InLine
<1>2. CASE at = {}
  <2>1. p = q /\ \A i \in 1..Len(q) : q[i] # x
    BY <1>2 DEF Without
  <2>2. x \notin A
    BY <2>1 DEF InLine
  <2>3. A \ {x} = A
    BY <2>2
  <2> HIDE DEF p
  <2>4. InLine(p, A \ {x})
    BY <2>1, <2>3
  <2>5. Stopping(p) => Stopping(q) /\ x # StopCall
    BY <2>1 DEF Stopping
  <2> QED
    BY <2>4, <2>5 DEF p
<1>3. CASE at # {}
  <2>1. place \in 1..Len(q) /\ q[place] = x
    BY <1>3
  <2>2. p = [i \in 1..(Len(q) - 1) |-> q[IF i < place THEN i ELSE i + 1]]
    BY <1>3 DEF Without
  <2> DEFINE from(i) == IF i < place THEN i ELSE i + 1
  <2> HIDE DEF at, place, p
  <2>3. Len(q) - 1 \in Nat
    BY <2>1, <1>1
  <2>4. \A i \in 1..(Len(q) - 1) :
          /\ from(i) \in 1..Len(q) /\ from(i) # place
          /\ from(i) = Len(q) => i = Len(q) - 1
          /\ p[i] = q[from(i)]
    BY <2>1, <2>2, <1>1
  <2>5. \A i \in 1..(Len(q) - 1) : q[from(i)] \in (A \ {x}) \cup {StopCall} /\ q[from(i)] # x
    BY <2>1, <2>4 DEF InLine
  <2>6. p \in Seq(Work \cup {StopCall}) /\ Len(p) = Len(q) - 1
    <3>1. \A i \in 1..(Len(q) - 1) : p[i] \in Work \cup {StopCall}
      BY <2>4, <2>5 DEF Work
    <3> QED
      BY <3>1, <2>2, <2>3, IsASeq, LenProperties
  <2>7. \A i, j \in 1..(Len(q) - 1) : from(i) = from(j) => i = j
    BY <2>1, <1>1
  <2>8. \A k \in 1..Len(q) : k # place => \E i \in 1..(Len(q) - 1) : from(i) = k
    <3> SUFFICES ASSUME NEW k \in 1..Len(q), k # place
                 PROVE  \E i \in 1..(Len(q) - 1) : from(i) = k
      OBVIOUS
    <3>1. CASE k < place
      <4>1. k \in 1..(Len(q) - 1) /\ from(k) = k
        BY <3>1, <2>1, <1>1
      <4> QED BY <4>1
    <3>2. CASE k > place
      <4>1. k - 1 \in 1..(Len(q) - 1) /\ from(k - 1) = k
        BY <3>2, <2>1, <1>1
      <4> QED BY <4>1
    <3> QED BY <3>1, <3>2, <2>1, <1>1
  <2> HIDE DEF from
  <2>9. \A i, j \in 1..Len(p) : p[i] = p[j] => i = j
    BY <2>4, <2>6, <2>7 DEF InLine
  <2>10. \A w \in A \ {x} : \E i \in 1..Len(p) : p[i] = w
    <3> SUFFICES ASSUME NEW w \in A \ {x} PROVE \E i \in 1..Len(p) : p[i] = w
      OBVIOUS
    <3>1. PICK k \in 1..Len(q) : q[k] = w
      BY DEF InLine
    <3>2. PICK i \in 1..(Len(q) - 1) : from(i) = k
      BY <3>1, <2>1, <2>8
    <3> QED BY <3>1, <3>2, <2>4, <2>6
  <2>11. \A i \in 1..Len(p) : p[i] = StopCall => i = Len(p) /\ Stopping(q) /\ x # StopCall
    BY <2>4, <2>5, <2>6 DEF InLine, Stopping
  <2>12. \A i \in 1..Len(p) : p[i] \in (A \ {x}) \cup {StopCall}
    BY <2>4, <2>5, <2>6
  <2> QED
    BY <2>6, <2>9, <2>10, <2>11, <2>12 DEF InLine, Stopping, p
<1> QED
  BY <1>2, <1>3

\* Where nobody joins or leaves, only the steps of a stop matter.
LEMMA LineStays ==
  ASSUME Lines, UNCHANGED queue, Addressees', \A r \in Runtimes : Invoked(r)' = Invoked(r),
         \A r \in Runtimes :
           Stopping(queue[r]) =>
             session'[r] # "ready" /\ pc'[r] \in {"quiesce", "retire", "release"}
  PROVE  Lines'
  BY DEF Lines

\* Only one runtime's queue moves.
LEMMA LineMoves ==
  ASSUME Lines, NEW r \in Runtimes, NEW q, queue' = [queue EXCEPT ![r] = q],
         InLine(q, Invoked(r)'), Addressees',
         Stopping(q) => session'[r] # "ready" /\ pc'[r] \in {"quiesce", "retire", "release"},
         \A s \in Runtimes \ {r} :
           Invoked(s)' = Invoked(s) /\ session'[s] = session[s] /\ pc'[s] = pc[s]
  PROVE  Lines'
<1>1. /\ queue' \in [Runtimes -> Seq(Work \cup {StopCall})]
      /\ queue'[r] = q /\ \A s \in Runtimes \ {r} : queue'[s] = queue[s]
  BY DEF Lines, InLine
<1> QED
  BY <1>1 DEF Lines

\* A stop that returns leaves the line.
LEMMA StopLeaves ==
  ASSUME Lines, NEW r \in Runtimes, Leave(r, StopCall), UNCHANGED work,
         \A s \in Runtimes \ {r} : session'[s] = session[s] /\ pc'[s] = pc[s]
  PROVE  Lines'
<1> DEFINE q == Without(queue[r], StopCall)
<1>1. Invoked(r) \in SUBSET Invocations /\ StopCall \notin Invoked(r)
  BY RuntimeAssumption DEF Invoked, Work
<1>2. InLine(q, Invoked(r) \ {StopCall}) /\ ~Stopping(q)
  BY <1>1, Leaves DEF Lines
<1>3. Addressees' /\ \A s \in Runtimes : Invoked(s)' = Invoked(s)
  BY DEF Lines, Addressees, Invoked, Active
<1>4. Invoked(r) \ {StopCall} = Invoked(r)'
  BY <1>1, <1>3
<1>5. queue' = [queue EXCEPT ![r] = q]
  BY DEF Leave
<1> HIDE DEF q
<1> QED
  BY <1>2, <1>3, <1>4, <1>5, LineMoves

\* So does an invocation that ends.
LEMMA InvocationLeaves ==
  ASSUME Types, Lines, NEW w \in Invocations, work[w].stage = "admitted",
         NEW r \in Runtimes, r = work[w].at, End(w), Leave(r, w), UNCHANGED <<session, pc>>
  PROVE  Lines'
<1> DEFINE q == Without(queue[r], w)
<1>1. Invoked(r) \in SUBSET Invocations /\ w \in Work
  BY DEF Invoked, Work
<1>2. InLine(q, Invoked(r) \ {w}) /\ (Stopping(q) => Stopping(queue[r]))
  BY <1>1, Leaves DEF Lines
<1>3. work' = [work EXCEPT ![w] = Over] /\ Over.stage = "over"
  BY DEF End, Over
<1>4. Invoked(r)' = Invoked(r) \ {w}
  BY <1>1, <1>3 DEF Types, Invoked, Active
<1>5. Addressees' /\ \A s \in Runtimes \ {r} : Invoked(s)' = Invoked(s)
  BY <1>1, <1>3 DEF Types, Lines, Addressees, Invoked, Active, Work
<1>6. queue' = [queue EXCEPT ![r] = q]
  BY DEF Leave
<1>7. Stopping(q) => session'[r] # "ready" /\ pc'[r] \in {"quiesce", "retire", "release"}
  BY <1>2 DEF Lines
<1> HIDE DEF q
<1> QED
  BY <1>2, <1>4, <1>5, <1>6, <1>7, LineMoves

\* Work that is admitted joins it, if it is an invocation.
LEMMA AdmittedJoins ==
  ASSUME Types, Lines, NEW w \in Work, NEW r \in Runtimes, Admit(w, r),
         work[w].stage \in {"new", "sent"}, w \in Operations \/ r \in Dispatchers,
         UNCHANGED <<session, pc>>
  PROVE  Lines'
<1>1. /\ work' = [work EXCEPT ![w].stage = "admitted", ![w].at = r]
      /\ session[r] = "ready"
  BY DEF Admit
<1>2. \A s \in Runtimes \ {r} : Invoked(s)' = Invoked(s)
  BY <1>1 DEF Types, Invoked, Active
<1>3. CASE w \in Operations
  <2>1. UNCHANGED queue /\ w \notin Invocations
    BY <1>3, RuntimeAssumption DEF Admit
  <2>2. Addressees' /\ \A s \in Runtimes : Invoked(s)' = Invoked(s)
    BY <1>1, <2>1 DEF Types, Lines, Addressees, Invoked, Active, Work
  <2> QED
    BY <2>1, <2>2, LineStays DEF Lines
<1>4. CASE w \notin Operations
  <2>1. w \in Invocations /\ r \in Dispatchers
    BY <1>4 DEF Work
  <2>2. queue' = [queue EXCEPT ![r] = Append(queue[r], w)]
    BY <1>4 DEF Admit
  <2>3. Invoked(r) \in SUBSET Invocations /\ w \notin Invoked(r)
    BY DEF Invoked, Active
  <2>4. Addressees' /\ Invoked(r)' = Invoked(r) \cup {w}
    BY <1>1, <2>1 DEF Types, Lines, Addressees, Invoked, Active, Work
  <2>5. InLine(queue[r], Invoked(r)) /\ ~Stopping(queue[r])
    BY <1>1 DEF Lines
  <2>6. InLine(Append(queue[r], w), Invoked(r)') /\ ~Stopping(Append(queue[r], w))
    BY <2>1, <2>3, <2>4, <2>5, Joins
  <2> QED
    BY <1>2, <2>2, <2>4, <2>6, LineMoves
<1> QED
  BY <1>3, <1>4

\* Work that ends without having been in a line.
LEMMA OthersEnd ==
  ASSUME Types, Lines, NEW w \in Work, End(w), work[w].stage # "admitted" \/ w \in Operations,
         UNCHANGED <<queue, session, pc>>
  PROVE  Lines'
<1>1. work' = [work EXCEPT ![w] = Over] /\ Over.stage = "over"
  BY DEF End, Over
<1>2. w \in Invocations => work[w].stage # "admitted"
  BY RuntimeAssumption
<1>3. Addressees' /\ \A s \in Runtimes : Invoked(s)' = Invoked(s)
  BY <1>1, <1>2 DEF Types, Lines, Addressees, Invoked, Active, Work
<1> QED
  BY <1>3, LineStays DEF Lines

\* The lines are kept by every step: what a start does leaves them as they are, what
\* joins them does so while the session is open, and whoever is over leaves.
LEMMA LinesStep == Owned /\ Lines /\ [Next]_vars => Lines'
<1> SUFFICES ASSUME Owned, Lines, [Next]_vars PROVE Lines'
  OBVIOUS
<1> DEFINE Stops == {"quiesce", "retire", "release"}
<1>0. /\ Types /\ SessionsAreOpen
      /\ \A r \in Runtimes :
           /\ InLine(queue[r], Invoked(r)) /\ Invoked(r) \in SUBSET Invocations
           /\ Stopping(queue[r]) => session[r] # "ready" /\ pc[r] \in Stops
  BY DEF Owned, Lines, Invoked
<1>1. ASSUME UNCHANGED workVars,
             \A r \in Runtimes :
               session[r] # "ready" /\ pc[r] \in Stops => session'[r] # "ready" /\ pc'[r] \in Stops
      PROVE  Lines'
  <2>1. UNCHANGED queue /\ Addressees' /\ \A r \in Runtimes : Invoked(r)' = Invoked(r)
    BY <1>1 DEF workVars, Lines, Addressees, Invoked, Active
  <2> QED
    BY <1>0, <1>1, <2>1, LineStays
<1>2. ASSUME NEW r \in Runtimes, Leave(r, StopCall), UNCHANGED work,
             \/ UNCHANGED session
             \/ \E t : session' = [session EXCEPT ![r] = t],
             Goto(r, "idle")
      PROVE  Lines'
  <2>1. \A s \in Runtimes \ {r} : session'[s] = session[s] /\ pc'[s] = pc[s]
    BY <1>0, <1>2 DEF Types, Goto
  <2> QED
    BY <1>2, <2>1, StopLeaves
<1>3. ASSUME NEW r \in Dispatchers, Construct(r) PROVE Lines'
  BY <1>0, <1>1, <1>3 DEF Construct, Goto, Types, Runtimes
<1>4. ASSUME NEW r \in Runtimes, Acquire(r) PROVE Lines'
  BY <1>0, <1>1, <1>4 DEF Acquire, MayAcquire, Become, Goto, Types
<1>5. ASSUME NEW r \in Runtimes, AcquireAmbiguous(r) PROVE Lines'
  BY <1>0, <1>1, <1>5 DEF AcquireAmbiguous
<1>6. ASSUME NEW r \in Runtimes, Hydrate(r) PROVE Lines'
  BY <1>0, <1>1, <1>6 DEF Hydrate, Become, Goto, Types
<1>7. ASSUME NEW r \in Runtimes, Launch(r) PROVE Lines'
  BY <1>0, <1>1, <1>7 DEF Launch, Goto, Types
<1>8. ASSUME NEW r \in Runtimes, Install(r) PROVE Lines'
  BY <1>0, <1>1, <1>8 DEF Install, Goto, Types
<1>9. ASSUME NEW r \in Runtimes, Bind(r) PROVE Lines'
  BY <1>0, <1>1, <1>9 DEF Bind, Types
<1>10. ASSUME NEW r \in Runtimes, Activate(r) PROVE Lines'
  BY <1>0, <1>1, <1>10 DEF Activate, Become, Goto, Types
<1>11. ASSUME NEW r \in Runtimes, TeardownRoot(r) PROVE Lines'
  BY <1>0, <1>1, <1>11 DEF TeardownRoot, Goto, Types
<1>12. ASSUME NEW r \in Runtimes, Unbind(r) PROVE Lines'
  BY <1>0, <1>1, <1>12 DEF Unbind, Become, Goto, Types
<1>13. ASSUME NEW r \in Runtimes, Drained(r) PROVE Lines'
  BY <1>0, <1>1, <1>13 DEF Drained, Become, Goto, Types
<1>14. ASSUME NEW r \in Runtimes, DrainTimesOut(r) \/ CancelStop(r) PROVE Lines'
  BY <1>2, <1>14 DEF DrainTimesOut, CancelStop, GiveUp
<1>15. ASSUME NEW r \in Runtimes, Retire(r) PROVE Lines'
  <2>1. CASE session[r] = "draining"
    BY <1>0, <1>1, <1>15, <2>1 DEF Retire, Become, Goto, Types, workVars
  <2>2. CASE session[r] # "draining"
    BY <1>2, <1>15, <2>2 DEF Retire
  <2> QED BY <2>1, <2>2
<1>16. ASSUME NEW r \in Runtimes, RetireFails(r) \/ ReleaseAmbiguous(r) PROVE Lines'
  BY <1>2, <1>16 DEF RetireFails, ReleaseAmbiguous
<1>17. ASSUME NEW r \in Runtimes, Release(r) PROVE Lines'
  BY <1>2, <1>17 DEF Release
<1>18. ASSUME NEW r \in Runtimes, BeginStop(r) PROVE Lines'
  <2>1. /\ pc[r] = "idle" /\ UNCHANGED work /\ session'[r] # "ready"
        /\ \A s \in Runtimes \ {r} : session'[s] = session[s]
    BY <1>0, <1>18 DEF BeginStop, Types
  <2>2. ~Stopping(queue[r])
    BY <1>0, <2>1
  <2>3. CASE UNCHANGED <<pc, queue>>
    BY <1>0, <1>1, <2>1, <2>3 DEF workVars
  <2>4. CASE Goto(r, "quiesce") /\ queue' = [queue EXCEPT ![r] = Append(queue[r], StopCall)]
    <3>1. Addressees' /\ \A s \in Runtimes : Invoked(s)' = Invoked(s)
      BY <2>1 DEF Lines, Addressees, Invoked, Active
    <3>2. InLine(Append(queue[r], StopCall), Invoked(r)')
      BY <1>0, <2>2, <3>1, StopJoins
    <3>3. pc'[r] = "quiesce" /\ \A s \in Runtimes \ {r} : pc'[s] = pc[s]
      BY <1>0, <2>4 DEF Types, Goto
    <3> QED
      BY <2>1, <2>4, <3>1, <3>2, <3>3, LineMoves
  <2> QED
    BY <1>18, <2>3, <2>4 DEF BeginStop
<1>19. ASSUME NEW r \in Runtimes, BeginClose(r) PROVE Lines'
  <2>1. Addressees' /\ \A s \in Runtimes : Invoked(s)' = Invoked(s)
    BY <1>19 DEF BeginClose, Lines, Addressees, Invoked, Active
  <2>2. Invoked(r) = {}
    BY <1>19, RuntimeAssumption DEF BeginClose, Lines, Addressees, Invoked, Active
  <2>3. InLine(<<StopCall>>, Invoked(r)')
    BY <2>1, <2>2 DEF InLine
  <2>4. /\ pc'[r] = "quiesce" /\ session'[r] = "draining"
        /\ \A s \in Runtimes \ {r} : pc'[s] = pc[s] /\ session'[s] = session[s]
    BY <1>0, <1>19 DEF BeginClose, Become, Goto, Types
  <2>5. queue' = [queue EXCEPT ![r] = <<StopCall>>]
    BY <1>19 DEF BeginClose
  <2> QED
    BY <2>1, <2>3, <2>4, <2>5, LineMoves
<1>20. ASSUME NEW w \in Work, NEW r \in Runtimes, Call(w, r) PROVE Lines'
  BY <1>0, <1>20, AdmittedJoins, OthersEnd DEF Call
<1>21. ASSUME NEW w \in Work, NEW r \in Runtimes, NEW owner \in announced, Send(w, r, owner)
       PROVE  Lines'
  <2>1. r \in Dispatchers
    BY <1>0, <1>21 DEF Send, SessionsAreOpen
  <2>2. /\ work' = [work EXCEPT ![w] = [stage |-> "sent", at |-> r, to |-> owner]]
        /\ work[w].stage = "new" /\ UNCHANGED <<queue, session, pc>>
    BY <1>21 DEF Send
  <2>3. Addressees' /\ \A s \in Runtimes : Invoked(s)' = Invoked(s)
    BY <1>0, <2>1, <2>2 DEF Types, Lines, Addressees, Invoked, Active, Work
  <2> QED
    BY <1>0, <2>2, <2>3, LineStays
<1>22. ASSUME NEW w \in Work, Serve(w) PROVE Lines'
  <2>1. work[w].at \in Runtimes /\ work[w].stage = "sent" /\ UNCHANGED <<session, pc>>
    BY <1>22 DEF Serve
  <2>2. w \in Operations \/ work[w].at \in Dispatchers
    BY <2>1 DEF Lines, Addressees, Work
  <2> QED
    BY <1>0, <1>22, <2>1, <2>2, AdmittedJoins, OthersEnd DEF Serve
<1>23. ASSUME NEW w \in Work, Finish(w) PROVE Lines'
  <2>1. CASE w \in Operations
    BY <1>0, <1>23, <2>1, RuntimeAssumption, OthersEnd DEF Finish
  <2>2. CASE w \in Invocations
    <3>1. work[w].at \in Runtimes /\ Leave(work[w].at, w)
      BY <1>23, <2>2, RuntimeAssumption DEF Finish, Lines, Addressees, Runtimes
    <3> QED
      BY <1>0, <1>23, <2>2, <3>1, InvocationLeaves DEF Finish
  <2> QED BY <2>1, <2>2 DEF Work
<1>24. ASSUME NEW w \in Work, Cancel(w) PROVE Lines'
  <2>1. work[w].at \in Runtimes
    BY <1>24 DEF Cancel, Lines, Addressees, Runtimes
  <2> QED
    BY <1>0, <1>24, <2>1, InvocationLeaves DEF Cancel
<1>25. ASSUME NEW p \in Processes, Crash(p) PROVE Lines'
  <2> DEFINE gone == {r \in Runtimes : ProcessOf[r] = p}
  <2>1. /\ \A r \in gone : queue'[r] = <<>>
        /\ \A r \in Runtimes \ gone : queue'[r] = queue[r] /\ pc'[r] = pc[r] /\ session'[r] = session[r]
        /\ queue' \in [Runtimes -> Seq(Work \cup {StopCall})]
        /\ \A w \in Work : work'[w] = IF work[w].at \in gone THEN Over ELSE work[w]
    BY <1>25 DEF Crash, Lines
  <2>2. /\ \A r \in gone : Invoked(r)' = {}
        /\ \A r \in Runtimes \ gone : Invoked(r)' = Invoked(r)
    BY <2>1 DEF Invoked, Active, Over
  <2>3. Over.stage = "over"
    BY DEF Over
  <2>4. Addressees'
    BY <2>1, <2>3 DEF Lines, Addressees, Work
  <2>5. InLine(<<>>, {}) /\ ~Stopping(<<>>)
    BY DEF InLine, Stopping
  <2>6. ASSUME NEW r \in Runtimes
        PROVE  /\ InLine(queue'[r], Invoked(r)')
               /\ Stopping(queue'[r]) => session'[r] # "ready" /\ pc'[r] \in Stops
    <3>1. CASE r \in gone
      BY <2>1, <2>2, <2>5, <3>1
    <3>2. CASE r \notin gone
      BY <1>0, <2>1, <2>2, <3>2
    <3> QED BY <3>1, <3>2
  <2> QED
    BY <2>1, <2>4, <2>6 DEF Lines
<1>26. CASE UNCHANGED vars
  BY <1>0, <1>1, <1>26 DEF vars
<1> QED
  BY <1>3, <1>4, <1>5, <1>6, <1>7, <1>8, <1>9, <1>10, <1>11, <1>12, <1>13, <1>14, <1>15, <1>16,
     <1>17, <1>18, <1>19, <1>20, <1>21, <1>22, <1>23, <1>24, <1>25, <1>26 DEF Next, Proceed

LEMMA LinesAlways == Spec => []Lines
<1>1. Init => Lines
  <2> SUFFICES ASSUME Init PROVE Lines
    OBVIOUS
  <2>1. \A r \in Runtimes : queue[r] = <<>> /\ Invoked(r) = {}
    BY DEF Init, Invoked, Active
  <2>2. InLine(<<>>, {}) /\ ~Stopping(<<>>)
    BY DEF InLine, Stopping
  <2>3. Addressees /\ queue \in [Runtimes -> Seq(Work \cup {StopCall})]
    BY DEF Init, Addressees, Work
  <2> QED
    BY <2>1, <2>2, <2>3 DEF Lines
<1> QED
  BY <1>1, LinesStep, OwnedAlways, PTL DEF Spec

--------------------------------------------------------------------------------
\* At most one runtime has a browser, admitted work or an endpoint on the state
\* directory, and it holds the lock, through every failed start, stuck stop,
\* ambiguous release and death of a process.
THEOREM Ownership == Spec => []OnlyTheOwnerActs
<1>1. Owned => OnlyTheOwnerActs
  BY DEF Owned, OwnersHoldTheLock, SessionsAreOpen, WorkIsOwned, OnlyTheOwnerActs,
         Acting, Active, Open
<1> QED
  BY <1>1, OwnedAlways, PTL

\* Admitted work has the browser and the execution stack to its end.
THEOREM RootKept == Spec => []WorkKeepsItsRoot
<1>1. Owned => WorkKeepsItsRoot
  BY DEF Owned, WorkIsOwned, WorkKeepsItsRoot, Active
<1> QED
  BY <1>1, OwnedAlways, PTL

\* No invocation waits for the lock that stop() drains under, so that only operations
\* of operators can make the drain time out.
THEOREM StopIsLast == Spec => []StopComesLast
<1>1. Lines => StopComesLast
  <2> SUFFICES ASSUME Lines, NEW r \in Dispatchers, Heads(r, StopCall), NEW w \in Invoked(r)
               PROVE  FALSE
    BY DEF StopComesLast, Invoked
  <2>1. InLine(queue[r], Invoked(r)) /\ queue[r] # <<>> /\ queue[r][1] = StopCall
    BY DEF Lines, Heads, Runtimes
  <2>2. Len(queue[r]) \in Nat /\ Len(queue[r]) # 0
    BY <2>1, LenProperties DEF InLine
  <2>3. 1 \in 1..Len(queue[r])
    BY <2>2
  <2>4. 1 = Len(queue[r])
    BY <2>1, <2>3 DEF InLine
  <2>5. PICK i \in 1..Len(queue[r]) : queue[r][i] = w
    BY <2>1 DEF InLine
  <2> QED
    BY <2>1, <2>4, <2>5, RuntimeAssumption DEF Invoked, Work
<1> QED
  BY <1>1, LinesAlways, PTL

\* Neither a browser, nor admitted work, nor an endpoint, nor a pending
\* confirmation is left when the session is TERMINAL.
THEOREM TerminalSession == Spec => []TerminalIsDead
<1>1. Owned => TerminalIsDead
  BY DEF Owned, SessionsAreOpen, WorkIsOwned, TerminalIsDead, Acting, Active, Open
<1> QED
  BY <1>1, OwnedAlways, PTL

\* No runtime that starts, stops or fails unlinks or replaces the socket file of an
\* owner that serves clients.
THEOREM Reachable == Spec => []OwnerReachable
<1>1. Owned => OwnerReachable
  BY DEF Owned, FileIsTheOwners, OwnerReachable
<1> QED
  BY <1>1, OwnedAlways, PTL

\* No request of a client runs under an owner other than the one it named.
THEOREM Addressed == Spec => []RunsWhereAddressed
<1>1. Owned => RunsWhereAddressed
  BY DEF Owned, WorkIsOwned, RunsWhereAddressed
<1> QED
  BY <1>1, OwnedAlways, PTL
================================================================================
