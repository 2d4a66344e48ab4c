------------------------------ MODULE AuthorityIPC -----------------------------
(***************************************************************************)
(* One owner instance as its local clients see it: the transport's handler *)
(* threads (authority_ipc_transport.py), the request pipeline on the       *)
(* owner's loop (authority_ipc_server.py), the table of retained requests  *)
(* (authority_ipc_request_table.py), and behind them the media registry    *)
(* (MediaIngress), the operator sessions (OperatorSessions) and the        *)
(* invocations of the dispatcher.                                          *)
(*                                                                         *)
(* A call is one connection: at most one request, at most one answer.  A   *)
(* client repeats a request with another call.  A call that is classified  *)
(* as new starts a run, which bears its number; so do the confirmation     *)
(* token or the media reference that the run issues.                       *)
(***************************************************************************)
EXTENDS MediaIngress, OperatorSessions, Sequences

CONSTANTS Ids,          \* request ids
          MaxCalls,     \* bound: connections ever made
          MaxHandlers,  \* IPC_SERVER_MAX_CONCURRENT
          MaxInflight, MaxCompleted,   \* capacities of the request table
          Workloads     \* sequences of sets: what each call may ask for

Calls == 1..MaxCalls
None == 0

ASSUME IPCAssumption ==
  /\ MaxCalls \in Nat /\ MaxHandlers \in Nat \ {0}
  /\ MaxInflight \in Nat \ {0} /\ MaxCompleted \in Nat \ {0}
  /\ Refs = Calls /\ Holders = Calls

ASSUME WorkloadAssumption ==
  \A w \in Workloads : \A k \in Calls :
    k <= Len(w) => \A r \in w[k] : r.id \in Ids

VARIABLES
  load,      \* the workload of this behaviour
  asked,     \* the request of each call
  handler,   \* the thread of each call
  work,      \* its process_request on the loop
  of,        \* the run it waits for
  reply,     \* what it returned
  run,       \* each run's life
  frame,     \* its terminal frame
  inflight, retained,   \* _inflight and _completed: the run of each id
  recency,   \* the order of _completed, oldest first
  valid,     \* confirmation tokens that the owner would accept
  draining,  \* begin_drain was called
  last,      \* history: the last run of each id, unless it was abandoned
  since,     \* history: ids used after it
  wrote,     \* history: runs that may have changed the world, with their token
  unsure,    \* history: runs that returned a result in doubt of it
  raised     \* history: runs that raised instead, perhaps after they had

tableVars == <<inflight, retained, recency, last, since>>
callVars  == <<asked, handler, work, of, reply>>
worldVars == <<valid, wrote, unsure, raised>>
vars == <<load, callVars, run, frame, tableVars, worldVars, draining,
          mediaVars, operatorVars>>

Code(c) == [code |-> c, run |-> None, facts |-> FALSE]
NoAnswer == Code("none")
Answers == [code : {"none", "refused", "stale", "reused", "full", "draining",
                    "internal", "result"},
            run : Calls \cup {None}, facts : BOOLEAN]

NoRequest == [id |-> None, op |-> "none", arg |-> <<>>, fresh |-> TRUE]

TypeOK ==
  /\ MediaTypeOK /\ OperatorTypeOK
  /\ load \in Workloads
  /\ \A k \in Calls : asked[k] = NoRequest \/ asked[k].id \in Ids
  /\ handler \in [Calls -> {"none", "waiting", "over"}]
  /\ work \in [Calls -> {"none", "queued", "joined", "done"}]
  /\ of \in [Calls -> Calls \cup {None}]
  /\ reply \in [Calls -> Answers] /\ frame \in [Calls -> Answers]
  /\ run \in [Calls -> {"none", "scheduled", "invoking", "executing", "over"}]
  /\ inflight \in [Ids -> Calls \cup {None}]
  /\ retained \in [Ids -> Calls \cup {None}]
  /\ recency \in Seq(Ids) /\ Len(recency) <= MaxCompleted
  /\ last \in [Ids -> Calls \cup {None}] /\ since \in [Ids -> SUBSET Ids]
  /\ {valid, unsure, raised} \subseteq SUBSET Calls
  /\ wrote \subseteq Calls \X Calls
  /\ draining \in BOOLEAN

Init ==
  /\ MediaInit /\ OperatorInit
  /\ load \in Workloads
  /\ asked = [k \in Calls |-> NoRequest]
  /\ handler = [k \in Calls |-> "none"] /\ work = handler /\ run = handler
  /\ of = [k \in Calls |-> None]
  /\ reply = [k \in Calls |-> NoAnswer] /\ frame = reply
  /\ inflight = [i \in Ids |-> None] /\ retained = inflight /\ last = inflight
  /\ recency = <<>> /\ since = [i \in Ids |-> {}]
  /\ valid = {} /\ wrote = {} /\ unsure = {} /\ raised = {}
  /\ draining = FALSE

--------------------------------------------------------------------------------
(* The transport.                                                          *)

Asks(k) == IF k <= Len(load) THEN load[k] ELSE {}

Busy == {k \in Calls : handler[k] = "waiting"}

\* A connection gets a free handler, or is closed; the hello is written, the
\* request read and its coroutine given to the loop.
Send(k, r) ==
  /\ ~draining /\ handler[k] = "none" /\ Cardinality(Busy) < MaxHandlers
  /\ \A j \in Calls : j < k => handler[j] # "none"
  /\ r \in Asks(k)
  /\ asked' = [asked EXCEPT ![k] = r]
  /\ handler' = [handler EXCEPT ![k] = "waiting"]
  /\ work' = [work EXCEPT ![k] = "queued"]
  /\ UNCHANGED <<load, of, reply, run, frame, tableVars, worldVars, draining,
                 mediaVars, operatorVars>>

\* Fault: the handler's wait takes the work with it.
LeaveAndCancel(k) ==
  /\ handler[k] = "waiting"
  /\ handler' = [handler EXCEPT ![k] = "over"]
  /\ run' = [run EXCEPT ![k] = IF @ = "scheduled" THEN "over" ELSE @]
  /\ UNCHANGED <<load, asked, work, of, reply, frame, tableVars, worldVars,
                 draining, mediaVars, operatorVars>>

\* Fault: a caller that gives up takes its entry out of the table.
LeaveAndForget(k) ==
  /\ handler[k] = "waiting"
  /\ handler' = [handler EXCEPT ![k] = "over"]
  /\ inflight' = [i \in Ids |-> IF inflight[i] = k THEN None ELSE inflight[i]]
  /\ UNCHANGED <<load, asked, work, of, reply, run, frame, retained, recency, last,
                 since, worldVars, draining, mediaVars, operatorVars>>

\* The thread ends: the answer is written or lost, the client is gone, or the
\* wait expired (request_in_progress).  The coroutine and the run go on.
Leave(k) ==
  /\ handler[k] = "waiting"
  /\ handler' = [handler EXCEPT ![k] = "over"]
  /\ UNCHANGED <<load, asked, work, of, reply, run, frame, tableVars, worldVars,
                 draining, mediaVars, operatorVars>>

--------------------------------------------------------------------------------
(* The table of retained requests.                                         *)

\* canonical_request_identity: the operation and its normalized payload.
Canonical(r) == <<r.op, r.arg>>

SameRequest(j, k) == Canonical(asked[j]) = Canonical(asked[k])

\* move_to_end: the entry of i becomes the youngest.
Renewed(i) ==
  LET n == CHOOSE m \in DOMAIN recency : recency[m] = i
  IN [m \in DOMAIN recency |->
        IF m < n THEN recency[m]
        ELSE IF m < Len(recency) THEN recency[m + 1] ELSE i]

Used(i) == since' = [j \in Ids |-> IF j = i THEN {} ELSE since[j] \cup {i}]

Answer(k, a) ==
  /\ work' = [work EXCEPT ![k] = "done"]
  /\ reply' = [reply EXCEPT ![k] = a]
  /\ UNCHANGED of

JoinRun(k, j) ==
  /\ work' = [work EXCEPT ![k] = "joined"]
  /\ of' = [of EXCEPT ![k] = j]
  /\ UNCHANGED reply

\* Not a request of this protocol: an unknown operation, a missing, unknown or
\* ill-typed field, a string out of bounds.
Malformed(k) == asked[k].op = "malformed"

\* Refusals ahead of the table: size, protocol, build, allowlist, schema,
\* envelope, and an instance that is no more.
Refuse(k) ==
  /\ \/ Malformed(k) /\ Answer(k, Code("refused"))
     \/ ~Malformed(k) /\ ~asked[k].fresh /\ Answer(k, Code("stale"))
  /\ UNCHANGED <<run, tableVars>>

\* The same request is running: wait for it.  Another one is: violation.
JoinOrReuse(k, j) ==
  /\ j # None
  /\ IF SameRequest(j, k) THEN JoinRun(k, j) ELSE Answer(k, Code("reused"))
  /\ UNCHANGED <<run, tableVars>>

\* Fault: an answer is given without a look at the request.
RetainedAny(k, j) ==
  /\ j # None
  /\ Answer(k, frame[j])
  /\ recency' = Renewed(asked[k].id)
  /\ Used(asked[k].id)
  /\ UNCHANGED <<inflight, retained, last, run>>

\* Fault: a hit does not renew the entry.
RetainedInPlace(k, j) ==
  /\ j # None
  /\ IF SameRequest(j, k)
     THEN Answer(k, frame[j]) /\ Used(asked[k].id)
     ELSE Answer(k, Code("reused")) /\ UNCHANGED since
  /\ UNCHANGED <<inflight, retained, recency, last, run>>

\* The same request was completed: its frame once more.
RetainedOrReuse(k, j) ==
  /\ j # None
  /\ IF SameRequest(j, k)
     THEN /\ Answer(k, frame[j])
          /\ recency' = Renewed(asked[k].id)
          /\ Used(asked[k].id)
     ELSE Answer(k, Code("reused")) /\ UNCHANGED <<recency, since>>
  /\ UNCHANGED <<inflight, retained, last, run>>

Running == {i \in Ids : inflight[i] # None}

\* New: only live work is in the way.
StartRun(k) ==
  IF Cardinality(Running) >= MaxInflight
  THEN Answer(k, Code("full")) /\ UNCHANGED <<run, tableVars>>
  ELSE /\ JoinRun(k, k)
       /\ run' = [run EXCEPT ![k] = "scheduled"]
       /\ inflight' = [inflight EXCEPT ![asked[k].id] = k]
       /\ UNCHANGED <<retained, recency, last, since>>

Classify(k) ==
  LET i == asked[k].id IN
  /\ ~Malformed(k) /\ asked[k].fresh
  /\ \/ JoinOrReuse(k, inflight[i])
     \/ inflight[i] = None /\ RetainedOrReuse(k, retained[i])
     \/ inflight[i] = None /\ retained[i] = None /\ StartRun(k)

\* process_request, until it waits or returns; the loop takes the calls in the
\* order in which they came.
Process(k) ==
  /\ work[k] = "queued" /\ \A j \in Calls : j < k => work[j] # "queued"
  /\ Refuse(k) \/ Classify(k)
  /\ UNCHANGED <<load, asked, handler, frame, worldVars, draining, mediaVars,
                 operatorVars>>

\* The run's end reaches everyone who waits for it.
ResolveRun(k, a) ==
  /\ work' = [j \in Calls |-> IF work[j] = "joined" /\ of[j] = k THEN "done" ELSE work[j]]
  /\ reply' = [j \in Calls |-> IF work[j] = "joined" /\ of[j] = k THEN a ELSE reply[j]]
  /\ run' = [run EXCEPT ![k] = "over"]
  /\ inflight' = [inflight EXCEPT ![asked[k].id] = None]
  /\ UNCHANGED <<asked, handler, of, load, draining>>

\* complete: retained from now on, at the cost of the oldest when full.
Complete(k, a) ==
  LET i == asked[k].id
      evicted == IF Len(recency) >= MaxCompleted THEN {Head(recency)} ELSE {}
  IN /\ ResolveRun(k, [a EXCEPT !.run = k])
     /\ frame' = [frame EXCEPT ![k] = [a EXCEPT !.run = k]]
     /\ retained' = [j \in Ids |-> IF j = i THEN k
                                   ELSE IF j \in evicted THEN None ELSE retained[j]]
     /\ recency' = Append(IF evicted = {} THEN recency ELSE Tail(recency), i)
     /\ last' = [last EXCEPT ![i] = k] /\ Used(i)

\* abandon: nothing is retained, and a retry is new.
Abandon(k) ==
  /\ ResolveRun(k, Code("internal"))
  /\ last' = [last EXCEPT ![asked[k].id] = None]
  /\ UNCHANGED <<frame, retained, recency, since>>

--------------------------------------------------------------------------------
(* The pipeline of an admitted request.                                    *)

Op(k) == asked[k].op
Arg(k) == asked[k].arg
ArgSet(k) == {Arg(k)[n] : n \in DOMAIN Arg(k)}

\* A terminal frame; whether it tells of a success is left out.
Result == Code("result")

\* A drain refuses what had not begun.
RefuseDraining(k) ==
  /\ draining /\ Complete(k, Code("draining"))
  /\ UNCHANGED <<mediaVars, operatorVars>>

\* media_ingest; a failure of the last move is no refusal but an exception.
IngestRoute(k) ==
  /\ Op(k) = "ingest"
  /\ \/ \E d \in Digests : Ingest(k, d) /\ Complete(k, Result)
     \/ IngestRefused /\ Complete(k, Result)
     \/ IngestRefused /\ Abandon(k)
  /\ UNCHANGED operatorVars

ReleaseRoute(k) ==
  /\ Op(k) = "release"
  /\ LET r == Arg(k)[1] IN
       \/ (ReleaseShared(r) \/ ReleaseLast(r)) /\ Complete(k, Result)
       \/ ReleaseRefused(r) /\ Complete(k, Result)
  /\ UNCHANGED operatorVars

\* The reconciliation operations; whatever is not done is denied.
OperatorRoute(k) ==
  /\ \/ Op(k) = "open" /\ Open(Arg(k)[1]) /\ Complete(k, Result)
     \/ Op(k) = "close" /\ Close(Arg(k)[1]) /\ Complete(k, Result)
     \/ Op(k) = "prepare" /\ Prepare(Arg(k)[1], Arg(k)[2]) /\ Complete(k, Result)
     \/ Op(k) = "confirm" /\ Confirm(Arg(k)[1], Arg(k)[2]) /\ Complete(k, Result)
     \/ Op(k) = "resolve" /\ Persist(Arg(k)[1], Arg(k)[2]) /\ Complete(k, Result)
     \/ /\ Op(k) = "resolve" /\ Complete(k, Result)
        /\ Expire(Arg(k)[1], Arg(k)[2]) \/ PersistFails(Arg(k)[1], Arg(k)[2])
     \/ /\ Op(k) \in {"open", "close", "prepare", "confirm", "resolve"}
        /\ OperatorRefused /\ Complete(k, Result)
  /\ UNCHANGED mediaVars

\* A media write is invoked with its artifacts pinned, or not at all.
MediaRoute(k) ==
  /\ Op(k) = "media"
  /\ IF ResolveAll(ArgSet(k))
     THEN /\ Pin(ArgSet(k), k)
          /\ run' = [run EXCEPT ![k] = "invoking"]
          /\ UNCHANGED <<load, callVars, frame, tableVars, draining>>
     ELSE Complete(k, Result) /\ UNCHANGED mediaVars
  /\ UNCHANGED operatorVars

InvokeRoute(k) ==
  /\ Op(k) \in {"read", "preview", "write"}
  /\ run' = [run EXCEPT ![k] = "invoking"]
  /\ UNCHANGED <<load, callVars, frame, tableVars, draining, mediaVars, operatorVars>>

\* _admitted_request_pipeline, up to the dispatcher.
Begin(k) ==
  /\ run[k] = "scheduled"
  /\ \/ RefuseDraining(k)
     \/ /\ ~draining
        /\ \/ IngestRoute(k) \/ ReleaseRoute(k) \/ OperatorRoute(k)
           \/ MediaRoute(k) \/ InvokeRoute(k)
  /\ UNCHANGED worldVars

\* Fault: the token is looked up, and used up only when the write is done.
ExecuteEarly(k) ==
  /\ run[k] = "invoking" /\ Op(k) = "write" /\ Arg(k)[1] \in valid
  /\ run' = [run EXCEPT ![k] = "executing"]
  /\ wrote' = wrote \cup {<<Arg(k)[1], k>>}
  /\ UNCHANGED <<load, callVars, frame, tableVars, valid, unsure, raised,
                 draining, mediaVars, operatorVars>>

\* The write kernel, one invocation at a time, uses the token up and goes on.
Execute(k) ==
  /\ run[k] = "invoking" /\ Op(k) = "write" /\ Arg(k)[1] \in valid
  /\ \A j \in Calls : run[j] # "executing"
  /\ run' = [run EXCEPT ![k] = "executing"]
  /\ valid' = valid \ {Arg(k)[1]}
  /\ wrote' = wrote \cup {<<Arg(k)[1], k>>}
  /\ UNCHANGED <<load, callVars, frame, tableVars, unsure, raised, draining,
                 mediaVars, operatorVars>>

--------------------------------------------------------------------------------
(* The answer to an invocation.                                            *)

Blocks == {"data", "trace", "policy", "scalars", "mandatory"}

\* Sizes are in units of the budget of optional blocks; two fill a frame.
Sizes == {0, 1, 3}
Weight(size, S) == LET in(b) == IF b \in S THEN size[b] ELSE 0
                   IN in("data") + in("trace") + in("policy") + in("scalars") + in("mandatory")

\* _fit_optional_budget: data goes first, then the trace, then the policy.
Budgeted(size) ==
  CHOOSE S \in {{"data", "trace", "policy"}, {"trace", "policy"}, {"policy"}, {}} :
    /\ Weight(size, S) <= 1
    /\ \A T \in {{"data", "trace", "policy"}, {"trace", "policy"}, {"policy"}} :
         S \subseteq T /\ S # T => Weight(size, T) > 1

\* Fault: no floor; the frame that can not be encoded is given up.
FailureFrameNoFloor(size) ==
  LET rungs == {Budgeted(size) \cup {"scalars", "mandatory"}, {"scalars", "mandatory"},
                {"mandatory"}}
      fit == {S \in rungs : Weight(size, S) <= 2}
  IN IF fit = {} THEN {} ELSE CHOOSE S \in fit : \A T \in fit : T \subseteq S

\* _failure_frame: the first rung that can be encoded; the floor cuts the
\* mandatory facts to a fixed length, and always can.
FailureFrame(size) ==
  LET rungs == {Budgeted(size) \cup {"scalars", "mandatory"}, {"scalars", "mandatory"},
                {"mandatory"}}
      fit == {S \in rungs : Weight(size, S) <= 2}
  IN IF fit = {} THEN {"mandatory"} ELSE CHOOSE S \in fit : \A T \in fit : T \subseteq S

\* What a failure that the executor returned in doubt tells: its data hold the
\* facts, and the frame whatever fits.
FailureAnswers ==
  {[Result EXCEPT !.facts = "mandatory" \in FailureFrame(size)] : size \in [Blocks -> Sizes]}

\* An exception, perhaps after the effect began, which the dispatcher turns into
\* a failure without data.
Raises(k) ==
  /\ run[k] = "executing" /\ raised' = raised \cup {k}
  /\ Complete(k, Result)
  /\ UNCHANGED <<valid, unsure>>

\* An answer without doubt, which may carry a token; a failure in doubt; an
\* exception; an error that no run answers for.
Outcome(k) ==
  \/ /\ Complete(k, Result) /\ UNCHANGED <<unsure, raised>>
     /\ \/ UNCHANGED valid
        \/ Op(k) = "preview" /\ valid' = valid \cup {k}
  \/ /\ run[k] = "executing" /\ unsure' = unsure \cup {k}
     /\ \E a \in FailureAnswers : Complete(k, a)
     /\ UNCHANGED <<valid, raised>>
  \/ Raises(k)
  \/ Abandon(k) /\ UNCHANGED <<valid, unsure, raised>>

\* The invocation returns or raises; the artifacts are unpinned in any case.
End(k) ==
  /\ run[k] \in {"invoking", "executing"}
  /\ Unpin(k) /\ Outcome(k)
  /\ UNCHANGED <<wrote, operatorVars>>

--------------------------------------------------------------------------------
(* Shutdown (dispatcher.py, stop).                                         *)

\* New requests are refused, sessions and unpinned artifacts go, the endpoint
\* closes; connections are cut.
BeginDrain ==
  /\ ~draining /\ draining' = TRUE
  /\ CloseAll /\ Cleanup
  /\ handler' = [k \in Calls |-> IF handler[k] = "waiting" THEN "over"
                                 ELSE handler[k]]
  /\ UNCHANGED <<load, asked, work, of, reply, run, frame, tableVars, worldVars>>

\* All admitted work ended: tokens are revoked, and what was pinned goes too.
EndDrain ==
  /\ draining /\ \A k \in Calls : run[k] \notin {"invoking", "executing"}
  /\ valid' = {} /\ Cleanup
  /\ UNCHANGED <<load, callVars, run, frame, tableVars, wrote, unsure, raised,
                 draining, operatorVars>>

OwnerStep(k) == Process(k) \/ Begin(k) \/ End(k)

Next ==
  \/ BeginDrain \/ EndDrain
  \/ \E k \in Calls :
       \/ Leave(k) \/ OwnerStep(k) \/ Execute(k)
       \/ \E r \in Asks(k) : Send(k, r)
  \/ /\ \E d \in Digests : Tamper(d)
     /\ UNCHANGED <<load, callVars, run, frame, tableVars, worldVars, draining, operatorVars>>

\* The loop runs what is ready, and every invocation returns some day.
Fairness == \A k \in Calls : WF_vars(OwnerStep(k))

Spec == Init /\ [][Next]_vars /\ Fairness

--------------------------------------------------------------------------------
LiveRuns == {k \in Calls : run[k] \notin {"none", "over"}}

\* A request is never run twice at the same time: every run that is alive is
\* the one its id leads to, whatever was evicted, abandoned or left by its
\* caller, so that the next retry will join it.
OneLiveRun ==
  \A k \in LiveRuns : inflight[asked[k].id] = k

\* Whoever is given the frame of a run asked for just that: the same id and
\* the same operation on the same things.
AnswersAreForTheRequest ==
  \A k \in Calls : LET j == reply[k].run IN
    j # None => asked[j].id = asked[k].id /\ SameRequest(j, k)

\* A request whose answer was given is run again only when so many other ids
\* were used after its own last use that the table had to forget it.
RunAgainOnlyForgotten ==
  [][\A k \in Calls :
       run[k] = "none" /\ run'[k] # "none" /\ last[asked[k].id] # None =>
         Cardinality(since[asked[k].id]) >= MaxCompleted]_vars

\* Retries, evictions and abandoned runs never make a second write of what was
\* approved once.
OneWritePerToken ==
  \A x, y \in wrote : x[1] = y[1] => x = y

\* Neither a request nor what was approved once is ever done twice.
NothingRunsTwice == OneLiveRun /\ OneWritePerToken

\* Nobody who is given the frame of a result that was returned in doubt misses
\* that the world may have changed, however much the frame had to leave out
\* and however late or often the frame is given.
DoubtSurvivesTheFrame ==
  \A k \in Calls : reply[k].run \in unsure => reply[k].facts

\* What a client is told is about its own request, and tells of any doubt that
\* the execution returned with.
AnswersAreTrue == AnswersAreForTheRequest /\ DoubtSurvivesTheFrame

\* What is documented: the mandatory facts reach the client of every failed
\* outcome that may have had an effect.  Not so when the execution raised.
DoubtIsTold ==
  \A k \in Calls : reply[k].run \in unsure \cup raised => reply[k].facts

\* The owner never removes a file that a live reference leads to, least of all
\* one that a running request reads.
MediaStays ==
  /\ \A r \in Refs : pins[r] # {} => r \in Live
  /\ \A r \in Live : file[artifact[r]] = "whole" \/ artifact[r] \in touched

\* "Released" is the truth: a file without a reference is one whose removal
\* failed in a cleanup, or that an older owner left.
NothingLeftBehind ==
  \A d \in Digests : file[d] # "absent" =>
    d \in residue \/ \E r \in Live : artifact[r] = d

\* References and files agree, in both directions.
MediaIntact == MediaStays /\ NothingLeftBehind

\* A fact that an operator committed to can be driven to durability by the
\* session that holds it, until the owner drains.
ContinuationReachable == draining \/ Continuable

\* Whoever waits for a run is answered, also when its own thread is gone.
WorkEnds == \A k \in Calls : work[k] \in {"queued", "joined"} ~> work[k] = "done"
================================================================================
