-------------------------------- MODULE Executors ------------------------------
(* The executors of approved effects: each stages its content, proves it,     *)
(* takes a baseline, crosses the commit gate once and then turns evidence     *)
(* into an outcome (m5_*_executor.py), over the handles of ScopedAuthority    *)
(* and the browser of LeasedBroker.  Invocations are admitted one at a time;  *)
(* the same handle may also be called by another task (Stray).                *)
EXTENDS LeasedBroker, Sequences, FiniteSets

CONSTANTS Stray,        \* the other task
          Workloads     \* the attempts that may be issued, how often Stray calls
                        \* and how often the world, or a cancellation, interferes

\* Only content has media.  The evidence of a plain post is its text: no other
\* content has it, nor a post of the same account from elsewhere.
ASSUME ExecutorAssumption ==
  /\ ActionOf \in [Attempts -> {"post", "reply", "quote", "engage", "delete"}]
  /\ MediaOf \in [Attempts -> Nat]
  /\ \A a \in Attempts \ Content : MediaOf[a] = 0
  /\ NoOne \notin Attempts \cup {Stray} /\ Stray \notin Attempts
  /\ Workloads \subseteq [attempts : SUBSET Attempts, strays : Nat, surprises : Nat]

ASSUME TextAssumption ==
  \A a \in Content : ActionOf[a] = "post" =>
    TextOf[a] # "other" /\ \A b \in Content : TextOf[b] = TextOf[a] => a = b

VARIABLES call,         \* the call in flight of each task
          phase,        \* where the executor of each attempt is
          frame,        \* the locals of its execution
          told,         \* what the caller is told
          strays, surprises, load

executorVars == <<call, phase, frame, told, strays, surprises, load>>
vars == <<authorityVars, brokerVars, executorVars>>

Tasks == Attempts \cup {Stray}

\* The step of its script, what its last call and its mutation returned, what
\* it saw before it crossed and the new post it found afterwards.
Entry == [pc |-> 1, result |-> "none", mutated |-> "none",
          baseline |-> {}, seen |-> NoOne]

NoCall == [for |-> NoOne, op |-> "none", at |-> "idle", gen |-> 0]

--------------------------------------------------------------------------------
(* What each executor does, in order.                                         *)

PostSteps == <<"fill_composer">>
ReplySteps == <<"open_reply", "fill_reply">>
QuoteSteps == <<"open_quote", "fill_quote">>

StagingSteps(a) ==
  CASE ActionOf[a] = "post"  -> PostSteps
    [] ActionOf[a] = "reply" -> ReplySteps
    [] ActionOf[a] = "quote" -> QuoteSteps

\* Each item is attached, then proved to be the next one ready.
MediaSteps(a) ==
  [i \in 1..(2 * MediaOf[a]) |-> IF i % 2 = 1 THEN "attach" ELSE "ready"]

\* What is asked of the site once the submit may have happened; content with
\* media is also counted on the published post.
PostEvidence == <<"capture", "verify">>
ReplyEvidence == <<"capture", "verify">>
QuoteEvidence == <<"capture", "verify">>
MediaEvidence == <<"capture", "verify", "count">>

EvidenceSteps(a) ==
  CASE MediaOf[a] > 0 -> MediaEvidence
    [] MediaOf[a] = 0 /\ ActionOf[a] = "post"  -> PostEvidence
    [] MediaOf[a] = 0 /\ ActionOf[a] = "reply" -> ReplyEvidence
    [] MediaOf[a] = 0 /\ ActionOf[a] = "quote" -> QuoteEvidence

ContentSteps(a) ==
  StagingSteps(a) \o MediaSteps(a) \o <<"recheck", "baseline", "submit">>
  \o EvidenceSteps(a)

EngageSteps == <<"apply", "look">>
DeleteSteps == <<"look_present", "apply", "look">>

Script(a) ==
  CASE ActionOf[a] = "engage" -> EngageSteps
    [] ActionOf[a] = "delete" -> DeleteSteps
    [] OTHER -> ContentSteps(a)

Step(a) == Script(a)[frame[a].pc]
AtEnd(a) == frame[a].pc > Len(Script(a))
Crossing(a) == Step(a) \in {"submit", "apply"}
Crossed(a) == permit[a] = "consumed"

Running == {a \in Attempts : phase[a] \notin {"idle", "over"}}

Init ==
  /\ AuthorityInit /\ BrokerInit
  /\ call = [c \in Tasks |-> NoCall]
  /\ phase = [a \in Attempts |-> "idle"]
  /\ frame = [a \in Attempts |-> Entry]
  /\ told = [a \in Attempts |-> "nothing"]
  /\ strays = 0 /\ surprises = 0
  /\ load \in Workloads

\* Bound: what may happen at any time happens this often.
Surprise == surprises < load.surprises /\ surprises' = surprises + 1

--------------------------------------------------------------------------------
(* One call: begun, admitted to the browser, worked on, ended.                *)

\* What the handle says to a call: a denial is raised, an exhausted effect
\* handle answers a failure.
Admits(a, op) ==
  CASE op \in Staging -> MayBeginStage(a, op)
    [] op = "close"   -> MayClean(a)
    [] op = "submit"  -> ~Exhausted(a) /\ MayBeginEffect(a)
    [] op = "apply"   -> ~Exhausted(a)
    [] OTHER -> TRUE

Begun(a, op) ==
  CASE op \in Staging -> StageBegun(a)
    [] op = "close"   -> CleanupBegun(a)
    [] op = "submit"  -> EffectBegun(a)
    [] OTHER -> prep[a]

Finished(k, res) ==
  CASE k.op \in Staging -> StageFinished(k.for, k.op, k.gen, res = "ok")
    [] k.op = "close"   -> CleanupFinished(k.for)
    [] k.op = "submit"  -> EffectFinished(k.for)
    [] OTHER -> prep[k.for]

Returned(c, res) == frame' = IF c = Stray THEN frame ELSE [frame EXCEPT ![c].result = res]

Begin(c, a, op) ==
  IF Admits(a, op)
  THEN /\ call' = [call EXCEPT ![c] =
                     [for |-> a, op |-> op, at |-> "waits", gen |-> prep[a].gen]]
       /\ prep' = [prep EXCEPT ![a] = Begun(a, op)]
       /\ Returned(c, "none")
  ELSE Returned(c, "raised") /\ UNCHANGED <<call, prep>>

\* Fault: an interrupted call keeps the operation lock.
EndHolding(c, res) ==
  /\ call' = [call EXCEPT ![c] = NoCall]
  /\ prep' = [prep EXCEPT ![call[c].for] = Finished(call[c], res)]
  /\ lock' = IF lock = c /\ res # "raised" THEN NoOne ELSE lock
  /\ Returned(c, res)

End(c, res) ==
  /\ call' = [call EXCEPT ![c] = NoCall]
  /\ prep' = [prep EXCEPT ![call[c].for] = Finished(call[c], res)]
  /\ lock' = IF lock = c THEN NoOne ELSE lock
  /\ Returned(c, res)

atExecutor == <<phase, told, strays, surprises, load>>
atSite == <<killed, effects, satisfied>>
atLease == <<owner, context, page, spoiled>>

Goes(c, at) == call' = [call EXCEPT ![c].at = at] /\ UNCHANGED <<prep, frame>>

\* The task is cancelled while it waits for the operation lock.
Cancelled(c) ==
  /\ call[c].at = "waits"
  /\ End(c, "raised")
  /\ spoiled' = (spoiled \/ (call[c].op = "close" /\ owner))
  /\ Surprise
  /\ UNCHANGED <<standing, revoked, permit, owner, context, page, atSite, phase, told,
                 strays, load>>

Enter(c) ==
  /\ call[c].at = "waits" /\ lock = NoOne
  /\ IF Entitled(call[c].op) /\ Guarded(call[c].op)
     THEN /\ lock' = c /\ Goes(c, "works")
          /\ owner' = (owner \/ call[c].op \in Opening)
     ELSE End(c, "failed") /\ UNCHANGED owner
  /\ UNCHANGED <<standing, revoked, permit, context, page, spoiled, atSite, atExecutor>>

\* The reversible operations: their awaits may end any way.
Work(c) ==
  /\ call[c].at = "works"
  /\ call[c].op \in Staging \cup {"close"}
  /\ \E res \in Results :
       /\ CASE call[c].op = "fill_composer" -> OpenAndFill(call[c].for, res)
            [] call[c].op \in Opening \ Filling -> OpenContext(call[c].for, res)
            [] call[c].op \in Filling \ Opening -> FillContext(call[c].for, res)
            [] call[c].op = "attach" -> AttachToContext(res)
            [] call[c].op = "close" -> CloseContext(res)
       /\ End(c, res)
  /\ UNCHANGED <<standing, revoked, permit, atSite, atExecutor>>

\* Ahead of the gate: the tracker is asked again, the composer proved and its
\* button bound; a control that is already as wanted needs no click.
Prove(c) ==
  /\ call[c].at = "works" /\ call[c].op \in {"submit", "apply"}
  /\ LET a == call[c].for IN
     \/ /\ a \in Content => EffectReady(a) /\ Matches(a)
        /\ Goes(c, "gate") /\ UNCHANGED lock
     \/ \E res \in {"failed", "raised"} : End(c, res)
     \/ ActionOf[a] = "engage" /\ a \in satisfied /\ End(c, "ok")
  /\ UNCHANGED <<standing, revoked, permit, atLease, atSite, atExecutor>>

\* The guard and the commit gate, without an await between them.
Gate(c) ==
  /\ call[c].at = "gate"
  /\ LET a == call[c].for IN
     IF killed THEN End(c, "failed") /\ UNCHANGED permit
     ELSE \E answer \in GateAnswers(a) :
            /\ permit' = [permit EXCEPT ![a] = answer]
            /\ IF answer = "consumed" THEN Goes(c, "clicks") /\ UNCHANGED lock
               ELSE \E res \in {"failed", "raised"} : End(c, res)
  /\ UNCHANGED <<standing, revoked, atLease, atSite, atExecutor>>

Click(c) ==
  /\ call[c].at = "clicks"
  /\ \E res \in Results :
       /\ LET a == call[c].for IN
          CASE a \in Content -> ClickSubmit(a, res)
            [] ActionOf[a] = "engage" -> ClickControl(a, res)
            [] ActionOf[a] = "delete" -> ConfirmDeletion(a, res)
       /\ End(c, res)
  /\ UNCHANGED <<standing, revoked, permit, killed, atExecutor>>

--------------------------------------------------------------------------------
(* Evidence.                                                                  *)

\* Read back in place: the text and, where media are posted, the images of the
\* composer, marked or not.
Images == page.approved + page.loose
Attached(a) == Cardinality({i \in 1..frame[a].pc : Script(a)[i] = "attach"})
Composed(a) ==
  page.bound /\ IF Step(a) = "ready" THEN Images = Attached(a)
                ELSE page.text = TextOf[a] /\ (MediaOf[a] > 0 => Images = MediaOf[a])

\* The published post shows its account and its text, a reply its thread, a
\* quote what it quotes: all that is asked of a post is its text.
ShowsPost(a, e) == e.text = TextOf[a]
ShowsReply(a, e) == e.text = TextOf[a] /\ e.on = a

\* Fault: a quote is known by its text.
ShowsQuoteText(a, e) == e.text = TextOf[a]

ShowsQuote(a, e) == e.text = TextOf[a] /\ e.on = a

Shows(a, e) ==
  CASE ActionOf[a] = "post"  -> ShowsPost(a, e)
    [] ActionOf[a] = "reply" -> ShowsReply(a, e)
    [] ActionOf[a] = "quote" -> ShowsQuote(a, e)

\* Status ids that were there before are no candidates.
Candidates(a) == Posts \ frame[a].baseline

StateShown(a) == IF Step(a) = "look" THEN a \in satisfied ELSE a \notin satisfied

Proved(a, op) ==
  CASE op = "baseline" -> page.bound
    [] op = "capture" -> Candidates(a) # {}
    [] op = "verify"  -> Shows(a, frame[a].seen)
    [] op = "count"   -> frame[a].seen.media = MediaOf[a]
    [] OTHER -> StateShown(a)

Inspect(a) ==
  /\ phase[a] = "steps" /\ ~AtEnd(a) /\ Step(a) \in {"ready", "recheck"}
  /\ frame[a].result = "none"
  /\ \E res \in Results : (res = "ok" => Composed(a)) /\ Returned(a, res)
  /\ UNCHANGED <<authorityVars, brokerVars, call, atExecutor>>

Evidence(a) ==
  /\ call[a].at = "works"
  /\ call[a].op \in {"baseline", "capture", "verify", "count", "look", "look_present"}
  /\ \E res \in Results :
       /\ res = "ok" => Proved(a, call[a].op)
       /\ call' = [call EXCEPT ![a] = NoCall] /\ lock' = NoOne
       /\ \E s \in IF res = "ok" /\ call[a].op = "baseline" THEN SUBSET Posts
                   ELSE {frame[a].baseline},
             e \in IF res = "ok" /\ call[a].op = "capture" THEN Candidates(a)
                   ELSE {frame[a].seen} :
            frame' = [frame EXCEPT ![a].result = res, ![a].baseline = s, ![a].seen = e]
  /\ UNCHANGED <<authorityVars, atLease, atSite, atExecutor>>

--------------------------------------------------------------------------------
(* The executor of an attempt.                                                *)

Rests == <<revoked, permit, brokerVars, strays, surprises, load>>

Over(a, outcome, answer) ==
  /\ standing' = [standing EXCEPT ![a] = outcome]
  /\ told' = [told EXCEPT ![a] = answer]
  /\ phase' = [phase EXCEPT ![a] = "over"]
  /\ frame' = [frame EXCEPT ![a] = Entry]

Goto(a, p) == phase' = [phase EXCEPT ![a] = p] /\ UNCHANGED <<standing, told>>
To(a, p) == Goto(a, p) /\ UNCHANGED frame

\* Fault: invocations overlap.
MayIssueBeside(a) == a \in load.attempts

\* The dispatcher admits one invocation at a time.
MayIssue(a) == a \in load.attempts /\ Running = {}

\* The approval is issued and claimed, the payload validated, the handle made.
Issue(a) ==
  /\ phase[a] = "idle" /\ MayIssue(a)
  /\ \/ Over(a, "clean", "failed")
     \/ /\ phase' = [phase EXCEPT ![a] = "steps"]
        /\ standing' = [standing EXCEPT ![a] = "preparing"]
        /\ UNCHANGED <<told, frame>>
  /\ UNCHANGED <<prep, call, Rests>>

\* The effect handle.  Denied, content is cleaned up and a deletion ends clean;
\* the engagement executor lets the denial out.
Scope(a) ==
  /\ phase[a] = "steps" /\ ~AtEnd(a) /\ Crossing(a) /\ frame[a].result = "none"
  /\ IF MayScope(a)
     THEN prep' = [prep EXCEPT ![a] = Scoped(a)] /\ To(a, "crosses")
     ELSE /\ UNCHANGED prep
          /\ CASE a \in Content -> To(a, "aborts")
               [] ActionOf[a] = "delete" -> Over(a, "clean", "failed")
               [] OTHER -> Over(a, standing[a], "raised")
  /\ UNCHANGED <<call, Rests>>

Start(a) ==
  /\ call[a] = NoCall /\ frame[a].result = "none" /\ ~AtEnd(a)
  /\ \/ phase[a] = "crosses"
     \/ phase[a] = "steps" /\ ~Crossing(a) /\ Step(a) \notin {"ready", "recheck"}
  /\ Begin(a, a, Step(a))
  /\ UNCHANGED <<standing, phase, told, Rests>>

NextStep(a, mutation) ==
  /\ Goto(a, "steps")
  /\ frame' = [frame EXCEPT ![a].pc = @ + 1, ![a].result = "none", ![a].mutated = mutation]

\* A step that did not succeed aborts; after the crossing it leaves the outcome
\* to what the evidence showed so far.
Advance(a) ==
  /\ phase[a] = "steps" /\ ~AtEnd(a) /\ frame[a].result # "none"
  /\ CASE frame[a].result = "ok" -> NextStep(a, frame[a].mutated)
       [] frame[a].result # "ok" /\ Crossed(a) -> To(a, "records")
       [] frame[a].result # "ok" /\ ~Crossed(a) /\ a \in Content -> To(a, "aborts")
       [] OTHER -> Over(a, "clean", "failed")
  /\ UNCHANGED <<prep, call, Rests>>

Mutation(a) == frame' = [frame EXCEPT ![a].mutated = frame[a].result]
Unwind(a) == Goto(a, IF a \in Content THEN "aborts" ELSE "settles") /\ Mutation(a)

\* Fault: a failed click is taken for no effect.
AfterCrossingByResult(a) ==
  /\ phase[a] = "crosses" /\ frame[a].result # "none"
  /\ IF Crossed(a) /\ frame[a].result = "ok" THEN NextStep(a, "ok") ELSE Unwind(a)
  /\ UNCHANGED <<prep, call, Rests>>

\* What the permit says decides, not what the click returned.
AfterCrossing(a) ==
  /\ phase[a] = "crosses" /\ frame[a].result # "none"
  /\ CASE ~Crossed(a) -> Unwind(a)
       [] Crossed(a) /\ frame[a].result = "raised" -> Goto(a, "records") /\ Mutation(a)
       [] OTHER -> NextStep(a, frame[a].result)
  /\ UNCHANGED <<prep, call, Rests>>

\* Fault: a denial of the effect handle is not cleaned up after.
AbortInPlace(a) ==
  /\ phase[a] = "aborts"
  /\ IF frame[a].result = "none" THEN To(a, "settles") /\ UNCHANGED <<call, prep>>
     ELSE Begin(a, a, "close") /\ Goto(a, "closes")
  /\ UNCHANGED Rests

\* Whatever was staged is cleaned up before the attempt is resolved.
Abort(a) ==
  /\ phase[a] = "aborts"
  /\ Begin(a, a, "close") /\ Goto(a, "closes") /\ UNCHANGED Rests

NoEffectAnswer(a) ==
  IF ActionOf[a] = "engage" /\ frame[a].mutated = "ok" THEN "ok"
  ELSE IF frame[a].result = "raised" /\ (phase[a] = "closes" \/ ActionOf[a] = "engage")
  THEN "raised" ELSE "failed"

\* No effect, unless the reservation is ambiguous; returning an unused permit
\* may fail.
Settle(a) ==
  /\ \/ phase[a] = "closes" /\ call[a] = NoCall /\ frame[a].result # "none"
     \/ phase[a] = "settles"
  /\ \/ Over(a, IF permit[a] = "ambiguous" THEN standing[a] ELSE "clean", NoEffectAnswer(a))
     \/ permit[a] = "issued" /\ Over(a, standing[a], "raised")
  /\ UNCHANGED <<prep, call, Rests>>

Confirms(a) == AtEnd(a) /\ (ActionOf[a] = "engage" => frame[a].mutated = "ok")

RecordedAnswer(a) ==
  IF ActionOf[a] = "engage" /\ frame[a].result = "raised" THEN "raised"
  ELSE IF Confirms(a) THEN "ok" ELSE "unknown"

\* The outcome is made durable before it is told, or the attempt stays open.
Record(a) ==
  /\ phase[a] = "records" \/ (phase[a] = "steps" /\ AtEnd(a))
  /\ \/ Over(a, IF Confirms(a) THEN "confirmed" ELSE "unknown", RecordedAnswer(a))
     \/ Over(a, standing[a], IF ActionOf[a] = "engage" THEN "raised" ELSE "unknown")
  /\ UNCHANGED <<prep, call, Rests>>

--------------------------------------------------------------------------------
(* The rest of the world.                                                     *)

StrayCall ==
  /\ strays < load.strays /\ call[Stray] = NoCall
  /\ \E a \in load.attempts \cap Content :
       /\ standing[a] # "new"
       /\ \E op \in StagingOf(a) \cup {"close"} : Begin(Stray, a, op)
  /\ strays' = strays + 1
  /\ UNCHANGED <<standing, revoked, permit, brokerVars, phase, told,
                 surprises, load>>

atEase == <<call, phase, frame, told, strays, load>>

Revoke(a) ==
  /\ standing[a] = "preparing" /\ a \notin revoked
  /\ revoked' = revoked \cup {a}
  /\ Surprise /\ UNCHANGED <<prep, standing, permit, brokerVars, atEase>>

TripKill ==
  /\ ~killed /\ killed' = TRUE
  /\ revoked' = {a \in Attempts : standing[a] = "preparing"}
  /\ Surprise
  /\ UNCHANGED <<prep, standing, permit, lock, owner, context, page, effects, satisfied,
                 spoiled, atEase>>

Site ==
  /\ PageChanges \/ PostElsewhere \/ Browse \/ (\E a \in load.attempts : DoneByHand(a))
  /\ Surprise /\ UNCHANGED <<authorityVars, atEase>>

TaskStep(c) == Enter(c) \/ Work(c) \/ Prove(c) \/ Gate(c) \/ Click(c)

ExecutorStep(a) ==
  \/ Inspect(a) \/ Evidence(a) \/ Scope(a) \/ Start(a) \/ Advance(a)
  \/ AfterCrossing(a) \/ Abort(a) \/ Settle(a) \/ Record(a)

\* One event loop: any task that is ready, the approval, the switch or the site.
Next ==
  \/ \E c \in Tasks : TaskStep(c) \/ Cancelled(c)
  \/ \E a \in Attempts : Issue(a) \/ ExecutorStep(a) \/ Revoke(a)
  \/ StrayCall \/ TripKill \/ Site

Spec == Init /\ [][Next]_vars

\* The event loop runs what is ready, and a call into the browser returns.
Progress == (\E c \in Tasks : TaskStep(c)) \/ (\E a \in Attempts : ExecutorStep(a))
FairSpec == Spec /\ WF_vars(Progress)

--------------------------------------------------------------------------------

\* Every effect is one a human approved: what a click publishes is exactly the
\* approved text and media in the composer of its own target, although the page
\* changes by itself, other calls of the handle come in between and the proof,
\* the commit gate and the click are separate steps (the proof is repeated
\* inside the click, m5_scoped_write_broker.py click_submit).
ClickIsApproved ==
  \A e \in effects : e.by # NoOne =>
    /\ e.on = e.by /\ e.text = TextOf[e.by] /\ e.media = MediaOf[e.by]

By(a) == {e \in effects : e.by = a}

\* What is recorded and told of an attempt is true: confirmed only when its
\* effect is there, without effect only when it is not, told "failed" only when
\* nothing happened, whatever the click returned and whatever was interrupted
\* (the _terminalize_consumed and _interrupted_submit methods).
OutcomeIsTrue ==
  \A a \in Attempts :
    /\ standing[a] = "confirmed" => IF a \in Content THEN By(a) # {} ELSE a \in satisfied
    /\ standing[a] = "clean" => By(a) = {}
    /\ told[a] = "failed" => By(a) = {}
    /\ told[a] = "ok" => standing[a] = "confirmed" \/ a \in satisfied

\* No other task can clean up through the handle of an attempt that has ended.
Undisturbed(a) == load.strays = 0 \/ load.attempts = {a}

\* Whenever the tracker of an attempt credits it with an open composer, the
\* browser's lease is taken and the bound composer is that attempt's: a result
\* that comes in after a cleanup is not credited (_PreparationTracker.finish_stage),
\* nor does another invocation take the composer over.  The lease is the
\* broker's: a task that still has the handle of an earlier attempt may close the
\* composer of the next one, but never leaves it another's.
StagedMeansHeld ==
  \A a \in Content : prep[a].opened /\ ~Crossed(a) =>
    /\ a \in Running => context \in {a, NoOne}
    /\ Undisturbed(a) => owner /\ context = a

\* Between invocations the composer is free, unless a cleanup or an interrupted
\* submit failed to give it back: no denial, exhausted handle or refused step
\* leaves the browser leased (_abort_precommit, the finally of each executor).
NothingHeldAfterwards ==
  Running = {} /\ load.strays = 0 /\ owner => spoiled

\* Every invocation that started ends, through failed calls, cancellations,
\* revoked approvals and a kill: nobody waits for a lock that is not given back.
AttemptEnds == Running # {} ~> Running = {}

================================================================================
