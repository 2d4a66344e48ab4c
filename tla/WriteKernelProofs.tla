--------------------------- MODULE WriteKernelProofs ---------------------------
(***************************************************************************)
(* Proofs about WriteKernel, for any effects, proposals, tokens, rules and *)
(* writers: the owner's rules bind every execution, what was done is not   *)
(* done again, no write is replayed blindly, no confirmation outlives a    *)
(* verdict it did not know, and recovery keeps its word.                   *)
(***************************************************************************)
EXTENDS WriteKernel, ReconciliationProofs

--------------------------------------------------------------------------------
(***************************************************************************)
(* The owner's rules, in the store's own specification: for any rules and  *)
(* any number of writers, what a confirmation installs is what its owner   *)
(* saw, and nothing else in the document changes.                          *)
(***************************************************************************)

\* A writer that is about to install holds the fence, has read the document
\* that is in the file, and the rule in it is the one its owner saw.
InstallersAreCurrent ==
  \A w \in Writers : job[w].at = "install" =>
    /\ fence = w /\ sound
    /\ job[w].read = doc /\ doc[job[w].rule] = job[w].saw

\* A rule that was seen is confirmed as it was seen.
ReviewsKeepTheWord ==
  \A w \in Writers : job[w].at # "none" /\ job[w].saw # Absent =>
    job[w].says = job[w].saw.says

RulesInv == RuleTypeOK /\ InstallersAreCurrent /\ ReviewsKeepTheWord

--------------------------------------------------------------------------------
\* The two kinds of job.
LEMMA JobIsOne ==
  ASSUME RuleTypeOK, NEW w \in Writers
  PROVE  /\ job[w] \in Jobs
         /\ job[w].at # "none" =>
              job[w] \in [at : {"drafted", "decided", "install"}, rule : Rules,
                          saw : Entries, says : Decisions,
                          read : [Rules -> Entries]]
  BY DEF RuleTypeOK, Jobs, NoJob

\* No step leaves the types.
LEMMA RuleTypes ==
  ASSUME RuleTypeOK, InstallersAreCurrent, RuleNext \/ UNCHANGED ruleVars
  PROVE  RuleTypeOK'
<1>1. CASE UNCHANGED ruleVars
  BY <1>1 DEF RuleTypeOK, ruleVars
<1>2. ASSUME NEW w \in Writers, ConfirmDraft(w) PROVE RuleTypeOK'
  BY <1>2, JobIsOne DEF RuleTypeOK, ConfirmDraft, SetJob, Jobs
<1>3. ASSUME NEW w \in Writers, Enter(w) PROVE RuleTypeOK'
  <2>1. [job[w] EXCEPT !.at = "install", !.read = doc] \in Jobs
    BY <1>3, JobIsOne DEF RuleTypeOK, Enter, Jobs
  <2>2. job' \in [Writers -> Jobs]
    BY <1>3, <2>1 DEF RuleTypeOK, Enter, SetJob
  <2> QED BY <1>3, <2>2 DEF RuleTypeOK, Enter
<1>4. ASSUME NEW w \in Writers, Install(w) PROVE RuleTypeOK'
  <2>1. /\ job[w].rule \in Rules /\ job[w].says \in Decisions
        /\ job[w].read = doc
    BY <1>4, JobIsOne DEF Install, InstallersAreCurrent
  <2>2. doc' \in [Rules -> Entries] /\ now' \in Nat
    BY <1>4, <2>1 DEF RuleTypeOK, Install, Entries
  <2>3. over' \subseteq {r \in Rules : doc'[r] # Absent}
    BY <1>4, <2>1 DEF RuleTypeOK, Install
  <2> QED BY <1>4, <2>2, <2>3 DEF RuleTypeOK, Install, SetJob, Jobs
<1>5. ASSUME NEW w \in Writers, GiveUp(w) PROVE RuleTypeOK'
  BY <1>5 DEF RuleTypeOK, GiveUp, SetJob, Jobs
<1>6. ASSUME NEW w \in Writers, NEW r \in Rules, Review(w, r) PROVE RuleTypeOK'
  BY <1>6 DEF RuleTypeOK, Review, SetJob, Jobs, Entries, Absent, Unread
<1>7. ASSUME NEW w \in Writers, NEW r \in Rules, NEW says \in Decisions,
             Compile(w, r, says)
      PROVE  RuleTypeOK'
  BY <1>7 DEF RuleTypeOK, Compile, SetJob, Jobs, Entries, Unread
<1>8. ASSUME NEW r \in Rules, Save(r) PROVE RuleTypeOK'
  BY <1>8 DEF RuleTypeOK, Save, Entries, Absent
<1>9. CASE Spoil
  BY <1>9 DEF RuleTypeOK, Spoil
<1>10. ASSUME NEW r \in Rules, Lapse(r) PROVE RuleTypeOK'
  BY <1>10 DEF RuleTypeOK, Lapse
<1> QED BY <1>1, <1>2, <1>3, <1>4, <1>5, <1>6, <1>7, <1>8, <1>9, <1>10
        DEF RuleNext, WriterStep, OwnerEdits

\* Only Enter makes an installer, and only while nobody holds the fence; the
\* document changes only in the hands of an installer or without any.
LEMMA CurrentStep ==
  ASSUME RulesInv, RuleTypeOK', RuleNext \/ UNCHANGED ruleVars
  PROVE  InstallersAreCurrent'
<1> USE DEF RulesInv, InstallersAreCurrent
<1>1. CASE UNCHANGED ruleVars
  BY <1>1 DEF ruleVars
<1>2. ASSUME NEW w \in Writers, ConfirmDraft(w) PROVE InstallersAreCurrent'
  BY <1>2, JobIsOne DEF RuleTypeOK, ConfirmDraft, SetJob
<1>3. ASSUME NEW w \in Writers, Enter(w) PROVE InstallersAreCurrent'
  BY <1>3, JobIsOne, RuleAssumption DEF RuleTypeOK, Enter, SetJob
<1>4. ASSUME NEW w \in Writers, Install(w) PROVE InstallersAreCurrent'
  BY <1>4, JobIsOne DEF RuleTypeOK, Install, SetJob, NoJob
<1>5. ASSUME NEW w \in Writers, GiveUp(w) PROVE InstallersAreCurrent'
  BY <1>5 DEF RuleTypeOK, GiveUp, SetJob, NoJob
<1>6. ASSUME NEW w \in Writers, NEW r \in Rules, Review(w, r)
      PROVE  InstallersAreCurrent'
  BY <1>6 DEF RuleTypeOK, Review, SetJob
<1>7. ASSUME NEW w \in Writers, NEW r \in Rules, NEW says \in Decisions,
             Compile(w, r, says)
      PROVE  InstallersAreCurrent'
  BY <1>7 DEF RuleTypeOK, Compile, SetJob
<1>8. ASSUME NEW r \in Rules, Save(r) PROVE InstallersAreCurrent'
  BY <1>8, RuleAssumption DEF Save
<1>9. CASE Spoil
  BY <1>9, RuleAssumption DEF Spoil
<1>10. ASSUME NEW r \in Rules, Lapse(r) PROVE InstallersAreCurrent'
  BY <1>10 DEF Lapse
<1> QED BY <1>1, <1>2, <1>3, <1>4, <1>5, <1>6, <1>7, <1>8, <1>9, <1>10
        DEF RuleNext, WriterStep, OwnerEdits

\* What a writer will say is settled when its job begins.
LEMMA WordStep ==
  ASSUME RulesInv, RuleNext \/ UNCHANGED ruleVars
  PROVE  ReviewsKeepTheWord'
<1> USE DEF RulesInv, ReviewsKeepTheWord
<1>1. CASE UNCHANGED <<job>>
  BY <1>1
<1>2. ASSUME NEW w \in Writers, ConfirmDraft(w) PROVE ReviewsKeepTheWord'
  BY <1>2, JobIsOne DEF RuleTypeOK, ConfirmDraft, SetJob
<1>3. ASSUME NEW w \in Writers, Enter(w) PROVE ReviewsKeepTheWord'
  BY <1>3, JobIsOne DEF RuleTypeOK, Enter, SetJob
<1>4. ASSUME NEW w \in Writers, Install(w) \/ GiveUp(w)
      PROVE ReviewsKeepTheWord'
  BY <1>4 DEF RuleTypeOK, Install, GiveUp, SetJob, NoJob
<1>5. ASSUME NEW w \in Writers, NEW r \in Rules, Review(w, r)
      PROVE  ReviewsKeepTheWord'
  BY <1>5 DEF RuleTypeOK, Review, SetJob
<1>6. ASSUME NEW w \in Writers, NEW r \in Rules, NEW says \in Decisions,
             Compile(w, r, says)
      PROVE  ReviewsKeepTheWord'
  BY <1>6 DEF RuleTypeOK, Compile, SetJob
<1> QED BY <1>1, <1>2, <1>3, <1>4, <1>5, <1>6
        DEF RuleNext, WriterStep, OwnerEdits, Save, Spoil, Lapse, ruleVars

\* The invariant of the store, at first, whatever the document says ...
LEMMA RulesStart ==
  ASSUME NEW d \in [Rules -> Entries], RuleInit(d) PROVE RulesInv
  BY RuleAssumption
  DEF RuleInit, RulesInv, RuleTypeOK, InstallersAreCurrent, ReviewsKeepTheWord,
      Jobs, NoJob

\* ... and after every step.
LEMMA RulesStep == RulesInv /\ (RuleNext \/ UNCHANGED ruleVars) => RulesInv'
  BY RuleTypes, CurrentStep, WordStep DEF RulesInv

\* A writer's job ends with a change of the document only in Install.
LEMMA WordIsKept ==
  ASSUME RulesInv, RuleNext \/ UNCHANGED ruleVars, NEW w \in Writers,
         job[w].at = "install", job'[w] = NoJob, doc' # doc
  PROVE  LET r == job[w].rule IN
         /\ sound
         /\ \A s \in Rules \ {r} : doc'[s] = doc[s]
         /\ doc[r] # Absent => doc'[r].says = doc[r].says
<1>1. /\ fence = w /\ sound /\ job[w].read = doc
      /\ doc[job[w].rule] = job[w].saw
      /\ job[w].rule \in Rules /\ doc \in [Rules -> Entries]
      /\ w # Nobody
  BY JobIsOne, RuleAssumption DEF RulesInv, InstallersAreCurrent, RuleTypeOK
<1>2. PICK v \in Writers : Install(v)
  BY <1>1 DEF RuleNext, WriterStep, OwnerEdits, ConfirmDraft, Enter, GiveUp,
     Review, Compile, Save, Spoil, Lapse, ruleVars
<1>3. v = w
  BY <1>1, <1>2 DEF Install, RulesInv, InstallersAreCurrent
<1>4. job[w].saw # Absent => job[w].says = job[w].saw.says
  BY DEF RulesInv, ReviewsKeepTheWord
<1> QED BY <1>1, <1>2, <1>3, <1>4 DEF Install

\* The rules keep their word, whoever writes, if he takes the fence
\* (user_rules.py, append_strict and replace_if_current).
THEOREM RulesStand == RuleSpec => RulesKeepTheirWord
<1>1. (\E d \in [Rules -> Entries] : RuleInit(d)) => RulesInv
  BY RulesStart
<1>2. RulesInv /\ [RuleNext]_ruleVars => RulesInv'
  BY RulesStep
<1>3. RulesInv /\ [RuleNext]_ruleVars =>
        [\A w \in Writers :
           LET r == job[w].rule IN
           job[w].at = "install" /\ job'[w] = NoJob /\ doc' # doc =>
             /\ sound
             /\ \A s \in Rules \ {r} : doc'[s] = doc[s]
             /\ doc[r] # Absent => doc'[r].says = doc[r].says]_ruleVars
  BY WordIsKept
<1> QED BY <1>1, <1>2, <1>3, PTL DEF RuleSpec, RulesKeepTheirWord

--------------------------------------------------------------------------------
(***************************************************************************)
(* The kernel: what its pipeline knows at each stage.                      *)
(***************************************************************************)
\* Effects whose crossing the ledger knows.
Fenced == crossed \cap Required

KernelTypeOK ==
  /\ inv \in [at : {"none", "refresh", "join", "check", "preview", "confirm",
                    "execute"},
              key : Keys \cup {NoKey}, token : Tokens \cup {NoToken},
              by : {"nobody", "human", "rule"}, tries : SUBSET Effects]
  /\ cast \in Casts

\* Only an execution has attempts, of its own intent.
TriesAreOfTheIntent ==
  /\ inv.at # "execute" => inv.tries = {}
  /\ \A e \in inv.tries : KeyOf[e] = inv.key

\* What passed the rule gate was not banned throughout, and a rule stands in for
\* a human only where it was heard.
GateWasObeyed ==
  inv.at \in {"confirm", "execute"} =>
    heard.banned = {} /\ (inv.by # "human" => heard.allowed)

\* What passed the checks is not in the dedupe store, which knows what is done.
PassedIsFresh ==
  /\ inv.at \in {"preview", "confirm", "execute"} => inv.key \notin dedupe
  /\ done \subseteq dedupe

PipelineInv ==
  KernelTypeOK /\ TriesAreOfTheIntent /\ GateWasObeyed /\ PassedIsFresh

--------------------------------------------------------------------------------
\* What a kernel step is to recovery: a failure only where the process restarts.
LEMMA KernelIsSteady ==
  ASSUME RecoveryTypeOK, cast \in Casts, KernelStep
  PROVE  Restart \/ Steady
<1> USE DEF recoveryVars, ownerVars, recVars, fileVars
<1>1. ASSUME UNCHANGED recoveryVars PROVE OnlyTokens
  BY <1>1 DEF OnlyTokens, RecoveryTypeOK
<1>2. CASE Refresh \/ Refreshed \/ RefreshFails
  BY <1>2 DEF Refresh, Refreshed, RefreshFails, Steady
<1>3. CASE PassChecks \/ Duplicate \/ RuleGate \/ RuleApproves \/ Leave
  BY <1>1, <1>3 DEF PassChecks, Duplicate, RuleGate, RuleApproves, Leave, Steady
<1>4. ASSUME NEW k \in Keys, NEW t,
             WindowPasses(k) \/ DedupeExpires(k) \/ Start(k, t)
      PROVE  OnlyTokens
  BY <1>1, <1>4 DEF WindowPasses, DedupeExpires, Start
<1>5. ASSUME NEW t \in cast.tokens, MintToken(t) \/ UseToken(t) \/ TokenExpires(t)
      PROVE  OnlyTokens
  <2>1. t \in Tokens
    BY KeyAssumption
  <2> QED BY <1>5, <2>1
          DEF MintToken, UseToken, TokenExpires, OnlyTokens, RecoveryTypeOK
<1>6. ASSUME NEW ok \in BOOLEAN, Return(ok) PROVE OnlyTokens
  BY <1>1, <1>6 DEF Return
<1>7. ASSUME NEW e \in Effects, Attempt(e) \/ AttemptStep(e)
      PROVE  Steady
  <2>1. OwnerStep(e)
    BY <1>7 DEF Attempt, AttemptStep, OwnerStep
  <2> QED BY <2>1 DEF Steady
<1>8. ASSUME CoordinatorStep \/ \E a \in cast.authorities : OperatorStep(a)
      PROVE  Steady
  BY <1>8, KeyAssumption DEF Steady
<1>9. CASE GatewayHeld /\ (Publish \/ PublishFails)
  BY <1>9 DEF Steady
<1> QED BY <1>2, <1>3, <1>4, <1>5, <1>6, <1>7, <1>8, <1>9
        DEF KernelStep, Steady

\* A step of the rules is one of the store.
LEMMA RulesAreStore ==
  ASSUME cast \in Casts, RuleStep PROVE RuleNext
  BY KeyAssumption DEF RuleStep, RuleNext

\* The three answers of the rules.
LEMMA MatchMeans ==
  ASSUME NEW k
  PROVE  /\ Match(k) # "never" => ~Says(k, "never")
         /\ Match(k) = "allow" =>
              k \in Ceiling /\ Says(k, "allow") /\ ~Says(k, "ask")
<1>1. CASE Says(k, "never")
  BY <1>1 DEF Match
<1>2. CASE ~Says(k, "never") /\ Says(k, "allow") /\ ~Says(k, "ask") /\ k \in Ceiling
  BY <1>2 DEF Match
<1>3. CASE ~Says(k, "never") /\ ~(Says(k, "allow") /\ ~Says(k, "ask") /\ k \in Ceiling)
  BY <1>3 DEF Match
<1> QED BY <1>1, <1>2, <1>3

--------------------------------------------------------------------------------
(* The pipeline: stages, the gate and the dedupe store.                    *)

\* What each kernel step does to the invocation.
InvMoves ==
  \/ inv' = inv
  \/ inv' = NoInvocation
  \/ /\ inv.at = "none"
     /\ inv'.at = "refresh" /\ inv'.tries = {}
  \/ /\ inv.at = "refresh" /\ inv' = [inv EXCEPT !.at = "join"]
  \/ /\ inv.at = "join" /\ inv' = [inv EXCEPT !.at = "check"] /\ Publish
  \/ /\ inv.at = "check" /\ inv' = [inv EXCEPT !.at = "preview"]
     /\ inv.key \notin dedupe /\ Clear /\ UNCHANGED recoveryVars
  \/ RuleGate
  \/ /\ inv.at = "confirm" /\ inv' = [inv EXCEPT !.at = "execute"]
  \/ \E e \in Effects : /\ inv.at = "execute" /\ Attempt(e)
                        /\ inv' = [inv EXCEPT !.tries = @ \cup {e}]

\* Those are the moves of the invocation, and it stays one.
LEMMA KernelMovesInv ==
  ASSUME KernelTypeOK, KernelStep
  PROVE  InvMoves /\ inv' \in [at : {"none", "refresh", "join", "check", "preview",
                                    "confirm", "execute"},
              key : Keys \cup {NoKey}, token : Tokens \cup {NoToken},
              by : {"nobody", "human", "rule"}, tries : SUBSET Effects]
<1> USE DEF KernelTypeOK
<1>1. CASE Refresh \/ Refreshed \/ PassChecks \/ RuleApproves
  BY <1>1 DEF Refresh, Refreshed, PassChecks, RuleApproves, GoTo, InvMoves
<1>2. CASE RefreshFails \/ Duplicate \/ Leave \/ Restart
  BY <1>2 DEF RefreshFails, Duplicate, Leave, Restart, InvMoves, NoInvocation
<1>3. CASE RuleGate
  BY <1>3 DEF RuleGate, InvMoves
<1>4. ASSUME NEW k \in Keys, WindowPasses(k) \/ DedupeExpires(k)
      PROVE  inv' = inv
  BY <1>4 DEF WindowPasses, DedupeExpires
<1>5. ASSUME NEW k \in Keys, NEW t \in Tokens \cup {NoToken}, Start(k, t)
      PROVE  /\ inv.at = "none" /\ inv'.at = "refresh" /\ inv'.tries = {}
             /\ inv' \in [at : {"refresh"}, key : {k}, token : {t},
                          by : {"nobody"}, tries : {{}}]
  BY <1>5 DEF Start, NoInvocation
<1>6. ASSUME NEW t \in cast.tokens, MintToken(t) \/ UseToken(t) \/ TokenExpires(t)
      PROVE  \/ inv' \in {inv, NoInvocation}
             \/ inv.at = "confirm" /\ inv' = [inv EXCEPT !.at = "execute"]
  BY <1>6 DEF MintToken, UseToken, TokenExpires, kernelVars, GoTo
<1>7. ASSUME NEW ok \in BOOLEAN, Return(ok) PROVE inv' = NoInvocation
  BY <1>7 DEF Return
<1>8. ASSUME NEW e \in Effects, Attempt(e)
      PROVE  /\ inv.at = "execute"
             /\ inv' = [inv EXCEPT !.tries = @ \cup {e}]
  BY <1>8 DEF Attempt
<1>9. ASSUME NEW e \in Effects, AttemptStep(e) PROVE inv' = inv
  BY <1>9 DEF AttemptStep, kernelVars
<1>10. NoInvocation \in [at : {"none"}, key : {NoKey}, token : {NoToken},
                         by : {"nobody"}, tries : {{}}]
  BY DEF NoInvocation
<1>11. ASSUME UNCHANGED kernelVars PROVE inv' = inv
  BY <1>11 DEF kernelVars
<1>12. InvMoves
  BY <1>1, <1>2, <1>3, <1>4, <1>5, <1>6, <1>7, <1>8, <1>9, <1>11
  DEF KernelStep, InvMoves
<1> QED BY <1>1, <1>2, <1>3, <1>4, <1>5, <1>6, <1>7, <1>8, <1>9, <1>10, <1>11,
           <1>12 DEF KernelStep, RuleGate, InvMoves

\* The dedupe store grows only when an execution returns, by what is done, too.
LEMMA KernelMovesDedupe ==
  ASSUME KernelStep
  PROVE  /\ dedupe' \subseteq dedupe \/ inv' = NoInvocation
         /\ done \subseteq dedupe => done' \subseteq dedupe'
<1>1. CASE UNCHANGED <<dedupe, done>>
  BY <1>1
<1>2. CASE Restart
  BY <1>2 DEF Restart
<1>3. ASSUME NEW k \in Keys, DedupeExpires(k)
      PROVE  dedupe' = dedupe \ {k} /\ done' = done \ {k}
  BY <1>3 DEF DedupeExpires
<1>4. ASSUME NEW ok \in BOOLEAN, Return(ok)
      PROVE  /\ inv' = NoInvocation
             /\ done \subseteq dedupe => done' \subseteq dedupe'
  BY <1>4 DEF Return
<1>5. ASSUME UNCHANGED budgetVars \/ UNCHANGED kernelVars
      PROVE  UNCHANGED <<dedupe, done>>
  BY <1>5 DEF budgetVars, kernelVars
<1>6. ASSUME NEW t \in cast.tokens, MintToken(t) \/ UseToken(t) \/ TokenExpires(t)
      PROVE  UNCHANGED <<dedupe, done>>
  BY <1>5, <1>6 DEF MintToken, UseToken, TokenExpires
<1>7. ASSUME NEW e \in Effects, Attempt(e) \/ AttemptStep(e)
      PROVE  UNCHANGED <<dedupe, done>>
  BY <1>5, <1>7 DEF Attempt, AttemptStep
<1>8. ASSUME NEW k \in Keys, NEW t, WindowPasses(k) \/ Start(k, t)
      PROVE  UNCHANGED <<dedupe, done>>
  BY <1>5, <1>8 DEF WindowPasses, Start
<1>9. CASE Refresh \/ Refreshed \/ RefreshFails \/ PassChecks \/ Duplicate
           \/ RuleGate \/ RuleApproves \/ Leave
  BY <1>5, <1>9 DEF Refresh, Refreshed, RefreshFails, PassChecks, Duplicate,
     RuleGate, RuleApproves, Leave
<1> QED BY <1>1, <1>2, <1>3, <1>4, <1>5, <1>6, <1>7, <1>8, <1>9 DEF KernelStep

\* What the gate has heard stays so until the invocation is over.
LEMMA GateKeeps ==
  ASSUME KernelTypeOK, GateWasObeyed, InvMoves \/ inv' = inv, Listen,
         RuleGate => UNCHANGED ruleVars
  PROVE  GateWasObeyed'
<1> SUFFICES ASSUME inv'.at \in {"confirm", "execute"}
             PROVE  heard'.banned = {} /\ (inv'.by # "human" => heard'.allowed)
  BY DEF GateWasObeyed
<1>1. CASE RuleGate
  <2>1. inv'.key = inv.key /\ inv.at # "none" /\ Match(inv.key) # "never"
        /\ (inv'.by = "human" \/ Match(inv.key) = "allow") /\ inv'.at # "none"
    BY <1>1 DEF RuleGate, KernelTypeOK
  <2>2. UNCHANGED <<doc, sound, over>>
    BY <1>1 DEF ruleVars
  <2>3. Bans' = {}
    BY <2>1, <2>2, MatchMeans DEF Bans, Says, InForce
  <2>4. inv'.by = "human" \/ Allows'
    BY <2>1, <2>2, MatchMeans DEF Allows, Says, InForce
  <2> QED BY <2>1, <2>3, <2>4 DEF Listen
<1>2. CASE /\ inv.at \in {"confirm", "execute"} /\ inv'.by = inv.by
  BY <1>2 DEF Listen, GateWasObeyed
<1>3. RuleGate \/ (inv.at \in {"confirm", "execute"} /\ inv'.by = inv.by)
  BY DEF InvMoves, KernelTypeOK, NoInvocation
<1> QED BY <1>1, <1>2, <1>3

\* The stage an invocation may come to, and what it brings along.
LEMMA StagesFollow ==
  ASSUME KernelTypeOK, InvMoves
  PROVE  \/ inv' = inv
         \/ inv'.at \in {"none", "refresh"} /\ inv'.tries = {}
         \/ /\ inv'.key = inv.key /\ inv'.tries = inv.tries
            /\ \/ inv.at = "refresh" /\ inv'.at = "join"
               \/ inv.at = "join" /\ inv'.at = "check" /\ Publish
               \/ /\ inv.at = "check" /\ inv'.at = "preview"
                  /\ inv.key \notin dedupe /\ Clear /\ UNCHANGED recoveryVars
               \/ inv.at = "preview" /\ inv'.at = "confirm"
               \/ inv.at = "confirm" /\ inv'.at = "execute"
         \/ /\ inv.at = "execute" /\ inv'.at = "execute" /\ inv'.key = inv.key
            /\ \E e \in Effects : Attempt(e) /\ inv'.tries = inv.tries \cup {e}
<1> USE DEF KernelTypeOK
<1>1. CASE inv' = inv
  BY <1>1
<1>2. CASE inv' = NoInvocation \/ (inv'.at = "refresh" /\ inv'.tries = {})
  BY <1>2 DEF NoInvocation
<1>3. CASE RuleGate
  BY <1>3 DEF RuleGate
<1>4. ASSUME NEW st \in {"join", "check", "preview", "execute"},
             inv' = [inv EXCEPT !.at = st]
      PROVE  inv'.at = st /\ inv'.key = inv.key /\ inv'.tries = inv.tries
  BY <1>4
<1>5. ASSUME NEW e \in Effects, inv' = [inv EXCEPT !.tries = @ \cup {e}]
      PROVE  /\ inv'.at = inv.at /\ inv'.key = inv.key
             /\ inv'.tries = inv.tries \cup {e}
  BY <1>5
<1>6. CASE RuleGate \/ inv' = inv \/ inv' = NoInvocation
           \/ (inv'.at = "refresh" /\ inv'.tries = {})
  BY <1>1, <1>2, <1>3, <1>6
<1>7. CASE \/ inv.at = "refresh" /\ inv' = [inv EXCEPT !.at = "join"]
           \/ inv.at = "join" /\ inv' = [inv EXCEPT !.at = "check"] /\ Publish
           \/ /\ inv.at = "check" /\ inv' = [inv EXCEPT !.at = "preview"]
              /\ inv.key \notin dedupe /\ Clear /\ UNCHANGED recoveryVars
           \/ inv.at = "confirm" /\ inv' = [inv EXCEPT !.at = "execute"]
  BY <1>4, <1>7
<1>8. CASE \E e \in Effects : /\ inv.at = "execute" /\ Attempt(e)
                              /\ inv' = [inv EXCEPT !.tries = @ \cup {e}]
  BY <1>5, <1>8
<1> QED BY <1>6, <1>7, <1>8 DEF InvMoves

\* Attempts stay those of the running execution.
LEMMA TriesKeep ==
  ASSUME KernelTypeOK, TriesAreOfTheIntent, InvMoves PROVE TriesAreOfTheIntent'
  BY StagesFollow DEF TriesAreOfTheIntent, Attempt

\* What passed the checks stays out of the dedupe store.
LEMMA FreshKeeps ==
  ASSUME KernelTypeOK, PassedIsFresh, KernelStep PROVE PassedIsFresh'
<1>1. InvMoves
  BY KernelMovesInv
<1>2. done' \subseteq dedupe'
  BY KernelMovesDedupe DEF PassedIsFresh
<1>3. CASE inv' = NoInvocation
  BY <1>2, <1>3 DEF PassedIsFresh, NoInvocation
<1>4. CASE dedupe' \subseteq dedupe
  BY <1>1, <1>2, <1>4, StagesFollow DEF PassedIsFresh
<1> QED BY <1>3, <1>4, KernelMovesDedupe

\* Every step keeps what is true of the pipeline.
LEMMA PipelineStep ==
  ASSUME RecoveryTypeOK, PipelineInv, [Next]_vars
  PROVE  PipelineInv'
<1> USE DEF PipelineInv
<1>1. CASE UNCHANGED vars
  BY <1>1 DEF vars, kernelVars, budgetVars, KernelTypeOK, TriesAreOfTheIntent,
     GateWasObeyed, PassedIsFresh
<1>2. CASE RuleStep /\ UNCHANGED <<recoveryVars, kernelVars>> /\ Listen
           /\ UNCHANGED cast
  <2>1. UNCHANGED <<inv, dedupe, done, cast>>
    BY <1>2 DEF kernelVars, budgetVars
  <2>2. ~RuleGate
    BY <2>1 DEF RuleGate, KernelTypeOK
  <2>3. GateWasObeyed'
    BY <1>2, <2>1, <2>2, GateKeeps
  <2> QED BY <2>1, <2>3 DEF KernelTypeOK, TriesAreOfTheIntent, PassedIsFresh
<1>3. CASE KernelStep /\ UNCHANGED ruleVars /\ Listen /\ UNCHANGED cast
  <2>1. KernelTypeOK' /\ InvMoves
    BY <1>3, KernelMovesInv DEF KernelTypeOK
  <2>2. TriesAreOfTheIntent'
    BY <2>1, TriesKeep
  <2>3. GateWasObeyed'
    BY <1>3, <2>1, GateKeeps
  <2>4. PassedIsFresh'
    BY <1>3, <2>1, FreshKeeps
  <2> QED BY <2>1, <2>2, <2>3, <2>4
<1> QED BY <1>1, <1>2, <1>3 DEF Next

--------------------------------------------------------------------------------
(* What the guard knows.                                                   *)

\* The execution has one attempt at a time, and the next only if the last ended
\* without a crossing.
OneTry ==
  \A f, g \in inv.tries : f # g =>
    \/ life[f] = "over" /\ f \notin crossed
    \/ life[g] = "over" /\ g \notin crossed

\* A refresh is the running invocation's, unless a resolution has the fence.
JoinIsOurs == inv.at = "join" <=> call.at = "join" /\ call.by = NoOne

\* What a join must not miss: an effect that may have happened behind the fence,
\* or one that a verdict could be given on.
Hot(f) == f \in Fenced \/ (Open(f) /\ ~Owned(f))

\* A join knows all that is hot and has no outcome.
JoinKnows ==
  call.at = "join" => \A f \in Effects : Hot(f) => f \in call.open \/ Settled(f)

\* So does the guard when the invocation asks it ...
CheckKnows ==
  inv.at = "check" /\ guard.up =>
    \A f \in Effects : Hot(f) => f \in guard.blocks \/ AccountedFor(f)

\* ... and what has passed it has nothing of its intent unaccounted for, but
\* what it does itself.
PassedKnows ==
  inv.at \in {"preview", "confirm", "execute"} =>
    \A f \in Effects \ inv.tries :
      Hot(f) /\ KeyOf[f] = inv.key => AccountedFor(f)

\* A verdict that is visible and not certain is the one that the latch is about,
\* and the append of another reads the file first.
DoubtHasALatch ==
  /\ \A e \in Effects : rows[e] # keptRows[e] =>
       /\ EffectOf[rows[e]] = e
       /\ latch # NoOne => rows[e] = latch
  /\ call.at = "append" /\ latch = NoOne => rows = keptRows

\* Since the guard has been up, no verdict is in doubt but behind a latch.
FileWasRead ==
  guard.up \/ inv.at \in {"preview", "confirm", "execute"} =>
    rows = keptRows \/ latch # NoOne

\* A verdict on its intent that a confirmation does not know is not certain, and
\* will not be while the confirmation is valid.
TokensKnow ==
  \A t \in valid : \A e \in Effects : KeyOf[e] = tokenKey[t] /\ e \notin under[t] =>
    /\ keptRows[e] = NoOne
    /\ rows[e] # NoOne => latch # NoOne
    /\ call.at = "append" => EffectOf[call.by] # e

TokenInv ==
  /\ tokenKey \in [Tokens -> Keys \cup {NoKey}] /\ under \in [Tokens -> SUBSET Effects]
  /\ DoubtHasALatch /\ FileWasRead /\ TokensKnow

ReplayInv == OneTry /\ JoinIsOurs /\ JoinKnows /\ CheckKnows /\ PassedKnows

KInv == RInv /\ RulesInv /\ PipelineInv /\ ReplayInv /\ TokenInv

--------------------------------------------------------------------------------
\* Only an attempt of the running execution crosses.
LEMMA WhoCrosses ==
  ASSUME RInv, PipelineInv, KernelStep, NEW e \in crossed' \ crossed
  PROVE  /\ Cross(e) /\ e \in inv.tries /\ inv.at = "execute"
         /\ KeyOf[e] = inv.key /\ life[e] # "over" /\ ~GatewayHeld
         /\ crossed' = crossed \cup {e}
         /\ UNCHANGED <<recVars, kernelVars, life, seen, kept>>
<1>1. ASSUME crossed' = crossed PROVE FALSE
  BY <1>1
<1>2. PICK x \in Effects : Attempt(x) \/ AttemptStep(x)
  BY <1>1
  DEF KernelStep, Refresh, Refreshed, RefreshFails, PassChecks, Duplicate, RuleGate,
      RuleApproves, Leave, Restart, WindowPasses, DedupeExpires, Start, MintToken,
      UseToken, TokenExpires, Return, CoordinatorStep, Inspect, Append, AppendAgain,
      Appended, AppendFails, OperatorStep, Propose, Confirm, AuthorityLapses,
      ResolveExpired, BeginResolve, BeginRefresh, Publish, PublishFails, RecoveryDies,
      RecoveryPowerLoss, AllOver, recoveryVars, ownerVars
<1>3. /\ Cross(x) /\ x \in inv.tries /\ ~GatewayHeld
      /\ UNCHANGED <<recVars, kernelVars>>
  BY <1>1, <1>2 DEF Attempt, AttemptStep, Begin, Own, Write, LetGo, Abandon
<1>4. x = e
  BY <1>3 DEF Cross
<1> QED BY <1>3, <1>4 DEF Cross, PipelineInv, TriesAreOfTheIntent

\* The steps of the kernel that touch the fence, seen from it.
LEMMA WhoJoins ==
  ASSUME RInv, KernelStep, KernelTypeOK, JoinIsOurs
  PROVE  JoinIsOurs'
<1> USE DEF JoinIsOurs, KernelTypeOK
<1>1. ASSUME call' = call, inv' = inv \/ (inv.at # "join" /\ inv'.at # "join")
      PROVE  JoinIsOurs'
  BY <1>1
<1>2. CASE Refresh
  BY <1>2 DEF Refresh, BeginRefresh, GoTo, Idle
<1>3. CASE Refreshed \/ RefreshFails
  BY <1>3 DEF Refreshed, RefreshFails, Publish, PublishFails, GoTo, NoInvocation, Idle
<1>4. CASE Restart
  <2>1. call' = Idle /\ inv' = NoInvocation
    BY <1>4 DEF Restart, RecoveryDies, RecoveryPowerLoss, ForgetAuthorities
  <2> QED BY <2>1 DEF Idle, NoInvocation
<1>5. CASE PassChecks \/ Duplicate \/ RuleGate \/ RuleApproves \/ Leave
  <2>1. call' = call
    BY <1>5 DEF PassChecks, Duplicate, RuleGate, RuleApproves, Leave, recoveryVars,
       recVars
  <2>2. CASE PassChecks \/ RuleApproves
    BY <2>1, <2>2, <1>1 DEF PassChecks, RuleApproves, GoTo
  <2>3. CASE RuleGate
    BY <2>1, <2>3, <1>1 DEF RuleGate
  <2>4. CASE Duplicate \/ Leave
    BY <2>1, <2>4, <1>1 DEF Duplicate, Leave, NoInvocation
  <2> QED BY <1>5, <2>2, <2>3, <2>4
<1>6. ASSUME NEW k \in Keys, NEW t,
             WindowPasses(k) \/ DedupeExpires(k) \/ Start(k, t)
      PROVE  JoinIsOurs'
  <2>1. call' = call
    BY <1>6 DEF WindowPasses, DedupeExpires, Start, recoveryVars, recVars
  <2>2. CASE WindowPasses(k) \/ DedupeExpires(k)
    BY <1>1, <2>1, <2>2 DEF WindowPasses, DedupeExpires
  <2>3. CASE Start(k, t)
    <3>1. inv = NoInvocation /\ inv'.at = "refresh"
      BY <2>3 DEF Start, NoInvocation
    <3> QED BY <1>1, <2>1, <3>1 DEF NoInvocation
  <2> QED BY <1>6, <2>2, <2>3
<1>7. ASSUME NEW t \in cast.tokens, MintToken(t) \/ UseToken(t) \/ TokenExpires(t)
      PROVE  JoinIsOurs'
  BY <1>1, <1>7 DEF MintToken, UseToken, TokenExpires, GoTo, NoInvocation, kernelVars
<1>8. ASSUME NEW ok \in BOOLEAN, Return(ok) PROVE JoinIsOurs'
  BY <1>1, <1>8 DEF Return, NoInvocation, recoveryVars, recVars
<1>9. ASSUME NEW e \in Effects, Attempt(e) \/ AttemptStep(e) PROVE JoinIsOurs'
  BY <1>1, <1>9 DEF Attempt, AttemptStep, recVars, kernelVars
<1>10. ASSUME CoordinatorStep \/ \E a \in cast.authorities : OperatorStep(a),
              UNCHANGED kernelVars
       PROVE  JoinIsOurs'
  <2>1. inv' = inv
    BY <1>10 DEF kernelVars
  <2>2. CASE call' = call
    BY <1>1, <2>1, <2>2
  <2>3. CASE AppendFails
    BY <2>1, <2>3 DEF AppendFails, Idle
  <2>4. CASE Append \/ AppendAgain
    <3>1. call.at = "append" /\ call' = [call EXCEPT !.at = "join", !.open = OpenEffects]
      BY <2>4 DEF Append, AppendAgain, Appended
    <3>2. call.by # NoOne
      BY <3>1, InAppend
    <3> QED BY <2>1, <3>1, <3>2 DEF RInv, RecoveryTypeOK
  <2>5. ASSUME NEW a \in cast.authorities, BeginResolve(a) PROVE JoinIsOurs'
    BY <2>1, <2>5 DEF BeginResolve, MayResolve, Idle
  <2> QED BY <1>10, <2>2, <2>3, <2>4, <2>5
          DEF CoordinatorStep, Inspect, OperatorStep, Propose, Confirm,
              AuthorityLapses, ResolveExpired
<1>11. CASE GatewayHeld /\ (Publish \/ PublishFails) /\ UNCHANGED kernelVars
  BY <1>11 DEF GatewayHeld, Publish, PublishFails, kernelVars, Idle
<1> QED BY <1>2, <1>3, <1>4, <1>5, <1>6, <1>7, <1>8, <1>9, <1>10, <1>11
        DEF KernelStep

\* A restart ends everything.
LEMMA AfterRestart ==
  ASSUME Restart
  PROVE  /\ inv'.at = "none" /\ inv'.tries = {}
         /\ call'.at = "idle" /\ ~guard'.up
<1>1. inv' = NoInvocation /\ call' = Idle /\ guard' = Down
  BY DEF Restart, RecoveryDies, RecoveryPowerLoss, ForgetAuthorities
<1> QED BY <1>1 DEF NoInvocation, Idle, Down

\* A new join has just read the record.
LEMMA CallMoves ==
  ASSUME RInv, KernelStep
  PROVE  \/ call' = call
         \/ call'.at # "join"
         \/ call'.open = OpenEffects /\ UNCHANGED <<seen, crossed>>
<1>1. CASE UNCHANGED recVars
  BY <1>1 DEF recVars
<1>2. CASE Refresh
  BY <1>2 DEF Refresh, BeginRefresh, Idle, ownerVars
<1>3. CASE Publish \/ PublishFails
  BY <1>3 DEF Publish, PublishFails, Idle
<1>4. CASE Restart
  BY <1>4, AfterRestart
<1>5. CASE Append \/ AppendAgain
  <2>1. /\ call' = [call EXCEPT !.at = "join", !.open = OpenEffects]
        /\ UNCHANGED <<seen, crossed>>
    BY <1>5 DEF Append, AppendAgain, Appended, ownerVars
  <2> QED BY <2>1 DEF RInv, RecoveryTypeOK
<1>6. CASE AppendFails
  BY <1>6 DEF AppendFails, Idle
<1>7. ASSUME NEW a, OperatorStep(a)
      PROVE  call' = call \/ call'.at # "join"
  BY <1>7 DEF OperatorStep, Propose, Confirm, AuthorityLapses, ResolveExpired,
     BeginResolve
<1>8. CASE Inspect
  BY <1>8 DEF Inspect
<1>9. CASE PassChecks \/ Duplicate \/ RuleGate \/ RuleApproves \/ Leave
  BY <1>1, <1>9 DEF PassChecks, Duplicate, RuleGate, RuleApproves, Leave, recoveryVars
<1>10. ASSUME NEW k, NEW t, WindowPasses(k) \/ DedupeExpires(k) \/ Start(k, t)
       PROVE  UNCHANGED recVars
  BY <1>10 DEF WindowPasses, DedupeExpires, Start, recoveryVars
<1>11. ASSUME NEW t, MintToken(t) \/ UseToken(t) \/ TokenExpires(t)
       PROVE  call' = call
  BY <1>11 DEF MintToken, UseToken, TokenExpires
<1>12. ASSUME NEW ok, Return(ok) PROVE UNCHANGED recVars
  BY <1>12 DEF Return, recoveryVars
<1>13. ASSUME NEW e, Attempt(e) \/ AttemptStep(e) PROVE UNCHANGED recVars
  BY <1>13 DEF Attempt, AttemptStep
<1> QED BY <1>1, <1>2, <1>3, <1>4, <1>5, <1>6, <1>7, <1>8, <1>9, <1>10, <1>11, <1>12,
           <1>13 DEF KernelStep, Refreshed, RefreshFails, CoordinatorStep

\* What is hot has a row.
LEMMA HotHasRow ==
  ASSUME RInv, NEW f \in Effects, Hot(f) PROVE Open(f) \/ Settled(f)
  BY OpenOrSettled
  DEF RInv, OwnersInv, OwnersCore, CrossedIsKept, KeptIsSeen, Fenced, Hot

\* Until the process restarts, facts stay.
LEMMA KernelKeepsFacts ==
  ASSUME RInv, cast \in Casts, KernelStep, ~Restart, NEW f \in Effects
  PROVE  /\ Settled(f) => Settled(f)'
         /\ AccountedFor(f) => AccountedFor(f)'
<1>1. Steady
  BY KernelIsSteady DEF RInv
<1> QED BY <1>1, FactsStay DEF AccountedFor, Settled

\* Only the running execution's own attempts become hot.
LEMMA HotMoves ==
  ASSUME RInv, PipelineInv, KernelStep, ~Restart,
         NEW f \in Effects, Hot(f)', ~Hot(f)
  PROVE  f \in inv.tries /\ inv.at = "execute" /\ ~GatewayHeld
<1> USE DEF RInv, OwnersInv, OwnersCore, OwnersTypeOK, LedgerTypeOK
<1>1. CASE f \in Fenced'
  BY <1>1, WhoCrosses DEF Fenced, Hot
<1>2. CASE f \notin Fenced'
  <2>1. Open(f)' /\ ~Owned(f)' /\ (Open(f) => Owned(f))
    BY <1>2 DEF Hot
  <2>2. ~UNCHANGED ownerVars
    BY <2>1 DEF ownerVars, Open, Owned
  <2>3. PICK e \in Effects : Attempt(e) \/ AttemptStep(e)
    BY <2>2
    DEF KernelStep, Refresh, Refreshed, RefreshFails, PassChecks, Duplicate, RuleGate,
        RuleApproves, Leave, WindowPasses, DedupeExpires, Start, MintToken,
        UseToken, TokenExpires, Return, CoordinatorStep, Inspect, Append, AppendAgain,
        Appended, AppendFails, OperatorStep, Propose, Confirm, AuthorityLapses,
        ResolveExpired, BeginResolve, BeginRefresh, Publish, PublishFails,
        recoveryVars
  <2>4. ~Begin(e) /\ ~Abandon(e)
    BY <2>1 DEF Begin, Abandon, Lives, LivesAndRows, Open, Owned, NoFact
  <2>5. ~Own(e) /\ ~Cross(e)
    <3>1. ~Cross(e)
      BY <2>1 DEF Cross, Open, Owned
    <3>2. ASSUME Own(e) PROVE FALSE
      <4>1. PICK g \in Fact : g.effect = e /\ (Persist(g) \/ Raise(g))
        BY <3>2, RowsAreFacts DEF Own
      <4>2. f # e => seen'[f] = seen[f]
        BY <4>1, AppendMoves
      <4> QED BY <2>1, <3>2, <4>2 DEF Own, Lives, Open, Owned
    <3> QED BY <3>1, <3>2
  <2>6. AttemptStep(e) /\ ~GatewayHeld /\ (Write(e) \/ LetGo(e))
        /\ (e \in inv.tries \/ e \in Required)
    BY <2>3, <2>4, <2>5 DEF Attempt, AttemptStep
  <2>7. PICK g \in RowsOf(e) : MayWrite(e, g) /\ (Persist(g) \/ Raise(g))
                               /\ (LetGo(e) => g.state \in Terminal /\ Persist(g))
    <3>1. CASE LetGo(e)
      BY <3>1 DEF LetGo
    <3>2. CASE ~LetGo(e)
      BY <2>6, <3>2 DEF Write
    <3> QED BY <3>1, <3>2
  <2>8. f = e
    <3>1. f # e => seen'[f] = seen[f]
      BY <2>7, RowsAreFacts, AppendMoves
    <3>2. f # e => life'[f] = life[f]
      BY <2>6 DEF Write, LetGo, Lives
    <3> QED BY <2>1, <3>1, <3>2 DEF Open, Owned
  <2>9. ASSUME f \notin inv.tries PROVE FALSE
    <3>1. f \in Required /\ f \notin crossed
      BY <2>6, <2>8, <2>9, <1>2 DEF Fenced, Write, LetGo
    <3>2. life[f] = "owned" /\ g.state \notin {"confirmed", "unknown"}
      BY <2>7, <2>8, <3>1, RowsAreFacts DEF MayWrite, IsTrue
    <3>3. LetGo(f)
      BY <2>1, <2>6, <2>8, <3>2 DEF Write, Owned
    <3>4. seen'[f] = g /\ g.state = "no_effect"
      BY <2>7, <2>8, <3>2, <3>3, RowsAreFacts DEF Persist, Terminal
    <3> QED BY <2>1, <3>4 DEF Open
  <2> QED BY <2>6, <2>9 DEF PipelineInv, TriesAreOfTheIntent
<1> QED BY <1>1, <1>2

\* A join never misses what is hot: nothing becomes so while it is under way.
LEMMA JoinStep ==
  ASSUME RInv, PipelineInv, JoinIsOurs, JoinKnows, KernelStep
  PROVE  JoinKnows'
<1> SUFFICES ASSUME call'.at = "join", NEW f \in Effects, Hot(f)'
             PROVE  f \in call'.open \/ Settled(f)'
  BY DEF JoinKnows
<1>1. ~Restart
  BY AfterRestart
<1>2. CASE call' = call
  <2>1. Hot(f)
    BY <1>1, <1>2, HotMoves DEF JoinIsOurs, GatewayHeld
  <2>2. f \in call.open \/ Settled(f)
    BY <1>2, <2>1 DEF JoinKnows
  <2> QED BY <1>1, <1>2, <2>2, KernelKeepsFacts DEF PipelineInv, KernelTypeOK
<1>3. CASE call'.open = OpenEffects /\ UNCHANGED <<seen, crossed>>
  <2>1. Open(f) \/ Settled(f)
    <3>1. CASE f \in Fenced'
      BY <1>3, <3>1, HotHasRow DEF Fenced, Hot
    <3>2. CASE f \notin Fenced'
      BY <1>3, <3>2 DEF Hot, Open
    <3> QED BY <3>1, <3>2
  <2> QED BY <1>3, <2>1 DEF OpenEffects, Settled
<1> QED BY <1>2, <1>3, CallMoves

\* The guard learns from a join, or knows nothing.
LEMMA GuardMoves ==
  ASSUME KernelStep
  PROVE  guard' = guard \/ ~guard'.up \/ Publish
<1>1. CASE UNCHANGED recVars
  BY <1>1 DEF recVars
<1>2. CASE Refresh \/ Refreshed \/ RefreshFails
           \/ (GatewayHeld /\ (Publish \/ PublishFails) /\ UNCHANGED kernelVars)
  BY <1>2 DEF Refresh, Refreshed, RefreshFails, BeginRefresh, PublishFails, Down
<1>3. CASE Restart
  BY <1>3, AfterRestart
<1>4. ASSUME CoordinatorStep \/ \E a \in cast.authorities : OperatorStep(a)
      PROVE  guard' = guard
  BY <1>4 DEF CoordinatorStep, Inspect, Append, AppendAgain, Appended, AppendFails,
     OperatorStep, Propose, Confirm, AuthorityLapses, ResolveExpired, BeginResolve
<1>5. CASE PassChecks \/ Duplicate \/ RuleGate \/ RuleApproves \/ Leave
  BY <1>1, <1>5 DEF PassChecks, Duplicate, RuleGate, RuleApproves, Leave, recoveryVars
<1>6. ASSUME NEW k, NEW t, WindowPasses(k) \/ DedupeExpires(k) \/ Start(k, t)
      PROVE  UNCHANGED recVars
  BY <1>6 DEF WindowPasses, DedupeExpires, Start, recoveryVars
<1>7. ASSUME NEW t, MintToken(t) \/ UseToken(t) \/ TokenExpires(t)
      PROVE  guard' = guard
  BY <1>7 DEF MintToken, UseToken, TokenExpires
<1>8. ASSUME NEW ok, Return(ok) PROVE UNCHANGED recVars
  BY <1>8 DEF Return, recoveryVars
<1>9. ASSUME NEW e, Attempt(e) \/ AttemptStep(e) PROVE UNCHANGED recVars
  BY <1>9 DEF Attempt, AttemptStep
<1> QED BY <1>1, <1>2, <1>3, <1>4, <1>5, <1>6, <1>7, <1>8, <1>9 DEF KernelStep

\* What is published blocks all that is hot and not accounted for.
LEMMA PublishKnows ==
  ASSUME RInv, JoinKnows, Publish, NEW f \in Effects, Hot(f)'
  PROVE  f \in guard'.blocks \/ AccountedFor(f)'
<1>1. /\ UNCHANGED <<seen, life, crossed>> /\ call.at = "join" /\ keptRows' = rows
      /\ guard' = [up |-> TRUE, blocks |-> Unreconciled(call.open)]
  BY DEF Publish, ReadAuthoritative, ownerVars
<1>2. Hot(f)
  BY <1>1 DEF Hot, Fenced, Open, Owned
<1>3. f \in call.open \/ Settled(f)
  BY <1>1, <1>2 DEF JoinKnows
<1>4. f \in call.open => f \in guard'.blocks \/ rows[f] # NoOne
  BY <1>1 DEF Unreconciled
<1> QED BY <1>1, <1>3, <1>4 DEF AccountedFor, Settled

\* The guard that the invocation is about to ask.
LEMMA CheckStep ==
  ASSUME RInv, PipelineInv, JoinKnows, CheckKnows, KernelStep
  PROVE  CheckKnows'
<1> SUFFICES ASSUME inv'.at = "check", guard'.up, NEW f \in Effects, Hot(f)'
             PROVE  f \in guard'.blocks \/ AccountedFor(f)'
  BY DEF CheckKnows
<1>1. CASE Publish
  BY <1>1, PublishKnows
<1>2. CASE ~Publish /\ guard' = guard
  <2>1. inv.at = "check" /\ ~Restart
    BY <1>2, KernelMovesInv, StagesFollow, AfterRestart DEF PipelineInv
  <2>2. Hot(f)
    BY <2>1, HotMoves
  <2>3. f \in guard.blocks \/ AccountedFor(f)
    BY <1>2, <2>1, <2>2 DEF CheckKnows
  <2> QED BY <1>2, <2>1, <2>3, KernelKeepsFacts DEF PipelineInv, KernelTypeOK
<1> QED BY <1>1, <1>2, GuardMoves

\* What has passed the guard.
LEMMA PassedStep ==
  ASSUME RInv, PipelineInv, CheckKnows, PassedKnows, KernelStep
  PROVE  PassedKnows'
<1> SUFFICES ASSUME inv'.at \in {"preview", "confirm", "execute"},
                    NEW f \in Effects \ inv'.tries, Hot(f)', KeyOf[f] = inv'.key
             PROVE  AccountedFor(f)'
  BY DEF PassedKnows
<1>1. CASE inv.at = "check"
  <2>1. /\ inv'.key = inv.key /\ Clear /\ UNCHANGED recoveryVars
    BY <1>1, KernelMovesInv, StagesFollow DEF PipelineInv
  <2>2. UNCHANGED <<seen, life, crossed, keptRows>>
    BY <2>1 DEF recoveryVars, ownerVars, recVars, fileVars
  <2>3. Hot(f) /\ f \notin guard.blocks /\ guard.up
    BY <2>1, <2>2 DEF Clear, Hot, Fenced, Open, Owned
  <2>4. AccountedFor(f)
    BY <1>1, <2>3 DEF CheckKnows
  <2> QED BY <2>2, <2>4 DEF AccountedFor
<1>2. CASE inv.at \in {"preview", "confirm", "execute"}
  <2>1. inv'.key = inv.key /\ inv.tries \subseteq inv'.tries /\ ~Restart
    BY <1>2, KernelMovesInv, StagesFollow, AfterRestart DEF PipelineInv
  <2>2. f \notin inv.tries /\ Hot(f)
    BY <2>1, HotMoves
  <2>3. AccountedFor(f)
    BY <1>2, <2>1, <2>2 DEF PassedKnows
  <2> QED BY <2>1, <2>3, KernelKeepsFacts DEF PipelineInv, KernelTypeOK
<1>3. inv.at \in {"check", "preview", "confirm", "execute"}
  BY KernelMovesInv, StagesFollow DEF PipelineInv
<1> QED BY <1>1, <1>2, <1>3

\* What is over stays over, and has not crossed since.
LEMMA OverStays ==
  ASSUME RInv, PipelineInv, KernelStep, ~Restart,
         NEW f \in Effects, life[f] = "over", f \notin crossed
  PROVE  life'[f] = "over" /\ f \notin crossed'
<1>1. f \notin crossed'
  BY WhoCrosses
<1>2. Steady
  BY KernelIsSteady DEF RInv, PipelineInv, KernelTypeOK
<1>3. CASE UNCHANGED ownerVars
  BY <1>1, <1>3 DEF ownerVars
<1>4. ASSUME NEW e \in Effects, OwnerStep(e) PROVE life'[f] = "over"
  <2>1. life \in [Effects -> {"unborn", "private", "owned", "over"}]
    BY DEF RInv, RecoveryTypeOK, OwnersTypeOK
  <2>2. CASE Begin(e) \/ Abandon(e)
    BY <2>1, <2>2 DEF Begin, Abandon, Lives
  <2>3. CASE Own(e) \/ Cross(e) \/ Write(e) \/ LetGo(e)
    BY <2>1, <2>3 DEF Own, Cross, Write, LetGo, Lives, MayWrite
  <2> QED BY <1>4, <2>2, <2>3 DEF OwnerStep
<1> QED BY <1>1, <1>2, <1>3, <1>4
        DEF Steady, OnlyTokens, CoordinatorStep, Inspect, Append, AppendAgain, Appended,
            AppendFails, OperatorStep, Propose, Confirm, AuthorityLapses,
            ResolveExpired, BeginResolve, BeginRefresh, Publish, PublishFails

\* A second attempt begins only when the first has ended without a crossing.
LEMMA TryStep ==
  ASSUME RInv, PipelineInv, OneTry, KernelStep
  PROVE  OneTry'
<1> SUFFICES ASSUME NEW f \in inv'.tries, NEW g \in inv'.tries, f # g
             PROVE  \/ life'[f] = "over" /\ f \notin crossed'
                    \/ life'[g] = "over" /\ g \notin crossed'
  BY DEF OneTry
<1>1. ~Restart
  BY AfterRestart
<1>2. inv.tries \subseteq Effects
  BY DEF PipelineInv, KernelTypeOK
<1>3. CASE f \in inv.tries /\ g \in inv.tries
  BY <1>1, <1>2, <1>3, OverStays DEF OneTry
<1>4. CASE f \notin inv.tries \/ g \notin inv.tries
  <2>1. PICK e \in Effects : Attempt(e) /\ inv'.tries = inv.tries \cup {e}
    BY <1>4, KernelMovesInv, StagesFollow DEF PipelineInv
  <2>2. \A x \in inv.tries : life[x] = "over" /\ x \notin crossed
    BY <2>1 DEF Attempt
  <2> QED BY <1>1, <1>2, <1>4, <2>1, <2>2, OverStays
<1> QED BY <1>3, <1>4

\* Every step keeps what the guard and the invocation know.
LEMMA ReplayStep ==
  ASSUME RInv, RInv', PipelineInv, ReplayInv, [Next]_vars
  PROVE  ReplayInv'
<1>1. CASE KernelStep
  BY <1>1, WhoJoins, JoinStep, CheckStep, PassedStep, TryStep
  DEF ReplayInv, PipelineInv
<1>2. CASE UNCHANGED <<recoveryVars, inv>>
  BY <1>2
  DEF ReplayInv, OneTry, JoinIsOurs, JoinKnows, CheckKnows, PassedKnows, Hot, Fenced,
      Open, Owned,
      AccountedFor, Settled, recoveryVars, recVars, ownerVars, fileVars
<1> QED BY <1>1, <1>2 DEF Next, vars, kernelVars

--------------------------------------------------------------------------------
(* What confirmations know.                                                *)

\* Who touches the file of verdicts.
LEMMA FileMoves ==
  ASSUME KernelStep
  PROVE  \/ Restart \/ UNCHANGED fileVars \/ ReadAuthoritative
         \/ Append \/ AppendAgain \/ AppendFails
<1>1. CASE UNCHANGED recVars
  BY <1>1 DEF recVars
<1>2. CASE Refresh \/ Publish \/ PublishFails
  BY <1>2 DEF Refresh, BeginRefresh, Publish, PublishFails
<1>3. ASSUME NEW a, OperatorStep(a) PROVE UNCHANGED fileVars \/ ReadAuthoritative
  BY <1>3 DEF OperatorStep, Propose, Confirm, AuthorityLapses, ResolveExpired,
     BeginResolve, MayResolve
<1>4. CASE Inspect
  BY <1>4 DEF Inspect
<1>5. CASE PassChecks \/ Duplicate \/ RuleGate \/ RuleApproves \/ Leave
  BY <1>1, <1>5 DEF PassChecks, Duplicate, RuleGate, RuleApproves, Leave, recoveryVars
<1>6. ASSUME NEW k, NEW t, WindowPasses(k) \/ DedupeExpires(k) \/ Start(k, t)
      PROVE  UNCHANGED recVars
  BY <1>6 DEF WindowPasses, DedupeExpires, Start, recoveryVars
<1>7. ASSUME NEW t, MintToken(t) \/ UseToken(t) \/ TokenExpires(t)
      PROVE  UNCHANGED fileVars
  BY <1>7 DEF MintToken, UseToken, TokenExpires
<1>8. ASSUME NEW ok, Return(ok) PROVE UNCHANGED recVars
  BY <1>8 DEF Return, recoveryVars
<1>9. ASSUME NEW e, Attempt(e) \/ AttemptStep(e) PROVE UNCHANGED recVars
  BY <1>9 DEF Attempt, AttemptStep
<1> QED BY <1>1, <1>2, <1>3, <1>4, <1>5, <1>6, <1>7, <1>8, <1>9
        DEF KernelStep, Refreshed, RefreshFails, CoordinatorStep

\* Only a resolution begins an append, and it revokes every confirmation.
LEMMA AppendBegins ==
  ASSUME RInv, cast \in Casts, KernelStep, call'.at = "append"
  PROVE  call' = call \/ \E a \in Authorities : BeginResolve(a)
<1>1. CASE UNCHANGED recVars
  BY <1>1 DEF recVars
<1>2. CASE Refresh
  BY <1>2 DEF Refresh, BeginRefresh, Idle
<1>3. CASE Publish \/ PublishFails \/ AppendFails
  BY <1>3 DEF Publish, PublishFails, AppendFails, Idle
<1>4. ~Restart
  BY AfterRestart
<1>5. CASE Append \/ AppendAgain
  <2>1. call' = [call EXCEPT !.at = "join", !.open = OpenEffects]
    BY <1>5 DEF Append, AppendAgain, Appended
  <2> QED BY <2>1 DEF RInv, RecoveryTypeOK
<1>6. ASSUME NEW a \in cast.authorities, OperatorStep(a)
      PROVE  a \in Authorities /\ (call' = call \/ BeginResolve(a))
  BY <1>6, KeyAssumption DEF OperatorStep, Propose, Confirm, AuthorityLapses, ResolveExpired
<1>7. CASE Inspect
  BY <1>7 DEF Inspect
<1>8. CASE PassChecks \/ Duplicate \/ RuleGate \/ RuleApproves \/ Leave
  BY <1>1, <1>8 DEF PassChecks, Duplicate, RuleGate, RuleApproves, Leave, recoveryVars
<1>9. ASSUME NEW k, NEW t, WindowPasses(k) \/ DedupeExpires(k) \/ Start(k, t)
      PROVE  UNCHANGED recVars
  BY <1>9 DEF WindowPasses, DedupeExpires, Start, recoveryVars
<1>10. ASSUME NEW t, MintToken(t) \/ UseToken(t) \/ TokenExpires(t)
       PROVE  call' = call
  BY <1>10 DEF MintToken, UseToken, TokenExpires
<1>11. ASSUME NEW ok, Return(ok) PROVE UNCHANGED recVars
  BY <1>11 DEF Return, recoveryVars
<1>12. ASSUME NEW e, Attempt(e) \/ AttemptStep(e) PROVE UNCHANGED recVars
  BY <1>12 DEF Attempt, AttemptStep
<1> QED BY <1>1, <1>2, <1>3, <1>4, <1>5, <1>7, <1>8, <1>9, <1>10, <1>11, <1>12,
           <1>6
        DEF KernelStep, Refreshed, RefreshFails, CoordinatorStep

\* A verdict in doubt has a latch, whatever reads and writes the file.
LEMMA DoubtStep ==
  ASSUME RInv, cast \in Casts, DoubtHasALatch, KernelStep
  PROVE  DoubtHasALatch'
<1> USE DEF DoubtHasALatch
<1>1. ASSUME NEW e \in Effects, rows'[e] # keptRows'[e]
      PROVE  EffectOf[rows'[e]] = e /\ (latch' # NoOne => rows'[e] = latch')
  <2>1. CASE UNCHANGED fileVars
    BY <1>1, <2>1 DEF fileVars
  <2>2. CASE ReadAuthoritative \/ Append \/ AppendAgain
    BY <1>1, <2>2 DEF ReadAuthoritative, Append, AppendAgain
  <2>3. CASE AppendFails
    <3>1. CASE UNCHANGED fileVars
      BY <2>1, <3>1
    <3>2. CASE ~UNCHANGED fileVars
      <4>1. /\ call.at = "append" /\ latch = NoOne /\ latch' = call.by
            /\ keptRows' = keptRows
            /\ rows' \in {rows, [rows EXCEPT ![EffectOf[call.by]] = call.by]}
        BY <2>3, <3>2 DEF AppendFails
      <4>2. rows = keptRows
        BY <4>1
      <4>3. rows \in [Effects -> Someone]
        BY DEF RInv, RecoveryTypeOK
      <4>4. e = EffectOf[call.by] /\ rows'[e] = call.by
        BY <1>1, <4>1, <4>2, <4>3
      <4> QED BY <4>1, <4>4
    <3> QED BY <3>1, <3>2
  <2>4. CASE Restart
    <3>1. CASE RecoveryDies
      BY <1>1, <3>1 DEF RecoveryDies, ForgetAuthorities
    <3>2. CASE RecoveryPowerLoss
      BY <1>1, <3>2 DEF RecoveryPowerLoss
    <3> QED BY <2>4, <3>1, <3>2 DEF Restart
  <2> QED BY <2>1, <2>2, <2>3, <2>4, FileMoves
<1>2. ASSUME call'.at = "append", latch' = NoOne PROVE rows' = keptRows'
  <2>1. CASE \E a \in Authorities : BeginResolve(a)
    BY <1>2, <2>1 DEF BeginResolve, MayResolve, ReadAuthoritative, fileVars
  <2>2. CASE call' = call
    <3>1. ~Restart /\ ~AppendFails
      BY <1>2, AfterRestart DEF AppendFails, Idle
    <3> QED BY <1>2, <2>2, <3>1, FileMoves
            DEF fileVars, ReadAuthoritative, Append, AppendAgain
  <2> QED BY <1>2, <2>1, <2>2, AppendBegins
<1> QED BY <1>1, <1>2

\* Nor does what passed the guard know of a doubt without a latch.
LEMMA FileWasReadStep ==
  ASSUME RInv, PipelineInv, FileWasRead, KernelStep
  PROVE  FileWasRead'
<1> SUFFICES ASSUME guard'.up \/ inv'.at \in {"preview", "confirm", "execute"}
             PROVE  rows' = keptRows' \/ latch' # NoOne
  BY DEF FileWasRead
<1>1. CASE ReadAuthoritative \/ Append \/ AppendAgain
  BY <1>1 DEF ReadAuthoritative, Append, AppendAgain
<1>2. CASE ~ReadAuthoritative /\ (UNCHANGED fileVars \/ AppendFails)
  <2>1. ~Publish
    BY <1>2 DEF Publish
  <2>2. guard.up \/ inv.at \in {"preview", "confirm", "execute"}
    BY <2>1, GuardMoves, KernelMovesInv, StagesFollow DEF PipelineInv, Clear
  <2>3. rows = keptRows \/ latch # NoOne
    BY <2>2 DEF FileWasRead
  <2>4. AppendFails => call.by # NoOne
    BY InAppend DEF AppendFails
  <2> QED BY <1>2, <2>3, <2>4 DEF fileVars, AppendFails
<1>3. ~Restart
  BY AfterRestart
<1> QED BY <1>1, <1>2, <1>3, FileMoves

\* A valid confirmation was valid before, or has just been given.
LEMMA TokenMoves ==
  ASSUME KernelStep, RInv, PipelineInv, TokenInv
  PROVE  /\ tokenKey' \in [Tokens -> Keys \cup {NoKey}]
         /\ under' \in [Tokens -> SUBSET Effects]
         /\ \A t \in valid' :
              \/ t \in valid /\ tokenKey'[t] = tokenKey[t] /\ under'[t] = under[t]
              \/ MintToken(t)
<1> USE DEF TokenInv
<1>1. CASE UNCHANGED <<tokenKey, under>> /\ valid' \subseteq valid
  BY <1>1
<1>2. ASSUME UNCHANGED recVars PROVE valid' \subseteq valid
  BY <1>2 DEF recVars
<1>3. ASSUME UNCHANGED kernelVars PROVE UNCHANGED <<tokenKey, under>>
  BY <1>3 DEF kernelVars
<1>4. CASE Refresh \/ Refreshed \/ RefreshFails
           \/ (GatewayHeld /\ (Publish \/ PublishFails) /\ UNCHANGED kernelVars)
  BY <1>1, <1>3, <1>4
  DEF Refresh, Refreshed, RefreshFails, BeginRefresh, Publish, PublishFails
<1>5. CASE Restart
  BY <1>1, <1>5 DEF Restart, RecoveryDies, RecoveryPowerLoss, ForgetAuthorities
<1>6. CASE PassChecks \/ Duplicate \/ RuleGate \/ RuleApproves \/ Leave
  BY <1>1, <1>2, <1>6
  DEF PassChecks, Duplicate, RuleGate, RuleApproves, Leave, recoveryVars
<1>7. ASSUME NEW k, NEW t, WindowPasses(k) \/ DedupeExpires(k) \/ Start(k, t)
      PROVE  UNCHANGED <<tokenKey, under>> /\ valid' \subseteq valid
  BY <1>2, <1>7 DEF WindowPasses, DedupeExpires, Start, recoveryVars
<1>8. ASSUME NEW t \in Tokens, MintToken(t)
      PROVE  /\ tokenKey' \in [Tokens -> Keys \cup {NoKey}]
             /\ under' \in [Tokens -> SUBSET Effects]
             /\ \A s \in valid' \ {t} :
                  s \in valid /\ tokenKey'[s] = tokenKey[s] /\ under'[s] = under[s]
  <2>1. inv.key \in Keys \cup {NoKey} /\ valid \subseteq Tokens
    BY DEF PipelineInv, KernelTypeOK, RInv, RecoveryTypeOK
  <2> QED BY <1>8, <2>1 DEF MintToken
<1>9. ASSUME NEW t \in Tokens, UseToken(t) \/ TokenExpires(t)
      PROVE  UNCHANGED <<tokenKey, under>> /\ valid' \subseteq valid
  BY <1>3, <1>9 DEF UseToken, TokenExpires
<1>10. ASSUME NEW ok, Return(ok)
       PROVE  UNCHANGED <<tokenKey, under>> /\ valid' \subseteq valid
  BY <1>2, <1>10 DEF Return, recoveryVars
<1>11. ASSUME NEW e, Attempt(e) \/ AttemptStep(e)
       PROVE  UNCHANGED <<tokenKey, under>> /\ valid' \subseteq valid
  BY <1>2, <1>3, <1>11 DEF Attempt, AttemptStep
<1>12. ASSUME CoordinatorStep \/ \E a \in cast.authorities : OperatorStep(a)
       PROVE  valid' \subseteq valid
  BY <1>12
  DEF CoordinatorStep, Inspect, Append, AppendAgain, Appended, AppendFails,
      OperatorStep, Propose, Confirm, AuthorityLapses, ResolveExpired, BeginResolve
<1>13. cast.tokens \subseteq Tokens
  BY KeyAssumption DEF PipelineInv, KernelTypeOK
<1> QED BY <1>1, <1>3, <1>4, <1>5, <1>6, <1>7, <1>8, <1>9, <1>10, <1>11, <1>12, <1>13
        DEF KernelStep

\* A confirmation keeps knowing all that is certain: what becomes so without its
\* knowledge revokes it first.
LEMMA TokensKnowStep ==
  ASSUME RInv, PipelineInv, PassedKnows, TokenInv, KernelStep
  PROVE  TokensKnow'
<1> USE DEF TokenInv
<1> SUFFICES ASSUME NEW t \in valid', NEW e \in Effects,
                    KeyOf[e] = tokenKey'[t], e \notin under'[t]
             PROVE  /\ keptRows'[e] = NoOne
                    /\ rows'[e] # NoOne => latch' # NoOne
                    /\ call'.at = "append" => EffectOf[call'.by] # e
  BY DEF TokensKnow
<1>0. cast \in Casts
  BY DEF PipelineInv, KernelTypeOK
<1>1. CASE MintToken(t)
  <2>1. /\ inv.at = "confirm" /\ UNCHANGED <<fileVars, call>>
        /\ tokenKey'[t] = inv.key /\ keptRows[e] = NoOne
    <3>1. t \in Tokens
      BY <1>1, KernelMovesInv, TokenMoves, <1>0 DEF RInv, RecoveryTypeOK, MintToken
    <3> QED BY <1>1, <3>1 DEF MintToken
  <2>2. rows[e] # NoOne => latch # NoOne
    BY <2>1 DEF FileWasRead
  <2>3. ASSUME call.at = "append", EffectOf[call.by] = e PROVE FALSE
    <3>1. Hot(e) /\ Open(e)
      BY <2>3, InAppend DEF Hot, Owned
    <3>2. e \notin inv.tries
      BY <2>1 DEF PipelineInv, TriesAreOfTheIntent
    <3>3. AccountedFor(e)
      BY <2>1, <3>1, <3>2 DEF PassedKnows
    <3> QED BY <2>1, <3>1, <3>3 DEF AccountedFor, Open
  <2> QED BY <2>1, <2>2, <2>3 DEF fileVars
<1>2. CASE t \in valid /\ tokenKey'[t] = tokenKey[t] /\ under'[t] = under[t]
  <2>1. /\ keptRows[e] = NoOne
        /\ rows[e] # NoOne => latch # NoOne
        /\ call.at = "append" => EffectOf[call.by] # e
    BY <1>2 DEF TokensKnow
  <2>2. /\ ~Restart /\ \A a \in Authorities : ~BeginResolve(a)
    BY DEF BeginResolve, Restart, RecoveryDies, RecoveryPowerLoss, ForgetAuthorities
  <2>3. call'.at = "append" => EffectOf[call'.by] # e
    BY <1>0, <2>1, <2>2, AppendBegins
  <2>4. CASE UNCHANGED fileVars
    BY <2>1, <2>3, <2>4 DEF fileVars
  <2>5. CASE ReadAuthoritative
    BY <2>1, <2>3, <2>5 DEF ReadAuthoritative
  <2>6. CASE Append
    <3>1. rows'[e] = rows[e] /\ keptRows' = rows' /\ latch = NoOne
      BY <2>1, <2>6 DEF Append, RInv, RecoveryTypeOK
    <3> QED BY <2>1, <2>3, <3>1
  <2>7. CASE AppendAgain
    <3>1. call.at = "append" /\ latch = call.by /\ keptRows' = rows /\ rows' = rows
      BY <2>7 DEF AppendAgain
    <3>2. rows[e] = NoOne
      BY <2>1, <3>1 DEF DoubtHasALatch
    <3> QED BY <2>3, <3>1, <3>2
  <2>8. CASE AppendFails /\ ~UNCHANGED fileVars
    <3>1. /\ call.at = "append" /\ latch = NoOne /\ keptRows' = keptRows
          /\ rows' \in {rows, [rows EXCEPT ![EffectOf[call.by]] = call.by]}
      BY <2>8 DEF AppendFails
    <3>2. rows'[e] = rows[e]
      BY <2>1, <3>1 DEF RInv, RecoveryTypeOK
    <3> QED BY <2>1, <2>3, <3>1, <3>2
  <2> QED BY <2>2, <2>4, <2>5, <2>6, <2>7, <2>8, FileMoves
<1> QED BY <1>0, <1>1, <1>2, TokenMoves

\* Every step keeps what the confirmations know.
LEMMA TokenStep ==
  ASSUME RInv, PipelineInv, PassedKnows, TokenInv, [Next]_vars
  PROVE  TokenInv'
<1>1. CASE KernelStep
  BY <1>1, TokenMoves, DoubtStep, FileWasReadStep, TokensKnowStep
  DEF TokenInv, PipelineInv, KernelTypeOK
<1>2. CASE UNCHANGED <<recoveryVars, inv, tokenKey, under>>
  BY <1>2
  DEF TokenInv, DoubtHasALatch, FileWasRead, TokensKnow, recoveryVars, recVars,
      fileVars
<1> QED BY <1>1, <1>2 DEF Next, vars, kernelVars

--------------------------------------------------------------------------------
(* The theorems.                                                           *)

\* What is true of the initial states.
LEMMA KernelStarts == Init => KInv
<1> SUFFICES ASSUME Init PROVE KInv
  OBVIOUS
<1>1. RInv
  BY ReconciliationStarts DEF Init
<1>2. RulesInv
  <2>1. cast.doc \in [Rules -> Entries] /\ RuleInit(cast.doc)
    BY KeyAssumption DEF Init
  <2> QED BY <2>1, RulesStart
<1>3. PipelineInv
  BY DEF Init, PipelineInv, KernelTypeOK, NoInvocation, TriesAreOfTheIntent,
     GateWasObeyed, PassedIsFresh
<1>4. ReplayInv
  BY DEF Init, RecoveryInit, ReplayInv, NoInvocation, OneTry, JoinIsOurs, JoinKnows,
     CheckKnows, PassedKnows, Idle
<1>5. TokenInv
  BY AuthorityAssumption
  DEF Init, RecoveryInit, TokenInv, NoInvocation, Idle, Down, DoubtHasALatch,
      FileWasRead, TokensKnow
<1> QED BY <1>1, <1>2, <1>3, <1>4, <1>5 DEF KInv

\* Every step keeps all of it.
LEMMA KernelSteps == KInv /\ [Next]_vars => KInv'
<1> SUFFICES ASSUME KInv, [Next]_vars PROVE KInv'
  OBVIOUS
<1> USE DEF KInv
<1>1. RInv'
  <2>1. CASE KernelStep
    BY <2>1, KernelIsSteady, ReconciliationSteps
    DEF Steady, RecoveryNext, Restart, RInv, PipelineInv, KernelTypeOK
  <2>2. CASE UNCHANGED recoveryVars
    BY <2>2, ReconciliationSteps
    DEF recoveryVars, recVars, OnlyTokens, RInv, RecoveryTypeOK
  <2> QED BY <2>1, <2>2 DEF Next, vars
<1>2. RulesInv'
  <2>1. UNCHANGED ruleVars \/ RuleNext
    BY RulesAreStore DEF Next, vars, PipelineInv, KernelTypeOK
  <2> QED BY <2>1, RulesStep
<1>3. PipelineInv'
  BY PipelineStep DEF RInv
<1>4. ReplayInv'
  BY <1>1, ReplayStep
<1>5. TokenInv'
  BY TokenStep DEF ReplayInv
<1> QED BY <1>1, <1>2, <1>3, <1>4, <1>5

\* The invariant behind what follows.
THEOREM KernelInvariance == Spec => []KInv
  BY KernelStarts, KernelSteps, PTL DEF Spec

\* No second effect of an intent starts while a fenced one of it may or may not
\* have happened (write_kernel.py, recovery_guard.py).
THEOREM NothingIsReplayedBlindly == Spec => NoBlindReplay
<1>1. ASSUME KInv, [Next]_vars, NEW e \in crossed' \ crossed,
             NEW f \in (crossed \cap Required) \ {e}, KeyOf[f] = KeyOf[e]
      PROVE  AccountedFor(f)
  <2>1. KernelStep
    BY <1>1 DEF Next, vars, recoveryVars, ownerVars
  <2>2. /\ e \in inv.tries /\ inv.at = "execute" /\ KeyOf[e] = inv.key
        /\ life[e] # "over"
    BY <1>1, <2>1, WhoCrosses DEF KInv
  <2>3. f \notin inv.tries
    BY <1>1, <2>2 DEF KInv, ReplayInv, OneTry
  <2>4. f \in Effects /\ Hot(f)
    BY RequiredAssumption DEF Hot, Fenced
  <2> QED BY <1>1, <2>2, <2>3, <2>4 DEF KInv, ReplayInv, PassedKnows
<1>2. KInv /\ [Next]_vars =>
        [\A e \in crossed' \ crossed : \A f \in (crossed \cap Required) \ {e} :
           KeyOf[f] = KeyOf[e] => AccountedFor(f)]_vars
  BY <1>1
<1> QED BY <1>2, KernelInvariance, PTL DEF Spec, NoBlindReplay

\* A confirmation given before a verdict on its intent became certain is not used
\* after it (reconciliation_coordinator.py, advance_epoch).
THEOREM ConfirmationsKnow == Spec => ConfirmationKnowsVerdicts
<1>1. KInv /\ [Next]_vars =>
        [\A t \in valid \ valid' :
           inv'.at = "execute" => \A e \in Effects :
             keptRows[e] # NoOne /\ KeyOf[e] = tokenKey[t] => e \in under[t]]_vars
  BY DEF KInv, TokenInv, TokensKnow
<1> QED BY <1>1, KernelInvariance, PTL DEF Spec, ConfirmationKnowsVerdicts

\* What was done, or may have been, is not done again inside its TTL (dedupe.py).
THEOREM NothingIsRedone == Spec => DoneIsNotRedone
<1>1. ASSUME KInv, [Next]_vars, NEW e \in crossed' \ crossed
      PROVE  KeyOf[e] \notin done
  <2>1. KernelStep
    BY <1>1 DEF Next, vars, recoveryVars, ownerVars
  <2>2. inv.at = "execute" /\ KeyOf[e] = inv.key
    BY <1>1, <2>1, WhoCrosses DEF KInv
  <2> QED BY <1>1, <2>2 DEF KInv, PipelineInv, PassedIsFresh
<1>2. KInv /\ [Next]_vars => [\A e \in crossed' \ crossed : KeyOf[e] \notin done]_vars
  BY <1>1
<1> QED BY <1>2, KernelInvariance, PTL DEF Spec, DoneIsNotRedone

\* The owner's rules bind every execution (safety/user_rules.py, write_kernel.py).
THEOREM OwnerIsObeyed == Spec => GateObeysOwner
<1>1. ASSUME KInv, [Next]_vars, inv.at # "execute", inv'.at = "execute"
      PROVE  heard.banned = {} /\ (inv.by = "human" \/ heard.allowed)
  <2>1. KernelStep
    BY <1>1 DEF Next, vars, kernelVars
  <2>2. inv.at = "confirm"
    BY <1>1, <2>1, KernelMovesInv, StagesFollow DEF KInv, PipelineInv
  <2> QED BY <1>1, <2>2 DEF KInv, PipelineInv, GateWasObeyed
<1>2. KInv /\ [Next]_vars =>
        [inv.at # "execute" /\ inv'.at = "execute" =>
           heard.banned = {} /\ (inv.by = "human" \/ heard.allowed)]_vars
  BY <1>1
<1> QED BY <1>2, KernelInvariance, PTL DEF Spec, GateObeysOwner

\* Recovery keeps its word under the whole pipeline, too: verdicts stand, never
\* meet an outcome, and are the fact that was approved.
THEOREM RecoveryHoldsUnderKernel ==
  Spec => [](VerdictStands /\ VerdictOrOutcome /\ FrozenFactPrevails)
<1>1. KInv => VerdictStands /\ VerdictOrOutcome /\ FrozenFactPrevails
  BY DEF KInv, RInv, VerdictsAreFinal, VerdictOrOutcome, Settled, PinsAreCommitted,
     PinsPrevail, FrozenFactPrevails
<1> QED BY <1>1, KernelInvariance, PTL

\* So does the guard, which lets go of an effect only for a fact.
THEOREM GuardHoldsUnderKernel == Spec => BlocksEndWithFacts
<1>1. ASSUME KInv, [Next]_vars, ~UNCHANGED recoveryVars, NEW e \in guard.blocks,
             guard'.up, e \notin guard'.blocks
      PROVE  keptRows'[e] # NoOne \/ ~Open(e)'
  <2>1. KernelStep
    BY <1>1 DEF Next, vars
  <2>2. RecoveryNext \/ OnlyTokens
    BY <1>1, <2>1, KernelIsSteady
    DEF KInv, RInv, PipelineInv, KernelTypeOK, Steady, RecoveryNext, Restart
  <2> QED BY <1>1, <2>2, BlocksEnd DEF KInv
<1>2. KInv /\ [Next]_vars =>
        [\A e \in guard.blocks :
           guard'.up /\ e \notin guard'.blocks =>
             keptRows'[e] # NoOne \/ ~Open(e)']_recoveryVars
  BY <1>1
<1> QED BY <1>2, KernelInvariance, PTL DEF Spec, BlocksEndWithFacts
================================================================================
