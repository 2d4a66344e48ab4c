------------------------------- MODULE RuleStore -------------------------------
(***************************************************************************)
(* The owner's standing rules (safety/user_rules.py) and who changes them: *)
(* the rule compiler's confirm (m8_compiler.py), which appends a rule, and *)
(* the re-confirmation of one the owner has reviewed                       *)
(* (m8_rule_lifecycle.py, m8_card_cli.py), in threads and processes that   *)
(* share one JSON document.                                                *)
(*                                                                         *)
(* A rule's selector is reduced to the intents it matches, and its         *)
(* validity window to the moment it was confirmed: now counts those        *)
(* moments.  What the model drafts is any rule: the owner decides on the   *)
(* description that the compiler made of the draft itself.                 *)
(***************************************************************************)
EXTENDS Naturals

CONSTANTS Keys,     \* intents, told apart by their semantic keys
          Ceiling,  \* those of a risk tier that a rule may allow
          Rules,    \* rule ids
          Selects,  \* the intents each rule's selector matches
          Writers,  \* threads and processes that change the document
          MaxNow    \* bound: moments at which a rule is confirmed or edited

Nobody == "nobody"

ASSUME RuleAssumption ==
  /\ Nobody \notin Writers
  /\ Ceiling \subseteq Keys
  /\ Selects \in [Rules -> SUBSET Keys]
  /\ MaxNow \in Nat

VARIABLES
  doc,    \* the entry of each rule in the file
  sound,  \* every entry of the file is valid
  over,   \* the rules whose window has passed
  job,    \* what each writer is doing
  fence,  \* who holds the mutation fence
  now     \* the last moment

ruleVars == <<doc, sound, over, job, fence, now>>

Decisions == {"allow", "ask", "never"}

Absent == [says |-> "nothing", at |-> 0]

Entries == {Absent} \cup [says : Decisions, at : Nat]

NoJob == [at |-> "none"]

Jobs ==
  {NoJob} \cup
  [at : {"drafted", "decided", "install"}, rule : Rules, saw : Entries,
   says : Decisions, read : [Rules -> Entries]]

Unread == [r \in Rules |-> Absent]

RuleTypeOK ==
  /\ doc \in [Rules -> Entries] /\ sound \in BOOLEAN
  /\ over \subseteq {r \in Rules : doc[r] # Absent}
  /\ job \in [Writers -> Jobs]
  /\ fence \in Writers \cup {Nobody} /\ now \in Nat

RuleInit(d) ==
  /\ doc = d /\ sound = TRUE /\ over = {} /\ now = 0
  /\ job = [w \in Writers |-> NoJob] /\ fence = Nobody

--------------------------------------------------------------------------------
(* Reading: load() and match(), which never take the fence.                *)

\* The rules that are in force for an intent; an invalid entry voids the read.
InForce(k) ==
  {r \in Rules : sound /\ doc[r] # Absent /\ r \notin over /\ k \in Selects[r]}

Says(k, decision) == \E r \in InForce(k) : doc[r].says = decision

\* never > ask > allow, and no allow above the ceiling.  No match asks.
Match(k) ==
  CASE Says(k, "never") -> "never"
    [] Says(k, "allow") /\ ~Says(k, "ask") /\ ~Says(k, "never") /\ k \in Ceiling
         -> "allow"
    [] OTHER -> "ask"

--------------------------------------------------------------------------------
(* Writing.                                                                *)

SetJob(w, j) == job' = [job EXCEPT ![w] = j]

\* compile(): of what the model wrote, either nothing or a rule that the store
\* could hold, with an id of its own.  Nothing is stored.
Compile(w, r, says) ==
  /\ job[w] = NoJob /\ now < MaxNow
  /\ SetJob(w, [at |-> "drafted", rule |-> r, saw |-> Absent, says |-> says,
                read |-> Unread])
  /\ UNCHANGED <<doc, sound, over, fence, now>>

\* confirm(): the owner has read what the draft's structure means, and that is
\* still what it means.
ConfirmDraft(w) ==
  /\ job[w].at = "drafted" /\ SetJob(w, [job[w] EXCEPT !.at = "decided"])
  /\ UNCHANGED <<doc, sound, over, fence, now>>

\* The owner sees a stored rule, expired or not, and confirms it again.
Review(w, r) ==
  /\ job[w] = NoJob /\ now < MaxNow
  /\ sound /\ doc[r] # Absent
  /\ SetJob(w, [at |-> "decided", rule |-> r, saw |-> doc[r],
                says |-> doc[r].says, read |-> Unread])
  /\ UNCHANGED <<doc, sound, over, fence, now>>

\* Fault: a rule is what its id says.
EnterById(w) ==
  /\ job[w].at = "decided" /\ fence = Nobody
  /\ sound /\ (doc[job[w].rule] = Absent <=> job[w].saw = Absent)
  /\ fence' = w
  /\ SetJob(w, [job[w] EXCEPT !.at = "install", !.read = doc])
  /\ UNCHANGED <<doc, sound, over, now>>

\* append_strict, replace_if_current: under the fence the document is read
\* strictly, and the rule is still what the owner saw: absent, or equal in
\* every field.
Enter(w) ==
  /\ job[w].at = "decided" /\ fence = Nobody
  /\ sound /\ doc[job[w].rule] = job[w].saw
  /\ fence' = w
  /\ SetJob(w, [job[w] EXCEPT !.at = "install", !.read = doc])
  /\ UNCHANGED <<doc, sound, over, now>>

\* The complete document replaces the file.
Install(w) ==
  LET r == job[w].rule IN
  /\ job[w].at = "install"
  /\ now' = now + 1
  /\ doc' = [job[w].read EXCEPT ![r] = [says |-> job[w].says, at |-> now']]
  /\ over' = over \ {r}
  /\ fence' = Nobody /\ SetJob(w, NoJob)
  /\ UNCHANGED sound

\* The draft is rejected or the owner declines, the document is refused
\* (RuleStoreError), the file can not be written or replaced, or the writer
\* dies: the fence is let go, the document is as it was.
GiveUp(w) ==
  /\ job[w].at # "none" /\ SetJob(w, NoJob)
  /\ fence' = IF fence = w THEN Nobody ELSE fence
  /\ UNCHANGED <<doc, sound, over, now>>

\* save(): the owner replaces the whole document, here by one with a rule of
\* his own hand, or without one.
Save(r) ==
  /\ fence = Nobody /\ now < MaxNow
  /\ now' = now + 1 /\ sound' = TRUE /\ over' = over \ {r}
  /\ \/ \E says \in Decisions :
          doc' = [doc EXCEPT ![r] = [says |-> says, at |-> now']]
     \/ doc[r] # Absent /\ doc' = [doc EXCEPT ![r] = Absent]
  /\ UNCHANGED <<job, fence>>

\* The file is edited, and holds something that is not a rule.
Spoil ==
  /\ fence = Nobody /\ sound /\ sound' = FALSE
  /\ UNCHANGED <<doc, over, job, fence, now>>

Lapse(r) ==
  /\ doc[r] # Absent /\ r \notin over
  /\ over' = over \cup {r}
  /\ UNCHANGED <<doc, sound, job, fence, now>>

WriterStep(w) ==
  \/ ConfirmDraft(w) \/ Enter(w) \/ Install(w) \/ GiveUp(w)
  \/ \E r \in Rules :
       Review(w, r) \/ \E says \in Decisions : Compile(w, r, says)

OwnerEdits == Spoil \/ \E r \in Rules : Save(r)

RuleNext ==
  \/ \E w \in Writers : WriterStep(w)
  \/ OwnerEdits \/ \E r \in Rules : Lapse(r)

RuleSpec ==
  (\E d \in [Rules -> Entries] : RuleInit(d)) /\ [][RuleNext]_ruleVars

--------------------------------------------------------------------------------
(* Safety.                                                                 *)

\* The owner's word stands: while he confirms a rule, whoever else writes and
\* whoever crashes, no other rule is lost or changed, the rule he confirms says
\* what he saw it say, and a document that can not be read is not replaced.  It
\* is kept among writers that take the fence (append_strict, replace_if_current,
\* save); an editor that takes none can overwrite and be overwritten.
RulesKeepTheirWord ==
  [][\A w \in Writers :
       LET r == job[w].rule IN
       job[w].at = "install" /\ job'[w] = NoJob /\ doc' # doc =>
         /\ sound
         /\ \A s \in Rules \ {r} : doc'[s] = doc[s]
         /\ doc[r] # Absent => doc'[r].says = doc[r].says]_ruleVars
================================================================================
