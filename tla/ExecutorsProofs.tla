----------------------------- MODULE ExecutorsProofs ---------------------------
(***************************************************************************)
(* Proofs about Executors, for any attempts in turn, any page, any number  *)
(* of surprises and of calls from another task: what is clicked is what    *)
(* was approved, what is told is true, what the tracker credits is in the  *)
(* browser, and nothing keeps the browser afterwards.                      *)
(***************************************************************************)
EXTENDS Executors, SequenceTheorems, TLAPS

Ops == Staging \cup Owned \cup OneShots

Trackers == [opened : BOOLEAN, filled : BOOLEAN, attached : Nat,
             sealed : BOOLEAN, cleaning : BOOLEAN, effect : BOOLEAN,
             stage : BOOLEAN, gen : Nat]

Words == {"empty", "other"} \cup {TextOf[a] : a \in Attempts}

Someone == Attempts \cup {NoOne}

Happened == [by : Someone, on : Someone, text : Words, media : Nat]

Underway == [for : Attempts, op : Ops, at : {"waits", "works", "gate", "clicks"},
             gen : Nat]

Ended == {"none"} \cup Results

Pages == [bound : BOOLEAN, text : Words, approved : Nat, loose : Nat]

Locals == [pc : Nat \ {0}, result : Ended, mutated : Ended,
           baseline : SUBSET Happened, seen : Happened \cup {NoOne}]

AuthorityTypeOK ==
  /\ prep \in [Attempts -> Trackers]
  /\ standing \in [Attempts -> {"new", "preparing", "clean", "confirmed", "unknown"}]
  /\ revoked \subseteq Attempts
  /\ permit \in [Attempts -> {"none", "denied", "ambiguous", "issued", "consumed"}]

BrokerTypeOK ==
  /\ lock \in Tasks \cup {NoOne} /\ owner \in BOOLEAN /\ context \in Someone
  /\ page \in Pages
  /\ killed \in BOOLEAN /\ effects \subseteq Happened
  /\ satisfied \subseteq Attempts /\ spoiled \in BOOLEAN

ExecutorTypeOK ==
  /\ call \in [Tasks -> {NoCall} \cup Underway]
  /\ phase \in [Attempts -> {"idle", "steps", "crosses", "aborts", "closes",
                             "settles", "records", "over"}]
  /\ frame \in [Attempts -> Locals]
  /\ told \in [Attempts -> {"nothing", "failed", "ok", "unknown", "raised"}]
  /\ strays \in Nat /\ surprises \in Nat /\ load \in Workloads

TypeOK == AuthorityTypeOK /\ BrokerTypeOK /\ ExecutorTypeOK

--------------------------------------------------------------------------------
(* Who calls what, and where an execution is.                              *)

\* Where a script crosses.
CrossAt(a) ==
  CASE ActionOf[a] = "engage" -> 1
    [] ActionOf[a] = "delete" -> 2
    [] OTHER -> Len(StagingSteps(a)) + 2 * MediaOf[a] + 3

\* The executor waits for the call of its step, or for its cleanup.
OwnCalls ==
  \A a \in Attempts : call[a] # NoCall =>
    /\ call[a].for = a /\ frame[a].result = "none"
    /\ \/ /\ phase[a] = "steps" /\ ~AtEnd(a) /\ ~Crossing(a)
          /\ call[a].op = Step(a)
       \/ phase[a] = "crosses" /\ call[a].op = Step(a)
       \/ phase[a] = "closes" /\ call[a].op = "close"

\* The other task stages or cleans up, on a handle that was made.
StrayCalls ==
  call[Stray] # NoCall =>
    /\ call[Stray].for \in Content \cap load.attempts
    /\ call[Stray].op \in StagingOf(call[Stray].for) \cup {"close"}
    /\ standing[call[Stray].for] # "new"
    /\ load.strays # 0

\* Who is past its admission has the operation lock.
LockHeld ==
  \A c \in Tasks :
    /\ call[c].at \in {"works", "gate", "clicks"} <=> lock = c
    /\ call[c].at \in {"gate", "clicks"} => call[c].op \in {"submit", "apply"}

InTurn ==
  /\ \A a, b \in Running : a = b
  /\ Running \subseteq load.attempts

\* What each phase knows of its attempt.
Phases ==
  \A a \in Attempts :
    /\ phase[a] = "idle" <=> standing[a] = "new"
    /\ phase[a] = "idle" => prep[a] = Fresh /\ frame[a] = Entry /\ permit[a] = "none"
    /\ phase[a] = "steps" =>
         /\ frame[a].pc <= Len(Script(a)) + 1
         /\ Crossed(a) <=> frame[a].pc > CrossAt(a)
         /\ frame[a].pc = CrossAt(a) => frame[a].result = "none"
    /\ phase[a] = "crosses" =>
         /\ frame[a].pc = CrossAt(a)
         /\ Crossed(a) => call[a] # NoCall \/ frame[a].result # "none"
    /\ phase[a] \in {"aborts", "closes"} => a \in Content /\ ~Crossed(a)
    /\ phase[a] = "settles" => a \notin Content /\ ~Crossed(a)
    /\ phase[a] = "records" => Crossed(a) /\ ~AtEnd(a)

\* Content crosses sealed, and what is left behind alive is sealed.
SealedFirst ==
  \A a \in Content :
    /\ phase[a] = "crosses" \/ permit[a] # "none" => prep[a].sealed
    /\ phase[a] = "over" /\ standing[a] = "preparing" => prep[a].sealed

\* A mutation crosses at its click.
PermitOfCall ==
  \A c \in Tasks : call[c].op \in {"submit", "apply"} =>
    IF call[c].at = "clicks" THEN Crossed(call[c].for)
    ELSE ~Exhausted(call[c].for)

CallInv ==
  /\ OwnCalls /\ StrayCalls /\ LockHeld /\ InTurn /\ Phases
  /\ SealedFirst /\ PermitOfCall

--------------------------------------------------------------------------------
(* What the tracker says of the calls, and what the browser holds.         *)

\* One stage and one cleanup at a time; nothing is credited meanwhile.
Tracked ==
  /\ \A c \in Tasks : call[c].op \in Staging => prep[call[c].for].stage
  /\ \A c \in Tasks : call[c].op = "close" => prep[call[c].for].cleaning
  /\ \A c, d \in Tasks :
       call[c].op \in Staging /\ call[d].op \in Staging /\ call[c].for = call[d].for
         => c = d
  /\ \A c, d \in Tasks :
       call[c].op = "close" /\ call[d].op = "close" /\ call[c].for = call[d].for
         => c = d
  /\ \A a \in Attempts : prep[a].effect => call[a].op = "submit"
  /\ \A a \in Attempts : prep[a].cleaning =>
       \E c \in Tasks : call[c].op = "close" /\ call[c].for = a

Credited ==
  /\ \A a \in Content : prep[a].cleaning => ~prep[a].opened /\ ~prep[a].filled
  /\ \A a \in Content : ActionOf[a] = "post" => prep[a].opened = prep[a].filled
  /\ \A c \in Tasks : call[c].op \in Opening => ~prep[call[c].for].opened

\* While a running attempt is credited with a composer, nobody binds another.
NoRival ==
  \A a \in Running \cap Content : prep[a].opened /\ ~Crossed(a) =>
    /\ context \in {a, NoOne}
    /\ \A c \in Tasks : call[c].op \in Opening /\ call[c].for # a =>
         call[c].at = "waits" /\ owner

\* What the holder of the operation lock established.
AtWork ==
  \A c \in Tasks :
    /\ call[c].op \in Opening /\ call[c].at = "works" => owner
    /\ call[c].op = "submit" /\ call[c].at # "waits" => context # NoOne
    /\ call[c].at \in {"gate", "clicks"} /\ call[c].for \in Content =>
         context = call[c].for

BrowserInv == Tracked /\ Credited /\ NoRival /\ AtWork

\* Effects are those of approved attempts that crossed, or were made elsewhere.
EffectsAreApproved ==
  \A e \in effects :
    IF e.by = NoOne THEN e.on = NoOne /\ e.text = "other"
    ELSE /\ e.on = e.by /\ e.text = TextOf[e.by] /\ e.media = MediaOf[e.by]
         /\ Crossed(e.by)

--------------------------------------------------------------------------------
(* What an undisturbed attempt keeps and gives back.                       *)

Held ==
  \A a \in Content : prep[a].opened /\ ~Crossed(a) /\ Undisturbed(a) =>
    owner /\ context = a

\* Nobody undoes the cleanup of an attempt that is alone with its handle.
CleanedUp ==
  load.strays = 0 => \A a \in Content :
    phase[a] \in {"closes", "over"} => ~prep[a].opened \/ Crossed(a)

\* An attempt that will give the composer back.
Keeps(a) ==
  \/ phase[a] \in {"steps", "crosses", "aborts"} /\ ~Crossed(a)
  \/ phase[a] = "closes" /\ call[a] # NoCall
  \/ phase[a] = "crosses" /\ call[a].at = "clicks"

GivenBack ==
  load.strays = 0 /\ owner /\ ~spoiled => \E a \in Content : Keeps(a)

LeaseInv == Held /\ CleanedUp /\ GivenBack

--------------------------------------------------------------------------------
(* What the executor may conclude.                                         *)

\* The step that is n behind the crossing has succeeded.
Passed(a, n) ==
  \/ frame[a].pc > CrossAt(a) + n
  \/ frame[a].pc = CrossAt(a) + n /\ frame[a].result = "ok"

\* The evidence that the steps behind it have found.
Evident ==
  \A a \in Attempts : phase[a] = "steps" =>
    IF a \in Content
    THEN /\ Passed(a, 1) => frame[a].seen \in Posts
         /\ Passed(a, 2) => Shows(a, frame[a].seen)
    ELSE Passed(a, 1) => a \in satisfied

\* A mutation that succeeded without crossing had nothing to do.
NothingToDo ==
  \A a \in Attempts :
    /\ phase[a] = "crosses" /\ ~Crossed(a) /\ frame[a].result = "ok" => a \in satisfied
    /\ phase[a] = "settles" /\ frame[a].mutated = "ok" => a \in satisfied

\* What was concluded.
Concluded ==
  \A a \in Attempts :
    /\ phase[a] # "over" => standing[a] \in {"new", "preparing"} /\ told[a] = "nothing"
    /\ standing[a] = "confirmed" =>
         IF a \in Content THEN By(a) # {} ELSE a \in satisfied
    /\ standing[a] = "clean" \/ told[a] = "failed" => ~Crossed(a)
    /\ told[a] = "ok" => standing[a] = "confirmed" \/ a \in satisfied

OutcomeInv == Evident /\ NothingToDo /\ Concluded

IInv ==
  TypeOK /\ CallInv /\ BrowserInv /\ EffectsAreApproved /\ LeaseInv /\ OutcomeInv

--------------------------------------------------------------------------------
(* The scripts.                                                            *)

\* The operations ahead of the crossing, and those that look for evidence.
Ahead(a) ==
  IF a \in Content THEN StagingOf(a) \cup {"ready", "recheck", "baseline"}
  ELSE {"look_present"}
Behind(a) == IF a \in Content THEN {"capture", "verify", "count"} ELSE {"look"}

Names == {"fill_composer", "open_reply", "fill_reply", "open_quote", "fill_quote",
          "attach", "ready", "recheck", "baseline", "submit", "capture", "verify",
          "count", "apply", "look", "look_present"}

\* Where a script stages, crosses and looks.
Shaped(a) ==
  /\ Script(a) \in Seq(Names)
  /\ CrossAt(a) \in Nat \ {0}
  /\ \A i \in 1..Len(Script(a)) : i < CrossAt(a) => Script(a)[i] \in Ahead(a)
  /\ \A i \in 1..Len(Script(a)) : i > CrossAt(a) => Script(a)[i] \in Behind(a)
  /\ IF a \in Content
     THEN /\ Len(Script(a)) >= CrossAt(a) + 2
          /\ Script(a)[CrossAt(a)] = "submit"
          /\ Script(a)[CrossAt(a) + 1] = "capture"
          /\ Script(a)[CrossAt(a) + 2] = "verify"
          /\ \A i \in 1..Len(Script(a)) : i > CrossAt(a) + 2 => Script(a)[i] = "count"
     ELSE /\ Len(Script(a)) = CrossAt(a) + 1
          /\ Script(a)[CrossAt(a)] = "apply"
          /\ Script(a)[CrossAt(a) + 1] = "look"

\* Two sequences in a row.
LEMMA Joined ==
  ASSUME NEW S, NEW s \in Seq(S), NEW t \in Seq(S)
  PROVE  /\ s \o t \in Seq(S) /\ Len(s \o t) = Len(s) + Len(t)
         /\ Len(s) \in Nat /\ Len(t) \in Nat
         /\ \A i \in 1..Len(s) : (s \o t)[i] = s[i]
         /\ \A i \in 1..Len(t) : (s \o t)[i + Len(s)] = t[i]
<1>1. /\ s \o t \in Seq(S) /\ Len(s \o t) = Len(s) + Len(t)
      /\ Len(s) \in Nat /\ Len(t) \in Nat
      /\ \A i \in 1..(Len(s) + Len(t)) :
           (s \o t)[i] = IF i <= Len(s) THEN s[i] ELSE t[i - Len(s)]
  BY ConcatProperties, LenProperties
<1>2. ASSUME NEW i \in 1..Len(t) PROVE (s \o t)[i + Len(s)] = t[i]
  <2>1. /\ i + Len(s) \in 1..(Len(s) + Len(t)) /\ ~(i + Len(s) <= Len(s))
        /\ (i + Len(s)) - Len(s) = i
    BY <1>1
  <2> QED BY <1>1, <2>1
<1> QED BY <1>1, <1>2

LEMMA KindsOfActions ==
  ASSUME NEW a \in Attempts
  PROVE  /\ ActionOf[a] \in {"post", "reply", "quote", "engage", "delete"}
         /\ a \in Content <=> ActionOf[a] \in {"post", "reply", "quote"}
         /\ MediaOf[a] \in Nat
  BY ExecutorAssumption DEF Content

LEMMA ContentIsShaped ==
  ASSUME NEW a \in Content PROVE Shaped(a)
<1> DEFINE st == StagingSteps(a)
           md == MediaSteps(a)
           mid == <<"recheck", "baseline", "submit">>
           ev == EvidenceSteps(a)
<1>1. /\ a \in Attempts /\ MediaOf[a] \in Nat
      /\ ActionOf[a] \in {"post", "reply", "quote"}
  BY KindsOfActions DEF Content
<1>2. /\ st \in Seq(Names) /\ Len(st) \in {1, 2}
      /\ \A i \in 1..Len(st) : st[i] \in StagingOf(a)
  <2>1. CASE ActionOf[a] = "post"
    BY <2>1 DEF StagingSteps, PostSteps, StagingOf, Names
  <2>2. CASE ActionOf[a] = "reply"
    BY <2>2 DEF StagingSteps, ReplySteps, StagingOf, Names
  <2>3. CASE ActionOf[a] = "quote"
    BY <2>3 DEF StagingSteps, QuoteSteps, StagingOf, Names
  <2> QED BY <1>1, <2>1, <2>2, <2>3
<1>3. /\ md \in Seq(Names) /\ Len(md) = 2 * MediaOf[a]
      /\ \A i \in 1..Len(md) : md[i] \in {"attach", "ready"}
  <2>1. 2 * MediaOf[a] \in Nat
    BY <1>1
  <2>2. /\ DOMAIN md = 1..(2 * MediaOf[a])
        /\ \A i \in 1..(2 * MediaOf[a]) : md[i] \in {"attach", "ready"}
    BY DEF MediaSteps
  <2>3. md \in [1..(2 * MediaOf[a]) -> Names]
    BY <2>2 DEF MediaSteps, Names
  <2> QED BY <2>1, <2>2, <2>3, SeqDef, LenProperties
<1>4. mid \in Seq(Names) /\ Len(mid) = 3
      /\ mid[1] = "recheck" /\ mid[2] = "baseline" /\ mid[3] = "submit"
  BY DEF Names
<1>5. /\ ev \in Seq(Names) /\ Len(ev) \in {2, 3}
      /\ ev[1] = "capture" /\ ev[2] = "verify"
      /\ \A i \in 1..Len(ev) : ev[i] \in {"capture", "verify", "count"}
      /\ \A i \in 1..Len(ev) : i > 2 => ev[i] = "count"
  <2>1. CASE MediaOf[a] > 0
    <3>1. ev = MediaEvidence
      BY <1>1, <2>1 DEF EvidenceSteps
    <3> HIDE DEF ev
    <3> QED BY <3>1 DEF MediaEvidence, Names
  <2>2. CASE MediaOf[a] = 0 /\ ActionOf[a] = "post"
    BY <2>2 DEF EvidenceSteps, PostEvidence, Names
  <2>3. CASE MediaOf[a] = 0 /\ ActionOf[a] = "reply"
    BY <2>3 DEF EvidenceSteps, ReplyEvidence, Names
  <2>4. CASE MediaOf[a] = 0 /\ ActionOf[a] = "quote"
    BY <2>4 DEF EvidenceSteps, QuoteEvidence, Names
  <2> QED BY <1>1, <2>1, <2>2, <2>3, <2>4
<1>6. Script(a) = ((st \o md) \o mid) \o ev
  BY <1>1 DEF Script, ContentSteps
<1>7. CrossAt(a) = Len(st) + Len(md) + 3
  BY <1>1, <1>3 DEF CrossAt
<1>8. "attach" \in StagingOf(a)
  BY <1>1 DEF StagingOf
<1> HIDE DEF st, md, mid, ev
<1>8a. Len(st) \in Nat /\ Len(md) \in Nat
  BY <1>2, <1>3, LenProperties
<1> DEFINE front == (st \o md) \o mid
<1>9. /\ front \in Seq(Names) /\ Len(front) = CrossAt(a)
      /\ \A i \in 1..Len(st) : front[i] = st[i]
      /\ \A i \in 1..Len(md) : front[i + Len(st)] = md[i]
      /\ \A i \in 1..3 : front[i + Len(st) + Len(md)] = mid[i]
  <2> PICK sm : sm = st \o md
    OBVIOUS
  <2>1. /\ sm \in Seq(Names) /\ Len(sm) = Len(st) + Len(md)
        /\ \A i \in 1..Len(st) : sm[i] = st[i]
        /\ \A i \in 1..Len(md) : sm[i + Len(st)] = md[i]
    BY <1>2, <1>3, Joined
  <2>2. /\ front \in Seq(Names) /\ Len(front) = Len(sm) + Len(mid)
        /\ \A i \in 1..Len(sm) : front[i] = sm[i]
        /\ \A i \in 1..Len(mid) : front[i + Len(sm)] = mid[i]
    <3>1. PICK f : f = sm \o mid
      OBVIOUS
    <3>2. mid \in Seq(Names)
      BY <1>4
    <3>3. /\ f \in Seq(Names) /\ Len(f) = Len(sm) + Len(mid)
          /\ \A i \in 1..Len(sm) : f[i] = sm[i]
          /\ \A i \in 1..Len(mid) : f[i + Len(sm)] = mid[i]
      BY <2>1, <3>1, <3>2, Joined
    <3>4. front = f
      BY <3>1 DEF front
    <3> QED BY <3>3, <3>4
  <2> HIDE DEF front
  <2>3. ASSUME NEW i \in 1..Len(md) PROVE front[i + Len(st)] = md[i]
    <3>1. i + Len(st) \in 1..Len(sm)
      BY <1>2, <1>3, <2>1
    <3> QED BY <2>1, <2>2, <3>1
  <2>4. ASSUME NEW i \in 1..Len(st) PROVE front[i] = st[i]
    <3>1. i \in 1..Len(sm)
      BY <1>2, <1>3, <2>1
    <3> QED BY <2>1, <2>2, <3>1
  <2>5. ASSUME NEW i \in 1..3 PROVE front[i + Len(st) + Len(md)] = mid[i]
    <3>1. i + Len(st) + Len(md) = i + Len(sm)
      BY <1>2, <1>3, <2>1
    <3> QED BY <1>4, <2>2, <3>1
  <2> QED BY <1>2, <1>3, <1>4, <1>7, <2>1, <2>2, <2>3, <2>4, <2>5
<1> HIDE DEF front
<1>10. /\ Script(a) \in Seq(Names) /\ Len(Script(a)) = CrossAt(a) + Len(ev)
       /\ \A i \in 1..CrossAt(a) : Script(a)[i] = front[i]
       /\ \A i \in 1..Len(ev) : Script(a)[i + CrossAt(a)] = ev[i]
  <2>1. PICK f : f = front \o ev
    OBVIOUS
  <2>2. /\ f \in Seq(Names) /\ Len(f) = Len(front) + Len(ev)
        /\ \A i \in 1..Len(front) : f[i] = front[i]
        /\ \A i \in 1..Len(ev) : f[i + Len(front)] = ev[i]
    <3>1. ev \in Seq(Names) /\ front \in Seq(Names)
      BY <1>5, <1>9
    <3> QED BY <2>1, <3>1, Joined
  <2>3. Script(a) = f
    BY <1>6, <2>1 DEF front
  <2> QED BY <1>9, <2>2, <2>3
<1>11. CrossAt(a) \in Nat \ {0}
  BY <1>2, <1>3, <1>7
<1>12. ASSUME NEW i \in 1..CrossAt(a), i < CrossAt(a)
       PROVE  Script(a)[i] \in Ahead(a)
  <2>0. Script(a)[i] = front[i] /\ i \in Nat
    BY <1>10, <1>11, <1>12
  <2>1. CASE i <= Len(st)
    BY <1>2, <1>9, <2>0, <2>1 DEF Ahead
  <2>2. CASE i > Len(st) /\ i <= Len(st) + Len(md)
    <3>1. i - Len(st) \in 1..Len(md) /\ i = (i - Len(st)) + Len(st)
      BY <1>2, <1>3, <2>0, <2>2
    <3>2. front[(i - Len(st)) + Len(st)] = md[i - Len(st)]
      BY <1>9, <3>1
    <3>3. Script(a)[i] \in {"attach", "ready"}
      BY <1>3, <2>0, <3>1, <3>2
    <3> QED BY <1>8, <3>3 DEF Ahead
  <2>3. CASE i > Len(st) + Len(md)
    <3>1. i - Len(st) - Len(md) \in 1..2 /\ i = (i - Len(st) - Len(md)) + Len(st) + Len(md)
      <4>1. i < Len(st) + Len(md) + 3 /\ i \in Nat
        BY <1>7, <1>12, <2>0
      <4> QED BY <1>8a, <2>3, <4>1
    <3>2. PICK n \in 1..2 : i = n + Len(st) + Len(md)
      BY <3>1
    <3>3. Script(a)[i] = mid[n] /\ n \in 1..3
      BY <1>9, <2>0, <3>2
    <3>4. mid[n] \in {"recheck", "baseline"}
      BY <1>4, <3>2
    <3> QED BY <1>1, <3>3, <3>4 DEF Ahead, Content
  <2> QED BY <1>2, <1>3, <2>0, <2>1, <2>2, <2>3
<1>13. ASSUME NEW i \in 1..Len(Script(a)), i > CrossAt(a)
       PROVE  Script(a)[i] \in Behind(a)
  <2>1. i - CrossAt(a) \in 1..Len(ev) /\ i = (i - CrossAt(a)) + CrossAt(a)
    BY <1>5, <1>10, <1>11, <1>13
  <2> QED BY <1>5, <1>10, <2>1 DEF Behind
<1>14. Script(a)[CrossAt(a)] = "submit"
  <2>1. front[3 + Len(st) + Len(md)] = mid[3]
    BY <1>9
  <2>2. 3 + Len(st) + Len(md) = CrossAt(a)
    BY <1>7, <1>8a
  <2>3. front[CrossAt(a)] = mid[3]
    BY <2>1, <2>2
  <2>4. Script(a)[CrossAt(a)] = front[CrossAt(a)]
    BY <1>10, <1>11
  <2> QED BY <1>4, <2>3, <2>4
<1>15. Script(a)[CrossAt(a) + 1] = "capture" /\ Script(a)[CrossAt(a) + 2] = "verify"
  <2>1. Script(a)[1 + CrossAt(a)] = ev[1] /\ Script(a)[2 + CrossAt(a)] = ev[2]
    BY <1>5, <1>10
  <2>2. 1 + CrossAt(a) = CrossAt(a) + 1 /\ 2 + CrossAt(a) = CrossAt(a) + 2
    BY <1>11
  <2> QED BY <1>5, <2>1, <2>2
<1>16. ASSUME NEW i \in 1..Len(Script(a)), i > CrossAt(a) + 2
       PROVE  Script(a)[i] = "count"
  <2>1. /\ i - CrossAt(a) \in 1..Len(ev) /\ i = (i - CrossAt(a)) + CrossAt(a)
        /\ i - CrossAt(a) > 2
    BY <1>5, <1>10, <1>11, <1>16
  <2> QED BY <1>5, <1>10, <2>1
<1> QED BY <1>5, <1>10, <1>11, <1>12, <1>13, <1>14, <1>15, <1>16 DEF Shaped

LEMMA ScriptIsShaped ==
  ASSUME NEW a \in Attempts PROVE Shaped(a)
<1>1. CASE ActionOf[a] = "engage"
  BY <1>1, KindsOfActions DEF Shaped, Script, EngageSteps, CrossAt, Ahead, Behind,
     Names
<1>2. CASE ActionOf[a] = "delete"
  BY <1>2, KindsOfActions DEF Shaped, Script, DeleteSteps, CrossAt, Ahead, Behind,
     Names
<1> QED BY <1>1, <1>2, ContentIsShaped, KindsOfActions

--------------------------------------------------------------------------------
(* Types.                                                                  *)

\* What a call in flight is.
LEMMA CallIs ==
  ASSUME TypeOK, NEW c \in Tasks
  PROVE  /\ call[c].at = "idle" <=> call[c] = NoCall
         /\ call[c].op \in Ops => call[c] \in Underway
         /\ call[c].at \in {"waits", "works", "gate", "clicks"} => call[c] \in Underway
         /\ call[c] # NoCall => call[c] \in Underway
  BY DEF TypeOK, ExecutorTypeOK, NoCall, Underway, Ops, Staging, Opening, Filling,
     Owned, OneShots

LEMMA TrackersFinish ==
  ASSUME TypeOK, NEW k \in Underway, NEW res \in Results
  PROVE  Finished(k, res) \in Trackers
<1>1. k.for \in Attempts /\ prep[k.for] \in Trackers
  BY DEF TypeOK, AuthorityTypeOK, Underway
<1>2. CASE k.op \in Staging
  <2>1. Finished(k, res) = StageFinished(k.for, k.op, k.gen, res = "ok")
    BY <1>2 DEF Finished, Staging, Opening, Filling
  <2> DEFINE t == [prep[k.for] EXCEPT !.stage = FALSE]
  <2>2. t \in Trackers
    BY <1>1 DEF Trackers
  <2>3. \/ Finished(k, res) = t
        \/ Finished(k, res) =
             [t EXCEPT !.opened = t.opened \/ k.op \in Opening,
                       !.filled = t.filled \/ k.op \in Filling,
                       !.attached = IF k.op = "attach" THEN t.attached + 1
                                    ELSE t.attached]
    BY <2>1 DEF StageFinished
  <2> HIDE DEF t
  <2>4. /\ (t.opened \/ k.op \in Opening) \in BOOLEAN
        /\ (t.filled \/ k.op \in Filling) \in BOOLEAN
    OBVIOUS
  <2>5. t.attached + 1 \in Nat
    BY <2>2 DEF Trackers
  <2> QED BY <2>2, <2>3, <2>4, <2>5 DEF Trackers
<1>3. CASE k.op = "close"
  BY <1>1, <1>3 DEF Finished, CleanupFinished, Trackers, Staging, Opening, Filling
<1>4. CASE k.op = "submit"
  BY <1>1, <1>4 DEF Finished, EffectFinished, Trackers, Staging, Opening, Filling
<1>5. CASE k.op \notin Staging \cup {"close", "submit"}
  BY <1>1, <1>5 DEF Finished
<1> QED BY <1>2, <1>3, <1>4, <1>5

LEMMA TrackersBegin ==
  ASSUME TypeOK, NEW a \in Attempts, NEW op \in Ops
  PROVE  Begun(a, op) \in Trackers
<1>1. prep[a] \in Trackers
  BY DEF TypeOK, AuthorityTypeOK
<1>2. CASE op \in Staging
  <2>1. Begun(a, op) = [prep[a] EXCEPT !.stage = TRUE]
    BY <1>2 DEF Begun, StageBegun, Staging, Opening, Filling
  <2> QED BY <1>1, <2>1 DEF Trackers
<1>3. CASE op = "close"
  <2>1. Begun(a, op) = CleanupBegun(a)
    BY <1>3 DEF Begun, Staging, Opening, Filling
  <2>2. prep[a].gen + 1 \in Nat
    BY <1>1 DEF Trackers
  <2>3. CleanupBegun(a) =
          [prep[a] EXCEPT !.cleaning = TRUE, !.gen = prep[a].gen + 1,
                          !.opened = FALSE, !.filled = FALSE, !.attached = 0]
    BY DEF CleanupBegun
  <2>4. \A n \in Nat : [prep[a] EXCEPT !.cleaning = TRUE, !.gen = n,
                       !.opened = FALSE, !.filled = FALSE, !.attached = 0] \in Trackers
    BY <1>1 DEF Trackers
  <2> QED BY <2>1, <2>2, <2>3, <2>4
<1>4. CASE op = "submit"
  <2>1. Begun(a, op) = EffectBegun(a)
    BY <1>4 DEF Begun, Staging, Opening, Filling
  <2>2. (a \in Content) \in BOOLEAN
    OBVIOUS
  <2> QED BY <1>1, <2>1, <2>2 DEF EffectBegun, Trackers
<1>5. CASE op \notin Staging \cup {"close", "submit"}
  BY <1>1, <1>5 DEF Begun
<1> QED BY <1>2, <1>3, <1>4, <1>5

\* The frame of a task that is answered.
LEMMA FrameIsTyped ==
  ASSUME TypeOK, NEW c \in Tasks, NEW res \in Ended, Returned(c, res)
  PROVE  frame' \in [Attempts -> Locals]
  BY DEF TypeOK, ExecutorTypeOK, Returned, Tasks, Locals

LEMMA EndIsTyped ==
  ASSUME TypeOK, NEW c \in Tasks, call[c] # NoCall, NEW res \in Results, End(c, res)
  PROVE  /\ call' \in [Tasks -> {NoCall} \cup Underway]
         /\ prep' \in [Attempts -> Trackers]
         /\ lock' \in Tasks \cup {NoOne}
         /\ frame' \in [Attempts -> Locals]
<1>1. call[c] \in Underway
  BY CallIs
<1>2. Finished(call[c], res) \in Trackers
  BY <1>1, TrackersFinish
<1>3. Returned(c, res) /\ res \in Ended
  BY DEF End, Ended
<1> QED BY <1>1, <1>2, <1>3, FrameIsTyped
        DEF TypeOK, ExecutorTypeOK, AuthorityTypeOK, BrokerTypeOK, End, Underway

LEMMA BeginIsTyped ==
  ASSUME TypeOK, NEW c \in Tasks, NEW a \in Attempts, NEW op \in Ops, Begin(c, a, op)
  PROVE  /\ call' \in [Tasks -> {NoCall} \cup Underway]
         /\ prep' \in [Attempts -> Trackers]
         /\ frame' \in [Attempts -> Locals]
<1>1. Begun(a, op) \in Trackers /\ prep[a].gen \in Nat
  BY TrackersBegin DEF TypeOK, AuthorityTypeOK, Trackers
<1>2. \E res \in Ended : Returned(c, res)
  BY DEF Begin, Ended, Results
<1>3. [for |-> a, op |-> op, at |-> "waits", gen |-> prep[a].gen] \in Underway
  BY <1>1 DEF Underway
<1>4. /\ call' \in [Tasks -> {NoCall} \cup Underway]
      /\ prep' \in [Attempts -> Trackers]
  BY <1>1, <1>3 DEF TypeOK, ExecutorTypeOK, AuthorityTypeOK, Begin
<1> QED BY <1>2, <1>4, FrameIsTyped

\* What a call does to the page and the lease.
LEMMA PageIsTyped ==
  ASSUME BrokerTypeOK, NEW a \in Attempts, NEW res \in Results,
         \/ OpenAndFill(a, res) \/ OpenContext(a, res) \/ FillContext(a, res)
         \/ AttachToContext(res) \/ CloseContext(res)
  PROVE  /\ owner' \in BOOLEAN /\ context' \in Someone /\ spoiled' \in BOOLEAN
         /\ page' \in Pages
<1> USE DEF Pages
<1>1. /\ owner \in BOOLEAN /\ context \in Someone /\ spoiled \in BOOLEAN
      /\ page \in Pages /\ NoOne \in Someone /\ a \in Someone
  BY DEF BrokerTypeOK, Someone
<1>2. /\ TextOf[a] \in Words /\ "other" \in Words /\ "empty" \in Words
  BY DEF Words
<1>3. /\ Blank \in Pages
      /\ [Blank EXCEPT !.bound = TRUE] \in Pages
      /\ \A t \in Words : [Blank EXCEPT !.bound = TRUE, !.text = t] \in Pages
  BY <1>2 DEF Blank
<1>4. CASE OpenAndFill(a, res)
  BY <1>1, <1>2, <1>3, <1>4 DEF OpenAndFill, Release
<1>5. CASE OpenContext(a, res)
  BY <1>1, <1>3, <1>5 DEF OpenContext, Release
<1>6. CASE FillContext(a, res)
  <2>1. \E t \in Words : page' = [page EXCEPT !.text = t]
    BY <1>1, <1>2, <1>6 DEF FillContext
  <2>2. \A t \in Words : [page EXCEPT !.text = t] \in Pages
    BY <1>1
  <2> QED BY <1>1, <1>6, <2>1, <2>2 DEF FillContext
<1>7. CASE AttachToContext(res)
  <2>1. \E n \in Nat : \/ page' = [page EXCEPT !.approved = n]
                      \/ page' = [page EXCEPT !.loose = n]
    BY <1>1, <1>7 DEF AttachToContext
  <2>2. \A n \in Nat : /\ [page EXCEPT !.approved = n] \in Pages
                       /\ [page EXCEPT !.loose = n] \in Pages
    BY <1>1
  <2> QED BY <1>1, <1>7, <2>1, <2>2 DEF AttachToContext
<1>8. CASE CloseContext(res)
  BY <1>1, <1>3, <1>8 DEF CloseContext, Release
<1> QED BY <1>4, <1>5, <1>6, <1>7, <1>8

LEMMA EffectIsTyped ==
  ASSUME BrokerTypeOK, NEW a \in Attempts, NEW res \in Results,
         ClickSubmit(a, res) \/ ClickControl(a, res) \/ ConfirmDeletion(a, res)
  PROVE  /\ owner' \in BOOLEAN /\ context' \in Someone /\ spoiled' \in BOOLEAN
         /\ page' \in Pages
         /\ effects' \subseteq Happened /\ satisfied' \subseteq Attempts
<1> USE DEF BrokerTypeOK, Someone, Words, Blank, Release, Pages
<1>1. Effect(a) \in Happened
  BY DEF Effect, Happened
<1>2. CASE ClickSubmit(a, res)
  <2>0. page \in Pages /\ Blank \in Pages
    OBVIOUS
  <2>1. page' \in {page, Blank} /\ satisfied' = satisfied
    BY <1>2 DEF ClickSubmit
  <2>2. effects' \subseteq Happened
    BY <1>1, <1>2 DEF ClickSubmit
  <2>3. CASE res = "raised"
    <3>1. spoiled' = TRUE /\ UNCHANGED <<owner, context>>
      BY <1>2, <2>3 DEF ClickSubmit
    <3>2. page' \in Pages
      <4> HIDE DEF Pages, Blank
      <4> QED BY <2>0, <2>1
    <3> QED BY <2>1, <2>2, <3>1, <3>2
  <2>4. CASE res # "raised"
    <3>1. owner' = FALSE /\ context' = NoOne /\ spoiled' = FALSE
      BY <1>2, <2>4 DEF ClickSubmit
    <3>2. page' \in Pages
      <4> HIDE DEF Pages, Blank
      <4> QED BY <2>0, <2>1
    <3> QED BY <2>1, <2>2, <3>1, <3>2
  <2> QED BY <2>3, <2>4
<1>3. CASE ClickControl(a, res)
  BY <1>1, <1>3 DEF ClickControl
<1>4. CASE ConfirmDeletion(a, res)
  BY <1>1, <1>4 DEF ConfirmDeletion
<1> QED BY <1>2, <1>3, <1>4

LEMMA OverIsTyped ==
  ASSUME TypeOK, NEW a \in Attempts,
         NEW st \in {"new", "preparing", "clean", "confirmed", "unknown"},
         NEW t \in {"nothing", "failed", "ok", "unknown", "raised"}, Over(a, st, t)
  PROVE  /\ standing' \in [Attempts -> {"new", "preparing", "clean", "confirmed", "unknown"}]
         /\ told' \in [Attempts -> {"nothing", "failed", "ok", "unknown", "raised"}]
         /\ phase' \in [Attempts -> {"idle", "steps", "crosses", "aborts", "closes",
                                     "settles", "records", "over"}]
         /\ frame' \in [Attempts -> Locals]
<1>1. Entry \in Locals
  BY DEF Entry, Locals, Ended
<1> QED BY <1>1 DEF Over, TypeOK, AuthorityTypeOK, ExecutorTypeOK

LEMMA NextStepIsTyped ==
  ASSUME TypeOK, NEW a \in Attempts, NEW m \in Ended, NextStep(a, m)
  PROVE  frame' \in [Attempts -> Locals]
<1>1. frame[a] \in Locals /\ "none" \in Ended
  BY DEF TypeOK, ExecutorTypeOK, Ended
<1>2. frame[a].pc + 1 \in Nat \ {0}
  BY <1>1 DEF Locals
<1>3. [frame[a] EXCEPT !.pc = frame[a].pc + 1, !.result = "none", !.mutated = m] \in Locals
  BY <1>1, <1>2 DEF Locals
<1>4. frame' = [frame EXCEPT ![a] = [frame[a] EXCEPT !.pc = frame[a].pc + 1,
                                                   !.result = "none", !.mutated = m]]
  BY DEF NextStep, TypeOK, ExecutorTypeOK
<1> QED BY <1>3, <1>4 DEF TypeOK, ExecutorTypeOK

\* The operation that a call of the executor would be.
LEMMA StepIsAnOp ==
  ASSUME TypeOK, Phases, NEW a \in Attempts, ~AtEnd(a),
         phase[a] \in {"steps", "crosses"}, Step(a) \notin {"ready", "recheck"}
  PROVE  Step(a) \in Ops
<1>1. Script(a) \in Seq(Names) /\ frame[a].pc \in Nat \ {0}
  BY ScriptIsShaped DEF Shaped, TypeOK, ExecutorTypeOK, Locals
<1>2. frame[a].pc \in 1..Len(Script(a))
  BY <1>1, LenProperties DEF AtEnd
<1>3. Step(a) \in Names
  BY <1>1, <1>2, ElementOfSeq DEF Step
<1> QED BY <1>3 DEF Names, Ops, Staging, Opening, Filling, Owned, OneShots

\* No step leaves the types.
LEMMA TypesStep ==
  ASSUME TypeOK, Phases, Next \/ UNCHANGED vars
  PROVE  TypeOK'
<1> USE DEF TypeOK, atExecutor, atSite, atLease, Rests, atEase, brokerVars,
        authorityVars
<1>1. CASE UNCHANGED vars
  BY <1>1 DEF vars, executorVars, AuthorityTypeOK, BrokerTypeOK, ExecutorTypeOK
<1>2. ASSUME NEW c \in Tasks, Cancelled(c) PROVE TypeOK'
  <2>1. End(c, "raised") /\ "raised" \in Results /\ call[c] # NoCall
    BY <1>2 DEF Cancelled, Results, NoCall
  <2>2. /\ spoiled' \in BOOLEAN /\ surprises' \in Nat
    BY <1>2 DEF Cancelled, Surprise, ExecutorTypeOK, BrokerTypeOK
  <2> QED BY <1>2, <2>1, <2>2, EndIsTyped
          DEF Cancelled, AuthorityTypeOK, BrokerTypeOK, ExecutorTypeOK
<1>3. ASSUME NEW c \in Tasks, Enter(c) PROVE TypeOK'
  <2>1. call[c] # NoCall /\ call[c] \in Underway
    BY <1>3, CallIs DEF Enter, NoCall
  <2>2. CASE End(c, "failed") /\ UNCHANGED owner
    <3>1. "failed" \in Results
      BY DEF Results
    <3> QED BY <1>3, <2>1, <2>2, <3>1, EndIsTyped
            DEF Enter, AuthorityTypeOK, BrokerTypeOK, ExecutorTypeOK
  <2>3. CASE /\ lock' = c /\ Goes(c, "works")
             /\ owner' = (owner \/ call[c].op \in Opening)
    <3>1. call' \in [Tasks -> {NoCall} \cup Underway]
      BY <2>1, <2>3 DEF Goes, ExecutorTypeOK, Underway
    <3> QED BY <1>3, <2>3, <3>1
            DEF Enter, Goes, AuthorityTypeOK, BrokerTypeOK, ExecutorTypeOK
  <2> QED BY <1>3, <2>2, <2>3 DEF Enter
<1>4. ASSUME NEW c \in Tasks, Work(c) PROVE TypeOK'
  <2>1. call[c] # NoCall /\ call[c].for \in Attempts
    BY <1>4, CallIs DEF Work, NoCall, Underway
  <2>2. PICK res \in Results :
          /\ \/ OpenAndFill(call[c].for, res) \/ OpenContext(call[c].for, res)
             \/ FillContext(call[c].for, res)
             \/ AttachToContext(res) \/ CloseContext(res)
          /\ End(c, res)
    BY <1>4 DEF Work, Staging, Opening, Filling
  <2> QED BY <1>4, <2>1, <2>2, EndIsTyped, PageIsTyped
          DEF Work, AuthorityTypeOK, BrokerTypeOK, ExecutorTypeOK
<1>5. ASSUME NEW c \in Tasks, Prove(c) PROVE TypeOK'
  <2>1. call[c] # NoCall /\ call[c] \in Underway
    BY <1>5, CallIs DEF Prove, NoCall
  <2>2. CASE \E res \in Results : End(c, res)
    BY <1>5, <2>1, <2>2, EndIsTyped
    DEF Prove, AuthorityTypeOK, BrokerTypeOK, ExecutorTypeOK
  <2>3. CASE Goes(c, "gate") /\ UNCHANGED lock
    <3>1. call' \in [Tasks -> {NoCall} \cup Underway]
      BY <2>1, <2>3 DEF Goes, ExecutorTypeOK, Underway
    <3> QED BY <1>5, <2>3, <3>1
            DEF Prove, Goes, AuthorityTypeOK, BrokerTypeOK, ExecutorTypeOK
  <2> QED BY <1>5, <2>2, <2>3 DEF Prove, Results
<1>6. ASSUME NEW c \in Tasks, Gate(c) PROVE TypeOK'
  <2>1. call[c] # NoCall /\ call[c] \in Underway
    BY <1>6, CallIs DEF Gate, NoCall
  <2>2. permit' \in [Attempts -> {"none", "denied", "ambiguous", "issued", "consumed"}]
    BY <1>6 DEF Gate, GateAnswers, AuthorityTypeOK
  <2>3. CASE \E res \in Results : End(c, res)
    BY <1>6, <2>1, <2>2, <2>3, EndIsTyped
    DEF Gate, AuthorityTypeOK, BrokerTypeOK, ExecutorTypeOK
  <2>4. CASE Goes(c, "clicks") /\ UNCHANGED lock
    <3>1. call' \in [Tasks -> {NoCall} \cup Underway]
      BY <2>1, <2>4 DEF Goes, ExecutorTypeOK, Underway
    <3> QED BY <1>6, <2>2, <2>4, <3>1
            DEF Gate, Goes, AuthorityTypeOK, BrokerTypeOK, ExecutorTypeOK
  <2> QED BY <1>6, <2>3, <2>4 DEF Gate, Results
<1>7. ASSUME NEW c \in Tasks, Click(c) PROVE TypeOK'
  <2>1. call[c] # NoCall /\ call[c].for \in Attempts
    BY <1>7, CallIs DEF Click, NoCall, Underway
  <2>2. PICK res \in Results :
          /\ \/ ClickSubmit(call[c].for, res) \/ ClickControl(call[c].for, res)
             \/ ConfirmDeletion(call[c].for, res)
          /\ End(c, res)
    BY <1>7, <2>1, KindsOfActions DEF Click
  <2> QED BY <1>7, <2>1, <2>2, EndIsTyped, EffectIsTyped
          DEF Click, AuthorityTypeOK, BrokerTypeOK, ExecutorTypeOK
<1>8. ASSUME NEW a \in Attempts, Issue(a) PROVE TypeOK'
  <2>1. CASE Over(a, "clean", "failed")
    BY <1>8, <2>1, OverIsTyped
    DEF Issue, AuthorityTypeOK, BrokerTypeOK, ExecutorTypeOK
  <2>2. CASE ~Over(a, "clean", "failed")
    BY <1>8, <2>2 DEF Issue, AuthorityTypeOK, BrokerTypeOK, ExecutorTypeOK
  <2> QED BY <2>1, <2>2
<1>9. ASSUME NEW a \in Attempts, Inspect(a) PROVE TypeOK'
  <2>1. a \in Tasks /\ \E res \in Ended : Returned(a, res)
    BY <1>9 DEF Inspect, Ended, Tasks
  <2> QED BY <1>9, <2>1, FrameIsTyped
          DEF Inspect, AuthorityTypeOK, BrokerTypeOK, ExecutorTypeOK
<1>10. ASSUME NEW a \in Attempts, Evidence(a) PROVE TypeOK'
  <2>1. /\ frame[a] \in Locals /\ frame[a].baseline \in SUBSET Happened
        /\ frame[a].seen \in Happened \cup {NoOne}
        /\ Posts \subseteq Happened
    BY DEF ExecutorTypeOK, BrokerTypeOK, Posts, Locals
  <2>2. Candidates(a) \subseteq Happened
    BY <2>1 DEF Candidates
  <2>3. PICK res \in Results :
          \E s \in IF res = "ok" /\ call[a].op = "baseline" THEN SUBSET Posts
                  ELSE {frame[a].baseline},
            e \in IF res = "ok" /\ call[a].op = "capture" THEN Candidates(a)
                  ELSE {frame[a].seen} :
           frame' = [frame EXCEPT ![a].result = res, ![a].baseline = s, ![a].seen = e]
    BY <1>10 DEF Evidence
  <2>4. PICK s \in SUBSET Happened, e \in Happened \cup {NoOne} :
          frame' = [frame EXCEPT ![a].result = res, ![a].baseline = s, ![a].seen = e]
    <3> DEFINE Ss == IF res = "ok" /\ call[a].op = "baseline" THEN SUBSET Posts
                     ELSE {frame[a].baseline}
               Es == IF res = "ok" /\ call[a].op = "capture" THEN Candidates(a)
                     ELSE {frame[a].seen}
    <3>1. Ss \subseteq SUBSET Happened /\ Es \subseteq Happened \cup {NoOne}
      BY <2>1, <2>2
    <3>2. \E s \in Ss, e \in Es :
            frame' = [frame EXCEPT ![a].result = res, ![a].baseline = s, ![a].seen = e]
      BY <2>3
    <3> HIDE DEF Ss, Es
    <3> QED BY <3>1, <3>2
  <2>5. res \in Ended
    BY DEF Ended
  <2>6. [frame[a] EXCEPT !.result = res, !.baseline = s, !.seen = e] \in Locals
    BY <2>1, <2>5 DEF Locals
  <2>7. frame' = [frame EXCEPT ![a] = [frame[a] EXCEPT !.result = res, !.baseline = s,
                                                     !.seen = e]]
    BY <2>4 DEF ExecutorTypeOK
  <2>8. frame' \in [Attempts -> Locals]
    BY <2>6, <2>7 DEF ExecutorTypeOK
  <2>9. call' \in [Tasks -> {NoCall} \cup Underway] /\ lock' = NoOne
    BY <1>10 DEF Evidence, ExecutorTypeOK
  <2> QED BY <1>10, <2>8, <2>9
          DEF Evidence, AuthorityTypeOK, BrokerTypeOK, ExecutorTypeOK
<1>11. ASSUME NEW a \in Attempts, Scope(a) PROVE TypeOK'
  <2>1. Scoped(a) \in Trackers
    <3>1. (a \in Content) \in BOOLEAN
      OBVIOUS
    <3>2. prep[a] \in Trackers
      BY DEF AuthorityTypeOK
    <3> QED BY <3>1, <3>2 DEF Scoped, Trackers
  <2>2. prep' \in [Attempts -> Trackers]
    BY <1>11, <2>1 DEF Scope, AuthorityTypeOK
  <2>3. CASE UNCHANGED <<standing, told, frame>> /\ \E p \in {"crosses", "aborts"} : Goto(a, p)
    BY <1>11, <2>2, <2>3
    DEF Scope, Goto, AuthorityTypeOK, BrokerTypeOK, ExecutorTypeOK
  <2>4. CASE \/ Over(a, "clean", "failed") \/ Over(a, standing[a], "raised")
    <3>1. standing[a] \in {"new", "preparing", "clean", "confirmed", "unknown"}
      BY DEF AuthorityTypeOK
    <3> QED BY <1>11, <2>2, <2>4, <3>1, OverIsTyped
            DEF Scope, AuthorityTypeOK, BrokerTypeOK, ExecutorTypeOK
  <2> QED BY <1>11, <2>3, <2>4 DEF Scope, To, Goto
<1>12. ASSUME NEW a \in Attempts, Start(a) PROVE TypeOK'
  <2>1. a \in Tasks
    BY DEF Tasks
  <2>2. Step(a) \in Ops
    <3>1. CASE phase[a] = "crosses"
      <4>1. frame[a].pc = CrossAt(a)
        BY <3>1 DEF Phases
      <4>2. Step(a) \notin {"ready", "recheck"}
        BY <4>1, ScriptIsShaped DEF Shaped, Step
      <4> QED BY <1>12, <3>1, <4>2, StepIsAnOp DEF Start
    <3> QED BY <1>12, <3>1, StepIsAnOp DEF Start
  <2> QED BY <1>12, <2>1, <2>2, BeginIsTyped
          DEF Start, AuthorityTypeOK, BrokerTypeOK, ExecutorTypeOK
<1>13. ASSUME NEW a \in Attempts, Advance(a) PROVE TypeOK'
  <2>1. CASE NextStep(a, frame[a].mutated)
    <3>1. frame[a].mutated \in Ended
      BY DEF ExecutorTypeOK, Locals
    <3> QED BY <1>13, <2>1, <3>1, NextStepIsTyped
            DEF Advance, NextStep, Goto, AuthorityTypeOK, BrokerTypeOK, ExecutorTypeOK
  <2>2. CASE To(a, "records") \/ To(a, "aborts")
    BY <1>13, <2>2
    DEF Advance, To, Goto, AuthorityTypeOK, BrokerTypeOK, ExecutorTypeOK
  <2>3. CASE Over(a, "clean", "failed")
    BY <1>13, <2>3, OverIsTyped
    DEF Advance, AuthorityTypeOK, BrokerTypeOK, ExecutorTypeOK
  <2> QED BY <1>13, <2>1, <2>2, <2>3 DEF Advance
<1>14. ASSUME NEW a \in Attempts, AfterCrossing(a) PROVE TypeOK'
  <2>0. frame[a] \in Locals /\ frame[a].result \in Ended
    BY DEF ExecutorTypeOK, Locals
  <2>1. CASE \E p \in {"aborts", "settles", "records"} : Goto(a, p) /\ Mutation(a)
    <3>1. [frame[a] EXCEPT !.mutated = frame[a].result] \in Locals
      BY <2>0 DEF Locals
    <3>2. frame' = [frame EXCEPT ![a] = [frame[a] EXCEPT !.mutated = frame[a].result]]
      BY <2>1 DEF Mutation, ExecutorTypeOK
    <3>3. frame' \in [Attempts -> Locals]
      BY <3>1, <3>2 DEF ExecutorTypeOK
    <3>4. phase' \in [Attempts -> {"idle", "steps", "crosses", "aborts", "closes",
                                  "settles", "records", "over"}]
      BY <2>1 DEF Goto, ExecutorTypeOK
    <3>5. UNCHANGED <<standing, told>>
      BY <2>1 DEF Goto
    <3> QED BY <1>14, <3>3, <3>4, <3>5
            DEF AfterCrossing, AuthorityTypeOK, BrokerTypeOK, ExecutorTypeOK
  <2>2. CASE NextStep(a, frame[a].result)
    BY <1>14, <2>0, <2>2, NextStepIsTyped
    DEF AfterCrossing, NextStep, Goto, AuthorityTypeOK, BrokerTypeOK, ExecutorTypeOK
  <2> QED BY <1>14, <2>1, <2>2 DEF AfterCrossing, Unwind
<1>15. ASSUME NEW a \in Attempts, Abort(a) PROVE TypeOK'
  <2>1. "close" \in Ops /\ a \in Tasks
    BY DEF Ops, Owned, Tasks
  <2> QED BY <1>15, <2>1, BeginIsTyped
          DEF Abort, Goto, AuthorityTypeOK, BrokerTypeOK, ExecutorTypeOK
<1>16. ASSUME NEW a \in Attempts, Settle(a) PROVE TypeOK'
  <2>1. \E st \in {standing[a], "clean"}, t \in {"ok", "failed", "raised"} : Over(a, st, t)
    BY <1>16 DEF Settle, NoEffectAnswer
  <2>2. standing[a] \in {"new", "preparing", "clean", "confirmed", "unknown"}
    BY DEF AuthorityTypeOK
  <2> QED BY <1>16, <2>1, <2>2, OverIsTyped
          DEF Settle, AuthorityTypeOK, BrokerTypeOK, ExecutorTypeOK
<1>17. ASSUME NEW a \in Attempts, Record(a) PROVE TypeOK'
  <2>1. \E st \in {standing[a], "confirmed", "unknown"},
           t \in {"ok", "unknown", "raised"} : Over(a, st, t)
    BY <1>17 DEF Record, RecordedAnswer
  <2>2. standing[a] \in {"new", "preparing", "clean", "confirmed", "unknown"}
    BY DEF AuthorityTypeOK
  <2> QED BY <1>17, <2>1, <2>2, OverIsTyped
          DEF Record, AuthorityTypeOK, BrokerTypeOK, ExecutorTypeOK
<1>18. ASSUME NEW a \in Attempts, Revoke(a) PROVE TypeOK'
  BY <1>18 DEF Revoke, Surprise, AuthorityTypeOK, BrokerTypeOK, ExecutorTypeOK
<1>19. CASE StrayCall
  <2>1. PICK a \in load.attempts \cap Content :
          \E op \in StagingOf(a) \cup {"close"} : Begin(Stray, a, op)
    BY <1>19 DEF StrayCall
  <2>2. a \in Attempts /\ Stray \in Tasks /\ StagingOf(a) \cup {"close"} \subseteq Ops
    BY DEF Content, Tasks, StagingOf, Ops, Staging, Opening, Filling, Owned
  <2> QED BY <1>19, <2>1, <2>2, BeginIsTyped
          DEF StrayCall, AuthorityTypeOK, BrokerTypeOK, ExecutorTypeOK
<1>20. CASE TripKill
  BY <1>20 DEF TripKill, Surprise, AuthorityTypeOK, BrokerTypeOK, ExecutorTypeOK
<1>21. CASE Site
  <2>1. UNCHANGED <<lock, owner, context, killed, spoiled>>
    BY <1>21 DEF Site, PageChanges, PostElsewhere, Browse, DoneByHand
  <2>2. page' \in Pages
    <3> USE DEF Pages
    <3>1. /\ page \in Pages /\ Blank \in Pages
          /\ [page EXCEPT !.text = "other"] \in Pages
          /\ [page EXCEPT !.loose = 1] \in Pages
          /\ \A n \in Nat : [page EXCEPT !.approved = n] \in Pages
      BY DEF BrokerTypeOK, Blank, Words
    <3>2. (IF page.approved > 0 THEN page.approved - 1 ELSE 0) \in Nat
      BY DEF BrokerTypeOK
    <3> QED BY <1>21, <3>1, <3>2 DEF Site, PageChanges, PostElsewhere, Browse, DoneByHand
  <2>3. effects' \subseteq Happened /\ satisfied' \subseteq Attempts
    <3>1. load.attempts \subseteq Attempts
      BY ExecutorAssumption DEF ExecutorTypeOK
    <3> QED BY <1>21, <3>1
            DEF Site, PageChanges, PostElsewhere, Browse, DoneByHand, BrokerTypeOK,
                Happened, Someone, Words
  <2>4. surprises' \in Nat
    BY <1>21 DEF Site, Surprise, ExecutorTypeOK
  <2> QED BY <1>21, <2>1, <2>2, <2>3, <2>4
          DEF Site, AuthorityTypeOK, BrokerTypeOK, ExecutorTypeOK
<1> QED BY <1>1, <1>2, <1>3, <1>4, <1>5, <1>6, <1>7, <1>8, <1>9, <1>10, <1>11, <1>12,
           <1>13, <1>14, <1>15, <1>16, <1>17, <1>18, <1>19, <1>20, <1>21
        DEF Next, TaskStep, ExecutorStep

--------------------------------------------------------------------------------
(* What a call does, and to whom.                                          *)

LEMMA NamesDiffer ==
  /\ NoOne \notin Tasks /\ NoOne \notin Attempts /\ Stray \notin Attempts
  /\ Attempts \subseteq Tasks /\ Stray \in Tasks
  /\ \A c \in Tasks : c \in Attempts \/ c = Stray
  BY ExecutorAssumption DEF Tasks

\* The operation of a step, by its place in the script.
LEMMA StepIs ==
  ASSUME TypeOK, NEW a \in Attempts, ~AtEnd(a)
  PROVE  /\ frame[a].pc < CrossAt(a) => Step(a) \in Ahead(a)
         /\ frame[a].pc = CrossAt(a) =>
              Crossing(a) /\ (a \in Content <=> Step(a) = "submit")
         /\ frame[a].pc > CrossAt(a) => Step(a) \in Behind(a)
         /\ Crossing(a) => frame[a].pc = CrossAt(a)
<1>1. /\ frame[a].pc \in Nat \ {0} /\ Shaped(a) /\ CrossAt(a) \in Nat \ {0}
      /\ Len(Script(a)) \in Nat
  BY ScriptIsShaped, LenProperties DEF TypeOK, ExecutorTypeOK, Locals, Shaped
<1>2. frame[a].pc \in 1..Len(Script(a))
  BY <1>1 DEF AtEnd
<1>3. /\ frame[a].pc < CrossAt(a) => Step(a) \in Ahead(a)
      /\ frame[a].pc > CrossAt(a) => Step(a) \in Behind(a)
      /\ frame[a].pc = CrossAt(a) =>
           Step(a) = IF a \in Content THEN "submit" ELSE "apply"
  BY <1>1, <1>2 DEF Shaped, Step
<1>4. {"submit", "apply"} \cap Ahead(a) = {} /\ {"submit", "apply"} \cap Behind(a) = {}
  BY DEF Ahead, Behind, StagingOf
<1>5. Crossing(a) => frame[a].pc = CrossAt(a)
  BY <1>1, <1>3, <1>4 DEF Crossing
<1> QED BY <1>3, <1>5 DEF Crossing

\* Who makes a call, when, and for whom.
LEMMA CallerIs ==
  ASSUME TypeOK, OwnCalls, StrayCalls, Phases, NEW c \in Tasks, call[c] # NoCall
  PROVE  /\ call[c] \in Underway /\ call[c].for \in Attempts
         /\ c \in Attempts => call[c].for = c /\ c \in Running /\ frame[c].result = "none"
         /\ call[c].op \in Staging =>
              /\ call[c].for \in Content /\ call[c].op \in StagingOf(call[c].for)
              /\ c \in Attempts => phase[c] = "steps" /\ frame[c].pc < CrossAt(c)
         /\ call[c].op = "close" =>
              /\ call[c].for \in Content
              /\ c \in Attempts => phase[c] = "closes"
         /\ call[c].op \in {"submit", "apply"} =>
              /\ c \in Attempts /\ phase[c] = "crosses"
              /\ c \in Content <=> call[c].op = "submit"
         /\ call[c].op \in {"baseline", "capture", "verify", "count", "look",
                           "look_present"} =>
              /\ c \in Attempts /\ phase[c] = "steps" /\ ~AtEnd(c)
              /\ call[c].op = Step(c)
<1>1. call[c] \in Underway /\ call[c].for \in Attempts
  BY CallIs DEF Underway
<1>2. CASE c = Stray
  <2>1. /\ call[c].for \in Content
        /\ call[c].op \in StagingOf(call[c].for) \cup {"close"}
    BY <1>2 DEF StrayCalls
  <2>2. StagingOf(call[c].for) \subseteq Staging
    BY DEF StagingOf, Staging, Opening, Filling
  <2> QED BY <1>1, <1>2, <2>1, <2>2, NamesDiffer DEF Staging, Opening, Filling
<1>3. CASE c \in Attempts
  <2>1. /\ call[c].for = c /\ c \in Running /\ frame[c].result = "none"
    BY <1>3 DEF OwnCalls, Running
  <2>2. CASE phase[c] = "steps" /\ ~AtEnd(c) /\ ~Crossing(c) /\ call[c].op = Step(c)
    <3>1. frame[c].pc \in Nat /\ CrossAt(c) \in Nat
      BY <1>3, ScriptIsShaped DEF Shaped, TypeOK, ExecutorTypeOK, Locals
    <3>2. CASE frame[c].pc < CrossAt(c)
      <4>1. call[c].op \in Ahead(c)
        BY <1>3, <2>2, <3>2, StepIs
      <4>2. /\ call[c].op \in Staging =>
                 c \in Content /\ call[c].op \in StagingOf(c)
            /\ call[c].op \notin {"close", "submit", "apply"}
        BY <4>1 DEF Ahead, Staging, Opening, Filling, StagingOf
      <4> QED BY <1>1, <1>3, <2>1, <2>2, <3>2, <4>2
    <3>3. CASE frame[c].pc > CrossAt(c)
      <4>1. call[c].op \in {"capture", "verify", "count", "look"}
        BY <1>3, <2>2, <3>3, StepIs DEF Behind
      <4> QED BY <1>1, <1>3, <2>1, <2>2, <4>1 DEF Staging, Opening, Filling
    <3> QED BY <1>3, <2>2, <3>1, <3>2, <3>3, StepIs
  <2>3. CASE phase[c] = "crosses" /\ call[c].op = Step(c)
    <3>1. ~AtEnd(c) /\ frame[c].pc = CrossAt(c)
      <4>1. /\ frame[c].pc = CrossAt(c) /\ Shaped(c) /\ CrossAt(c) \in Nat
            /\ Len(Script(c)) \in Nat
        BY <1>3, <2>3, ScriptIsShaped, LenProperties DEF Phases, Shaped
      <4> QED BY <4>1 DEF Shaped, AtEnd
    <3>2. /\ call[c].op \in {"submit", "apply"}
          /\ c \in Content <=> call[c].op = "submit"
      BY <1>3, <2>3, <3>1, StepIs DEF Crossing
    <3> QED BY <1>1, <1>3, <2>1, <2>3, <3>2 DEF Staging, Opening, Filling
  <2>4. CASE phase[c] = "closes" /\ call[c].op = "close"
    <3>1. c \in Content
      BY <1>3, <2>4 DEF Phases
    <3> QED BY <1>1, <1>3, <2>1, <2>4, <3>1 DEF Staging, Opening, Filling
  <2> QED BY <1>3, <2>2, <2>3, <2>4 DEF OwnCalls
<1> QED BY <1>2, <1>3, NamesDiffer

\* What the tracker of a call's attempt is afterwards.
LEMMA FinishedIs ==
  ASSUME NEW k \in Underway, NEW res \in Results, prep[k.for] \in Trackers
  PROVE  LET t == prep[k.for]
             u == Finished(k, res)
             counts == res = "ok" /\ ~t.cleaning /\ ~t.effect /\ ~t.sealed
         IN /\ u.sealed = t.sealed
            /\ u.stage = (t.stage /\ k.op \notin Staging)
            /\ u.cleaning = (t.cleaning /\ k.op # "close")
            /\ u.effect = (t.effect /\ k.op # "submit")
            /\ u.opened => t.opened \/ (k.op \in Opening /\ counts)
            /\ u.filled => t.filled \/ (k.op \in Filling /\ counts)
            /\ t.opened => u.opened
            /\ k.op \in Opening \cap Filling /\ ~t.opened /\ ~t.filled =>
                 u.opened = u.filled
            /\ k.op \notin Opening => u.opened = t.opened
            /\ k.op \notin Filling => u.filled = t.filled
<1> DEFINE t == prep[k.for]
           u == Finished(k, res)
<1>1. CASE k.op \in Staging
  <2>1. u = StageFinished(k.for, k.op, k.gen, res = "ok")
    BY <1>1 DEF Finished, Staging, Opening, Filling
  <2> DEFINE v == [t EXCEPT !.stage = FALSE]
  <2>2. k.op \notin {"close", "submit"}
    BY <1>1 DEF Staging, Opening, Filling
  <2>5. /\ t.opened \in BOOLEAN /\ t.filled \in BOOLEAN /\ t.stage \in BOOLEAN
        /\ t.cleaning \in BOOLEAN /\ t.effect \in BOOLEAN
    BY DEF Trackers
  <2>3. CASE res = "ok" /\ k.gen = t.gen /\ ~t.cleaning /\ ~t.effect /\ ~t.sealed
    <3>1. u = [v EXCEPT !.opened = v.opened \/ k.op \in Opening,
                        !.filled = v.filled \/ k.op \in Filling,
                        !.attached = IF k.op = "attach" THEN v.attached + 1 ELSE v.attached]
      BY <2>1, <2>3 DEF StageFinished, Trackers
    <3>2. /\ u.sealed = t.sealed /\ u.stage = FALSE /\ u.cleaning = t.cleaning
          /\ u.effect = t.effect
          /\ u.opened = (t.opened \/ k.op \in Opening)
          /\ u.filled = (t.filled \/ k.op \in Filling)
      <4> HIDE DEF u
      <4> QED BY <3>1 DEF Trackers
    <3> QED BY <1>1, <2>2, <2>3, <2>5, <3>2
  <2>4. CASE ~(res = "ok" /\ k.gen = t.gen /\ ~t.cleaning /\ ~t.effect /\ ~t.sealed)
    <3>1. u = v
      BY <2>1, <2>4 DEF StageFinished, Trackers
    <3>2. /\ u.sealed = t.sealed /\ u.stage = FALSE /\ u.cleaning = t.cleaning
          /\ u.effect = t.effect /\ u.opened = t.opened /\ u.filled = t.filled
      <4> HIDE DEF u
      <4> QED BY <3>1 DEF Trackers
    <3> QED BY <1>1, <2>2, <2>5, <3>2
  <2> QED BY <2>3, <2>4
<1>2. CASE k.op = "close"
  BY <1>2 DEF Finished, CleanupFinished, Trackers, Staging, Opening, Filling
<1>3. CASE k.op = "submit"
  BY <1>3 DEF Finished, EffectFinished, Trackers, Staging, Opening, Filling
<1>4. CASE k.op \notin Staging \cup {"close", "submit"}
  <2>1. u = t
    BY <1>4 DEF Finished
  <2>2. k.op \notin Opening \/ k.op \notin Filling
    BY <1>4 DEF Staging
  <2>3. t \in Trackers
    OBVIOUS
  <2> QED BY <1>4, <2>1, <2>2, <2>3 DEF Trackers
<1> QED BY <1>1, <1>2, <1>3, <1>4

\* What the tracker is once a call was admitted.
LEMMA BegunIs ==
  ASSUME NEW a \in Attempts, NEW op \in Ops, prep[a] \in Trackers
  PROVE  LET t == prep[a]
             u == Begun(a, op)
         IN /\ u.sealed = t.sealed
            /\ u.stage = (t.stage \/ op \in Staging)
            /\ u.cleaning = (t.cleaning \/ op = "close")
            /\ u.effect => t.effect \/ op = "submit"
            /\ u.opened = (t.opened /\ op # "close")
            /\ u.filled = (t.filled /\ op # "close")
<1>1. CASE op \in Staging
  BY <1>1 DEF Begun, StageBegun, Trackers, Staging, Opening, Filling
<1>2. CASE op = "close"
  BY <1>2 DEF Begun, CleanupBegun, Trackers, Staging, Opening, Filling
<1>3. CASE op = "submit"
  BY <1>3 DEF Begun, EffectBegun, Trackers, Staging, Opening, Filling
<1>4. CASE op \notin Staging \cup {"close", "submit"}
  BY <1>4 DEF Begun, Trackers
<1> QED BY <1>1, <1>2, <1>3, <1>4

LEMMA EndDoes ==
  ASSUME TypeOK, NEW c \in Tasks, call[c] # NoCall, NEW res \in Results, End(c, res)
  PROVE  /\ call'[c] = NoCall /\ \A d \in Tasks \ {c} : call'[d] = call[d]
         /\ prep'[call[c].for] = Finished(call[c], res)
         /\ \A b \in Attempts \ {call[c].for} : prep'[b] = prep[b]
         /\ \A b \in Attempts \ {c} : frame'[b] = frame[b]
         /\ c \in Attempts => frame'[c] = [frame[c] EXCEPT !.result = res]
         /\ lock' = IF lock = c THEN NoOne ELSE lock
<1>1. call[c].for \in Attempts
  BY CallIs DEF Underway
<1> QED BY <1>1, NamesDiffer
        DEF End, Returned, TypeOK, ExecutorTypeOK, AuthorityTypeOK

LEMMA BeginDoes ==
  ASSUME TypeOK, NEW c \in Tasks, NEW a \in Attempts, NEW op \in Ops, Begin(c, a, op)
  PROVE  /\ \A d \in Tasks : d # c => call'[d] = call[d]
         /\ \A b \in Attempts : b # a => prep'[b] = prep[b]
         /\ \A b \in Attempts : b # c => frame'[b] = frame[b]
         /\ \/ /\ Admits(a, op) /\ call'[c] # NoCall /\ call'[c].for = a
               /\ call'[c].op = op /\ call'[c].at = "waits"
               /\ prep'[a] = Begun(a, op)
               /\ c \in Attempts =>
                    frame'[c].result = "none" /\ frame'[c].pc = frame[c].pc
            \/ /\ ~Admits(a, op) /\ call' = call /\ prep' = prep
               /\ c \in Attempts =>
                    frame'[c].result = "raised" /\ frame'[c].pc = frame[c].pc
<1> USE DEF TypeOK, ExecutorTypeOK, AuthorityTypeOK, Locals
<1>1. CASE Admits(a, op)
  <2>1. /\ call' = [call EXCEPT ![c] =
                     [for |-> a, op |-> op, at |-> "waits", gen |-> prep[a].gen]]
        /\ prep' = [prep EXCEPT ![a] = Begun(a, op)]
        /\ c \in Attempts => frame' = [frame EXCEPT ![c].result = "none"]
        /\ c = Stray => frame' = frame
    BY <1>1, NamesDiffer DEF Begin, Returned
  <2>2. /\ call'[c] = [for |-> a, op |-> op, at |-> "waits", gen |-> prep[a].gen]
        /\ prep'[a] = Begun(a, op)
        /\ \A d \in Tasks : d # c => call'[d] = call[d]
        /\ \A b \in Attempts : b # a => prep'[b] = prep[b]
    BY <2>1
  <2>3. /\ c \in Attempts => frame'[c].result = "none" /\ frame'[c].pc = frame[c].pc
        /\ \A b \in Attempts : b # c => frame'[b] = frame[b]
    BY <2>1, NamesDiffer
  <2>4. call'[c] # NoCall
    BY <2>2, NamesDiffer DEF NoCall
  <2> QED BY <1>1, <2>2, <2>3, <2>4
<1>2. CASE ~Admits(a, op)
  <2>1. /\ call' = call /\ prep' = prep
        /\ c \in Attempts => frame' = [frame EXCEPT ![c].result = "raised"]
        /\ c = Stray => frame' = frame
    BY <1>2, NamesDiffer DEF Begin, Returned
  <2>2. /\ c \in Attempts => frame'[c].result = "raised" /\ frame'[c].pc = frame[c].pc
        /\ \A b \in Attempts : b # c => frame'[b] = frame[b]
    BY <2>1, NamesDiffer
  <2> QED BY <1>2, <2>1, <2>2
<1> QED BY <1>1, <1>2

\* The operation that an executor starts.
LEMMA StartIs ==
  ASSUME TypeOK, Phases, NEW a \in Attempts, Start(a)
  PROVE  /\ Step(a) \in Ops /\ Step(a) # "close"
         /\ \E op \in Ops : op = Step(a) /\ Begin(a, a, op)
<1>1. CASE phase[a] = "crosses"
  <2>1. frame[a].pc = CrossAt(a) /\ ~AtEnd(a)
    BY <1>1 DEF Phases, Start
  <2>2. Step(a) \in {"submit", "apply"}
    BY <2>1, StepIs DEF Crossing
  <2>3. Step(a) \in Ops
    BY <2>2 DEF Ops, Owned, OneShots
  <2> QED BY <2>2, <2>3 DEF Start
<1>2. CASE phase[a] = "steps" /\ Step(a) \notin {"ready", "recheck"}
  <2>1. Step(a) \in Ops /\ ~AtEnd(a)
    BY <1>2, StepIsAnOp DEF Start
  <2>2. frame[a].pc \in Nat /\ CrossAt(a) \in Nat
    BY ScriptIsShaped DEF TypeOK, ExecutorTypeOK, Locals, Shaped
  <2>3. Step(a) \in Ahead(a) \cup Behind(a) \cup {"submit", "apply"}
    BY <2>1, <2>2, StepIs DEF Crossing
  <2>4. Step(a) # "close"
    BY <2>3 DEF Ahead, Behind, StagingOf
  <2> QED BY <2>1, <2>4 DEF Start
<1> QED BY <1>1, <1>2 DEF Start

LEMMA GoesDoes ==
  ASSUME TypeOK, NEW c \in Tasks, call[c] # NoCall, NEW at, Goes(c, at)
  PROVE  /\ call'[c].for = call[c].for /\ call'[c].op = call[c].op /\ call'[c].at = at
         /\ \A d \in Tasks \ {c} : call'[d] = call[d]
         /\ UNCHANGED <<prep, frame>>
<1>1. call[c] \in Underway
  BY CallIs
<1> QED BY <1>1 DEF Goes, TypeOK, ExecutorTypeOK, Underway

\* What is left alone of an attempt.
Same(b) ==
  UNCHANGED <<phase[b], frame[b], standing[b], told[b], permit[b], call[b]>>

\* A step of a task concerns its own call only.
LEMMA TaskDoes ==
  ASSUME TypeOK, NEW c \in Tasks, TaskStep(c) \/ Cancelled(c)
  PROVE  /\ call[c] # NoCall /\ call[c] \in Underway
         /\ UNCHANGED <<phase, standing, told, load>>
         /\ \A d \in Tasks \ {c} : call'[d] = call[d]
         /\ \A b \in Attempts \ {call[c].for} : UNCHANGED <<prep[b], permit[b]>>
         /\ \A b \in Attempts \ {c} : frame'[b] = frame[b]
         /\ \/ \E res \in Results : End(c, res)
            \/ \E at \in {"works", "gate", "clicks"} : Goes(c, at)
         /\ call'[c] # NoCall => frame'[c] = frame[c] /\ UNCHANGED prep
         /\ call'[c] = NoCall \/ (call'[c].for = call[c].for /\ call'[c].op = call[c].op)
<1> USE DEF atExecutor, atSite, atLease
<1>1. call[c] # NoCall /\ call[c] \in Underway /\ call[c].for \in Attempts
  <2>1. call[c].at \in {"waits", "works", "gate", "clicks"}
    BY DEF TaskStep, Enter, Work, Prove, Gate, Click, Cancelled
  <2> QED BY <2>1, CallIs DEF NoCall, Underway
<1>2. UNCHANGED <<phase, standing, told, load>>
  BY DEF TaskStep, Enter, Work, Prove, Gate, Click, Cancelled
<1>3. \A b \in Attempts \ {call[c].for} : UNCHANGED permit[b]
  <2>1. CASE UNCHANGED permit
    BY <2>1
  <2>2. CASE Gate(c)
    <3>1. permit' = permit \/ \E x : permit' = [permit EXCEPT ![call[c].for] = x]
      BY <2>2 DEF Gate
    <3> QED BY <3>1 DEF TypeOK, AuthorityTypeOK
  <2> QED BY <2>1, <2>2 DEF TaskStep, Enter, Work, Prove, Click, Cancelled
<1>4. \/ \E res \in Results : End(c, res)
      \/ \E at \in {"works", "gate", "clicks"} : Goes(c, at)
  BY DEF TaskStep, Enter, Work, Prove, Gate, Click, Cancelled, Results
<1>5. CASE \E res \in Results : End(c, res)
  BY <1>1, <1>2, <1>3, <1>5, EndDoes
<1>6. CASE \E at \in {"works", "gate", "clicks"} : Goes(c, at)
  BY <1>1, <1>2, <1>3, <1>6, GoesDoes
<1> QED BY <1>4, <1>5, <1>6

\* Nor does a step of an executor concern another attempt.
LEMMA ExecutorDoes ==
  ASSUME TypeOK, Phases, NEW a \in Attempts, Issue(a) \/ ExecutorStep(a) \/ Revoke(a)
  PROVE  /\ \A b \in Attempts \ {a} : Same(b) /\ UNCHANGED prep[b]
         /\ \A d \in Tasks \ {a} : UNCHANGED call[d]
         /\ UNCHANGED <<permit, owner, context, page, effects, satisfied, spoiled,
                        killed, strays, load>>
         /\ UNCHANGED lock \/ Evidence(a)
<1> USE DEF TypeOK, AuthorityTypeOK, ExecutorTypeOK, atExecutor, atSite, atLease, Rests,
        brokerVars, authorityVars, Same
<1>1. CASE Issue(a)
  BY <1>1 DEF Issue, Over
<1>2. CASE Inspect(a)
  BY <1>2, NamesDiffer DEF Inspect, Returned
<1>3. CASE Evidence(a)
  <2>1. UNCHANGED <<prep, standing, permit, phase, told, owner, context, page, killed,
                    effects, satisfied, spoiled, strays, load>>
    BY <1>3 DEF Evidence
  <2>2. call' = [call EXCEPT ![a] = NoCall]
    BY <1>3 DEF Evidence
  <2>3. \A b \in Attempts \ {a} : frame'[b] = frame[b]
    BY <1>3 DEF Evidence
  <2> QED BY <1>3, <2>1, <2>2, <2>3, NamesDiffer
<1>4. CASE Scope(a)
  <2>1. \A b \in Attempts \ {a} : UNCHANGED <<phase[b], frame[b], standing[b], told[b]>>
    <3>1. CASE \E p : To(a, p)
      BY <3>1 DEF To, Goto
    <3>2. CASE \E st, t : Over(a, st, t)
      BY <3>2 DEF Over
    <3> QED BY <1>4, <3>1, <3>2 DEF Scope
  <2>2. prep' = prep \/ prep' = [prep EXCEPT ![a] = Scoped(a)]
    BY <1>4 DEF Scope
  <2> QED BY <1>4, <2>1, <2>2 DEF Scope
<1>5. CASE Start(a)
  <2>1. PICK op \in Ops : Begin(a, a, op)
    BY <1>5, StartIs
  <2> QED BY <1>5, <2>1, BeginDoes, NamesDiffer DEF Start
<1>6. CASE Advance(a)
  <2>1. \/ \E p : To(a, p) \/ \E st, t : Over(a, st, t) \/ \E m : NextStep(a, m)
    BY <1>6 DEF Advance
  <2>2. \A b \in Attempts \ {a} : UNCHANGED <<phase[b], frame[b], standing[b], told[b]>>
    BY <2>1 DEF To, Goto, Over, NextStep
  <2> QED BY <1>6, <2>2 DEF Advance
<1>7. CASE AfterCrossing(a)
  <2>1. \A b \in Attempts \ {a} : UNCHANGED <<phase[b], frame[b], standing[b], told[b]>>
    BY <1>7 DEF AfterCrossing, Unwind, Goto, Mutation, NextStep
  <2> QED BY <1>7, <2>1 DEF AfterCrossing
<1>8. CASE Abort(a)
  <2>1. PICK op \in Ops : Begin(a, a, op)
    BY <1>8 DEF Abort, Ops, Owned
  <2> QED BY <1>8, <2>1, BeginDoes, NamesDiffer DEF Abort, Goto
<1>9. CASE Settle(a)
  <2>1. \E st, t : Over(a, st, t)
    BY <1>9 DEF Settle
  <2> QED BY <1>9, <2>1 DEF Settle, Over
<1>10. CASE Record(a)
  <2>1. \E st, t : Over(a, st, t)
    BY <1>10 DEF Record
  <2> QED BY <1>10, <2>1 DEF Record, Over
<1>11. CASE Revoke(a)
  BY <1>11 DEF Revoke, atEase
<1> QED BY <1>1, <1>2, <1>3, <1>4, <1>5, <1>6, <1>7, <1>8, <1>9, <1>10, <1>11
        DEF ExecutorStep

LEMMA StrayDoes ==
  ASSUME TypeOK, StrayCall
  PROVE  /\ \A b \in Attempts : Same(b)
         /\ UNCHANGED <<permit, brokerVars, load, frame, phase, standing, told>>
         /\ load.strays # 0 /\ call[Stray] = NoCall
         /\ \E a \in load.attempts \cap Content, op \in Ops :
              /\ standing[a] # "new" /\ op \in StagingOf(a) \cup {"close"}
              /\ Begin(Stray, a, op)
<1>1. PICK a \in load.attempts \cap Content :
        /\ standing[a] # "new"
        /\ \E op \in StagingOf(a) \cup {"close"} : Begin(Stray, a, op)
  BY DEF StrayCall
<1>2. PICK op \in StagingOf(a) \cup {"close"} : Begin(Stray, a, op)
  BY <1>1
<1>3. op \in Ops /\ a \in Attempts
  BY DEF StagingOf, Ops, Staging, Opening, Filling, Owned, Content
<1>4. frame' = frame
  BY <1>2 DEF Begin, Returned
<1>5. load.strays # 0
  <2>1. load.strays \in Nat /\ strays \in Nat
    BY ExecutorAssumption DEF TypeOK, ExecutorTypeOK
  <2>2. strays < load.strays
    BY DEF StrayCall
  <2> QED BY <2>1, <2>2
<1>6. \A b \in Attempts : UNCHANGED call[b]
  <2>1. \A d \in Tasks : d # Stray => call'[d] = call[d]
    BY <1>2, <1>3, BeginDoes, NamesDiffer
  <2> QED BY <2>1, NamesDiffer
<1> QED BY <1>1, <1>2, <1>3, <1>4, <1>5, <1>6 DEF StrayCall, Same

LEMMA WorldDoes ==
  ASSUME TypeOK, TripKill \/ Site \/ UNCHANGED vars
  PROVE  /\ UNCHANGED <<prep, standing, permit, call, phase, frame, told, strays, load,
                        lock, owner, context, spoiled>>
         /\ effects \subseteq effects' /\ satisfied \subseteq satisfied'
  BY DEF TripKill, Site, PageChanges, PostElsewhere, Browse, DoneByHand, vars,
     executorVars, authorityVars, brokerVars, atEase

\* Every step is one of these.
LEMMA Steps ==
  ASSUME Next \/ UNCHANGED vars
  PROVE  \/ \E c \in Tasks : TaskStep(c) \/ Cancelled(c)
         \/ \E a \in Attempts : Issue(a) \/ ExecutorStep(a) \/ Revoke(a)
         \/ StrayCall
         \/ TripKill \/ Site \/ UNCHANGED vars
  BY DEF Next

--------------------------------------------------------------------------------
(* Calls and phases.                                                       *)

LEMMA OwnCallsStep ==
  ASSUME TypeOK, OwnCalls, StrayCalls, Phases, Next \/ UNCHANGED vars
  PROVE  OwnCalls'
<1> DEFINE Own(a) ==
      call[a] # NoCall =>
        /\ call[a].for = a /\ frame[a].result = "none"
        /\ \/ /\ phase[a] = "steps" /\ ~AtEnd(a) /\ ~Crossing(a)
              /\ call[a].op = Step(a)
           \/ phase[a] = "crosses" /\ call[a].op = Step(a)
           \/ phase[a] = "closes" /\ call[a].op = "close"
<1>0. \A a \in Attempts : Own(a)
  BY DEF OwnCalls
<1> SUFFICES ASSUME NEW b \in Attempts PROVE Own(b)'
  BY DEF OwnCalls
<1> USE DEF AtEnd, Crossing, Step
<1>1. CASE UNCHANGED <<call[b], frame[b], phase[b]>>
  BY <1>0, <1>1
<1>2. ASSUME NEW c \in Tasks, TaskStep(c) \/ Cancelled(c) PROVE Own(b)'
  <2>1. CASE c # b
    BY <1>1, <1>2, <2>1, TaskDoes, NamesDiffer
  <2>2. CASE c = b
    BY <1>0, <1>2, <2>2, TaskDoes
  <2> QED BY <2>1, <2>2
<1>3. ASSUME NEW a \in Attempts, Issue(a) \/ ExecutorStep(a) \/ Revoke(a)
      PROVE  Own(b)'
  <2>1. CASE a # b
    <3>1. Same(b)
      BY <1>3, <2>1, ExecutorDoes
    <3> QED BY <1>1, <3>1 DEF Same
  <2>2. CASE a = b
    <3> DEFINE Ask == UNCHANGED call[b] /\ call[b] = NoCall
    <3>0. CASE Ask
      BY <3>0
    <3>1. CASE Issue(b)
      BY <1>0, <3>0, <3>1 DEF Issue, Rests
    <3>2. CASE Inspect(b)
      <4>1. call[b] = NoCall
        <5> SUFFICES ASSUME call[b] # NoCall PROVE FALSE
          OBVIOUS
        <5>1. Step(b) \in {"ready", "recheck"} /\ phase[b] = "steps" /\ call[b].op = Step(b)
          BY <1>0, <3>2 DEF Inspect
        <5>2. call[b].op \in Ops
          BY CallIs, NamesDiffer DEF Underway
        <5> QED BY <5>1, <5>2 DEF Ops, Staging, Opening, Filling, Owned, OneShots
      <4> QED BY <3>0, <3>2, <4>1 DEF Inspect
    <3>3. CASE Evidence(b)
      BY <3>3, NamesDiffer DEF Evidence, TypeOK, ExecutorTypeOK
    <3>4. CASE Scope(b)
      BY <1>0, <3>0, <3>4 DEF Scope
    <3>5. CASE Start(b)
      <4>1. UNCHANGED phase /\ call[b] = NoCall
        BY <3>5 DEF Start
      <4>2. PICK op \in Ops : op = Step(b) /\ Begin(b, b, op)
        BY <3>5, StartIs
      <4>3. CASE Admits(b, op)
        <5>1. /\ call'[b].for = b /\ call'[b].op = op
              /\ frame'[b].pc = frame[b].pc /\ frame'[b].result = "none"
          BY <4>2, <4>3, BeginDoes, NamesDiffer
        <5> QED BY <3>5, <4>1, <4>2, <5>1 DEF Start
      <4>4. CASE ~Admits(b, op)
        BY <3>0, <4>1, <4>2, <4>4, BeginDoes, NamesDiffer
      <4> QED BY <4>3, <4>4
    <3>6. CASE Advance(b)
      BY <1>0, <3>0, <3>6 DEF Advance
    <3>7. CASE AfterCrossing(b)
      BY <1>0, <3>0, <3>7 DEF AfterCrossing
    <3>8. CASE Abort(b)
      <4>1. Begin(b, b, "close") /\ phase'[b] = "closes" /\ call[b] = NoCall
        BY <1>0, <3>8 DEF Abort, Goto, TypeOK, ExecutorTypeOK
      <4>2. "close" \in Ops
        BY DEF Ops, Owned
      <4>3. CASE Admits(b, "close")
        <5>1. /\ call'[b].for = b /\ call'[b].op = "close" /\ frame'[b].result = "none"
          BY <4>1, <4>2, <4>3, BeginDoes, NamesDiffer
        <5> QED BY <4>1, <5>1
      <4>4. CASE ~Admits(b, "close")
        BY <3>0, <4>1, <4>2, <4>4, BeginDoes, NamesDiffer
      <4> QED BY <4>3, <4>4
    <3>9. CASE Settle(b)
      BY <1>0, <3>0, <3>9 DEF Settle
    <3>10. CASE Record(b)
      BY <1>0, <3>0, <3>10 DEF Record
    <3>11. CASE Revoke(b)
      BY <1>1, <3>11 DEF Revoke, atEase
    <3> QED BY <1>3, <2>2, <3>1, <3>2, <3>3, <3>4, <3>5, <3>6, <3>7, <3>8, <3>9,
               <3>10, <3>11 DEF ExecutorStep
  <2> QED BY <2>1, <2>2
<1>4. CASE StrayCall
  BY <1>1, <1>4, StrayDoes DEF Same
<1>5. CASE TripKill \/ Site \/ UNCHANGED vars
  BY <1>1, <1>5, WorldDoes
<1> QED BY <1>2, <1>3, <1>4, <1>5, Steps

LEMMA StrayCallsStep ==
  ASSUME TypeOK, Phases, StrayCalls, Next \/ UNCHANGED vars
  PROVE  StrayCalls'
<1>0. \A a \in Attempts : standing[a] # "new" => standing'[a] # "new"
  <2>1. ASSUME NEW a \in Attempts, Issue(a) \/ ExecutorStep(a) \/ Revoke(a),
               NEW b \in Attempts, standing[b] # "new"
        PROVE  standing'[b] # "new"
    <3>1. CASE a # b
      BY <2>1, <3>1, ExecutorDoes DEF Same
    <3>2. CASE a = b
      <4>1. CASE UNCHANGED standing
        BY <2>1, <4>1
      <4>2. CASE \E st, t : Over(b, st, t) /\ st # "new"
        BY <2>1, <4>2 DEF Over, TypeOK, AuthorityTypeOK
      <4>3. CASE Issue(b)
        BY <4>2, <4>3 DEF Issue, TypeOK, AuthorityTypeOK
      <4>4. CASE Settle(b) \/ Record(b)
        <5>1. \E st, t : Over(b, st, t) /\ st # "new"
          <6>1. CASE Settle(b)
            BY <2>1, <6>1 DEF Settle
          <6>2. CASE Record(b)
            BY <2>1, <6>2 DEF Record
          <6> QED BY <4>4, <6>1, <6>2
        <5> QED BY <4>2, <5>1
      <4>5. CASE Scope(b)
        <5>1. UNCHANGED standing \/ \E st, t : Over(b, st, t) /\ st # "new"
          BY <2>1, <4>5 DEF Scope, To, Goto
        <5> QED BY <4>1, <4>2, <5>1
      <4>6. CASE Advance(b)
        <5>1. UNCHANGED standing \/ \E st, t : Over(b, st, t) /\ st # "new"
          BY <2>1, <4>6 DEF Advance, To, Goto, NextStep
        <5> QED BY <4>1, <4>2, <5>1
      <4>7. CASE Inspect(b) \/ Evidence(b) \/ Start(b) \/ AfterCrossing(b) \/ Abort(b)
                 \/ Revoke(b)
        <5>1. UNCHANGED standing
          BY <4>7 DEF Inspect, Evidence, Start, AfterCrossing, Abort, Revoke, authorityVars,
             NextStep, Unwind, Goto
        <5> QED BY <4>1, <5>1
      <4> QED BY <2>1, <3>2, <4>3, <4>4, <4>5, <4>6, <4>7 DEF ExecutorStep
    <3> QED BY <3>1, <3>2
  <2>2. ASSUME NEW c \in Tasks, TaskStep(c) \/ Cancelled(c) PROVE UNCHANGED standing
    BY <2>2, TaskDoes
  <2> QED BY <2>1, <2>2, Steps, StrayDoes, WorldDoes
<1>1. CASE call'[Stray] = call[Stray] /\ load' = load
  BY <1>0, <1>1 DEF StrayCalls, Content
<1>2. ASSUME NEW c \in Tasks, TaskStep(c) \/ Cancelled(c) PROVE StrayCalls'
  <2>1. CASE c # Stray
    BY <1>1, <1>2, <2>1, TaskDoes, NamesDiffer
  <2>2. CASE c = Stray
    BY <1>0, <1>2, <2>2, TaskDoes DEF StrayCalls, Content
  <2> QED BY <2>1, <2>2
<1>3. ASSUME NEW a \in Attempts, Issue(a) \/ ExecutorStep(a) \/ Revoke(a)
      PROVE  StrayCalls'
  BY <1>1, <1>3, ExecutorDoes, NamesDiffer
<1>4. CASE StrayCall
  <2>1. /\ UNCHANGED <<load, standing>> /\ load.strays # 0 /\ call[Stray] = NoCall
    BY <1>4, StrayDoes
  <2>2. PICK a \in load.attempts \cap Content, op \in Ops :
          /\ standing[a] # "new" /\ op \in StagingOf(a) \cup {"close"}
          /\ Begin(Stray, a, op)
    BY <1>4, StrayDoes
  <2>3. \/ call' = call
        \/ call'[Stray].for = a /\ call'[Stray].op = op
    BY <2>2, BeginDoes, NamesDiffer DEF Content
  <2> QED BY <2>1, <2>2, <2>3 DEF StrayCalls
<1>5. CASE TripKill \/ Site \/ UNCHANGED vars
  BY <1>1, <1>5, WorldDoes
<1> QED BY <1>2, <1>3, <1>4, <1>5, Steps

LEMMA LockHeldStep ==
  ASSUME TypeOK, OwnCalls, StrayCalls, Phases, LockHeld, Next \/ UNCHANGED vars
  PROVE  LockHeld'
<1> DEFINE Holds(c) ==
      /\ call[c].at \in {"works", "gate", "clicks"} <=> lock = c
      /\ call[c].at \in {"gate", "clicks"} => call[c].op \in {"submit", "apply"}
<1>0. \A c \in Tasks : Holds(c)
  BY DEF LockHeld
<1> SUFFICES ASSUME NEW d \in Tasks PROVE Holds(d)'
  BY DEF LockHeld
<1>1. CASE UNCHANGED <<call[d], lock>>
  BY <1>0, <1>1
<1>2. ASSUME NEW c \in Tasks, TaskStep(c) \/ Cancelled(c) PROVE Holds(d)'
  <2>0. call[c] # NoCall
    BY <1>2, TaskDoes
  <2>1. CASE \E res \in Results : End(c, res)
    <3>1. /\ call'[c] = NoCall /\ lock' = IF lock = c THEN NoOne ELSE lock
          /\ c # d => call'[d] = call[d]
      BY <2>0, <2>1, EndDoes
    <3>2. CASE c = d
      BY <1>0, <3>1, <3>2, NamesDiffer DEF NoCall
    <3>3. CASE c # d
      BY <1>0, <3>1, <3>3, NamesDiffer
    <3> QED BY <3>2, <3>3
  <2>2. CASE Enter(c) /\ Goes(c, "works")
    <3>1. lock = NoOne /\ lock' = c
      <4>1. ~End(c, "failed")
        <5>1. call'[c].at = "works"
          BY <2>0, <2>2, GoesDoes
        <5>2. call'[c] # NoCall /\ "failed" \in Results
          BY <5>1 DEF NoCall, Results
        <5> QED BY <2>0, <5>2, EndDoes
      <4> QED BY <2>2, <4>1 DEF Enter
    <3>2. /\ call'[c].at = "works"
          /\ c # d => call'[d] = call[d]
      BY <2>0, <2>2, GoesDoes
    <3> QED BY <1>0, <3>1, <3>2, NamesDiffer
  <2>3. CASE ~\E res \in Results : End(c, res)
    <3>1. CASE Enter(c)
      BY <2>2, <2>3, <3>1 DEF Enter, Results
    <3>2. CASE Prove(c)
      <4>1. Goes(c, "gate") /\ UNCHANGED lock /\ call[c].op \in {"submit", "apply"}
            /\ call[c].at = "works"
        BY <2>3, <3>2 DEF Prove, Results
      <4> QED BY <1>0, <2>0, <4>1, GoesDoes
    <3>3. CASE Gate(c)
      <4>1. Goes(c, "clicks") /\ UNCHANGED lock /\ call[c].at = "gate"
        BY <2>3, <3>3 DEF Gate, Results
      <4> QED BY <1>0, <2>0, <4>1, GoesDoes
    <3> QED BY <1>2, <2>3, <3>1, <3>2, <3>3 DEF TaskStep, Work, Click, Cancelled, Results
  <2> QED BY <2>1, <2>3
<1>3. ASSUME NEW a \in Attempts, Issue(a) \/ ExecutorStep(a) \/ Revoke(a)
      PROVE  Holds(d)'
  <2>1. CASE Evidence(a)
    <3>1. call' = [call EXCEPT ![a] = NoCall] /\ lock' = NoOne /\ call[a].at = "works"
      BY <2>1 DEF Evidence
    <3>2. lock = a
      BY <1>0, <3>1, NamesDiffer
    <3>3. call'[d] = IF d = a THEN NoCall ELSE call[d]
      BY <3>1 DEF TypeOK, ExecutorTypeOK
    <3> QED BY <1>0, <3>1, <3>2, <3>3, NamesDiffer DEF NoCall
  <2>2. CASE ~Evidence(a)
    <3>1. UNCHANGED lock
      BY <1>3, <2>2, ExecutorDoes
    <3>2. CASE UNCHANGED call[d]
      BY <1>1, <3>1, <3>2
    <3>3. CASE call'[d].at = "waits" /\ call[d] = NoCall
      BY <1>0, <3>1, <3>3 DEF NoCall
    <3>4. UNCHANGED call[d] \/ (call'[d].at = "waits" /\ call[d] = NoCall)
      <4>1. CASE d # a
        BY <1>3, <4>1, ExecutorDoes
      <4>2. CASE d = a
        <5>1. CASE Start(a)
          <6>1. call[a] = NoCall
            BY <5>1 DEF Start
          <6>2. PICK op \in Ops : Begin(a, a, op)
            BY <5>1, StartIs
          <6> QED BY <4>2, <6>1, <6>2, BeginDoes
        <5>2. CASE Abort(a)
          <6>1. Begin(a, a, "close") /\ phase[a] = "aborts"
            BY <5>2 DEF Abort
          <6>2. call[a] = NoCall
            BY <6>1 DEF OwnCalls
          <6>3. "close" \in Ops
            BY DEF Ops, Owned
          <6> QED BY <4>2, <6>1, <6>2, <6>3, BeginDoes
        <5>3. CASE ~Start(a) /\ ~Abort(a)
          BY <1>3, <2>2, <5>3
          DEF ExecutorStep, Issue, Inspect, Scope, Advance, AfterCrossing, Settle, Record,
              Revoke, Rests, atEase
        <5> QED BY <5>1, <5>2, <5>3
      <4> QED BY <4>1, <4>2
    <3> QED BY <3>2, <3>3, <3>4
  <2> QED BY <2>1, <2>2
<1>4. CASE StrayCall
  <2>1. UNCHANGED lock /\ call[Stray] = NoCall
    BY <1>4, StrayDoes DEF brokerVars
  <2>2. PICK a \in load.attempts \cap Content, op \in Ops : Begin(Stray, a, op)
    BY <1>4, StrayDoes
  <2>3. \/ UNCHANGED call[d]
        \/ call'[d].at = "waits" /\ call[d] = NoCall
    BY <2>1, <2>2, BeginDoes, NamesDiffer DEF Content
  <2> QED BY <1>0, <1>1, <2>1, <2>3 DEF NoCall
<1>5. CASE TripKill \/ Site \/ UNCHANGED vars
  BY <1>1, <1>5, WorldDoes
<1> QED BY <1>2, <1>3, <1>4, <1>5, Steps

LEMMA InTurnStep ==
  ASSUME TypeOK, Phases, InTurn, Next \/ UNCHANGED vars
  PROVE  InTurn'
<1>1. CASE Running' \subseteq Running /\ load' = load
  BY <1>1 DEF InTurn
<1>2. ASSUME NEW c \in Tasks, TaskStep(c) \/ Cancelled(c) PROVE InTurn'
  BY <1>1, <1>2, TaskDoes DEF Running
<1>3. ASSUME NEW a \in Attempts, Issue(a) \/ ExecutorStep(a) \/ Revoke(a)
      PROVE  InTurn'
  <2>1. \A b \in Attempts \ {a} : phase'[b] = phase[b]
    BY <1>3, ExecutorDoes DEF Same
  <2>2. load' = load
    BY <1>3, ExecutorDoes
  <2>3. CASE Issue(a)
    <3>1. Running = {} /\ a \in load.attempts
      BY <2>3 DEF Issue, MayIssue
    <3>2. Running' \subseteq {a}
      BY <2>1, <3>1 DEF Running
    <3> QED BY <2>2, <3>1, <3>2 DEF InTurn
  <2>4. CASE ~Issue(a)
    <3>1. phase[a] \notin {"idle", "over"} \/ UNCHANGED phase
      BY <1>3, <2>4 DEF ExecutorStep, Inspect, Evidence, Scope, Start, Advance,
         AfterCrossing, Abort, Settle, Record, Revoke, atEase, atExecutor
    <3>2. Running' \subseteq Running
      BY <2>1, <3>1 DEF Running
    <3> QED BY <1>1, <2>2, <3>2
  <2> QED BY <2>3, <2>4
<1>4. CASE StrayCall
  BY <1>1, <1>4, StrayDoes DEF Running
<1>5. CASE TripKill \/ Site \/ UNCHANGED vars
  BY <1>1, <1>5, WorldDoes DEF Running
<1> QED BY <1>2, <1>3, <1>4, <1>5, Steps

\* What the evidence changes: only what it was asked for.
LEMMA EvidenceDoes ==
  ASSUME TypeOK, NEW a \in Attempts, Evidence(a)
  PROVE  /\ call'[a] = NoCall /\ frame'[a].pc = frame[a].pc
         /\ frame'[a].mutated = frame[a].mutated
         /\ frame'[a].result = "ok" => Proved(a, call[a].op)
         /\ IF frame'[a].result = "ok" /\ call[a].op = "capture"
            THEN frame'[a].seen \in Candidates(a)
            ELSE frame'[a].seen = frame[a].seen
<1>1. PICK res \in Results :
        /\ res = "ok" => Proved(a, call[a].op)
        /\ call' = [call EXCEPT ![a] = NoCall]
        /\ \E s \in IF res = "ok" /\ call[a].op = "baseline" THEN SUBSET Posts
                   ELSE {frame[a].baseline},
             e \in IF res = "ok" /\ call[a].op = "capture" THEN Candidates(a)
                   ELSE {frame[a].seen} :
            frame' = [frame EXCEPT ![a].result = res, ![a].baseline = s, ![a].seen = e]
  BY DEF Evidence
<1> DEFINE Ss == IF res = "ok" /\ call[a].op = "baseline" THEN SUBSET Posts
                 ELSE {frame[a].baseline}
           Es == IF res = "ok" /\ call[a].op = "capture" THEN Candidates(a)
                 ELSE {frame[a].seen}
<1>2. \E s \in Ss, e \in Es :
        frame' = [frame EXCEPT ![a].result = res, ![a].baseline = s, ![a].seen = e]
  BY <1>1
<1> HIDE DEF Ss, Es
<1>3. PICK s \in Ss, e \in Es :
        frame' = [frame EXCEPT ![a].result = res, ![a].baseline = s, ![a].seen = e]
  BY <1>2
<1>4. frame[a] \in Locals /\ frame' = [frame EXCEPT ![a] =
        [frame[a] EXCEPT !.result = res, !.baseline = s, !.seen = e]]
  BY <1>3 DEF TypeOK, ExecutorTypeOK
<1>5. frame'[a] = [frame[a] EXCEPT !.result = res, !.baseline = s, !.seen = e]
  BY <1>4 DEF TypeOK, ExecutorTypeOK
<1>6. /\ frame'[a].pc = frame[a].pc /\ frame'[a].mutated = frame[a].mutated
      /\ frame'[a].result = res /\ frame'[a].seen = e
  <2> DEFINE r == frame[a]
             q == frame'[a]
  <2>1. r \in Locals /\ q = [r EXCEPT !.result = res, !.baseline = s, !.seen = e]
    BY <1>4, <1>5
  <2> HIDE DEF r, q
  <2>2. q.pc = r.pc
    BY <2>1 DEF Locals
  <2>3. q.mutated = r.mutated
    BY <2>1 DEF Locals
  <2>4. q.result = res
    BY <2>1 DEF Locals
  <2>5. q.seen = e
    BY <2>1 DEF Locals
  <2> QED BY <2>2, <2>3, <2>4, <2>5 DEF r, q
<1>7. call'[a] = NoCall
  BY <1>1, NamesDiffer DEF TypeOK, ExecutorTypeOK
<1>8. IF res = "ok" /\ call[a].op = "capture" THEN e \in Candidates(a)
      ELSE e = frame[a].seen
  BY <1>3 DEF Es
<1> QED BY <1>1, <1>6, <1>7, <1>8

\* A permit changes at the gate of its own attempt.
LEMMA PermitStep ==
  ASSUME TypeOK, CallInv, Next \/ UNCHANGED vars, NEW b \in Attempts
  PROVE  \/ UNCHANGED permit[b]
         \/ /\ b \in Tasks /\ Gate(b) /\ phase[b] = "crosses" /\ ~Exhausted(b)
            /\ call[b].for = b /\ phase'[b] = "crosses"
            /\ b \in Content => call[b].op = "submit"
            /\ \/ /\ permit'[b] = "consumed" /\ call'[b] # NoCall
                  /\ call'[b].at = "clicks" /\ frame'[b] = frame[b] /\ UNCHANGED prep
               \/ permit'[b] # "consumed" /\ call'[b] = NoCall
<1> USE DEF CallInv
<1>1. ASSUME NEW c \in Tasks, TaskStep(c) \/ Cancelled(c), permit'[b] # permit[b]
      PROVE  /\ b \in Tasks /\ Gate(b) /\ phase[b] = "crosses" /\ ~Exhausted(b)
             /\ call[b].for = b /\ phase'[b] = "crosses"
             /\ b \in Content => call[b].op = "submit"
             /\ \/ /\ permit'[b] = "consumed" /\ call'[b] # NoCall
                   /\ call'[b].at = "clicks" /\ frame'[b] = frame[b] /\ UNCHANGED prep
                \/ permit'[b] # "consumed" /\ call'[b] = NoCall
  <2>1. Gate(c) /\ call[c].at = "gate" /\ ~killed /\ call[c] # NoCall /\ UNCHANGED phase
    <3>1. permit' # permit
      BY <1>1
    <3>2. Gate(c)
      BY <1>1, <3>1 DEF TaskStep, Enter, Work, Prove, Click, Cancelled
    <3> QED BY <1>1, <3>1, <3>2, TaskDoes DEF Gate
  <2>2. call[c].op \in {"submit", "apply"}
    BY <2>1 DEF LockHeld
  <2>3. /\ c \in Attempts /\ phase[c] = "crosses" /\ call[c].for = c
        /\ c \in Content <=> call[c].op = "submit"
    BY <2>1, <2>2, CallerIs
  <2>4. b = c
    BY <1>1, <2>3, TaskDoes
  <2>5. ~Exhausted(b)
    BY <2>1, <2>2, <2>3, <2>4 DEF PermitOfCall
  <2>6. PICK answer \in GateAnswers(b) :
          /\ permit' = [permit EXCEPT ![b] = answer]
          /\ IF answer = "consumed" THEN Goes(b, "clicks") /\ UNCHANGED lock
             ELSE \E res \in {"failed", "raised"} : End(b, res)
    BY <2>1, <2>3, <2>4 DEF Gate
  <2>7. permit'[b] = answer
    BY <2>6 DEF TypeOK, AuthorityTypeOK
  <2>8. CASE answer = "consumed"
    <3>1. call'[b].at = "clicks" /\ UNCHANGED <<prep, frame>>
      BY <2>1, <2>4, <2>6, <2>8, GoesDoes
    <3>2. call'[b] # NoCall
      BY <3>1 DEF NoCall
    <3> QED BY <2>1, <2>3, <2>4, <2>5, <2>7, <2>8, <3>1, <3>2
  <2>9. CASE answer # "consumed"
    <3>1. call'[b] = NoCall
      <4>1. PICK res \in {"failed", "raised"} : End(b, res)
        BY <2>6, <2>9
      <4>2. res \in Results
        BY DEF Results
      <4> QED BY <2>1, <2>4, <4>1, <4>2, EndDoes
    <3> QED BY <2>1, <2>3, <2>4, <2>5, <2>7, <2>9, <3>1
  <2> QED BY <2>8, <2>9
<1>2. ASSUME NEW a \in Attempts, Issue(a) \/ ExecutorStep(a) \/ Revoke(a)
      PROVE  UNCHANGED permit[b]
  BY <1>2, ExecutorDoes
<1> QED BY <1>1, <1>2, Steps, StrayDoes, WorldDoes

\* What crossed stays crossed.
LEMMA CrossedStays ==
  ASSUME TypeOK, CallInv, Next \/ UNCHANGED vars, NEW b \in Attempts
  PROVE  Crossed(b) => Crossed(b)'
  BY PermitStep DEF Crossed, Exhausted

\* What changes the tracker of an attempt.
LEMMA PrepStep ==
  ASSUME TypeOK, CallInv, Next \/ UNCHANGED vars, NEW b \in Attempts
  PROVE  \/ UNCHANGED prep[b]
         \/ \E c \in Tasks, res \in Results :
              /\ call[c] # NoCall /\ call[c].for = b /\ End(c, res)
              /\ TaskStep(c) \/ Cancelled(c)
              /\ prep'[b] = Finished(call[c], res)
         \/ \E c \in Tasks, op \in Ops :
              /\ Begin(c, b, op) /\ Admits(b, op) /\ call[c] = NoCall
              /\ prep'[b] = Begun(b, op) /\ call'[c].for = b /\ call'[c].op = op
              /\ c = b \/ (c = Stray /\ StrayCall /\ standing[b] # "new" /\ b \in Content
                           /\ op \in StagingOf(b) \cup {"close"})
         \/ Scope(b) /\ MayScope(b) /\ prep'[b] = Scoped(b)
<1> USE DEF CallInv
<1>1. ASSUME NEW c \in Tasks, TaskStep(c) \/ Cancelled(c), prep'[b] # prep[b]
      PROVE  \E res \in Results :
              /\ call[c] # NoCall /\ call[c].for = b /\ End(c, res)
              /\ prep'[b] = Finished(call[c], res)
  <2>1. call[c] # NoCall /\ call[c].for = b
    BY <1>1, TaskDoes
  <2>2. CASE \E res \in Results : End(c, res)
    BY <2>1, <2>2, EndDoes
  <2>3. CASE \E at \in {"works", "gate", "clicks"} : Goes(c, at)
    BY <1>1, <2>1, <2>3, GoesDoes
  <2> QED BY <1>1, <2>2, <2>3, TaskDoes
<1>2. ASSUME NEW a \in Attempts, Issue(a) \/ ExecutorStep(a) \/ Revoke(a),
             prep'[b] # prep[b]
      PROVE  \/ \E op \in Ops :
                  /\ Begin(b, b, op) /\ Admits(b, op) /\ call[b] = NoCall
                  /\ prep'[b] = Begun(b, op) /\ call'[b].for = b /\ call'[b].op = op
             \/ Scope(b) /\ MayScope(b) /\ prep'[b] = Scoped(b)
  <2>1. a = b
    BY <1>2, ExecutorDoes
  <2>2. CASE Start(b)
    <3>1. PICK op \in Ops : Begin(b, b, op)
      BY <2>2, StartIs
    <3> QED BY <1>2, <2>2, <3>1, BeginDoes, NamesDiffer DEF Start
  <2>3. CASE Abort(b)
    <3>1. Begin(b, b, "close") /\ "close" \in Ops /\ call[b] = NoCall
      BY <2>3 DEF Abort, Ops, Owned, OwnCalls
    <3> QED BY <1>2, <3>1, BeginDoes, NamesDiffer
  <2>4. CASE Scope(b)
    <3>1. prep' # prep
      BY <1>2
    <3> QED BY <2>4, <3>1 DEF Scope, TypeOK, AuthorityTypeOK
  <2>5. CASE UNCHANGED prep
    BY <1>2, <2>5
  <2>6. Start(b) \/ Abort(b) \/ Scope(b) \/ UNCHANGED prep
    BY <1>2, <2>1 DEF ExecutorStep, Issue, Inspect, Evidence, Advance, AfterCrossing,
       Settle, Record, Revoke, authorityVars
  <2> QED BY <2>2, <2>3, <2>4, <2>5, <2>6
<1>3. ASSUME StrayCall, prep'[b] # prep[b]
      PROVE  \E op \in Ops :
              /\ Begin(Stray, b, op) /\ Admits(b, op) /\ call[Stray] = NoCall
              /\ prep'[b] = Begun(b, op) /\ call'[Stray].for = b /\ call'[Stray].op = op
              /\ standing[b] # "new" /\ b \in Content
              /\ op \in StagingOf(b) \cup {"close"}
  <2>1. PICK a \in load.attempts \cap Content, op \in Ops :
          /\ standing[a] # "new" /\ op \in StagingOf(a) \cup {"close"}
          /\ Begin(Stray, a, op)
    BY <1>3, StrayDoes
  <2>2. a \in Attempts /\ Stray \in Tasks /\ call[Stray] = NoCall
    BY <1>3, NamesDiffer, StrayDoes DEF Content
  <2>3. a = b
    BY <1>3, <2>1, <2>2, BeginDoes
  <2> QED BY <1>3, <2>1, <2>2, <2>3, BeginDoes
<1> QED BY <1>1, <1>2, <1>3, Steps, WorldDoes, NamesDiffer

\* A sealed handle stays sealed.
LEMMA SealedStays ==
  ASSUME TypeOK, CallInv, Next \/ UNCHANGED vars, NEW b \in Attempts
  PROVE  /\ b \in Content /\ prep[b].sealed => prep'[b].sealed
         /\ Scope(b) /\ MayScope(b) /\ b \in Content => prep'[b].sealed
<1>1. prep[b] \in Trackers
  BY DEF TypeOK, AuthorityTypeOK
<1>2. ASSUME NEW c \in Tasks, NEW res \in Results, call[c] # NoCall, call[c].for = b,
             prep'[b] = Finished(call[c], res)
      PROVE  prep'[b].sealed = prep[b].sealed
  BY <1>1, <1>2, FinishedIs, CallIs
<1>3. ASSUME NEW op \in Ops, prep'[b] = Begun(b, op)
      PROVE  prep'[b].sealed = prep[b].sealed
  BY <1>1, <1>3, BegunIs
<1>4. ASSUME prep'[b] = Scoped(b), b \in Content PROVE prep'[b].sealed
  BY <1>1, <1>4 DEF Scoped, Trackers
<1>5. Scope(b) /\ MayScope(b) => prep'[b] = Scoped(b)
  BY DEF Scope, TypeOK, AuthorityTypeOK
<1> QED BY <1>2, <1>3, <1>4, <1>5, PrepStep

LEMMA PermitOfCallStep ==
  ASSUME TypeOK, CallInv, Next \/ UNCHANGED vars
  PROVE  PermitOfCall'
<1> USE DEF CallInv
<1> DEFINE Fits(c) == call[c].op \in {"submit", "apply"} =>
                        IF call[c].at = "clicks" THEN Crossed(call[c].for)
                        ELSE ~Exhausted(call[c].for)
<1>0. \A c \in Tasks : Fits(c)
  BY DEF PermitOfCall
<1> SUFFICES ASSUME NEW c \in Tasks, call'[c].op \in {"submit", "apply"} PROVE Fits(c)'
  BY DEF PermitOfCall
<1>1. CASE call'[c].op # call[c].op \/ call[c] = NoCall
  <2>1. CASE c \in Attempts /\ Start(c)
    <3>1. PICK op \in Ops : op = Step(c) /\ Begin(c, c, op)
      BY <2>1, StartIs
    <3>2. call[c] = NoCall /\ UNCHANGED permit
      BY <2>1 DEF Start, Rests
    <3>3. /\ Admits(c, op) /\ call'[c].for = c /\ call'[c].op = op /\ call'[c].at = "waits"
      BY <1>1, <2>1, <3>1, <3>2, BeginDoes DEF NoCall
    <3>4. ~Exhausted(c)
      BY <3>3 DEF Admits, Staging, Opening, Filling
    <3> QED BY <3>2, <3>3, <3>4 DEF Exhausted
  <2>2. CASE c \in Attempts /\ Abort(c)
    <3>1. Begin(c, c, "close") /\ "close" \in Ops
      BY <2>2 DEF Abort, Ops, Owned
    <3> QED BY <1>1, <2>2, <3>1, BeginDoes DEF NoCall
  <2>3. CASE StrayCall
    <3>1. PICK a \in load.attempts \cap Content, op \in Ops :
            op \in StagingOf(a) \cup {"close"} /\ Begin(Stray, a, op)
      BY <2>3, StrayDoes
    <3>2. a \in Attempts /\ Stray \in Tasks /\ op \notin {"submit", "apply"}
      BY <3>1, NamesDiffer DEF Content, StagingOf
    <3>3. call'[c] = call[c] \/ call'[c].op = op
      BY <3>1, <3>2, BeginDoes
    <3> QED BY <1>1, <3>2, <3>3 DEF NoCall
  <2>4. ASSUME NEW d \in Tasks, TaskStep(d) \/ Cancelled(d) PROVE FALSE
    BY <1>1, <2>4, TaskDoes DEF NoCall
  <2>5. ASSUME NEW a \in Attempts, Issue(a) \/ ExecutorStep(a) \/ Revoke(a),
               ~Start(a), ~Abort(a)
        PROVE  FALSE
    <3>1. call' = call \/ call' = [call EXCEPT ![a] = NoCall]
      BY <2>5 DEF ExecutorStep, Issue, Inspect, Evidence, Scope, Advance, AfterCrossing,
         Settle, Record, Revoke, Rests, atEase
    <3>2. call'[c] = call[c] \/ call'[c] = NoCall
      BY <3>1 DEF TypeOK, ExecutorTypeOK
    <3> QED BY <1>1, <3>2 DEF NoCall
  <2>6. CASE TripKill \/ Site \/ UNCHANGED vars
    BY <1>1, <2>6, WorldDoes DEF NoCall
  <2>7. ASSUME NEW a \in Attempts, Start(a) \/ Abort(a), a # c PROVE FALSE
    <3>1. call'[c] = call[c]
      BY <2>7, ExecutorDoes DEF ExecutorStep
    <3> QED BY <1>1, <3>1 DEF NoCall
  <2> QED BY <2>1, <2>2, <2>3, <2>4, <2>5, <2>6, <2>7, Steps
<1>2. CASE call'[c].op = call[c].op /\ call[c] # NoCall
  <2>1. call[c].op \in {"submit", "apply"} /\ call'[c] # NoCall
    BY <1>2 DEF NoCall
  <2>2. c \in Attempts /\ call[c].for = c /\ phase[c] = "crosses"
    BY <1>2, <2>1, CallerIs
  <2>3. CASE UNCHANGED <<call[c], permit[c]>>
    BY <1>0, <2>2, <2>3 DEF Crossed, Exhausted
  <2>4. CASE permit'[c] # permit[c]
    <3>1. /\ permit'[c] = "consumed" /\ call'[c].at = "clicks" /\ Gate(c)
      BY <2>1, <2>2, <2>4, PermitStep
    <3>2. TaskStep(c)
      BY <3>1 DEF TaskStep
    <3>3. call'[c].for = c
      BY <2>1, <2>2, <3>2, TaskDoes
    <3> QED BY <3>1, <3>3 DEF Crossed
  <2>5. CASE permit'[c] = permit[c] /\ call'[c] # call[c]
    <3>1. TaskStep(c) \/ Cancelled(c)
      <4>1. ASSUME NEW d \in Tasks, TaskStep(d) \/ Cancelled(d) PROVE d = c
        BY <2>5, <4>1, TaskDoes
      <4>2. ASSUME NEW a \in Attempts, Issue(a) \/ ExecutorStep(a) \/ Revoke(a)
            PROVE FALSE
        <5>1. a = c
          BY <2>5, <4>2, ExecutorDoes
        <5>2. phase[c] = "crosses" /\ call[c] # NoCall /\ call[c].op \in {"submit", "apply"}
          BY <1>2, <2>1, <2>2
        <5>3. ~Evidence(c)
          BY <5>2 DEF Evidence
        <5>4. ~Start(c) /\ ~Abort(c)
          BY <5>2 DEF Start, Abort
        <5>5. call' = call
          BY <4>2, <5>1, <5>3, <5>4
          DEF ExecutorStep, Issue, Inspect, Scope, Advance, AfterCrossing,
              Settle, Record, Revoke, Rests, atEase
        <5> QED BY <2>5, <5>5
      <4>3. ~StrayCall
        BY <2>2, <2>5, StrayDoes DEF Same
      <4> QED BY <2>5, <4>1, <4>2, <4>3, Steps, WorldDoes
    <3>2. call'[c].for = c /\ ~\E res \in Results : End(c, res)
      BY <2>1, <2>2, <3>1, TaskDoes, EndDoes
    <3>3. CASE Gate(c)
      <4>1. PICK answer \in GateAnswers(c) :
              /\ permit' = [permit EXCEPT ![c] = answer]
              /\ IF answer = "consumed" THEN Goes(c, "clicks") /\ UNCHANGED lock
                 ELSE \E res \in {"failed", "raised"} : End(c, res)
        BY <2>2, <3>2, <3>3 DEF Gate, Results
      <4>2. permit'[c] = "consumed"
        BY <2>2, <3>2, <4>1 DEF Results, TypeOK, AuthorityTypeOK
      <4>3. call[c].at = "gate"
        BY <3>3 DEF Gate
      <4> QED BY <1>0, <2>1, <2>2, <2>5, <4>2, <4>3 DEF Exhausted
    <3>4. CASE ~Gate(c)
      <4>1. \E at \in {"works", "gate"} : Goes(c, at)
        BY <3>1, <3>2, <3>4 DEF TaskStep, Enter, Work, Prove, Click, Cancelled, Results
      <4>2. call'[c].at # "clicks"
        BY <1>2, <4>1, GoesDoes
      <4>3. call[c].at # "clicks"
        BY <3>1, <3>2, <3>4 DEF TaskStep, Enter, Work, Prove, Click, Cancelled, Results
      <4> QED BY <1>0, <2>1, <2>2, <2>5, <3>2, <4>2, <4>3 DEF Exhausted
    <3> QED BY <3>3, <3>4
  <2> QED BY <2>3, <2>4, <2>5
<1> QED BY <1>1, <1>2

LEMMA PhasesStep ==
  ASSUME TypeOK, CallInv, Next \/ UNCHANGED vars
  PROVE  Phases'
<1> USE DEF CallInv
<1> DEFINE Ph(a) ==
      /\ phase[a] = "idle" <=> standing[a] = "new"
      /\ phase[a] = "idle" => prep[a] = Fresh /\ frame[a] = Entry /\ permit[a] = "none"
      /\ phase[a] = "steps" =>
           /\ frame[a].pc <= Len(Script(a)) + 1
           /\ Crossed(a) <=> frame[a].pc > CrossAt(a)
           /\ frame[a].pc = CrossAt(a) => frame[a].result = "none"
      /\ phase[a] = "crosses" =>
           /\ frame[a].pc = CrossAt(a)
           /\ Crossed(a) => call[a] # NoCall \/ frame[a].result # "none"
      /\ phase[a] \in {"aborts", "closes"} => a \in Content /\ ~Crossed(a)
      /\ phase[a] = "settles" => a \notin Content /\ ~Crossed(a)
      /\ phase[a] = "records" => Crossed(a) /\ ~AtEnd(a)
<1>0. \A a \in Attempts : Ph(a)
  BY DEF Phases
<1> SUFFICES ASSUME NEW b \in Attempts PROVE Ph(b)'
  BY DEF Phases
<1>01. /\ CrossAt(b) \in Nat \ {0} /\ Len(Script(b)) \in Nat
       /\ CrossAt(b) < Len(Script(b))
       /\ frame[b] \in Locals /\ frame[b].pc \in Nat \ {0}
  BY ScriptIsShaped, LenProperties DEF Shaped, TypeOK, ExecutorTypeOK, Locals
<1> USE DEF Crossed, AtEnd
<1>1. CASE Same(b) /\ UNCHANGED prep[b]
  BY <1>0, <1>1 DEF Same
<1>2. ASSUME NEW c \in Tasks, TaskStep(c) \/ Cancelled(c) PROVE Ph(b)'
  <2>0. UNCHANGED <<phase, standing>> /\ call[c] # NoCall
    BY <1>2, TaskDoes
  <2>1. CASE c # b
    <3>1. call'[b] = call[b] /\ frame'[b] = frame[b]
      BY <1>2, <2>1, TaskDoes, NamesDiffer
    <3>2. permit'[b] = permit[b]
      <4> SUFFICES ASSUME permit'[b] # permit[b] PROVE FALSE
        OBVIOUS
      <4>1. Gate(b) /\ (call'[b] = NoCall \/ call'[b].at = "clicks")
        BY PermitStep
      <4>2. call[b].at = "gate"
        BY <4>1 DEF Gate
      <4> QED BY <3>1, <4>1, <4>2 DEF NoCall
    <3>3. phase[b] = "idle" => prep'[b] = prep[b]
      <4>1. phase[b] = "idle" => call[c].for # b
        <5>1. CASE c = Stray
          BY <1>0, <2>0, <5>1 DEF StrayCalls
        <5>2. CASE c \in Attempts
          BY <2>0, <2>1, <5>2 DEF OwnCalls
        <5> QED BY <5>1, <5>2, NamesDiffer
      <4> QED BY <1>2, <4>1, TaskDoes
    <3> QED BY <1>0, <2>0, <3>1, <3>2, <3>3
  <2>2. CASE c = b
    <3>1. phase[b] \notin {"idle", "over"} /\ call[b].for = b
      BY <2>0, <2>2, CallerIs, NamesDiffer DEF Running
    <3>2. phase'[b] = phase[b] /\ standing'[b] = standing[b]
      BY <2>0
    <3>3. frame'[b].pc = frame[b].pc
      <4>1. CASE \E res \in Results : End(b, res)
        <5>1. PICK res \in Results : frame'[b] = [frame[b] EXCEPT !.result = res]
          BY <2>0, <2>2, <4>1, EndDoes
        <5> QED BY <1>01, <5>1 DEF Locals
      <4>2. CASE ~\E res \in Results : End(b, res)
        BY <1>2, <2>2, <4>2, TaskDoes, GoesDoes
      <4> QED BY <4>1, <4>2
    <3>4. phase[b] # "crosses" => permit'[b] = permit[b]
      BY PermitStep
    <3>5. call'[b] # NoCall \/ frame'[b].result # "none"
      <4>1. CASE \E res \in Results : End(b, res)
        <5>1. PICK res \in Results : frame'[b] = [frame[b] EXCEPT !.result = res]
          BY <2>0, <2>2, <4>1, EndDoes
        <5>2. frame'[b].result = res
          BY <1>01, <5>1 DEF Locals
        <5> QED BY <5>2 DEF Results
      <4>2. CASE \E at \in {"works", "gate", "clicks"} : Goes(b, at)
        <5>1. call'[b].at # "idle"
          BY <2>0, <2>2, <4>2, GoesDoes
        <5> QED BY <5>1 DEF NoCall
      <4> QED BY <1>2, <2>2, <4>1, <4>2, TaskDoes
    <3>6. phase[b] = "steps" => frame[b].pc # CrossAt(b)
      <4> SUFFICES ASSUME phase[b] = "steps", frame[b].pc = CrossAt(b) PROVE FALSE
        OBVIOUS
      <4>1. ~AtEnd(b) /\ ~Crossing(b)
        BY <2>0, <2>2 DEF OwnCalls
      <4> QED BY <4>1, StepIs
    <3> QED BY <1>0, <3>1, <3>2, <3>3, <3>4, <3>5, <3>6
  <2> QED BY <2>1, <2>2
<1>3. ASSUME NEW a \in Attempts, Issue(a) \/ ExecutorStep(a) \/ Revoke(a)
      PROVE  Ph(b)'
  <2>1. CASE a # b
    BY <1>1, <1>3, <2>1, ExecutorDoes
  <2>2. CASE a = b
    <3>0. permit' = permit
      BY <1>3, ExecutorDoes
    <3> USE DEF TypeOK, AuthorityTypeOK, ExecutorTypeOK
    <3>1. CASE Over(b, "clean", "failed") \/ \E st, t : Over(b, st, t) /\ st # "new"
      <4>1. phase'[b] = "over" /\ standing'[b] # "new"
        BY <3>1 DEF Over
      <4> QED BY <4>1
    <3>2. CASE Issue(b)
      <4>1. phase[b] = "idle" /\ frame[b] = Entry /\ permit[b] = "none"
        BY <1>0, <3>2 DEF Issue
      <4>2. CASE ~Over(b, "clean", "failed")
        <5>1. phase'[b] = "steps" /\ standing'[b] = "preparing" /\ frame'[b] = frame[b]
          BY <3>2, <4>2 DEF Issue
        <5>2. frame'[b].pc = 1 /\ frame'[b].result = "none"
          BY <4>1, <5>1 DEF Entry
        <5> QED BY <1>01, <3>0, <4>1, <5>1, <5>2
      <4> QED BY <3>1, <4>2
    <3>3. CASE Inspect(b)
      <4>1. PICK res \in Results : Returned(b, res)
        BY <3>3 DEF Inspect
      <4>2. frame'[b].pc = frame[b].pc /\ UNCHANGED <<phase, standing, prep>>
        BY <1>01, <3>3, <4>1, NamesDiffer DEF Inspect, Returned, authorityVars, atExecutor, Locals
      <4>3. frame[b].pc # CrossAt(b)
        BY <3>3, StepIs DEF Inspect, Crossing
      <4> QED BY <1>0, <3>0, <3>3, <4>2, <4>3 DEF Inspect
    <3>4. CASE Evidence(b)
      <4>2. frame'[b].pc = frame[b].pc
        BY <3>4, EvidenceDoes
      <4>3. UNCHANGED <<phase, standing, prep>>
        BY <3>4 DEF Evidence, authorityVars, atExecutor
      <4>4. phase[b] = "steps" /\ frame[b].pc # CrossAt(b)
        <5>1. call[b] # NoCall
          BY <3>4 DEF Evidence, NoCall
        <5>2. phase[b] = "steps"
          BY <3>4, <5>1, CallerIs, NamesDiffer DEF Evidence
        <5>3. ~AtEnd(b) /\ ~Crossing(b)
          BY <5>1, <5>2 DEF OwnCalls
        <5> QED BY <5>2, <5>3, StepIs
      <4> QED BY <1>0, <3>0, <4>2, <4>3, <4>4
    <3>5. CASE Scope(b)
      <4>1. frame[b].pc = CrossAt(b) /\ ~Crossed(b) /\ phase[b] = "steps"
        <5>1. frame[b].pc = CrossAt(b)
          BY <3>5, StepIs DEF Scope
        <5> QED BY <1>0, <1>01, <3>5, <5>1 DEF Scope
      <4>2. CASE To(b, "crosses")
        <5>1. /\ phase'[b] = "crosses" /\ frame'[b] = frame[b] /\ standing'[b] = standing[b]
          BY <4>2 DEF To, Goto
        <5> QED BY <1>0, <3>0, <4>1, <5>1
      <4>3. CASE b \in Content /\ To(b, "aborts")
        <5>1. /\ phase'[b] = "aborts" /\ frame'[b] = frame[b] /\ standing'[b] = standing[b]
          BY <4>3 DEF To, Goto
        <5> QED BY <1>0, <3>0, <4>1, <4>3, <5>1
      <4>4. standing[b] # "new"
        BY <1>0, <4>1
      <4>5. \/ To(b, "crosses") \/ (b \in Content /\ To(b, "aborts"))
            \/ Over(b, "clean", "failed") \/ Over(b, standing[b], "raised")
        BY <3>5 DEF Scope
      <4> QED BY <3>1, <4>2, <4>3, <4>4, <4>5
    <3>6. CASE Start(b)
      <4>1. PICK op \in Ops : op = Step(b) /\ Begin(b, b, op)
        BY <3>6, StartIs
      <4>2. /\ UNCHANGED <<phase, standing>> /\ frame'[b].pc = frame[b].pc
            /\ phase[b] \in {"steps", "crosses"}
        BY <3>6, <4>1, BeginDoes, NamesDiffer DEF Start
      <4>3. call'[b] # NoCall \/ frame'[b].result # "none"
        BY <4>1, BeginDoes, NamesDiffer
      <4>4. phase[b] = "steps" => frame[b].pc # CrossAt(b)
        BY <3>6, StepIs DEF Start
      <4> QED BY <1>0, <3>0, <4>2, <4>3, <4>4
    <3>7. CASE Advance(b)
      <4>0. phase[b] = "steps" /\ frame[b].result # "none" /\ ~AtEnd(b)
        BY <3>7 DEF Advance
      <4>1. CASE NextStep(b, frame[b].mutated)
        <5>1. phase'[b] = "steps" /\ frame'[b].pc = frame[b].pc + 1
              /\ frame'[b].result = "none" /\ standing'[b] = standing[b]
          BY <1>01, <4>1 DEF NextStep, Goto, Locals
        <5>2. frame[b].pc # CrossAt(b) /\ frame[b].pc <= Len(Script(b))
          BY <1>0, <1>01, <4>0
        <5>3. Crossed(b) <=> frame[b].pc > CrossAt(b)
          BY <1>0, <4>0
        <5>4. frame[b].pc > CrossAt(b) <=> frame[b].pc + 1 > CrossAt(b)
          BY <1>01, <5>2
        <5> QED BY <1>0, <1>01, <3>0, <4>0, <5>1, <5>2, <5>3, <5>4
      <4>2. CASE Crossed(b) /\ To(b, "records")
        <5>1. /\ phase'[b] = "records" /\ frame'[b] = frame[b] /\ standing'[b] = standing[b]
          BY <4>2 DEF To, Goto
        <5> QED BY <1>0, <3>0, <4>0, <4>2, <5>1
      <4>3. CASE ~Crossed(b) /\ b \in Content /\ To(b, "aborts")
        <5>1. /\ phase'[b] = "aborts" /\ frame'[b] = frame[b] /\ standing'[b] = standing[b]
          BY <4>3 DEF To, Goto
        <5> QED BY <1>0, <3>0, <4>0, <4>3, <5>1
      <4>4. \/ NextStep(b, frame[b].mutated) \/ (Crossed(b) /\ To(b, "records"))
            \/ (~Crossed(b) /\ b \in Content /\ To(b, "aborts"))
            \/ Over(b, "clean", "failed")
        BY <3>7 DEF Advance
      <4> QED BY <3>1, <4>1, <4>2, <4>3, <4>4
    <3>8. CASE AfterCrossing(b)
      <4>0. /\ phase[b] = "crosses" /\ frame[b].pc = CrossAt(b) /\ frame[b].result # "none"
            /\ standing[b] # "new"
        BY <1>0, <3>8 DEF AfterCrossing
      <4>1. CASE ~Crossed(b)
        <5>1. Unwind(b)
          BY <3>8, <4>1 DEF AfterCrossing
        <5>2. /\ phase'[b] = IF b \in Content THEN "aborts" ELSE "settles"
              /\ standing'[b] = standing[b]
          BY <5>1 DEF Unwind, Goto
        <5> QED BY <1>0, <3>0, <4>0, <4>1, <5>2
      <4>2. CASE Crossed(b) /\ frame[b].result = "raised"
        <5>1. Goto(b, "records") /\ Mutation(b)
          BY <3>8, <4>2 DEF AfterCrossing
        <5>2. phase'[b] = "records" /\ standing'[b] = standing[b]
              /\ frame'[b].pc = frame[b].pc
          BY <1>01, <5>1 DEF Goto, Mutation, Locals
        <5> QED BY <1>0, <1>01, <3>0, <4>0, <4>2, <5>2
      <4>3. CASE Crossed(b) /\ frame[b].result # "raised"
        <5>1. NextStep(b, frame[b].result)
          BY <3>8, <4>3 DEF AfterCrossing
        <5>2. /\ phase'[b] = "steps" /\ standing'[b] = standing[b]
              /\ frame'[b].pc = frame[b].pc + 1 /\ frame'[b].result = "none"
          BY <1>01, <5>1 DEF NextStep, Goto, Locals
        <5>3. frame'[b].pc > CrossAt(b) /\ frame'[b].pc <= Len(Script(b)) + 1
              /\ frame'[b].pc # CrossAt(b)
          BY <1>01, <4>0, <5>2
        <5> QED BY <1>0, <3>0, <4>0, <4>3, <5>2, <5>3
      <4> QED BY <4>1, <4>2, <4>3
    <3>9. CASE Abort(b)
      <4>1. /\ phase[b] = "aborts" /\ phase'[b] = "closes" /\ standing'[b] = standing[b]
        BY <3>9 DEF Abort, Goto
      <4> QED BY <1>0, <3>0, <4>1
    <3>10. CASE Settle(b)
      <4>1. standing[b] # "new"
        BY <1>0, <3>10 DEF Settle
      <4> QED BY <3>1, <3>10, <4>1 DEF Settle
    <3>11. CASE Record(b)
      <4>1. standing[b] # "new"
        BY <1>0, <3>11 DEF Record
      <4> QED BY <3>1, <3>11, <4>1 DEF Record
    <3>12. CASE Revoke(b)
      BY <1>1, <3>12 DEF Revoke, Same, atEase
    <3> QED BY <1>3, <2>2, <3>2, <3>3, <3>4, <3>5, <3>6, <3>7, <3>8, <3>9, <3>10, <3>11,
               <3>12 DEF ExecutorStep
  <2> QED BY <2>1, <2>2
<1>4. CASE StrayCall
  <2>1. Same(b)
    BY <1>4, StrayDoes
  <2>2. phase[b] = "idle" => prep'[b] = prep[b]
    <3>1. PICK a \in load.attempts \cap Content, op \in Ops :
            standing[a] # "new" /\ Begin(Stray, a, op)
      BY <1>4, StrayDoes
    <3>2. a \in Attempts
      BY DEF Content
    <3> QED BY <1>0, <3>1, <3>2, BeginDoes, NamesDiffer
  <2> QED BY <1>0, <2>1, <2>2 DEF Same
<1>5. CASE TripKill \/ Site \/ UNCHANGED vars
  BY <1>1, <1>5, WorldDoes DEF Same
<1> QED BY <1>2, <1>3, <1>4, <1>5, Steps

LEMMA SealedFirstStep ==
  ASSUME TypeOK, CallInv, Next \/ UNCHANGED vars
  PROVE  SealedFirst'
<1> USE DEF CallInv
<1> SUFFICES ASSUME NEW b \in Content
             PROVE  /\ phase'[b] = "crosses" \/ permit'[b] # "none" => prep'[b].sealed
                    /\ phase'[b] = "over" /\ standing'[b] = "preparing" => prep'[b].sealed
  BY DEF SealedFirst, Content
<1>1. b \in Attempts
  BY DEF Content
<1>2. permit[b] # "none" => prep'[b].sealed
  BY <1>1, SealedStays DEF SealedFirst
<1>3. phase[b] = "crosses" => prep'[b].sealed
  BY <1>1, SealedStays DEF SealedFirst
<1>4. permit'[b] # "none" => prep'[b].sealed
  BY <1>1, <1>2, <1>3, PermitStep
<1>5. phase[b] = "over" /\ standing[b] = "preparing" => prep'[b].sealed
  BY <1>1, SealedStays DEF SealedFirst
<1>6. CASE UNCHANGED <<phase[b], standing[b]>>
  BY <1>3, <1>4, <1>5, <1>6
<1>7. ASSUME NEW a \in Attempts, Issue(a) \/ ExecutorStep(a) \/ Revoke(a)
      PROVE  /\ phase'[b] = "crosses" => prep'[b].sealed
             /\ phase'[b] = "over" /\ standing'[b] = "preparing" => prep'[b].sealed
  <2>1. CASE a # b
    BY <1>1, <1>6, <1>7, <2>1, ExecutorDoes DEF Same
  <2>2. CASE a = b
    <3> USE DEF TypeOK, AuthorityTypeOK, ExecutorTypeOK
    <3>1. CASE Issue(b)
      BY <1>1, <3>1 DEF Issue, Over
    <3>2. CASE Scope(b)
      <4>1. CASE MayScope(b)
        BY <1>1, <3>2, <4>1, SealedStays
      <4>2. CASE ~MayScope(b)
        <5>1. \/ To(b, "aborts")
              \/ b \notin Content /\ Over(b, "clean", "failed")
              \/ b \notin Content /\ Over(b, standing[b], "raised")
          <6> HIDE DEF TypeOK, AuthorityTypeOK, ExecutorTypeOK
          <6>1. ActionOf[b] # "delete"
            BY DEF Content
          <6> QED BY <3>2, <4>2, <6>1 DEF Scope
        <5>2. phase'[b] = "aborts"
          BY <1>1, <5>1 DEF To, Goto
        <5> QED BY <5>2
      <4> QED BY <4>1, <4>2
    <3>3. CASE Advance(b)
      <4>1. \/ \E p \in {"steps", "records", "aborts"} : Goto(b, p)
            \/ Over(b, "clean", "failed")
        BY <3>3 DEF Advance, NextStep, To
      <4> QED BY <1>1, <4>1 DEF Over, Goto
    <3>4. CASE AfterCrossing(b) \/ Abort(b)
      <4>1. \E p \in {"steps", "records", "aborts", "settles", "closes"} : Goto(b, p)
        BY <3>4 DEF AfterCrossing, Abort, Unwind, NextStep
      <4> QED BY <1>1, <4>1 DEF Goto
    <3>5. CASE Settle(b)
      <4>1. \E st, t : Over(b, st, t) /\ (st = "clean" \/ permit[b] # "none")
        BY <3>5 DEF Settle
      <4>2. phase'[b] = "over" /\ (standing'[b] = "clean" \/ permit[b] # "none")
        BY <1>1, <4>1 DEF Over
      <4> QED BY <1>2, <4>2
    <3>6. CASE Record(b)
      <4>1. Crossed(b)
        <5>1. CASE phase[b] = "steps" /\ AtEnd(b)
          <6>1. /\ CrossAt(b) \in Nat /\ Len(Script(b)) \in Nat
                /\ CrossAt(b) < Len(Script(b)) /\ frame[b].pc \in Nat
            BY <1>1, ScriptIsShaped, LenProperties DEF Shaped, Locals
          <6>2. frame[b].pc > CrossAt(b)
            BY <5>1, <6>1 DEF AtEnd
          <6> QED BY <1>1, <5>1, <6>2 DEF Phases
        <5> QED BY <1>1, <3>6, <5>1 DEF Record, Phases
      <4>2. phase'[b] = "over"
        BY <1>1, <3>6 DEF Record, Over
      <4> QED BY <1>2, <4>1, <4>2 DEF Crossed
    <3>7. CASE Inspect(b) \/ Evidence(b) \/ Start(b) \/ Revoke(b)
      <4>1. UNCHANGED <<phase, standing>>
        BY <3>7 DEF Inspect, Evidence, Start, Revoke, authorityVars, atExecutor, atEase
      <4> QED BY <1>6, <4>1
    <3> QED BY <1>7, <2>2, <3>1, <3>2, <3>3, <3>4, <3>5, <3>6, <3>7 DEF ExecutorStep
  <2> QED BY <2>1, <2>2
<1>8. ASSUME NEW c \in Tasks, TaskStep(c) \/ Cancelled(c)
      PROVE  UNCHANGED <<phase[b], standing[b]>>
  BY <1>8, TaskDoes
<1> QED BY <1>4, <1>6, <1>7, <1>8, Steps, StrayDoes, WorldDoes

LEMMA CallInvStep ==
  ASSUME TypeOK, CallInv, Next \/ UNCHANGED vars
  PROVE  CallInv'
BY OwnCallsStep, StrayCallsStep, LockHeldStep, InTurnStep, PhasesStep, SealedFirstStep,
   PermitOfCallStep DEF CallInv

--------------------------------------------------------------------------------
(* Calls and trackers.                                                     *)

\* What becomes of a call: it ends, it goes on, or it is begun.
LEMMA CallStep ==
  ASSUME TypeOK, CallInv, Next \/ UNCHANGED vars, NEW c \in Tasks
  PROVE  \/ call'[c] = NoCall
         \/ /\ call[c] # NoCall /\ call'[c] # NoCall
            /\ call'[c].for = call[c].for /\ call'[c].op = call[c].op
         \/ \E a \in Attempts, op \in Ops :
              /\ call[c] = NoCall /\ Begin(c, a, op) /\ Admits(a, op)
              /\ call'[c].for = a /\ call'[c].op = op /\ call'[c].at = "waits"
              /\ prep'[a] = Begun(a, op)
              /\ op \in Staging => a \in Content /\ op \in StagingOf(a)
              /\ \/ c = a /\ (Start(a) \/ Abort(a))
                 \/ c = Stray /\ StrayCall /\ a \in Content /\ standing[a] # "new"
<1> USE DEF CallInv
<1>1. ASSUME NEW d \in Tasks, TaskStep(d) \/ Cancelled(d)
      PROVE  \/ call'[c] = NoCall
             \/ /\ call[c] # NoCall /\ call'[c] # NoCall
                /\ call'[c].for = call[c].for /\ call'[c].op = call[c].op
  BY <1>1, TaskDoes
<1>2. ASSUME NEW a \in Attempts, Start(a), c = a, call'[c] # NoCall
      PROVE  \E op \in Ops :
              /\ call[c] = NoCall /\ Begin(c, a, op) /\ Admits(a, op)
              /\ call'[c].for = a /\ call'[c].op = op /\ call'[c].at = "waits"
              /\ prep'[a] = Begun(a, op)
              /\ op \in Staging => a \in Content /\ op \in StagingOf(a)
  <2>1. PICK op \in Ops : op = Step(a) /\ Begin(a, a, op)
    BY <1>2, StartIs
  <2>2. call[a] = NoCall /\ ~AtEnd(a)
    BY <1>2 DEF Start
  <2>3. op \in Staging => a \in Content /\ op \in StagingOf(a)
    <3>1. frame[a].pc \in Nat /\ CrossAt(a) \in Nat
      BY ScriptIsShaped DEF TypeOK, ExecutorTypeOK, Locals, Shaped
    <3>2. op \in Ahead(a) \/ op \in Behind(a) \/ op \in {"submit", "apply"}
      BY <2>1, <2>2, <3>1, StepIs DEF Crossing
    <3> QED BY <3>2 DEF Ahead, Behind, Staging, Opening, Filling
  <2> QED BY <1>2, <2>1, <2>2, <2>3, BeginDoes
<1>3. ASSUME NEW a \in Attempts, Abort(a), c = a, call'[c] # NoCall
      PROVE  \E op \in Ops :
              /\ call[c] = NoCall /\ Begin(c, a, op) /\ Admits(a, op)
              /\ call'[c].for = a /\ call'[c].op = op /\ call'[c].at = "waits"
              /\ prep'[a] = Begun(a, op)
              /\ op \in Staging => a \in Content /\ op \in StagingOf(a)
  <2>1. Begin(a, a, "close") /\ "close" \in Ops /\ "close" \notin Staging
    BY <1>3 DEF Abort, Ops, Owned, Staging, Opening, Filling
  <2>2. call[a] = NoCall
    BY <1>3 DEF Abort, OwnCalls
  <2> QED BY <1>3, <2>1, <2>2, BeginDoes
<1>4. ASSUME NEW a \in Attempts, Issue(a) \/ ExecutorStep(a) \/ Revoke(a),
             (~Start(a) /\ ~Abort(a)) \/ c # a
      PROVE  call'[c] = call[c] \/ call'[c] = NoCall
  <2>1. CASE c # a
    BY <1>4, <2>1, ExecutorDoes
  <2>2. CASE ~Start(a) /\ ~Abort(a)
    <3>1. call' = call \/ call' = [call EXCEPT ![a] = NoCall]
      BY <1>4, <2>2 DEF ExecutorStep, Issue, Inspect, Evidence, Scope, Advance, AfterCrossing,
         Settle, Record, Revoke, Rests, atEase
    <3> QED BY <3>1 DEF TypeOK, ExecutorTypeOK
  <2> QED BY <1>4, <2>1, <2>2
<1>5. ASSUME StrayCall, call'[c] # NoCall
      PROVE  \/ call'[c] = call[c]
             \/ \E a \in Attempts, op \in Ops :
                  /\ call[c] = NoCall /\ Begin(c, a, op) /\ Admits(a, op)
                  /\ call'[c].for = a /\ call'[c].op = op /\ call'[c].at = "waits"
                  /\ prep'[a] = Begun(a, op)
                  /\ op \in Staging => a \in Content /\ op \in StagingOf(a)
                  /\ c = Stray /\ StrayCall /\ a \in Content /\ standing[a] # "new"
  <2>1. PICK a \in load.attempts \cap Content, op \in Ops :
          /\ standing[a] # "new" /\ op \in StagingOf(a) \cup {"close"}
          /\ Begin(Stray, a, op)
    BY <1>5, StrayDoes
  <2>2. a \in Attempts /\ Stray \in Tasks /\ call[Stray] = NoCall
    BY <1>5, NamesDiffer, StrayDoes DEF Content
  <2>3. CASE c # Stray
    BY <2>1, <2>2, <2>3, BeginDoes
  <2>4. CASE c = Stray
    <3>1. op \in Staging => op \in StagingOf(a)
      BY <2>1 DEF Staging, Opening, Filling
    <3> QED BY <1>5, <2>1, <2>2, <2>4, <3>1, BeginDoes
  <2> QED BY <2>3, <2>4
<1>6. ASSUME NEW a \in Attempts, Issue(a) \/ ExecutorStep(a) \/ Revoke(a)
      PROVE  \/ call'[c] = NoCall \/ call'[c] = call[c]
             \/ \E op \in Ops :
                  /\ call[c] = NoCall /\ Begin(c, a, op) /\ Admits(a, op)
                  /\ call'[c].for = a /\ call'[c].op = op /\ call'[c].at = "waits"
                  /\ prep'[a] = Begun(a, op)
                  /\ op \in Staging => a \in Content /\ op \in StagingOf(a)
                  /\ c = a /\ (Start(a) \/ Abort(a))
  BY <1>2, <1>3, <1>4, <1>6
<1> QED BY <1>1, <1>5, <1>6, Steps, WorldDoes

\* A call of a handle ends through its tracker.
LEMMA EndedCall ==
  ASSUME TypeOK, CallInv, Next \/ UNCHANGED vars, NEW c \in Tasks,
         call[c] # NoCall, call'[c] = NoCall,
         call[c].op \in Staging \cup {"close", "submit", "apply"}
  PROVE  \E res \in Results :
           /\ End(c, res) /\ (TaskStep(c) \/ Cancelled(c))
           /\ prep'[call[c].for] = Finished(call[c], res)
<1> USE DEF CallInv
<1>1. ASSUME NEW d \in Tasks, TaskStep(d) \/ Cancelled(d)
      PROVE  \E res \in Results : End(c, res) /\ (TaskStep(c) \/ Cancelled(c))
  <2>1. d = c
    BY <1>1, TaskDoes
  <2>2. ~\E at \in {"works", "gate", "clicks"} : Goes(c, at)
    BY GoesDoes DEF NoCall
  <2> QED BY <1>1, <2>1, <2>2, TaskDoes
<1>2. ASSUME NEW a \in Attempts, Issue(a) \/ ExecutorStep(a) \/ Revoke(a) PROVE FALSE
  <2>1. a = c
    BY <1>2, ExecutorDoes
  <2>2. ~Evidence(c)
    BY DEF Evidence, Staging, Opening, Filling
  <2>3. ~Start(c) /\ ~Abort(c)
    BY <2>1 DEF Start, Abort, OwnCalls
  <2>4. call' = call
    BY <1>2, <2>1, <2>2, <2>3
    DEF ExecutorStep, Issue, Inspect, Scope, Advance, AfterCrossing,
        Settle, Record, Revoke, Rests, atEase
  <2> QED BY <2>4
<1>3. ~StrayCall
  <2> SUFFICES ASSUME StrayCall PROVE FALSE
    OBVIOUS
  <2>1. PICK a \in load.attempts \cap Content, op \in Ops : Begin(Stray, a, op)
    BY StrayDoes
  <2>2. c # Stray
    BY StrayDoes
  <2> QED BY <2>1, <2>2, BeginDoes, NamesDiffer DEF Content
<1>4. \E res \in Results : End(c, res) /\ (TaskStep(c) \/ Cancelled(c))
  BY <1>1, <1>2, <1>3, Steps, WorldDoes
<1> QED BY <1>4, EndDoes

\* A new tracker, field by field.
LEMMA TrackerStep ==
  ASSUME TypeOK, CallInv, Next \/ UNCHANGED vars, NEW b \in Attempts
  PROVE  LET t == prep[b]
             u == prep'[b]
         IN \/ /\ u.stage = t.stage /\ u.cleaning = t.cleaning /\ u.effect = t.effect
               /\ u.opened = t.opened /\ u.filled = t.filled
               /\ UNCHANGED prep[b] \/ Scope(b)
            \/ \E c \in Tasks, res \in Results :
                 /\ call[c] # NoCall /\ call[c].for = b /\ End(c, res)
                 /\ TaskStep(c) \/ Cancelled(c)
                 /\ u.stage = (t.stage /\ call[c].op \notin Staging)
                 /\ u.cleaning = (t.cleaning /\ call[c].op # "close")
                 /\ u.effect = (t.effect /\ call[c].op # "submit")
                 /\ u.opened => t.opened \/ (call[c].op \in Opening /\ res = "ok" /\ ~t.cleaning)
                 /\ u.filled => t.filled \/ (call[c].op \in Filling /\ ~t.cleaning)
                 /\ call[c].op \in Opening \cap Filling /\ ~t.opened /\ ~t.filled =>
                      u.opened = u.filled
                 /\ call[c].op \notin Opening => u.opened = t.opened
                 /\ call[c].op \notin Filling => u.filled = t.filled
            \/ \E c \in Tasks, op \in Ops :
                 /\ Begin(c, b, op) /\ Admits(b, op) /\ call[c] = NoCall
                 /\ call'[c].for = b /\ call'[c].op = op
                 /\ c = b \/ c = Stray
                 /\ op = "submit" => c = b
                 /\ u.stage = (t.stage \/ op \in Staging)
                 /\ u.cleaning = (t.cleaning \/ op = "close")
                 /\ u.effect => t.effect \/ op = "submit"
                 /\ u.opened = (t.opened /\ op # "close")
                 /\ u.filled = (t.filled /\ op # "close")
<1>1. prep[b] \in Trackers
  BY DEF TypeOK, AuthorityTypeOK
<1>2. CASE UNCHANGED prep[b]
  BY <1>2
<1>3. CASE Scope(b) /\ prep'[b] = Scoped(b)
  BY <1>1, <1>3 DEF Scoped, Trackers
<1>4. ASSUME NEW c \in Tasks, NEW res \in Results,
             call[c] # NoCall, call[c].for = b, End(c, res), TaskStep(c) \/ Cancelled(c),
             prep'[b] = Finished(call[c], res)
      PROVE  /\ prep'[b].stage = (prep[b].stage /\ call[c].op \notin Staging)
             /\ prep'[b].cleaning = (prep[b].cleaning /\ call[c].op # "close")
             /\ prep'[b].effect = (prep[b].effect /\ call[c].op # "submit")
             /\ prep'[b].opened =>
                  prep[b].opened \/ (call[c].op \in Opening /\ res = "ok" /\ ~prep[b].cleaning)
             /\ prep'[b].filled =>
                  prep[b].filled \/ (call[c].op \in Filling /\ ~prep[b].cleaning)
             /\ call[c].op \in Opening \cap Filling /\ ~prep[b].opened /\ ~prep[b].filled =>
                  prep'[b].opened = prep'[b].filled
             /\ call[c].op \notin Opening => prep'[b].opened = prep[b].opened
             /\ call[c].op \notin Filling => prep'[b].filled = prep[b].filled
  <2>1. PICK k \in Underway : k = call[c]
    BY <1>4, CallIs
  <2>2. k.for = b
    BY <1>4, <2>1
  <2> QED BY <1>1, <1>4, <2>1, <2>2, FinishedIs
<1>5. ASSUME NEW op \in Ops, prep'[b] = Begun(b, op)
      PROVE  /\ prep'[b].stage = (prep[b].stage \/ op \in Staging)
             /\ prep'[b].cleaning = (prep[b].cleaning \/ op = "close")
             /\ prep'[b].effect => prep[b].effect \/ op = "submit"
             /\ prep'[b].opened = (prep[b].opened /\ op # "close")
             /\ prep'[b].filled = (prep[b].filled /\ op # "close")
  BY <1>1, <1>5, BegunIs
<1>6. "submit" \notin StagingOf(b) \cup {"close"}
  BY DEF StagingOf
<1>7. CASE \E c \in Tasks, res \in Results :
              /\ call[c] # NoCall /\ call[c].for = b /\ End(c, res)
              /\ TaskStep(c) \/ Cancelled(c)
              /\ prep'[b] = Finished(call[c], res)
  BY <1>4, <1>7
<1>8. CASE \E c \in Tasks, op \in Ops :
              /\ Begin(c, b, op) /\ Admits(b, op) /\ call[c] = NoCall
              /\ prep'[b] = Begun(b, op) /\ call'[c].for = b /\ call'[c].op = op
              /\ c = b \/ (c = Stray /\ StrayCall /\ standing[b] # "new" /\ b \in Content
                           /\ op \in StagingOf(b) \cup {"close"})
  BY <1>5, <1>6, <1>8
<1> QED BY <1>2, <1>3, <1>7, <1>8, PrepStep

LEMMA AdmitsStage ==
  ASSUME NEW a \in Attempts, NEW op \in Staging, Admits(a, op)
  PROVE  MayBeginStage(a, op)
BY DEF Admits, Staging, Opening, Filling

\* Only one begins at a time.
LEMMA OneBegins ==
  ASSUME TypeOK, NEW c \in Tasks, NEW a \in Attempts, NEW op \in Ops, Begin(c, a, op),
         NEW d \in Tasks, d # c
  PROVE  call'[d] = call[d]
BY BeginDoes

LEMMA StagesAlone ==
  ASSUME TypeOK, CallInv, Tracked, Next \/ UNCHANGED vars,
         NEW c \in Tasks, NEW d \in Tasks,
         call'[c].op \in Staging, call'[d].op \in Staging, call'[c].for = call'[d].for
  PROVE  c = d
<1> SUFFICES ASSUME c # d PROVE FALSE
  OBVIOUS
<1> USE DEF CallInv
<1>0. call'[c] # NoCall /\ call'[d] # NoCall
  BY DEF NoCall, Staging, Opening, Filling
<1>01. /\ \A x \in Tasks : call[x].op \in Staging => prep[call[x].for].stage
       /\ \A x, y \in Tasks :
            call[x].op \in Staging /\ call[y].op \in Staging /\ call[x].for = call[y].for
              => x = y
  BY DEF Tracked
<1>1. ASSUME NEW x \in Tasks, NEW y \in Tasks, x # y, call[x] = NoCall, call'[x] # NoCall,
             call'[x].op \in Staging, call'[y].op \in Staging, call'[x].for = call'[y].for
      PROVE  FALSE
  <2>1. PICK a \in Attempts, op \in Ops :
          /\ Begin(x, a, op) /\ Admits(a, op) /\ call'[x].for = a /\ call'[x].op = op
    BY <1>1, CallStep
  <2>2. MayBeginStage(a, op)
    BY <1>1, <2>1, AdmitsStage
  <2>3. ~prep[a].stage
    BY <2>2 DEF MayBeginStage, Quiet
  <2>4. call'[y] = call[y]
    BY <1>1, <2>1, OneBegins
  <2> QED BY <1>01, <1>1, <2>1, <2>3, <2>4
<1>2. CASE call[c] = NoCall
  BY <1>0, <1>1, <1>2
<1>3. CASE call[d] = NoCall
  BY <1>0, <1>1, <1>3
<1>4. CASE call[c] # NoCall /\ call[d] # NoCall
  <2>1. /\ call'[c].for = call[c].for /\ call'[c].op = call[c].op
        /\ call'[d].for = call[d].for /\ call'[d].op = call[d].op
    BY <1>0, <1>4, CallStep
  <2> QED BY <1>01, <2>1
<1> QED BY <1>2, <1>3, <1>4

LEMMA CleansAlone ==
  ASSUME TypeOK, CallInv, Tracked, Next \/ UNCHANGED vars,
         NEW c \in Tasks, NEW d \in Tasks,
         call'[c].op = "close", call'[d].op = "close", call'[c].for = call'[d].for
  PROVE  c = d
<1> SUFFICES ASSUME c # d PROVE FALSE
  OBVIOUS
<1> USE DEF CallInv
<1>0. call'[c] # NoCall /\ call'[d] # NoCall
  BY DEF NoCall
<1>01. /\ \A x \in Tasks : call[x].op = "close" => prep[call[x].for].cleaning
       /\ \A x, y \in Tasks :
            call[x].op = "close" /\ call[y].op = "close" /\ call[x].for = call[y].for
              => x = y
  BY DEF Tracked
<1>1. ASSUME NEW x \in Tasks, NEW y \in Tasks, x # y, call[x] = NoCall, call'[x] # NoCall,
             call'[x].op = "close", call'[y].op = "close", call'[x].for = call'[y].for
      PROVE  FALSE
  <2>1. PICK a \in Attempts, op \in Ops :
          /\ Begin(x, a, op) /\ Admits(a, op) /\ call'[x].for = a /\ call'[x].op = op
    BY <1>1, CallStep
  <2>2. ~prep[a].cleaning
    BY <1>1, <2>1 DEF Admits, MayClean, Staging, Opening, Filling
  <2>3. call'[y] = call[y]
    BY <1>1, <2>1, OneBegins
  <2> QED BY <1>01, <1>1, <2>1, <2>2, <2>3
<1>2. CASE call[c] = NoCall
  BY <1>0, <1>1, <1>2
<1>3. CASE call[d] = NoCall
  BY <1>0, <1>1, <1>3
<1>4. CASE call[c] # NoCall /\ call[d] # NoCall
  <2>1. /\ call'[c].for = call[c].for /\ call'[c].op = call[c].op
        /\ call'[d].for = call[d].for /\ call'[d].op = call[d].op
    BY <1>0, <1>4, CallStep
  <2> QED BY <1>01, <2>1
<1> QED BY <1>2, <1>3, <1>4

LEMMA TrackedStep ==
  ASSUME TypeOK, CallInv, Tracked, Next \/ UNCHANGED vars
  PROVE  Tracked'
<1> USE DEF CallInv
<1>1. ASSUME NEW c \in Tasks, call'[c].op \in Staging PROVE prep'[call'[c].for].stage
  <2>0. call'[c] # NoCall
    BY <1>1 DEF NoCall, Staging, Opening, Filling
  <2>1. CASE call[c] # NoCall
    <3>1. call'[c].for = call[c].for /\ call'[c].op = call[c].op
      BY <2>0, <2>1, CallStep
    <3>2. PICK b \in Attempts : b = call[c].for
      BY <2>1, CallIs DEF Underway
    <3>3. prep[b].stage
      BY <1>1, <3>1, <3>2 DEF Tracked
    <3>4. ASSUME NEW d \in Tasks, NEW res \in Results, call[d] # NoCall, call[d].for = b,
                 End(d, res), call[d].op \in Staging
          PROVE  FALSE
      <4>1. d = c
        BY <1>1, <3>1, <3>2, <3>4 DEF Tracked
      <4> QED BY <2>0, <3>4, <4>1, EndDoes
    <3>5. prep'[b].stage
      BY <3>3, <3>4, TrackerStep
    <3> QED BY <3>1, <3>2, <3>5
  <2>2. CASE call[c] = NoCall
    <3>1. PICK a \in Attempts, op \in Ops :
            call'[c].for = a /\ call'[c].op = op /\ prep'[a] = Begun(a, op)
      BY <2>0, <2>2, CallStep
    <3>2. prep[a] \in Trackers
      BY DEF TypeOK, AuthorityTypeOK
    <3> QED BY <1>1, <3>1, <3>2, BegunIs
  <2> QED BY <2>1, <2>2
<1>2. ASSUME NEW c \in Tasks, call'[c].op = "close" PROVE prep'[call'[c].for].cleaning
  <2>0. call'[c] # NoCall
    BY <1>2 DEF NoCall
  <2>1. CASE call[c] # NoCall
    <3>1. call'[c].for = call[c].for /\ call'[c].op = call[c].op
      BY <2>0, <2>1, CallStep
    <3>2. PICK b \in Attempts : b = call[c].for
      BY <2>1, CallIs DEF Underway
    <3>3. prep[b].cleaning
      BY <1>2, <3>1, <3>2 DEF Tracked
    <3>4. ASSUME NEW d \in Tasks, NEW res \in Results, call[d] # NoCall, call[d].for = b,
                 End(d, res), call[d].op = "close"
          PROVE  FALSE
      <4>1. d = c
        BY <1>2, <3>1, <3>2, <3>4 DEF Tracked
      <4> QED BY <2>0, <3>4, <4>1, EndDoes
    <3>5. prep'[b].cleaning
      BY <3>3, <3>4, TrackerStep
    <3> QED BY <3>1, <3>2, <3>5
  <2>2. CASE call[c] = NoCall
    <3>1. PICK a \in Attempts, op \in Ops :
            call'[c].for = a /\ call'[c].op = op /\ prep'[a] = Begun(a, op)
      BY <2>0, <2>2, CallStep
    <3>2. prep[a] \in Trackers
      BY DEF TypeOK, AuthorityTypeOK
    <3> QED BY <1>2, <3>1, <3>2, BegunIs
  <2> QED BY <2>1, <2>2
<1>3. ASSUME NEW b \in Attempts, prep'[b].effect PROVE call'[b].op = "submit"
  <2>0. b \in Tasks
    BY NamesDiffer
  <2>1. CASE prep[b].effect
    <3>1. call[b].op = "submit" /\ call[b] # NoCall
      BY <2>1 DEF Tracked, NoCall
    <3>2. call'[b] # NoCall
      <4> SUFFICES ASSUME call'[b] = NoCall PROVE FALSE
        OBVIOUS
      <4>1. call[b].for = b
        BY <3>1 DEF OwnCalls
      <4>2. PICK res \in Results : prep'[b] = Finished(call[b], res)
        BY <2>0, <3>1, <4>1, EndedCall
      <4>3. PICK k \in Underway : k = call[b]
        BY <2>0, <3>1, CallIs
      <4>4. k.for = b /\ k.op = "submit" /\ prep'[b] = Finished(k, res)
        BY <3>1, <4>1, <4>2, <4>3
      <4>5. prep[k.for] \in Trackers
        BY <4>4 DEF TypeOK, AuthorityTypeOK
      <4>6. Finished(k, res).effect = (prep[k.for].effect /\ k.op # "submit")
        BY <4>5, FinishedIs
      <4> QED BY <1>3, <4>4, <4>6
    <3> QED BY <2>0, <3>1, <3>2, CallStep
  <2>2. CASE ~prep[b].effect
    BY <1>3, <2>2, TrackerStep
  <2> QED BY <2>1, <2>2
<1>4. ASSUME NEW b \in Attempts, prep'[b].cleaning
      PROVE  \E c \in Tasks : call'[c].op = "close" /\ call'[c].for = b
  <2>1. CASE prep[b].cleaning
    <3>1. PICK c \in Tasks : call[c].op = "close" /\ call[c].for = b
      BY <2>1 DEF Tracked
    <3>2. call[c] # NoCall
      BY <3>1 DEF NoCall
    <3>3. call'[c] # NoCall
      <4> SUFFICES ASSUME call'[c] = NoCall PROVE FALSE
        OBVIOUS
      <4>2. PICK res \in Results : prep'[b] = Finished(call[c], res)
        BY <3>1, <3>2, EndedCall
      <4>3. PICK k \in Underway : k = call[c]
        BY <3>2, CallIs
      <4>4. k.for = b /\ k.op = "close" /\ prep'[b] = Finished(k, res)
        BY <3>1, <4>2, <4>3
      <4>5. prep[k.for] \in Trackers
        BY <4>4 DEF TypeOK, AuthorityTypeOK
      <4>6. Finished(k, res).cleaning = (prep[k.for].cleaning /\ k.op # "close")
        BY <4>5, FinishedIs
      <4> QED BY <1>4, <4>4, <4>6
    <3>4. call'[c].for = call[c].for /\ call'[c].op = call[c].op
      BY <3>2, <3>3, CallStep
    <3>5. call'[c].op = "close" /\ call'[c].for = b
      BY <3>1, <3>4
    <3> QED BY <3>5
  <2>2. CASE ~prep[b].cleaning
    <3>1. \/ prep'[b].cleaning = prep[b].cleaning
          \/ \E c \in Tasks :
               prep'[b].cleaning = (prep[b].cleaning /\ call[c].op # "close")
          \/ \E c \in Tasks, op \in Ops :
               /\ call'[c].for = b /\ call'[c].op = op
               /\ prep'[b].cleaning = (prep[b].cleaning \/ op = "close")
      BY TrackerStep
    <3> QED BY <1>4, <2>2, <3>1
  <2> QED BY <2>1, <2>2
<1> QED BY <1>1, <1>2, <1>3, <1>4, StagesAlone, CleansAlone DEF Tracked

LEMMA CreditedStep ==
  ASSUME TypeOK, CallInv, Tracked, Credited, Next \/ UNCHANGED vars
  PROVE  Credited'
<1> USE DEF CallInv
<1>1. ASSUME NEW b \in Content, prep'[b].cleaning PROVE ~prep'[b].opened /\ ~prep'[b].filled
  <2>1. b \in Attempts
    BY DEF Content
  <2>2. prep[b].cleaning => ~prep[b].opened /\ ~prep[b].filled
    BY DEF Credited
  <2> QED BY <1>1, <2>1, <2>2, TrackerStep
<1>2. ASSUME NEW b \in Content, ActionOf[b] = "post"
      PROVE  prep'[b].opened = prep'[b].filled
  <2>1. b \in Attempts /\ prep[b].opened = prep[b].filled
    BY <1>2 DEF Content, Credited
  <2>2. StagingOf(b) = {"fill_composer", "attach"}
    BY <1>2 DEF StagingOf
  <2>3. ASSUME NEW c \in Tasks, call[c] # NoCall, call[c].for = b
        PROVE  \/ call[c].op \in Opening \cap Filling /\ ~prep[b].opened
               \/ call[c].op \notin Opening \cup Filling
    <3>1. CASE call[c].op \in Staging
      <4>1. call[c].op \in {"fill_composer", "attach"}
        BY <2>2, <2>3, <3>1, CallerIs
      <4>2. call[c].op \in Opening => ~prep[b].opened
        BY <2>3 DEF Credited
      <4> QED BY <4>1, <4>2 DEF Opening, Filling
    <3>2. CASE call[c].op \notin Staging
      BY <3>2 DEF Staging
    <3> QED BY <3>1, <3>2
  <2> QED BY <2>1, <2>3, TrackerStep
<1>3. ASSUME NEW c \in Tasks, call'[c].op \in Opening PROVE ~prep'[call'[c].for].opened
  <2>0. call'[c] # NoCall /\ call'[c].op \in Staging
    BY <1>3 DEF NoCall, Staging, Opening
  <2>1. CASE call[c] # NoCall
    <3>1. call'[c].for = call[c].for /\ call'[c].op = call[c].op
      BY <2>0, <2>1, CallStep
    <3>2. PICK b \in Attempts : b = call[c].for
      BY <2>1, CallIs DEF Underway
    <3>3. ~prep[b].opened
      BY <1>3, <3>1, <3>2 DEF Credited
    <3>4. ASSUME NEW d \in Tasks, NEW res \in Results, call[d] # NoCall, call[d].for = b,
                 End(d, res), call[d].op \in Opening
          PROVE  FALSE
      <4>1. d = c
        BY <2>0, <3>1, <3>2, <3>4 DEF Tracked, Staging
      <4> QED BY <2>0, <3>4, <4>1, EndDoes
    <3>5. ~prep'[b].opened
      BY <3>3, <3>4, TrackerStep
    <3> QED BY <3>1, <3>2, <3>5
  <2>2. CASE call[c] = NoCall
    <3>1. PICK a \in Attempts, op \in Ops :
            /\ call'[c].for = a /\ call'[c].op = op /\ prep'[a] = Begun(a, op)
            /\ Admits(a, op)
            /\ op \in Staging => a \in Content /\ op \in StagingOf(a)
      BY <2>0, <2>2, CallStep
    <3>2. prep[a] \in Trackers /\ op \in Opening /\ op \in Staging
      <4>1. op \in Opening /\ op \in Staging
        BY <1>3, <2>0, <3>1
      <4> QED BY <4>1 DEF TypeOK, AuthorityTypeOK
    <3>3. a \in Content /\ op \in StagingOf(a)
      BY <3>1, <3>2
    <3>5. MayBeginStage(a, op)
      BY <3>1, <3>2, AdmitsStage
    <3>6. InOrder(a, op)
      BY <3>5 DEF MayBeginStage
    <3>4. ~prep[a].opened
      <4>1. CASE op = "fill_composer"
        <5>1. ActionOf[a] = "post"
          BY <3>3, <4>1, KindsOfActions DEF StagingOf, Content
        <5>2. ~prep[a].filled
          BY <3>6, <4>1 DEF InOrder, PostFillOrder, Opening, Filling
        <5>3. prep[a].opened = prep[a].filled
          BY <3>3, <5>1 DEF Credited
        <5> QED BY <5>2, <5>3
      <4>2. CASE op \in {"open_reply", "open_quote"}
        <5>1. OpenOrder(a)
          BY <3>6, <4>2 DEF InOrder, Opening, Filling
        <5> QED BY <5>1 DEF OpenOrder
      <4> QED BY <3>2, <4>1, <4>2 DEF Opening
    <3> QED BY <3>1, <3>2, <3>4, BegunIs
  <2> QED BY <2>1, <2>2
<1> QED BY <1>1, <1>2, <1>3 DEF Credited

--------------------------------------------------------------------------------
(* The lease of the browser.                                               *)

\* The steps that take the lease, bind a composer or let go of it.
Takes(c) ==
  /\ call[c].at = "waits" /\ call[c].op \in Opening /\ ~owner /\ lock = NoOne
  /\ Goes(c, "works") /\ lock' = c
  /\ owner' /\ UNCHANGED <<context, spoiled>>

Binds(c) ==
  /\ call[c].at = "works" /\ call[c].op \in Opening
  /\ \E res \in Results :
       /\ End(c, res)
       /\ \/ res # "ok" /\ Release
          \/ context' = call[c].for /\ UNCHANGED <<owner, spoiled>>

Cleans(c) ==
  /\ call[c].at = "works" /\ call[c].op = "close"
  /\ \E res \in Results :
       /\ End(c, res)
       /\ \/ Release
          \/ spoiled' /\ UNCHANGED owner /\ context' \in {context, NoOne}

Submits(c) ==
  /\ call[c].at = "clicks" /\ call[c].for \in Content
  /\ \E res \in Results : End(c, res)
  /\ Release \/ (spoiled' /\ UNCHANGED <<owner, context>>)

GivesUp(c) ==
  /\ call[c].at = "waits" /\ End(c, "raised") /\ UNCHANGED <<owner, context>>
  /\ spoiled' = (spoiled \/ (call[c].op = "close" /\ owner))

LEMMA LeaseStep ==
  ASSUME TypeOK, CallInv, Next \/ UNCHANGED vars
  PROVE  \/ UNCHANGED <<owner, context, spoiled>>
         \/ \E c \in Tasks : /\ call[c] # NoCall
                             /\ Takes(c) \/ Binds(c) \/ Cleans(c) \/ Submits(c) \/ GivesUp(c)
<1> USE DEF atExecutor, atSite, atLease
<1>1. ASSUME NEW c \in Tasks, TaskStep(c) \/ Cancelled(c)
      PROVE  \/ UNCHANGED <<owner, context, spoiled>>
             \/ Takes(c) \/ Binds(c) \/ Cleans(c) \/ Submits(c) \/ GivesUp(c)
  <2>1. CASE Cancelled(c)
    BY <2>1 DEF Cancelled, GivesUp
  <2>2. CASE Enter(c)
    <3>1. CASE End(c, "failed") /\ UNCHANGED owner
      BY <2>2, <3>1 DEF Enter
    <3>2. CASE /\ Entitled(call[c].op) /\ Guarded(call[c].op) /\ lock' = c /\ Goes(c, "works")
               /\ owner' = (owner \/ call[c].op \in Opening)
      <4>1. UNCHANGED <<context, spoiled>> /\ call[c].at = "waits" /\ lock = NoOne
        BY <2>2 DEF Enter
      <4>2. CASE call[c].op \in Opening
        <5>1. ~owner
          BY <3>2, <4>2 DEF Entitled, Opening, Filling, Owned, OneShots
        <5> QED BY <3>2, <4>1, <4>2, <5>1 DEF Takes
      <4>3. CASE call[c].op \notin Opening
        <5>1. owner' = owner
          BY <3>2, <4>3 DEF TypeOK, BrokerTypeOK
        <5> QED BY <4>1, <5>1
      <4> QED BY <4>2, <4>3
    <3> QED BY <2>2, <3>1, <3>2 DEF Enter
  <2>3. CASE Work(c)
    <3>0. call[c].at = "works" /\ call[c].op \in Staging \cup {"close"}
      BY <2>3 DEF Work
    <3>1. CASE call[c].op = "close"
      <4>1. PICK res \in Results : CloseContext(res) /\ End(c, res)
        BY <2>3, <3>1 DEF Work, Staging, Opening, Filling
      <4> QED BY <3>0, <3>1, <4>1 DEF CloseContext, Cleans
    <3>2. CASE call[c].op \in Opening
      <4>1. PICK res \in Results :
              /\ OpenAndFill(call[c].for, res) \/ OpenContext(call[c].for, res)
              /\ End(c, res)
        BY <2>3, <3>2 DEF Work, Opening, Filling
      <4>2. \/ res # "ok" /\ Release
            \/ context' = call[c].for /\ UNCHANGED <<owner, spoiled>>
        BY <4>1 DEF OpenAndFill, OpenContext
      <4> QED BY <3>0, <3>2, <4>1, <4>2 DEF Binds
    <3>3. CASE call[c].op \in Staging \ Opening
      <4>1. PICK res \in Results :
              FillContext(call[c].for, res) \/ AttachToContext(res)
        BY <2>3, <3>3 DEF Work, Opening, Filling, Staging
      <4> QED BY <4>1 DEF FillContext, AttachToContext
    <3> QED BY <3>0, <3>1, <3>2, <3>3 DEF Staging
  <2>4. CASE Prove(c) \/ Gate(c)
    BY <2>4 DEF Prove, Gate
  <2>5. CASE Click(c)
    <3>0. call[c].for \in Attempts /\ call[c].at = "clicks"
      <4>1. call[c].at = "clicks"
        BY <2>5 DEF Click
      <4> QED BY <4>1, CallIs DEF Underway
    <3>1. PICK res \in Results :
            /\ End(c, res)
            /\ \/ call[c].for \in Content /\ ClickSubmit(call[c].for, res)
               \/ ClickControl(call[c].for, res) \/ ConfirmDeletion(call[c].for, res)
      BY <2>5, <3>0, KindsOfActions DEF Click
    <3>2. CASE call[c].for \in Content /\ ClickSubmit(call[c].for, res)
      BY <3>0, <3>1, <3>2 DEF Submits, ClickSubmit
    <3>3. CASE ClickControl(call[c].for, res) \/ ConfirmDeletion(call[c].for, res)
      BY <3>3 DEF ClickControl, ConfirmDeletion
    <3> QED BY <3>1, <3>2, <3>3
  <2> QED BY <1>1, <2>1, <2>2, <2>3, <2>4, <2>5 DEF TaskStep
<1>2. ASSUME NEW a \in Attempts, Issue(a) \/ ExecutorStep(a) \/ Revoke(a)
      PROVE  UNCHANGED <<owner, context, spoiled>>
  BY <1>2, ExecutorDoes DEF CallInv
<1>3. StrayCall => UNCHANGED <<owner, context, spoiled>>
  BY StrayDoes DEF brokerVars
<1> QED BY <1>1, <1>2, <1>3, Steps, WorldDoes, TaskDoes

\* A step of a task is of one task; the others wait, or do not hold the lock.
LEMMA Elsewhere ==
  ASSUME TypeOK, CallInv, NEW c \in Tasks, call[c] # NoCall,
         Takes(c) \/ Binds(c) \/ Cleans(c) \/ Submits(c) \/ GivesUp(c),
         NEW d \in Tasks, d # c
  PROVE  /\ call'[d] = call[d]
         /\ Takes(c) \/ Binds(c) \/ Cleans(c) \/ Submits(c) =>
              call[d].at \notin {"works", "gate", "clicks"}
<1>1. CASE Takes(c)
  <2>1. call'[d] = call[d] /\ lock = NoOne
    BY <1>1, GoesDoes DEF Takes
  <2> QED BY <2>1, NamesDiffer DEF CallInv, LockHeld
<1>2. CASE \E res \in Results : End(c, res)
  <2>1. call'[d] = call[d]
    BY <1>2, EndDoes
  <2>2. Takes(c) \/ Binds(c) \/ Cleans(c) \/ Submits(c) => lock = c \/ lock = NoOne
    BY DEF Takes, Binds, Cleans, Submits, CallInv, LockHeld
  <2> QED BY <2>1, <2>2, NamesDiffer DEF CallInv, LockHeld
<1> QED BY <1>1, <1>2 DEF Binds, Cleans, Submits, GivesUp, Results

\* A composer that is newly credited was opened by the call that just ended.
LEMMA NewlyOpened ==
  ASSUME TypeOK, CallInv, Next \/ UNCHANGED vars, NEW b \in Attempts,
         prep'[b].opened, ~prep[b].opened
  PROVE  \E c \in Tasks :
           /\ call[c] # NoCall /\ call[c].for = b /\ call[c].op \in Opening
           /\ call[c].at = "works" /\ Work(c) /\ End(c, "ok")
           /\ context' = b /\ UNCHANGED owner
<1>1. PICK c \in Tasks :
        /\ call[c] # NoCall /\ call[c].for = b /\ call[c].op \in Opening
        /\ TaskStep(c) \/ Cancelled(c)
  BY TrackerStep
<1>2. ASSUME NEW res \in Results, End(c, res) PROVE res = "ok"
  <2>1. PICK k \in Underway : k = call[c]
    BY <1>1, CallIs
  <2>2. prep'[b] = Finished(k, res) /\ k.for = b /\ prep[k.for] \in Trackers
    BY <1>1, <1>2, <2>1, EndDoes DEF TypeOK, AuthorityTypeOK
  <2>3. Finished(k, res).opened => prep[k.for].opened \/ res = "ok"
    BY <2>2, FinishedIs
  <2> QED BY <2>2, <2>3
<1>3. ~End(c, "raised") /\ ~End(c, "failed")
  BY <1>2 DEF Results
<1>4. ~\E at \in {"works", "gate", "clicks"} : Goes(c, at)
  BY <1>1, GoesDoes
<1>5. call[c].op \notin {"submit", "apply", "close"} /\ call[c].op \in Staging
  BY <1>1 DEF Opening, Staging
<1>6. Work(c)
  <2>1. ~Enter(c) /\ ~Cancelled(c)
    BY <1>3, <1>4 DEF Enter, Cancelled
  <2>2. ~Prove(c) /\ ~Gate(c) /\ ~Click(c)
    BY <1>5 DEF Prove, Gate, Click, CallInv, LockHeld
  <2> QED BY <1>1, <2>1, <2>2 DEF TaskStep
<1>7. PICK res \in Results :
        /\ OpenAndFill(b, res) \/ OpenContext(b, res)
        /\ End(c, res)
  BY <1>1, <1>6 DEF Work, Opening, Filling
<1>8. res = "ok"
  BY <1>2, <1>7
<1>9. context' = b /\ UNCHANGED owner
  BY <1>7, <1>8 DEF OpenAndFill, OpenContext
<1> QED BY <1>1, <1>6, <1>7, <1>8, <1>9 DEF Work

\* What is over stays over.
LEMMA OverStays ==
  ASSUME TypeOK, CallInv, Next \/ UNCHANGED vars, NEW b \in Attempts, phase[b] = "over"
  PROVE  phase'[b] = "over" /\ UNCHANGED <<standing[b], told[b]>>
<1>1. ASSUME NEW a \in Attempts, Issue(a) \/ ExecutorStep(a) \/ Revoke(a)
      PROVE  phase'[b] = "over" /\ UNCHANGED <<standing[b], told[b]>>
  <2>1. CASE a # b
    BY <1>1, <2>1, ExecutorDoes DEF Same, CallInv
  <2>2. CASE a = b
    BY <1>1, <2>2 DEF ExecutorStep, Issue, Inspect, Evidence, Scope, Start, Advance,
       AfterCrossing, Abort, Settle, Record, Revoke, atEase, atExecutor, authorityVars
  <2> QED BY <2>1, <2>2
<1>2. ASSUME NEW c \in Tasks, TaskStep(c) \/ Cancelled(c)
      PROVE  phase'[b] = "over" /\ UNCHANGED <<standing[b], told[b]>>
  BY <1>2, TaskDoes
<1> QED BY <1>1, <1>2, Steps, StrayDoes, WorldDoes

\* How a call in flight goes on.
LEMMA Moves ==
  ASSUME TypeOK, CallInv, Next \/ UNCHANGED vars,
         NEW c \in Tasks, call[c] # NoCall, call'[c] # NoCall
  PROVE  \/ call'[c] = call[c]
         \/ /\ Enter(c) /\ call[c].at = "waits" /\ call'[c].at = "works"
            /\ Entitled(call[c].op) /\ Guarded(call[c].op)
            /\ owner' = (owner \/ call[c].op \in Opening)
         \/ /\ Prove(c) /\ call[c].at = "works" /\ call'[c].at = "gate"
            /\ call[c].for \in Content =>
                 EffectReady(call[c].for) /\ Matches(call[c].for)
         \/ Gate(c) /\ call[c].at = "gate" /\ call'[c].at = "clicks"
<1> DEFINE Goal ==
         \/ call'[c] = call[c]
         \/ /\ Enter(c) /\ call[c].at = "waits" /\ call'[c].at = "works"
            /\ Entitled(call[c].op) /\ Guarded(call[c].op)
            /\ owner' = (owner \/ call[c].op \in Opening)
         \/ /\ Prove(c) /\ call[c].at = "works" /\ call'[c].at = "gate"
            /\ call[c].for \in Content =>
                 EffectReady(call[c].for) /\ Matches(call[c].for)
         \/ Gate(c) /\ call[c].at = "gate" /\ call'[c].at = "clicks"
<1>1. ASSUME NEW d \in Tasks, TaskStep(d) \/ Cancelled(d) PROVE Goal
  <2>1. CASE d # c
    BY <1>1, <2>1, TaskDoes
  <2>2. CASE d = c
    <3>0. ~\E res \in Results : End(c, res)
      BY EndDoes
    <3>1. Enter(c) \/ Prove(c) \/ Gate(c)
      BY <1>1, <2>2, <3>0 DEF TaskStep, Work, Click, Cancelled, Results
    <3>2. CASE Enter(c)
      <4>1. Entitled(call[c].op) /\ Guarded(call[c].op) /\ Goes(c, "works")
            /\ call[c].at = "waits" /\ owner' = (owner \/ call[c].op \in Opening)
        BY <3>0, <3>2 DEF Enter, Results
      <4> QED BY <3>2, <4>1, GoesDoes
    <3>3. CASE Prove(c)
      <4>1. /\ call[c].at = "works" /\ Goes(c, "gate")
            /\ call[c].for \in Content =>
                 EffectReady(call[c].for) /\ Matches(call[c].for)
        BY <3>0, <3>3 DEF Prove, Results
      <4> QED BY <3>3, <4>1, GoesDoes
    <3>4. CASE Gate(c)
      <4>1. call[c].at = "gate" /\ Goes(c, "clicks")
        BY <3>0, <3>4 DEF Gate, Results
      <4> QED BY <3>4, <4>1, GoesDoes
    <3> QED BY <3>1, <3>2, <3>3, <3>4
  <2> QED BY <2>1, <2>2
<1>2. ASSUME NEW a \in Attempts, Issue(a) \/ ExecutorStep(a) \/ Revoke(a)
      PROVE  call'[c] = call[c]
  <2>1. CASE a # c
    BY <1>2, <2>1, ExecutorDoes DEF CallInv
  <2>2. CASE a = c
    <3>1. ~Evidence(c)
      BY <1>2, <2>2, EvidenceDoes
    <3>2. ~Start(c) /\ ~Abort(c)
      BY <2>2 DEF Start, Abort, CallInv, OwnCalls
    <3>3. call' = call
      BY <1>2, <2>2, <3>1, <3>2
      DEF ExecutorStep, Issue, Inspect, Scope, Advance, AfterCrossing, Settle, Record,
          Revoke, Rests, atEase
    <3> QED BY <3>3
  <2> QED BY <2>1, <2>2
<1>3. StrayCall => call'[c] = call[c]
  <2> SUFFICES ASSUME StrayCall PROVE call'[c] = call[c]
    OBVIOUS
  <2>1. PICK a \in load.attempts \cap Content, op \in Ops : Begin(Stray, a, op)
    BY StrayDoes
  <2>2. c # Stray
    BY StrayDoes
  <2> QED BY <2>1, <2>2, BeginDoes, NamesDiffer DEF Content
<1>4. TripKill \/ Site \/ UNCHANGED vars => call'[c] = call[c]
  BY WorldDoes
<1> QED BY <1>1, <1>2, <1>3, <1>4, Steps

\* An opening that waits goes on waiting while the lease is taken.
LEMMA WaitsOn ==
  ASSUME TypeOK, CallInv, Next \/ UNCHANGED vars, UNCHANGED owner, owner,
         NEW c \in Tasks, call[c].at = "waits", call[c].op \in Opening, call'[c] # NoCall
  PROVE  call'[c].at = "waits"
<1>1. call[c] # NoCall
  BY DEF NoCall
<1>2. ~Entitled(call[c].op)
  BY DEF Entitled, Opening, Filling, Owned, OneShots
<1> QED BY <1>1, <1>2, Moves

LEMMA NoRivalStep ==
  ASSUME TypeOK, CallInv, BrowserInv, Next \/ UNCHANGED vars
  PROVE  NoRival'
<1> USE DEF CallInv, BrowserInv
<1> SUFFICES ASSUME NEW b \in Content, b \in Running', prep'[b].opened, ~Crossed(b)'
             PROVE  /\ context' \in {b, NoOne}
                    /\ \A c \in Tasks : call'[c].op \in Opening /\ call'[c].for # b =>
                         call'[c].at = "waits" /\ owner'
  BY DEF NoRival
<1>1. b \in Attempts /\ ~Crossed(b)
  BY CrossedStays DEF Content
<1>2. CASE prep[b].opened
  <2>1. b \in Running
    <3> SUFFICES ASSUME b \notin Running PROVE FALSE
      OBVIOUS
    <3>1. phase[b] = "idle" \/ phase[b] = "over"
      BY <1>1 DEF Running
    <3>2. phase[b] # "idle"
      BY <1>1, <1>2 DEF Phases, Fresh
    <3>3. phase'[b] = phase[b]
      BY <1>1, <3>1, <3>2, OverStays
    <3> QED BY <3>1, <3>2, <3>3 DEF Running
  <2>2. /\ context \in {b, NoOne}
        /\ \A c \in Tasks : call[c].op \in Opening /\ call[c].for # b =>
             call[c].at = "waits" /\ owner
    BY <1>1, <1>2, <2>1 DEF NoRival
  <2>3. ASSUME NEW c \in Tasks, call'[c].op \in Opening, call'[c].for # b
        PROVE  call[c] # NoCall /\ call[c].op \in Opening /\ call[c].for # b
    <3>1. call'[c] # NoCall
      BY <2>3 DEF NoCall, Opening
    <3>2. CASE call[c] # NoCall
      BY <2>3, <3>1, <3>2, CallStep
    <3>3. CASE call[c] = NoCall
      <4>1. PICK a \in Attempts, op \in Ops :
              /\ Admits(a, op) /\ call'[c].for = a /\ call'[c].op = op
              /\ op \in Staging => a \in Content /\ op \in StagingOf(a)
              /\ \/ c = a /\ (Start(a) \/ Abort(a))
                 \/ c = Stray /\ StrayCall /\ a \in Content /\ standing[a] # "new"
        BY <3>1, <3>3, CallStep
      <4>2. op \in Staging /\ a # b
        BY <2>3, <4>1 DEF Staging
      <4>3. CASE c = a /\ (Start(a) \/ Abort(a))
        <5>1. a \in Running
          BY <4>3 DEF Start, Abort, Running
        <5> QED BY <2>1, <4>2, <5>1 DEF InTurn
      <4>4. CASE a \in Content /\ standing[a] # "new"
        <5>1. MayBeginStage(a, op)
          BY <4>1, <4>2, AdmitsStage
        <5>2. standing[a] = "preparing" /\ ~prep[a].sealed
          BY <5>1 DEF MayBeginStage, Live
        <5>3. a \notin Running
          BY <2>1, <4>2 DEF InTurn
        <5>4. phase[a] = "over"
          BY <4>4, <5>3 DEF Phases, Running
        <5> QED BY <4>4, <5>2, <5>4 DEF SealedFirst
      <4> QED BY <4>1, <4>3, <4>4
    <3> QED BY <3>2, <3>3
  <2>4. CASE UNCHANGED <<owner, context>>
    <3>1. ASSUME NEW c \in Tasks, call'[c].op \in Opening, call'[c].for # b
          PROVE  call'[c].at = "waits" /\ owner'
      <4>1. call[c].at = "waits" /\ owner /\ call[c] # NoCall
        BY <2>2, <2>3, <3>1
      <4>2. call'[c] # NoCall /\ call[c].op \in Opening
        <5>1. call[c].op \in Opening
          BY <2>3, <3>1
        <5> QED BY <3>1, <5>1 DEF NoCall, Opening
      <4>3. call'[c].at = "waits"
        BY <2>4, <4>1, <4>2, WaitsOn
      <4> QED BY <2>4, <4>1, <4>3
    <3> QED BY <2>2, <2>4, <3>1
  <2>5. ASSUME NEW c \in Tasks, call[c] # NoCall,
               Takes(c) \/ Binds(c) \/ Cleans(c) \/ Submits(c) \/ GivesUp(c)
        PROVE  /\ context' \in {b, NoOne}
               /\ \A d \in Tasks : call'[d].op \in Opening /\ call'[d].for # b =>
                    call'[d].at = "waits" /\ owner'
    <3>1. CASE GivesUp(c)
      BY <2>4, <3>1 DEF GivesUp
    <3>2. CASE Takes(c)
      <4>1. call[c].for = b
        BY <2>2, <3>2 DEF Takes
      <4>2. ASSUME NEW d \in Tasks, call'[d].op \in Opening, call'[d].for # b
            PROVE  call'[d].at = "waits" /\ owner'
        <5>1. call[d].for # b /\ call[d].op \in Opening
          BY <2>3, <4>2
        <5>2. ~owner
          BY <3>2 DEF Takes
        <5> QED BY <2>2, <5>1, <5>2
      <4> QED BY <2>2, <3>2, <4>2 DEF Takes
    <3>3. CASE Binds(c)
      <4>1. call[c].for = b /\ call[c].op \in Opening
        BY <2>2, <3>3 DEF Binds
      <4> QED BY <1>2, <4>1 DEF Credited
    <3>4. CASE Cleans(c)
      <4>1. call[c].for # b
        <5>1. call[c].for = b => prep[b].cleaning
          BY <3>4 DEF Cleans, Tracked
        <5> QED BY <1>2, <5>1 DEF Credited
      <4>2. c = Stray
        <5>1. c \in Attempts => c \in Running /\ call[c].for = c
          BY <2>5, CallerIs
        <5> QED BY <2>1, <4>1, <5>1, NamesDiffer DEF InTurn
      <4>3. ASSUME NEW d \in Tasks, call'[d].op \in Opening, call'[d].for # b PROVE FALSE
        <5>1. call[d] # NoCall /\ call[d].op \in Opening /\ call[d].for # b
          BY <2>3, <4>3
        <5>2. d # Stray
          BY <3>4, <4>2, <5>1 DEF Cleans, Opening
        <5>3. d \in Running /\ call[d].for = d
          BY <5>1, <5>2, CallerIs, NamesDiffer
        <5> QED BY <2>1, <5>1, <5>3 DEF InTurn
      <4> QED BY <2>2, <3>4, <4>3 DEF Cleans, Release
    <3>5. CASE Submits(c)
      <4>1. call[c].op = "submit" /\ c \in Running /\ call[c].for = c
        <5>1. call[c].op \in {"submit", "apply"}
          BY <3>5 DEF Submits, LockHeld
        <5> QED BY <2>5, <3>5, <5>1, CallerIs DEF Submits
      <4>2. Crossed(c)
        BY <3>5, <4>1 DEF Submits, PermitOfCall
      <4> QED BY <1>1, <2>1, <4>1, <4>2 DEF InTurn
    <3> QED BY <2>5, <3>1, <3>2, <3>3, <3>4, <3>5
  <2> QED BY <2>4, <2>5, LeaseStep
<1>3. CASE ~prep[b].opened
  <2>1. PICK c \in Tasks :
           /\ call[c] # NoCall /\ call[c].for = b /\ call[c].op \in Opening
           /\ call[c].at = "works" /\ Work(c) /\ End(c, "ok")
           /\ context' = b /\ UNCHANGED owner
    BY <1>1, <1>3, NewlyOpened
  <2>2. owner
    BY <2>1 DEF AtWork
  <2>3. ASSUME NEW d \in Tasks, call'[d].op \in Opening PROVE call'[d].at = "waits"
    <3>1. d # c /\ call'[d] = call[d]
      <4>1. call'[c] = NoCall /\ \A x \in Tasks \ {c} : call'[x] = call[x]
        BY <2>1, EndDoes DEF Results
      <4> QED BY <2>3, <4>1 DEF NoCall, Opening
    <3>2. lock = c
      BY <2>1 DEF LockHeld
    <3>3. call[d].at \notin {"works", "gate", "clicks"} /\ call[d] # NoCall
      BY <2>3, <3>1, <3>2 DEF LockHeld, NoCall, Opening
    <3> QED BY <3>1, <3>3, CallIs DEF Underway
  <2> QED BY <2>1, <2>2, <2>3
<1> QED BY <1>2, <1>3

LEMMA AtWorkStep ==
  ASSUME TypeOK, CallInv, BrowserInv, Next \/ UNCHANGED vars
  PROVE  AtWork'
<1> USE DEF CallInv, BrowserInv
<1> SUFFICES ASSUME NEW c \in Tasks, call'[c].at \in {"works", "gate", "clicks"}
             PROVE  /\ call'[c].op \in Opening /\ call'[c].at = "works" => owner'
                    /\ call'[c].op = "submit" => context' # NoOne
                    /\ call'[c].at \in {"gate", "clicks"} /\ call'[c].for \in Content =>
                         context' = call'[c].for
  <2>1. ASSUME NEW c \in Tasks, call'[c].at \notin {"works", "gate", "clicks"},
               call'[c].op = "submit"
        PROVE  call'[c].at = "waits"
    BY <2>1, TypesStep DEF TypeOK, ExecutorTypeOK, Underway, NoCall
  <2> QED BY <2>1 DEF AtWork
<1>0. call'[c] # NoCall
  BY DEF NoCall
<1>1. /\ call[c] # NoCall /\ call'[c].for = call[c].for /\ call'[c].op = call[c].op
  BY <1>0, CallStep
<1>2. CASE UNCHANGED <<owner, context>>
  <2>1. CASE call'[c] = call[c]
    BY <1>2, <2>1 DEF AtWork
  <2>2. CASE /\ Entitled(call[c].op) /\ Guarded(call[c].op) /\ call'[c].at = "works"
             /\ owner' = (owner \/ call[c].op \in Opening)
    BY <1>1, <1>2, <2>2 DEF Guarded, Owned
  <2>3. CASE /\ Prove(c) /\ call[c].at = "works" /\ call'[c].at = "gate"
             /\ call[c].for \in Content =>
                  EffectReady(call[c].for) /\ Matches(call[c].for)
    <3>1. /\ call[c].op \in {"submit", "apply"} /\ c \in Running /\ call[c].for = c
          /\ c \in Attempts
          /\ c \in Content <=> call[c].op = "submit"
      BY <1>1, <2>3, CallerIs DEF Prove
    <3>2. call[c].op = "submit" => context # NoOne
      BY <2>3 DEF AtWork
    <3>3. ASSUME c \in Content PROVE context = c
      <4>1. prep[c].opened /\ ~Crossed(c)
        <5>1. ~Exhausted(c)
          BY <2>3, <3>1 DEF PermitOfCall
        <5> QED BY <2>3, <3>1, <3>3, <5>1 DEF EffectReady, Complete, Exhausted, Crossed
      <4> QED BY <3>1, <3>2, <3>3, <4>1 DEF NoRival
    <3> QED BY <1>1, <1>2, <2>3, <3>1, <3>2, <3>3 DEF Opening
  <2>4. CASE call[c].at = "gate" /\ call'[c].at = "clicks"
    BY <1>1, <1>2, <2>4 DEF AtWork
  <2> QED BY <1>0, <1>1, <2>1, <2>2, <2>3, <2>4, Moves
<1>3. ASSUME NEW d \in Tasks, call[d] # NoCall,
             Takes(d) \/ Binds(d) \/ Cleans(d) \/ Submits(d) \/ GivesUp(d),
             ~UNCHANGED <<owner, context>>
      PROVE  call'[c].op \in Opening /\ call'[c].at = "works" /\ owner'
  <2>1. d = c
    <3>1. d # c => call'[c] = call[c] /\ call[c].at \notin {"works", "gate", "clicks"}
      BY <1>3, Elsewhere DEF GivesUp
    <3> QED BY <3>1
  <2>2. ~\E res \in Results : End(c, res)
    BY <1>0, <1>1, EndDoes
  <2>3. Takes(c)
    BY <1>3, <2>1, <2>2 DEF Binds, Cleans, Submits, GivesUp, Results
  <2> QED BY <1>1, <2>3, GoesDoes DEF Takes
<1>4. CASE call'[c].op \in Opening /\ call'[c].at = "works" /\ owner'
  BY <1>4 DEF Opening
<1> QED BY <1>2, <1>3, <1>4, LeaseStep

LEMMA BrowserInvStep ==
  ASSUME TypeOK, CallInv, BrowserInv, Next \/ UNCHANGED vars
  PROVE  BrowserInv'
BY TrackedStep, CreditedStep, NoRivalStep, AtWorkStep DEF BrowserInv

LEMMA EffectsAreApprovedStep ==
  ASSUME TypeOK, CallInv, BrowserInv, EffectsAreApproved, Next \/ UNCHANGED vars
  PROVE  EffectsAreApproved'
<1> SUFFICES ASSUME NEW e \in effects'
             PROVE  IF e.by = NoOne THEN e.on = NoOne /\ e.text = "other"
                    ELSE /\ e.on = e.by /\ e.text = TextOf[e.by]
                         /\ e.media = MediaOf[e.by] /\ Crossed(e.by)'
  BY DEF EffectsAreApproved
<1>1. CASE e \in effects
  <2>1. e.by \in Attempts \cup {NoOne}
    BY <1>1 DEF TypeOK, BrokerTypeOK, Happened, Someone
  <2> QED BY <1>1, <2>1, CrossedStays DEF EffectsAreApproved
<1>2. CASE e \notin effects
  <2>1. ASSUME NEW c \in Tasks, Click(c)
        PROVE  /\ e.by \in Attempts /\ e.on = e.by /\ e.text = TextOf[e.by]
               /\ e.media = MediaOf[e.by] /\ Crossed(e.by)
    <3>1. call[c] # NoCall /\ call[c].at = "clicks" /\ call[c].for \in Attempts
      BY <2>1, CallIs DEF Click, NoCall, Underway
    <3>2. Crossed(call[c].for)
      BY <3>1 DEF CallInv, LockHeld, PermitOfCall
    <3>3. e = Effect(call[c].for) /\ (call[c].for \in Content => Matches(call[c].for))
      BY <1>2, <2>1, <3>1, KindsOfActions
      DEF Click, ClickSubmit, ClickControl, ConfirmDeletion
    <3>4. CASE call[c].for \in Content
      <4>1. context = call[c].for
        BY <3>1, <3>4 DEF BrowserInv, AtWork
      <4> QED BY <3>1, <3>2, <3>3, <3>4, <4>1 DEF Effect, Matches
    <3>5. CASE call[c].for \notin Content
      <4>1. MediaOf[call[c].for] = 0
        BY <3>1, <3>5, ExecutorAssumption
      <4> QED BY <3>1, <3>2, <3>3, <3>5, <4>1 DEF Effect
    <3> QED BY <3>4, <3>5
  <2>2. ASSUME PostElsewhere PROVE e.by = NoOne /\ e.on = NoOne /\ e.text = "other"
    BY <1>2, <2>2 DEF PostElsewhere
  <2>3. (\E c \in Tasks : Click(c)) \/ PostElsewhere
    <3>1. ASSUME NEW c \in Tasks, TaskStep(c) \/ Cancelled(c) PROVE Click(c)
      <4>1. Enter(c) \/ Prove(c) \/ Gate(c) \/ Cancelled(c) => effects' = effects
        BY DEF Enter, Prove, Gate, Cancelled, atSite
      <4>2. Work(c) => effects' = effects
        BY DEF Work, atSite
      <4> QED BY <1>2, <3>1, <4>1, <4>2 DEF TaskStep
    <3>2. ASSUME NEW a \in Attempts, Issue(a) \/ ExecutorStep(a) \/ Revoke(a) PROVE FALSE
      BY <1>2, <3>2, ExecutorDoes DEF CallInv
    <3>3. ~StrayCall
      BY <1>2, StrayDoes DEF brokerVars
    <3>4. ~TripKill /\ ~UNCHANGED vars
      BY <1>2 DEF TripKill, vars, brokerVars
    <3>5. Site => PostElsewhere
      BY <1>2 DEF Site, PageChanges, Browse, DoneByHand
    <3> QED BY <3>1, <3>2, <3>3, <3>4, <3>5, Steps
  <2>4. NoOne \notin Attempts
    BY ExecutorAssumption
  <2> QED BY <2>1, <2>2, <2>3, <2>4, CrossedStays
<1> QED BY <1>1, <1>2

--------------------------------------------------------------------------------
(* The lease of an undisturbed attempt.                                    *)

LEMMA LoadStays ==
  ASSUME TypeOK, CallInv, Next \/ UNCHANGED vars PROVE UNCHANGED load
  BY Steps, TaskDoes, ExecutorDoes, StrayDoes, WorldDoes DEF CallInv

\* Undisturbed, only the attempt itself calls the browser.
LEMMA HeldAlone ==
  ASSUME TypeOK, CallInv, CleanedUp, NEW a \in Content,
         prep[a].opened, ~Crossed(a), Undisturbed(a),
         NEW c \in Tasks, call[c] # NoCall
  PROVE  call[c].for = a
<1>0. /\ c \in Attempts => call[c].for = c /\ c \in Running
      /\ c \in Attempts \/ c = Stray
      /\ a \in Attempts
  BY CallerIs, NamesDiffer DEF CallInv, Content
<1>1. CASE load.attempts = {a}
  BY <1>0, <1>1 DEF CallInv, InTurn, StrayCalls
<1>2. CASE load.strays = 0
  <2>1. c \in Attempts
    BY <1>0, <1>2 DEF CallInv, StrayCalls
  <2>2. a \in Running
    <3>1. phase[a] # "idle"
      BY <1>0 DEF CallInv, Phases, Fresh
    <3>2. phase[a] # "over"
      BY <1>2 DEF CleanedUp
    <3> QED BY <1>0, <3>1, <3>2 DEF Running
  <2> QED BY <1>0, <2>1, <2>2 DEF CallInv, InTurn
<1> QED BY <1>1, <1>2 DEF Undisturbed

LEMMA HeldStep ==
  ASSUME TypeOK, CallInv, BrowserInv, Held, CleanedUp, Next \/ UNCHANGED vars
  PROVE  Held'
<1> SUFFICES ASSUME NEW a \in Content, prep'[a].opened, ~Crossed(a)', Undisturbed(a)
             PROVE  owner' /\ context' = a
  BY LoadStays DEF Held, Undisturbed
<1>0. a \in Attempts /\ ~Crossed(a)
  BY CrossedStays DEF Content
<1>1. CASE ~prep[a].opened
  <2>1. PICK c \in Tasks :
           /\ call[c].op \in Opening /\ call[c].at = "works"
           /\ context' = a /\ UNCHANGED owner
    BY <1>0, <1>1, NewlyOpened
  <2> QED BY <2>1 DEF BrowserInv, AtWork
<1>2. CASE prep[a].opened
  <2>1. owner /\ context = a
    BY <1>0, <1>2 DEF Held
  <2>2. ASSUME NEW c \in Tasks, call[c] # NoCall,
               Takes(c) \/ Binds(c) \/ Cleans(c) \/ Submits(c) \/ GivesUp(c)
        PROVE  UNCHANGED <<owner, context>>
    <3>1. call[c].for = a
      BY <1>0, <1>2, <2>2, HeldAlone
    <3>2. ~Takes(c)
      BY <2>1 DEF Takes
    <3>3. ~Binds(c)
      BY <1>2, <3>1 DEF Binds, BrowserInv, Credited
    <3>4. ~Cleans(c)
      BY <1>2, <3>1 DEF Cleans, BrowserInv, Tracked, Credited
    <3>5. ~Submits(c)
      BY <1>0, <3>1 DEF Submits, CallInv, LockHeld, PermitOfCall
    <3> QED BY <2>2, <3>2, <3>3, <3>4, <3>5 DEF GivesUp
  <2> QED BY <2>1, <2>2, LeaseStep
<1> QED BY <1>1, <1>2

\* An attempt that is alone with its handle can always clean up.
LEMMA AbortCleans ==
  ASSUME TypeOK, CallInv, Tracked, load.strays = 0, NEW a \in Content, Abort(a)
  PROVE  call'[a] # NoCall /\ ~prep'[a].opened
<1>0. a \in Attempts /\ a \in Tasks /\ phase[a] = "aborts"
  BY NamesDiffer DEF Content, Abort
<1>1. ~prep[a].cleaning
  <2> SUFFICES ASSUME NEW c \in Tasks, call[c].op = "close", call[c].for = a PROVE FALSE
    BY <1>0 DEF Tracked
  <2>1. call[c] # NoCall
    BY DEF NoCall
  <2>2. c \in Attempts
    BY <2>1, NamesDiffer DEF CallInv, StrayCalls
  <2> QED BY <1>0, <2>1, <2>2, CallerIs DEF CallInv
<1>2. ~prep[a].effect
  <2> SUFFICES ASSUME call[a].op = "submit" PROVE FALSE
    BY <1>0 DEF Tracked
  <2>1. call[a] # NoCall
    BY DEF NoCall
  <2> QED BY <1>0, <2>1, CallerIs DEF CallInv
<1>3. PICK op \in Ops : op = "close" /\ Begin(a, a, op)
  BY DEF Abort, Ops, Owned
<1>4. Admits(a, op)
  BY <1>1, <1>2, <1>3 DEF Admits, MayClean, Staging, Opening, Filling
<1>5. call'[a] # NoCall /\ prep'[a] = Begun(a, op)
  BY <1>0, <1>3, <1>4, BeginDoes
<1>6. ~Begun(a, op).opened
  BY <1>0, <1>3, BegunIs DEF TypeOK, AuthorityTypeOK
<1> QED BY <1>5, <1>6

\* A script that is through has crossed.
LEMMA AtEndCrossed ==
  ASSUME TypeOK, Phases, NEW a \in Attempts, phase[a] = "steps", AtEnd(a)
  PROVE  Crossed(a) /\ frame[a].pc > CrossAt(a)
<1>1. Len(Script(a)) >= CrossAt(a) + 1 /\ CrossAt(a) \in Nat /\ Len(Script(a)) \in Nat
  BY ScriptIsShaped, LenProperties DEF Shaped
<1>2. frame[a].pc \in Nat /\ frame[a].pc > Len(Script(a))
  BY DEF AtEnd, TypeOK, ExecutorTypeOK, Locals
<1>3. frame[a].pc > CrossAt(a)
  BY <1>1, <1>2
<1> QED BY <1>3 DEF Phases

\* What an attempt is over by, or closes by.
LEMMA EndsBy ==
  ASSUME TypeOK, CallInv, Next \/ UNCHANGED vars, NEW a \in Content,
         phase'[a] \in {"closes", "over"}, phase'[a] # phase[a]
  PROVE  \/ Issue(a) /\ phase[a] = "idle" /\ UNCHANGED prep
         \/ Abort(a) /\ phase'[a] = "closes"
         \/ phase[a] = "closes"
         \/ Crossed(a)
<1>0. a \in Attempts /\ ActionOf[a] \in {"post", "reply", "quote"}
  BY DEF Content
<1>1. PICK b \in Attempts : Issue(b) \/ ExecutorStep(b) \/ Revoke(b)
  BY <1>0, Steps, TaskDoes, StrayDoes, WorldDoes
<1>2. b = a
  BY <1>0, <1>1, ExecutorDoes DEF Same, CallInv
<1>3. CASE Issue(a)
  BY <1>3 DEF Issue
<1>4. CASE Abort(a)
  BY <1>0, <1>4 DEF Abort, Goto, TypeOK, ExecutorTypeOK
<1>5. CASE Settle(a)
  BY <1>0, <1>5 DEF Settle, CallInv, Phases
<1>6. CASE Record(a)
  <2>1. phase[a] = "records" => Crossed(a)
    BY <1>0 DEF CallInv, Phases
  <2> QED BY <1>0, <1>6, <2>1, AtEndCrossed DEF Record, CallInv
<1>7. CASE Inspect(a) \/ Evidence(a) \/ Start(a) \/ Revoke(a)
  BY <1>7 DEF Inspect, Evidence, Start, Revoke, atExecutor, atEase
<1>8. CASE Scope(a)
  BY <1>0, <1>8 DEF Scope, To, Goto, TypeOK, ExecutorTypeOK
<1>9. CASE Advance(a)
  BY <1>0, <1>9 DEF Advance, NextStep, To, Goto, TypeOK, ExecutorTypeOK
<1>10. CASE AfterCrossing(a)
  BY <1>0, <1>10 DEF AfterCrossing, NextStep, Unwind, Goto, TypeOK, ExecutorTypeOK
<1> QED BY <1>1, <1>2, <1>3, <1>4, <1>5, <1>6, <1>7, <1>8, <1>9, <1>10 DEF ExecutorStep

LEMMA CleanedUpStep ==
  ASSUME TypeOK, CallInv, Tracked, CleanedUp, Next \/ UNCHANGED vars
  PROVE  CleanedUp'
<1> SUFFICES ASSUME load.strays = 0, NEW a \in Content, phase'[a] \in {"closes", "over"},
                    prep'[a].opened, ~Crossed(a)'
             PROVE  FALSE
  BY LoadStays DEF CleanedUp
<1>0. a \in Attempts /\ ~Crossed(a)
  BY CrossedStays DEF Content
<1>1. CASE phase[a] \in {"closes", "over"}
  <2>1. ~prep[a].opened
    BY <1>0, <1>1 DEF CleanedUp
  <2>2. PICK c \in Tasks :
          call[c] # NoCall /\ call[c].for = a /\ call[c].op \in Opening
    BY <1>0, <2>1, NewlyOpened
  <2>3. c \in Attempts
    BY <2>2, NamesDiffer DEF CallInv, StrayCalls
  <2> QED BY <1>1, <2>2, <2>3, CallerIs DEF CallInv, Staging
<1>2. CASE phase[a] \notin {"closes", "over"}
  <2>1. CASE Issue(a) /\ phase[a] = "idle" /\ UNCHANGED prep
    BY <1>0, <2>1 DEF CallInv, Phases, Fresh
  <2>2. CASE Abort(a)
    BY <2>2, AbortCleans
  <2> QED BY <1>0, <1>2, <2>1, <2>2, EndsBy
<1> QED BY <1>1, <1>2

\* While nobody else calls, only the running attempt does.
LEMMA AloneCalls ==
  ASSUME TypeOK, CallInv, load.strays = 0, NEW c \in Tasks, call[c] # NoCall,
         NEW a \in Running
  PROVE  c = a /\ call[c].for = a
<1>1. c \in Attempts
  BY NamesDiffer DEF CallInv, StrayCalls
<1>2. call[c].for = c /\ c \in Running
  BY <1>1, CallerIs DEF CallInv
<1> QED BY <1>2 DEF CallInv, InTurn

\* A cleanup or a crossed submit that ends gives the lease back, or spoils it.
LEMMA EndsTheLease ==
  ASSUME TypeOK, CallInv, Next \/ UNCHANGED vars, owner,
         NEW a \in Content, call[a] # NoCall, call'[a] = NoCall,
         call[a].op = "close" \/ call[a].at = "clicks"
  PROVE  owner' => spoiled'
<1>0. a \in Attempts /\ a \in Tasks /\ call[a].for = a /\ call[a] \in Underway
  BY NamesDiffer, CallerIs DEF Content, CallInv
<1>1. call[a].at \in {"gate", "clicks"} => call[a].op \in {"submit", "apply"}
  BY <1>0 DEF CallInv, LockHeld
<1>2. PICK res \in Results : End(a, res) /\ (TaskStep(a) \/ Cancelled(a))
  BY <1>0, <1>1, EndedCall
<1>3. CASE Enter(a)
  <2>1. call[a].op = "close"
    BY <1>3 DEF Enter
  <2>2. Entitled("close") /\ Guarded("close")
    BY DEF Entitled, Guarded, Opening, Filling, Owned, OneShots, Mutating, Staging
  <2>3. Goes(a, "works")
    BY <1>3, <2>1, <2>2 DEF Enter
  <2> QED BY <1>0, <2>3, GoesDoes DEF NoCall
<1>4. CASE Work(a)
  <2>1. call[a].op = "close"
    BY <1>4 DEF Work
  <2>2. \E r \in Results : CloseContext(r)
    BY <1>4, <2>1 DEF Work, Staging, Opening, Filling
  <2> QED BY <2>2 DEF CloseContext, Release
<1>5. CASE Prove(a) \/ Gate(a)
  BY <1>1, <1>5 DEF Prove, Gate
<1>6. CASE Click(a)
  <2>1. \E r \in Results : ClickSubmit(a, r)
    BY <1>0, <1>6, KindsOfActions DEF Click
  <2> QED BY <2>1 DEF ClickSubmit, Release
<1>7. CASE Cancelled(a)
  BY <1>1, <1>7 DEF Cancelled
<1> QED BY <1>2, <1>3, <1>4, <1>5, <1>6, <1>7 DEF TaskStep

\* The attempt that keeps the lease goes on keeping it, or gives it back.
LEMMA KeepsOn ==
  ASSUME TypeOK, CallInv, Tracked, Next \/ UNCHANGED vars, load.strays = 0,
         owner, NEW a \in Content, Keeps(a)
  PROVE  Keeps(a)' \/ (owner' => spoiled')
<1>0. /\ a \in Attempts /\ a \in Tasks /\ a \in Running
      /\ ActionOf[a] \in {"post", "reply", "quote"}
  BY NamesDiffer DEF Content, Keeps, Running
<1>1. ASSUME NEW c \in Tasks, TaskStep(c) \/ Cancelled(c)
      PROVE  Keeps(a)' \/ (owner' => spoiled')
  <2>1. c = a /\ call[a] # NoCall /\ UNCHANGED phase
    BY <1>0, <1>1, TaskDoes, AloneCalls
  <2>2. CASE phase[a] \in {"steps", "crosses", "aborts"} /\ ~Crossed(a)
    BY <1>0, <2>1, <2>2, PermitStep DEF Keeps, Crossed
  <2>3. CASE phase[a] = "closes"
    <3>1. call[a].op = "close"
      BY <1>0, <2>1, <2>3 DEF CallInv, OwnCalls
    <3> QED BY <2>1, <2>3, <3>1, EndsTheLease DEF Keeps
  <2>4. CASE phase[a] = "crosses" /\ call[a].at = "clicks"
    <3>1. call'[a] # NoCall => call'[a] = call[a]
      BY <1>0, <2>1, <2>4, Moves
    <3> QED BY <2>1, <2>4, <3>1, EndsTheLease DEF Keeps
  <2> QED BY <2>2, <2>3, <2>4 DEF Keeps
<1>2. ASSUME NEW b \in Attempts, Issue(b) \/ ExecutorStep(b) \/ Revoke(b)
      PROVE  Keeps(a)'
  <2>0. UNCHANGED permit
    BY <1>2, ExecutorDoes DEF CallInv
  <2>1. CASE b # a
    <3>1. Same(a)
      BY <1>0, <1>2, <2>1, ExecutorDoes DEF CallInv
    <3> QED BY <3>1 DEF Same, Keeps, Crossed
  <2>2. CASE b = a /\ phase[a] \in {"steps", "crosses", "aborts"} /\ ~Crossed(a)
    <3>1. phase'[a] \in {"steps", "crosses", "aborts"} \/ (phase'[a] = "closes" /\ Abort(a))
      <4>1. CASE Issue(a)
        BY <2>2, <4>1 DEF Issue
      <4>2. CASE Inspect(a) \/ Evidence(a) \/ Start(a) \/ Revoke(a)
        BY <2>2, <4>2 DEF Inspect, Evidence, Start, Revoke, atExecutor, atEase
      <4>3. CASE Scope(a)
        BY <1>0, <4>3 DEF Scope, To, Goto, TypeOK, ExecutorTypeOK
      <4>4. CASE Advance(a)
        BY <1>0, <2>2, <4>4 DEF Advance, NextStep, To, Goto, TypeOK, ExecutorTypeOK
      <4>5. CASE AfterCrossing(a)
        BY <1>0, <2>2, <4>5 DEF AfterCrossing, Unwind, Goto, TypeOK, ExecutorTypeOK
      <4>6. CASE Abort(a)
        BY <1>0, <4>6 DEF Abort, Goto, TypeOK, ExecutorTypeOK
      <4>7. CASE Settle(a)
        BY <1>0, <2>2, <4>7 DEF Settle, CallInv, Phases
      <4>8. CASE Record(a)
        BY <1>0, <2>2, <4>8, AtEndCrossed DEF Record, CallInv
      <4> QED BY <1>2, <2>2, <4>1, <4>2, <4>3, <4>4, <4>5, <4>6, <4>7, <4>8
          DEF ExecutorStep
    <3>2. ~Crossed(a)'
      BY <2>0, <2>2 DEF Crossed
    <3> QED BY <1>0, <3>1, <3>2, AbortCleans DEF Keeps
  <2>3. CASE b = a /\ call[a] # NoCall /\ phase[a] \in {"closes", "crosses"}
    <3>1. frame[a].result = "none"
      BY <1>0, <2>3, CallerIs DEF CallInv
    <3>2. phase'[a] = phase[a] /\ call'[a] = call[a]
      <4>1. ~Evidence(a)
        <5>1. call[a].op \in {"baseline", "capture", "verify", "count", "look",
                              "look_present"} => phase[a] = "steps"
          BY <1>0, <2>3, CallerIs DEF CallInv
        <5> QED BY <2>3, <5>1 DEF Evidence
      <4>2. Revoke(a)
        BY <1>2, <2>3, <3>1, <4>1 DEF ExecutorStep, Issue, Inspect, Scope, Start, Advance,
           AfterCrossing, Abort, Settle, Record
      <4> QED BY <4>2 DEF Revoke, atEase
    <3>3. CASE Crossed(a)
      BY <2>0, <3>2, <3>3, <2>3 DEF Keeps, Crossed
    <3>4. CASE ~Crossed(a)
      BY <2>0, <3>2, <3>4, <2>3 DEF Keeps, Crossed
    <3> QED BY <3>3, <3>4
  <2>4. phase[a] = "crosses" /\ call[a].at = "clicks" => call[a] # NoCall
    BY DEF NoCall
  <2> QED BY <2>1, <2>2, <2>3, <2>4 DEF Keeps
<1>3. ~StrayCall
  BY StrayDoes
<1>4. TripKill \/ Site \/ UNCHANGED vars => Keeps(a)'
  BY WorldDoes DEF Keeps, Crossed
<1> QED BY <1>1, <1>2, <1>3, <1>4, Steps

LEMMA GivenBackStep ==
  ASSUME TypeOK, CallInv, BrowserInv, GivenBack, Next \/ UNCHANGED vars
  PROVE  GivenBack'
<1> SUFFICES ASSUME load.strays = 0, owner', ~spoiled'
             PROVE  \E a \in Content : Keeps(a)'
  BY LoadStays DEF GivenBack
<1>1. CASE owner
  <2>1. ~spoiled
    BY <1>1, LeaseStep DEF Takes, Binds, Cleans, Submits, GivesUp, Release
  <2>2. PICK a \in Content : Keeps(a)
    BY <1>1, <2>1 DEF GivenBack
  <2> QED BY <1>1, <2>2, KeepsOn DEF BrowserInv
<1>2. CASE ~owner
  <2>1. PICK c \in Tasks : call[c] # NoCall /\ Takes(c)
    BY <1>2, LeaseStep DEF Binds, Cleans, Submits, GivesUp, Release
  <2>2. c \in Attempts
    BY <2>1, NamesDiffer DEF CallInv, StrayCalls
  <2>3. call[c].for = c /\ c \in Content /\ phase[c] = "steps" /\ frame[c].pc < CrossAt(c)
    BY <2>1, <2>2, CallerIs DEF Takes, CallInv, Staging
  <2>4. ~Crossed(c)
    <3>1. frame[c].pc \in Nat /\ CrossAt(c) \in Nat
      BY <2>2, ScriptIsShaped DEF Shaped, TypeOK, ExecutorTypeOK, Locals
    <3> QED BY <2>2, <2>3, <3>1 DEF CallInv, Phases
  <2>5. UNCHANGED <<phase, permit[c]>>
    <3>2. ASSUME NEW d \in Tasks, TaskStep(d) \/ Cancelled(d) PROVE UNCHANGED phase
      BY <3>2, TaskDoes
    <3>3. ASSUME NEW b \in Attempts, Issue(b) \/ ExecutorStep(b) \/ Revoke(b) PROVE FALSE
      BY <1>2, <3>3, ExecutorDoes DEF CallInv
    <3>4. UNCHANGED phase
      BY <3>2, <3>3, Steps, StrayDoes, WorldDoes
    <3>5. UNCHANGED permit[c]
      <4>1. call[c].at = "waits"
        BY <2>1 DEF Takes
      <4> QED BY <2>2, <4>1, PermitStep DEF Gate
    <3> QED BY <3>4, <3>5
  <2> QED BY <2>3, <2>4, <2>5 DEF Keeps, Crossed
<1> QED BY <1>1, <1>2

LEMMA LeaseInvStep ==
  ASSUME TypeOK, CallInv, BrowserInv, LeaseInv, Next \/ UNCHANGED vars
  PROVE  LeaseInv'
BY HeldStep, CleanedUpStep, GivenBackStep DEF LeaseInv, BrowserInv

--------------------------------------------------------------------------------
(* The outcome.                                                               *)

\* What happened stays.
LEMMA EffectsStay ==
  ASSUME TypeOK, CallInv, Next \/ UNCHANGED vars
  PROVE  effects \subseteq effects' /\ satisfied \subseteq satisfied'
         /\ Posts \subseteq Posts'
<1>1. ASSUME NEW c \in Tasks, TaskStep(c) \/ Cancelled(c)
      PROVE  effects \subseteq effects' /\ satisfied \subseteq satisfied'
  <2>1. CASE Enter(c) \/ Prove(c) \/ Gate(c) \/ Cancelled(c)
    BY <2>1 DEF Enter, Prove, Gate, Cancelled, atSite
  <2>2. CASE Work(c)
    BY <2>2 DEF Work, atSite
  <2>3. CASE Click(c)
    <3>1. call[c].for \in Attempts
      BY <1>1, TaskDoes DEF Underway
    <3>2. \E res \in Results :
             \/ ClickSubmit(call[c].for, res) \/ ClickControl(call[c].for, res)
             \/ ConfirmDeletion(call[c].for, res)
      BY <2>3, <3>1, KindsOfActions DEF Click
    <3> QED BY <3>2 DEF ClickSubmit, ClickControl, ConfirmDeletion
  <2> QED BY <1>1, <2>1, <2>2, <2>3 DEF TaskStep
<1>2. ASSUME NEW b \in Attempts, Issue(b) \/ ExecutorStep(b) \/ Revoke(b)
      PROVE  effects \subseteq effects' /\ satisfied \subseteq satisfied'
  BY <1>2, ExecutorDoes DEF CallInv
<1>3. StrayCall => effects \subseteq effects' /\ satisfied \subseteq satisfied'
  BY StrayDoes DEF brokerVars
<1>4. effects \subseteq effects' /\ satisfied \subseteq satisfied'
  BY <1>1, <1>2, <1>3, Steps, WorldDoes
<1> QED BY <1>4 DEF Posts

\* Only some ends of calls succeed.
LEMMA Succeeded ==
  ASSUME TypeOK, CallInv, NEW a \in Attempts, TaskStep(a) \/ Cancelled(a)
  PROVE  /\ frame'[a].pc = frame[a].pc /\ frame'[a].mutated = frame[a].mutated
         /\ frame'[a].seen = frame[a].seen
         /\ \/ frame'[a] = frame[a]
            \/ frame'[a].result # "ok"
            \/ phase[a] = "steps" /\ frame[a].pc < CrossAt(a)
            \/ phase[a] = "closes"
            \/ phase[a] = "crosses" /\ (Crossed(a) \/ a \in satisfied)
<1>0. a \in Tasks /\ call[a] # NoCall /\ call[a] \in Underway /\ call[a].for = a
  BY NamesDiffer, TaskDoes, CallerIs DEF CallInv
<1>1. CASE \E at \in {"works", "gate", "clicks"} : Goes(a, at)
  BY <1>0, <1>1, GoesDoes
<1>2. ASSUME NEW res \in Results, End(a, res)
      PROVE  /\ frame'[a].pc = frame[a].pc /\ frame'[a].mutated = frame[a].mutated
             /\ frame'[a].seen = frame[a].seen /\ frame'[a].result = res
             /\ call'[a] = NoCall
  <2>1. frame'[a] = [frame[a] EXCEPT !.result = res] /\ call'[a] = NoCall
    BY <1>0, <1>2, EndDoes
  <2>2. frame[a] \in Locals
    BY DEF TypeOK, ExecutorTypeOK
  <2> QED BY <2>1, <2>2 DEF Locals
<1>3. ASSUME NEW res \in Results, End(a, res), res = "ok"
      PROVE  \/ phase[a] = "steps" /\ frame[a].pc < CrossAt(a)
             \/ phase[a] = "closes"
             \/ phase[a] = "crosses" /\ (Crossed(a) \/ a \in satisfied)
  <2>1. call'[a] = NoCall /\ frame'[a].result = "ok"
    BY <1>2, <1>3
  <2>2. ~\E at \in {"works", "gate", "clicks"} : Goes(a, at)
    BY <1>0, <2>1, GoesDoes DEF NoCall
  <2>3. ~End(a, "failed") /\ ~End(a, "raised")
    BY <1>2, <2>1 DEF Results
  <2>4. CASE Work(a)
    <3>1. call[a].op \in Staging \cup {"close"}
      BY <2>4 DEF Work
    <3> QED BY <1>0, <3>1, CallerIs DEF CallInv
  <2>5. CASE Prove(a)
    <3>1. call[a].op \in {"submit", "apply"} /\ a \in satisfied
      BY <1>0, <2>2, <2>3, <2>5 DEF Prove
    <3> QED BY <1>0, <3>1, CallerIs DEF CallInv
  <2>6. CASE Click(a)
    <3>1. call[a].at = "clicks"
      BY <2>6 DEF Click
    <3>2. call[a].op \in {"submit", "apply"}
      BY <1>0, <3>1 DEF CallInv, LockHeld
    <3>3. Crossed(a)
      BY <1>0, <3>1, <3>2 DEF CallInv, PermitOfCall
    <3> QED BY <1>0, <3>2, <3>3, CallerIs DEF CallInv
  <2>7. ~Enter(a) /\ ~Gate(a) /\ ~Cancelled(a)
    BY <2>2, <2>3 DEF Enter, Gate, Cancelled
  <2> QED BY <2>4, <2>5, <2>6, <2>7 DEF TaskStep
<1> QED BY <1>0, <1>1, <1>2, <1>3, TaskDoes

\* How the locals change while the executor steps on.
LEMMA FrameStep ==
  ASSUME TypeOK, CallInv, Next \/ UNCHANGED vars, NEW a \in Attempts,
         phase[a] = "steps", phase'[a] = "steps"
  PROVE  \/ frame'[a] = frame[a]
         \/ /\ frame'[a].pc = frame[a].pc /\ frame'[a].seen = frame[a].seen
            /\ frame'[a].result # "ok" \/ frame[a].pc < CrossAt(a)
         \/ Evidence(a)
         \/ /\ frame[a].result = "ok" /\ frame'[a].pc = frame[a].pc + 1
            /\ frame'[a].result = "none" /\ frame'[a].seen = frame[a].seen
<1> DEFINE Goal ==
         \/ frame'[a] = frame[a]
         \/ /\ frame'[a].pc = frame[a].pc /\ frame'[a].seen = frame[a].seen
            /\ frame'[a].result # "ok" \/ frame[a].pc < CrossAt(a)
         \/ Evidence(a)
         \/ /\ frame[a].result = "ok" /\ frame'[a].pc = frame[a].pc + 1
            /\ frame'[a].result = "none" /\ frame'[a].seen = frame[a].seen
<1>0. frame \in [Attempts -> Locals]
  BY DEF TypeOK, ExecutorTypeOK
<1>1. ASSUME NEW c \in Tasks, TaskStep(c) \/ Cancelled(c) PROVE Goal
  <2>1. CASE c # a
    BY <1>1, <2>1, TaskDoes
  <2>2. CASE c = a
    BY <1>1, <2>2, Succeeded
  <2> QED BY <2>1, <2>2
<1>2. ASSUME NEW b \in Attempts, Issue(b) \/ ExecutorStep(b) \/ Revoke(b) PROVE Goal
  <2>1. CASE b # a
    BY <1>2, <2>1, ExecutorDoes DEF Same, CallInv
  <2>2. CASE b = a /\ Inspect(a)
    <3>1. PICK res \in Results : frame' = [frame EXCEPT ![a].result = res]
      BY <2>2, NamesDiffer DEF Inspect, Returned
    <3>2. frame'[a].pc = frame[a].pc /\ frame'[a].seen = frame[a].seen
      BY <1>0, <3>1 DEF Locals
    <3>3. frame[a].pc < CrossAt(a)
      <4>1. ~AtEnd(a) /\ Step(a) \in {"ready", "recheck"}
        BY <2>2 DEF Inspect
      <4>2. Step(a) \notin Behind(a) /\ ~Crossing(a)
        BY <4>1 DEF Behind, Crossing
      <4>3. frame[a].pc \in Nat /\ CrossAt(a) \in Nat
        BY <1>0, ScriptIsShaped DEF Shaped, Locals
      <4> QED BY <4>1, <4>2, <4>3, StepIs
    <3> QED BY <3>2, <3>3
  <2>3. CASE b = a /\ Start(a)
    <3>1. PICK res \in {"none", "raised"} : frame' = [frame EXCEPT ![a].result = res]
      BY <2>3, NamesDiffer DEF Start, Begin, Returned
    <3> QED BY <1>0, <3>1 DEF Locals
  <2>4. CASE b = a /\ Advance(a)
    <3>1. frame[a].result = "ok" /\ NextStep(a, frame[a].mutated)
      <4>1. frame[a].result # "ok" => phase'[a] # "steps"
        BY <2>4 DEF Advance, To, Goto, Over, TypeOK, ExecutorTypeOK
      <4> QED BY <2>4, <4>1 DEF Advance
    <3> QED BY <1>0, <3>1 DEF NextStep, Locals
  <2>5. CASE b = a /\ Revoke(a)
    BY <2>5 DEF Revoke, atEase
  <2>6. CASE b = a /\ (Issue(a) \/ AfterCrossing(a) \/ Abort(a) \/ Settle(a))
    BY <2>6 DEF Issue, AfterCrossing, Abort, Settle
  <2>7. CASE b = a /\ (Scope(a) \/ Record(a))
    BY <2>7 DEF Scope, Record, To, Goto, Over, TypeOK, ExecutorTypeOK
  <2> QED BY <1>2, <2>1, <2>2, <2>3, <2>4, <2>5, <2>6, <2>7 DEF ExecutorStep
<1>3. StrayCall => Goal
  BY StrayDoes
<1> QED BY <1>1, <1>2, <1>3, Steps, WorldDoes

\* Nothing is known yet when an executor takes its first step, or the first one
\* after the crossing.
LEMMA FirstStep ==
  ASSUME TypeOK, CallInv, Next \/ UNCHANGED vars, NEW a \in Attempts,
         phase[a] # "steps", phase'[a] = "steps"
  PROVE  ~Passed(a, 1)'
<1>0. frame \in [Attempts -> Locals] /\ CrossAt(a) \in Nat \ {0}
  BY ScriptIsShaped DEF Shaped, TypeOK, ExecutorTypeOK
<1>1. PICK b \in Attempts : Issue(b) \/ ExecutorStep(b) \/ Revoke(b)
  BY Steps, TaskDoes, StrayDoes, WorldDoes
<1>2. b = a
  BY <1>1, ExecutorDoes DEF Same, CallInv
<1>3. CASE Issue(a)
  <2>1. frame'[a] = frame[a] /\ phase[a] = "idle"
    BY <1>3 DEF Issue, Over, TypeOK, ExecutorTypeOK
  <2>2. frame'[a] = Entry
    BY <2>1 DEF CallInv, Phases
  <2> QED BY <1>0, <2>2 DEF Passed, Entry
<1>4. CASE AfterCrossing(a)
  <2>1. PICK m : NextStep(a, m)
    BY <1>4 DEF AfterCrossing, Unwind, Goto, TypeOK, ExecutorTypeOK
  <2>2. frame'[a].pc = frame[a].pc + 1 /\ frame'[a].result = "none"
    BY <1>0, <2>1 DEF NextStep, Locals
  <2>3. frame[a].pc = CrossAt(a)
    BY <1>4 DEF AfterCrossing, CallInv, Phases
  <2> QED BY <1>0, <2>2, <2>3 DEF Passed
<1>5. CASE Inspect(a) \/ Evidence(a) \/ Start(a) \/ Revoke(a)
  BY <1>5 DEF Inspect, Evidence, Start, Revoke, atExecutor, atEase
<1>6. CASE Scope(a) \/ Advance(a)
  BY <1>6 DEF Scope, Advance
<1>7. CASE Abort(a) \/ Settle(a) \/ Record(a)
  BY <1>7 DEF Abort, Settle, Record, Goto, Over, TypeOK, ExecutorTypeOK
<1> QED BY <1>1, <1>2, <1>3, <1>4, <1>5, <1>6, <1>7 DEF ExecutorStep

\* What the steps behind the crossing prove.
LEMMA EvidenceProves ==
  ASSUME TypeOK, CallInv, NEW a \in Attempts, Evidence(a), phase[a] = "steps",
         frame'[a].result = "ok"
  PROVE  IF a \in Content
         THEN /\ frame[a].pc = CrossAt(a) + 1 => frame'[a].seen \in Posts
              /\ frame[a].pc = CrossAt(a) + 2 =>
                   Shows(a, frame[a].seen) /\ frame'[a].seen = frame[a].seen
              /\ frame[a].pc > CrossAt(a) + 2 => frame'[a].seen = frame[a].seen
         ELSE frame[a].pc = CrossAt(a) + 1 => a \in satisfied
<1>0. /\ frame[a].pc \in Nat \ {0} /\ CrossAt(a) \in Nat \ {0} /\ Shaped(a)
      /\ Len(Script(a)) \in Nat
  BY ScriptIsShaped, LenProperties DEF Shaped, TypeOK, ExecutorTypeOK, Locals
<1>1. /\ Proved(a, call[a].op)
      /\ IF call[a].op = "capture" THEN frame'[a].seen \in Candidates(a)
         ELSE frame'[a].seen = frame[a].seen
  BY EvidenceDoes
<1>2. call[a] # NoCall
  BY DEF Evidence, NoCall
<1>3. call[a].op = Step(a) /\ ~AtEnd(a)
  BY <1>2, NamesDiffer, CallerIs DEF Evidence, CallInv
<1>4. Step(a) = Script(a)[frame[a].pc] /\ frame[a].pc \in 1..Len(Script(a))
  BY <1>0, <1>3 DEF Step, AtEnd
<1>5. CASE a \in Content
  <2>1. /\ frame[a].pc = CrossAt(a) + 1 => Step(a) = "capture"
        /\ frame[a].pc = CrossAt(a) + 2 => Step(a) = "verify"
        /\ frame[a].pc > CrossAt(a) + 2 => Step(a) = "count"
    BY <1>0, <1>4, <1>5 DEF Shaped
  <2>2. Step(a) = "capture" => frame'[a].seen \in Posts
    BY <1>1, <1>3 DEF Candidates
  <2>3. Step(a) = "verify" => Shows(a, frame[a].seen) /\ frame'[a].seen = frame[a].seen
    BY <1>1, <1>3 DEF Proved
  <2>4. Step(a) = "count" => frame'[a].seen = frame[a].seen
    BY <1>1, <1>3
  <2> QED BY <1>5, <2>1, <2>2, <2>3, <2>4
<1>6. CASE a \notin Content
  <2>1. frame[a].pc = CrossAt(a) + 1 => Step(a) = "look"
    BY <1>0, <1>4, <1>6 DEF Shaped
  <2>2. Step(a) = "look" => a \in satisfied
    BY <1>1, <1>3 DEF Proved, StateShown
  <2> QED BY <1>6, <2>1, <2>2
<1> QED BY <1>5, <1>6

LEMMA EvidentStep ==
  ASSUME TypeOK, CallInv, Evident, Next \/ UNCHANGED vars
  PROVE  Evident'
<1> SUFFICES ASSUME NEW a \in Attempts, phase'[a] = "steps"
             PROVE  IF a \in Content
                    THEN /\ Passed(a, 1)' => frame'[a].seen \in Posts'
                         /\ Passed(a, 2)' => Shows(a, frame'[a].seen)
                    ELSE Passed(a, 1)' => a \in satisfied'
  <2>1. ASSUME NEW a \in Attempts PROVE Shows(a, frame[a].seen)' = Shows(a, frame'[a].seen)
    BY DEF Shows, ShowsPost, ShowsReply, ShowsQuote
  <2> QED BY <2>1 DEF Evident
<1>0. /\ frame[a] \in Locals /\ frame'[a] \in Locals /\ CrossAt(a) \in Nat \ {0}
      /\ frame[a].pc \in Nat /\ frame'[a].pc \in Nat
  <2>1. frame[a] \in Locals /\ frame'[a] \in Locals
    BY TypesStep DEF TypeOK, ExecutorTypeOK, CallInv
  <2> QED BY <2>1, ScriptIsShaped DEF Shaped, Locals
<1>1. CASE phase[a] # "steps"
  <2>1. ~Passed(a, 1)'
    BY <1>1, FirstStep
  <2>2. ~Passed(a, 2)'
    BY <1>0, <2>1 DEF Passed
  <2> QED BY <2>1, <2>2
<1>2. ASSUME phase[a] = "steps", frame'[a].seen = frame[a].seen,
             \A n \in {1, 2} : Passed(a, n)' => Passed(a, n)
      PROVE  IF a \in Content
             THEN /\ Passed(a, 1)' => frame'[a].seen \in Posts'
                  /\ Passed(a, 2)' => Shows(a, frame'[a].seen)
             ELSE Passed(a, 1)' => a \in satisfied'
  <2>1. IF a \in Content
        THEN /\ Passed(a, 1) => frame[a].seen \in Posts
             /\ Passed(a, 2) => Shows(a, frame[a].seen)
        ELSE Passed(a, 1) => a \in satisfied
    BY <1>2 DEF Evident
  <2> QED BY <1>2, <2>1, EffectsStay
<1>3. CASE phase[a] = "steps" /\ frame'[a] = frame[a]
  <2>1. \A n \in {1, 2} : Passed(a, n)' => Passed(a, n)
    BY <1>3 DEF Passed
  <2> QED BY <1>2, <1>3, <2>1
<1>4. CASE /\ phase[a] = "steps"
           /\ frame'[a].pc = frame[a].pc /\ frame'[a].seen = frame[a].seen
           /\ frame'[a].result # "ok" \/ frame[a].pc < CrossAt(a)
  <2>1. \A n \in {1, 2} : Passed(a, n)' => Passed(a, n)
    BY <1>0, <1>4 DEF Passed
  <2> QED BY <1>2, <1>4, <2>1
<1>5. CASE /\ phase[a] = "steps"
           /\ frame[a].result = "ok" /\ frame'[a].pc = frame[a].pc + 1
           /\ frame'[a].result = "none" /\ frame'[a].seen = frame[a].seen
  <2>1. \A n \in {1, 2} : Passed(a, n)' => Passed(a, n)
    BY <1>0, <1>5 DEF Passed
  <2> QED BY <1>2, <1>5, <2>1
<1>6. CASE phase[a] = "steps" /\ Evidence(a)
  <2>0. frame'[a].pc = frame[a].pc
    BY <1>6, EvidenceDoes
  <2>1. CASE frame'[a].result # "ok"
    <3>1. frame'[a].seen = frame[a].seen
      BY <1>6, <2>1, EvidenceDoes
    <3>2. \A n \in {1, 2} : Passed(a, n)' => Passed(a, n)
      BY <2>0, <2>1 DEF Passed
    <3> QED BY <1>2, <1>6, <3>1, <3>2
  <2>2. CASE frame'[a].result = "ok"
    <3>1. /\ Passed(a, 1)' <=> frame[a].pc >= CrossAt(a) + 1
          /\ Passed(a, 2)' <=> frame[a].pc >= CrossAt(a) + 2
          /\ frame[a].pc > CrossAt(a) + 1 => Passed(a, 1)
          /\ frame[a].pc > CrossAt(a) + 2 => Passed(a, 2)
      BY <1>0, <2>0, <2>2 DEF Passed
    <3>2. CASE a \in Content
      <4>1. /\ frame[a].pc = CrossAt(a) + 1 => frame'[a].seen \in Posts
            /\ frame[a].pc = CrossAt(a) + 2 =>
                 Shows(a, frame[a].seen) /\ frame'[a].seen = frame[a].seen
            /\ frame[a].pc > CrossAt(a) + 2 => frame'[a].seen = frame[a].seen
        BY <1>6, <2>2, <3>2, EvidenceProves
      <4>2. /\ frame[a].pc > CrossAt(a) + 1 => frame[a].seen \in Posts
            /\ frame[a].pc > CrossAt(a) + 2 => Shows(a, frame[a].seen)
        BY <1>6, <3>1, <3>2 DEF Evident
      <4>3. frame[a].pc >= CrossAt(a) + 1 => frame'[a].seen \in Posts
        BY <1>0, <4>1, <4>2
      <4>4. frame[a].pc >= CrossAt(a) + 2 => Shows(a, frame'[a].seen)
        BY <1>0, <4>1, <4>2
      <4> QED BY <3>1, <3>2, <4>3, <4>4, EffectsStay
    <3>3. CASE a \notin Content
      <4>1. frame[a].pc = CrossAt(a) + 1 => a \in satisfied
        BY <1>6, <2>2, <3>3, EvidenceProves
      <4>2. frame[a].pc > CrossAt(a) + 1 => a \in satisfied
        BY <1>6, <3>1, <3>3 DEF Evident
      <4> QED BY <1>0, <3>1, <3>3, <4>1, <4>2, EffectsStay
    <3> QED BY <3>2, <3>3
  <2> QED BY <2>1, <2>2
<1> QED BY <1>1, <1>3, <1>4, <1>5, <1>6, FrameStep

LEMMA NothingToDoStep ==
  ASSUME TypeOK, CallInv, NothingToDo, Next \/ UNCHANGED vars
  PROVE  NothingToDo'
<1> SUFFICES ASSUME NEW a \in Attempts, a \notin satisfied'
             PROVE  /\ ~(phase'[a] = "crosses" /\ ~Crossed(a)' /\ frame'[a].result = "ok")
                    /\ ~(phase'[a] = "settles" /\ frame'[a].mutated = "ok")
  BY DEF NothingToDo
<1>0. a \notin satisfied /\ frame[a] \in Locals
  BY EffectsStay DEF TypeOK, ExecutorTypeOK
<1>1. /\ phase[a] = "crosses" /\ ~Crossed(a) => frame[a].result # "ok"
      /\ phase[a] = "settles" => frame[a].mutated # "ok"
  BY <1>0 DEF NothingToDo
<1>2. Crossed(a) => Crossed(a)'
  BY CrossedStays
<1>3. CASE phase'[a] = phase[a] /\ frame'[a] = frame[a]
  BY <1>1, <1>2, <1>3
<1>4. ASSUME NEW c \in Tasks, TaskStep(c) \/ Cancelled(c), frame'[a] # frame[a]
      PROVE  /\ ~(phase'[a] = "crosses" /\ ~Crossed(a)' /\ frame'[a].result = "ok")
             /\ ~(phase'[a] = "settles" /\ frame'[a].mutated = "ok")
  <2>1. c = a /\ phase'[a] = phase[a]
    BY <1>4, TaskDoes
  <2> QED BY <1>0, <1>1, <1>2, <1>4, <2>1, Succeeded
<1>5. ASSUME NEW b \in Attempts, Issue(b) \/ ExecutorStep(b) \/ Revoke(b),
             ~(phase'[a] = phase[a] /\ frame'[a] = frame[a])
      PROVE  /\ ~(phase'[a] = "crosses" /\ ~Crossed(a)' /\ frame'[a].result = "ok")
             /\ ~(phase'[a] = "settles" /\ frame'[a].mutated = "ok")
  <2>1. b = a /\ UNCHANGED permit
    BY <1>5, ExecutorDoes DEF Same, CallInv
  <2>2. CASE Evidence(a)
    <3>1. call[a] # NoCall
      BY <2>2 DEF Evidence, NoCall
    <3>2. phase[a] = "steps"
      BY <2>2, <3>1, NamesDiffer, CallerIs DEF Evidence, CallInv
    <3> QED BY <2>2, <3>2 DEF Evidence, atExecutor
  <2>3. CASE Start(a)
    <3>1. PICK res \in {"none", "raised"} : frame' = [frame EXCEPT ![a].result = res]
      BY <2>3, NamesDiffer DEF Start, Begin, Returned
    <3>2. frame'[a].result = res /\ frame'[a].mutated = frame[a].mutated
      BY <1>0, <3>1 DEF Locals, TypeOK, ExecutorTypeOK
    <3> QED BY <1>1, <2>3, <3>2 DEF Start
  <2>4. CASE Scope(a)
    <3>1. frame[a].result = "none"
      BY <2>4 DEF Scope
    <3>2. phase'[a] # "settles" /\ (phase'[a] = "crosses" => frame'[a] = frame[a])
      BY <2>4 DEF Scope, To, Goto, Over, TypeOK, ExecutorTypeOK
    <3> QED BY <3>1, <3>2
  <2>5. CASE AfterCrossing(a)
    <3>1. CASE Crossed(a)
      <4>1. phase'[a] \in {"records", "steps"}
        BY <2>5, <3>1 DEF AfterCrossing, NextStep, Goto, TypeOK, ExecutorTypeOK
      <4> QED BY <4>1
    <3>2. CASE ~Crossed(a)
      <4>1. phase'[a] \in {"aborts", "settles"} /\ frame'[a].mutated = frame[a].result
        BY <2>5, <3>2 DEF AfterCrossing, Unwind, Mutation, Goto, TypeOK, ExecutorTypeOK,
           Locals
      <4>2. frame[a].result # "ok"
        BY <1>1, <2>5, <3>2 DEF AfterCrossing
      <4> QED BY <4>1, <4>2
    <3> QED BY <3>1, <3>2
  <2>6. CASE Inspect(a)
    BY <2>6 DEF Inspect, atExecutor
  <2>7. CASE Issue(a) \/ Advance(a) \/ Abort(a) \/ Settle(a) \/ Record(a)
    <3>1. phase'[a] \notin {"crosses", "settles"}
      BY <2>7 DEF Issue, Advance, Abort, Settle, Record, NextStep, To, Goto, Over, TypeOK,
         ExecutorTypeOK
    <3> QED BY <3>1
  <2>8. CASE Revoke(a)
    BY <1>5, <2>8 DEF Revoke, atEase
  <2> QED BY <1>5, <2>1, <2>2, <2>3, <2>4, <2>5, <2>6, <2>7, <2>8 DEF ExecutorStep
<1> QED BY <1>3, <1>4, <1>5, Steps, TaskDoes, StrayDoes, WorldDoes

\* An executor that goes on has concluded nothing.
LEMMA GoesOn ==
  ASSUME TypeOK, CallInv, Next \/ UNCHANGED vars, NEW a \in Attempts,
         phase[a] # "over", phase'[a] # "over"
  PROVE  /\ told'[a] = told[a]
         /\ standing'[a] = standing[a] \/ standing'[a] = "preparing"
<1>1. ASSUME NEW b \in Attempts, Issue(b) \/ ExecutorStep(b) \/ Revoke(b)
      PROVE  /\ told'[a] = told[a]
             /\ standing'[a] = standing[a] \/ standing'[a] = "preparing"
  <2>1. CASE b # a
    BY <1>1, <2>1, ExecutorDoes DEF Same, CallInv
  <2>2. ASSUME NEW st, NEW t, Over(a, st, t) PROVE FALSE
    BY <2>2 DEF Over, TypeOK, ExecutorTypeOK
  <2>3. CASE b = a /\ Issue(a)
    BY <2>2, <2>3 DEF Issue, TypeOK, AuthorityTypeOK
  <2>4. CASE b = a /\ (Inspect(a) \/ Evidence(a) \/ Start(a) \/ Revoke(a))
    BY <2>4 DEF Inspect, Evidence, Start, Revoke, atExecutor, atEase, authorityVars
  <2>5. CASE b = a /\ Scope(a)
    BY <2>2, <2>5 DEF Scope, To, Goto
  <2>6. CASE b = a /\ (Advance(a) \/ AfterCrossing(a) \/ Abort(a))
    BY <2>2, <2>6 DEF Advance, AfterCrossing, Unwind, NextStep, Abort, To, Goto
  <2>7. CASE b = a /\ (Settle(a) \/ Record(a))
    BY <2>2, <2>7 DEF Settle, Record
  <2> QED BY <1>1, <2>1, <2>3, <2>4, <2>5, <2>6, <2>7 DEF ExecutorStep
<1> QED BY <1>1, Steps, TaskDoes, StrayDoes, WorldDoes

\* The evidence behind a script that is through.
LEMMA ConfirmsIsTrue ==
  ASSUME TypeOK, CallInv, EffectsAreApproved, Evident,
         NEW a \in Attempts, phase[a] = "steps", AtEnd(a)
  PROVE  IF a \in Content THEN By(a) # {} ELSE a \in satisfied
<1>0. /\ frame[a].pc \in Nat /\ CrossAt(a) \in Nat /\ Len(Script(a)) \in Nat
      /\ frame[a].pc > Len(Script(a)) /\ Shaped(a)
  BY ScriptIsShaped, LenProperties DEF Shaped, AtEnd, TypeOK, ExecutorTypeOK, Locals
<1>1. CASE a \notin Content
  <2>1. frame[a].pc > CrossAt(a) + 1
    BY <1>0, <1>1 DEF Shaped
  <2> QED BY <1>1, <2>1 DEF Evident, Passed
<1>2. CASE a \in Content
  <2>1. frame[a].pc > CrossAt(a) + 2 /\ frame[a].pc > CrossAt(a) + 1
    BY <1>0, <1>2 DEF Shaped
  <2>2. frame[a].seen \in Posts /\ Shows(a, frame[a].seen)
    BY <1>2, <2>1 DEF Evident, Passed
  <2>3. PICK e \in effects : e = frame[a].seen /\ e.by \in Content \cup {NoOne} /\ Shows(a, e)
    BY <2>2 DEF Posts
  <2>4. IF e.by = NoOne THEN e.on = NoOne /\ e.text = "other"
        ELSE e.on = e.by /\ e.text = TextOf[e.by]
    BY DEF EffectsAreApproved
  <2>5. a # NoOne
    BY ExecutorAssumption
  <2>6. CASE ActionOf[a] = "post"
    <3>1. e.text = TextOf[a]
      BY <2>3, <2>6 DEF Shows, ShowsPost
    <3>2. e.by \in Content /\ TextOf[e.by] = TextOf[a]
      BY <1>2, <2>3, <2>4, <2>6, <3>1, TextAssumption
    <3>3. e.by = a
      BY <1>2, <2>6, <3>2, TextAssumption
    <3> QED BY <1>2, <3>3 DEF By
  <2>7. CASE ActionOf[a] \in {"reply", "quote"}
    <3>1. e.on = a
      BY <2>3, <2>7 DEF Shows, ShowsReply, ShowsQuote
    <3>2. e.by = a
      BY <2>4, <2>5, <3>1
    <3> QED BY <1>2, <3>2 DEF By
  <2> QED BY <1>2, <2>6, <2>7 DEF Content
<1> QED BY <1>1, <1>2

\* What is told when it is over.
LEMMA Concludes ==
  ASSUME TypeOK, CallInv, EffectsAreApproved, Evident, NothingToDo, Concluded,
         Next \/ UNCHANGED vars,
         NEW a \in Attempts, phase[a] # "over", phase'[a] = "over"
  PROVE  /\ UNCHANGED permit
         /\ standing'[a] = "confirmed" =>
              IF a \in Content THEN By(a) # {} ELSE a \in satisfied
         /\ standing'[a] = "clean" \/ told'[a] = "failed" => ~Crossed(a)
         /\ told'[a] = "ok" => standing'[a] = "confirmed" \/ a \in satisfied
<1> DEFINE Goal ==
         /\ standing'[a] = "confirmed" =>
              IF a \in Content THEN By(a) # {} ELSE a \in satisfied
         /\ standing'[a] = "clean" \/ told'[a] = "failed" => ~Crossed(a)
         /\ told'[a] = "ok" => standing'[a] = "confirmed" \/ a \in satisfied
<1>0. PICK b \in Attempts : Issue(b) \/ ExecutorStep(b) \/ Revoke(b)
  BY Steps, TaskDoes, StrayDoes, WorldDoes
<1>1. b = a /\ UNCHANGED permit
  BY <1>0, ExecutorDoes DEF Same, CallInv
<1>2. standing[a] \in {"new", "preparing"} /\ a \in Attempts
  BY DEF Concluded
<1>3. ASSUME NEW st, NEW t, Over(a, st, t) PROVE standing'[a] = st /\ told'[a] = t
  BY <1>3 DEF Over, TypeOK, AuthorityTypeOK, ExecutorTypeOK
<1>4. ActionOf[a] = "engage" \/ ActionOf[a] = "delete" => a \notin Content
  BY KindsOfActions
<1>5. CASE Issue(a)
  <2>1. phase[a] = "idle" /\ Over(a, "clean", "failed")
    BY <1>5 DEF Issue, TypeOK, ExecutorTypeOK
  <2>2. standing'[a] = "clean" /\ told'[a] = "failed"
    BY <1>3, <2>1
  <2>3. ~Crossed(a)
    BY <2>1 DEF CallInv, Phases, Crossed
  <2> QED BY <1>1, <2>2, <2>3
<1>6. CASE Scope(a)
  <2>1. ~Crossed(a)
    <3>1. frame[a].pc = CrossAt(a)
      BY <1>6, StepIs DEF Scope
    <3>2. CrossAt(a) \in Nat
      BY ScriptIsShaped DEF Shaped
    <3> QED BY <1>6, <3>1, <3>2 DEF Scope, CallInv, Phases
  <2>2. \/ Over(a, "clean", "failed")
        \/ Over(a, standing[a], "raised")
    BY <1>6 DEF Scope, To, Goto, TypeOK, ExecutorTypeOK
  <2>3. \/ standing'[a] = "clean" /\ told'[a] = "failed"
        \/ standing'[a] = standing[a] /\ told'[a] = "raised"
    BY <1>3, <2>2
  <2> QED BY <1>1, <1>2, <2>1, <2>3
<1>7. CASE Advance(a)
  <2>1. ~Crossed(a) /\ Over(a, "clean", "failed")
    BY <1>7 DEF Advance, NextStep, To, Goto, TypeOK, ExecutorTypeOK
  <2>2. standing'[a] = "clean" /\ told'[a] = "failed"
    BY <1>3, <2>1
  <2> QED BY <1>1, <2>1, <2>2
<1>8. CASE Settle(a)
  <2>1. ~Crossed(a) /\ (ActionOf[a] = "engage" => phase[a] = "settles")
    BY <1>4, <1>8 DEF Settle, CallInv, Phases
  <2>2. NoEffectAnswer(a) = "ok" => a \in satisfied
    <3>1. NoEffectAnswer(a) = "ok" => ActionOf[a] = "engage" /\ frame[a].mutated = "ok"
      BY DEF NoEffectAnswer
    <3> QED BY <2>1, <3>1 DEF NothingToDo
  <2>3. \/ standing'[a] \in {standing[a], "clean"} /\ told'[a] = NoEffectAnswer(a)
        \/ standing'[a] = standing[a] /\ told'[a] = "raised"
    BY <1>3, <1>8 DEF Settle
  <2> QED BY <1>1, <1>2, <2>1, <2>2, <2>3
<1>9. CASE Record(a)
  <2>1. Confirms(a) => phase[a] = "steps" /\ AtEnd(a)
    BY <1>9 DEF Record, Confirms, CallInv, Phases
  <2>2. Confirms(a) => IF a \in Content THEN By(a) # {} ELSE a \in satisfied
    BY <2>1, ConfirmsIsTrue
  <2>3. /\ RecordedAnswer(a) # "failed"
        /\ RecordedAnswer(a) = "ok" => Confirms(a)
    BY DEF RecordedAnswer
  <2>4. \/ /\ standing'[a] = IF Confirms(a) THEN "confirmed" ELSE "unknown"
           /\ told'[a] = RecordedAnswer(a)
        \/ standing'[a] = standing[a] /\ told'[a] \in {"raised", "unknown"}
    BY <1>3, <1>9 DEF Record
  <2> QED BY <1>1, <1>2, <2>2, <2>3, <2>4
<1>10. CASE Inspect(a) \/ Evidence(a) \/ Start(a) \/ Revoke(a)
  BY <1>10 DEF Inspect, Evidence, Start, Revoke, atExecutor, atEase
<1>11. CASE AfterCrossing(a) \/ Abort(a)
  BY <1>11 DEF AfterCrossing, Unwind, NextStep, Abort, Goto, TypeOK, ExecutorTypeOK
<1> QED BY <1>0, <1>1, <1>5, <1>6, <1>7, <1>8, <1>9, <1>10, <1>11 DEF ExecutorStep

LEMMA ConcludedStep ==
  ASSUME TypeOK, CallInv, EffectsAreApproved, OutcomeInv, Next \/ UNCHANGED vars
  PROVE  Concluded'
<1> USE DEF OutcomeInv
<1> SUFFICES ASSUME NEW a \in Attempts
             PROVE  /\ phase'[a] # "over" =>
                         standing'[a] \in {"new", "preparing"} /\ told'[a] = "nothing"
                    /\ standing'[a] = "confirmed" =>
                         IF a \in Content THEN By(a)' # {} ELSE a \in satisfied'
                    /\ standing'[a] = "clean" \/ told'[a] = "failed" => ~Crossed(a)'
                    /\ told'[a] = "ok" => standing'[a] = "confirmed" \/ a \in satisfied'
  BY DEF Concluded
<1>1. CASE phase'[a] # "over"
  <2>1. phase[a] # "over"
    BY <1>1, OverStays
  <2>2. standing[a] \in {"new", "preparing"} /\ told[a] = "nothing"
    BY <2>1 DEF Concluded
  <2>3. standing'[a] \in {"new", "preparing"} /\ told'[a] = "nothing"
    BY <1>1, <2>1, <2>2, GoesOn
  <2> QED BY <2>3
<1>2. By(a) \subseteq By(a)' /\ satisfied \subseteq satisfied'
  BY EffectsStay DEF By
<1>3. CASE phase'[a] = "over" /\ phase[a] # "over"
  <2>1. /\ UNCHANGED permit
        /\ standing'[a] = "confirmed" =>
             IF a \in Content THEN By(a) # {} ELSE a \in satisfied
        /\ standing'[a] = "clean" \/ told'[a] = "failed" => ~Crossed(a)
        /\ told'[a] = "ok" => standing'[a] = "confirmed" \/ a \in satisfied
    BY <1>3, Concludes
  <2>2. Crossed(a)' = Crossed(a)
    BY <2>1 DEF Crossed
  <2> QED BY <1>2, <1>3, <2>1, <2>2
<1>4. CASE phase[a] = "over"
  <2>1. phase'[a] = "over" /\ UNCHANGED <<standing[a], told[a]>>
    BY <1>4, OverStays
  <2>2. /\ standing[a] = "confirmed" =>
             IF a \in Content THEN By(a) # {} ELSE a \in satisfied
        /\ standing[a] = "clean" \/ told[a] = "failed" => ~Crossed(a)
        /\ told[a] = "ok" => standing[a] = "confirmed" \/ a \in satisfied
    BY DEF Concluded
  <2>3. Crossed(a)' = Crossed(a)
    BY <1>4, PermitStep DEF Crossed
  <2> QED BY <1>2, <2>1, <2>2, <2>3
<1> QED BY <1>1, <1>3, <1>4

LEMMA OutcomeInvStep ==
  ASSUME TypeOK, CallInv, EffectsAreApproved, OutcomeInv, Next \/ UNCHANGED vars
  PROVE  OutcomeInv'
BY EvidentStep, NothingToDoStep, ConcludedStep DEF OutcomeInv

--------------------------------------------------------------------------------
(* The theorems.                                                              *)

LEMMA InitHolds ==
  ASSUME Init PROVE IInv
<1> USE DEF Init, AuthorityInit, BrokerInit
<1>1. TypeOK
  <2>1. AuthorityTypeOK
    BY DEF AuthorityTypeOK, Trackers, Fresh
  <2>2. BrokerTypeOK
    BY DEF BrokerTypeOK, Someone, Pages, Words, Blank
  <2>3. ExecutorTypeOK
    BY DEF ExecutorTypeOK, Locals, Entry, Ended
  <2> QED BY <2>1, <2>2, <2>3 DEF TypeOK
<1>2. \A c \in Tasks : call[c] = NoCall
  OBVIOUS
<1>3. CallInv
  <2>1. OwnCalls /\ StrayCalls
    BY <1>2, NamesDiffer DEF OwnCalls, StrayCalls
  <2>2. LockHeld /\ PermitOfCall
    BY <1>2, NamesDiffer DEF LockHeld, PermitOfCall, NoCall
  <2>3. InTurn
    BY DEF InTurn, Running
  <2>4. Phases
    BY DEF Phases
  <2>5. SealedFirst
    BY DEF SealedFirst, Content
  <2> QED BY <2>1, <2>2, <2>3, <2>4, <2>5 DEF CallInv
<1>4. \A a \in Attempts : prep[a] = Fresh /\ phase[a] = "idle"
  OBVIOUS
<1>5. BrowserInv
  <2>1. Tracked
    BY <1>2, <1>4 DEF Tracked, NoCall, Fresh, Staging, Opening, Filling
  <2>2. Credited
    BY <1>2, <1>4 DEF Credited, NoCall, Fresh, Opening, Content
  <2>3. NoRival
    BY <1>4 DEF NoRival, Running
  <2>4. AtWork
    BY <1>2 DEF AtWork, NoCall, Opening
  <2> QED BY <2>1, <2>2, <2>3, <2>4 DEF BrowserInv
<1>6. EffectsAreApproved
  BY DEF EffectsAreApproved
<1>7. LeaseInv
  BY <1>4 DEF LeaseInv, Held, CleanedUp, GivenBack, Content, Fresh
<1>8. OutcomeInv
  BY <1>4 DEF OutcomeInv, Evident, NothingToDo, Concluded
<1> QED BY <1>1, <1>3, <1>5, <1>6, <1>7, <1>8 DEF IInv

LEMMA IInvStep ==
  ASSUME IInv, Next \/ UNCHANGED vars PROVE IInv'
<1>1. TypeOK' /\ CallInv'
  BY TypesStep, CallInvStep DEF IInv, CallInv
<1>2. BrowserInv' /\ EffectsAreApproved'
  BY BrowserInvStep, EffectsAreApprovedStep DEF IInv
<1>3. LeaseInv' /\ OutcomeInv'
  BY LeaseInvStep, OutcomeInvStep DEF IInv
<1> QED BY <1>1, <1>2, <1>3 DEF IInv

\* The invariant holds of every execution: for any attempts, one at a time, any
\* number of calls from another task, of page changes, revocations and
\* cancellations, and a kill at any time.
THEOREM Invariant == Spec => []IInv
<1>1. Init => IInv
  BY InitHolds
<1>2. IInv /\ [Next]_vars => IInv'
  BY IInvStep
<1> QED BY <1>1, <1>2, PTL DEF Spec

\* Type correctness: trackers, locals, calls and effects are what the executors
\* and the broker are written for.
THEOREM TypesHold == Spec => []TypeOK
<1>1. IInv => TypeOK
  BY DEF IInv
<1> QED BY <1>1, Invariant, PTL

\* What is clicked is what was approved: an effect has the text, the media and
\* the target of the attempt that made it (m5_scoped_write_broker.py click_submit).
THEOREM OnlyApproved == Spec => []ClickIsApproved
<1>1. IInv => ClickIsApproved
  BY DEF IInv, EffectsAreApproved, ClickIsApproved
<1> QED BY <1>1, Invariant, PTL

\* What is recorded and told is true of the site, if the text tells the approved
\* posts apart from each other and from those made elsewhere (_terminalize_consumed,
\* _interrupted_submit).
THEOREM TellsTheOutcome == Spec => []OutcomeIsTrue
<1>1. IInv => OutcomeIsTrue
  <2> SUFFICES ASSUME IInv, NEW a \in Attempts
               PROVE  /\ standing[a] = "confirmed" =>
                           IF a \in Content THEN By(a) # {} ELSE a \in satisfied
                      /\ standing[a] = "clean" => By(a) = {}
                      /\ told[a] = "failed" => By(a) = {}
                      /\ told[a] = "ok" => standing[a] = "confirmed" \/ a \in satisfied
    BY DEF OutcomeIsTrue
  <2>1. ~Crossed(a) => By(a) = {}
    BY ExecutorAssumption DEF By, IInv, EffectsAreApproved
  <2> QED BY <2>1 DEF IInv, OutcomeInv, Concluded
<1> QED BY <1>1, Invariant, PTL

\* What the tracker credits is in the browser: the composer of a running attempt
\* is never another's, and the lease of an undisturbed one is taken
\* (_PreparationTracker.finish_stage).
THEOREM CreditedIsHeld == Spec => []StagedMeansHeld
<1>1. IInv => StagedMeansHeld
  <2> SUFFICES ASSUME IInv, NEW a \in Content, prep[a].opened, ~Crossed(a)
               PROVE  /\ a \in Running => context \in {a, NoOne}
                      /\ Undisturbed(a) => owner /\ context = a
    BY DEF StagedMeansHeld
  <2>1. a \in Running => context \in {a, NoOne}
    BY DEF IInv, BrowserInv, NoRival
  <2>2. Undisturbed(a) => owner /\ context = a
    BY DEF IInv, LeaseInv, Held
  <2> QED BY <2>1, <2>2
<1> QED BY <1>1, Invariant, PTL

\* Nothing keeps the browser between invocations, unless a cleanup or an
\* interrupted submit failed (_abort_precommit).
THEOREM GivesBack == Spec => []NothingHeldAfterwards
<1>1. IInv => NothingHeldAfterwards
  <2> SUFFICES ASSUME IInv, Running = {}, load.strays = 0, owner, ~spoiled PROVE FALSE
    BY DEF NothingHeldAfterwards
  <2>1. PICK a \in Content : Keeps(a)
    BY DEF IInv, LeaseInv, GivenBack
  <2>2. a \in Running
    BY <2>1 DEF Keeps, Running, Content
  <2> QED BY <2>2
<1> QED BY <1>1, Invariant, PTL

================================================================================
