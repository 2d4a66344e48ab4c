-------------------------- MODULE ReconciliationProofs -------------------------
(***************************************************************************)
(* Proofs about Reconciliation, for any effects and any number of rival    *)
(* proposals: a verdict stands, it never meets an outcome, a committed     *)
(* fact is the only verdict its effect can get, and only facts end a block.*)
(***************************************************************************)
EXTENDS Reconciliation, TLAPS

Settled(e) == seen[e].state \in {"confirmed", "no_effect"}

\* What the life of an attempt says of its rows.
LivesAndRows ==
  \A e \in Effects :
    /\ life[e] = "unborn" => seen[e] = NoFact /\ kept[e] = NoFact /\ e \notin crossed
    /\ life[e] = "private" /\ e \in Required => seen[e] = NoFact /\ e \notin crossed
    /\ life[e] = "private" => seen[e].state # "reserved"

\* A certain fact is visible, perhaps with a successor: an outcome has none.
KeptIsSeen ==
  \A e \in Effects :
    /\ kept[e] # NoFact => seen[e] # NoFact
    /\ kept[e].state \in {"confirmed", "no_effect"} => seen[e] = kept[e]

\* A fenced effect has crossed behind a reservation that is certain.
CrossedIsKept == \A e \in crossed \cap Required : kept[e] # NoFact

OwnersCore == OwnersTypeOK /\ LivesAndRows /\ KeptIsSeen

OwnersInv == OwnersCore /\ CrossedIsKept

\* A visible verdict is about an effect that is not owned, and that the
\* gateway can not settle any more.
VerdictsAreFinal ==
  \A e \in Effects : rows[e] # NoOne =>
    /\ life[e] \in {"private", "over"} /\ ~Settled(e)
    /\ life[e] = "private" => seen[e].state = "unknown"

KeptRowsAreRows == \A e \in Effects : keptRows[e] # NoOne => rows[e] = keptRows[e]

\* A pin is the one committed authority of its effect.
PinsAreCommitted ==
  /\ \A e \in Effects : pinned[e] # NoOne =>
       EffectOf[pinned[e]] = e /\ stage[pinned[e]] = "committed"
  /\ \A a \in Authorities : stage[a] = "committed" => pinned[EffectOf[a]] = a

PinsPrevail == \A e \in Effects : pinned[e] # NoOne => rows[e] \in {NoOne, pinned[e]}

\* An append is in progress only for a committed fact about an open effect that
\* nobody owns.
AppendIsOfAPin ==
  call.at = "append" =>
    LET e == EffectOf[call.by] IN
    /\ call.by \in Authorities /\ stage[call.by] = "committed"
    /\ pinned[e] = call.by
    /\ Open(e) /\ ~Owned(e)

\* A blocked effect has a row, as has one that is about to be; a join that
\* leaves it out has seen its outcome.
BlocksHaveRows ==
  /\ \A e \in call.open : seen[e] # NoFact
  /\ \A e \in guard.blocks :
       /\ seen[e] # NoFact
       /\ call.at = "join" /\ e \notin call.open => Settled(e)

RInv ==
  /\ OwnersInv /\ RecoveryTypeOK
  /\ VerdictsAreFinal /\ KeptRowsAreRows /\ PinsAreCommitted /\ PinsPrevail
  /\ AppendIsOfAPin /\ VerdictStands /\ BlocksHaveRows

--------------------------------------------------------------------------------
(* The effects and their owners, for every step EffectOwners allows.       *)

\* NoFact is no fact.
LEMMA FactsAreFacts ==
  ASSUME NEW f \in Fact
  PROVE  /\ f # NoFact /\ f.state \in FactStates /\ f.effect \in Effects
         /\ NoFact.state = "none"
  BY DEF Fact, NoFact, FactStates

\* What an append of f may do to the record, whether it returns or raises.
LEMMA AppendMoves ==
  ASSUME OwnersCore, NEW f \in Fact, Persist(f) \/ Raise(f)
  PROVE  /\ LedgerTypeOK' /\ KeptIsSeen'
         /\ \A e \in Effects \ {f.effect} : seen'[e] = seen[e]
         /\ seen'[f.effect] \in {seen[f.effect], f}
         /\ seen'[f.effect] # seen[f.effect] =>
              seen[f.effect] = NoFact \/ seen[f.effect].state = "reserved"
         /\ \A e \in Effects : seen[e] # NoFact => seen'[e] # NoFact
         /\ \A e \in Effects : kept'[e] \in {kept[e], seen'[e]}
<1> USE FactsAreFacts DEF OwnersCore, OwnersTypeOK, LedgerTypeOK
<1>1. CASE UNCHANGED <<seen, kept>>
  BY <1>1 DEF KeptIsSeen
<1>2. CASE Acceptable(f) /\ seen' = [seen EXCEPT ![f.effect] = f]
           /\ kept' \in {kept, seen'}
  <2>1. seen[f.effect] = f \/ seen[f.effect] = NoFact
        \/ seen[f.effect].state = "reserved"
    BY <1>2 DEF Acceptable, MayFollow
  <2>2. LedgerTypeOK' /\ seen'[f.effect] = f
        /\ \A e \in Effects \ {f.effect} : seen'[e] = seen[e]
    BY <1>2
  <2>3. kept[f.effect].state \in {"confirmed", "no_effect"} =>
          seen'[f.effect] = kept[f.effect]
    BY <1>2, <2>1 DEF KeptIsSeen
  <2>4. KeptIsSeen'
    BY <1>2, <2>2, <2>3 DEF KeptIsSeen
  <2> QED BY <1>2, <2>1, <2>2, <2>4
<1> QED BY <1>1, <1>2 DEF Persist, Raise, Falter

\* A power failure keeps what is certain, and invents no outcome.
LEMMA PowerMoves ==
  ASSUME OwnersCore, PowerFails, NEW e \in Effects
  PROVE  /\ LedgerTypeOK' /\ kept' = seen'
         /\ seen[e] = NoFact => seen'[e] = NoFact
         /\ seen'[e] # seen[e] => seen'[e] = kept[e] \/ seen'[e].state = "reserved"
<1> USE FactsAreFacts DEF OwnersCore, OwnersTypeOK, LedgerTypeOK
<1>1. \A x \in Effects : seen'[x] \in Fact \cup {NoFact}
  <2> SUFFICES ASSUME NEW x \in Effects PROVE seen'[x] \in Fact \cup {NoFact}
    OBVIOUS
  <2>1. Survivors(x) \subseteq Fact \cup {NoFact}
    BY DEF Survivors
  <2> QED BY <2>1 DEF PowerFails
<1>2. seen'[e] \in Survivors(e)
  BY DEF PowerFails
<1> QED BY <1>1, <1>2 DEF PowerFails, Survivors, MayFollow, KeptIsSeen

\* A row of an effect is a fact about it.
LEMMA RowsAreFacts ==
  ASSUME NEW e \in Effects, NEW f \in RowsOf(e)
  PROVE  f \in Fact /\ f.effect = e
  BY DEF RowsOf, Fact

\* What is true of the effects and their owners at first.
LEMMA OwnersStart == OwnersInit => OwnersInv
  BY RequiredAssumption
  DEF OwnersInit, LedgerInit, OwnersInv, OwnersCore, CrossedIsKept,
      OwnersTypeOK, LedgerTypeOK,
      LivesAndRows, KeptIsSeen, NoFact

\* Every step keeps the types, and what the life of an attempt says of its rows.
LEMMA CoreMoves ==
  ASSUME OwnersCore, OwnersNext \/ UNCHANGED ownerVars
  PROVE  OwnersCore'
<1> USE FactsAreFacts DEF OwnersCore, OwnersTypeOK
<1>1. CASE UNCHANGED ownerVars
  BY <1>1 DEF ownerVars, LedgerTypeOK, LivesAndRows, KeptIsSeen
<1>2. ASSUME NEW e \in Effects, Begin(e) \/ Abandon(e) PROVE OwnersCore'
  <2>1. NoFact.state # "reserved"
    BY DEF NoFact
  <2> QED BY <1>2, <2>1
          DEF Begin, Abandon, Lives, LedgerTypeOK, LivesAndRows, KeptIsSeen
<1>3. ASSUME NEW e \in Effects, Own(e) PROVE OwnersCore'
  <2>1. PICK f \in Fact : f.effect = e /\ (Persist(f) \/ Raise(f))
    BY <1>3, RowsAreFacts DEF Own
  <2>2. LedgerTypeOK' /\ KeptIsSeen'
    BY <2>1, AppendMoves
  <2>3. LivesAndRows'
    BY <1>3, <2>1, AppendMoves DEF Own, Lives, LivesAndRows
  <2> QED BY <1>3, <2>2, <2>3 DEF Own, Lives
<1>4. ASSUME NEW e \in Effects, Cross(e) PROVE OwnersCore'
  BY <1>4 DEF Cross, LedgerTypeOK, LivesAndRows, KeptIsSeen
<1>5. ASSUME NEW e \in Effects, Write(e) PROVE OwnersCore'
  <2>1. PICK f \in RowsOf(e) : MayWrite(e, f) /\ (Persist(f) \/ Raise(f))
    BY <1>5 DEF Write
  <2>2. f \in Fact /\ f.effect = e
    BY RowsAreFacts
  <2>3. LedgerTypeOK' /\ KeptIsSeen'
    BY <2>1, <2>2, AppendMoves
  <2>4. LivesAndRows'
    BY <1>5, <2>1, <2>2, AppendMoves DEF Write, MayWrite, LivesAndRows
  <2> QED BY <1>5, <2>3, <2>4 DEF Write
<1>6. ASSUME NEW e \in Effects, LetGo(e) PROVE OwnersCore'
  <2>1. PICK f \in RowsOf(e) : MayWrite(e, f) /\ Persist(f)
    BY <1>6 DEF LetGo
  <2>2. f \in Fact /\ f.effect = e
    BY RowsAreFacts
  <2>3. LedgerTypeOK' /\ KeptIsSeen'
    BY <2>1, <2>2, AppendMoves
  <2>4. LivesAndRows'
    BY <1>6, <2>1, <2>2, AppendMoves DEF LetGo, Lives, LivesAndRows
  <2> QED BY <1>6, <2>3, <2>4 DEF LetGo, Lives
<1>7. CASE AllOver /\ UNCHANGED <<seen, kept>>
  BY <1>7 DEF AllOver, LedgerTypeOK, LivesAndRows, KeptIsSeen
<1>8. CASE AllOver /\ PowerFails
  <2>1. LedgerTypeOK' /\ kept' = seen'
        /\ \A e \in Effects : seen[e] = NoFact => seen'[e] = NoFact
    BY <1>8, PowerMoves DEF PowerFails, LedgerTypeOK, Survivors, MayFollow, KeptIsSeen
  <2>2. LivesAndRows' /\ KeptIsSeen'
    BY <1>8, <2>1 DEF AllOver, LivesAndRows, KeptIsSeen, NoFact
  <2> QED BY <1>8, <2>1, <2>2 DEF AllOver
<1> QED BY <1>1, <1>2, <1>3, <1>4, <1>5, <1>6, <1>7, <1>8
        DEF OwnersNext, Step

\* Every step keeps a reservation that is certain behind what has crossed.
LEMMA CrossedMoves ==
  ASSUME OwnersInv, OwnersNext \/ UNCHANGED ownerVars
  PROVE  CrossedIsKept'
<1> USE DEF OwnersInv, CrossedIsKept
<1>1. ASSUME kept' = kept, crossed' \subseteq crossed PROVE CrossedIsKept'
  BY <1>1
<1>2. ASSUME NEW e \in Effects, Begin(e) \/ Abandon(e) PROVE CrossedIsKept'
  BY <1>1, <1>2 DEF Begin, Abandon
<1>3. ASSUME NEW e \in Effects, Cross(e) PROVE CrossedIsKept'
  BY <1>3 DEF Cross, NoFact
<1>4. ASSUME NEW e \in Effects, Own(e) \/ Write(e) \/ LetGo(e)
      PROVE  CrossedIsKept'
  <2>1. crossed' = crossed
    BY <1>4 DEF Own, Write, LetGo
  <2>2. PICK f \in Fact : Persist(f) \/ Raise(f)
    BY <1>4, RowsAreFacts DEF Own, Write, LetGo
  <2>3. \A x \in Effects : kept[x] # NoFact => kept'[x] # NoFact
    BY <2>2, AppendMoves DEF OwnersCore, KeptIsSeen
  <2> QED BY <2>1, <2>3, RequiredAssumption
<1>5. CASE AllOver /\ PowerFails
  <2>1. \A x \in Effects : kept[x] # NoFact => kept'[x] # NoFact
    BY <1>5, PowerMoves DEF OwnersCore, KeptIsSeen, NoFact
  <2> QED BY <1>5, <2>1, RequiredAssumption DEF AllOver
<1>6. CASE UNCHANGED ownerVars \/ (AllOver /\ UNCHANGED <<seen, kept>>)
  BY <1>1, <1>6 DEF AllOver, ownerVars
<1> QED BY <1>2, <1>3, <1>4, <1>5, <1>6 DEF OwnersNext, Step

\* Both together.
LEMMA OwnersMove ==
  ASSUME OwnersInv, OwnersNext \/ UNCHANGED ownerVars
  PROVE  OwnersInv'
  BY CoreMoves, CrossedMoves DEF OwnersInv

--------------------------------------------------------------------------------
(* Steps that leave the effects alone.                                     *)

\* What RInv says beyond OwnersInv and the types.
Parts ==
  /\ VerdictsAreFinal /\ KeptRowsAreRows /\ PinsAreCommitted /\ PinsPrevail
  /\ AppendIsOfAPin /\ VerdictStands /\ BlocksHaveRows

\* A read of the file, by whoever has no append in progress.
LEMMA ReadKeeps ==
  ASSUME RInv, ReadAuthoritative,
         UNCHANGED <<ownerVars, stage, lapsed, pinned, call, guard, valid>>
  PROVE  RecoveryTypeOK' /\ Parts'
  BY DEF RInv, RecoveryTypeOK, OwnersTypeOK, LedgerTypeOK, Someone, Parts,
     ReadAuthoritative, ownerVars, VerdictsAreFinal, KeptRowsAreRows, Settled,
     PinsAreCommitted, PinsPrevail, AppendIsOfAPin, VerdictStands, Open, Owned,
     BlocksHaveRows

\* An effect with a row that is not settled is open.
LEMMA OpenOrSettled ==
  ASSUME OwnersInv, NEW e \in Effects, seen[e] # NoFact
  PROVE  Open(e) \/ Settled(e)
  BY FactsAreFacts
  DEF OwnersInv, OwnersCore, OwnersTypeOK, LedgerTypeOK, Open, Settled, Fact, FactStates

\* What is open has a row.
LEMMA OpenHasRow ==
  ASSUME OwnersInv, NEW e \in Effects, Open(e) PROVE seen[e] # NoFact
  BY DEF Open, NoFact

\* A refresh of the guard, begun, published or failed.
LEMMA GuardStep ==
  ASSUME RInv, BeginRefresh \/ Publish \/ PublishFails
  PROVE  RecoveryTypeOK' /\ Parts'
<1> USE DEF RInv, Parts, ownerVars, fileVars
<1>a. /\ rows' = rows /\ keptRows' \in {keptRows, rows}
      /\ UNCHANGED <<seen, kept, life, crossed, torn, latch, stage, lapsed, pinned,
                     valid>>
  BY DEF BeginRefresh, Publish, PublishFails, ReadAuthoritative
<1>b. /\ call' \in [at : {"idle", "join"}, by : {NoOne}, open : SUBSET Effects]
      /\ guard' \in [up : BOOLEAN, blocks : SUBSET Effects]
  <2>1. CASE BeginRefresh
    BY <2>1 DEF BeginRefresh, RecoveryTypeOK, Idle, OpenEffects
  <2>2. CASE Publish
    BY <2>2 DEF Publish, RecoveryTypeOK, Idle, Unreconciled
  <2>3. CASE PublishFails
    BY <2>3 DEF PublishFails, Idle, Down
  <2> QED BY <2>1, <2>2, <2>3
<1>1. RecoveryTypeOK'
  BY <1>a, <1>b DEF RecoveryTypeOK, OwnersTypeOK, LedgerTypeOK, Someone
<1>2. /\ VerdictsAreFinal' /\ KeptRowsAreRows' /\ PinsAreCommitted'
      /\ PinsPrevail' /\ VerdictStands' /\ AppendIsOfAPin'
  BY <1>a, <1>b, AuthorityAssumption
  DEF RecoveryTypeOK, VerdictsAreFinal, KeptRowsAreRows, PinsAreCommitted,
      PinsPrevail, VerdictStands, AppendIsOfAPin, Settled
<1>3. BlocksHaveRows'
  <2>1. CASE BeginRefresh
    BY <2>1, OpenOrSettled, OpenHasRow
    DEF BeginRefresh, BlocksHaveRows, OpenEffects, Idle, RecoveryTypeOK, Settled
  <2>2. CASE Publish
    BY <2>2, <1>a DEF Publish, BlocksHaveRows, Unreconciled, Idle
  <2>3. CASE PublishFails
    BY <2>3 DEF PublishFails, BlocksHaveRows, Down, Idle
  <2> QED BY <2>1, <2>2, <2>3
<1> QED BY <1>1, <1>2, <1>3

\* What a step of an operator may do to the file and to a stage.
LEMMA ProposeStep ==
  ASSUME RInv, NEW a \in Authorities,
         Propose(a) \/ Confirm(a) \/ AuthorityLapses(a) \/ ResolveExpired(a)
  PROVE  RecoveryTypeOK' /\ Parts'
<1> USE DEF RInv, Parts, ownerVars, fileVars
<1>a. /\ rows' = rows /\ keptRows' \in {keptRows, rows}
      /\ UNCHANGED <<seen, kept, life, crossed, torn, latch, pinned, call, guard,
                     valid>>
  BY DEF Propose, Confirm, AuthorityLapses, ResolveExpired, MayResolve,
     ReadAuthoritative
<1>b. \/ UNCHANGED stage
      \/ /\ stage[a] \in {"none", "proposed", "confirmed"}
         /\ \E st \in {"proposed", "confirmed"} : stage' = [stage EXCEPT ![a] = st]
  BY DEF Propose, Confirm, AuthorityLapses, ResolveExpired, MoveTo
<1>c. lapsed' \subseteq Authorities
  BY DEF Propose, Confirm, AuthorityLapses, ResolveExpired, RecoveryTypeOK
<1>1. RecoveryTypeOK'
  BY <1>a, <1>b, <1>c DEF RecoveryTypeOK, OwnersTypeOK, LedgerTypeOK, Someone
<1>2. VerdictsAreFinal' /\ KeptRowsAreRows' /\ PinsPrevail' /\ BlocksHaveRows'
  BY <1>a
  DEF RecoveryTypeOK, VerdictsAreFinal, KeptRowsAreRows, PinsPrevail,
      BlocksHaveRows, Settled
<1>3. PinsAreCommitted' /\ VerdictStands' /\ AppendIsOfAPin'
  BY <1>a, <1>b, AuthorityAssumption
  DEF RecoveryTypeOK, PinsAreCommitted, VerdictStands, AppendIsOfAPin, Open, Owned,
      Someone
<1> QED BY <1>1, <1>2, <1>3

\* BeginResolve pins an effect that is open, owned by nobody and without a row
\* of another.
LEMMA BeginResolveStep ==
  ASSUME RInv, NEW a \in Authorities, BeginResolve(a)
  PROVE  RecoveryTypeOK' /\ Parts'
<1> USE AuthorityAssumption DEF RInv, Parts, ownerVars, fileVars
<1>a. /\ rows' = rows /\ keptRows' \in {keptRows, rows}
      /\ UNCHANGED <<seen, kept, life, crossed, torn, latch, guard, lapsed>>
      /\ stage' = [stage EXCEPT ![a] = "committed"]
      /\ pinned' = [pinned EXCEPT ![EffectOf[a]] = a]
      /\ call' = [at |-> "append", by |-> a, open |-> {}] /\ valid' = {}
      /\ stage[a] \in {"confirmed", "committed"}
  BY DEF BeginResolve, MayResolve, ReadAuthoritative, MoveTo
<1>b. /\ Open(EffectOf[a]) /\ ~Owned(EffectOf[a]) /\ EffectOf[a] \in Effects
      /\ rows[EffectOf[a]] \in {NoOne, a} /\ pinned[EffectOf[a]] \in {NoOne, a}
  BY DEF BeginResolve, MayResolve, PinsPrevail
<1>1. RecoveryTypeOK'
  BY <1>a DEF RecoveryTypeOK, OwnersTypeOK, LedgerTypeOK, Someone
<1>2. VerdictsAreFinal' /\ KeptRowsAreRows' /\ BlocksHaveRows' /\ VerdictStands'
  BY <1>a
  DEF RecoveryTypeOK, VerdictsAreFinal, KeptRowsAreRows, BlocksHaveRows, Settled,
      VerdictStands
<1>3. PinsAreCommitted' /\ PinsPrevail'
  BY <1>a, <1>b DEF RecoveryTypeOK, PinsAreCommitted, PinsPrevail, Someone
<1>4. AppendIsOfAPin'
  BY <1>a, <1>b DEF RecoveryTypeOK, AppendIsOfAPin, Open, Owned
<1> QED BY <1>1, <1>2, <1>3, <1>4

\* What holds of an append that is in progress.
LEMMA InAppend ==
  ASSUME RInv, call.at = "append", NEW a, a = call.by
  PROVE  /\ a \in Authorities /\ EffectOf[a] \in Effects /\ a # NoOne
         /\ stage[a] = "committed" /\ pinned[EffectOf[a]] = a
         /\ rows[EffectOf[a]] \in {NoOne, a}
         /\ Open(EffectOf[a]) /\ life[EffectOf[a]] \in {"private", "over"}
         /\ life[EffectOf[a]] = "private" => seen[EffectOf[a]].state = "unknown"
         /\ \A b \in Authorities \ {a} : stage[b] \in {"committed", "consumed"}
              => EffectOf[b] # EffectOf[a]
<1>1. /\ a \in Authorities /\ EffectOf[a] \in Effects /\ a # NoOne
      /\ stage[a] = "committed" /\ pinned[EffectOf[a]] = a
      /\ rows[EffectOf[a]] \in {NoOne, a}
      /\ Open(EffectOf[a]) /\ ~Owned(EffectOf[a])
  BY AuthorityAssumption DEF RInv, AppendIsOfAPin, PinsPrevail
<1>2. /\ life[EffectOf[a]] \in {"private", "over"}
      /\ life[EffectOf[a]] = "private" => seen[EffectOf[a]].state = "unknown"
  BY <1>1, OpenHasRow
  DEF RInv, OwnersInv, OwnersCore, OwnersTypeOK, LivesAndRows, Open, Owned
<1>3. ASSUME NEW b \in Authorities \ {a}, EffectOf[b] = EffectOf[a]
      PROVE  stage[b] \notin {"committed", "consumed"}
  BY <1>1, <1>3, AuthorityAssumption DEF RInv, PinsAreCommitted, VerdictStands
<1> QED BY <1>1, <1>2, <1>3

\* The file after an append of a: its row may be there, nothing else moved.
LEMMA RowOfA ==
  ASSUME RInv, call.at = "append", NEW a, a = call.by,
         rows' = [rows EXCEPT ![EffectOf[a]] = a] \/ rows' = rows,
         keptRows' \in {keptRows, rows'},
         UNCHANGED <<seen, kept, life, crossed>>
  PROVE  /\ rows' \in [Effects -> Someone] /\ keptRows' \in [Effects -> Someone]
         /\ VerdictsAreFinal' /\ KeptRowsAreRows'
         /\ \A b \in Authorities : stage[b] = "consumed" =>
              rows'[EffectOf[b]] = b /\ keptRows'[EffectOf[b]] = b
         /\ \A e \in Effects : pinned[e] # NoOne => rows'[e] \in {NoOne, pinned[e]}
<1> USE InAppend, AuthorityAssumption DEF RInv
<1>1. rows' \in [Effects -> Someone] /\ keptRows' \in [Effects -> Someone]
  BY DEF RecoveryTypeOK, Someone
<1>2. VerdictsAreFinal'
  BY DEF VerdictsAreFinal, RecoveryTypeOK, Settled, Open
<1>3. KeptRowsAreRows'
  BY DEF KeptRowsAreRows, RecoveryTypeOK
<1>4. ASSUME NEW b \in Authorities, stage[b] = "consumed"
      PROVE  rows'[EffectOf[b]] = b /\ keptRows'[EffectOf[b]] = b
  BY <1>4 DEF VerdictStands, RecoveryTypeOK
<1>5. ASSUME NEW e \in Effects, pinned[e] # NoOne
      PROVE  rows'[e] \in {NoOne, pinned[e]}
  BY <1>5 DEF PinsPrevail, RecoveryTypeOK
<1> QED BY <1>1, <1>2, <1>3, <1>4, <1>5

\* The append returns: the row is certain, the pin gone, the authority used up.
LEMMA AppendStep ==
  ASSUME RInv, Append \/ AppendAgain
  PROVE  RecoveryTypeOK' /\ Parts'
<1> DEFINE a == call.by
<1> USE DEF Parts, ownerVars, fileVars
<1>a. call.at = "append"
  BY DEF Append, AppendAgain
<1>b. /\ UNCHANGED <<seen, kept, life, crossed, torn, lapsed, guard, valid>>
      /\ stage' = [stage EXCEPT ![a] = "consumed"]
      /\ pinned' = [pinned EXCEPT ![EffectOf[a]] = NoOne]
      /\ call' = [call EXCEPT !.at = "join", !.open = OpenEffects]
      /\ rows' = [rows EXCEPT ![EffectOf[a]] = a] \/ rows' = rows
      /\ keptRows' = rows' /\ latch' = NoOne
  BY DEF Append, AppendAgain, Appended, MoveTo, a
<1>c. rows'[EffectOf[a]] = a
  BY <1>a, InAppend DEF Append, AppendAgain, RInv, RecoveryTypeOK
<1>d. a \in Authorities /\ EffectOf[a] \in Effects /\ pinned[EffectOf[a]] = a
  BY <1>a, InAppend
<1> HIDE DEF a
<1>1. RecoveryTypeOK'
  BY <1>a, <1>b, <1>d, RowOfA
  DEF RInv, RecoveryTypeOK, OwnersTypeOK, LedgerTypeOK, Someone, OpenEffects, a
<1>2. VerdictsAreFinal' /\ KeptRowsAreRows'
  BY <1>a, <1>b, RowOfA DEF a
<1>3. VerdictStands'
  BY <1>a, <1>b, <1>c, <1>d, RowOfA DEF a, VerdictStands, RInv, RecoveryTypeOK
<1>4. PinsPrevail'
  BY <1>a, <1>b, <1>d, RowOfA DEF a, PinsPrevail, RInv, RecoveryTypeOK
<1>5. PinsAreCommitted'
  BY <1>b, <1>d, AuthorityAssumption DEF PinsAreCommitted, RInv, RecoveryTypeOK
<1>6. AppendIsOfAPin'
  BY <1>b DEF AppendIsOfAPin, RInv, RecoveryTypeOK
<1>7. BlocksHaveRows'
  BY <1>b, OpenOrSettled, OpenHasRow
  DEF BlocksHaveRows, OpenEffects, RInv, RecoveryTypeOK, Settled
<1> QED BY <1>1, <1>2, <1>3, <1>4, <1>5, <1>6, <1>7

\* The append fails: only its own row may have become visible.
LEMMA AppendFailsStep ==
  ASSUME RInv, AppendFails
  PROVE  RecoveryTypeOK' /\ Parts'
<1> DEFINE a == call.by
<1> USE DEF Parts, ownerVars, fileVars
<1>a. /\ call.at = "append" /\ call' = Idle /\ keptRows' = keptRows
      /\ rows' = [rows EXCEPT ![EffectOf[a]] = a] \/ rows' = rows
      /\ torn' \in {torn, TRUE} /\ latch' \in {latch, a}
      /\ UNCHANGED <<seen, kept, life, crossed, stage, lapsed, pinned, guard, valid>>
  BY DEF AppendFails
<1>b. a \in Authorities /\ EffectOf[a] \in Effects
  BY <1>a, InAppend
<1> HIDE DEF a
<1>1. RecoveryTypeOK'
  BY <1>a, <1>b, RowOfA
  DEF RInv, RecoveryTypeOK, OwnersTypeOK, LedgerTypeOK, Someone, Idle, a
<1>2. VerdictsAreFinal' /\ KeptRowsAreRows' /\ VerdictStands' /\ PinsPrevail'
  BY <1>a, RowOfA DEF a, VerdictStands, PinsPrevail
<1>3. PinsAreCommitted' /\ AppendIsOfAPin'
  BY <1>a DEF PinsAreCommitted, AppendIsOfAPin, Idle, RInv
<1>4. BlocksHaveRows'
  BY <1>a DEF BlocksHaveRows, Idle, RInv
<1> QED BY <1>1, <1>2, <1>3, <1>4

--------------------------------------------------------------------------------
(* Steps of the effects, and failures.                                     *)

\* While an append is in progress the effects stay as they are, and a verdict's
\* effect is past all writing.
LEMMA OwnerKeeps ==
  ASSUME RInv, NEW x \in Effects, OwnerStep(x)
  PROVE  /\ \A e \in Effects : rows[e] # NoOne =>
              /\ life'[e] \in {"private", "over"} /\ seen'[e] = seen[e]
              /\ life'[e] = "private" => life[e] = "private"
         /\ \A e \in Effects : seen[e] # NoFact => seen'[e] # NoFact
         /\ \A e \in Effects : Settled(e) => Settled(e)'
         /\ call.at = "append" => seen' = seen
              /\ \A e \in Effects : life[e] # "owned" => life'[e] # "owned"
<1> USE FactsAreFacts
    DEF RInv, OwnersInv, OwnersCore, OwnersTypeOK, VerdictsAreFinal, Settled
<1>1. CASE Begin(x) \/ Abandon(x)
  BY <1>1 DEF Begin, Abandon, Lives
<1>2. CASE ~GatewayHeld /\ Cross(x)
  BY <1>2, InAppend, AuthorityAssumption DEF Cross, GatewayHeld
<1>3. CASE ~GatewayHeld /\ (Own(x) \/ Write(x) \/ LetGo(x))
  <2>1. call.at # "append"
    BY <1>3, InAppend, AuthorityAssumption DEF GatewayHeld
  <2>2. PICK f \in Fact : f.effect = x /\ (Persist(f) \/ Raise(f))
    BY <1>3, RowsAreFacts DEF Own, Write, LetGo
  <2>3. /\ \A e \in Effects \ {x} : seen'[e] = seen[e]
        /\ seen'[x] # seen[x] => seen[x] = NoFact \/ seen[x].state = "reserved"
        /\ \A e \in Effects : seen[e] # NoFact => seen'[e] # NoFact
    BY <2>2, AppendMoves DEF RInv, OwnersInv
  <2>4. /\ \A e \in Effects \ {x} : life'[e] = life[e]
        /\ life[x] \in {"private", "owned"}
        /\ life'[x] \in {life[x], "over"}
           \/ (x \in Required /\ life[x] = "private" /\ life'[x] = "owned")
    <3>1. CASE Own(x)
      BY <3>1 DEF Own, Lives
    <3>2. CASE Write(x)
      BY <3>2 DEF Write, MayWrite
    <3>3. CASE LetGo(x)
      BY <3>3 DEF LetGo, MayWrite, Lives
    <3> QED BY <1>3, <3>1, <3>2, <3>3
  <2>5. NoFact.state = "none"
    BY DEF NoFact
  <2> QED BY <2>1, <2>3, <2>4, <2>5 DEF LivesAndRows
<1> QED BY <1>1, <1>2, <1>3 DEF OwnerStep

\* A step of an effect keeps all that recovery relies on.
LEMMA OwnersStep ==
  ASSUME RInv, NEW x \in Effects, OwnerStep(x)
  PROVE  OwnersInv' /\ RecoveryTypeOK' /\ Parts'
<1> USE DEF RInv, Parts, recVars, fileVars
<1>a. UNCHANGED <<rows, keptRows, torn, latch, stage, lapsed, pinned, call, guard,
                  valid>>
  BY DEF OwnerStep
<1>1. OwnersInv'
  BY OwnersMove DEF OwnerStep, OwnersNext, Step
<1>2. RecoveryTypeOK'
  BY <1>a, <1>1 DEF RecoveryTypeOK, OwnersInv, OwnersCore
<1>3. VerdictsAreFinal'
  BY <1>a, OwnerKeeps DEF VerdictsAreFinal, Settled
<1>4. KeptRowsAreRows' /\ PinsAreCommitted' /\ PinsPrevail' /\ VerdictStands'
  BY <1>a DEF KeptRowsAreRows, PinsAreCommitted, PinsPrevail, VerdictStands
<1>5. AppendIsOfAPin'
  BY <1>a, OwnerKeeps, AuthorityAssumption DEF AppendIsOfAPin, Open, Owned
<1>6. BlocksHaveRows'
  BY <1>a, OwnerKeeps DEF BlocksHaveRows, RecoveryTypeOK
<1> QED BY <1>1, <1>2, <1>3, <1>4, <1>5, <1>6

\* A crash forgets everything but the two files; a power failure takes what is
\* only visible, or leaves it, and a verdict that is certain with its effect.
LEMMA FailureStep ==
  ASSUME RInv, RecoveryDies \/ RecoveryPowerLoss
  PROVE  OwnersInv' /\ RecoveryTypeOK' /\ Parts'
<1> USE DEF RInv, Parts
<1>a. /\ stage' = [a \in Authorities |->
                    IF stage[a] \in {"none", "consumed"} THEN stage[a] ELSE "gone"]
      /\ lapsed' = {} /\ pinned' = [e \in Effects |-> NoOne]
      /\ latch' = NoOne /\ call' = Idle /\ guard' = Down /\ valid' = {}
      /\ rows' \in {rows, keptRows} /\ keptRows' \in {keptRows, rows'}
      /\ torn' \in BOOLEAN
      /\ AllOver /\ (UNCHANGED <<seen, kept>> \/ PowerFails)
  BY DEF RecoveryDies, RecoveryPowerLoss, ForgetAuthorities, RecoveryTypeOK
<1>b. rows' = keptRows' \/ (rows' = rows /\ keptRows' = keptRows)
  <2>1. CASE RecoveryDies
    BY <2>1 DEF RecoveryDies
  <2>2. CASE RecoveryPowerLoss
    BY <2>2 DEF RecoveryPowerLoss
  <2> QED BY <2>1, <2>2
<1>1. OwnersInv'
  BY <1>a, OwnersMove DEF OwnersNext
<1>2. RecoveryTypeOK'
  BY <1>a, <1>1 DEF RecoveryTypeOK, OwnersInv, OwnersCore, Someone, Idle, Down
<1>3. ASSUME NEW e \in Effects, rows'[e] # NoOne
      PROVE  /\ life'[e] = "over" /\ ~Settled(e)'
  <2>1. rows[e] # NoOne
    BY <1>3, <1>a DEF KeptRowsAreRows
  <2>2. life'[e] = "over"
    BY <2>1, <1>a DEF VerdictsAreFinal, AllOver
  <2>3. CASE UNCHANGED <<seen, kept>>
    BY <2>1, <2>3, <2>2 DEF VerdictsAreFinal, Settled
  <2>4. CASE PowerFails
    <3>1. seen'[e] = seen[e] \/ seen'[e] = kept[e] \/ seen'[e].state = "reserved"
      BY <2>4, PowerMoves DEF OwnersInv
    <3>2. ~Settled(e) /\ (kept[e].state \in {"confirmed", "no_effect"} => Settled(e))
      BY <2>1 DEF VerdictsAreFinal, OwnersInv, OwnersCore, KeptIsSeen, Settled
    <3> QED BY <2>2, <3>1, <3>2 DEF Settled
  <2> QED BY <1>a, <2>3, <2>4
<1>4. VerdictsAreFinal'
  BY <1>3 DEF VerdictsAreFinal
<1>5. KeptRowsAreRows'
  BY <1>b DEF KeptRowsAreRows
<1>6. PinsAreCommitted' /\ PinsPrevail'
  BY <1>a, AuthorityAssumption DEF PinsAreCommitted, PinsPrevail, RecoveryTypeOK
<1>7. VerdictStands'
  BY <1>a, <1>b DEF VerdictStands, RecoveryTypeOK
<1>8. AppendIsOfAPin' /\ BlocksHaveRows'
  BY <1>a DEF AppendIsOfAPin, BlocksHaveRows, Idle, Down
<1> QED BY <1>1, <1>2, <1>4, <1>5, <1>6, <1>7, <1>8

--------------------------------------------------------------------------------
(* The theorems.                                                           *)

\* Whoever mints or uses confirmation tokens touches nothing else.
OnlyTokens ==
  /\ UNCHANGED <<ownerVars, fileVars, stage, lapsed, pinned, call, guard>>
  /\ valid' \subseteq Tokens

\* What is true at first.
LEMMA ReconciliationStarts == RecoveryInit => RInv
<1> SUFFICES ASSUME RecoveryInit PROVE RInv
  OBVIOUS
<1>1. OwnersInv
  BY OwnersStart DEF RecoveryInit
<1>2. RecoveryTypeOK
  BY <1>1 DEF OwnersInv, OwnersCore, RecoveryInit, RecoveryTypeOK, Someone, Idle, Down
<1>3. Parts
  BY AuthorityAssumption
  DEF Parts, RecoveryInit, VerdictsAreFinal, KeptRowsAreRows, PinsAreCommitted,
      PinsPrevail, AppendIsOfAPin, VerdictStands, BlocksHaveRows, Idle, Down
<1> QED BY <1>1, <1>2, <1>3 DEF RInv, Parts

\* Every step of recovery, reconciliation and the tokens preserves RInv.
LEMMA ReconciliationSteps ==
  ASSUME RInv, RecoveryNext \/ OnlyTokens PROVE RInv'
<1>1. CASE OnlyTokens
  <2>1. OwnersInv'
    BY <1>1, OwnersMove DEF OnlyTokens, RInv
  <2>2. OwnersTypeOK'
    BY <2>1 DEF OwnersInv, OwnersCore
  <2> QED BY <1>1, <2>1, <2>2
      DEF OnlyTokens, RInv, ownerVars, fileVars, RecoveryTypeOK,
          VerdictsAreFinal, Settled, KeptRowsAreRows, PinsAreCommitted, PinsPrevail,
          AppendIsOfAPin, Open, Owned, VerdictStands, BlocksHaveRows
<1>2. ASSUME UNCHANGED ownerVars PROVE OwnersInv'
  BY <1>2, OwnersMove DEF RInv
<1>3. CASE Inspect
  BY <1>2, <1>3, ReadKeeps DEF Inspect, RInv, Parts
<1>4. CASE Append \/ AppendAgain
  BY <1>2, <1>4, AppendStep DEF Append, AppendAgain, Appended, RInv, Parts
<1>5. CASE AppendFails
  BY <1>2, <1>5, AppendFailsStep DEF AppendFails, RInv, Parts
<1>6. ASSUME NEW a \in Authorities, OperatorStep(a) PROVE RInv'
  BY <1>2, <1>6, ProposeStep, BeginResolveStep
  DEF OperatorStep, Propose, Confirm, AuthorityLapses, ResolveExpired, BeginResolve,
      RInv, Parts
<1>7. CASE BeginRefresh \/ Publish \/ PublishFails
  BY <1>2, <1>7, GuardStep DEF BeginRefresh, Publish, PublishFails, RInv, Parts
<1>8. CASE RecoveryDies \/ RecoveryPowerLoss
  BY <1>8, FailureStep DEF RInv, Parts
<1>9. ASSUME NEW e \in Effects, OwnerStep(e) PROVE RInv'
  BY <1>9, OwnersStep DEF RInv, Parts
<1> QED BY <1>1, <1>3, <1>4, <1>5, <1>6, <1>7, <1>8, <1>9
        DEF RecoveryNext, CoordinatorStep

\* The invariant holds of every reachable state.
THEOREM ReconciliationInvariant == RecoverySpec => []RInv
<1>1. RInv /\ UNCHANGED recoveryVars => RInv'
  BY ReconciliationSteps DEF recoveryVars, recVars, OnlyTokens, RInv, RecoveryTypeOK
<1>2. RInv /\ [RecoveryNext]_recoveryVars => RInv'
  BY <1>1, ReconciliationSteps
<1> QED BY <1>2, ReconciliationStarts, PTL DEF RecoverySpec

\* A verdict whose resolution returned is never replaced or lost
\* (reconciliation_ledger.py, append_durable).
THEOREM VerdictsStand == RecoverySpec => []VerdictStands
<1>1. RInv => VerdictStands
  BY DEF RInv
<1> QED BY <1>1, ReconciliationInvariant, PTL

\* No effect has both a verdict and an outcome: the coordinator holds the
\* gateway's lock, and gives none where the gateway still owns the effect.
THEOREM VerdictsMeetNoOutcome == RecoverySpec => []VerdictOrOutcome
<1>1. RInv => VerdictOrOutcome
  BY DEF RInv, VerdictsAreFinal, VerdictOrOutcome, Settled
<1> QED BY <1>1, ReconciliationInvariant, PTL

\* What the operator approved, once committed, is the only verdict that its
\* effect can get in this process.
THEOREM FrozenFactsPrevail == RecoverySpec => []FrozenFactPrevails
<1>1. RInv => FrozenFactPrevails
  BY DEF RInv, PinsAreCommitted, PinsPrevail, FrozenFactPrevails
<1> QED BY <1>1, ReconciliationInvariant, PTL

--------------------------------------------------------------------------------
(* The guard.                                                              *)

\* Only Publish lets the guard forget an effect it blocked, and the join it
\* publishes has the verdict, or saw the outcome.
LEMMA BlocksEnd ==
  ASSUME RInv, RecoveryNext \/ OnlyTokens, NEW e \in guard.blocks,
         guard'.up, e \notin guard'.blocks
  PROVE  keptRows'[e] # NoOne \/ ~Open(e)'
<1>1. Publish
  <2>1. guard' # guard /\ guard' # Down
    BY DEF Down
  <2> QED BY <2>1
      DEF RecoveryNext, OnlyTokens, CoordinatorStep, Inspect, Append, AppendAgain,
          Appended, AppendFails, OperatorStep, Propose, Confirm, AuthorityLapses,
          ResolveExpired, BeginResolve, BeginRefresh, PublishFails, RecoveryDies,
          RecoveryPowerLoss, ForgetAuthorities, OwnerStep, recVars
<1>2. /\ keptRows' = rows /\ seen' = seen
      /\ e \notin call.open \/ rows[e] # NoOne
  BY <1>1 DEF Publish, ReadAuthoritative, ownerVars, Unreconciled
<1>3. e \notin call.open => ~Open(e)
  BY <1>1 DEF Publish, RInv, BlocksHaveRows, Settled, Open
<1> QED BY <1>2, <1>3 DEF Open

\* The guard lets go of an effect only for a fact (recovery_projector.py).
THEOREM OnlyFactsUnblock == RecoverySpec => BlocksEndWithFacts
<1>1. RInv /\ [RecoveryNext]_recoveryVars =>
        [\A e \in guard.blocks :
           guard'.up /\ e \notin guard'.blocks =>
             keptRows'[e] # NoOne \/ ~Open(e)']_recoveryVars
  BY BlocksEnd
<1> QED BY <1>1, ReconciliationInvariant, PTL DEF RecoverySpec, BlocksEndWithFacts

--------------------------------------------------------------------------------
(* For those who build on recovery.                                        *)

\* The steps that are not failures.
Steady ==
  \/ CoordinatorStep \/ \E a \in Authorities : OperatorStep(a)
  \/ BeginRefresh \/ Publish \/ PublishFails
  \/ \E e \in Effects : OwnerStep(e)
  \/ OnlyTokens

\* Without a failure, what is settled stays settled, and what has a certain
\* verdict keeps one.
LEMMA FactsStay ==
  ASSUME RInv, Steady, NEW e \in Effects
  PROVE  /\ Settled(e) => Settled(e)'
         /\ keptRows[e] # NoOne => keptRows'[e] # NoOne
<1>1. ASSUME NEW x \in Effects, OwnerStep(x)
      PROVE  (Settled(e) => Settled(e)') /\ keptRows' = keptRows
  BY <1>1, OwnerKeeps DEF OwnerStep, recVars, fileVars
<1>2. ASSUME UNCHANGED ownerVars PROVE Settled(e) => Settled(e)'
  BY <1>2 DEF ownerVars, Settled
<1>3. ASSUME keptRows' \in {keptRows, rows}, keptRows[e] # NoOne
      PROVE  keptRows'[e] # NoOne
  BY <1>3 DEF RInv, KeptRowsAreRows
<1>4. CASE Append \/ AppendAgain
  <2>1. call.at = "append" /\ UNCHANGED ownerVars
    BY <1>4 DEF Append, AppendAgain, Appended
  <2>2. /\ call.by # NoOne /\ EffectOf[call.by] \in Effects
    BY <2>1, InAppend
  <2>3. keptRows' = rows \/ keptRows' = [rows EXCEPT ![EffectOf[call.by]] = call.by]
    BY <1>4 DEF Append, AppendAgain
  <2>4. keptRows[e] # NoOne => rows[e] # NoOne
    BY DEF RInv, KeptRowsAreRows
  <2> QED BY <1>2, <2>1, <2>2, <2>3, <2>4 DEF RInv, RecoveryTypeOK
<1>5. CASE OnlyTokens \/ AppendFails \/ BeginRefresh \/ PublishFails
  BY <1>2, <1>5 DEF OnlyTokens, AppendFails, BeginRefresh, PublishFails, fileVars
<1>6. CASE Inspect \/ Publish
  BY <1>2, <1>3, <1>6 DEF Inspect, Publish, ReadAuthoritative
<1>7. ASSUME NEW a \in Authorities, OperatorStep(a)
      PROVE  UNCHANGED ownerVars /\ keptRows' \in {keptRows, rows}
  BY <1>7 DEF OperatorStep, Propose, Confirm, AuthorityLapses, ResolveExpired,
     BeginResolve, MayResolve, ReadAuthoritative, fileVars
<1> QED BY <1>1, <1>2, <1>3, <1>4, <1>5, <1>6, <1>7
        DEF Steady, CoordinatorStep
================================================================================
