---------------------------- MODULE ScopedAuthority ----------------------------
(* The handles an approved attempt works through (scoped_authority.py).  A    *)
(* preparation handle lets the holder open, fill and attach to exactly the    *)
(* approved composer; sealing it yields the effect handle, whose one          *)
(* invocation mints the permit at the commit gate.  A handle may be called    *)
(* from several tasks at once: the tracker decides which call counts.         *)
EXTENDS Naturals

CONSTANTS Attempts,     \* the attempts that may be issued
          ActionOf,     \* the action of each: post, reply, quote, engage, delete
          MediaOf       \* how many media items its intent approves

Content == {a \in Attempts : ActionOf[a] \in {"post", "reply", "quote"}}

VARIABLES prep,         \* the preparation tracker of each content attempt
          standing,     \* new, preparing, clean, confirmed or unknown
          revoked,      \* attempts whose approval lapsed or was revoked
          permit        \* none, denied, ambiguous, issued or consumed

authorityVars == <<prep, standing, revoked, permit>>

Fresh == [opened |-> FALSE, filled |-> FALSE, attached |-> 0, sealed |-> FALSE,
          cleaning |-> FALSE, effect |-> FALSE, stage |-> FALSE, gen |-> 0]

AuthorityInit ==
  /\ prep = [a \in Attempts |-> Fresh]
  /\ standing = [a \in Attempts |-> "new"]
  /\ revoked = {}
  /\ permit = [a \in Attempts |-> "none"]

--------------------------------------------------------------------------------
(* Preparation.  Each call is begun, awaits the broker, and is finished.      *)

Opening == {"fill_composer", "open_reply", "open_quote"}
Filling == {"fill_composer", "fill_reply", "fill_quote"}
Staging == Opening \cup Filling \cup {"attach"}

\* The ones of its action: a plain post opens and fills in one call.
StagingOf(a) ==
  CASE ActionOf[a] = "post"  -> {"fill_composer", "attach"}
    [] ActionOf[a] = "reply" -> {"open_reply", "fill_reply", "attach"}
    [] ActionOf[a] = "quote" -> {"open_quote", "fill_quote", "attach"}
    [] OTHER -> {}

Live(a) == standing[a] = "preparing" /\ a \notin revoked

Complete(a) ==
  prep[a].opened /\ prep[a].filled /\ prep[a].attached = MediaOf[a]

Quiet(a) == ~prep[a].stage /\ ~prep[a].cleaning /\ ~prep[a].effect

PostFillOrder(a) == ~prep[a].filled /\ prep[a].attached = 0
OpenOrder(a) == ~prep[a].opened /\ ~prep[a].filled /\ prep[a].attached = 0
FillOrder(a) == prep[a].opened /\ ~prep[a].filled
AttachOrder(a) == prep[a].filled /\ prep[a].attached < MediaOf[a]

InOrder(a, op) ==
  CASE op = "fill_composer" -> PostFillOrder(a)
    [] op \in Opening \ Filling -> OpenOrder(a)
    [] op \in Filling \ Opening -> FillOrder(a)
    [] op = "attach" -> AttachOrder(a)

MayBeginStage(a, op) == Live(a) /\ ~prep[a].sealed /\ Quiet(a) /\ InOrder(a, op)

StageBegun(a) == [prep[a] EXCEPT !.stage = TRUE]

\* Fault: any result of the active call counts.
StageFinishedLate(a, op, gen, ok) ==
  LET t == [prep[a] EXCEPT !.stage = FALSE]
  IN IF ok
     THEN [t EXCEPT !.opened = @ \/ op \in Opening, !.filled = @ \/ op \in Filling,
                    !.attached = IF op = "attach" THEN @ + 1 ELSE @]
     ELSE t

\* A late result counts only if the tracker was not cleaned up meanwhile.
StageFinished(a, op, gen, ok) ==
  LET t == [prep[a] EXCEPT !.stage = FALSE]
      counts == ok /\ gen = t.gen /\ ~t.cleaning /\ ~t.effect /\ ~t.sealed
  IN IF counts
     THEN [t EXCEPT !.opened = @ \/ op \in Opening, !.filled = @ \/ op \in Filling,
                    !.attached = IF op = "attach" THEN @ + 1 ELSE @]
     ELSE t

MayClean(a) == ~prep[a].cleaning /\ ~prep[a].effect

CleanupBegun(a) ==
  [prep[a] EXCEPT !.cleaning = TRUE, !.gen = @ + 1,
                  !.opened = FALSE, !.filled = FALSE, !.attached = 0]

CleanupFinished(a) == [prep[a] EXCEPT !.cleaning = FALSE]

--------------------------------------------------------------------------------
(* The effect handle.                                                         *)

MaySeal(a) == ~prep[a].sealed /\ Quiet(a) /\ Complete(a)

\* scope_effect: the approval is checked again; content is sealed first.
MayScope(a) == Live(a) /\ (a \in Content => MaySeal(a))

Scoped(a) == [prep[a] EXCEPT !.sealed = a \in Content]

MayBeginEffect(a) == prep[a].sealed /\ Quiet(a) /\ Complete(a)

EffectReady(a) ==
  /\ prep[a].sealed /\ prep[a].effect /\ Complete(a)
  /\ ~prep[a].stage /\ ~prep[a].cleaning

EffectBegun(a) == [prep[a] EXCEPT !.effect = a \in Content]
EffectFinished(a) == [prep[a] EXCEPT !.effect = FALSE]

\* What the gateway can answer.  A revoked approval gets no permit; an append
\* that fails leaves an ambiguous reservation; consuming may fail on its own.
GateAnswers(a) ==
  IF Live(a) THEN {"denied", "ambiguous", "issued", "consumed"} ELSE {"denied"}

\* A second invocation of a handle that holds a permit is turned away.
Exhausted(a) == permit[a] \in {"issued", "consumed"}

================================================================================
