------------------------------ MODULE LeasedBroker -----------------------------
(* The one browser all writes go through (m5_leased_write_broker.py on top of *)
(* m5_scoped_write_broker.py).  An operation lock serializes the calls; the   *)
(* content lease outlives them, from the opening of a composer to its         *)
(* submission or cleanup.  The page belongs to the site and changes by        *)
(* itself.                                                                    *)
EXTENDS ScopedAuthority

CONSTANTS TextOf,       \* the approved text of each attempt
          NoOne         \* no attempt, no call, no candidate

VARIABLES lock,         \* the call that holds the operation lock
          owner,        \* the content lease is taken
          context,      \* the attempt whose composer is bound
          page,         \* what the bound composer holds
          killed,       \* the kill switch is tripped
          effects,      \* everything that happened on the site
          satisfied,    \* one-shot attempts whose target is in the wanted state
          spoiled       \* the lease was left behind by a failure

brokerVars == <<lock, owner, context, page, killed, effects, satisfied, spoiled>>

Blank == [bound |-> FALSE, text |-> "empty", approved |-> 0, loose |-> 0]

BrokerInit ==
  /\ lock = NoOne /\ owner = FALSE /\ context = NoOne /\ page = Blank
  /\ killed = FALSE /\ effects = {} /\ satisfied = {} /\ spoiled = FALSE

Results == {"ok", "failed", "raised"}

--------------------------------------------------------------------------------
(* Who may enter, once the operation lock is theirs.                          *)

Owned == (Filling \ Opening) \cup {"attach", "submit", "close", "baseline"}
OneShots == {"apply", "capture", "verify", "count", "look", "look_present"}
Mutating == Staging \cup {"submit", "apply"}

\* A start claims the lease, an owned call needs it, a one-shot needs it free:
\* every attempt of the process goes through the same broker and owns as it.
Entitled(op) ==
  CASE op \in Opening -> ~owner
    [] op \in Owned -> owner
    [] op \in OneShots -> ~owner

\* The guards of an operation ahead of its first await.
Guarded(op) ==
  /\ op \in Mutating => ~killed
  /\ op \in (Owned \ {"close", "baseline"}) => context # NoOne

--------------------------------------------------------------------------------
(* What an operation does to the page, the context and the lease.             *)

Release == owner' = FALSE /\ context' = NoOne /\ spoiled' = FALSE

\* Navigate, wait for the one new composer, bind it.  A start that bound none
\* gives the lease back.
OpenContext(a, res) ==
  \/ /\ res # "ok" /\ Release /\ page' = Blank
  \/ /\ res = "ok" /\ context' = a /\ page' = [Blank EXCEPT !.bound = TRUE]
     /\ UNCHANGED <<owner, spoiled>>

\* A plain post is bound while empty, then typed and read back: once bound, a
\* failure keeps the lease for the cleanup.
OpenAndFill(a, res) ==
  \/ /\ res # "ok" /\ Release /\ page' = Blank
  \/ /\ context' = a
     /\ \E t \in {TextOf[a], "other"} :
          /\ res = "ok" => t = TextOf[a]
          /\ page' = [Blank EXCEPT !.bound = TRUE, !.text = t]
     /\ UNCHANGED <<owner, spoiled>>

\* Type into the bound textarea and read it back.
FillContext(a, res) ==
  /\ res = "ok" => page.bound /\ page.text = "empty"
  /\ \E t \in {page.text, TextOf[a], "other"} :
       /\ res = "ok" => t = TextOf[a]
       /\ page' = [page EXCEPT !.text = t]
  /\ UNCHANGED <<owner, context, spoiled>>

\* Upload, then mark the one preview that is new as approved.
AttachToContext(res) ==
  /\ res = "ok" => page.bound
  /\ IF res = "ok" THEN page' = [page EXCEPT !.approved = @ + 1]
     ELSE \E n \in 0..1 : page' = [page EXCEPT !.loose = n]
  /\ UNCHANGED <<owner, context, spoiled>>

\* Close the dialog, or leave the page when the switch is tripped.  A cleanup
\* that does not succeed forgets the context and keeps the lease.
CloseContext(res) ==
  IF res = "ok" THEN Release /\ page' = Blank
  ELSE /\ spoiled' = TRUE /\ UNCHANGED owner
       /\ context' \in IF killed THEN {context, NoOne} ELSE {NoOne}
       /\ page' \in {page, Blank}

Matches(a) ==
  /\ page.bound /\ page.text = TextOf[a]
  /\ page.approved = MediaOf[a] /\ page.loose = 0

Effect(a) ==
  IF a \in Content
  THEN [by |-> a, on |-> context, text |-> page.text, media |-> page.approved]
  ELSE [by |-> a, on |-> a, text |-> TextOf[a], media |-> 0]

\* What is a post, and may be found as a new one.
Posts == {e \in effects : e.by \in Content \cup {NoOne}}

\* Fault: the button is clicked without the second proof.
ClickSubmitBlind(a, res) ==
  /\ \/ page.bound /\ effects' = effects \cup {Effect(a)}
     \/ res # "ok" /\ UNCHANGED effects
  /\ IF res = "raised" THEN spoiled' = TRUE /\ UNCHANGED <<owner, context>>
     ELSE Release
  /\ page' \in {page, Blank}
  /\ UNCHANGED satisfied

\* The proof of the composer and the click are one evaluation; its answer may
\* still be lost.  A crossed submit gives the lease back when it returns, not
\* when it is interrupted.
ClickSubmit(a, res) ==
  /\ \/ Matches(a) /\ effects' = effects \cup {Effect(a)}
     \/ res # "ok" /\ UNCHANGED effects
  /\ IF res = "raised" THEN spoiled' = TRUE /\ UNCHANGED <<owner, context>>
     ELSE Release
  /\ page' \in {page, Blank}
  /\ UNCHANGED satisfied

\* The control on the target's article is looked up again for the click: one
\* that meanwhile shows the other direction is not touched.
ClickControl(a, res) ==
  /\ \/ a \notin satisfied
        /\ effects' = effects \cup {Effect(a)} /\ satisfied' = satisfied \cup {a}
     \/ res # "ok" /\ UNCHANGED <<effects, satisfied>>
  /\ page' = Blank /\ UNCHANGED <<owner, context, spoiled>>

\* The confirmation that the target's own menu opened is clicked.
ConfirmDeletion(a, res) ==
  /\ \/ effects' = effects \cup {Effect(a)} /\ satisfied' = satisfied \cup {a}
     \/ res # "ok" /\ UNCHANGED <<effects, satisfied>>
  /\ page' = Blank /\ UNCHANGED <<owner, context, spoiled>>

--------------------------------------------------------------------------------
(* The site and the user.                                                     *)

\* The composer is gone, its text was edited, an image went or came.
PageChanges ==
  /\ page.bound
  /\ page' \in {Blank, [page EXCEPT !.text = "other"], [page EXCEPT !.loose = 1],
                [page EXCEPT !.approved = IF @ > 0 THEN @ - 1 ELSE 0]}
  /\ page' # page
  /\ UNCHANGED <<lock, owner, context, killed, effects, satisfied, spoiled>>

\* A post of the same account from elsewhere, with another text.
PostElsewhere ==
  /\ effects' = effects \cup
       {[by |-> NoOne, on |-> NoOne, text |-> "other", media |-> 0]}
  /\ effects' # effects
  /\ UNCHANGED <<lock, owner, context, page, killed, satisfied, spoiled>>

\* The user likes, or deletes, the target by hand.
DoneByHand(a) ==
  /\ a \notin Content \cup satisfied
  /\ satisfied' = satisfied \cup {a}
  /\ UNCHANGED <<lock, owner, context, page, killed, effects, spoiled>>

\* A read capability navigates: denied while a composer is leased.
Browse ==
  /\ lock = NoOne /\ ~owner
  /\ page' = Blank
  /\ UNCHANGED <<lock, owner, context, killed, effects, satisfied, spoiled>>

================================================================================
