----------------------------- MODULE MCWriteKernel -----------------------------
(* Small instance of WriteKernel, in five stories.  Recovery: two effects of *)
(* one intent, with rival proposals and a human in one, with a rule that     *)
(* allows the intent in another, and one effect with two confirmations.      *)
(* Writing: two writers of the rules, and the owner's edits.  Gate:          *)
(* invocations of an intent below the ceiling and of one above it, while the *)
(* rules change.                                                             *)
EXTENDS WriteKernel, TLC

CONSTANTS e1, e2, a1, a2, a3, like, post, w1, w2, r1, r2, t1, t2

Proposals == a1 :> e1 @@ a2 :> e1 @@ a3 :> e2

Intents == e1 :> like @@ e2 :> like

Scopes == r1 :> {like} @@ r2 :> {like, post}

NoRules == [r \in Rules |-> Absent]

Allowed == [NoRules EXCEPT ![r1] = [says |-> "allow", at |-> 0]]

Nothing ==
  [effects |-> {}, authorities |-> {}, keys |-> {}, tokens |-> {}, writers |-> {},
   edits |-> FALSE, doc |-> NoRules]

Stories ==
  {[Nothing EXCEPT !.effects = {e1, e2}, !.authorities = Authorities, !.keys = {like},
                   !.tokens = {t1}],
   [Nothing EXCEPT !.effects = {e1, e2}, !.authorities = {a1}, !.keys = {like},
                   !.doc = Allowed],
   [Nothing EXCEPT !.effects = {e1}, !.authorities = {a1}, !.keys = {like},
                   !.tokens = {t1, t2}],
   [Nothing EXCEPT !.writers = Writers, !.edits = TRUE],
   [Nothing EXCEPT !.keys = {like, post}, !.edits = TRUE, !.tokens = {t1},
                   !.doc = Allowed]}
================================================================================
