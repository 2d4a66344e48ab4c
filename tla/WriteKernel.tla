------------------------------ MODULE WriteKernel ------------------------------
(***************************************************************************)
(* The write pipeline (safety/write_kernel.py, confirmation_state.py,      *)
(* token_bucket.py, dedupe.py) over recovery and reconciliation and over   *)
(* the owner's rules.  The dispatcher runs one invocation at a time        *)
(* (dispatcher.py, _invoke_lock); at each of its awaits, and wherever      *)
(* another thread or process can act, the operator, the owner, the clock   *)
(* and crashes do.                                                         *)
(*                                                                         *)
(* A semantic key stands for an intent, and for its action type.  Left     *)
(* out, as a denial that may come at any stage: the kill switch, the risk  *)
(* registry, an adapter that takes no approver, dry runs.                  *)
(***************************************************************************)
EXTENDS Reconciliation, RuleStore
LOCAL INSTANCE Functions

CONSTANTS KeyOf,       \* the key of each effect
          NoKey,       \* "no invocation"
          NoToken,     \* "no confirmation token"
          Casts,       \* bound: who takes part in a behaviour
          ActionLimit, \* how many invocations a window admits, of one action
          GlobalLimit  \* type and altogether

ASSUME KeyAssumption ==
  /\ KeyOf \in [Effects -> Keys] /\ NoKey \notin Keys /\ NoToken \notin Tokens
  /\ \A c \in Casts : c.effects \subseteq Effects /\ c.keys \subseteq Keys
       /\ c.tokens \subseteq Tokens /\ c.authorities \subseteq Authorities
       /\ c.writers \subseteq Writers
       /\ c.doc \in [Rules -> Entries] /\ c.edits \in BOOLEAN
  /\ ActionLimit \in Nat /\ GlobalLimit \in Nat

VARIABLES
  inv,      \* the running invocation
  tokenKey, \* the key each token is bound to, NoKey before it is minted
  spent,    \* TokenBucket: the invocations inside the window, of each action
  dedupe,   \* DedupeStore: the keys inside their TTL
  under,    \* history: the effects that had a verdict when each was minted
  done,     \* history: the keys whose execution returned, inside that TTL
  heard,    \* history: what the rules said since the invocation began
  cast      \* who takes part

budgetVars == <<spent, dedupe, done>>
kernelVars == <<inv, tokenKey, under, budgetVars>>
vars == <<recoveryVars, ruleVars, kernelVars, heard, cast>>

NoInvocation ==
  [at |-> "none", key |-> NoKey, token |-> NoToken, by |-> "nobody", tries |-> {}]

TypeOK ==
  /\ RecoveryTypeOK /\ RuleTypeOK
  /\ inv \in [at : {"none", "refresh", "join", "check", "preview", "confirm",
                    "execute"},
              key : Keys \cup {NoKey}, token : Tokens \cup {NoToken},
              by : {"nobody", "human", "rule"}, tries : SUBSET Effects]
  /\ tokenKey \in [Tokens -> Keys \cup {NoKey}]
  /\ spent \in [Keys -> Nat] /\ dedupe \subseteq Keys /\ done \subseteq Keys
  /\ under \in [Tokens -> SUBSET Effects]
  /\ heard \in [banned : SUBSET Rules, allowed : BOOLEAN]
  /\ cast \in Casts

Init ==
  /\ cast \in Casts
  /\ RecoveryInit /\ RuleInit(cast.doc)
  /\ inv = NoInvocation
  /\ tokenKey = [t \in Tokens |-> NoKey]
  /\ spent = [k \in Keys |-> 0] /\ dedupe = {}
  /\ under = [t \in Tokens |-> {}] /\ done = {}
  /\ heard = [banned |-> {}, allowed |-> FALSE]

--------------------------------------------------------------------------------
(* One invocation.                                                         *)

GoTo(at) == inv' = [inv EXCEPT !.at = at]

\* The intent is composed and the registry agrees.  The caller may bring a
\* token.
Start(k, t) ==
  /\ inv = NoInvocation /\ k \in cast.keys
  /\ t # NoToken => tokenKey[t] # NoKey
  /\ inv' = [NoInvocation EXCEPT !.at = "refresh", !.key = k, !.token = t]
  /\ UNCHANGED <<recoveryVars, tokenKey, under, budgetVars>>

\* require_clear(refresh=True) refreshes the guard first; where that fails the
\* write is denied.
Refresh ==
  /\ inv.at = "refresh" /\ BeginRefresh /\ GoTo("join")
  /\ UNCHANGED <<tokenKey, under, budgetVars>>

Refreshed ==
  /\ inv.at = "join" /\ Publish /\ GoTo("check")
  /\ UNCHANGED <<tokenKey, under, budgetVars>>

RefreshFails ==
  /\ inv.at = "join" /\ PublishFails /\ inv' = NoInvocation
  /\ UNCHANGED <<tokenKey, under, budgetVars>>

\* It asks the guard when the fence is free again, so that a resolution may
\* have begun, or published, in between.
Clear == guard.up /\ \A e \in guard.blocks : KeyOf[e] # inv.key

\* The buckets of the action and of all actions have room; one is taken even
\* if what follows denies the invocation.
Acquire ==
  /\ spent[inv.key] < ActionLimit
  /\ FoldFunction(LAMBDA x, y : x + y, 0, spent) < GlobalLimit
  /\ spent' = [spent EXCEPT ![inv.key] = @ + 1]

\* Guard, bucket and dedupe agree, in one go; the preview is awaited.
PassChecks ==
  /\ inv.at = "check" /\ Clear /\ Acquire /\ inv.key \notin dedupe
  /\ GoTo("preview")
  /\ UNCHANGED <<recoveryVars, tokenKey, under, dedupe, done>>

Duplicate ==
  /\ inv.at = "check" /\ Clear /\ Acquire /\ inv.key \in dedupe
  /\ inv' = NoInvocation
  /\ UNCHANGED <<recoveryVars, tokenKey, under, dedupe, done>>

\* Fault: a token makes up for the rules.
GateUntilConfirmed ==
  /\ inv.at = "preview" /\ (inv.token = NoToken => Match(inv.key) # "never")
  /\ inv' = [inv EXCEPT !.at = "confirm",
                        !.by = IF Match(inv.key) = "allow" THEN "rule" ELSE "human"]
  /\ UNCHANGED <<recoveryVars, tokenKey, under, budgetVars>>

\* The rule gate, on every invocation: NEVER denies it, with or without a token
\* (see Leave), ALLOW approves it, anything else asks a human.
RuleGate ==
  /\ inv.at = "preview" /\ Match(inv.key) # "never"
  /\ inv' = [inv EXCEPT !.at = "confirm",
                        !.by = IF Match(inv.key) = "allow" THEN "rule" ELSE "human"]
  /\ UNCHANGED <<recoveryVars, tokenKey, under, budgetVars>>

\* The invocation is refused, by the guard, the rules or anything else, or it
\* fails.  An execution that is cut short leaves its attempt as it is, and its
\* intent out of the dedupe store.
Leave ==
  /\ inv.at \notin {"none", "join"}
  /\ inv' = NoInvocation
  /\ UNCHANGED <<recoveryVars, tokenKey, under, budgetVars>>

\* No token was given, so one is minted under the current epoch, and the
\* invocation ends.
MintToken(t) ==
  /\ inv.at = "confirm" /\ inv.by = "human" /\ inv.token = NoToken
  /\ tokenKey[t] = NoKey
  /\ tokenKey' = [tokenKey EXCEPT ![t] = inv.key]
  /\ under' = [under EXCEPT ![t] = {e \in Effects : keptRows[e] # NoOne}]
  /\ valid' = valid \cup {t}
  /\ inv' = NoInvocation
  /\ UNCHANGED <<ownerVars, fileVars, stage, lapsed, pinned, call, guard,
                 budgetVars>>

\* validate_and_consume: of this epoch, in time, unused, bound to this intent.
UseToken(t) ==
  /\ inv.at = "confirm" /\ inv.by = "human" /\ inv.token = t
  /\ t \in valid /\ tokenKey[t] = inv.key
  /\ valid' = valid \ {t} /\ GoTo("execute")
  /\ UNCHANGED <<ownerVars, fileVars, stage, lapsed, pinned, call, guard,
                 tokenKey, under, budgetVars>>

\* A rule stands in for the human; a token that was brought stays unused.
RuleApproves ==
  /\ inv.at = "confirm" /\ inv.by = "rule" /\ GoTo("execute")
  /\ UNCHANGED <<recoveryVars, tokenKey, under, budgetVars>>

TokenExpires(t) ==
  /\ t \in valid /\ valid' = valid \ {t}
  /\ UNCHANGED <<ownerVars, fileVars, stage, lapsed, pinned, call, guard,
                 kernelVars>>

\* An execution makes one attempt after the other, the next only when the last
\* ended without a crossing (retry_clean_precommit).
Attempt(e) ==
  /\ inv.at = "execute" /\ e \in cast.effects /\ KeyOf[e] = inv.key
  /\ \A f \in inv.tries : life[f] = "over" /\ f \notin crossed
  /\ Begin(e)
  /\ inv' = [inv EXCEPT !.tries = @ \cup {e}]
  /\ UNCHANGED <<recVars, tokenKey, under, budgetVars>>

\* A step of an attempt belongs to its execution, except that the gateway ends
\* what it still owns later, when permits expire and dead owners are settled.
AttemptStep(e) ==
  /\ \/ e \in inv.tries /\ ~GatewayHeld
        /\ (Own(e) \/ Cross(e) \/ Write(e) \/ LetGo(e))
     \/ e \in Required /\ ~GatewayHeld /\ (Write(e) \/ LetGo(e))
     \/ Abandon(e)
  /\ UNCHANGED <<recVars, kernelVars>>

Started == inv.tries \cap crossed # {}

\* Fault: only a success is entered.
ReturnIfOk(ok) ==
  /\ inv.at = "execute" /\ inv' = NoInvocation
  /\ dedupe' = IF ok THEN dedupe \cup {inv.key} ELSE dedupe
  /\ done' = IF Started THEN done \cup {inv.key} ELSE done
  /\ UNCHANGED <<recoveryVars, tokenKey, under, spent>>

\* The execution returns.  A success, an attempt that had nothing to do among
\* them, or an effect that may be public is entered in the dedupe store.
Return(ok) ==
  /\ inv.at = "execute" /\ inv' = NoInvocation
  /\ dedupe' = IF ok \/ Started THEN dedupe \cup {inv.key} ELSE dedupe
  /\ done' = IF Started THEN done \cup {inv.key} ELSE done
  /\ UNCHANGED <<recoveryVars, tokenKey, under, spent>>

\* Time passes: an invocation leaves the window, an intent its TTL.
WindowPasses(k) ==
  /\ spent[k] > 0 /\ spent' = [spent EXCEPT ![k] = @ - 1]
  /\ UNCHANGED <<recoveryVars, inv, tokenKey, under, dedupe, done>>

DedupeExpires(k) ==
  /\ k \in dedupe /\ dedupe' = dedupe \ {k} /\ done' = done \ {k}
  /\ UNCHANGED <<recoveryVars, inv, tokenKey, under, spent>>

--------------------------------------------------------------------------------
\* The budgets are the process's own; the owner's document is not.
Restart ==
  /\ RecoveryDies \/ RecoveryPowerLoss
  /\ inv' = NoInvocation
  /\ spent' = [k \in Keys |-> 0] /\ dedupe' = {} /\ done' = {}
  /\ UNCHANGED <<tokenKey, under>>

Bans == {r \in InForce(inv.key) : doc[r].says = "never"}

Allows ==
  /\ inv.key \in Ceiling
  /\ Says(inv.key, "allow") /\ ~Says(inv.key, "ask") /\ ~Says(inv.key, "never")

\* History: the bans in force ever since the running invocation began, and
\* whether the rules, and only they, allowed it at some moment of it.
Listen ==
  heard' = IF inv.at = "none" THEN [banned |-> Bans', allowed |-> Allows']
           ELSE [banned  |-> Bans' \cap heard.banned,
                 allowed |-> Allows' \/ (inv'.at # "none" /\ heard.allowed)]

KernelStep ==
  \/ Refresh \/ Refreshed \/ RefreshFails \/ PassChecks \/ Duplicate
  \/ RuleGate \/ RuleApproves \/ Leave \/ Restart
  \/ \E k \in Keys : WindowPasses(k) \/ DedupeExpires(k)
                       \/ \E t \in Tokens \cup {NoToken} : Start(k, t)
  \/ \E t \in cast.tokens : MintToken(t) \/ UseToken(t) \/ TokenExpires(t)
  \/ \E ok \in BOOLEAN : Return(ok)
  \/ \E e \in Effects : Attempt(e) \/ AttemptStep(e)
  \/ (CoordinatorStep \/ \E a \in cast.authorities : OperatorStep(a))
       /\ UNCHANGED kernelVars
  \/ GatewayHeld /\ (Publish \/ PublishFails) /\ UNCHANGED kernelVars

RuleStep ==
  \/ \E w \in cast.writers : WriterStep(w)
  \/ cast.edits /\ OwnerEdits
  \/ \E r \in Rules : Lapse(r)

Next ==
  /\ \/ KernelStep /\ UNCHANGED ruleVars
     \/ RuleStep /\ UNCHANGED <<recoveryVars, kernelVars>>
  /\ Listen
  /\ UNCHANGED cast

Spec == Init /\ [][Next]_vars

--------------------------------------------------------------------------------
(* Safety.                                                                 *)

\* What the outside world may have seen of e is accounted for.
AccountedFor(e) ==
  seen[e].state \in {"confirmed", "no_effect"} \/ keptRows[e] # NoOne

\* No write is ever replayed blindly: while a fenced effect of an intent may or
\* may not have happened, no second effect of the same intent starts, whatever
\* crashed in between and whoever approves it.
NoBlindReplay ==
  [][\A e \in crossed' \ crossed : \A f \in (crossed \cap Required) \ {e} :
       KeyOf[f] = KeyOf[e] => AccountedFor(f)]_vars

\* A human's confirmation is not used once a verdict on the same intent became
\* certain after it was given: he confirmed with another past in mind.
ConfirmationKnowsVerdicts ==
  [][\A t \in valid \ valid' :
       inv'.at = "execute" => \A e \in Effects :
         keptRows[e] # NoOne /\ KeyOf[e] = tokenKey[t] => e \in under[t]]_vars

\* What was done, or may have been, is not done again while the process runs
\* and the TTL lasts, even where no recovery guard asks: the outcome is on
\* record, or an operator has settled it.
DoneIsNotRedone ==
  [][\A e \in crossed' \ crossed : KeyOf[e] \notin done]_vars

\* The owner's rules bind every execution: a ban that was in force since the
\* invocation began stops it, whatever confirmation it brings, and without a
\* human it goes on only where the rules allowed it, and only them.
GateObeysOwner ==
  [][inv.at # "execute" /\ inv'.at = "execute" =>
       heard.banned = {} /\ (inv.by = "human" \/ heard.allowed)]_vars
================================================================================
