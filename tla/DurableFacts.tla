----------------------------- MODULE DurableFacts ------------------------------
(***************************************************************************)
(* What append_durable promises its callers, with no file in sight.  Each  *)
(* effect has the latest fact that a reader sees and the latest fact that  *)
(* is certain to survive a power failure.  A normal return makes all that  *)
(* is visible certain; a failed call may or may not have made its fact     *)
(* visible; a power failure takes each effect back to some fact between    *)
(* the two.  EffectLedger, the file, implements this; CommitGateway, the   *)
(* client, is built on the steps below.                                    *)
(***************************************************************************)
EXTENDS LedgerFacts

VARIABLES seen,    \* per effect, the latest fact a reader of the ledger sees
          kept     \* per effect, the latest fact certain to survive

LedgerTypeOK ==
  /\ seen \in [Effects -> Fact \cup {NoFact}]
  /\ kept \in [Effects -> Fact \cup {NoFact}]

LedgerInit ==
  /\ seen = [e \in Effects |-> NoFact]
  /\ kept = [e \in Effects |-> NoFact]

\* append_durable takes f: an exact-fact retry, or a legal successor.
Acceptable(f) == seen[f.effect] = f \/ MayFollow(seen[f.effect], f)

\* append_durable(f) returns normally.
Persist(f) ==
  /\ Acceptable(f)
  /\ seen' = [seen EXCEPT ![f.effect] = f]
  /\ kept' = seen'

\* append_durable(f) raises, but a reader may see the row from now on.
Falter(f) ==
  /\ Acceptable(f)
  /\ seen' = [seen EXCEPT ![f.effect] = f]
  /\ UNCHANGED kept

\* append_durable(f) raises: refused, or nothing reached the file, or only
\* Falter's row did.
Raise(f) == Falter(f) \/ UNCHANGED <<seen, kept>>

\* What is visible may become certain without a caller being told.
Harden == kept' = seen /\ UNCHANGED seen

\* What a power failure may leave of e's history.
Survivors(e) ==
  {kept[e], seen[e]} \cup
  {f \in Fact : f.effect = e /\ kept[e] = NoFact /\ MayOpen(f)
                /\ seen[e] # NoFact /\ MayFollow(f, seen[e])}

PowerFails ==
  /\ seen' \in [Effects -> UNION {Survivors(e) : e \in Effects}]
  /\ \A e \in Effects : seen'[e] \in Survivors(e)
  /\ kept' = seen'

LedgerNext == (\E f \in Fact : Persist(f) \/ Falter(f)) \/ Harden \/ PowerFails

LedgerSpec == LedgerInit /\ [][LedgerNext]_<<seen, kept>>
================================================================================
