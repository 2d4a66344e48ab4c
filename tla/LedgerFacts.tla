------------------------------ MODULE LedgerFacts ------------------------------
(***************************************************************************)
(* The vocabulary of the effect ledger (safety/effect_ledger.py): the      *)
(* facts a row may state about one effect, and which fact may follow       *)
(* which.  A row's timestamp is left out (the code leaves it out when it   *)
(* compares facts) and so is its lineage: every row of an effect is built  *)
(* from the same attempt, grant and intent snapshot.  "why" stands for the *)
(* row's details, which do take part in the comparison.                    *)
(***************************************************************************)
CONSTANTS Effects,    \* effect identities: one per EffectAttempt
          Reasons     \* the details that distinguish rows of the same state

FactStates == {"reserved", "no_effect", "confirmed", "unknown"}

Terminal == {"no_effect", "confirmed", "unknown"}

Fact == [effect : Effects, state : FactStates, why : Reasons]

NoFact == [state |-> "none"]

\* _INITIAL_STATES: an unfenced effect has no reservation, so an outcome may
\* come first; NO_EFFECT may not.
MayOpen(f) == f.state \in {"reserved", "confirmed", "unknown"}

\* _ALLOWED_SUCCESSORS: only a reservation has successors.
MayFollow(old, f) ==
  IF old = NoFact THEN MayOpen(f)
  ELSE old.state = "reserved" /\ f.state \in Terminal
================================================================================
