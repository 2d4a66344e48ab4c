------------------------------ MODULE EffectOwners ------------------------------
(***************************************************************************)
(* What the commit gateway promises to recovery and reconciliation: each   *)
(* effect has an attempt with a life in this process, which the gateway    *)
(* owns once the attempt may have a row; only an owned attempt writes, what *)
(* it writes is true, and it is let go when its last row is certain.       *)
(* CommitGateway implements this; Reconciliation and WriteKernel are its   *)
(* clients.                                                                *)
(***************************************************************************)
EXTENDS DurableFacts

CONSTANT Required    \* effects whose policy demands a durable reservation

ASSUME RequiredAssumption == Required \subseteq Effects

VARIABLES life,     \* "unborn", "private" (never owned), "owned", "over"
          crossed   \* effects that the outside world may have seen

ownerVars == <<seen, kept, life, crossed>>

OwnersTypeOK ==
  /\ LedgerTypeOK
  /\ life \in [Effects -> {"unborn", "private", "owned", "over"}]
  /\ crossed \subseteq Effects

OwnersInit ==
  /\ LedgerInit
  /\ life = [e \in Effects |-> "unborn"]
  /\ crossed = {}

RowsOf(e) == [effect : {e}, state : FactStates, why : Reasons]

Lives(e, stage) == life' = [life EXCEPT ![e] = stage]

\* What a row says of e's effect is so.
IsTrue(f) ==
  /\ f.state = "no_effect" => f.effect \notin crossed
  /\ f.state \in {"confirmed", "unknown"} => f.effect \in crossed

Begin(e) ==
  /\ life[e] = "unborn" /\ Lives(e, "private")
  /\ UNCHANGED <<seen, kept, crossed>>

\* The attempt is registered, and its reservation written or perhaps written.
Own(e) ==
  /\ e \in Required /\ life[e] = "private" /\ Lives(e, "owned")
  /\ UNCHANGED crossed
  /\ \E f \in RowsOf(e) : f.state = "reserved" /\ (Persist(f) \/ Raise(f))

Cross(e) ==
  /\ IF e \in Required
     THEN life[e] = "owned" /\ seen[e].state = "reserved" /\ kept[e] = seen[e]
     ELSE life[e] = "private" /\ seen[e] = NoFact
  /\ e \notin crossed /\ crossed' = crossed \cup {e}
  /\ UNCHANGED <<seen, kept, life>>

\* An owned attempt writes a row, an unfenced one that has started an outcome.
MayWrite(e, f) ==
  /\ IsTrue(f)
  /\ \/ life[e] = "owned"
     \/ /\ life[e] = "private" /\ e \in crossed
        /\ f.state \in {"confirmed", "unknown"}

\* A row of a live attempt: the attempt stays, whether the append returned.
Write(e) ==
  /\ life[e] \in {"owned", "private"} /\ UNCHANGED <<life, crossed>>
  /\ \E f \in RowsOf(e) : MayWrite(e, f) /\ (Persist(f) \/ Raise(f))

\* The attempt ends with a terminal row that is certain ...
LetGo(e) ==
  /\ Lives(e, "over") /\ UNCHANGED crossed
  /\ \E f \in RowsOf(e) : f.state \in Terminal /\ MayWrite(e, f) /\ Persist(f)

\* ... or without any, when nothing has started.
Abandon(e) ==
  /\ life[e] = "private" /\ e \notin crossed /\ Lives(e, "over")
  /\ UNCHANGED <<seen, kept, crossed>>

AllOver ==
  /\ life' = [e \in Effects |->
               IF life[e] = "unborn" THEN "unborn" ELSE "over"]
  /\ UNCHANGED crossed

Step(e) ==
  Begin(e) \/ Own(e) \/ Cross(e) \/ Write(e) \/ LetGo(e) \/ Abandon(e)

OwnersNext ==
  \/ \E e \in Effects : Step(e)
  \/ AllOver /\ UNCHANGED <<seen, kept>>
  \/ AllOver /\ PowerFails

OwnersSpec == OwnersInit /\ [][OwnersNext]_ownerVars
================================================================================
