-------------------------------- MODULE OneShot --------------------------------
(***************************************************************************)
(* What commit authority is for, seen from outside: each attempt at an     *)
(* external effect is idle, then durably reserved, and then either crosses *)
(* into the outside world or is void; a crossing is settled by an outcome. *)
(* Nothing goes back, a void attempt never crosses, and one approval lets  *)
(* at most one of its attempts cross.  One sync of the ledger may make the *)
(* progress of several attempts durable at once.                           *)
(***************************************************************************)
CONSTANTS Attempts, ApprovalOf

VARIABLE phase

Init == phase = [a \in Attempts |-> "idle"]

Moves == {<<"idle", "reserved">>, <<"reserved", "void">>,
          <<"reserved", "crossed">>, <<"crossed", "settled">>}

HasCrossed(a) == phase[a] \in {"crossed", "settled"}

\* a crosses only if no attempt of its approval has, or does now.
MayCross(a) ==
  \A b \in Attempts \ {a} :
    ApprovalOf[b] = ApprovalOf[a] => ~HasCrossed(b) /\ phase'[b] # "crossed"

Next ==
  /\ phase' = [a \in Attempts |-> phase'[a]]
  /\ \A a \in Attempts :
       \/ phase'[a] = phase[a]
       \/ /\ <<phase[a], phase'[a]>> \in Moves
          /\ phase'[a] = "crossed" => MayCross(a)

Spec == Init /\ [][Next]_phase
================================================================================
