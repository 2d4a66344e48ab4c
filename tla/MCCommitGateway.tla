---------------------------- MODULE MCCommitGateway ----------------------------
(* Small instance of CommitGateway: an approval whose action is fenced, with *)
(* a first attempt and its retry, and one of an unfenced action.             *)
EXTENDS CommitGateway, TLC

CONSTANTS e1, e2, e3, g1, g2

OneGrant == e1 :> g1 @@ e2 :> g1

TwoGrants == e1 :> g1 @@ e2 :> g1 @@ e3 :> g2

GatewayReasons == {"plain", "resolved", "permit_expired", "kill_switch",
                   "expired", "revoked", "spent", "epoch_mismatch"}
================================================================================
