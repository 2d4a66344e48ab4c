--------------------------- MODULE OperatorSessions ----------------------------
(***************************************************************************)
(* The operator's sessions that clients open over the wire: the registry   *)
(* of the IPC server (authority_ipc_server.py, _reconciliation_route) over *)
(* the proposals of each session (reconciliation_operator.py).  What the   *)
(* coordinator does with a confirmed proposal is the module Reconciliation;*)
(* here it is seen from the session that has to drive it.                  *)
(***************************************************************************)
EXTENDS Naturals, FiniteSets

CONSTANTS Sessions,      \* session ids the owner may hand out
          Proposals,
          SubjectOf,     \* the effect that each proposal is about
          NoProposal,    \* "no proposal"
          NoSession,     \* "not in a session"
          MaxSessions,   \* IPC_MAX_RECONCILIATION_SESSIONS
          MaxProposals   \* IPC_MAX_RECONCILIATION_PROPOSALS

ASSUME OperatorAssumption ==
  /\ NoProposal \notin Proposals /\ NoSession \notin Sessions
  /\ MaxSessions \in Nat \ {0} /\ MaxProposals \in Nat \ {0}

VARIABLES
  session,    \* each session's life
  home,       \* the session that prepared each proposal
  approval,   \* each proposal and its authority
  committed   \* _committed_by_effect: the fact an effect is bound to

operatorVars == <<session, home, approval, committed>>

Subjects == {SubjectOf[p] : p \in Proposals}

OperatorTypeOK ==
  /\ session \in [Sessions -> {"new", "open", "closed"}]
  /\ home \in [Proposals -> Sessions \cup {NoSession}]
  /\ approval \in [Proposals -> {"none", "proposed", "confirmed", "committed", "resolved"}]
  /\ committed \in [Subjects -> Proposals \cup {NoProposal}]

OperatorInit ==
  /\ session = [s \in Sessions |-> "new"]
  /\ home = [p \in Proposals |-> NoSession]
  /\ approval = [p \in Proposals |-> "none"]
  /\ committed = [e \in Subjects |-> NoProposal]

Opened == {s \in Sessions : session[s] = "open"}

InSession(s, p) == s \in Opened /\ p \in Proposals /\ home[p] = s

Becomes(p, state) == approval' = [approval EXCEPT ![p] = state]

--------------------------------------------------------------------------------
\* Any request that is refused: unknown session, full registry, denied.
OperatorRefused == UNCHANGED operatorVars

Open(s) ==
  /\ Cardinality(Opened) < MaxSessions
  /\ s \in Sessions /\ session[s] = "new"
  /\ session' = [session EXCEPT ![s] = "open"]
  /\ UNCHANGED <<home, approval, committed>>

\* Fault: a session may be closed over a fact in progress.
CloseAny(s) ==
  /\ s \in Opened
  /\ session' = [session EXCEPT ![s] = "closed"]
  /\ UNCHANGED <<home, approval, committed>>

\* close: never with an authority that is committed and not consumed.
Close(s) ==
  /\ s \in Opened
  /\ \A p \in Proposals : home[p] = s => approval[p] # "committed"
  /\ session' = [session EXCEPT ![s] = "closed"]
  /\ UNCHANGED <<home, approval, committed>>

\* prepare: the effect is unresolved, and no fact about it is in progress.
Prepare(s, p) ==
  /\ s \in Opened /\ p \in Proposals /\ home[p] = NoSession
  /\ Cardinality({q \in Proposals : home[q] = s}) < MaxProposals
  /\ committed[SubjectOf[p]] = NoProposal
  /\ \A q \in Proposals : SubjectOf[q] = SubjectOf[p] => approval[q] # "resolved"
  /\ home' = [home EXCEPT ![p] = s] /\ Becomes(p, "proposed")
  /\ UNCHANGED <<session, committed>>

\* confirm: the same authority again while it lives.
Confirm(s, p) ==
  /\ InSession(s, p) /\ approval[p] \in {"proposed", "confirmed", "committed"}
  /\ IF approval[p] = "proposed" THEN Becomes(p, "confirmed") ELSE UNCHANGED approval
  /\ UNCHANGED <<session, home, committed>>

MayResolve(s, p) ==
  /\ InSession(s, p) /\ approval[p] \in {"confirmed", "committed"}
  /\ committed[SubjectOf[p]] \in {NoProposal, p}
  /\ \A q \in Proposals : SubjectOf[q] = SubjectOf[p] => approval[q] # "resolved"

\* authority_expired: only what is not committed; a fresh confirmation is due.
Expire(s, p) ==
  /\ MayResolve(s, p) /\ approval[p] = "confirmed"
  /\ Becomes(p, "proposed")
  /\ UNCHANGED <<session, home, committed>>

\* ReconciliationPersistenceError: bound to its fact until it is durable.
PersistFails(s, p) ==
  /\ MayResolve(s, p)
  /\ Becomes(p, "committed")
  /\ committed' = [committed EXCEPT ![SubjectOf[p]] = p]
  /\ UNCHANGED <<session, home>>

\* Durable, whether or not the guard could be published.
Persist(s, p) ==
  /\ MayResolve(s, p)
  /\ Becomes(p, "resolved")
  /\ committed' = [committed EXCEPT ![SubjectOf[p]] = NoProposal]
  /\ UNCHANGED <<session, home>>

Resolve(s, p) == Expire(s, p) \/ PersistFails(s, p) \/ Persist(s, p)

\* begin_drain: every session is gone.
CloseAll ==
  /\ session' = [s \in Sessions |-> IF session[s] = "open" THEN "closed" ELSE session[s]]
  /\ UNCHANGED <<home, approval, committed>>

--------------------------------------------------------------------------------
\* What can still be driven to durability.
Continuable == \A e \in Subjects :
  committed[e] # NoProposal =>
    /\ session[home[committed[e]]] = "open"
    /\ approval[committed[e]] = "committed"
================================================================================
