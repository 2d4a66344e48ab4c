--------------------------- MODULE AuthorityIPCProofs --------------------------
(***************************************************************************)
(* Proofs about AuthorityIPC, for every workload, every number of calls    *)
(* and of ids, and every capacity of the table, the handlers and the       *)
(* registries.                                                             *)
(*                                                                         *)
(* Three parts of the state hardly touch each other, and the invariant has *)
(* a part for each: the table of requests and the runs that it leads to    *)
(* (TableInv, and OrderInv for the order in which it forgets), what runs   *)
(* leave behind in the world (WorldInv), the media registry (MediaInv) and *)
(* the operator's sessions (OperatorInv).                                  *)
(***************************************************************************)
EXTENDS AuthorityIPC, FiniteSetTheorems, SequenceTheorems, TLAPS

Alive(k) == run[k] \in {"scheduled", "invoking", "executing"}

\* The types of what the table, the calls and the runs keep.
TableTypeOK ==
  /\ load \in Workloads /\ draining \in BOOLEAN
  /\ handler \in [Calls -> {"none", "waiting", "over"}]
  /\ work \in [Calls -> {"none", "queued", "joined", "done"}]
  /\ of \in [Calls -> Calls \cup {None}]
  /\ reply \in [Calls -> Answers] /\ frame \in [Calls -> Answers]
  /\ run \in [Calls -> {"none", "scheduled", "invoking", "executing", "over"}]
  /\ inflight \in [Ids -> Calls \cup {None}]
  /\ retained \in [Ids -> Calls \cup {None}]
  /\ asked = [k \in Calls |-> asked[k]]
  /\ \A k \in Calls : IF handler[k] = "none" THEN asked[k] = NoRequest
                    ELSE asked[k].id \in Ids

\* A call comes before its work, and its work before a run.
Begun ==
  \A k \in Calls :
    /\ handler[k] = "none" => work[k] = "none"
    /\ work[k] \in {"none", "queued"} => run[k] = "none"

\* The table leads to the live runs, each under its own id, and to no other.
Pinned ==
  \A k \in Calls :
    /\ Alive(k) => inflight[asked[k].id] = k
    /\ \A i \in Ids : inflight[i] = k => Alive(k) /\ asked[k].id = i

\* A retained answer is the frame of a run of its id that is over.
Kept ==
  \A i \in Ids : \A j \in Calls : retained[i] = j =>
    /\ inflight[i] = None
    /\ run[j] = "over" /\ asked[j].id = i /\ frame[j].run = j

Matches(j, k) == asked[j].id = asked[k].id /\ SameRequest(j, k)

\* Who waits, waits for a live run of the same request.
Waits ==
  \A k \in Calls : work[k] = "joined" =>
    /\ of[k] # None
    /\ \A j \in Calls : of[k] = j => Alive(j) /\ Matches(j, k)

\* Who was given a frame was given that of a run that is over, of the same
\* request.
Told ==
  \A k, j \in Calls : reply[k].run = j =>
    /\ run[j] = "over" /\ work[k] = "done"
    /\ reply[k] = frame[j] /\ Matches(j, k)

TableInv == TableTypeOK /\ Begun /\ Pinned /\ Kept /\ Waits /\ Told

\* The order of the table: who stands behind an id was used after it, and who
\* was forgotten was so by the use of as many others as the table holds.
OrderTypeOK ==
  /\ recency \in Seq(Ids) /\ Len(recency) <= MaxCompleted
  /\ last \in [Ids -> Calls \cup {None}] /\ since \in [Ids -> SUBSET Ids]
  /\ \A i \in Ids : IsFiniteSet(since[i])

InOrder ==
  /\ \A m \in 1..Len(recency) : retained[recency[m]] # None
  /\ \A i \in Ids : retained[i] # None => \E m \in 1..Len(recency) : recency[m] = i
  /\ \A m, n \in 1..Len(recency) : recency[m] = recency[n] => m = n
  /\ \A m, n \in 1..Len(recency) : m < n => recency[n] \in since[recency[m]]

Forgotten ==
  \A i \in Ids : last[i] # None /\ retained[i] = None =>
    Cardinality(since[i]) >= MaxCompleted

OrderInv == OrderTypeOK /\ InOrder /\ Forgotten

\* A token is issued by a run that is over; one that was used is valid no more.
\* A run that returned in doubt is over, and its frame says so.
WorldInv ==
  /\ valid \subseteq Calls /\ unsure \subseteq Calls /\ raised \subseteq Calls
  /\ wrote \subseteq Calls \X Calls
  /\ \A t \in valid : run[t] = "over"
  /\ \A x \in wrote : run[x[1]] = "over" /\ x[1] \notin valid
  /\ OneWritePerToken
  /\ \A k \in unsure : run[k] = "over" /\ frame[k].facts

\* Nothing is pinned or live that was not handed out.
MediaInv == MediaTypeOK /\ MediaIntact /\ Live \subseteq minted

\* A fact is bound to an open session that prepared it.
Bound ==
  \A e \in Subjects : committed[e] # NoProposal =>
    /\ committed[e] \in Proposals /\ SubjectOf[committed[e]] = e
    /\ home[committed[e]] \in Opened
    /\ approval[committed[e]] = "committed"

OperatorInv == OperatorTypeOK /\ (draining \/ Bound)

IInv == TableInv /\ OrderInv /\ WorldInv /\ MediaInv /\ OperatorInv

--------------------------------------------------------------------------------
(* The table, the calls and the runs.                                      *)

\* Every code is an answer that comes from no run.
LEMMA CodesAreAnswers ==
  ASSUME NEW c \in {"none", "refused", "stale", "reused", "full", "draining",
                    "internal", "result"}
  PROVE  Code(c) \in Answers /\ Code(c).run = None
BY DEF Code, Answers

LEMMA SendKeepsTable ==
  ASSUME TableInv, NEW k \in Calls, NEW r \in Asks(k), Send(k, r)
  PROVE  TableInv'
<1> USE DEF TableInv, callVars, tableVars
<1>1. r.id \in Ids
  BY WorkloadAssumption DEF TableTypeOK, Asks
<1>2. \A j \in Calls : j # k =>
        asked'[j] = asked[j] /\ handler'[j] = handler[j] /\ work'[j] = work[j]
  BY DEF Send, TableTypeOK
<1>3. work[k] = "none" /\ run[k] = "none" /\ work'[k] = "queued" /\ handler'[k] = "waiting"
  BY DEF Send, TableTypeOK, Begun
<1>4. UNCHANGED <<load, of, reply, run, frame, inflight, retained, draining>>
  BY DEF Send
<1>5. TableTypeOK'
  BY <1>1, <1>2, <1>4 DEF Send, TableTypeOK
<1>6. Begun'
  BY <1>2, <1>3, <1>4 DEF Begun
<1>7. ~Alive(k)
  BY <1>3 DEF Alive
<1>8. Pinned'
  BY <1>2, <1>4, <1>7 DEF Pinned, Alive
<1>9. Kept'
  BY <1>2, <1>3, <1>4 DEF Kept
<1>10. Waits'
  BY <1>2, <1>3, <1>4, <1>7 DEF Waits, Alive, Matches, SameRequest, Canonical
<1>11. Told'
  BY <1>2, <1>3, <1>4 DEF Told, Matches, SameRequest, Canonical
<1> QED
  BY <1>5, <1>6, <1>8, <1>9, <1>10, <1>11

\* Connections end and nothing else happens to the requests.
LEMMA HandlersEndKeepsTable ==
  ASSUME TableInv, draining' \in BOOLEAN,
         handler' \in [Calls -> {"none", "waiting", "over"}],
         \A k \in Calls : handler'[k] = handler[k] \/ (handler[k] = "waiting" /\ handler'[k] = "over"),
         UNCHANGED <<load, asked, work, of, reply, run, frame, inflight, retained>>
  PROVE  TableInv'
<1> USE DEF TableInv
<1>1. TableTypeOK' /\ Begun'
  BY DEF TableTypeOK, Begun
<1>2. Pinned' /\ Kept'
  BY DEF Pinned, Kept, Alive
<1>3. Waits' /\ Told'
  BY DEF Waits, Told, Matches, SameRequest, Canonical, Alive
<1> QED
  BY <1>1, <1>2, <1>3

LEMMA NothingHappensToTable ==
  ASSUME TableInv, UNCHANGED <<load, callVars, run, frame, inflight, retained, draining>>
  PROVE  TableInv'
<1> USE DEF TableInv, callVars
<1>1. TableTypeOK' /\ Begun'
  BY DEF TableTypeOK, Begun
<1>2. Pinned' /\ Kept'
  BY DEF Pinned, Kept, Alive
<1>3. Waits' /\ Told'
  BY DEF Waits, Told, Matches, SameRequest, Canonical, Alive
<1> QED
  BY <1>1, <1>2, <1>3

\* A run that goes on is as alive as before.
LEMMA GoesOnKeepsTable ==
  ASSUME TableInv, NEW k \in Calls, Alive(k), NEW s \in {"invoking", "executing"},
         run' = [run EXCEPT ![k] = s],
         UNCHANGED <<load, callVars, frame, tableVars, draining>>
  PROVE  TableInv'
<1> USE DEF TableInv, callVars, tableVars
<1>1. /\ run' \in [Calls -> {"none", "scheduled", "invoking", "executing", "over"}]
      /\ \A j \in Calls : j # k => run'[j] = run[j]
      /\ run'[k] = s
  BY DEF TableTypeOK
<1>2. UNCHANGED <<load, asked, handler, work, of, reply, frame, inflight, retained, draining>>
  OBVIOUS
<1>3. \A j \in Calls : Alive(j)' <=> Alive(j)
  BY <1>1, <1>2 DEF Alive
<1>4. \A j \in Calls : (run'[j] = "none" <=> run[j] = "none") /\ (run'[j] = "over" <=> run[j] = "over")
  BY <1>1 DEF Alive
<1>5. TableTypeOK' /\ Begun'
  BY <1>1, <1>2, <1>4 DEF TableTypeOK, Begun
<1>6. Pinned'
  BY <1>2, <1>3 DEF Pinned
<1>7. Kept'
  BY <1>2, <1>4 DEF Kept
<1>8. Waits'
  BY <1>2, <1>3 DEF Waits, Matches, SameRequest, Canonical
<1>9. Told'
  BY <1>2, <1>4 DEF Told, Matches, SameRequest, Canonical
<1> QED
  BY <1>5, <1>6, <1>7, <1>8, <1>9

\* A call whose own answer comes from no run, or is refused.
LEMMA AnswerKeepsTable ==
  ASSUME TableInv, NEW k \in Calls, work[k] = "queued", handler[k] # "none",
         NEW a \in Answers, Answer(k, a),
         \A j \in Calls : a.run = j =>
           run[j] = "over" /\ frame[j] = a /\ Matches(j, k),
         UNCHANGED <<load, asked, handler, run, frame, inflight, retained, draining>>
  PROVE  TableInv'
<1> USE DEF TableInv
<1>1. \A j \in Calls : j # k => work'[j] = work[j] /\ reply'[j] = reply[j]
  BY DEF Answer, TableTypeOK
<1>2. work'[k] = "done" /\ reply'[k] = a /\ of' = of
  BY DEF Answer, TableTypeOK
<1>3. TableTypeOK'
  BY <1>1, <1>2 DEF TableTypeOK, Answer
<1>4. Begun'
  BY <1>1, <1>2 DEF Begun
<1>5. Pinned' /\ Kept'
  BY DEF Pinned, Kept, Alive
<1>6. Waits'
  BY <1>1, <1>2 DEF Waits, Alive, Matches, SameRequest, Canonical
<1>7. Told'
  BY <1>1, <1>2 DEF Told, Matches, SameRequest, Canonical
<1> QED
  BY <1>3, <1>4, <1>5, <1>6, <1>7

\* A call that waits for a live run of the same request.
LEMMA JoinKeepsTable ==
  ASSUME TableInv, NEW k \in Calls, work[k] = "queued",
         NEW j \in Calls, Alive(j), Matches(j, k), JoinRun(k, j),
         UNCHANGED <<load, asked, handler, run, frame, inflight, retained, draining>>
  PROVE  TableInv'
<1> USE DEF TableInv
<1>1. \A x \in Calls : x # k => work'[x] = work[x] /\ of'[x] = of[x]
  BY DEF JoinRun, TableTypeOK
<1>2. work'[k] = "joined" /\ of'[k] = j /\ reply' = reply
  BY DEF JoinRun, TableTypeOK
<1>3. TableTypeOK'
  BY DEF TableTypeOK, JoinRun
<1>4. handler[k] # "none"
  BY DEF Begun
<1>5. Begun'
  BY <1>1, <1>2, <1>4 DEF Begun
<1>6. Pinned' /\ Kept'
  BY DEF Pinned, Kept, Alive
<1>7. Waits'
  BY <1>1, <1>2 DEF Waits, Alive, Matches, SameRequest, Canonical, Calls, None
<1>8. Told'
  BY <1>1, <1>2 DEF Told, Matches, SameRequest, Canonical
<1> QED
  BY <1>3, <1>5, <1>6, <1>7, <1>8

\* A new request: its own run, under its id, which nothing was kept of.
LEMMA StartKeepsTable ==
  ASSUME TableInv, NEW k \in Calls, work[k] = "queued",
         inflight[asked[k].id] = None, retained[asked[k].id] = None,
         JoinRun(k, k), run' = [run EXCEPT ![k] = "scheduled"],
         inflight' = [inflight EXCEPT ![asked[k].id] = k],
         UNCHANGED <<load, asked, handler, frame, retained, draining>>
  PROVE  TableInv'
<1> USE DEF TableInv
<1> DEFINE id == asked[k].id
<1>1. \A x \in Calls : x # k => work'[x] = work[x] /\ of'[x] = of[x] /\ run'[x] = run[x]
  BY DEF JoinRun, TableTypeOK
<1>2. work'[k] = "joined" /\ of'[k] = k /\ reply' = reply /\ run'[k] = "scheduled"
  BY DEF JoinRun, TableTypeOK
<1>3. run[k] = "none" /\ ~Alive(k) /\ Alive(k)'
  BY <1>2 DEF Begun, Alive
<1>4. id \in Ids
  BY DEF Begun, TableTypeOK
<1>5. inflight'[id] = k /\ \A i \in Ids : i # id => inflight'[i] = inflight[i]
  BY <1>4 DEF TableTypeOK
<1>6. \A x \in Calls : x # k => (Alive(x)' <=> Alive(x))
  BY <1>1 DEF Alive
<1>7. TableTypeOK'
  BY DEF TableTypeOK, JoinRun
<1>8. Begun'
  BY <1>1, <1>2 DEF Begun
<1>9. None \notin Calls
  BY DEF None, Calls
<1>10. \A x \in Calls : Alive(x) => asked[x].id # id
  BY <1>9 DEF Pinned
<1>11. \A i \in Ids : inflight[i] # k
  BY <1>3 DEF Pinned
<1>12. Pinned'
  BY <1>3, <1>5, <1>6, <1>10, <1>11 DEF Pinned
<1>13. Kept'
  BY <1>1, <1>3, <1>5, <1>9 DEF Kept
<1>14. Waits'
  BY <1>1, <1>2, <1>3, <1>6, <1>9 DEF Waits, Matches, SameRequest, Canonical
<1>15. Told'
  BY <1>1, <1>2, <1>3 DEF Told, Matches, SameRequest, Canonical
<1> QED
  BY <1>7, <1>8, <1>12, <1>13, <1>14, <1>15

LEMMA ProcessKeepsTable ==
  ASSUME TableInv, NEW k \in Calls, Process(k)
  PROVE  TableInv'
<1> DEFINE i == asked[k].id
<1>1. work[k] = "queued" /\ handler[k] # "none" /\ i \in Ids
  BY DEF Process, TableInv, Begun, TableTypeOK
<1>2. UNCHANGED <<load, asked, handler, frame, draining>>
  BY DEF Process
<1>3. None \notin Calls
  BY DEF None, Calls
<1>4. ASSUME NEW c \in {"refused", "stale", "reused", "full"},
             Answer(k, Code(c)), UNCHANGED <<run, inflight, retained>>
      PROVE  TableInv'
  BY <1>1, <1>2, <1>3, <1>4, CodesAreAnswers, AnswerKeepsTable
<1>5. CASE Refuse(k)
  BY <1>4, <1>5 DEF Refuse, tableVars
<1>6. CASE JoinOrReuse(k, inflight[i])
  <2>1. inflight[i] \in Calls
    BY <1>1, <1>6 DEF JoinOrReuse, TableInv, TableTypeOK
  <2>2. PICK j \in Calls : j = inflight[i]
    BY <2>1
  <2>3. Alive(j) /\ asked[j].id = i
    BY <1>1, <2>2 DEF TableInv, Pinned
  <2>4. UNCHANGED <<run, inflight, retained>>
    BY <1>6 DEF JoinOrReuse, tableVars
  <2>5. CASE SameRequest(j, k)
    <3>1. JoinRun(k, j)
      BY <1>6, <2>2, <2>5 DEF JoinOrReuse
    <3> QED
      BY <1>1, <1>2, <2>3, <2>4, <2>5, <3>1, JoinKeepsTable DEF Matches
  <2>6. CASE ~SameRequest(j, k)
    BY <1>4, <1>6, <2>2, <2>4, <2>6 DEF JoinOrReuse
  <2> QED
    BY <2>5, <2>6
<1>7. CASE inflight[i] = None /\ RetainedOrReuse(k, retained[i])
  <2>1. retained[i] \in Calls
    BY <1>1, <1>7 DEF RetainedOrReuse, TableInv, TableTypeOK
  <2>2. PICK j \in Calls : j = retained[i]
    BY <2>1
  <2>3. run[j] = "over" /\ asked[j].id = i /\ frame[j].run = j
    BY <1>1, <2>2 DEF TableInv, Kept
  <2>4. UNCHANGED <<run, inflight, retained>>
    BY <1>7 DEF RetainedOrReuse
  <2>5. CASE SameRequest(j, k)
    <3>1. Answer(k, frame[j])
      BY <1>7, <2>2, <2>5 DEF RetainedOrReuse
    <3>2. frame[j] \in Answers
      BY DEF TableInv, TableTypeOK
    <3> QED
      BY <1>1, <1>2, <2>3, <2>4, <2>5, <3>1, <3>2, AnswerKeepsTable DEF Matches
  <2>6. CASE ~SameRequest(j, k)
    BY <1>4, <1>7, <2>2, <2>4, <2>6 DEF RetainedOrReuse
  <2> QED
    BY <2>5, <2>6
<1>8. CASE inflight[i] = None /\ retained[i] = None /\ StartRun(k)
  <2>1. CASE Cardinality(Running) >= MaxInflight
    BY <1>4, <1>8, <2>1 DEF StartRun, tableVars
  <2>2. CASE ~(Cardinality(Running) >= MaxInflight)
    <3>1. /\ JoinRun(k, k) /\ run' = [run EXCEPT ![k] = "scheduled"]
          /\ inflight' = [inflight EXCEPT ![asked[k].id] = k] /\ UNCHANGED retained
      BY <1>8, <2>2 DEF StartRun
    <3> QED
      BY <1>1, <1>2, <1>8, <3>1, StartKeepsTable
  <2> QED
    BY <2>1, <2>2
<1> QED
  BY <1>5, <1>6, <1>7, <1>8 DEF Process, Classify

\* The end of a run, as far as complete and abandon agree about it.
LEMMA ResolveKeeps ==
  ASSUME TableInv, NEW k \in Calls, Alive(k), NEW a \in Answers, ResolveRun(k, a)
  PROVE  /\ asked[k].id \in Ids /\ inflight[asked[k].id] = k
         /\ run'[k] = "over" /\ \A x \in Calls : x # k => run'[x] = run[x]
         /\ \A x \in Calls : work[x] = "joined" /\ of[x] = k =>
              work'[x] = "done" /\ reply'[x] = a /\ Matches(k, x)
         /\ \A x \in Calls : ~(work[x] = "joined" /\ of[x] = k) =>
              work'[x] = work[x] /\ reply'[x] = reply[x]
         /\ \A i \in Ids : i # asked[k].id => inflight'[i] = inflight[i]
         /\ inflight'[asked[k].id] = None
         /\ frame' \in [Calls -> Answers] /\ retained' \in [Ids -> Calls \cup {None}] => TableTypeOK'
         /\ Begun' /\ Pinned' /\ Waits'
<1> USE DEF TableInv
<1> DEFINE id == asked[k].id
<1>1. handler[k] # "none" /\ id \in Ids /\ inflight[id] = k
  BY DEF Alive, Begun, TableTypeOK, Pinned
<1>2. run'[k] = "over" /\ \A x \in Calls : x # k => run'[x] = run[x]
  BY DEF ResolveRun, TableTypeOK
<1>3. \A x \in Calls : work[x] = "joined" /\ of[x] = k =>
        work'[x] = "done" /\ reply'[x] = a /\ Matches(k, x)
  BY DEF ResolveRun, Waits
<1>4. \A x \in Calls : ~(work[x] = "joined" /\ of[x] = k) =>
        work'[x] = work[x] /\ reply'[x] = reply[x]
  BY DEF ResolveRun
<1>5. inflight'[id] = None /\ \A i \in Ids : i # id => inflight'[i] = inflight[i]
  BY <1>1 DEF ResolveRun, TableTypeOK
<1>6. UNCHANGED <<asked, handler, of, load, draining>>
  BY DEF ResolveRun
<1>7. ASSUME frame' \in [Calls -> Answers], retained' \in [Ids -> Calls \cup {None}]
      PROVE  TableTypeOK'
  <2>1. work' \in [Calls -> {"none", "queued", "joined", "done"}] /\ reply' \in [Calls -> Answers]
    BY DEF ResolveRun, TableTypeOK
  <2>2. run' \in [Calls -> {"none", "scheduled", "invoking", "executing", "over"}]
    BY DEF ResolveRun, TableTypeOK
  <2>3. inflight' \in [Ids -> Calls \cup {None}]
    BY DEF ResolveRun, TableTypeOK
  <2> QED
    BY <1>6, <1>7, <2>1, <2>2, <2>3 DEF TableTypeOK
<1>8. Begun'
  <2>1. work[k] \notin {"none", "queued"}
    BY DEF Begun, Alive
  <2> QED
    BY <1>2, <1>3, <1>4, <1>6, <2>1 DEF Begun
<1>9. \A x \in Calls : Alive(x)' <=> Alive(x) /\ x # k
  BY <1>2 DEF Alive
<1>10. None \notin Calls
  BY DEF None, Calls
<1>11. Pinned'
  <2>1. \A x \in Calls : Alive(x) /\ x # k => asked[x].id # id
    BY <1>1 DEF Pinned
  <2>2. \A x \in Calls : Alive(x)' => inflight'[asked'[x].id] = x
    <3> SUFFICES ASSUME NEW x \in Calls, Alive(x)' PROVE inflight'[asked'[x].id] = x
      OBVIOUS
    <3>1. Alive(x) /\ x # k /\ asked[x].id # id
      BY <1>9, <2>1
    <3>2. asked[x].id \in Ids
      BY <3>1 DEF Alive, Begun, TableTypeOK
    <3> QED
      BY <1>5, <1>6, <3>1, <3>2 DEF Pinned
  <2>3. \A x \in Calls : \A i \in Ids : inflight'[i] = x => Alive(x)' /\ asked'[x].id = i
    BY <1>1, <1>5, <1>6, <1>9, <1>10 DEF Pinned
  <2> QED
    BY <2>2, <2>3 DEF Pinned
<1>12. Waits'
  BY <1>3, <1>4, <1>6, <1>9, <1>10 DEF Waits, Matches, SameRequest, Canonical
<1> QED
  BY <1>1, <1>2, <1>3, <1>4, <1>5, <1>7, <1>8, <1>11, <1>12

LEMMA AbandonKeepsTable ==
  ASSUME TableInv, NEW k \in Calls, Alive(k), Abandon(k)
  PROVE  TableInv'
<1> USE DEF TableInv
<1>1. ResolveRun(k, Code("internal")) /\ UNCHANGED <<frame, retained>>
  BY DEF Abandon
<1>2. Code("internal") \in Answers /\ Code("internal").run = None
  BY CodesAreAnswers
<1>3. None \notin Calls
  BY DEF None, Calls
<1>4. TableTypeOK' /\ Begun' /\ Pinned' /\ Waits'
  BY <1>1, <1>2, ResolveKeeps DEF TableTypeOK
<1>5. UNCHANGED asked
  BY <1>1 DEF ResolveRun
<1>6. Kept'
  <2>1. run'[k] = "over" /\ \A x \in Calls : x # k => run'[x] = run[x]
    BY <1>1, <1>2, ResolveKeeps
  <2>2. \A i \in Ids : i # asked[k].id => inflight'[i] = inflight[i]
    BY <1>1, <1>2, ResolveKeeps
  <2>3. inflight'[asked[k].id] = None
    BY <1>1, <1>2, ResolveKeeps
  <2> QED
    BY <1>1, <1>5, <2>1, <2>2, <2>3 DEF Kept
<1>7. Told'
  <2>1. run'[k] = "over" /\ \A x \in Calls : x # k => run'[x] = run[x]
    BY <1>1, <1>2, ResolveKeeps
  <2>2. \A x \in Calls : work[x] = "joined" /\ of[x] = k =>
          work'[x] = "done" /\ reply'[x] = Code("internal")
    BY <1>1, <1>2, ResolveKeeps
  <2>3. \A x \in Calls : ~(work[x] = "joined" /\ of[x] = k) =>
          work'[x] = work[x] /\ reply'[x] = reply[x]
    BY <1>1, <1>2, ResolveKeeps
  <2> QED
    BY <1>1, <1>2, <1>3, <1>5, <2>1, <2>2, <2>3 DEF Told, Matches, SameRequest, Canonical
<1> QED
  BY <1>4, <1>6, <1>7

LEMMA CompleteKeepsTable ==
  ASSUME TableInv, NEW k \in Calls, Alive(k), NEW a \in Answers, Complete(k, a)
  PROVE  /\ TableInv'
         /\ frame'[k] = [a EXCEPT !.run = k]
         /\ \A x \in Calls : x # k => frame'[x] = frame[x]
<1> USE DEF TableInv
<1> DEFINE b == [a EXCEPT !.run = k]
           id == asked[k].id
<1>1. b \in Answers /\ b.run = k
  BY DEF Answers
<1>2. ResolveRun(k, b) /\ frame' = [frame EXCEPT ![k] = b]
  BY DEF Complete
<1> HIDE DEF b
<1>3. frame' \in [Calls -> Answers] /\ frame'[k] = b /\ \A x \in Calls : x # k => frame'[x] = frame[x]
  BY <1>1, <1>2 DEF TableTypeOK
<1>4. retained' \in [Ids -> Calls \cup {None}]
  BY DEF Complete, TableTypeOK
<1>5. TableTypeOK' /\ Begun' /\ Pinned' /\ Waits'
  BY <1>1, <1>2, <1>3, <1>4, ResolveKeeps
<1>6. UNCHANGED asked
  BY <1>2 DEF ResolveRun
<1>7. run'[k] = "over" /\ run[k] # "over" /\ \A x \in Calls : x # k => run'[x] = run[x]
  BY <1>1, <1>2, ResolveKeeps DEF Alive
<1>8. \A i \in Ids : i # id => inflight'[i] = inflight[i]
  BY <1>1, <1>2, ResolveKeeps
<1>9. inflight'[id] = None /\ id \in Ids
  BY <1>1, <1>2, ResolveKeeps
<1>10. None \notin Calls
  BY DEF None, Calls
<1>11. Kept'
  <2>1. retained'[id] = k
    BY <1>9 DEF Complete
  <2>2. \A i \in Ids : i # id => retained'[i] \in {None, retained[i]}
    BY DEF Complete
  <2>3. \A i \in Ids : retained[i] # k
    BY <1>7 DEF Kept
  <2>4. ASSUME NEW i \in Ids, NEW j \in Calls, retained'[i] = j
        PROVE  inflight'[i] = None /\ run'[j] = "over" /\ asked'[j].id = i /\ frame'[j].run = j
    <3>1. CASE i = id
      BY <1>1, <1>3, <1>6, <1>7, <1>9, <2>1, <2>4, <3>1
    <3>2. CASE i # id
      BY <1>3, <1>6, <1>7, <1>8, <1>10, <2>2, <2>3, <2>4, <3>2 DEF Kept
    <3> QED
      BY <3>1, <3>2
  <2> QED
    BY <2>4 DEF Kept
<1>12. Told'
  <2>1. \A x \in Calls : work[x] = "joined" /\ of[x] = k =>
          work'[x] = "done" /\ reply'[x] = b /\ Matches(k, x)
    BY <1>1, <1>2, ResolveKeeps
  <2>2. \A x \in Calls : ~(work[x] = "joined" /\ of[x] = k) =>
          work'[x] = work[x] /\ reply'[x] = reply[x]
    BY <1>1, <1>2, ResolveKeeps
  <2>3. \A x, j \in Calls : reply[x].run = j => j # k
    BY <1>7 DEF Told
  <2>4. ASSUME NEW x \in Calls, NEW j \in Calls, reply'[x].run = j
        PROVE  run'[j] = "over" /\ work'[x] = "done" /\ reply'[x] = frame'[j] /\ Matches(j, x)'
    <3>1. CASE work[x] = "joined" /\ of[x] = k
      BY <1>1, <1>3, <1>6, <1>7, <2>1, <2>4, <3>1 DEF Matches, SameRequest, Canonical
    <3>2. CASE ~(work[x] = "joined" /\ of[x] = k)
      BY <1>3, <1>6, <1>7, <2>2, <2>3, <2>4, <3>2 DEF Told, Matches, SameRequest, Canonical
    <3> QED
      BY <3>1, <3>2
  <2> QED
    BY <2>4 DEF Told
<1> QED
  BY <1>3, <1>5, <1>11, <1>12 DEF b

--------------------------------------------------------------------------------
(* The order in which the table forgets.                                   *)

LEMMA NothingHappensToOrder ==
  ASSUME OrderInv, UNCHANGED <<recency, last, since, retained>>
  PROVE  OrderInv'
BY DEF OrderInv, OrderTypeOK, InOrder, Forgotten

\* The use of an id is one more that came after every other.
LEMMA UsedGrows ==
  ASSUME OrderTypeOK, NEW i \in Ids, Used(i)
  PROVE  /\ since' \in [Ids -> SUBSET Ids]
         /\ \A j \in Ids : IsFiniteSet(since'[j])
         /\ \A j \in Ids : j # i => since'[j] = since[j] \cup {i}
         /\ \A j \in Ids : j # i => Cardinality(since'[j]) >= Cardinality(since[j])
<1>1. since' \in [Ids -> SUBSET Ids]
  BY DEF OrderTypeOK, Used
<1>2. \A j \in Ids : j # i => since'[j] = since[j] \cup {i}
  BY DEF Used
<1>3. since'[i] = {} /\ IsFiniteSet({})
  BY FS_EmptySet DEF Used
<1>4. ASSUME NEW j \in Ids, j # i
      PROVE  IsFiniteSet(since'[j]) /\ Cardinality(since'[j]) >= Cardinality(since[j])
  <2>1. IsFiniteSet(since[j])
    BY DEF OrderTypeOK
  <2>2. /\ IsFiniteSet(since[j] \cup {i})
        /\ Cardinality(since[j] \cup {i}) =
             IF i \in since[j] THEN Cardinality(since[j]) ELSE Cardinality(since[j]) + 1
    BY <2>1, FS_AddElement
  <2>3. Cardinality(since[j]) \in Nat
    BY <2>1, FS_CardinalityType
  <2> QED
    BY <1>2, <1>4, <2>2, <2>3
<1> QED
  BY <1>1, <1>2, <1>3, <1>4

\* A hit moves its entry to the end and leaves the others as they stand.
LEMMA RenewKeepsOrder ==
  ASSUME OrderInv, NEW i \in Ids, retained[i] # None,
         recency' = Renewed(i), Used(i), UNCHANGED <<retained, last>>
  PROVE  OrderInv'
<1> USE DEF OrderInv
<1> DEFINE L == Len(recency)
<1>1. L \in Nat /\ DOMAIN recency = 1..L /\ \A m \in 1..L : recency[m] \in Ids
  BY LenProperties, ElementOfSeq DEF OrderTypeOK
<1>2. PICK n \in 1..L : recency[n] = i
  BY DEF InOrder
<1>3. (CHOOSE m \in DOMAIN recency : recency[m] = i) = n
  BY <1>1, <1>2 DEF InOrder
<1>4. recency' = [m \in 1..L |-> IF m < n THEN recency[m] ELSE IF m < L THEN recency[m + 1] ELSE i]
  BY <1>1, <1>3 DEF Renewed
<1>5. \A m \in 1..L : recency'[m] = IF m < n THEN recency[m] ELSE IF m < L THEN recency[m + 1] ELSE i
  BY <1>4
<1>6. \A m \in 1..L : recency'[m] \in Ids
  BY <1>1, <1>5
<1>7. recency' \in Seq(Ids) /\ Len(recency') = L
  <2>1. recency' = [m \in 1..L |-> recency'[m]]
    BY <1>4
  <2> HIDE DEF L
  <2>2. recency' \in Seq(Ids)
    BY <1>1, <1>6, <2>1, IsASeq
  <2>3. DOMAIN recency' = 1..L
    BY <2>1
  <2> QED
    BY <1>1, <2>2, <2>3, LenProperties
<1>8. /\ since' \in [Ids -> SUBSET Ids]
      /\ \A j \in Ids : IsFiniteSet(since'[j])
      /\ \A j \in Ids : j # i => since'[j] = since[j] \cup {i}
      /\ \A j \in Ids : j # i => Cardinality(since'[j]) >= Cardinality(since[j])
  BY UsedGrows
<1>9. OrderTypeOK'
  BY <1>7, <1>8 DEF OrderTypeOK
<1>10. \A j \in Ids : retained'[j] # None => \E m \in 1..Len(recency') : recency'[m] = j
  <2> SUFFICES ASSUME NEW j \in Ids, retained[j] # None
               PROVE  \E m \in 1..L : recency'[m] = j
    BY <1>7
  <2>1. PICK p \in 1..L : recency[p] = j
    BY DEF InOrder
  <2>2. CASE p < n
    BY <1>1, <1>5, <2>1, <2>2
  <2>3. CASE p = n
    BY <1>1, <1>2, <1>5, <2>1, <2>3
  <2>4. CASE p > n
    <3>1. p - 1 \in 1..L /\ ~(p - 1 < n) /\ p - 1 < L
      BY <1>1, <2>1, <2>4
    <3>2. recency'[p - 1] = recency[p]
      BY <1>1, <1>5, <2>1, <3>1
    <3> QED
      BY <2>1, <3>1, <3>2
  <2> QED
    BY <1>1, <2>1, <2>2, <2>3, <2>4
<1>11. \A m \in 1..L : retained'[recency'[m]] # None
  <2> SUFFICES ASSUME NEW m \in 1..L PROVE retained[recency'[m]] # None
    OBVIOUS
  <2>1. CASE m < n
    BY <1>5, <2>1 DEF InOrder
  <2>2. CASE ~(m < n) /\ m < L
    <3>1. m + 1 \in 1..L
      BY <1>1, <2>2
    <3> QED
      BY <1>5, <2>2, <3>1 DEF InOrder
  <2>3. CASE ~(m < n) /\ ~(m < L)
    BY <1>5, <2>3
  <2> QED
    BY <2>1, <2>2, <2>3
<1>12. \A m \in 1..L : m < L => recency'[m] # i /\ \E p \in 1..L : recency'[m] = recency[p] /\ p = IF m < n THEN m ELSE m + 1
  <2> SUFFICES ASSUME NEW m \in 1..L, m < L
               PROVE  recency'[m] # i /\ \E p \in 1..L : recency'[m] = recency[p] /\ p = IF m < n THEN m ELSE m + 1
    OBVIOUS
  <2>1. CASE m < n
    BY <1>1, <1>2, <1>5, <2>1 DEF InOrder
  <2>2. CASE ~(m < n)
    <3>1. m + 1 \in 1..L /\ m + 1 # n
      BY <1>1, <2>2
    <3>2. recency'[m] = recency[m + 1]
      BY <1>5, <2>2
    <3> QED
      BY <1>1, <1>2, <2>2, <3>1, <3>2 DEF InOrder
  <2> QED
    BY <2>1, <2>2
<1>13. L \in 1..L /\ recency'[L] = i
  BY <1>1, <1>2, <1>5
<1>14. \A m, q \in 1..L : m < q => recency'[m] # recency'[q] /\ recency'[q] \in since'[recency'[m]]
  <2> SUFFICES ASSUME NEW m \in 1..L, NEW q \in 1..L, m < q
               PROVE  recency'[m] # recency'[q] /\ recency'[q] \in since'[recency'[m]]
    OBVIOUS
  <2>1. m < L /\ recency'[m] # i /\ recency'[m] \in Ids
    BY <1>1, <1>6, <1>12
  <2>2. since'[recency'[m]] = since[recency'[m]] \cup {i}
    BY <1>8, <2>1
  <2>3. CASE q = L
    BY <1>13, <2>1, <2>2, <2>3
  <2>4. CASE q < L
    <3>1. PICK a \in 1..L : recency'[m] = recency[a] /\ a = IF m < n THEN m ELSE m + 1
      BY <1>12, <2>1
    <3>2. PICK b \in 1..L : recency'[q] = recency[b] /\ b = IF q < n THEN q ELSE q + 1
      BY <1>12, <2>4
    <3>3. a < b
      BY <3>1, <3>2
    <3> QED
      BY <2>2, <3>1, <3>2, <3>3 DEF InOrder
  <2>5. q = L \/ q < L
    <3> HIDE DEF L
    <3> QED
      BY <1>1
  <2> QED
    BY <2>3, <2>4, <2>5
<1>15. \A m, q \in 1..L : recency'[m] = recency'[q] => m = q
  <2> SUFFICES ASSUME NEW m \in 1..L, NEW q \in 1..L, m # q
               PROVE  recency'[m] # recency'[q]
    OBVIOUS
  <2>1. m < q \/ q < m
    BY <1>1
  <2> QED
    BY <1>14, <2>1
<1>16. InOrder'
  BY <1>7, <1>10, <1>11, <1>14, <1>15 DEF InOrder
<1>17. Forgotten'
  <2> SUFFICES ASSUME NEW j \in Ids, last[j] # None, retained[j] = None
               PROVE  Cardinality(since'[j]) >= MaxCompleted
    BY DEF Forgotten
  <2>1. j # i /\ Cardinality(since[j]) >= MaxCompleted
    BY DEF Forgotten
  <2>2. Cardinality(since[j]) \in Nat /\ Cardinality(since'[j]) \in Nat
    BY <1>8, FS_CardinalityType DEF OrderTypeOK
  <2> QED
    BY <1>8, <2>1, <2>2, IPCAssumption
<1> QED
  BY <1>9, <1>16, <1>17

\* What is forgotten for a new entry: the oldest, whose successors and the new
\* one itself all came after it.
LEMMA EvictionForgets ==
  ASSUME OrderInv, NEW i \in Ids, retained[i] = None, Used(i),
         Len(recency) >= MaxCompleted
  PROVE  Cardinality(since'[Head(recency)]) >= MaxCompleted
<1> USE DEF OrderInv
<1> DEFINE L == Len(recency)
           h == Head(recency)
           f == [n \in 1..L |-> IF n < L THEN recency[n + 1] ELSE i]
<1>1. L \in Nat \ {0} /\ L = MaxCompleted /\ \A m \in 1..L : recency[m] \in Ids
  BY LenProperties, ElementOfSeq, IPCAssumption DEF OrderTypeOK
<1>2. 1 \in 1..L /\ h = recency[1]
  BY <1>1 DEF OrderTypeOK
<1>3. \A m \in 1..L : recency[m] # i
  BY DEF InOrder
<1>4. h \in Ids /\ h # i
  BY <1>1, <1>2, <1>3
<1>5. IsFiniteSet(since'[h]) /\ since'[h] = since[h] \cup {i}
  BY <1>4, UsedGrows
<1>6. \A n \in 1..L : f[n] \in since'[h]
  <2> SUFFICES ASSUME NEW n \in 1..L PROVE f[n] \in since'[h]
    OBVIOUS
  <2>1. CASE n < L
    <3>1. n + 1 \in 1..L /\ 1 < n + 1
      BY <1>1, <2>1
    <3> QED
      BY <1>2, <1>5, <2>1, <3>1 DEF InOrder
  <2>2. CASE ~(n < L)
    BY <1>5, <2>2
  <2> QED
    BY <2>1, <2>2
<1>7. \A m, n \in 1..L : f[m] = f[n] => m = n
  <2> SUFFICES ASSUME NEW m \in 1..L, NEW n \in 1..L, f[m] = f[n] PROVE m = n
    OBVIOUS
  <2>1. CASE m < L /\ n < L
    <3>1. m + 1 \in 1..L /\ n + 1 \in 1..L
      BY <1>1, <2>1
    <3>2. m + 1 = n + 1
      BY <2>1, <3>1 DEF InOrder
    <3> QED
      BY <3>2
  <2>2. CASE m < L /\ ~(n < L)
    <3>1. m + 1 \in 1..L
      BY <1>1, <2>2
    <3> QED
      BY <1>3, <2>2, <3>1
  <2>3. CASE ~(m < L) /\ n < L
    <3>1. n + 1 \in 1..L
      BY <1>1, <2>3
    <3> QED
      BY <1>3, <2>3, <3>1
  <2>4. CASE ~(m < L) /\ ~(n < L)
    BY <1>1, <2>4
  <2> QED
    BY <2>1, <2>2, <2>3, <2>4
<1>8. f \in Injection(1..L, since'[h])
  BY <1>6, <1>7 DEF Injection, IsInjective
<1>9. Cardinality(1..L) <= Cardinality(since'[h])
  BY <1>5, <1>8, FS_Injection
<1>10. Cardinality(1..L) = L
  BY <1>1, FS_Interval
<1>11. Cardinality(since'[h]) \in Nat
  BY <1>5, FS_CardinalityType
<1> QED
  BY <1>1, <1>9, <1>10, <1>11

LEMMA CompleteKeepsOrder ==
  ASSUME TableInv, OrderInv, NEW k \in Calls, Alive(k), NEW a \in Answers, Complete(k, a)
  PROVE  OrderInv'
<1> USE DEF OrderInv
<1> DEFINE L == Len(recency)
           i == asked[k].id
<1>1. i \in Ids /\ inflight[i] = k /\ None \notin Calls
  BY DEF TableInv, TableTypeOK, Begun, Alive, Pinned, None, Calls
<1>2. retained[i] = None
  BY <1>1 DEF TableInv, TableTypeOK, Kept
<1>3. L \in Nat /\ DOMAIN recency = 1..L /\ (\A m \in 1..L : recency[m] \in Ids) /\ L <= MaxCompleted
  BY LenProperties, ElementOfSeq DEF OrderTypeOK
<1>4. Used(i) /\ last' = [last EXCEPT ![i] = k]
  BY DEF Complete
<1>5. /\ since' \in [Ids -> SUBSET Ids]
      /\ \A j \in Ids : IsFiniteSet(since'[j])
      /\ \A j \in Ids : j # i => since'[j] = since[j] \cup {i}
      /\ \A j \in Ids : j # i => Cardinality(since'[j]) >= Cardinality(since[j])
  BY <1>1, <1>4, UsedGrows
<1>6. last' \in [Ids -> Calls \cup {None}] /\ \A j \in Ids : j # i => last'[j] = last[j]
  BY <1>1, <1>4 DEF OrderTypeOK
<1>7. \A j \in Ids : /\ Cardinality(since[j]) \in Nat
                    /\ Cardinality(since'[j]) \in Nat
  BY <1>5, FS_CardinalityType DEF OrderTypeOK
<1>8. \A m \in 1..L : recency[m] # i
  BY <1>2 DEF InOrder
<1>9. \A j \in Ids : j # i /\ last[j] # None /\ retained[j] = None =>
        Cardinality(since'[j]) >= MaxCompleted
  BY <1>5, <1>7, IPCAssumption DEF Forgotten
<1>10. CASE ~(L >= MaxCompleted)
  <2>1. recency' = Append(recency, i)
    BY <1>10 DEF Complete
  <2>2. retained' = [j \in Ids |-> IF j = i THEN k ELSE retained[j]]
    BY <1>10 DEF Complete
  <2>3. /\ recency' \in Seq(Ids) /\ Len(recency') = L + 1
        /\ \A m \in 1..L : recency'[m] = recency[m]
        /\ recency'[L + 1] = i
    BY <1>1, <2>1, AppendProperties DEF OrderTypeOK
  <2>4. OrderTypeOK'
    BY <1>3, <1>5, <1>6, <1>10, <2>3, IPCAssumption DEF OrderTypeOK
  <2>5. \A m \in 1..(L + 1) : m \in 1..L \/ m = L + 1
    BY <1>3
  <2>6. \A m \in 1..(L + 1) : retained'[recency'[m]] # None
    BY <1>1, <1>3, <2>2, <2>3, <2>5 DEF InOrder
  <2>7. \A j \in Ids : retained'[j] # None => \E m \in 1..(L + 1) : recency'[m] = j
    <3> SUFFICES ASSUME NEW j \in Ids, retained'[j] # None
                 PROVE  \E m \in 1..(L + 1) : recency'[m] = j
      OBVIOUS
    <3>1. CASE j = i
      <4>1. L + 1 \in 1..(L + 1)
        BY <1>3
      <4> QED
        BY <2>3, <3>1, <4>1
    <3>2. CASE j # i
      <4>1. PICK m \in 1..L : recency[m] = j
        BY <2>2, <3>2 DEF InOrder
      <4>2. m \in 1..(L + 1)
        BY <1>3
      <4> QED
        BY <2>3, <4>1, <4>2
    <3> QED
      BY <3>1, <3>2
  <2>8. \A m, n \in 1..(L + 1) : recency'[m] = recency'[n] => m = n
    BY <1>8, <2>3, <2>5 DEF InOrder
  <2>9. \A m, n \in 1..(L + 1) : m < n => recency'[n] \in since'[recency'[m]]
    <3> SUFFICES ASSUME NEW m \in 1..(L + 1), NEW n \in 1..(L + 1), m < n
                 PROVE  recency'[n] \in since'[recency'[m]]
      OBVIOUS
    <3>1. m \in 1..L
      BY <1>3
    <3>2. since'[recency'[m]] = since[recency[m]] \cup {i}
      BY <1>3, <1>5, <1>8, <2>3, <3>1
    <3> QED
      BY <2>3, <2>5, <3>1, <3>2 DEF InOrder
  <2>10. InOrder'
    BY <2>3, <2>6, <2>7, <2>8, <2>9 DEF InOrder
  <2>11. Forgotten'
    BY <1>1, <1>6, <1>9, <2>2 DEF Forgotten
  <2> QED
    BY <2>4, <2>10, <2>11
<1>11. CASE L >= MaxCompleted
  <2> DEFINE h == Head(recency)
  <2>1. recency # <<>> /\ L >= 1 /\ 1 \in 1..L /\ h = recency[1] /\ h \in Ids /\ h # i
    BY <1>3, <1>8, <1>11, IPCAssumption DEF OrderTypeOK
  <2>2. recency' = Append(Tail(recency), i)
    BY <1>11 DEF Complete
  <2>3. retained' = [j \in Ids |-> IF j = i THEN k ELSE IF j = h THEN None ELSE retained[j]]
    BY <1>11 DEF Complete
  <2>4. /\ Tail(recency) \in Seq(Ids) /\ Len(Tail(recency)) = L - 1
        /\ \A m \in 1..(L - 1) : Tail(recency)[m] = recency[m + 1]
    BY <2>1, HeadTailProperties DEF OrderTypeOK
  <2>5. /\ recency' \in Seq(Ids) /\ Len(recency') = L
        /\ \A m \in 1..(L - 1) : recency'[m] = recency[m + 1]
        /\ recency'[L] = i
    <3>1. /\ recency' \in Seq(Ids) /\ Len(recency') = (L - 1) + 1
          /\ \A m \in 1..(L - 1) : recency'[m] = Tail(recency)[m]
          /\ recency'[(L - 1) + 1] = i
      BY <1>1, <2>2, <2>4, AppendProperties
    <3>2. (L - 1) + 1 = L
      BY <1>3
    <3> QED
      BY <2>4, <3>1, <3>2
  <2>6. OrderTypeOK'
    BY <1>3, <1>5, <1>6, <2>5 DEF OrderTypeOK
  <2>7. \A m \in 1..L : m \in 1..(L - 1) \/ m = L
    <3> HIDE DEF L
    <3> QED
      BY <1>3
  <2>8. \A m \in 1..(L - 1) : m + 1 \in 1..L /\ 1 < m + 1 /\ m \in 1..L
    BY <1>3
  <2>9. \A m \in 1..(L - 1) : recency'[m] # i /\ recency'[m] # h /\ recency'[m] \in Ids
    BY <1>3, <1>8, <2>1, <2>5, <2>8 DEF InOrder
  <2>10. \A m \in 1..L : retained'[recency'[m]] # None
    <3> SUFFICES ASSUME NEW m \in 1..L PROVE retained'[recency'[m]] # None
      OBVIOUS
    <3>1. CASE m = L
      <4>1. recency'[m] = i /\ retained'[i] = k
        BY <1>1, <2>3, <2>5, <3>1
      <4> QED
        BY <1>1, <4>1
    <3>2. CASE m \in 1..(L - 1)
      <4>1. retained'[recency'[m]] = retained[recency'[m]]
        BY <2>3, <2>9, <3>2
      <4> QED
        BY <2>5, <2>8, <3>2, <4>1 DEF InOrder
    <3> QED
      BY <2>7, <3>1, <3>2
  <2>11. \A j \in Ids : retained'[j] # None => \E m \in 1..L : recency'[m] = j
    <3> SUFFICES ASSUME NEW j \in Ids, retained'[j] # None
                 PROVE  \E m \in 1..L : recency'[m] = j
      OBVIOUS
    <3>1. CASE j = i
      <4>1. L \in 1..L
        BY <1>3, <2>1
      <4> QED
        BY <2>5, <3>1, <4>1
    <3>2. CASE j # i
      <4>1. j # h /\ retained[j] # None
        BY <2>3, <3>2
      <4>2. PICK m \in 1..L : recency[m] = j
        BY <4>1 DEF InOrder
      <4>3. m - 1 \in 1..(L - 1) /\ (m - 1) + 1 = m /\ m - 1 \in 1..L
        BY <1>3, <2>1, <4>1, <4>2
      <4>4. recency'[m - 1] = recency[m]
        BY <2>5, <4>3
      <4> QED
        BY <4>2, <4>3, <4>4
    <3> QED
      BY <3>1, <3>2
  <2>12. \A m, n \in 1..L : recency'[m] = recency'[n] => m = n
    <3> SUFFICES ASSUME NEW m \in 1..L, NEW n \in 1..L, recency'[m] = recency'[n]
                 PROVE  m = n
      OBVIOUS
    <3>1. CASE m \in 1..(L - 1) /\ n \in 1..(L - 1)
      <4>1. recency[m + 1] = recency[n + 1]
        BY <2>5, <3>1
      <4>2. m + 1 = n + 1
        BY <2>8, <3>1, <4>1 DEF InOrder
      <4> QED
        BY <4>2
    <3>2. CASE m = L \/ n = L
      BY <2>5, <2>7, <2>9, <3>2
    <3> QED
      BY <2>7, <3>1, <3>2
  <2>13. \A m, n \in 1..L : m < n => recency'[n] \in since'[recency'[m]]
    <3> SUFFICES ASSUME NEW m \in 1..L, NEW n \in 1..L, m < n
                 PROVE  recency'[n] \in since'[recency'[m]]
      OBVIOUS
    <3>1. m \in 1..(L - 1)
      BY <1>3
    <3>2. since'[recency'[m]] = since[recency[m + 1]] \cup {i}
      BY <1>5, <2>5, <2>9, <3>1
    <3>3. CASE n = L
      BY <2>5, <3>2, <3>3
    <3>4. CASE n \in 1..(L - 1)
      <4>1. recency'[n] = recency[n + 1] /\ m + 1 < n + 1
        BY <2>5, <3>4
      <4> QED
        BY <2>8, <3>1, <3>2, <3>4, <4>1 DEF InOrder
    <3> QED
      BY <2>7, <3>3, <3>4
  <2>14. InOrder'
    BY <2>5, <2>10, <2>11, <2>12, <2>13 DEF InOrder
  <2>15. Cardinality(since'[h]) >= MaxCompleted
    BY <1>1, <1>2, <1>4, <1>11, EvictionForgets
  <2>16. Forgotten'
    BY <1>1, <1>6, <1>9, <2>3, <2>15 DEF Forgotten
  <2> QED
    BY <2>6, <2>14, <2>16
<1> QED
  BY <1>10, <1>11

\* An abandoned run leaves nothing to be forgotten.
LEMMA AbandonKeepsOrder ==
  ASSUME TableInv, OrderInv, NEW k \in Calls, Alive(k), Abandon(k)
  PROVE  OrderInv'
<1>1. asked[k].id \in Ids
  BY DEF TableInv, TableTypeOK, Begun, Alive
<1>2. last' = [last EXCEPT ![asked[k].id] = None] /\ UNCHANGED <<retained, recency, since>>
  BY DEF Abandon
<1>3. last' \in [Ids -> Calls \cup {None}] /\ \A j \in Ids : last'[j] \in {last[j], None}
  BY <1>1, <1>2 DEF OrderInv, OrderTypeOK
<1> QED
  BY <1>2, <1>3 DEF OrderInv, OrderTypeOK, InOrder, Forgotten

--------------------------------------------------------------------------------
(* The media registry.                                                     *)

LEMMA MediaUntouched ==
  ASSUME MediaInv, UNCHANGED mediaVars
  PROVE  MediaInv'
BY DEF MediaInv, mediaVars, MediaTypeOK, MediaIntact, MediaStays, NothingLeftBehind, Live

LEMMA IngestKeepsMedia ==
  ASSUME MediaInv, NEW r \in Refs, NEW d \in Digests, Ingest(r, d)
  PROVE  MediaInv'
<1> USE DEF MediaInv, MediaIntact
<1>1. artifact[r] = NoDigest /\ d # NoDigest
  BY MediaAssumption DEF Ingest, Live
<1>2. artifact'[r] = d /\ \A q \in Refs : q # r => artifact'[q] = artifact[q]
  BY DEF Ingest, MediaTypeOK
<1>3. file'[d] = "whole" /\ \A e \in Digests : e # d => file'[e] = file[e]
  BY DEF Ingest, MediaTypeOK
<1>4. pins' = pins /\ minted' = minted \cup {r} /\ touched' = touched \ {d} /\ residue' = residue \ {d}
  BY DEF Ingest
<1>5. Live' = Live \cup {r}
  BY <1>1, <1>2 DEF Live
<1>6. MediaTypeOK'
  BY <1>4 DEF Ingest, MediaTypeOK
<1>7. MediaStays'
  BY <1>2, <1>3, <1>4, <1>5 DEF MediaStays, MediaTypeOK, Live
<1>8. NothingLeftBehind'
  BY <1>1, <1>2, <1>3, <1>4, <1>5 DEF NothingLeftBehind, Live
<1>9. Live' \subseteq minted'
  BY <1>4, <1>5
<1> QED
  BY <1>6, <1>7, <1>8, <1>9

LEMMA PinKeepsMedia ==
  ASSUME MediaInv, NEW rs, NEW k \in Holders, ResolveAll(rs), Pin(rs, k)
  PROVE  MediaInv'
<1> USE DEF MediaInv, MediaIntact
<1>1. UNCHANGED <<artifact, minted, file, touched, residue>>
  BY DEF Pin
<1>2. pins' = [r \in Refs |-> IF r \in rs THEN pins[r] \cup {k} ELSE pins[r]]
  BY DEF Pin
<1>3. MediaTypeOK'
  BY <1>1, <1>2 DEF MediaTypeOK
<1>4. \A r \in Refs : pins'[r] # {} => r \in Live
  BY <1>2 DEF MediaStays, ResolveAll, Resolves
<1> QED
  BY <1>1, <1>3, <1>4 DEF MediaStays, NothingLeftBehind, Live

LEMMA UnpinKeepsMedia ==
  ASSUME MediaInv, NEW k, Unpin(k)
  PROVE  MediaInv'
<1> USE DEF MediaInv, MediaIntact
<1>1. UNCHANGED <<artifact, minted, file, touched, residue>>
  BY DEF Unpin
<1>2. pins' = [r \in Refs |-> pins[r] \ {k}]
  BY DEF Unpin
<1>3. MediaTypeOK'
  BY <1>1, <1>2 DEF MediaTypeOK
<1>4. \A r \in Refs : pins'[r] # {} => r \in Live
  BY <1>2 DEF MediaStays
<1> QED
  BY <1>1, <1>3, <1>4 DEF MediaStays, NothingLeftBehind, Live

\* The last reference takes its file along, and no other needs it.
LEMMA ReleaseKeepsMedia ==
  ASSUME MediaInv, NEW r, ReleaseShared(r) \/ ReleaseLast(r)
  PROVE  MediaInv'
<1> USE DEF MediaInv, MediaIntact
<1>1. r \in Live /\ r \in Refs /\ pins[r] = {}
  BY DEF ReleaseShared, ReleaseLast, Releasable, Live
<1>2. UNCHANGED <<pins, minted, touched, residue>>
  BY DEF ReleaseShared, ReleaseLast
<1>3. artifact' = [artifact EXCEPT ![r] = NoDigest]
  BY DEF ReleaseShared, ReleaseLast, Forget
<1>4. Live' = Live \ {r} /\ \A q \in Live : q # r => artifact'[q] = artifact[q]
  BY <1>1, <1>3 DEF Live, MediaTypeOK
<1>5. artifact[r] \in Digests
  BY <1>1 DEF Live, MediaTypeOK
<1>6. CASE ReleaseShared(r)
  <2>1. file' = file /\ \E q \in Live : q # r /\ artifact[q] = artifact[r]
    BY <1>6 DEF ReleaseShared, Sharers
  <2>2. MediaTypeOK'
    BY <1>2, <1>3, <2>1 DEF MediaTypeOK
  <2>3. MediaStays'
    BY <1>1, <1>2, <1>4, <2>1 DEF MediaStays
  <2>4. NothingLeftBehind'
    BY <1>2, <1>4, <2>1 DEF NothingLeftBehind
  <2> QED
    BY <1>2, <1>4, <2>2, <2>3, <2>4
<1>7. CASE ReleaseLast(r)
  <2>1. \A q \in Live : q # r => artifact[q] # artifact[r]
    BY <1>7 DEF ReleaseLast, Sharers
  <2>2. file' = [file EXCEPT ![artifact[r]] = "absent"]
    BY <1>7 DEF ReleaseLast
  <2>3. file'[artifact[r]] = "absent" /\ \A d \in Digests : d # artifact[r] => file'[d] = file[d]
    BY <1>5, <2>2 DEF MediaTypeOK
  <2>4. MediaTypeOK'
    BY <1>2, <1>3, <2>2 DEF MediaTypeOK
  <2>5. MediaStays'
    <3>1. \A q \in Live' : artifact'[q] \in Digests /\ artifact'[q] # artifact[r]
      BY <1>4, <2>1 DEF Live, MediaTypeOK
    <3> QED
      BY <1>1, <1>2, <1>4, <2>3, <3>1 DEF MediaStays
  <2>6. NothingLeftBehind'
    BY <1>2, <1>4, <2>3 DEF NothingLeftBehind
  <2> QED
    BY <1>2, <1>4, <2>4, <2>5, <2>6
<1> QED
  BY <1>6, <1>7

LEMMA CleanupKeepsMedia ==
  ASSUME MediaInv, Cleanup
  PROVE  MediaInv'
<1> USE DEF MediaInv, MediaIntact
<1> DEFINE kept == {r \in Live : pins[r] # {}}
           used == {artifact[r] : r \in kept}
           old  == {d \in Digests \ used : file[d] # "absent"}
<1>1. PICK stuck \in SUBSET old :
        /\ artifact' = [r \in Refs |-> IF r \in kept THEN artifact[r] ELSE NoDigest]
        /\ file' = [d \in Digests |-> IF d \in old \ stuck THEN "absent" ELSE file[d]]
        /\ residue' = stuck
        /\ UNCHANGED <<pins, minted, touched>>
  BY DEF Cleanup
<1>2. Live' = kept /\ \A r \in kept : r \in Refs /\ artifact'[r] = artifact[r]
  BY <1>1 DEF Live
<1>3. MediaTypeOK'
  BY <1>1 DEF MediaTypeOK
<1>4. \A r \in kept : artifact[r] \in Digests /\ file'[artifact[r]] = file[artifact[r]]
  BY <1>1, <1>2 DEF Live, MediaTypeOK
<1>5. MediaStays'
  BY <1>1, <1>2, <1>4 DEF MediaStays
<1>6. NothingLeftBehind'
  <2> SUFFICES ASSUME NEW d \in Digests, file'[d] # "absent", d \notin stuck
               PROVE  \E r \in kept : artifact[r] = d
    BY <1>1, <1>2 DEF NothingLeftBehind
  <2>1. d \notin old /\ file[d] # "absent"
    BY <1>1
  <2> QED
    BY <2>1
<1>7. Live' \subseteq minted'
  BY <1>1, <1>2
<1> QED
  BY <1>3, <1>5, <1>6, <1>7

LEMMA TamperKeepsMedia ==
  ASSUME MediaInv, NEW d \in Digests, Tamper(d)
  PROVE  MediaInv'
<1> USE DEF MediaInv, MediaIntact
<1>1. UNCHANGED <<artifact, pins, minted, residue>> /\ touched' = touched \cup {d}
  BY DEF Tamper
<1>2. file[d] # "absent" /\ \A e \in Digests : e # d => file'[e] = file[e]
  BY DEF Tamper, MediaTypeOK
<1>3. MediaTypeOK'
  BY <1>1 DEF Tamper, MediaTypeOK
<1>4. Live' = Live
  BY <1>1 DEF Live
<1>5. MediaStays'
  BY <1>1, <1>2, <1>4 DEF MediaStays, Live, MediaTypeOK
<1>6. NothingLeftBehind'
  BY <1>1, <1>2, <1>4 DEF NothingLeftBehind
<1> QED
  BY <1>1, <1>3, <1>4, <1>5, <1>6

--------------------------------------------------------------------------------
(* The operator's sessions.                                                *)

LEMMA OperatorUntouched ==
  ASSUME OperatorInv, UNCHANGED operatorVars, draining => draining'
  PROVE  OperatorInv'
BY DEF OperatorInv, operatorVars, OperatorTypeOK, Bound, Opened

LEMMA OpenKeepsOperator ==
  ASSUME OperatorTypeOK, Bound, NEW s, Open(s)
  PROVE  OperatorTypeOK' /\ Bound'
<1>1. UNCHANGED <<home, approval, committed>> /\ session' = [session EXCEPT ![s] = "open"] /\ s \in Sessions
  BY DEF Open
<1>2. OperatorTypeOK'
  BY <1>1 DEF OperatorTypeOK
<1>3. Opened \subseteq Opened'
  BY <1>1 DEF Opened, OperatorTypeOK
<1> QED
  BY <1>1, <1>2, <1>3 DEF Bound

\* A session with a fact in progress does not close.
LEMMA CloseKeepsOperator ==
  ASSUME OperatorTypeOK, Bound, NEW s, Close(s)
  PROVE  OperatorTypeOK' /\ Bound'
<1>1. UNCHANGED <<home, approval, committed>> /\ session' = [session EXCEPT ![s] = "closed"]
  BY DEF Close
<1>2. OperatorTypeOK'
  BY <1>1 DEF OperatorTypeOK
<1>3. \A q \in Opened : q # s => q \in Opened'
  BY <1>1 DEF Opened, OperatorTypeOK
<1>4. \A p \in Proposals : home[p] = s => approval[p] # "committed"
  BY DEF Close
<1> QED
  BY <1>1, <1>2, <1>3, <1>4 DEF Bound

\* What is prepared, confirmed or expires is not what a fact is bound to.
LEMMA PrepareKeepsOperator ==
  ASSUME OperatorTypeOK, Bound, NEW s, NEW p, Prepare(s, p)
  PROVE  OperatorTypeOK' /\ Bound'
<1>1. s \in Opened /\ s \in Sessions /\ p \in Proposals /\ home[p] = NoSession
  BY DEF Prepare, Opened
<1>2. UNCHANGED <<session, committed>> /\ home' = [home EXCEPT ![p] = s]
      /\ approval' = [approval EXCEPT ![p] = "proposed"]
  BY DEF Prepare, Becomes
<1>3. OperatorTypeOK'
  BY <1>1, <1>2 DEF OperatorTypeOK
<1>4. Opened' = Opened /\ NoSession \notin Opened
  BY <1>2, OperatorAssumption DEF Opened
<1>5. \A q \in Proposals : q # p => home'[q] = home[q] /\ approval'[q] = approval[q]
  BY <1>2 DEF OperatorTypeOK
<1>6. \A e \in Subjects : committed[e] # NoProposal => committed[e] # p
  BY <1>1, <1>4 DEF Bound
<1> QED
  BY <1>2, <1>3, <1>4, <1>5, <1>6 DEF Bound

LEMMA ConfirmKeepsOperator ==
  ASSUME OperatorTypeOK, Bound, NEW s, NEW p, Confirm(s, p) \/ Expire(s, p)
  PROVE  OperatorTypeOK' /\ Bound'
<1>1. p \in Proposals
  BY DEF Confirm, Expire, MayResolve, InSession
<1>2. UNCHANGED <<session, home, committed>>
  BY DEF Confirm, Expire
<1>3. \/ approval' = approval
      \/ /\ approval[p] # "committed"
         /\ \E state \in {"proposed", "confirmed"} : approval' = [approval EXCEPT ![p] = state]
  BY DEF Confirm, Expire, Becomes
<1>4. \A q \in Proposals : approval[q] = "committed" => approval'[q] = approval[q]
  BY <1>1, <1>3 DEF OperatorTypeOK
<1>5. OperatorTypeOK'
  BY <1>1, <1>2, <1>3 DEF OperatorTypeOK
<1> QED
  BY <1>2, <1>4, <1>5 DEF Bound, Opened

\* A fact that can not be made durable yet is bound to the session it came from.
LEMMA ResolveKeepsOperator ==
  ASSUME OperatorTypeOK, Bound, NEW s, NEW p, PersistFails(s, p) \/ Persist(s, p)
  PROVE  OperatorTypeOK' /\ Bound'
<1> DEFINE e == SubjectOf[p]
<1>1. s \in Opened /\ p \in Proposals /\ home[p] = s /\ committed[e] \in {NoProposal, p}
  BY DEF Persist, PersistFails, MayResolve, InSession
<1>2. e \in Subjects
  BY <1>1 DEF Subjects
<1>3. UNCHANGED <<session, home>>
  BY DEF Persist, PersistFails
<1>4. Opened' = Opened
  BY <1>3 DEF Opened
<1>5. \A q \in Proposals : q # p => approval'[q] = approval[q]
  BY DEF Persist, PersistFails, Becomes, OperatorTypeOK
<1>6. \A x \in Subjects : x # e => committed'[x] = committed[x]
  BY DEF Persist, PersistFails, OperatorTypeOK
<1>7. \A x \in Subjects : x # e => committed[x] # p \/ committed[x] = NoProposal
  BY DEF Bound
<1>8. OperatorTypeOK'
  BY <1>1, <1>2, <1>3 DEF OperatorTypeOK, Persist, PersistFails, Becomes
<1>9. \/ committed'[e] = NoProposal
      \/ committed'[e] = p /\ approval'[p] = "committed"
  BY <1>1, <1>2 DEF Persist, PersistFails, Becomes, OperatorTypeOK
<1> QED
  BY <1>1, <1>3, <1>4, <1>5, <1>6, <1>7, <1>8, <1>9 DEF Bound

--------------------------------------------------------------------------------
(* What runs leave behind in the world.                                    *)

\* A run that ends changes no other run and no other frame.
LEMMA RunEnds ==
  ASSUME TableInv, NEW k \in Calls, Alive(k),
         Abandon(k) \/ \E a \in Answers : Complete(k, a)
  PROVE  /\ run'[k] = "over" /\ run[k] # "over"
         /\ \A x \in Calls : x # k => run'[x] = run[x] /\ frame'[x] = frame[x]
<1>1. run[k] # "over"
  BY DEF Alive
<1>2. CASE Abandon(k)
  BY <1>1, <1>2 DEF Abandon, ResolveRun, TableInv, TableTypeOK
<1>3. CASE \E a \in Answers : Complete(k, a)
  BY <1>1, <1>3 DEF Complete, ResolveRun, TableInv, TableTypeOK
<1> QED
  BY <1>2, <1>3

\* What is over stays over, and its frame as it is.
LEMMA WorldUntouched ==
  ASSUME WorldInv, UNCHANGED <<unsure, raised, wrote>>, valid' \subseteq valid,
         \A x \in Calls : run[x] = "over" => run'[x] = "over" /\ frame'[x] = frame[x]
  PROVE  WorldInv'
BY DEF WorldInv, OneWritePerToken

LEMMA RunEndsKeepsWorld ==
  ASSUME TableInv, WorldInv, NEW k \in Calls, Alive(k), UNCHANGED worldVars,
         Abandon(k) \/ \E a \in Answers : Complete(k, a)
  PROVE  WorldInv'
BY RunEnds, WorldUntouched DEF worldVars

LEMMA ExecuteKeepsWorld ==
  ASSUME TableInv, WorldInv, NEW k \in Calls, Execute(k)
  PROVE  WorldInv'
<1> DEFINE t == Arg(k)[1]
<1>1. t \in valid /\ t \in Calls /\ run[k] = "invoking" /\ run[t] = "over"
  BY DEF Execute, WorldInv
<1>2. valid' = valid \ {t} /\ wrote' = wrote \cup {<<t, k>>}
  BY DEF Execute
<1>3. frame' = frame /\ unsure' = unsure /\ raised' = raised
  BY DEF Execute
<1>4. \A x \in Calls : run[x] = "over" => run'[x] = "over"
  BY <1>1 DEF Execute, TableInv, TableTypeOK
<1>5. \A x \in wrote : x[1] # t
  BY <1>1 DEF WorldInv
<1> HIDE DEF t
<1>6. /\ valid' \subseteq Calls /\ unsure' \subseteq Calls /\ raised' \subseteq Calls
      /\ wrote' \subseteq Calls \X Calls
      /\ \A v \in valid' : run'[v] = "over"
  BY <1>1, <1>2, <1>3, <1>4 DEF WorldInv
<1>7. \A x \in wrote' : x \in wrote \/ (x[1] = t /\ x = <<t, k>>)
  BY <1>2
<1>8. \A x \in wrote' : run'[x[1]] = "over" /\ x[1] \notin valid'
  BY <1>1, <1>2, <1>4, <1>7 DEF WorldInv
<1>9. OneWritePerToken'
  BY <1>5, <1>7 DEF WorldInv, OneWritePerToken
<1>10. \A x \in unsure' : run'[x] = "over" /\ frame'[x].facts
  BY <1>3, <1>4 DEF WorldInv
<1> QED
  BY <1>6, <1>8, <1>9, <1>10 DEF WorldInv

\* However much a failure frame leaves out, it keeps the mandatory facts.
LEMMA FloorHolds ==
  ASSUME NEW size
  PROVE  "mandatory" \in FailureFrame(size)
<1> DEFINE most  == Budgeted(size) \cup {"scalars", "mandatory"}
           some  == {"scalars", "mandatory"}
           least == {"mandatory"}
           fit   == {S \in {most, some, least} : Weight(size, S) <= 2}
<1>1. least \subseteq some /\ some \subseteq most
  OBVIOUS
<1> HIDE DEF most, some, least
<1>2. \A S \in fit : "mandatory" \in S
  BY DEF most, some, least
<1>3. fit # {} => \E S \in fit : \A T \in fit : T \subseteq S
  BY <1>1
<1>4. fit # {} => "mandatory" \in CHOOSE S \in fit : \A T \in fit : T \subseteq S
  BY <1>2, <1>3
<1>5. FailureFrame(size) = IF fit = {} THEN {"mandatory"}
                           ELSE CHOOSE S \in fit : \A T \in fit : T \subseteq S
  BY DEF FailureFrame, most, some, least
<1> HIDE DEF fit
<1> QED
  BY <1>4, <1>5

LEMMA FailuresTell ==
  ASSUME NEW a \in FailureAnswers
  PROVE  a \in Answers /\ a.facts
<1>1. PICK size \in [Blocks -> Sizes] : a = [Result EXCEPT !.facts = "mandatory" \in FailureFrame(size)]
  BY DEF FailureAnswers
<1>2. a = [Result EXCEPT !.facts = TRUE]
  BY <1>1, FloorHolds
<1> QED
  BY <1>2 DEF Result, Code, Answers

LEMMA EndKeepsWorld ==
  ASSUME TableInv, WorldInv, NEW k \in Calls, End(k)
  PROVE  WorldInv'
<1>1. Alive(k) /\ wrote' = wrote /\ raised' \subseteq raised \cup {k}
  BY DEF End, Outcome, Raises, Alive
<1>2. Result \in Answers
  BY CodesAreAnswers DEF Result
<1>3. CASE Complete(k, Result) /\ UNCHANGED unsure /\
           (UNCHANGED valid \/ (Op(k) = "preview" /\ valid' = valid \cup {k}))
  <2>1. /\ run'[k] = "over" /\ run[k] # "over"
        /\ \A x \in Calls : x # k => run'[x] = run[x] /\ frame'[x] = frame[x]
    BY <1>1, <1>2, <1>3, RunEnds
  <2>2. k \notin valid /\ k \notin unsure /\ \A x \in wrote : x[1] # k
    BY <2>1 DEF WorldInv
  <2>3. valid' \subseteq valid \cup {k}
    BY <1>3
  <2>4. OneWritePerToken'
    BY <1>1 DEF WorldInv, OneWritePerToken
  <2> QED
    BY <1>1, <1>3, <2>1, <2>2, <2>3, <2>4 DEF WorldInv
<1>4. CASE unsure' = unsure \cup {k} /\ UNCHANGED valid /\ \E a \in FailureAnswers : Complete(k, a)
  <2>1. PICK a \in FailureAnswers : Complete(k, a)
    BY <1>4
  <2>2. a \in Answers /\ a.facts
    BY FailuresTell
  <2>3. /\ run'[k] = "over" /\ run[k] # "over"
        /\ \A x \in Calls : x # k => run'[x] = run[x] /\ frame'[x] = frame[x]
    BY <1>1, <2>1, <2>2, RunEnds
  <2>4. frame'[k] = [a EXCEPT !.run = k]
    BY <1>1, <2>1, <2>2, CompleteKeepsTable
  <2>5. frame'[k].facts
    BY <2>2, <2>4 DEF Answers
  <2>6. OneWritePerToken'
    BY <1>1 DEF WorldInv, OneWritePerToken
  <2>7. /\ valid' = valid /\ wrote' = wrote /\ unsure' = unsure \cup {k}
        /\ \A x \in Calls : run[x] = "over" => run'[x] = "over" /\ frame'[x] = frame[x]
    BY <1>1, <1>4, <2>3
  <2> QED
    BY <1>1, <2>3, <2>5, <2>6, <2>7 DEF WorldInv
<1>5. CASE Abandon(k) /\ UNCHANGED <<valid, unsure, raised>>
  BY <1>1, <1>5, RunEndsKeepsWorld DEF worldVars
<1>6. \/ /\ Complete(k, Result) /\ UNCHANGED unsure
         /\ \/ UNCHANGED valid
            \/ Op(k) = "preview" /\ valid' = valid \cup {k}
      \/ /\ run[k] = "executing"
         /\ unsure' = unsure \cup {k}
         /\ \E a \in FailureAnswers : Complete(k, a)
         /\ UNCHANGED valid
      \/ Abandon(k) /\ UNCHANGED <<valid, unsure, raised>>
  BY DEF End, Outcome, Raises
<1> QED
  BY <1>3, <1>4, <1>5, <1>6

--------------------------------------------------------------------------------
(* The parts together.                                                     *)

CoreInv == TableInv /\ OrderInv /\ WorldInv

\* Only what the table holds changes, and no run, frame or token.
LEMMA SameWorld ==
  ASSUME WorldInv, UNCHANGED <<run, frame, worldVars>>
  PROVE  WorldInv'
BY WorldUntouched DEF worldVars

LEMMA SendKeepsCore ==
  ASSUME CoreInv, NEW k \in Calls, NEW r \in Asks(k), Send(k, r)
  PROVE  CoreInv'
<1>1. UNCHANGED <<run, frame, worldVars, recency, last, since, retained>>
  BY DEF Send, tableVars
<1> QED
  BY <1>1, SendKeepsTable, NothingHappensToOrder, SameWorld DEF CoreInv

LEMMA LeaveKeepsCore ==
  ASSUME CoreInv, NEW k \in Calls, Leave(k)
  PROVE  CoreInv'
<1>1. UNCHANGED <<run, frame, worldVars, recency, last, since, retained>>
  BY DEF Leave, tableVars
<1>2. /\ handler' \in [Calls -> {"none", "waiting", "over"}]
      /\ \A x \in Calls : handler'[x] = handler[x] \/ (handler[x] = "waiting" /\ handler'[x] = "over")
  <2>1. handler \in [Calls -> {"none", "waiting", "over"}]
    BY DEF CoreInv, TableInv, TableTypeOK
  <2>2. handler[k] = "waiting" /\ handler' = [handler EXCEPT ![k] = "over"]
    BY DEF Leave
  <2> QED
    BY <2>1, <2>2
<1>3. draining' \in BOOLEAN
  BY DEF Leave, CoreInv, TableInv, TableTypeOK
<1>4. UNCHANGED <<load, asked, work, of, reply, run, frame, inflight, retained>>
  BY DEF Leave, tableVars
<1> QED
  BY <1>1, <1>2, <1>3, <1>4, HandlersEndKeepsTable, NothingHappensToOrder, SameWorld DEF CoreInv

LEMMA ProcessKeepsCore ==
  ASSUME CoreInv, NEW k \in Calls, Process(k)
  PROVE  CoreInv'
<1>1. TableInv'
  BY ProcessKeepsTable DEF CoreInv
<1>2. frame' = frame /\ UNCHANGED worldVars
  BY DEF Process
<1>3. run[k] = "none" /\ asked[k].id \in Ids
  BY DEF Process, CoreInv, TableInv, Begun, TableTypeOK
<1>4. run' = run \/ run' = [run EXCEPT ![k] = "scheduled"]
  BY DEF Process, Refuse, Classify, JoinOrReuse, RetainedOrReuse, StartRun
<1>5. \A x \in Calls : run[x] = "over" => run'[x] = "over"
  BY <1>3, <1>4 DEF CoreInv, TableInv, TableTypeOK
<1>6. WorldInv'
  BY <1>2, <1>5, WorldUntouched DEF CoreInv, worldVars
<1>7. \/ UNCHANGED <<recency, last, since, retained>>
      \/ /\ retained[asked[k].id] # None /\ recency' = Renewed(asked[k].id)
         /\ Used(asked[k].id) /\ UNCHANGED <<retained, last>>
  BY DEF Process, Refuse, Classify, JoinOrReuse, RetainedOrReuse, StartRun, tableVars
<1>8. OrderInv'
  BY <1>3, <1>7, NothingHappensToOrder, RenewKeepsOrder DEF CoreInv
<1> QED
  BY <1>1, <1>6, <1>8 DEF CoreInv

LEMMA CompleteKeepsCore ==
  ASSUME CoreInv, NEW k \in Calls, Alive(k), NEW a \in Answers, Complete(k, a),
         UNCHANGED worldVars
  PROVE  CoreInv'
BY CompleteKeepsTable, CompleteKeepsOrder, RunEndsKeepsWorld DEF CoreInv

LEMMA AbandonKeepsCore ==
  ASSUME CoreInv, NEW k \in Calls, Alive(k), Abandon(k), UNCHANGED worldVars
  PROVE  CoreInv'
BY AbandonKeepsTable, AbandonKeepsOrder, RunEndsKeepsWorld DEF CoreInv

LEMMA InvokeKeepsCore ==
  ASSUME CoreInv, NEW k \in Calls, Alive(k), UNCHANGED worldVars,
         run' = [run EXCEPT ![k] = "invoking"],
         UNCHANGED <<load, callVars, frame, tableVars, draining>>
  PROVE  CoreInv'
<1>1. UNCHANGED <<recency, last, since, retained>>
  BY DEF tableVars
<1>2. run[k] # "over"
  BY DEF Alive
<1>3. \A x \in Calls : run[x] = "over" => run'[x] = "over"
  BY <1>2 DEF CoreInv, TableInv, TableTypeOK
<1>4. WorldInv'
  BY <1>3, WorldUntouched DEF CoreInv, worldVars
<1> QED
  BY <1>1, <1>4, GoesOnKeepsTable, NothingHappensToOrder DEF CoreInv

LEMMA BeginKeepsCore ==
  ASSUME CoreInv, NEW k \in Calls, Begin(k)
  PROVE  CoreInv'
<1>1. Alive(k) /\ UNCHANGED worldVars
  BY DEF Begin, Alive
<1>2. Result \in Answers /\ Code("draining") \in Answers
  BY CodesAreAnswers DEF Result
<1>3. \/ Complete(k, Result) \/ Complete(k, Code("draining")) \/ Abandon(k)
      \/ /\ run' = [run EXCEPT ![k] = "invoking"]
         /\ UNCHANGED <<load, callVars, frame, tableVars, draining>>
  <2>1. CASE RefuseDraining(k)
    BY <2>1 DEF RefuseDraining
  <2>2. CASE IngestRoute(k)
    BY <2>2 DEF IngestRoute
  <2>3. CASE ReleaseRoute(k)
    BY <2>3 DEF ReleaseRoute
  <2>4. CASE OperatorRoute(k)
    BY <2>4 DEF OperatorRoute
  <2>5. CASE MediaRoute(k)
    BY <2>5 DEF MediaRoute
  <2>6. CASE InvokeRoute(k)
    BY <2>6 DEF InvokeRoute
  <2> QED
    BY <2>1, <2>2, <2>3, <2>4, <2>5, <2>6 DEF Begin
<1> QED
  BY <1>1, <1>2, <1>3, CompleteKeepsCore, AbandonKeepsCore, InvokeKeepsCore

LEMMA ExecuteKeepsCore ==
  ASSUME CoreInv, NEW k \in Calls, Execute(k)
  PROVE  CoreInv'
<1>1. Alive(k) /\ run' = [run EXCEPT ![k] = "executing"]
      /\ UNCHANGED <<load, callVars, frame, tableVars, draining>>
  BY DEF Execute, Alive
<1>2. UNCHANGED <<recency, last, since, retained>>
  BY <1>1 DEF tableVars
<1> QED
  BY <1>1, <1>2, GoesOnKeepsTable, NothingHappensToOrder, ExecuteKeepsWorld DEF CoreInv

LEMMA EndKeepsCore ==
  ASSUME CoreInv, NEW k \in Calls, End(k)
  PROVE  CoreInv'
<1>1. Alive(k) /\ Outcome(k)
  BY DEF End, Alive
<1>2. Result \in Answers
  BY CodesAreAnswers DEF Result
<1>3. Abandon(k) \/ \E a \in Answers : Complete(k, a)
  BY <1>1, <1>2, FailuresTell DEF Outcome, Raises
<1>4. TableInv' /\ OrderInv'
  BY <1>1, <1>3, CompleteKeepsTable, AbandonKeepsTable, CompleteKeepsOrder, AbandonKeepsOrder
     DEF CoreInv
<1>5. WorldInv'
  BY EndKeepsWorld DEF CoreInv
<1> QED
  BY <1>4, <1>5 DEF CoreInv

LEMMA DrainKeepsCore ==
  ASSUME CoreInv, BeginDrain \/ EndDrain
  PROVE  CoreInv'
<1>1. UNCHANGED <<load, asked, work, of, reply, run, frame, tableVars, wrote, unsure, raised>>
      /\ valid' \subseteq valid
  BY DEF BeginDrain, EndDrain, callVars, worldVars
<1>2. UNCHANGED <<inflight, retained, recency, last, since>>
  BY <1>1 DEF tableVars
<1>3. /\ draining' \in BOOLEAN
      /\ handler' \in [Calls -> {"none", "waiting", "over"}]
      /\ \A k \in Calls : handler'[k] = handler[k] \/ (handler[k] = "waiting" /\ handler'[k] = "over")
  <2>1. handler \in [Calls -> {"none", "waiting", "over"}] /\ draining \in BOOLEAN
    BY DEF CoreInv, TableInv, TableTypeOK
  <2>2. CASE BeginDrain
    BY <2>1, <2>2 DEF BeginDrain
  <2>3. CASE EndDrain
    BY <2>1, <2>3 DEF EndDrain, callVars
  <2> QED
    BY <2>2, <2>3
<1>4. TableInv' /\ OrderInv'
  BY <1>1, <1>2, <1>3, HandlersEndKeepsTable, NothingHappensToOrder DEF CoreInv
<1>5. WorldInv'
  BY <1>1, WorldUntouched DEF CoreInv
<1> QED
  BY <1>4, <1>5 DEF CoreInv

LEMMA NextKeepsCore ==
  ASSUME CoreInv, [Next]_vars
  PROVE  CoreInv'
<1>1. ASSUME NEW d \in Digests, Tamper(d),
             UNCHANGED <<load, callVars, run, frame, tableVars, worldVars, draining, operatorVars>>
      PROVE  CoreInv'
  BY <1>1, NothingHappensToTable, NothingHappensToOrder, SameWorld DEF CoreInv, tableVars
<1>2. CASE UNCHANGED vars
  <2>1. UNCHANGED <<load, callVars, run, frame, tableVars, worldVars, draining>>
    BY <1>2 DEF vars
  <2> QED
    BY <2>1, NothingHappensToTable, NothingHappensToOrder, SameWorld DEF CoreInv, tableVars
<1>3. ASSUME NEW k \in Calls, OwnerStep(k) PROVE CoreInv'
  BY <1>3, ProcessKeepsCore, BeginKeepsCore, EndKeepsCore DEF OwnerStep
<1> QED
  BY <1>1, <1>2, <1>3, DrainKeepsCore, LeaveKeepsCore, ExecuteKeepsCore, SendKeepsCore DEF Next

--------------------------------------------------------------------------------
\* Every step leaves the registry of media alone or takes one of its own.
LEMMA NextKeepsMedia ==
  ASSUME MediaInv, [Next]_vars
  PROVE  MediaInv'
<1>1. ASSUME NEW k \in Calls, Begin(k) PROVE MediaInv'
  <2>1. CASE RefuseDraining(k)
    BY <2>1, MediaUntouched DEF RefuseDraining
  <2>2. CASE IngestRoute(k)
    <3>1. k \in Refs
      BY IPCAssumption
    <3>2. IngestRefused \/ \E d \in Digests : Ingest(k, d)
      BY <2>2 DEF IngestRoute
    <3> QED
      BY <3>1, <3>2, IngestKeepsMedia, MediaUntouched DEF IngestRefused
  <2>3. CASE ReleaseRoute(k)
    <3>1. \E r : ReleaseShared(r) \/ ReleaseLast(r) \/ ReleaseRefused(r)
      BY <2>3 DEF ReleaseRoute
    <3> QED
      BY <3>1, ReleaseKeepsMedia, MediaUntouched DEF ReleaseRefused
  <2>4. CASE OperatorRoute(k)
    BY <2>4, MediaUntouched DEF OperatorRoute
  <2>5. CASE MediaRoute(k)
    <3>1. k \in Holders
      BY IPCAssumption
    <3>2. UNCHANGED mediaVars \/ (ResolveAll(ArgSet(k)) /\ Pin(ArgSet(k), k))
      BY <2>5 DEF MediaRoute
    <3> QED
      BY <3>1, <3>2, PinKeepsMedia, MediaUntouched
  <2>6. CASE InvokeRoute(k)
    BY <2>6, MediaUntouched DEF InvokeRoute
  <2> QED
    BY <1>1, <2>1, <2>2, <2>3, <2>4, <2>5, <2>6 DEF Begin
<1>2. ASSUME NEW k \in Calls, OwnerStep(k) PROVE MediaInv'
  <2>1. CASE Process(k)
    BY <2>1, MediaUntouched DEF Process
  <2>2. CASE End(k)
    BY <2>2, UnpinKeepsMedia DEF End
  <2> QED
    BY <1>1, <1>2, <2>1, <2>2 DEF OwnerStep
<1>3. ASSUME NEW k \in Calls, Leave(k) \/ Execute(k) \/ \E r \in Asks(k) : Send(k, r)
      PROVE  MediaInv'
  BY <1>3, MediaUntouched DEF Leave, Execute, Send
<1>4. CASE BeginDrain \/ EndDrain
  BY <1>4, CleanupKeepsMedia DEF BeginDrain, EndDrain
<1>5. CASE UNCHANGED vars
  BY <1>5, MediaUntouched DEF vars
<1> QED
  BY <1>2, <1>3, <1>4, <1>5, TamperKeepsMedia DEF Next

\* No step binds a fact to a session that is not there, and no step of an
\* operator happens in a drain.
LEMMA NextKeepsOperator ==
  ASSUME TableTypeOK, OperatorInv, [Next]_vars
  PROVE  OperatorInv'
<1>1. ASSUME NEW k \in Calls, Begin(k) PROVE OperatorInv'
  <2>1. draining' = draining
    BY <1>1 DEF Begin, RefuseDraining, IngestRoute, ReleaseRoute, OperatorRoute, MediaRoute,
                InvokeRoute, Complete, Abandon, ResolveRun
  <2>2. CASE UNCHANGED operatorVars
    BY <2>1, <2>2, OperatorUntouched
  <2>3. CASE OperatorRoute(k) /\ ~draining
    <3>1. OperatorTypeOK /\ Bound
      BY <2>3 DEF OperatorInv
    <3>2. \/ UNCHANGED operatorVars
          \/ \E s : Open(s) \/ Close(s)
          \/ \E s, p : Prepare(s, p) \/ Confirm(s, p) \/ Expire(s, p) \/ PersistFails(s, p) \/ Persist(s, p)
      BY <2>3 DEF OperatorRoute, OperatorRefused
    <3>3. CASE \E s : Open(s) \/ Close(s)
      BY <3>1, <3>3, OpenKeepsOperator, CloseKeepsOperator DEF OperatorInv
    <3>4. CASE \E s, p : Prepare(s, p) \/ Confirm(s, p) \/ Expire(s, p) \/ PersistFails(s, p) \/ Persist(s, p)
      BY <3>1, <3>4, PrepareKeepsOperator, ConfirmKeepsOperator, ResolveKeepsOperator DEF OperatorInv
    <3> QED
      BY <2>2, <3>2, <3>3, <3>4
  <2>4. UNCHANGED operatorVars \/ (OperatorRoute(k) /\ ~draining)
    BY <1>1 DEF Begin, RefuseDraining, IngestRoute, ReleaseRoute, MediaRoute, InvokeRoute
  <2> QED
    BY <2>2, <2>3, <2>4
<1>2. ASSUME NEW k \in Calls, OwnerStep(k) PROVE OperatorInv'
  <2>1. CASE Process(k)
    BY <2>1, OperatorUntouched DEF Process
  <2>2. CASE End(k)
    <3>1. UNCHANGED operatorVars /\ Outcome(k)
      BY <2>2 DEF End
    <3>2. draining' = draining
      BY <3>1 DEF Outcome, Raises, Complete, Abandon, ResolveRun
    <3> QED
      BY <3>1, <3>2, OperatorUntouched
  <2> QED
    BY <1>1, <1>2, <2>1, <2>2 DEF OwnerStep
<1>3. ASSUME NEW k \in Calls, Leave(k) \/ Execute(k) \/ \E r \in Asks(k) : Send(k, r)
      PROVE  OperatorInv'
  BY <1>3, OperatorUntouched DEF Leave, Execute, Send
<1>4. CASE BeginDrain
  <2>1. draining' = TRUE /\ UNCHANGED <<home, approval, committed>>
        /\ session' = [s \in Sessions |-> IF session[s] = "open" THEN "closed" ELSE session[s]]
    BY <1>4 DEF BeginDrain, CloseAll
  <2>2. OperatorTypeOK'
    BY <2>1 DEF OperatorInv, OperatorTypeOK
  <2> QED
    BY <2>1, <2>2 DEF OperatorInv
<1>5. CASE EndDrain
  BY <1>5, OperatorUntouched DEF EndDrain
<1>6. ASSUME NEW d \in Digests, Tamper(d), UNCHANGED <<draining, operatorVars>>
      PROVE  OperatorInv'
  BY <1>6, OperatorUntouched
<1>7. CASE UNCHANGED vars
  BY <1>7, OperatorUntouched DEF vars
<1> QED
  BY <1>2, <1>3, <1>4, <1>5, <1>6, <1>7 DEF Next

--------------------------------------------------------------------------------
(* The theorems.                                                           *)

LEMMA InitHolds ==
  ASSUME Init
  PROVE  IInv
<1> USE DEF Init
<1>1. NoAnswer \in Answers /\ NoAnswer.run = None
  BY CodesAreAnswers DEF NoAnswer
<1>2. None \notin Calls
  BY DEF None, Calls
<1>3. TableInv
  <2>1. TableTypeOK
    BY <1>1 DEF TableTypeOK
  <2>2. Begun /\ Pinned /\ Kept /\ Waits
    BY <1>2 DEF Begun, Pinned, Kept, Waits, Alive
  <2>3. Told
    BY <1>1, <1>2 DEF Told
  <2> QED
    BY <2>1, <2>2, <2>3 DEF TableInv
<1>4. OrderInv
  <2>1. recency \in Seq(Ids) /\ Len(recency) = 0
    BY EmptySeq
  <2>2. OrderTypeOK
    BY <2>1, FS_EmptySet, IPCAssumption DEF OrderTypeOK
  <2>3. InOrder /\ Forgotten
    BY <2>1 DEF InOrder, Forgotten
  <2> QED
    BY <2>2, <2>3 DEF OrderInv
<1>5. WorldInv
  BY DEF WorldInv, OneWritePerToken
<1>6. MediaInv
  BY MediaAssumption DEF MediaInit, MediaInv, MediaTypeOK, MediaIntact, MediaStays, NothingLeftBehind, Live
<1>7. OperatorInv
  BY DEF OperatorInit, OperatorInv, OperatorTypeOK, Bound
<1> QED
  BY <1>3, <1>4, <1>5, <1>6, <1>7 DEF IInv

\* The invariant holds of every state of every behaviour.
THEOREM Invariant == Spec => []IInv
<1>1. ASSUME IInv, [Next]_vars PROVE IInv'
  BY <1>1, NextKeepsCore, NextKeepsMedia, NextKeepsOperator DEF IInv, CoreInv, TableInv
<1> QED
  BY <1>1, InitHolds, PTL DEF Spec

\* TypeOK: the state has the types that the module declares.
THEOREM TypesHold == Spec => []TypeOK
<1>1. ASSUME IInv PROVE TypeOK
  <2>1. TableTypeOK /\ OrderTypeOK /\ MediaTypeOK /\ OperatorTypeOK
    BY <1>1 DEF IInv, TableInv, OrderInv, MediaInv, OperatorInv
  <2>2. \A k \in Calls : asked[k] = NoRequest \/ asked[k].id \in Ids
    BY <1>1 DEF IInv, TableInv, TableTypeOK
  <2> QED
    BY <1>1, <2>1, <2>2 DEF TypeOK, TableTypeOK, OrderTypeOK, IInv, WorldInv
<1> QED
  BY <1>1, Invariant, PTL

\* NothingRunsTwice: a retry never starts a second run of a request that is
\* still running, and no token is written with twice, whatever the table
\* evicts, the pipeline abandons or a client leaves behind.
THEOREM RunsOnce == Spec => []NothingRunsTwice
<1>1. ASSUME IInv PROVE NothingRunsTwice
  <2>1. OneLiveRun
    <3>1. \A k \in LiveRuns : k \in Calls /\ Alive(k)
      BY <1>1 DEF LiveRuns, Alive, IInv, TableInv, TableTypeOK
    <3> QED
      BY <1>1, <3>1 DEF OneLiveRun, IInv, TableInv, Pinned
  <2>2. OneWritePerToken
    BY <1>1 DEF IInv, WorldInv
  <2> QED
    BY <2>1, <2>2 DEF NothingRunsTwice
<1> QED
  BY <1>1, Invariant, PTL

\* AnswersAreTrue: the frame that a client is given was made for the same id
\* and the same operation on the same things, and tells of any doubt that the
\* execution returned with.
THEOREM TellsTheTruth == Spec => []AnswersAreTrue
<1>1. ASSUME IInv PROVE AnswersAreTrue
  <2>1. \A k \in Calls : reply[k].run \in Calls \cup {None}
    BY <1>1 DEF IInv, TableInv, TableTypeOK, Answers
  <2>2. AnswersAreForTheRequest
    BY <1>1, <2>1 DEF AnswersAreForTheRequest, IInv, TableInv, Told, Matches
  <2>3. DoubtSurvivesTheFrame
    BY <1>1 DEF DoubtSurvivesTheFrame, IInv, TableInv, Told, WorldInv
  <2> QED
    BY <2>2, <2>3 DEF AnswersAreTrue
<1> QED
  BY <1>1, Invariant, PTL

\* RunAgainOnlyForgotten: a request whose answer was given is run again only
\* after as many other ids were used as the table holds.
THEOREM ForgetsInOrder == Spec => RunAgainOnlyForgotten
<1>1. ASSUME IInv, [Next]_vars, NEW k \in Calls, run[k] = "none", run'[k] # "none",
             last[asked[k].id] # None
      PROVE  Cardinality(since[asked[k].id]) >= MaxCompleted
  <2>1. run \in [Calls -> {"none", "scheduled", "invoking", "executing", "over"}]
    BY <1>1 DEF IInv, TableInv, TableTypeOK
  <2>2. ASSUME NEW j \in Calls, run[j] # "none",
               \A x \in Calls : x # j => run'[x] = run[x]
        PROVE  FALSE
    BY <1>1, <2>2
  <2>3. ASSUME run' = run PROVE FALSE
    BY <1>1, <2>3
  <2>4. ASSUME NEW j \in Calls, Begin(j) \/ End(j) PROVE FALSE
    <3>1. Alive(j) /\ run[j] # "none"
      BY <2>4 DEF Begin, End, Alive
    <3>2. \A x \in Calls : x # j => run'[x] = run[x]
      BY <2>1, <2>4 DEF Begin, RefuseDraining, IngestRoute, ReleaseRoute, OperatorRoute,
         MediaRoute, InvokeRoute, End, Outcome, Raises, Complete, Abandon, ResolveRun
    <3> QED
      BY <2>2, <3>1, <3>2
  <2>5. ASSUME NEW j \in Calls, Execute(j) PROVE FALSE
    <3>1. run[j] # "none" /\ \A x \in Calls : x # j => run'[x] = run[x]
      BY <2>1, <2>5 DEF Execute
    <3> QED
      BY <2>2, <3>1
  <2>6. PICK j \in Calls : Process(j)
    BY <1>1, <2>3, <2>4, <2>5, Zenon
       DEF Next, OwnerStep, BeginDrain, EndDrain, Leave, Send, vars
  <2>7. inflight[asked[j].id] = None /\ retained[asked[j].id] = None
        /\ run' = [run EXCEPT ![j] = "scheduled"]
    BY <2>3, <2>6 DEF Process, Refuse, Classify, JoinOrReuse, RetainedOrReuse, StartRun
  <2>8. j = k
    BY <1>1, <2>1, <2>7
  <2>9. asked[k].id \in Ids
    BY <1>1, <2>6, <2>8 DEF Process, IInv, TableInv, Begun, TableTypeOK
  <2> QED
    BY <1>1, <2>7, <2>8, <2>9 DEF IInv, OrderInv, Forgotten
<1>2. IInv /\ [Next]_vars =>
        [\A k \in Calls :
           run[k] = "none" /\ run'[k] # "none" /\ last[asked[k].id] # None =>
             Cardinality(since[asked[k].id]) >= MaxCompleted]_vars
  BY <1>1
<1> QED
  BY <1>2, Invariant, PTL DEF Spec, RunAgainOnlyForgotten

\* MediaIntact: references and files agree, whatever is shared, pinned, given
\* up or tampered with, and whatever a cleanup can not remove.
THEOREM MediaAgrees == Spec => []MediaIntact
<1>1. ASSUME IInv PROVE MediaIntact
  BY <1>1 DEF IInv, MediaInv
<1> QED
  BY <1>1, Invariant, PTL

\* ContinuationReachable: a fact in progress is held by an open session that
\* can drive it to durability, until the owner drains.
THEOREM FactsStayReachable == Spec => []ContinuationReachable
<1>1. ASSUME IInv PROVE ContinuationReachable
  BY <1>1 DEF IInv, OperatorInv, Bound, Opened, ContinuationReachable, Continuable
<1> QED
  BY <1>1, Invariant, PTL

================================================================================
