----------------------------- MODULE EffectLedger ------------------------------
(***************************************************************************)
(* The effect ledger as a file (safety/effect_ledger.py): an append-only   *)
(* NDJSON file written through open/write/fsync, whose directory entry has *)
(* to be synced on its own when the file is new.  append_durable is one    *)
(* critical section under the per-path lock, so each of its outcomes is    *)
(* one action; every system call it makes may fail.  A process restart     *)
(* leaves all of this state as it is (the ledger object keeps nothing in   *)
(* memory), so only a power failure is an action of the environment.       *)
(*                                                                         *)
(* Simplifications: POSIX only (on Windows the directory sync is a no-op); *)
(* one missing directory level; a successful fsync makes everything the    *)
(* file holds durable, also after an earlier fsync failed, which is what   *)
(* the code relies on when it re-durabilizes a fact.                       *)
(***************************************************************************)
EXTENDS LedgerFacts, Integers, Sequences

VARIABLES
  existed,     \* history: did the file exist, durably, at the start?
  rows,        \* the complete rows a reader of the file sees
  torn,        \* the file ends in a row without its newline
  synced,      \* how many rows are certain to survive a power failure
  fileEntry,   \* the file's entry in its directory
  dirEntry,    \* the directory's entry in its parent
  acked,       \* history: facts reported as persisted and not lost since
  lost         \* history: has a fact reported as persisted ever been lost?

vars == <<existed, rows, torn, synced, fileEntry, dirEntry, acked, lost>>

Entry == {"absent", "volatile", "durable"}

TypeOK ==
  /\ existed \in BOOLEAN
  /\ rows \in Seq(Fact)
  /\ torn \in BOOLEAN
  /\ synced \in 0..Len(rows)
  /\ fileEntry \in Entry
  /\ dirEntry \in Entry
  /\ acked \subseteq Fact
  /\ lost \in BOOLEAN

Init ==
  /\ rows = <<>> /\ torn = FALSE /\ synced = 0
  /\ acked = {} /\ lost = FALSE
  /\ existed \in BOOLEAN
  /\ fileEntry = IF existed THEN "durable" ELSE "absent"
  /\ dirEntry \in IF existed THEN {"durable"} ELSE {"absent", "durable"}

--------------------------------------------------------------------------------
(* What a reader sees.                                                     *)

RowsOf(file, e) == {i \in 1..Len(file) : file[i].effect = e}

\* The last fact of one effect: what recovery_projection derives.
LastFact(file, e) ==
  LET own == RowsOf(file, e)
  IN  IF own = {} THEN NoFact ELSE file[CHOOSE i \in own : \A j \in own : j <= i]

Latest(e) == LastFact(rows, e)

\* read_records refuses a torn tail, and append_durable reads first.
Readable == ~torn

\* Fault: any row of the effect counts as the same fact.
IsRetryOfEffect(f) == Readable /\ Latest(f.effect) # NoFact

\* The exact-fact test: the latest row of the effect already states f.
IsRetry(f) == Readable /\ Latest(f.effect) = f

\* Fault: the history check is left to the reader.
IsNewUnchecked(f) == Readable /\ Latest(f.effect) # f

\* The history check on the rows followed by f.
IsNew(f) == Readable /\ Latest(f.effect) # f /\ MayFollow(Latest(f.effect), f)

Created(entry) == IF entry = "absent" THEN "volatile" ELSE entry

\* _ensure_parent syncs only the directories it creates itself.
DirectoryReady == IF dirEntry = "absent" THEN "durable" ELSE dirEntry

--------------------------------------------------------------------------------
(* append_durable of a fact that is not the latest one of its effect.      *)

\* The directory was made but syncing it failed.
DirectoryFails(f) ==
  /\ IsNew(f) /\ dirEntry = "absent"
  /\ dirEntry' = "volatile"
  /\ UNCHANGED <<rows, torn, synced, fileEntry, acked, lost>>

\* open or write fails: the file may have been created, and part of the row
\* may have reached it.
WriteFails(f) ==
  /\ IsNew(f)
  /\ dirEntry' = DirectoryReady
  /\ torn' \in BOOLEAN
  /\ fileEntry' \in {Created(fileEntry)} \cup (IF torn' THEN {} ELSE {fileEntry})
  /\ UNCHANGED <<rows, synced, acked, lost>>

\* The row is written but its fsync fails.
SyncFails(f) ==
  /\ IsNew(f)
  /\ rows' = Append(rows, f)
  /\ dirEntry' = DirectoryReady
  /\ fileEntry' = Created(fileEntry)
  /\ UNCHANGED <<torn, synced, acked, lost>>

\* A new file is synced but its directory is not.
EntrySyncFails(f) ==
  /\ IsNew(f) /\ fileEntry = "absent"
  /\ rows' = Append(rows, f) /\ synced' = Len(rows')
  /\ dirEntry' = DirectoryReady
  /\ fileEntry' = "volatile"
  /\ UNCHANGED <<torn, acked, lost>>

\* Fault: no fsync before the return.
AppendUnsynced(f) ==
  /\ IsNew(f)
  /\ rows' = Append(rows, f)
  /\ dirEntry' = DirectoryReady
  /\ fileEntry' = IF fileEntry = "absent" THEN "durable" ELSE fileEntry
  /\ acked' = acked \cup {f}
  /\ UNCHANGED <<torn, synced, lost>>

\* Success.  The directory is synced only if the file was absent before.
AppendOk(f) ==
  /\ IsNew(f)
  /\ rows' = Append(rows, f) /\ synced' = Len(rows')
  /\ dirEntry' = DirectoryReady
  /\ fileEntry' = IF fileEntry = "absent" THEN "durable" ELSE fileEntry
  /\ acked' = acked \cup {f}
  /\ UNCHANGED <<torn, lost>>

(* append_durable of the fact that is already the latest: no second row.   *)

RetryFails(f) ==
  /\ IsRetry(f)
  /\ synced' \in {synced, Len(rows)}
  /\ UNCHANGED <<rows, torn, fileEntry, dirEntry, acked, lost>>

RetryOk(f) ==
  /\ IsRetry(f)
  /\ synced' = Len(rows)
  /\ fileEntry' = "durable"
  /\ acked' = acked \cup {f}
  /\ UNCHANGED <<rows, torn, dirEntry, lost>>

--------------------------------------------------------------------------------
(* The environment.                                                        *)

InFile(f) == \E i \in 1..Len(rows) : rows[i] = f

\* Bookkeeping of the history variables when rows disappear.
Forget ==
  /\ acked' = {f \in acked : InFile(f)'}
  /\ lost' = (lost \/ acked' # acked)

\* The machine loses power and comes back: the file keeps a prefix that has
\* at least the synced rows, perhaps with a torn row after it.
PowerLossKeepsFile ==
  /\ \E k \in synced..Len(rows) :
       /\ rows' = SubSeq(rows, 1, k)
       /\ synced' = k
       /\ torn' \in IF k < Len(rows) THEN BOOLEAN ELSE {FALSE, torn}
  /\ fileEntry' = IF fileEntry = "absent" THEN "absent" ELSE "durable"
  /\ dirEntry' = IF dirEntry = "absent" THEN "absent" ELSE "durable"
  /\ Forget

\* A file whose entry, or whose directory's entry, was never synced may go.
PowerLossDropsFile ==
  /\ "volatile" \in {fileEntry, dirEntry}
  /\ rows' = <<>> /\ synced' = 0 /\ torn' = FALSE
  /\ fileEntry' = "absent"
  /\ dirEntry' \in IF dirEntry = "volatile" THEN {"absent", "durable"} ELSE {dirEntry}
  /\ Forget

Next ==
  /\ \/ \E f \in Fact :
          \/ DirectoryFails(f) \/ WriteFails(f) \/ SyncFails(f)
          \/ EntrySyncFails(f) \/ AppendOk(f) \/ RetryFails(f) \/ RetryOk(f)
     \/ PowerLossKeepsFile
     \/ PowerLossDropsFile
  /\ UNCHANGED existed

Spec == Init /\ [][Next]_vars

--------------------------------------------------------------------------------
(* Properties.                                                             *)

\* A fact that append_durable reported as persisted is in the file for good,
\* whatever power failures follow: this is what lets a gateway expose a
\* permit after the reservation call returned.
AckedSurvives == ~lost

\* However calls fail, are retried and are cut off by power failures, the
\* ledger never reports two different outcomes of one effect as persisted.
OneAckedOutcome ==
  \A f, g \in acked :
    (f.effect = g.effect /\ {f.state, g.state} \subseteq Terminal) => f = g

\* A persisted fact can disappear only together with the whole file, only when
\* this process created the file, and only while an entry on the path to it has
\* never been synced.
LostOnlyWithTheFile ==
  [][ ~(acked \subseteq acked') =>
        /\ ~existed /\ rows' = <<>>
        /\ "volatile" \in {fileEntry, dirEntry} ]_vars

Visible == [e \in Effects |-> Latest(e)]
Certain == [e \in Effects |-> LastFact(SubSeq(rows, 1, synced), e)]

Promise == INSTANCE DurableFacts WITH seen <- Visible, kept <- Certain

\* A file that existed before keeps the promise its callers are built on: a
\* reader sees the latest rows, and the latest synced rows are what survives.
ImplementsPromise ==
  /\ Promise!LedgerInit
  /\ [][existed => Promise!LedgerNext \/ UNCHANGED <<Visible, Certain>>]_vars
================================================================================
