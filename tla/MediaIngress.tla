------------------------------ MODULE MediaIngress -----------------------------
(***************************************************************************)
(* The owner's registry of media artifacts (authority_media_ingress.py):   *)
(* clients stage files, the owner copies each into a file named after its  *)
(* digest and hands out an opaque reference.  Two references may share one *)
(* file, so that giving one up must not take the other's bytes.            *)
(*                                                                         *)
(* The bytes of a staged file are whatever the confined descriptor yields; *)
(* the check of its name and of its path happen before it and change       *)
(* nothing, and each way the acquisition may fail is one refusal.          *)
(***************************************************************************)
EXTENDS Naturals, FiniteSets

CONSTANTS Refs,          \* references the owner may hand out
          Digests,       \* contents of images
          NoDigest,      \* "no artifact"
          MaxArtifacts,  \* max_artifacts of the registry
          Holders,       \* who may pin: admitted requests
          Litter         \* contents of the files that an older owner left

ASSUME MediaAssumption ==
  /\ NoDigest \notin Digests /\ Litter \subseteq Digests
  /\ MaxArtifacts \in Nat \ {0}

VARIABLES
  artifact,   \* _entries: the digest of each live reference
  pins,       \* _Entry.pins
  minted,     \* references ever handed out
  file,       \* the artifact root: <sha256>.bin
  touched,    \* history: files that somebody else removed or changed
  residue     \* history: files whose removal failed, or of an older owner

mediaVars == <<artifact, pins, minted, file, touched, residue>>

MediaTypeOK ==
  /\ artifact \in [Refs -> Digests \cup {NoDigest}]
  /\ pins \in [Refs -> SUBSET Holders]
  /\ minted \subseteq Refs
  /\ file \in [Digests -> {"absent", "whole", "spoiled"}]
  /\ touched \subseteq Digests /\ residue \subseteq Digests

\* A new owner knows no artifact; files of an older one may still be there.
MediaInit ==
  /\ artifact = [r \in Refs |-> NoDigest]
  /\ pins = [r \in Refs |-> {}] /\ minted = {} /\ touched = {}
  /\ residue = Litter
  /\ file = [d \in Digests |-> IF d \in Litter THEN "whole" ELSE "absent"]

Live == {r \in Refs : artifact[r] # NoDigest}

\* Who else uses the file of r.
Sharers(r) == {s \in Live \ {r} : artifact[s] = artifact[r]}

--------------------------------------------------------------------------------
\* ingest: copied, validated, hashed, and the copy moved to its place.
Ingest(r, d) ==
  /\ Cardinality(Live) < MaxArtifacts
  /\ r \notin minted
  /\ minted' = minted \cup {r}
  /\ artifact' = [artifact EXCEPT ![r] = d]
  /\ file' = [file EXCEPT ![d] = "whole"]
  /\ touched' = touched \ {d} /\ residue' = residue \ {d}
  /\ UNCHANGED pins

\* A bad name, an alias, a full registry, a file too big, not an image or gone:
\* nothing is published and no reference handed out.
IngestRefused == UNCHANGED mediaVars

\* resolve: the owner's copy is hashed again before every use.
Resolves(r) == r \in Live /\ file[artifact[r]] = "whole"

\* resolve_ordered: all of them or none.
ResolveAll(rs) == \A r \in rs : Resolves(r)

Pin(rs, k) ==
  /\ pins' = [r \in Refs |-> IF r \in rs THEN pins[r] \cup {k} ELSE pins[r]]
  /\ UNCHANGED <<artifact, minted, file, touched, residue>>

Unpin(k) ==
  /\ pins' = [r \in Refs |-> pins[r] \ {k}]
  /\ UNCHANGED <<artifact, minted, file, touched, residue>>

Forget(r) == artifact' = [artifact EXCEPT ![r] = NoDigest]

Releasable(r) == r \in Live /\ pins[r] = {}

\* release of a reference that shares its file: the file stays.
ReleaseShared(r) ==
  /\ Releasable(r) /\ Sharers(r) # {}
  /\ Forget(r)
  /\ UNCHANGED <<pins, minted, file, touched, residue>>

\* Fault: sharers are not looked for.
ReleaseAlone(r) ==
  /\ Releasable(r) /\ Forget(r)
  /\ file' = [file EXCEPT ![artifact[r]] = "absent"]
  /\ UNCHANGED <<pins, minted, touched, residue>>

\* release of the last one: the file goes first, or had gone already.
ReleaseLast(r) ==
  /\ Releasable(r) /\ Sharers(r) = {}
  /\ Forget(r)
  /\ file' = [file EXCEPT ![artifact[r]] = "absent"]
  /\ UNCHANGED <<pins, minted, touched, residue>>

\* Fault: the reference is dropped although its file could not be.
ReleaseForgets(r) ==
  /\ Releasable(r) => file[artifact[r]] # "absent"
  /\ IF Releasable(r) THEN Forget(r) ELSE UNCHANGED artifact
  /\ UNCHANGED <<pins, minted, file, touched, residue>>

\* Unknown or pinned, or the file can not be removed: both stay.
ReleaseRefused(r) ==
  /\ Releasable(r) => Sharers(r) = {} /\ file[artifact[r]] # "absent"
  /\ UNCHANGED mediaVars

\* cleanup_unpinned: pinned artifacts survive, and so do the files they use; a
\* removal may fail.
Cleanup ==
  LET kept == {r \in Live : pins[r] # {}}
      used == {artifact[r] : r \in kept}
      old  == {d \in Digests \ used : file[d] # "absent"}
  IN \E stuck \in SUBSET old :
       /\ artifact' = [r \in Refs |-> IF r \in kept THEN artifact[r] ELSE NoDigest]
       /\ file' = [d \in Digests |-> IF d \in old \ stuck THEN "absent" ELSE file[d]]
       /\ residue' = stuck
       /\ UNCHANGED <<pins, minted, touched>>

\* Somebody else removes or changes a file of the artifact root.
Tamper(d) ==
  /\ file[d] # "absent"
  /\ \E state \in {"absent", "spoiled"} : file' = [file EXCEPT ![d] = state]
  /\ touched' = touched \cup {d}
  /\ UNCHANGED <<artifact, pins, minted, residue>>
================================================================================
