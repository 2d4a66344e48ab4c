--------------------------- MODULE EffectLedgerProofs --------------------------
(***************************************************************************)
(* Proofs about EffectLedger, for every set of effects and of details and  *)
(* every length of the file.                                               *)
(*                                                                         *)
(* The rows of one effect are its reservation, its outcome, or the one and *)
(* then the other (Legal).  So an effect has at most two rows, and the     *)
(* last of them is there without any counting; the same bound makes what a *)
(* power failure leaves one of the survivors that DurableFacts lists.      *)
(***************************************************************************)
EXTENDS EffectLedger, SequenceTheorems, TLAPS

\* Two rows of one effect are a reservation and, later, its outcome; the first
\* one is a fact that may come first.
Legal(file) ==
  /\ \A i, j \in 1..Len(file) : i < j /\ file[i].effect = file[j].effect =>
       file[i].state = "reserved" /\ file[j].state \in Terminal
  /\ \A j \in 1..Len(file) :
       MayOpen(file[j]) \/ \E i \in 1..Len(file) : i < j /\ file[i].effect = file[j].effect

\* What was reported as persisted is among the rows that survive.
AckedSynced == \A f \in acked : \E i \in 1..synced : rows[i] = f

\* A file that was there at the start never becomes one that may go.
Settled == existed => fileEntry = "durable" /\ dirEntry = "durable"

IInv == TypeOK /\ Legal(rows) /\ AckedSynced /\ Settled

--------------------------------------------------------------------------------
(* The last fact of an effect in a legal file.                             *)

\* The rows of an effect have a last one, because there are at most two.
LEMMA LastExists ==
  ASSUME NEW file \in Seq(Fact), Legal(file), NEW e, RowsOf(file, e) # {}
  PROVE  \E i \in RowsOf(file, e) : \A j \in RowsOf(file, e) : j <= i
<1> DEFINE own == RowsOf(file, e)
<1>1. Len(file) \in Nat /\ own \subseteq 1..Len(file) /\ \A i \in own : file[i].effect = e
  BY DEF RowsOf
<1>2. PICK a \in own : TRUE
  OBVIOUS
<1>3. CASE \A j \in own : j <= a
  BY <1>3
<1>4. CASE \E b \in own : ~(b <= a)
  <2>1. PICK b \in own : a < b
    BY <1>1, <1>4
  <2>2. file[b].state \in Terminal
    BY <1>1, <2>1 DEF Legal
  <2>3. ASSUME NEW c \in own, b < c PROVE FALSE
    BY <1>1, <2>2, <2>3 DEF Legal, Terminal
  <2>4. \A c \in own : c <= b
    BY <1>1, <2>3
  <2> QED
    BY <2>4
<1> QED
  BY <1>3, <1>4

\* There is no third row.
LEMMA AtMostTwo ==
  ASSUME NEW file, Legal(file), NEW i \in 1..Len(file), NEW j \in 1..Len(file),
         NEW k \in 1..Len(file), i < j, j < k,
         file[i].effect = file[j].effect, file[j].effect = file[k].effect
  PROVE  FALSE
BY DEF Legal, Terminal

LEMMA LastFactAt ==
  ASSUME NEW file \in Seq(Fact), NEW e, NEW m \in RowsOf(file, e),
         \A j \in RowsOf(file, e) : j <= m
  PROVE  LastFact(file, e) = file[m]
<1>1. \A i \in RowsOf(file, e) : i \in Int
  BY DEF RowsOf
<1>2. \A i \in RowsOf(file, e) : (\A j \in RowsOf(file, e) : j <= i) => i = m
  BY <1>1
<1>3. (CHOOSE i \in RowsOf(file, e) : \A j \in RowsOf(file, e) : j <= i) = m
  BY <1>2
<1> QED
  BY <1>3 DEF LastFact

\* The last fact is that of the last row, or there is neither.
LEMMA LastFactFrom ==
  ASSUME NEW file \in Seq(Fact), Legal(file), NEW e
  PROVE  \/ RowsOf(file, e) = {} /\ LastFact(file, e) = NoFact
         \/ \E m \in RowsOf(file, e) :
              /\ LastFact(file, e) = file[m] /\ file[m] \in Fact /\ file[m].effect = e
              /\ \A j \in RowsOf(file, e) : j <= m
<1>1. CASE RowsOf(file, e) = {}
  BY <1>1 DEF LastFact
<1>2. CASE RowsOf(file, e) # {}
  <2>1. PICK m \in RowsOf(file, e) : \A j \in RowsOf(file, e) : j <= m
    BY <1>2, LastExists
  <2>2. file[m] \in Fact /\ file[m].effect = e
    BY DEF RowsOf
  <2> QED
    BY <2>1, <2>2, LastFactAt
<1> QED
  BY <1>1, <1>2

LEMMA NoFactIsNone == NoFact \notin Fact
<1>1. \A f \in Fact : f.state \in FactStates
  BY DEF Fact
<1> QED
  BY <1>1 DEF NoFact, FactStates

\* A legal successor makes a legal file, and is the last fact of its effect.
LEMMA AppendLegal ==
  ASSUME NEW file \in Seq(Fact), Legal(file), NEW f \in Fact,
         MayFollow(LastFact(file, f.effect), f)
  PROVE  /\ Append(file, f) \in Seq(Fact) /\ Legal(Append(file, f))
         /\ Len(Append(file, f)) = Len(file) + 1
         /\ \A i \in 1..Len(file) : Append(file, f)[i] = file[i]
         /\ LastFact(Append(file, f), f.effect) = f
         /\ \A e : e # f.effect => LastFact(Append(file, f), e) = LastFact(file, e)
<1> DEFINE new == Append(file, f)
           n == Len(file)
<1>1. /\ n \in Nat /\ new \in Seq(Fact) /\ Len(new) = n + 1
      /\ \A i \in 1..n : new[i] = file[i]
      /\ new[n + 1] = f
  BY AppendProperties
<1>2. \A i \in 1..(n + 1) : i \in 1..n \/ i = n + 1
  BY <1>1
<1>3. \A i \in 1..n : i \in 1..(n + 1) /\ i < n + 1
  BY <1>1
<1> HIDE DEF new, n
<1>4. RowsOf(file, f.effect) = {} => MayOpen(f)
  BY NoFactIsNone DEF LastFact, MayFollow
<1>5. ASSUME NEW i \in 1..n, file[i].effect = f.effect
      PROVE  file[i].state = "reserved" /\ f.state \in Terminal
  <2>1. i \in RowsOf(file, f.effect)
    BY <1>5 DEF RowsOf, n
  <2>2. PICK m \in RowsOf(file, f.effect) :
          LastFact(file, f.effect) = file[m] /\ file[m] \in Fact /\ \A j \in RowsOf(file, f.effect) : j <= m
    BY <2>1, LastFactFrom
  <2>3. file[m].state = "reserved" /\ f.state \in Terminal
    BY <2>2, NoFactIsNone DEF MayFollow
  <2>4. m \in 1..n /\ file[m].effect = f.effect /\ i <= m
    BY <2>1, <2>2 DEF RowsOf, n
  <2>5. i = m
    BY <1>1, <1>5, <2>3, <2>4 DEF Legal, Terminal, n
  <2> QED
    BY <2>3, <2>5
<1>6. ASSUME NEW i \in 1..(n + 1), NEW j \in 1..(n + 1), i < j, new[i].effect = new[j].effect
      PROVE  new[i].state = "reserved" /\ new[j].state \in Terminal
  <2>1. i \in 1..n
    BY <1>1, <1>6
  <2>2. CASE j = n + 1
    BY <1>1, <1>5, <1>6, <2>1, <2>2
  <2>3. CASE j \in 1..n
    BY <1>1, <1>6, <2>1, <2>3 DEF Legal, n
  <2> QED
    BY <1>2, <2>2, <2>3
<1>7. ASSUME NEW j \in 1..(n + 1)
      PROVE  MayOpen(new[j]) \/ \E i \in 1..(n + 1) : i < j /\ new[i].effect = new[j].effect
  <2>1. CASE j = n + 1
    <3>1. CASE RowsOf(file, f.effect) = {}
      BY <1>1, <1>4, <2>1, <3>1
    <3>2. CASE RowsOf(file, f.effect) # {}
      <4>1. PICK i \in 1..n : file[i].effect = f.effect
        BY <3>2 DEF RowsOf, n
      <4> QED
        BY <1>1, <1>3, <2>1, <4>1
    <3> QED
      BY <3>1, <3>2
  <2>2. CASE j \in 1..n
    <3>1. MayOpen(file[j]) \/ \E i \in 1..n : i < j /\ file[i].effect = file[j].effect
      BY <2>2 DEF Legal, n
    <3> QED
      BY <1>1, <1>3, <2>2, <3>1
  <2> QED
    BY <1>2, <2>1, <2>2
<1>8. Legal(new)
  BY <1>1, <1>6, <1>7 DEF Legal
<1>9. LastFact(new, f.effect) = f
  <2>1. n + 1 \in RowsOf(new, f.effect) /\ \A j \in RowsOf(new, f.effect) : j <= n + 1
    BY <1>1 DEF RowsOf
  <2> QED
    BY <1>1, <2>1, LastFactAt
<1>10. ASSUME NEW e, e # f.effect PROVE LastFact(new, e) = LastFact(file, e)
  <2>1. RowsOf(new, e) = RowsOf(file, e)
    BY <1>1, <1>2, <1>3, <1>10 DEF RowsOf, n
  <2>2. CASE RowsOf(file, e) = {}
    BY <2>1, <2>2 DEF LastFact
  <2>3. CASE RowsOf(file, e) # {}
    <3>1. PICK m \in RowsOf(file, e) : LastFact(file, e) = file[m] /\ \A j \in RowsOf(file, e) : j <= m
      BY <2>3, LastFactFrom
    <3>2. LastFact(new, e) = new[m]
      BY <1>1, <2>1, <3>1, LastFactAt
    <3>3. m \in 1..n
      BY DEF RowsOf, n
    <3> QED
      BY <1>1, <3>1, <3>2, <3>3
  <2> QED
    BY <2>2, <2>3
<1> QED
  BY <1>1, <1>8, <1>9, <1>10 DEF new, n

\* What is left of a legal file is legal.
LEMMA PrefixLegal ==
  ASSUME NEW file \in Seq(Fact), Legal(file), NEW k \in 0..Len(file)
  PROVE  /\ SubSeq(file, 1, k) \in Seq(Fact) /\ Len(SubSeq(file, 1, k)) = k
         /\ \A i \in 1..k : SubSeq(file, 1, k)[i] = file[i]
         /\ Legal(SubSeq(file, 1, k))
<1> DEFINE left == SubSeq(file, 1, k)
<1>1. \A i \in 1..k : i \in 1..Len(file) /\ file[i] \in Fact
  OBVIOUS
<1>2. /\ left \in Seq(Fact) /\ Len(left) = k
      /\ \A i \in 1..k : left[i] = file[i]
  <2>1. /\ left \in Seq(Fact)
        /\ Len(left) = IF 1 <= k THEN k - 1 + 1 ELSE 0
        /\ \A i \in 1..(k - 1 + 1) : left[i] = file[1 + i - 1]
    BY <1>1, SubSeqProperties
  <2> QED
    BY <2>1
<1> HIDE DEF left
<1>3. \A i, j \in 1..k : i < j /\ left[i].effect = left[j].effect =>
        left[i].state = "reserved" /\ left[j].state \in Terminal
  BY <1>1, <1>2 DEF Legal
<1>4. ASSUME NEW j \in 1..k
      PROVE  MayOpen(left[j]) \/ \E i \in 1..k : i < j /\ left[i].effect = left[j].effect
  <2>1. MayOpen(file[j]) \/ \E i \in 1..Len(file) : i < j /\ file[i].effect = file[j].effect
    BY <1>1 DEF Legal
  <2>2. \A i \in 1..Len(file) : i < j => i \in 1..k
    OBVIOUS
  <2> QED
    BY <1>2, <2>1, <2>2
<1> QED
  BY <1>2, <1>3, <1>4 DEF Legal, left

\* All of a file is itself.
LEMMA WholePrefix ==
  ASSUME NEW file \in Seq(Fact), Legal(file)
  PROVE  SubSeq(file, 1, Len(file)) = file
BY SubSeqFull

\* The synced part does not change when a row is added.
LEMMA PrefixOfAppend ==
  ASSUME NEW file \in Seq(Fact), Legal(file), NEW f \in Fact, NEW n \in 0..Len(file)
  PROVE  SubSeq(Append(file, f), 1, n) = SubSeq(file, 1, n)
<1> DEFINE new == Append(file, f)
           old == SubSeq(file, 1, n)
           cut == SubSeq(new, 1, n)
<1>1. /\ new \in Seq(Fact) /\ Len(new) = Len(file) + 1
      /\ \A i \in 1..Len(file) : new[i] = file[i]
  BY AppendProperties
<1>2. /\ old \in Seq(Fact) /\ Len(old) = n
      /\ \A i \in 1..n : old[i] = file[i]
  BY PrefixLegal
<1>3. cut \in Seq(Fact) /\ Len(cut) = n /\ \A i \in 1..n : cut[i] = new[i]
  <2>1. \A i \in 1..n : new[i] \in Fact
    BY <1>1
  <2>2. /\ cut \in Seq(Fact)
        /\ Len(cut) = IF 1 <= n THEN n - 1 + 1 ELSE 0
        /\ \A i \in 1..(n - 1 + 1) : cut[i] = new[1 + i - 1]
    <3> HIDE DEF new
    <3> QED
      BY <2>1, SubSeqProperties
  <2> HIDE DEF new, cut
  <2> QED
    BY <2>2
<1>4. \A i \in 1..n : cut[i] = old[i]
  BY <1>1, <1>2, <1>3
<1> HIDE DEF new, old, cut
<1>5. cut = old
  BY <1>2, <1>3, <1>4, SeqEqual
<1> QED
  BY <1>5 DEF new, old, cut

\* What a power failure leaves of an effect: what was certain, what was seen,
\* or a reservation whose outcome went.
LEMMA PrefixSurvives ==
  ASSUME NEW file \in Seq(Fact), Legal(file), NEW n \in 0..Len(file), NEW k \in n..Len(file),
         NEW e
  PROVE  LET seen == LastFact(file, e)
             kept == LastFact(SubSeq(file, 1, n), e)
             left == LastFact(SubSeq(file, 1, k), e)
         IN \/ left = kept \/ left = seen
            \/ /\ left \in Fact /\ left.effect = e /\ kept = NoFact /\ MayOpen(left)
               /\ seen # NoFact /\ MayFollow(left, seen)
<1> DEFINE seen == LastFact(file, e)
           kept == LastFact(SubSeq(file, 1, n), e)
           left == LastFact(SubSeq(file, 1, k), e)
           before == SubSeq(file, 1, n)
           after == SubSeq(file, 1, k)
<1>1. k \in 0..Len(file) /\ Len(file) \in Nat /\ n <= k
  OBVIOUS
<1>2. /\ before \in Seq(Fact) /\ Len(before) = n /\ Legal(before)
      /\ \A i \in 1..n : before[i] = file[i]
  BY PrefixLegal
<1>3. /\ after \in Seq(Fact) /\ Len(after) = k /\ Legal(after)
      /\ \A i \in 1..k : after[i] = file[i]
  BY <1>1, PrefixLegal
<1> HIDE DEF before, after
<1>4. CASE RowsOf(after, e) = {}
  <2>1. RowsOf(before, e) = {}
    BY <1>1, <1>2, <1>3, <1>4 DEF RowsOf
  <2>2. LastFact(after, e) = NoFact /\ LastFact(before, e) = NoFact
    BY <1>4, <2>1 DEF LastFact
  <2> QED
    BY <2>2 DEF before, after
<1>5. CASE RowsOf(after, e) # {}
  <2>1. PICK p \in RowsOf(after, e) :
          LastFact(after, e) = after[p] /\ \A j \in RowsOf(after, e) : j <= p
    BY <1>3, <1>5, LastFactFrom
  <2>2. p \in 1..k /\ p \in 1..Len(file) /\ file[p].effect = e /\ after[p] = file[p]
        /\ file[p] \in Fact
    BY <1>1, <1>3, <2>1 DEF RowsOf
  <2>3. PICK m \in RowsOf(file, e) :
          /\ LastFact(file, e) = file[m] /\ file[m] \in Fact /\ file[m].effect = e
          /\ \A j \in RowsOf(file, e) : j <= m
    BY <2>2, LastFactFrom DEF RowsOf
  <2>4. m \in 1..Len(file) /\ p <= m
    BY <2>2, <2>3 DEF RowsOf
  <2>5. CASE p = m
    BY <2>1, <2>2, <2>3, <2>5 DEF after
  <2>6. CASE p # m /\ p <= n
    <3>1. p \in RowsOf(before, e) /\ \A j \in RowsOf(before, e) : j <= p
      BY <1>1, <1>2, <1>3, <2>1, <2>2, <2>6 DEF RowsOf
    <3>2. LastFact(before, e) = before[p]
      BY <1>2, <3>1, LastFactAt
    <3>3. before[p] = file[p]
      BY <1>2, <2>2, <2>6
    <3> QED
      BY <2>1, <2>2, <3>2, <3>3 DEF before, after
  <2>7. CASE p # m /\ ~(p <= n)
    <3>1. p < m
      BY <2>2, <2>4, <2>7
    <3>2. file[p].state = "reserved" /\ file[m].state \in Terminal
      BY <2>2, <2>3, <2>4, <3>1 DEF Legal
    <3>3. RowsOf(before, e) = {}
      <4> SUFFICES ASSUME NEW q \in RowsOf(before, e) PROVE FALSE
        OBVIOUS
      <4>1. q \in 1..n /\ q \in 1..Len(file) /\ file[q].effect = e /\ q < p
        BY <1>1, <1>2, <2>2, <2>7 DEF RowsOf
      <4> QED
        BY <2>2, <2>3, <2>4, <3>1, <4>1, AtMostTwo
    <3>4. LastFact(before, e) = NoFact
      BY <3>3 DEF LastFact
    <3>5. MayOpen(file[p]) /\ file[p] # NoFact /\ file[m] # NoFact
      BY <2>2, <2>3, <3>2, NoFactIsNone DEF MayOpen
    <3>6. MayFollow(file[p], file[m])
      BY <3>2, <3>5 DEF MayFollow
    <3> QED
      BY <2>1, <2>2, <2>3, <3>4, <3>5, <3>6 DEF before, after
  <2> QED
    BY <2>5, <2>6, <2>7
<1> QED
  BY <1>4, <1>5

--------------------------------------------------------------------------------
(* The steps.                                                              *)

\* Each of the calls that write a row.
LEMMA RowWritten ==
  ASSUME IInv, NEW f \in Fact, IsNew(f), rows' = Append(rows, f),
         synced' \in {synced, Len(rows')}
  PROVE  /\ rows' \in Seq(Fact) /\ Legal(rows') /\ synced' \in 0..Len(rows')
         /\ \A i \in 1..synced : i \in 1..synced' /\ rows'[i] = rows[i]
         /\ synced' = Len(rows') => \E i \in 1..synced' : rows'[i] = f
<1>1. rows \in Seq(Fact) /\ synced \in 0..Len(rows) /\ Len(rows) \in Nat /\ Legal(rows)
  BY DEF IInv, TypeOK
<1>2. MayFollow(LastFact(rows, f.effect), f)
  BY DEF IsNew, Latest
<1>3. /\ rows' \in Seq(Fact) /\ Legal(rows') /\ Len(rows') = Len(rows) + 1
      /\ \A i \in 1..Len(rows) : rows'[i] = rows[i]
  BY <1>1, <1>2, AppendLegal
<1>4. rows'[Len(rows) + 1] = f
  BY <1>1, AppendProperties
<1>5. synced' \in 0..Len(rows') /\ synced <= synced'
  BY <1>1, <1>3
<1>6. \A i \in 1..synced : i \in 1..synced' /\ i \in 1..Len(rows)
  BY <1>1, <1>5
<1>7. synced' = Len(rows') => Len(rows) + 1 \in 1..synced'
  BY <1>1, <1>3
<1> QED
  BY <1>3, <1>4, <1>5, <1>6, <1>7

LEMMA InvStep ==
  ASSUME IInv, [Next]_vars
  PROVE  IInv'
<1>1. rows \in Seq(Fact) /\ synced \in 0..Len(rows) /\ Len(rows) \in Nat /\ Legal(rows)
  BY DEF IInv, TypeOK
<1>2. ASSUME NEW f \in Fact, DirectoryFails(f), UNCHANGED existed PROVE IInv'
  <2>1. UNCHANGED <<rows, torn, synced, fileEntry, acked, lost, existed>> /\ dirEntry' = "volatile"
        /\ dirEntry = "absent"
    BY <1>2 DEF DirectoryFails
  <2> QED
    BY <2>1 DEF IInv, TypeOK, Entry, AckedSynced, Settled
<1>3. ASSUME NEW f \in Fact, WriteFails(f), UNCHANGED existed PROVE IInv'
  <2>1. UNCHANGED <<rows, synced, acked, lost, existed>> /\ torn' \in BOOLEAN
    BY <1>3 DEF WriteFails
  <2>2. fileEntry' \in {Created(fileEntry), fileEntry} /\ dirEntry' = DirectoryReady
    BY <1>3 DEF WriteFails
  <2>3. fileEntry' \in Entry /\ dirEntry' \in Entry
        /\ (fileEntry = "durable" => fileEntry' = "durable") /\ (dirEntry = "durable" => dirEntry' = "durable")
    BY <2>2 DEF IInv, TypeOK, Entry, Created, DirectoryReady
  <2> QED
    BY <2>1, <2>3 DEF IInv, TypeOK, AckedSynced, Settled
<1>4. ASSUME NEW f \in Fact, SyncFails(f) \/ EntrySyncFails(f) \/ AppendOk(f), UNCHANGED existed
      PROVE  IInv'
  <2>1. /\ IsNew(f) /\ rows' = Append(rows, f) /\ synced' \in {synced, Len(rows')}
        /\ UNCHANGED <<torn, lost>>
    BY <1>4 DEF SyncFails, EntrySyncFails, AppendOk
  <2>2. /\ rows' \in Seq(Fact) /\ Legal(rows') /\ synced' \in 0..Len(rows')
        /\ \A i \in 1..synced : i \in 1..synced' /\ rows'[i] = rows[i]
        /\ synced' = Len(rows') => \E i \in 1..synced' : rows'[i] = f
    BY <2>1, RowWritten
  <2>3. acked' = acked \/ (acked' = acked \cup {f} /\ synced' = Len(rows'))
    BY <1>4 DEF SyncFails, EntrySyncFails, AppendOk
  <2>4. AckedSynced'
    BY <2>2, <2>3 DEF IInv, AckedSynced
  <2>5. fileEntry' \in Entry /\ dirEntry' \in Entry
        /\ (fileEntry = "durable" => fileEntry' = "durable") /\ (dirEntry = "durable" => dirEntry' = "durable")
    BY <1>4 DEF SyncFails, EntrySyncFails, AppendOk, IInv, TypeOK, Entry, Created, DirectoryReady
  <2> QED
    BY <1>4, <2>1, <2>2, <2>3, <2>4, <2>5 DEF IInv, TypeOK, Settled
<1>5. ASSUME NEW f \in Fact, RetryFails(f) \/ RetryOk(f), UNCHANGED existed PROVE IInv'
  <2>1. /\ UNCHANGED <<rows, torn, dirEntry, lost>> /\ synced' \in {synced, Len(rows)}
        /\ fileEntry' \in {fileEntry, "durable"}
    BY <1>5 DEF RetryFails, RetryOk
  <2>2. synced <= synced' /\ synced' \in 0..Len(rows')
    BY <1>1, <2>1
  <2>3. acked' = acked \/ (acked' = acked \cup {f} /\ synced' = Len(rows) /\ Latest(f.effect) = f)
    BY <1>5 DEF RetryFails, RetryOk, IsRetry
  <2>4. Latest(f.effect) = f => \E i \in 1..Len(rows) : rows[i] = f
    BY <1>1, LastFactFrom, NoFactIsNone DEF Latest, RowsOf
  <2>5. \A i \in 1..synced : i \in 1..synced'
    BY <1>1, <2>2
  <2>6. AckedSynced'
    BY <2>1, <2>3, <2>4, <2>5 DEF IInv, AckedSynced
  <2> QED
    BY <1>5, <2>1, <2>2, <2>3, <2>6 DEF IInv, TypeOK, Settled, Entry
<1>6. ASSUME PowerLossKeepsFile, UNCHANGED existed PROVE IInv'
  <2>1. PICK k \in synced..Len(rows) :
          rows' = SubSeq(rows, 1, k) /\ synced' = k
          /\ torn' \in IF k < Len(rows) THEN BOOLEAN ELSE {FALSE, torn}
    BY <1>6 DEF PowerLossKeepsFile
  <2>2. k \in 0..Len(rows)
    BY <1>1
  <2>3. /\ rows' \in Seq(Fact) /\ Len(rows') = k /\ Legal(rows')
        /\ \A i \in 1..k : rows'[i] = rows[i]
    BY <1>1, <2>1, <2>2, PrefixLegal
  <2>4. acked' \subseteq acked /\ lost' \in BOOLEAN
    BY <1>6 DEF PowerLossKeepsFile, Forget, IInv, TypeOK
  <2>5. \A i \in 1..synced : i \in 1..k
    BY <1>1
  <2>6. AckedSynced'
    BY <2>1, <2>3, <2>4, <2>5 DEF IInv, AckedSynced
  <2>7. fileEntry' \in Entry /\ dirEntry' \in Entry
        /\ (fileEntry = "durable" => fileEntry' = "durable") /\ (dirEntry = "durable" => dirEntry' = "durable")
    BY <1>6 DEF PowerLossKeepsFile, Entry
  <2>8. torn' \in BOOLEAN
    BY <2>1 DEF IInv, TypeOK
  <2> QED
    BY <1>6, <2>1, <2>2, <2>3, <2>4, <2>6, <2>7, <2>8 DEF IInv, TypeOK, Settled
<1>7. ASSUME PowerLossDropsFile, UNCHANGED existed PROVE IInv'
  <2>1. ~existed
    BY <1>7 DEF PowerLossDropsFile, IInv, Settled
  <2>2. rows' = <<>> /\ synced' = 0 /\ torn' = FALSE /\ fileEntry' = "absent"
        /\ dirEntry' \in {"absent", "durable", dirEntry}
    BY <1>7 DEF PowerLossDropsFile
  <2>3. rows' \in Seq(Fact) /\ Len(rows') = 0
    BY <2>2, EmptySeq
  <2>4. Legal(rows')
    BY <2>3 DEF Legal
  <2>5. acked' = {} /\ lost' \in BOOLEAN
    <3>1. \A f : ~InFile(f)'
      BY <2>3 DEF InFile
    <3> QED
      BY <1>7, <3>1 DEF PowerLossDropsFile, Forget, IInv, TypeOK
  <2>6. synced' \in 0..Len(rows') /\ fileEntry' \in Entry /\ dirEntry' \in Entry
    BY <2>2, <2>3 DEF IInv, TypeOK, Entry
  <2>7. TypeOK'
    BY <1>7, <2>2, <2>3, <2>5, <2>6 DEF TypeOK, IInv
  <2>8. AckedSynced' /\ Settled'
    BY <1>7, <2>1, <2>5 DEF AckedSynced, Settled
  <2> QED
    BY <2>4, <2>7, <2>8 DEF IInv
<1>8. CASE UNCHANGED vars
  BY <1>8 DEF vars, IInv, TypeOK, AckedSynced, Settled
<1> QED
  BY <1>2, <1>3, <1>4, <1>5, <1>6, <1>7, <1>8 DEF Next

\* The invariant holds of every state of every behaviour.
THEOREM Invariant == Spec => []IInv
<1>1. Init => IInv
  <2> SUFFICES ASSUME Init PROVE IInv
    OBVIOUS
  <2>1. rows \in Seq(Fact) /\ Len(rows) = 0
    BY EmptySeq DEF Init
  <2>2. synced \in 0..Len(rows)
    BY <2>1 DEF Init
  <2>3. TypeOK
    BY <2>1, <2>2 DEF Init, TypeOK, Entry
  <2>4. Legal(rows) /\ AckedSynced /\ Settled
    BY <2>1 DEF Init, Legal, AckedSynced, Settled
  <2> QED
    BY <2>3, <2>4 DEF IInv
<1> QED
  BY <1>1, InvStep, PTL DEF Spec

\* TypeOK: the state has the types that the module declares.
THEOREM TypesHold == Spec => []TypeOK
<1>1. IInv => TypeOK
  BY DEF IInv
<1> QED
  BY <1>1, Invariant, PTL

\* OneAckedOutcome: however appends fail, are retried and are cut off by power
\* failures, no effect has two outcomes that were reported as persisted.
THEOREM OneOutcome == Spec => []OneAckedOutcome
<1>1. ASSUME IInv PROVE OneAckedOutcome
  <2> SUFFICES ASSUME NEW f \in acked, NEW g \in acked, f.effect = g.effect,
                      f.state \in Terminal, g.state \in Terminal
               PROVE  f = g
    BY DEF OneAckedOutcome
  <2>1. Len(rows) \in Nat /\ synced <= Len(rows)
    BY <1>1 DEF IInv, TypeOK
  <2>2. PICK i \in 1..synced : rows[i] = f
    BY <1>1 DEF IInv, AckedSynced
  <2>3. PICK j \in 1..synced : rows[j] = g
    BY <1>1 DEF IInv, AckedSynced
  <2>4. i \in 1..Len(rows) /\ j \in 1..Len(rows)
    BY <1>1, <2>1 DEF IInv, TypeOK
  <2>5. ~(i < j) /\ ~(j < i)
    BY <1>1, <2>2, <2>3, <2>4 DEF IInv, Legal, Terminal
  <2> QED
    BY <2>2, <2>3, <2>4, <2>5
<1> QED
  BY <1>1, Invariant, PTL

\* LostOnlyWithTheFile: a fact that was reported as persisted goes only when a
\* file goes that this process created and whose path was never synced.
THEOREM LossNeedsANewFile == Spec => LostOnlyWithTheFile
<1>1. ASSUME IInv, [Next]_vars, ~(acked \subseteq acked')
      PROVE  ~existed /\ rows' = <<>> /\ "volatile" \in {fileEntry, dirEntry}
  <2>1. ASSUME PowerLossKeepsFile PROVE FALSE
    <3>1. PICK k \in synced..Len(rows) : rows' = SubSeq(rows, 1, k) /\ synced' = k
      BY <2>1 DEF PowerLossKeepsFile
    <3>2. /\ rows \in Seq(Fact) /\ Legal(rows) /\ k \in 0..Len(rows)
          /\ synced \in 0..Len(rows) /\ Len(rows) \in Nat
      BY <1>1 DEF IInv, TypeOK
    <3>3. Len(rows') = k /\ \A i \in 1..k : rows'[i] = rows[i]
      BY <3>1, <3>2, PrefixLegal
    <3>4. \A i \in 1..synced : i \in 1..k
      BY <3>2
    <3>5. \A f \in acked : InFile(f)'
      BY <1>1, <3>3, <3>4 DEF IInv, AckedSynced, InFile
    <3> QED
      BY <1>1, <2>1, <3>5 DEF PowerLossKeepsFile, Forget
  <2>2. ASSUME acked' = acked \/ \E f : acked' = acked \cup {f} PROVE FALSE
    BY <1>1, <2>2
  <2>3. PowerLossDropsFile
    BY <1>1, <2>1, <2>2 DEF Next, vars, DirectoryFails, WriteFails, SyncFails, EntrySyncFails,
       AppendOk, RetryFails, RetryOk
  <2>4. ~existed
    BY <1>1, <2>3 DEF PowerLossDropsFile, IInv, Settled
  <2> QED
    BY <2>3, <2>4 DEF PowerLossDropsFile
<1>2. IInv /\ [Next]_vars =>
        [ ~(acked \subseteq acked') =>
          /\ ~existed /\ rows' = <<>>
          /\ "volatile" \in {fileEntry, dirEntry} ]_vars
  BY <1>1
<1> QED
  BY <1>2, Invariant, PTL DEF Spec, LostOnlyWithTheFile

--------------------------------------------------------------------------------
(* The file implements DurableFacts.                                       *)

LEMMA SameVocabulary ==
  /\ Promise!Fact = Fact /\ Promise!NoFact = NoFact
  /\ \A f : Promise!MayOpen(f) <=> MayOpen(f)
  /\ \A old, f : Promise!MayFollow(old, f) <=> MayFollow(old, f)
BY DEF Promise!Fact, Fact, Promise!NoFact, NoFact, Promise!MayOpen, MayOpen,
       Promise!MayFollow, MayFollow, Promise!FactStates, FactStates, Promise!Terminal, Terminal

\* A row that becomes visible, and perhaps certain with all the others.
LEMMA WrittenImplements ==
  ASSUME IInv, NEW f \in Fact, IsNew(f), rows' = Append(rows, f)
  PROVE  /\ Promise!Acceptable(f)
         /\ Visible' = [Visible EXCEPT ![f.effect] = f]
         /\ synced' = synced => Certain' = Certain
         /\ synced' = Len(rows') => Certain' = Visible'
<1>1. rows \in Seq(Fact) /\ synced \in 0..Len(rows) /\ Legal(rows) /\ f.effect \in Effects
  BY DEF IInv, TypeOK, Fact
<1>2. MayFollow(LastFact(rows, f.effect), f)
  BY DEF IsNew, Latest
<1>3. /\ rows' \in Seq(Fact) /\ Legal(rows') /\ LastFact(rows', f.effect) = f
      /\ \A e : e # f.effect => LastFact(rows', e) = LastFact(rows, e)
  BY <1>1, <1>2, AppendLegal
<1>4. Promise!Acceptable(f)
  BY <1>1, <1>2, SameVocabulary DEF Promise!Acceptable, Visible, Latest
<1>5. Visible' = [Visible EXCEPT ![f.effect] = f]
  BY <1>1, <1>3 DEF Visible, Latest
<1>6. synced' = synced => Certain' = Certain
  <2>1. SubSeq(rows', 1, synced) = SubSeq(rows, 1, synced)
    BY <1>1, PrefixOfAppend
  <2> QED
    BY <2>1 DEF Certain
<1>7. synced' = Len(rows') => Certain' = Visible'
  <2>1. SubSeq(rows', 1, Len(rows')) = rows'
    BY <1>3, WholePrefix
  <2> QED
    BY <2>1 DEF Certain, Visible, Latest
<1> QED
  BY <1>4, <1>5, <1>6, <1>7

LEMMA RetryImplements ==
  ASSUME IInv, NEW f \in Fact, IsRetry(f), UNCHANGED rows
  PROVE  /\ Promise!Acceptable(f)
         /\ Visible' = Visible /\ Visible' = [Visible EXCEPT ![f.effect] = f]
         /\ synced' = synced => Certain' = Certain
         /\ synced' = Len(rows) => Certain' = Visible'
<1>1. rows \in Seq(Fact) /\ Legal(rows) /\ f.effect \in Effects
  BY DEF IInv, TypeOK, Fact
<1>2. Latest(f.effect) = f
  BY DEF IsRetry
<1>3. Promise!Acceptable(f)
  BY <1>1, <1>2 DEF Promise!Acceptable, Visible
<1>4. Visible' = Visible
  BY DEF Visible, Latest
<1>5. Visible = [Visible EXCEPT ![f.effect] = f]
  BY <1>1, <1>2 DEF Visible
<1>6. synced' = Len(rows) => Certain' = Visible'
  <2>1. SubSeq(rows, 1, Len(rows)) = rows
    BY <1>1, WholePrefix
  <2> QED
    BY <2>1 DEF Certain, Visible, Latest
<1> QED
  BY <1>3, <1>4, <1>5, <1>6 DEF Certain

LEMMA PowerLossImplements ==
  ASSUME IInv, PowerLossKeepsFile
  PROVE  Promise!PowerFails
<1>1. rows \in Seq(Fact) /\ synced \in 0..Len(rows) /\ Len(rows) \in Nat /\ Legal(rows)
  BY DEF IInv, TypeOK
<1>2. PICK k \in synced..Len(rows) : rows' = SubSeq(rows, 1, k) /\ synced' = k
  BY DEF PowerLossKeepsFile
<1>3. rows' \in Seq(Fact) /\ Len(rows') = k /\ Legal(rows')
  BY <1>1, <1>2, PrefixLegal
<1>4. Certain' = Visible'
  <2>1. SubSeq(rows', 1, Len(rows')) = rows'
    BY <1>3, WholePrefix
  <2> QED
    BY <1>2, <1>3, <2>1 DEF Certain, Visible, Latest
<1>5. ASSUME NEW e \in Effects PROVE Visible'[e] \in Promise!Survivors(e)
  <2> DEFINE seen == LastFact(rows, e)
             kept == LastFact(SubSeq(rows, 1, synced), e)
             left == LastFact(rows', e)
  <2>1. \/ left = kept \/ left = seen
        \/ /\ left \in Fact /\ left.effect = e /\ kept = NoFact /\ MayOpen(left)
           /\ seen # NoFact /\ MayFollow(left, seen)
    BY <1>1, <1>2, PrefixSurvives
  <2>2. Visible'[e] = left /\ Visible[e] = seen /\ Certain[e] = kept
    BY DEF Visible, Certain, Latest
  <2> HIDE DEF seen, kept, left
  <2> QED
    BY <2>1, <2>2, SameVocabulary DEF Promise!Survivors
<1>6. Visible' \in [Effects -> UNION {Promise!Survivors(e) : e \in Effects}]
  <2>1. Visible' = [e \in Effects |-> Visible'[e]]
    BY DEF Visible
  <2> QED
    BY <1>5, <2>1
<1> QED
  BY <1>4, <1>5, <1>6 DEF Promise!PowerFails

\* ImplementsPromise: what callers of append_durable are built on is what the
\* file does, through failed writes, retries and power failures, provided the
\* file was there before.
THEOREM Implements == Spec => ImplementsPromise
<1>1. ASSUME Init PROVE Promise!LedgerInit
  <2>1. rows = <<>> /\ synced = 0 /\ Len(rows) = 0
    BY <1>1, EmptySeq DEF Init
  <2>2. SubSeq(rows, 1, 0) = <<>>
    BY SubSeqEmpty
  <2>3. \A e : LastFact(<<>>, e) = NoFact
    BY <2>1 DEF LastFact, RowsOf
  <2> QED
    BY <2>1, <2>2, <2>3, SameVocabulary DEF Promise!LedgerInit, Visible, Certain, Latest
<1>2. ASSUME IInv, [Next]_vars, existed
      PROVE  Promise!LedgerNext \/ UNCHANGED <<Visible, Certain>>
  <2>1. ASSUME UNCHANGED <<rows, synced>> PROVE UNCHANGED <<Visible, Certain>>
    BY <2>1 DEF Visible, Certain, Latest
  <2>2. ASSUME NEW f \in Fact, SyncFails(f) \/ AppendOk(f) PROVE Promise!LedgerNext
    <3>1. /\ Promise!Acceptable(f) /\ Visible' = [Visible EXCEPT ![f.effect] = f]
          /\ synced' = synced => Certain' = Certain
          /\ synced' = Len(rows') => Certain' = Visible'
      BY <1>2, <2>2, WrittenImplements DEF SyncFails, AppendOk
    <3>2. Promise!Falter(f) \/ Promise!Persist(f)
      BY <2>2, <3>1 DEF SyncFails, AppendOk, Promise!Falter, Promise!Persist
    <3> QED
      BY <3>2, SameVocabulary DEF Promise!LedgerNext
  <2>3. ASSUME NEW f \in Fact, RetryFails(f) \/ RetryOk(f)
        PROVE  Promise!LedgerNext \/ UNCHANGED <<Visible, Certain>>
    <3>1. /\ Promise!Acceptable(f) /\ Visible' = Visible
          /\ Visible' = [Visible EXCEPT ![f.effect] = f]
          /\ synced' = synced => Certain' = Certain
          /\ synced' = Len(rows) => Certain' = Visible'
      BY <1>2, <2>3, RetryImplements DEF RetryFails, RetryOk
    <3>2. CASE synced' = Len(rows)
      <4>1. Promise!Persist(f)
        BY <3>1, <3>2 DEF Promise!Persist
      <4> QED
        BY <4>1, SameVocabulary DEF Promise!LedgerNext
    <3>3. CASE synced' = synced
      BY <3>1, <3>3
    <3> QED
      BY <2>3, <3>2, <3>3 DEF RetryFails, RetryOk
  <2>4. ASSUME PowerLossKeepsFile PROVE Promise!LedgerNext
    BY <1>2, <2>4, PowerLossImplements DEF Promise!LedgerNext
  <2>5. fileEntry = "durable" /\ dirEntry = "durable"
    BY <1>2 DEF IInv, Settled
  <2>6. ~PowerLossDropsFile /\ \A f \in Fact : ~EntrySyncFails(f) /\ ~DirectoryFails(f)
    BY <2>5 DEF PowerLossDropsFile, EntrySyncFails, DirectoryFails
  <2>7. ASSUME NEW f \in Fact, WriteFails(f) PROVE UNCHANGED <<Visible, Certain>>
    BY <2>1, <2>7 DEF WriteFails
  <2>8. CASE UNCHANGED vars
    BY <2>1, <2>8 DEF vars
  <2> QED
    BY <1>2, <2>2, <2>3, <2>4, <2>6, <2>7, <2>8 DEF Next
<1>3. IInv /\ [Next]_vars =>
        [existed => Promise!LedgerNext \/ UNCHANGED <<Visible, Certain>>]_vars
  BY <1>2
<1> QED
  BY <1>1, <1>3, Invariant, PTL DEF Spec, ImplementsPromise

================================================================================
