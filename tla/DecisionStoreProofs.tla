-------------------------- MODULE DecisionStoreProofs --------------------------
(***************************************************************************)
(* Proofs about DecisionStore, for every set of processes, records and        *)
(* transactions, and every bound: the decisions are recorded exactly once and *)
(* whole, every recovery completes, and callers are told the truth.           *)
(*                                                                         *)
(* The argument: a journal that is pending fits what is on the disk, that is, *)
(* its audit line and each of its records is there already or is the very     *)
(* next thing to be written.  Each write keeps that true, of the directory    *)
(* that processes see and of the one that a power loss leaves, and both       *)
(* complete to the same store.                                               *)
(***************************************************************************)
EXTENDS DecisionStore, SequenceTheorems, TLAPS

\* A history has kills or power losses, not both.
OneKindOfFault == \A r \in Regimes : ~({"kill", "power"} \subseteq r)

----------------------------------------------------------------------------
\* A journal and what is on a disk

TailOf(audit) == IF audit.lines = <<>> THEN 0 ELSE Last(audit.lines)

\* The audit line is there, or there is none to write.
LineIsThere(j, audit) == audit.torn = None /\ (j.audited => TailOf(audit) = j.tx)

\* It is there, or half of it, or it is the next to be written.
AuditFits(j, audit) ==
  \/ LineIsThere(j, audit)
  \/ /\ j.audited /\ audit.torn \in {None, j.tx}
     /\ TailOf(audit) = j.prev /\ j.tx \notin ToSet(audit.lines)

RecordFits(j, r, table) ==
  table[r] = j.after[r] \/ j.after[r] = Append(table[r], j.tx)

Fits(j, d) == AuditFits(j, d.audit) /\ \A r \in DOMAIN j.after : RecordFits(j, r, d.table)

\* Nothing of the journal is on the disk, and all of it may be.
Fresh(j, d) ==
  /\ d.audit.torn = None /\ (j.audited => TailOf(d.audit) = j.prev)
  /\ j.tx \notin ToSet(d.audit.lines)
  /\ \A r \in Records : j.tx \notin ToSet(d.table[r])
  /\ \A r \in DOMAIN j.after : j.after[r] = Append(d.table[r], j.tx)

\* The records of the first n files.
Passed(j, n) == {r \in DOMAIN j.after : \E i \in 1..n : KindOf[r] = ApplyOrder[i]}
WrittenTo(j, n, d) == \A r \in Passed(j, n) : d.table[r] = j.after[r]

\* The audit lines with the journal's.
LinesWith(j, audit) ==
  IF TailOf(audit) = j.tx \/ ~j.audited THEN audit.lines ELSE Append(audit.lines, j.tx)

----------------------------------------------------------------------------
\* The inductive invariant

Calm == {"idle", "ready", "choose", "rename"}
Applying == {"audit", "torn", "apply", "applied"}
Writing == {"rename", "sync", "removed"} \cup Applying

\* Who is at work has the lock, and a journal that was made.
Holding(p) ==
  /\ pc[p] # "idle" => lock = p
  /\ IF pc[p] \in Writing THEN job[p].journal \in hist.made ELSE job[p] = NoJob

\* How far the process has brought its journal.
Progress(p) ==
  LET j == job[p].journal
  IN  /\ pc[p] = "choose" => disk.journal = None
      /\ pc[p] = "rename" => disk.journal = None /\ disk.tmp = j /\ Fresh(j, disk)
      /\ pc[p] = "sync" => disk.journal = j /\ Fresh(j, disk)
      /\ pc[p] \in Applying => disk.journal = j
      /\ pc[p] \in {"rename", "sync", "audit", "torn"} => job[p].passed = 0
      /\ pc[p] = "torn" =>
           j.audited /\ disk.audit.torn = j.tx /\ TailOf(disk.audit) = j.prev
      /\ pc[p] \in {"apply", "applied", "removed"} => LineIsThere(j, disk.audit)
      /\ pc[p] = "apply" => WrittenTo(j, job[p].passed, disk)
      /\ pc[p] = "applied" => /\ job[p].passed < Len(ApplyOrder)
                              /\ WrittenTo(j, job[p].passed + 1, disk)
      /\ pc[p] = "removed" => disk.journal = None /\ \A r \in DOMAIN j.after : disk.table[r] = j.after[r]

DiskFits ==
  IF disk.journal = None THEN disk.audit.torn = None
                         ELSE disk.journal \in hist.made /\ Fits(disk.journal, disk)

\* Journals have transactions of their own, and write something.
Made ==
  /\ \A j \in hist.made :
       /\ j.tx \in 1..begun /\ j.tx \notin hist.refused
       /\ DOMAIN j.after # {} /\ \A r \in DOMAIN j.after : j.tx \in ToSet(j.after[r])
  /\ \A j, k \in hist.made : j.tx = k.tx => j = k
  /\ hist.refused \subseteq 1..begun
  /\ \A tx \in hist.done : \E j \in hist.made : j.tx = tx

\* What a directory holds: transactions that were journalled, all that callers were
\* told of, and what any process has read or more.
Behind(s, t) == Len(s) <= Len(t) /\ \A i \in 1..Len(s) : s[i] = t[i]

TxsOf(made) == {j.tx : j \in made}

KeepsAudit(audit, made, done) ==
  /\ ToSet(audit.lines) \subseteq TxsOf(made)
  /\ \A j \in made : j.tx \in done /\ j.audited => j.tx \in ToSet(audit.lines)

KeepsRecord(s, r, made, done, read) ==
  /\ ToSet(s) \subseteq TxsOf(made)
  /\ \A j \in made : j.tx \in done /\ r \in DOMAIN j.after => j.tx \in ToSet(s)
  /\ \A p \in Procs : Behind(read[p][r], s)

Keeps(d) ==
  /\ KeepsAudit(d.audit, hist.made, hist.done)
  /\ \A r \in Records : KeepsRecord(d.table[r], r, hist.made, hist.done, seen)

SameFiles(d, e) == d.audit = e.audit /\ d.table = e.table

\* What a power loss leaves of the store.
Tracks(p) ==
  LET j == job[p].journal
  IN  /\ pc[p] = "sync" => durable.journal = None /\ SameFiles(durable, disk)
      /\ pc[p] \in Applying =>
           /\ durable.journal = j /\ Fits(j, durable)
           /\ LinesWith(j, durable.audit) = LinesWith(j, disk.audit)
           /\ \A r \in Records \ DOMAIN j.after : durable.table[r] = disk.table[r]
           /\ pc[p] \in {"apply", "applied"} => WrittenTo(j, job[p].passed, durable)
           /\ pc[p] \in {"apply", "applied"} /\ Passed(j, job[p].passed) # {} =>
                durable.audit = disk.audit
      /\ pc[p] = "removed" => durable.journal = j /\ SameFiles(durable, disk)

DurableTracks ==
  "power" \in regime =>
    /\ Keeps(durable)
    /\ (\A p \in Procs : pc[p] \in Calm) => durable.journal = disk.journal /\ SameFiles(durable, disk)
    /\ \A p \in Procs : Tracks(p)

Inv ==
  /\ TypeOK /\ Made /\ DiskFits /\ Keeps(disk) /\ RecoveryIsSafe
  /\ \A p \in Procs : Holding(p) /\ Progress(p)
  /\ DurableTracks

----------------------------------------------------------------------------
\* Sequences

LEMMA AppendTells ==
  ASSUME NEW S, NEW s \in Seq(S), NEW e \in S
  PROVE  /\ Append(s, e) \in Seq(S) /\ Append(s, e) # <<>> /\ Append(s, e) # s
         /\ Last(Append(s, e)) = e
         /\ ToSet(Append(s, e)) = ToSet(s) \cup {e}
         /\ Behind(s, Append(s, e))
<1>1. /\ Append(s, e) \in Seq(S) /\ Len(Append(s, e)) = Len(s) + 1
      /\ \A i \in 1..Len(s) : Append(s, e)[i] = s[i]
      /\ Append(s, e)[Len(s) + 1] = e
      /\ Len(s) \in Nat /\ DOMAIN s = 1..Len(s) /\ DOMAIN Append(s, e) = 1..(Len(s) + 1)
  BY AppendProperties, LenProperties
<1>2. ToSet(Append(s, e)) = ToSet(s) \cup {e}
  <2>1. ASSUME NEW x \in ToSet(Append(s, e))
        PROVE  x \in ToSet(s) \cup {e}
    BY <1>1 DEF ToSet
  <2>2. ASSUME NEW x \in ToSet(s)
        PROVE  x \in ToSet(Append(s, e))
    BY <1>1 DEF ToSet
  <2>3. e \in ToSet(Append(s, e))
    BY <1>1 DEF ToSet
  <2> QED BY <2>1, <2>2, <2>3
<1>3. Append(s, e) # s /\ Append(s, e) # <<>>
  <2> DEFINE t == Append(s, e)
  <2>1. t \in Seq(S) /\ Len(t) = Len(s) + 1 /\ Len(s) \in Nat
    BY <1>1
  <2> HIDE DEF t
  <2>2. t # s
    BY <2>1
  <2>3. t # <<>>
    BY <2>1, EmptySeq
  <2> QED BY <2>2, <2>3 DEF t
<1>4. Last(Append(s, e)) = e
  BY <1>1 DEF Last
<1>5. Behind(s, Append(s, e))
  BY <1>1 DEF Behind
<1> QED BY <1>1, <1>2, <1>3, <1>4, <1>5

LEMMA LastIsIn ==
  ASSUME NEW S, NEW s \in Seq(S), s # <<>>
  PROVE  Last(s) \in ToSet(s) /\ Last(s) \in S
<1>1. Len(s) \in Nat \ {0} /\ DOMAIN s = 1..Len(s)
  BY LenProperties, EmptySeq
<1> QED BY <1>1 DEF Last, ToSet

LEMMA ToSetOfEmpty == ToSet(<<>>) = {}
  BY DEF ToSet

LEMMA ToSetType ==
  ASSUME NEW S, NEW s \in Seq(S)
  PROVE  ToSet(s) \subseteq S
  BY ElementOfSeq, LenProperties DEF ToSet

LEMMA BehindIsTransitive ==
  ASSUME NEW S, NEW s \in Seq(S), NEW t \in Seq(S), NEW u \in Seq(S), Behind(s, t), Behind(t, u)
  PROVE  Behind(s, u)
  BY LenProperties DEF Behind

LEMMA BehindItself ==
  ASSUME NEW S, NEW s \in Seq(S)
  PROVE  Behind(s, s)
  BY LenProperties DEF Behind

\* The length of what was read tells whether it is still there: the check of revisions.
LEMMA SameRevision ==
  ASSUME NEW S, NEW s \in Seq(S), NEW t \in Seq(S), Behind(s, t), Len(s) = Len(t)
  PROVE  s = t
  BY SeqEqual DEF Behind

----------------------------------------------------------------------------
\* Journals and disks

LEMMA TailIs ==
  ASSUME NEW a \in AuditFile
  PROVE  /\ a.lines \in Seq(TxIds) /\ a.torn \in TxIds \cup {None} /\ a.exists \in BOOLEAN
         /\ TailOf(a) \in TxIds \cup {0}
         /\ \A tx \in TxIds : tx \notin ToSet(a.lines) => TailOf(a) # tx
         /\ \A tx \in TxIds : TailOf(a) = tx => tx \in ToSet(a.lines)
         /\ Last(<<0>> \o a.lines) = TailOf(a)
<1>1. a.lines \in Seq(TxIds) /\ a.torn \in TxIds \cup {None} /\ a.exists \in BOOLEAN
  BY DEF AuditFile
<1>2. 0 \notin TxIds
  BY DEF TxIds
<1>3. Last(<<0>> \o a.lines) = TailOf(a)
  <2>1. CASE a.lines = <<>>
    BY <2>1 DEF Last, TailOf
  <2>2. CASE a.lines # <<>>
    <3>1. <<0>> \in Seq(Nat) /\ a.lines \in Seq(Nat) /\ Len(<<0>>) = 1 /\ Len(a.lines) \in Nat \ {0}
      BY <1>1, <2>2, EmptySeq, LenProperties, SeqMonotonic, StoreAssumption DEF TxIds
    <3>2. Len(<<0>> \o a.lines) = 1 + Len(a.lines)
          /\ (<<0>> \o a.lines)[1 + Len(a.lines)] = a.lines[Len(a.lines)]
      BY <3>1, ConcatProperties
    <3> QED BY <2>2, <3>2 DEF Last, TailOf
  <2> QED BY <2>1, <2>2
<1> QED BY <1>1, <1>2, <1>3, LastIsIn DEF TailOf

LEMMA AuditTailIs == AuditTail = TailOf(disk.audit)
  BY DEF AuditTail, TailOf

LEMMA FreshFits ==
  ASSUME NEW j, NEW d, Fresh(j, d)
  PROVE  Fits(j, d)
  BY DEF Fresh, Fits, AuditFits, LineIsThere, RecordFits

LEMMA JournalTypes ==
  ASSUME NEW j, IsJournal(j)
  PROVE  /\ j.tx \in TxIds /\ j.audited \in BOOLEAN /\ j.prev \in TxIds \cup {0}
         /\ j # None /\ DOMAIN j.after \subseteq Records
         /\ \A r \in DOMAIN j.after : j.after[r] \in Seq(TxIds)
  BY JournalAssumption DEF IsJournal, JournalOf, Record

LEMMA DiskTypes ==
  ASSUME NEW d, IsDisk(d)
  PROVE  /\ DOMAIN d = {"journal", "tmp", "audit", "table"}
         /\ d.audit \in AuditFile /\ d.table \in [Records -> Seq(TxIds)]
  BY DEF IsDisk, Record

----------------------------------------------------------------------------
\* Every step keeps the types

LEMMA JobTypes ==
  ASSUME NEW j, IsJob(j)
  PROVE  /\ DOMAIN j = {"journal", "own", "passed"}
         /\ j.journal = None \/ IsJournal(j.journal)
         /\ j.own \in BOOLEAN /\ j.passed \in 0..3
  BY DEF IsJob, ApplyOrder

LEMMA NoJobType == IsJob(NoJob) /\ NoJob.passed = 0 /\ NoJob.journal = None
  BY DEF IsJob, NoJob, ApplyOrder

LEMMA LeaveTypes ==
  ASSUME TypeOK, NEW p \in Procs, Leave(p)
  PROVE  /\ lock' \in Procs \cup {Nobody} /\ pc' \in [Procs -> Steps]
         /\ DOMAIN job' = Procs /\ \A q \in Procs : IsJob(job'[q])
  BY NoJobType DEF Leave, Goto, TypeOK, Steps

LEMMA ControlTypes ==
  ASSUME TypeOK, NEW p \in Procs, pc[p] = "applied" => job[p].passed < Len(ApplyOrder),
         \/ AcquireLock(p) \/ Unlock(p) \/ SkipAudit(p) \/ SkipFile(p) \/ Kill(p)
         \/ SyncJournal(p) \/ SyncFile(p) \/ (\E kind \in Kinds : Load(p, kind))
         \/ (\E shape \in Shapes : CommitRefused(p, shape))
  PROVE  TypeOK'
<1> USE DEF quietVars, diskVars
<1>1. CASE AcquireLock(p) \/ SkipAudit(p) \/ SyncJournal(p)
  BY <1>1 DEF TypeOK, AcquireLock, SkipAudit, SyncJournal, SyncDir, Goto, Steps
<1>2. CASE Unlock(p) \/ Kill(p)
  BY <1>2, LeaveTypes, StoreAssumption DEF TypeOK, Unlock, Kill
<1>3. CASE SkipFile(p) \/ SyncFile(p)
  <2>1. IsJob([job[p] EXCEPT !.passed = @ + 1])
    <3>1. job[p].passed < 3
      BY <1>3 DEF SkipFile, SyncFile, ApplyOrder
    <3> QED BY <3>1, JobTypes DEF TypeOK, IsJob, ApplyOrder
  <2>2. job' = [job EXCEPT ![p] = [job[p] EXCEPT !.passed = @ + 1]]
    BY <1>3 DEF SkipFile, SyncFile, NextFile
  <2>3. DOMAIN job' = Procs /\ \A q \in Procs : IsJob(job'[q])
    BY <2>1, <2>2 DEF TypeOK
  <2> QED BY <1>3, <2>3 DEF TypeOK, SkipFile, SyncFile, SyncDir, Goto, Steps
<1>4. CASE \E kind \in Kinds : Load(p, kind)
  <2>1. seen' \in [Procs -> [Records -> Record]]
    BY <1>4 DEF TypeOK, Load, IsDisk
  <2> QED BY <1>4, <2>1 DEF TypeOK, Load
<1>5. CASE \E shape \in Shapes : CommitRefused(p, shape)
  <2> PICK shape \in Shapes : CommitRefused(p, shape)
    BY <1>5
  <2>1. begun' \in 0..MaxTx /\ begun + 1 \in TxIds
    BY StoreAssumption DEF CommitRefused, TypeOK, TxIds
  <2>2. /\ hist'.made = hist.made /\ hist'.done = hist.done /\ hist'.stuck = hist.stuck
        /\ hist'.refused = hist.refused \cup {begun + 1} /\ DOMAIN hist' = DOMAIN hist
    BY DEF CommitRefused, TypeOK
  <2>3. Leave(p) /\ UNCHANGED <<diskVars, seen, regime, faults>>
    BY DEF CommitRefused
  <2> QED BY <2>1, <2>2, <2>3, LeaveTypes DEF TypeOK
<1> QED BY <1>1, <1>2, <1>3, <1>4, <1>5

LEMMA NewJournalTypes ==
  ASSUME TypeOK, NEW p \in Procs, NEW shape \in Shapes, begun < MaxTx
  PROVE  /\ begun + 1 \in TxIds
         /\ IsJournal(NewJournal(p, begun + 1, shape))
         /\ DOMAIN NewJournal(p, begun + 1, shape).after = AtRevision(p, shape)
         /\ AtRevision(p, shape) \subseteq Records
         /\ \A r \in AtRevision(p, shape) :
              NewJournal(p, begun + 1, shape).after[r] = Append(seen[p][r], begun + 1)
         /\ NewJournal(p, begun + 1, shape).tx = begun + 1
         /\ NewJournal(p, begun + 1, shape).prev = TailOf(disk.audit)
<1>1. begun + 1 \in TxIds
  BY StoreAssumption DEF TypeOK, TxIds
<1>2. shape.audited \in BOOLEAN /\ AtRevision(p, shape) \subseteq Records
  BY StoreAssumption DEF Shape, AtRevision
<1>3. TailOf(disk.audit) \in TxIds \cup {0} /\ AuditTail = TailOf(disk.audit)
  BY TailIs, AuditTailIs, DiskTypes DEF TypeOK
<1>4. \A r \in AtRevision(p, shape) : Append(seen[p][r], begun + 1) \in Seq(TxIds)
  BY <1>1, <1>2, AppendProperties DEF TypeOK, Record
<1> QED BY <1>1, <1>2, <1>3, <1>4 DEF NewJournal, IsJournal, JournalOf, Record

LEMMA WriteJournalTypes ==
  ASSUME TypeOK, NEW p \in Procs, NEW shape \in Shapes, WriteJournal(p, shape)
  PROVE  TypeOK'
<1> DEFINE journal == NewJournal(p, begun + 1, shape)
<1>1. begun < MaxTx /\ IsJournal(journal) /\ begun' \in 0..MaxTx
  BY NewJournalTypes, StoreAssumption DEF WriteJournal, TypeOK
<1>2. IsJob([journal |-> journal, own |-> TRUE, passed |-> 0])
  <2> HIDE DEF journal
  <2> QED BY <1>1 DEF IsJob, ApplyOrder
<1>3. DOMAIN job' = Procs /\ \A q \in Procs : IsJob(job'[q])
  BY <1>2 DEF WriteJournal, TypeOK
<1>4. IsDisk(disk')
  BY <1>1 DEF WriteJournal, TypeOK, IsDisk
<1>5. /\ hist'.made = hist.made \cup {journal} /\ hist'.done = hist.done
      /\ hist'.stuck = hist.stuck /\ hist'.refused = hist.refused /\ DOMAIN hist' = DOMAIN hist
  BY DEF WriteJournal, TypeOK
<1>6. pc' \in [Procs -> Steps] /\ UNCHANGED <<durable, lock, seen, regime, faults>>
  BY DEF WriteJournal, Goto, TypeOK, Steps
<1> QED BY <1>1, <1>3, <1>4, <1>5, <1>6 DEF TypeOK

LEMMA JournalStepTypes ==
  ASSUME TypeOK, NEW p \in Procs, Ready(p) \/ RenameJournal(p) \/ RemoveJournal(p)
  PROVE  TypeOK'
<1> USE DEF quietVars
<1>1. IsDisk(disk')
  BY DEF Ready, RenameJournal, RemoveJournal, TypeOK, IsDisk
<1>2. pc' \in [Procs -> Steps]
  BY DEF Ready, RenameJournal, RemoveJournal, Goto, TypeOK, Steps
<1>3. DOMAIN job' = Procs /\ \A q \in Procs : IsJob(job'[q])
  <2>1. CASE UNCHANGED job
    BY <2>1 DEF TypeOK
  <2>2. CASE disk.journal # None /\ job' = [job EXCEPT ![p].journal = disk.journal]
    <3>1. IsJob([job[p] EXCEPT !.journal = disk.journal])
      BY <2>2 DEF TypeOK, IsJob, IsDisk
    <3> QED BY <2>2, <3>1 DEF TypeOK
  <2> QED BY <2>1, <2>2 DEF Ready, RenameJournal, RemoveJournal
<1> QED BY <1>1, <1>2, <1>3 DEF TypeOK, Ready, RenameJournal, RemoveJournal

\* What a write to the audit leaves.
LEMMA WriteAuditTypes ==
  ASSUME TypeOK, NEW file \in AuditFile, WriteAudit(file)
  PROVE  /\ IsDisk(disk') /\ IsDisk(durable')
         /\ disk'.journal = disk.journal /\ disk'.tmp = disk.tmp /\ disk'.table = disk.table
         /\ disk'.audit = file
         /\ durable'.journal = durable.journal /\ durable'.table = durable.table
         /\ durable'.audit = IF durable.audit.exists THEN file ELSE durable.audit
  BY DEF WriteAudit, TypeOK, IsDisk

LEMMA AuditStepTypes ==
  ASSUME TypeOK, NEW p \in Procs, IsJournal(job[p].journal),
         TrimTorn(p) \/ AppendHalf(p) \/ AppendRest(p)
  PROVE  TypeOK'
<1> USE DEF quietVars, diskVars
<1> DEFINE tx == job[p].journal.tx
<1>1. /\ disk.audit \in AuditFile /\ tx \in TxIds
      /\ disk.audit.lines \in Seq(TxIds)
  BY JobTypes, JournalTypes, DiskTypes, TailIs DEF TypeOK
<1>2. /\ [disk.audit EXCEPT !.torn = None] \in AuditFile
      /\ [disk.audit EXCEPT !.exists = TRUE, !.torn = tx] \in AuditFile
      /\ [disk.audit EXCEPT !.torn = None, !.lines = Append(@, tx)] \in AuditFile
  BY <1>1, AppendProperties DEF AuditFile
<1>3. ASSUME NEW file \in AuditFile, WriteAudit(file), pc' \in [Procs -> Steps],
             UNCHANGED <<lock, job, quietVars>>
      PROVE  TypeOK'
  BY <1>3, WriteAuditTypes DEF TypeOK
<1>4. CASE TrimTorn(p)
  BY <1>4, <1>2, <1>3 DEF TrimTorn, TypeOK
<1>5. CASE AppendRest(p)
  BY <1>5, <1>2, <1>3 DEF AppendRest, Goto, TypeOK, Steps
<1>6. CASE AppendHalf(p)
  <2>1. CASE RefuseRecovery(p)
    <3>1. /\ hist'.made = hist.made /\ hist'.done = hist.done /\ hist'.stuck = TRUE
          /\ hist'.refused = hist.refused /\ DOMAIN hist' = DOMAIN hist
      BY <2>1 DEF RefuseRecovery, TypeOK
    <3> QED BY <2>1, <3>1, LeaveTypes DEF RefuseRecovery, TypeOK
  <2>2. CASE ~RefuseRecovery(p)
    BY <1>6, <2>2, <1>2, <1>3 DEF AppendHalf, Goto, TypeOK, Steps
  <2> QED BY <2>1, <2>2
<1> QED BY <1>4, <1>5, <1>6

\* What the write of a record file leaves.
LEMMA WriteFileMoves ==
  ASSUME TypeOK, NEW p \in Procs, WriteFile(p), ~RefuseRecovery(p), IsJournal(job[p].journal)
  PROVE  /\ pc[p] = "apply" /\ job[p].passed < Len(ApplyOrder)
         /\ \A r \in WritesNow(p) : Landed(p, r) \/ Expected(p, r)
         /\ pc' = [pc EXCEPT ![p] = "applied"] /\ UNCHANGED <<durable, lock, job, quietVars>>
         /\ IsDisk(disk')
         /\ disk'.journal = disk.journal /\ disk'.tmp = disk.tmp /\ disk'.audit = disk.audit
         /\ disk'.table = [r \in Records |-> IF r \in WritesNow(p) THEN job[p].journal.after[r]
                                                               ELSE disk.table[r]]
<1>1. \A r \in WritesNow(p) : job[p].journal.after[r] \in Record
  BY JobTypes, JournalTypes DEF WritesNow, TypeOK, Record
<1>2. /\ \A r \in WritesNow(p) : Landed(p, r) \/ Expected(p, r)
      /\ disk' = [disk EXCEPT !.table =
                    [r \in Records |-> IF r \in WritesNow(p) THEN job[p].journal.after[r]
                                                             ELSE disk.table[r]]]
      /\ Goto(p, "applied") /\ UNCHANGED <<durable, lock, job, quietVars>>
      /\ pc[p] = "apply" /\ job[p].passed < Len(ApplyOrder)
  BY DEF WriteFile
<1>3. IsDisk(disk')
  BY <1>1, <1>2 DEF TypeOK, IsDisk
<1> QED BY <1>2, <1>3 DEF TypeOK, IsDisk, Goto

LEMMA WriteFileTypes ==
  ASSUME TypeOK, NEW p \in Procs, WriteFile(p), IsJournal(job[p].journal)
  PROVE  TypeOK'
<1> USE DEF quietVars, diskVars
<1>1. CASE RefuseRecovery(p)
  <2>1. /\ hist'.made = hist.made /\ hist'.done = hist.done /\ hist'.stuck = TRUE
        /\ hist'.refused = hist.refused /\ DOMAIN hist' = DOMAIN hist
    BY <1>1 DEF RefuseRecovery, TypeOK
  <2> QED BY <1>1, <2>1, LeaveTypes DEF RefuseRecovery, TypeOK
<1>2. CASE ~RefuseRecovery(p)
  BY <1>2, WriteFileMoves DEF TypeOK, Steps
<1> QED BY <1>1, <1>2

LEMMA WithTypes ==
  ASSUME NEW table \in [Records -> Seq(TxIds)], NEW j, IsJournal(j)
  PROVE  With(table, j.after) \in [Records -> Seq(TxIds)]
  BY JournalTypes DEF With

LEMMA SyncRemovedTypes ==
  ASSUME TypeOK, NEW p \in Procs, SyncRemoved(p), IsJournal(job[p].journal)
  PROVE  TypeOK'
<1> USE DEF quietVars, diskVars
<1>1. job[p].journal.tx \in TxIds /\ IsJournal(job[p].journal)
  BY JobTypes, JournalTypes DEF TypeOK
<1>2. /\ DOMAIN hist' = DOMAIN hist /\ hist'.made = hist.made /\ hist'.stuck = hist.stuck
      /\ hist'.refused = hist.refused /\ hist'.done \subseteq hist.done \cup {job[p].journal.tx}
  <2>1. CASE job[p].own
    BY <2>1 DEF SyncRemoved, TypeOK
  <2>2. CASE ~job[p].own
    BY <2>2 DEF SyncRemoved
  <2> QED BY <2>1, <2>2
<1>3. seen' \in [Procs -> [Records -> Record]]
  <2>1. With(seen[p], job[p].journal.after) \in [Records -> Record]
    BY <1>1, WithTypes DEF TypeOK, Record
  <2>2. seen' = seen \/ seen' = [seen EXCEPT ![p] = With(seen[p], job[p].journal.after)]
    BY DEF SyncRemoved
  <2> QED BY <2>1, <2>2 DEF TypeOK
<1>4. DOMAIN job' = Procs /\ \A q \in Procs : IsJob(job'[q])
  BY NoJobType DEF SyncRemoved, TypeOK
<1> QED BY <1>1, <1>2, <1>3, <1>4 DEF SyncRemoved, SyncDir, Goto, TypeOK, Steps

\* What a power loss leaves.
LEMMA PowerLossMoves ==
  ASSUME TypeOK, PowerLoss
  PROVE  /\ IsDisk(disk') /\ durable' = disk'
         /\ disk'.journal \in {disk.journal, durable.journal}
         /\ disk'.audit \in {disk.audit, durable.audit}
         /\ \A r \in Records : disk'.table[r] \in {disk.table[r], durable.table[r]}
<1> PICK keptKinds \in SUBSET Kinds :
       disk' \in [journal : {disk.journal, durable.journal},
                  tmp     : {disk.tmp, durable.tmp},
                  audit   : {disk.audit, durable.audit},
                  table   : {[r \in Records |-> IF r \in {x \in Records : KindOf[x] \in keptKinds}
                                                THEN disk.table[r] ELSE durable.table[r]]}]
  BY DEF PowerLoss
<1> DEFINE mixed == [r \in Records |-> IF r \in {x \in Records : KindOf[x] \in keptKinds}
                                       THEN disk.table[r] ELSE durable.table[r]]
<1>1. /\ disk'.journal \in {disk.journal, durable.journal}
      /\ disk'.tmp \in {disk.tmp, durable.tmp}
      /\ disk'.audit \in {disk.audit, durable.audit}
      /\ disk'.table = mixed
      /\ DOMAIN disk' = {"journal", "tmp", "audit", "table"}
  OBVIOUS
<1>2. mixed \in [Records -> Record]
  BY DEF TypeOK, IsDisk
<1>3. \A r \in Records : mixed[r] \in {disk.table[r], durable.table[r]}
  OBVIOUS
<1> HIDE DEF mixed
<1>4. IsDisk(disk')
  BY <1>1, <1>2 DEF TypeOK, IsDisk
<1> QED BY <1>1, <1>3, <1>4 DEF PowerLoss

LEMMA PowerLossTypes ==
  ASSUME TypeOK, PowerLoss
  PROVE  TypeOK'
<1>1. DOMAIN job' = Procs /\ \A q \in Procs : IsJob(job'[q])
  BY NoJobType DEF PowerLoss
<1>2. faults' \in 0..MaxFaults
  BY StoreAssumption DEF PowerLoss, TypeOK
<1>3. pc' \in [Procs -> Steps] /\ lock' = Nobody /\ UNCHANGED <<seen, regime, begun, hist>>
  BY DEF PowerLoss, Steps
<1> QED BY <1>1, <1>2, <1>3, PowerLossMoves DEF TypeOK

----------------------------------------------------------------------------
\* One process at a time

\* Whoever is at work is alone.
LEMMA Alone ==
  ASSUME \A q \in Procs : Holding(q), NEW p \in Procs, lock = p
  PROVE  \A q \in Procs \ {p} : pc[q] = "idle" /\ job[q] = NoJob
  BY StoreAssumption DEF Holding, Writing, Applying

LEMMA FreeMeansIdle ==
  ASSUME \A q \in Procs : Holding(q), lock = Nobody
  PROVE  \A q \in Procs : pc[q] = "idle" /\ job[q] = NoJob
  BY StoreAssumption DEF Holding, Writing, Applying

\* So it is enough to look at that one.
LEMMA OneHolder ==
  ASSUME NEW p \in Procs, \A q \in Procs \ {p} : pc'[q] = "idle" /\ job'[q] = NoJob,
         TypeOK', Made', DiskFits', Keeps(disk)', RecoveryIsSafe', Holding(p)', Progress(p)',
         "power" \in regime' =>
           /\ Keeps(durable)' /\ Tracks(p)'
           /\ pc'[p] \in Calm => durable'.journal = disk'.journal /\ SameFiles(durable, disk)'
  PROVE  Inv'
<1>1. \A q \in Procs \ {p} : Holding(q)' /\ Progress(q)' /\ Tracks(q)'
  BY DEF Holding, Progress, Tracks, Writing, Applying
<1> QED BY <1>1 DEF Inv, DurableTracks

\* Nothing on the disks and nothing of the history has changed.
LEMMA QuietDisks ==
  ASSUME Inv, UNCHANGED <<diskVars, seen, hist>>
  PROVE  DiskFits' /\ Keeps(disk)' /\ RecoveryIsSafe'
         /\ (regime' = regime /\ "power" \in regime => Keeps(durable)')
  BY DEF Inv, DurableTracks, DiskFits, Fits, AuditFits, LineIsThere, RecordFits, Keeps,
         KeepsAudit, KeepsRecord, RecoveryIsSafe, diskVars

LEMMA MadeStays ==
  ASSUME Made, UNCHANGED <<hist, begun>>
  PROVE  Made'
  BY DEF Made

\* The process that holds the lock, before a step of its own.
LEMMA AtWork ==
  ASSUME Inv, NEW p \in Procs, pc[p] # "idle"
  PROVE  /\ lock = p /\ Holding(p) /\ Progress(p)
         /\ \A q \in Procs \ {p} : pc[q] = "idle" /\ job[q] = NoJob
         /\ pc[p] \in Writing => job[p].journal \in hist.made /\ IsJournal(job[p].journal)
         /\ pc[p] \notin Writing => job[p] = NoJob
         /\ "power" \in regime =>
              /\ Keeps(durable) /\ Tracks(p)
              /\ pc[p] \in Calm => durable.journal = disk.journal /\ SameFiles(durable, disk)
<1>1. lock = p /\ Holding(p) /\ Progress(p)
  BY DEF Inv, Holding
<1>2. \A q \in Procs \ {p} : pc[q] = "idle" /\ job[q] = NoJob
  BY <1>1, Alone DEF Inv
<1>3. pc[p] \in Calm => \A q \in Procs : pc[q] \in Calm
  BY <1>2 DEF Calm
<1> QED BY <1>1, <1>2, <1>3 DEF Inv, DurableTracks, Holding, TypeOK

\* Only pc, job and what is not on the disks move for the others.
LEMMA OthersIdle ==
  ASSUME NEW p \in Procs, \A q \in Procs \ {p} : pc[q] = "idle" /\ job[q] = NoJob, TypeOK,
         (\E step : pc' = [pc EXCEPT ![p] = step]) \/ UNCHANGED pc,
         (\E j : job' = [job EXCEPT ![p] = j]) \/ UNCHANGED job
  PROVE  \A q \in Procs \ {p} : pc'[q] = "idle" /\ job'[q] = NoJob
  BY DEF TypeOK

----------------------------------------------------------------------------
\* Steps that write nothing

LEMMA AcquireLockStep ==
  ASSUME Inv, NEW p \in Procs, AcquireLock(p)
  PROVE  Inv'
<1>1. TypeOK'
  BY ControlTypes DEF Inv, AcquireLock
<1>2. \A q \in Procs : pc[q] = "idle" /\ job[q] = NoJob
  BY FreeMeansIdle DEF Inv, AcquireLock
<1>3. /\ pc' = [pc EXCEPT ![p] = "ready"] /\ lock' = p
      /\ UNCHANGED <<diskVars, job, seen, regime, begun, faults, hist>>
  BY DEF AcquireLock, Goto, quietVars
<1>4. \A q \in Procs \ {p} : pc'[q] = "idle" /\ job'[q] = NoJob
  BY <1>2, <1>3 DEF Inv, TypeOK
<1>5. Holding(p)' /\ Progress(p)' /\ Tracks(p)'
  BY <1>2, <1>3 DEF Inv, TypeOK, Holding, Progress, Tracks, Writing, Applying
<1>6. "power" \in regime => durable.journal = disk.journal /\ SameFiles(durable, disk)
  BY <1>2 DEF Inv, DurableTracks, Calm
<1> QED BY <1>1, <1>3, <1>4, <1>5, <1>6, QuietDisks, MadeStays, OneHolder
        DEF Inv, SameFiles, diskVars

\* The lock is given up while the disks are calm.
LEMMA LeaveStep ==
  ASSUME Inv, NEW p \in Procs, pc[p] \in Calm \/ "power" \notin regime, lock = p, Leave(p),
         TypeOK', Made', DiskFits', Keeps(disk)', RecoveryIsSafe',
         "power" \in regime => Keeps(durable)',
         UNCHANGED <<diskVars, regime>>
  PROVE  Inv'
<1>1. \A q \in Procs \ {p} : pc[q] = "idle" /\ job[q] = NoJob
  BY Alone DEF Inv
<1>2. pc' = [pc EXCEPT ![p] = "idle"] /\ job' = [job EXCEPT ![p] = NoJob] /\ lock' = Nobody
  BY DEF Leave, Goto
<1>3. \A q \in Procs \ {p} : pc'[q] = "idle" /\ job'[q] = NoJob
  BY <1>1, <1>2, OthersIdle DEF Inv
<1>4. Holding(p)' /\ Progress(p)' /\ Tracks(p)'
  BY <1>2 DEF Inv, TypeOK, Holding, Progress, Tracks, Writing, Applying
<1>5. "power" \in regime => durable.journal = disk.journal /\ SameFiles(durable, disk)
  BY <1>1 DEF Inv, DurableTracks, Calm
<1> QED BY <1>3, <1>4, <1>5, OneHolder DEF SameFiles, diskVars

LEMMA UnlockStep ==
  ASSUME Inv, NEW p \in Procs, Unlock(p)
  PROVE  Inv'
<1>1. TypeOK'
  BY ControlTypes DEF Inv, Unlock
<1>2. lock = p /\ pc[p] \in Calm
  BY AtWork DEF Unlock, Calm
<1> QED BY <1>1, <1>2, QuietDisks, MadeStays, LeaveStep DEF Inv, Unlock, quietVars

LEMMA KillStep ==
  ASSUME OneKindOfFault, Inv, NEW p \in Procs, Kill(p)
  PROVE  Inv'
<1>1. TypeOK'
  BY ControlTypes, AtWork DEF Inv, Kill, Progress
<1>2. "power" \notin regime
  BY DEF OneKindOfFault, Kill, Inv, TypeOK
<1> QED BY <1>1, <1>2, QuietDisks, MadeStays, LeaveStep DEF Inv, Kill

LEMMA CommitRefusedStep ==
  ASSUME Inv, NEW p \in Procs, NEW shape \in Shapes, CommitRefused(p, shape)
  PROVE  Inv'
<1>1. TypeOK'
  BY ControlTypes DEF Inv, CommitRefused
<1>2. lock = p /\ pc[p] \in Calm
  BY AtWork DEF CommitRefused, Calm
<1>3. /\ hist'.made = hist.made /\ hist'.done = hist.done /\ hist'.stuck = hist.stuck
      /\ hist'.refused = hist.refused \cup {begun + 1} /\ begun' = begun + 1
      /\ begun \in Nat /\ Leave(p) /\ UNCHANGED <<diskVars, seen, regime>>
  BY StoreAssumption DEF CommitRefused, Inv, TypeOK
<1>4. Made'
  BY <1>3 DEF Inv, Made
<1>5. DiskFits' /\ Keeps(disk)' /\ RecoveryIsSafe' /\ ("power" \in regime => Keeps(durable)')
  BY <1>3 DEF Inv, DurableTracks, DiskFits, Fits, AuditFits, LineIsThere, RecordFits, Keeps,
              RecoveryIsSafe, diskVars
<1> QED BY <1>1, <1>2, <1>3, <1>4, <1>5, LeaveStep DEF Inv

LEMMA LoadStep ==
  ASSUME Inv, NEW p \in Procs, NEW kind \in Kinds, Load(p, kind)
  PROVE  Inv'
<1>1. TypeOK'
  BY ControlTypes DEF Inv, Load
<1>2. /\ pc[p] = "choose"
      /\ UNCHANGED <<diskVars, lock, pc, job, regime, begun, faults, hist>>
      /\ \A q \in Procs, r \in Records : seen'[q][r] \in {seen[q][r], disk.table[r]}
  BY DEF Load, Inv, TypeOK
<1>3. ASSUME NEW d, d.table = disk.table, IsDisk(d), Keeps(d)
      PROVE  \A r \in Records : KeepsRecord(d.table[r], r, hist'.made, hist'.done, seen')
  BY <1>2, <1>3, BehindItself, DiskTypes DEF Keeps, KeepsRecord
<1>4. "power" \in regime => Keeps(durable) /\ durable.table = disk.table
                            /\ durable.journal = disk.journal /\ SameFiles(durable, disk)
  BY <1>2, AtWork DEF Calm, SameFiles
<1>5. Keeps(disk)' /\ ("power" \in regime => Keeps(durable)')
  BY <1>2, <1>3, <1>4 DEF Inv, TypeOK, Keeps, diskVars
<1>6. \A q \in Procs : Holding(q)' /\ Progress(q)'
  BY <1>2 DEF Inv, Holding, Progress, Fresh, WrittenTo, Passed, LineIsThere, diskVars
<1>7. Made' /\ DiskFits' /\ RecoveryIsSafe'
  BY <1>2 DEF Inv, Made, DiskFits, Fits, AuditFits, LineIsThere, RecordFits, RecoveryIsSafe, diskVars
<1>8. DurableTracks'
  BY <1>2, <1>5 DEF Inv, DurableTracks, Tracks, SameFiles, Fits, AuditFits, LineIsThere,
                    RecordFits, LinesWith, WrittenTo, Passed, diskVars
<1> QED BY <1>1, <1>5, <1>6, <1>7, <1>8 DEF Inv

LEMMA ReadyStep ==
  ASSUME Inv, NEW p \in Procs, Ready(p)
  PROVE  Inv'
<1>1. TypeOK'
  BY JournalStepTypes DEF Inv
<1>2. /\ pc[p] = "ready" /\ UNCHANGED <<durable, lock, seen, regime, begun, faults, hist>>
      /\ disk'.journal = disk.journal /\ disk'.audit = disk.audit /\ disk'.table = disk.table
      /\ job[p] = NoJob
  BY AtWork DEF Ready, quietVars, Inv, TypeOK, IsDisk, Writing, Applying
<1>3. /\ \A q \in Procs \ {p} : pc'[q] = "idle" /\ job'[q] = NoJob
      /\ lock = p
      /\ "power" \in regime => /\ Keeps(durable)
                               /\ durable.journal = disk.journal /\ SameFiles(durable, disk)
  BY <1>2, AtWork DEF Ready, Goto, Inv, TypeOK, Calm
<1>4. DiskFits' /\ Keeps(disk)' /\ RecoveryIsSafe' /\ ("power" \in regime => Keeps(durable)')
  BY <1>2, <1>3
  DEF Inv, DiskFits, Fits, AuditFits, LineIsThere, RecordFits, Keeps, RecoveryIsSafe
<1>5. CASE disk.journal = None
  <2>1. pc' = [pc EXCEPT ![p] = "choose"] /\ job' = job
    BY <1>5 DEF Ready, Goto
  <2>2. Holding(p)' /\ Progress(p)' /\ Tracks(p)'
    BY <2>1, <1>2, <1>3, <1>5 DEF Inv, TypeOK, Holding, Progress, Tracks, Writing, Applying
  <2> QED BY <1>1, <1>2, <1>3, <1>4, <2>2, MadeStays, OneHolder DEF Inv, SameFiles
<1>6. CASE disk.journal # None
  <2>1. /\ pc' = [pc EXCEPT ![p] = "audit"] /\ job' = [job EXCEPT ![p].journal = disk.journal]
        /\ pc'[p] = "audit"
        /\ job'[p].journal = disk.journal /\ job'[p].passed = 0
    <3>1. /\ pc' = [pc EXCEPT ![p] = "audit"] /\ job' = [job EXCEPT ![p].journal = disk.journal]
      BY <1>6 DEF Ready, Goto
    <3>2. job'[p] = [job[p] EXCEPT !.journal = disk.journal]
      BY <3>1 DEF Inv, TypeOK
    <3>3. job[p].passed = 0 /\ DOMAIN job[p] = {"journal", "own", "passed"}
      BY <1>2, NoJobType, JobTypes
    <3> QED BY <3>1, <3>2, <3>3 DEF Inv, TypeOK
  <2>2. disk.journal \in hist.made /\ Fits(disk.journal, disk)
    BY <1>6 DEF Inv, DiskFits
  <2>3. Holding(p)' /\ Progress(p)'
    BY <2>1, <2>2, <1>2, <1>3 DEF Holding, Progress, Writing, Applying
  <2>4. ASSUME "power" \in regime
        PROVE  Tracks(p)'
    <3> DEFINE j == disk.journal
    <3>1. /\ durable'.journal = j /\ durable'.audit = disk'.audit /\ durable'.table = disk'.table
          /\ disk'.audit = disk.audit /\ disk'.table = disk.table
      BY <2>4, <1>2, <1>3 DEF SameFiles
    <3>2. Fits(j, durable')
      BY <2>2, <3>1 DEF Fits, RecordFits
    <3>3. job'[p].journal = j /\ pc'[p] = "audit"
      BY <2>1
    <3> HIDE DEF j
    <3> QED BY <3>1, <3>2, <3>3 DEF Tracks, Applying
  <2>5. pc'[p] \notin Calm
    BY <2>1 DEF Calm
  <2> QED BY <1>1, <1>2, <1>3, <1>4, <2>3, <2>4, <2>5, MadeStays, OneHolder DEF Inv
<1> QED BY <1>5, <1>6

----------------------------------------------------------------------------
\* The journal is made, and becomes durable

LEMMA WriteJournalStep ==
  ASSUME Inv, NEW p \in Procs, NEW shape \in Shapes, WriteJournal(p, shape)
  PROVE  Inv'
<1> DEFINE journal == NewJournal(p, begun + 1, shape)
           tx == begun + 1
<1>1. TypeOK'
  BY WriteJournalTypes DEF Inv
<1>2. /\ pc[p] = "choose" /\ disk.journal = None /\ disk.audit.torn = None
      /\ UNCHANGED <<durable, lock, seen, regime, faults>> /\ begun' = tx
      /\ disk'.journal = disk.journal /\ disk'.audit = disk.audit /\ disk'.table = disk.table
      /\ disk'.tmp = journal
      /\ AtRevision(p, shape) # {}
      /\ hist'.made = hist.made \cup {journal} /\ hist'.done = hist.done
      /\ hist'.refused = hist.refused /\ hist'.stuck = hist.stuck
  BY AtWork DEF WriteJournal, Progress, Inv, TypeOK, IsDisk
<1>3. /\ pc'[p] = "rename" /\ job'[p].journal = journal /\ job'[p].passed = 0
      /\ lock = p
      /\ \A q \in Procs \ {p} : pc'[q] = "idle" /\ job'[q] = NoJob
      /\ "power" \in regime => /\ Keeps(durable)
                               /\ durable.journal = disk.journal /\ SameFiles(durable, disk)
  BY <1>2, AtWork DEF WriteJournal, Goto, Inv, TypeOK, Calm
<1>4. /\ tx \in TxIds /\ IsJournal(journal) /\ DOMAIN journal.after = AtRevision(p, shape)
      /\ AtRevision(p, shape) \subseteq Records
      /\ \A r \in DOMAIN journal.after : journal.after[r] = Append(seen[p][r], tx)
      /\ journal.tx = tx /\ journal.prev = TailOf(disk.audit)
  BY NewJournalTypes DEF WriteJournal, Inv
<1>5. \A r \in DOMAIN journal.after : seen[p][r] = disk.table[r]
  <2> TAKE r \in DOMAIN journal.after
  <2>1. /\ seen[p][r] \in Seq(TxIds) /\ disk.table[r] \in Seq(TxIds)
        /\ Len(seen[p][r]) = Len(disk.table[r])
    BY <1>4, DiskTypes DEF AtRevision, Inv, TypeOK, Record
  <2>2. Behind(seen[p][r], disk.table[r])
    BY <1>4 DEF Inv, Keeps, KeepsRecord
  <2> QED BY <2>1, <2>2, SameRevision
<1>6. /\ begun \in Nat /\ \A j \in hist.made : j.tx # tx /\ j.tx \in 1..begun
      /\ tx \notin hist.refused /\ tx \notin hist.done
  BY DEF Inv, Made, TypeOK
<1>7. /\ tx \notin ToSet(disk.audit.lines)
      /\ \A r \in Records : tx \notin ToSet(disk.table[r])
  BY <1>6 DEF Inv, Keeps, KeepsAudit, KeepsRecord, TxsOf
<1>8. Fresh(journal, disk)
  <2> HIDE DEF journal
  <2> QED BY <1>2, <1>4, <1>5, <1>7 DEF Fresh
<1>9. Made'
  <2>1. \A r \in DOMAIN journal.after : tx \in ToSet(journal.after[r])
    <3> TAKE r \in DOMAIN journal.after
    <3>1. seen[p][r] \in Seq(TxIds) /\ journal.after[r] = Append(seen[p][r], tx)
      BY <1>4 DEF Inv, TypeOK, Record
    <3>2. tx \in TxIds
      BY <1>4
    <3> HIDE DEF journal, tx
    <3>3. tx \in ToSet(Append(seen[p][r], tx))
      BY <3>1, <3>2, AppendTells
    <3> QED BY <3>1, <3>3
  <2> HIDE DEF journal
  <2> QED BY <1>2, <1>4, <1>6, <2>1 DEF Inv, Made
<1>10. ASSUME NEW d, Keeps(d)
       PROVE  /\ KeepsAudit(d.audit, hist'.made, hist'.done)
              /\ \A r \in Records : KeepsRecord(d.table[r], r, hist'.made, hist'.done, seen')
  <2>1. \A j \in hist'.made : j \in hist.made \/ (j = journal /\ j.tx \notin hist.done)
    BY <1>2, <1>4, <1>6
  <2>2. TxsOf(hist.made) \subseteq TxsOf(hist'.made)
    BY <1>2 DEF TxsOf
  <2> HIDE DEF journal
  <2>3. KeepsAudit(d.audit, hist'.made, hist'.done)
    BY <1>2, <1>10, <2>1, <2>2 DEF Keeps, KeepsAudit
  <2>4. \A r \in Records : KeepsRecord(d.table[r], r, hist'.made, hist'.done, seen')
    BY <1>2, <1>10, <2>1, <2>2 DEF Keeps, KeepsRecord
  <2> QED BY <2>3, <2>4
<1>11. Keeps(disk)' /\ ("power" \in regime => Keeps(durable)')
  BY <1>2, <1>3, <1>10 DEF Inv, Keeps
<1>12. DiskFits' /\ RecoveryIsSafe'
  BY <1>2 DEF Inv, DiskFits, RecoveryIsSafe
<1>13. Holding(p)' /\ Progress(p)' /\ Tracks(p)'
  <2> HIDE DEF journal
  <2> QED BY <1>2, <1>3, <1>8 DEF Holding, Progress, Tracks, Fresh, Writing, Applying
<1> QED BY <1>1, <1>2, <1>3, <1>9, <1>11, <1>12, <1>13, OneHolder DEF SameFiles

LEMMA RenameJournalStep ==
  ASSUME Inv, NEW p \in Procs, RenameJournal(p)
  PROVE  Inv'
<1>1. TypeOK'
  BY JournalStepTypes DEF Inv
<1>2. /\ pc[p] = "rename" /\ pc' = [pc EXCEPT ![p] = "sync"] /\ pc'[p] = "sync"
      /\ UNCHANGED <<durable, lock, job, seen, regime, begun, faults, hist>>
      /\ disk'.journal = disk.tmp /\ disk'.audit = disk.audit /\ disk'.table = disk.table
  BY DEF RenameJournal, Goto, quietVars, Inv, TypeOK, IsDisk
<1>3. /\ \A q \in Procs \ {p} : pc'[q] = "idle" /\ job'[q] = NoJob
      /\ lock = p /\ disk.journal = None /\ disk.tmp = job[p].journal
      /\ job[p].passed = 0 /\ Fresh(job[p].journal, disk)
      /\ job[p].journal \in hist.made /\ IsJournal(job[p].journal)
      /\ "power" \in regime => /\ Keeps(durable)
                               /\ durable.journal = disk.journal /\ SameFiles(durable, disk)
  BY <1>2, AtWork DEF Progress, Inv, TypeOK, Calm, Writing
<1>4. DiskFits'
  BY <1>2, <1>3, FreshFits, JournalTypes
  DEF DiskFits, Fits, AuditFits, LineIsThere, RecordFits
<1>5. Keeps(disk)' /\ RecoveryIsSafe' /\ ("power" \in regime => Keeps(durable)')
  BY <1>2, <1>3 DEF Inv, Keeps, RecoveryIsSafe
<1>6. Holding(p)' /\ Progress(p)'
  BY <1>2, <1>3 DEF Holding, Progress, Fresh, Writing, Applying
<1>7. "power" \in regime => Tracks(p)'
  BY <1>2, <1>3 DEF Tracks, Applying, SameFiles
<1> QED BY <1>1, <1>2, <1>3, <1>4, <1>5, <1>6, <1>7, MadeStays, OneHolder DEF Inv, Calm

LEMMA SyncJournalStep ==
  ASSUME Inv, NEW p \in Procs, SyncJournal(p)
  PROVE  Inv'
<1>1. TypeOK'
  BY ControlTypes DEF Inv, SyncJournal
<1>2. /\ pc[p] = "sync" /\ pc' = [pc EXCEPT ![p] = "audit"] /\ pc'[p] = "audit"
      /\ UNCHANGED <<disk, lock, job, seen, regime, begun, faults, hist>> /\ durable' = disk
  BY DEF SyncJournal, SyncDir, Goto, quietVars, Inv, TypeOK
<1>3. /\ \A q \in Procs \ {p} : pc'[q] = "idle" /\ job'[q] = NoJob
      /\ lock = p /\ disk.journal = job[p].journal /\ job[p].passed = 0
      /\ job[p].journal \in hist.made /\ job[p].journal # None
  BY <1>2, AtWork, JournalTypes DEF Progress, Inv, TypeOK, Writing
<1>4. DiskFits' /\ Fits(job[p].journal, disk)
  BY <1>2, <1>3 DEF Inv, DiskFits
<1>5. Keeps(disk)' /\ RecoveryIsSafe' /\ Keeps(durable)'
  BY <1>2 DEF Inv, Keeps, RecoveryIsSafe
<1>6. Holding(p)' /\ Progress(p)' /\ Tracks(p)'
  BY <1>2, <1>3, <1>4 DEF Holding, Progress, Tracks, Writing, Applying
<1> QED BY <1>1, <1>2, <1>3, <1>4, <1>5, <1>6, MadeStays, OneHolder DEF Inv, Calm

----------------------------------------------------------------------------
\* The audit line

LEMMA NothingPassed ==
  ASSUME NEW j
  PROVE  Passed(j, 0) = {}
  BY DEF Passed

\* The records and the audit, each with the journal's, stay the same.
AuditKept(p) ==
  /\ disk'.journal = disk.journal /\ disk'.table = disk.table
  /\ LinesWith(job[p].journal, disk'.audit) = LinesWith(job[p].journal, disk.audit)
  /\ pc'[p] \in Applying

RecordsKept(p) ==
  /\ disk'.journal = disk.journal /\ disk'.audit = disk.audit
  /\ \A r \in Records \ DOMAIN job[p].journal.after : disk'.table[r] = disk.table[r]
  /\ pc'[p] \in Applying

\* A write to the audit that keeps the journal fitting.
LEMMA AuditMove ==
  ASSUME Inv, NEW p \in Procs, pc[p] \in {"audit", "torn"},
         NEW file \in AuditFile, WriteAudit(file), TypeOK',
         UNCHANGED <<lock, job, quietVars>>,
         AuditFits(job[p].journal, file),
         LinesWith(job[p].journal, file) = LinesWith(job[p].journal, disk.audit),
         ToSet(disk.audit.lines) \subseteq ToSet(file.lines),
         ToSet(file.lines) \subseteq ToSet(disk.audit.lines) \cup {job[p].journal.tx},
         pc' = [pc EXCEPT ![p] = pc'[p]],
         \/ pc'[p] = "audit"
         \/ /\ pc'[p] = "torn" /\ job[p].journal.audited
            /\ file.torn = job[p].journal.tx /\ TailOf(file) = job[p].journal.prev
         \/ pc'[p] = "apply" /\ LineIsThere(job[p].journal, file)
  PROVE  Inv' /\ AuditKept(p)
<1> DEFINE j == job[p].journal
<1>1. /\ disk'.journal = disk.journal /\ disk'.table = disk.table /\ disk'.audit = file
      /\ durable'.journal = durable.journal /\ durable'.table = durable.table
      /\ durable'.audit = file \/ durable'.audit = durable.audit
  BY WriteAuditTypes DEF Inv
<1>2. /\ \A q \in Procs \ {p} : pc'[q] = "idle" /\ job'[q] = NoJob
      /\ lock = p /\ disk.journal = j /\ job[p].passed = 0 /\ j \in hist.made /\ j # None
      /\ "power" \in regime => Keeps(durable) /\ Tracks(p)
  <2>1. /\ \A q \in Procs \ {p} : pc[q] = "idle" /\ job[q] = NoJob
        /\ lock = p /\ Progress(p) /\ j \in hist.made /\ IsJournal(j)
        /\ "power" \in regime => Keeps(durable) /\ Tracks(p)
    BY AtWork DEF Writing, Applying
  <2>2. \A q \in Procs \ {p} : pc'[q] = "idle" /\ job'[q] = NoJob
    BY <2>1, OthersIdle DEF Inv
  <2> QED BY <2>1, <2>2, JournalTypes DEF Progress, Applying
<1>3. Fits(j, disk)
  BY <1>2 DEF Inv, DiskFits
<1>4. DiskFits'
  BY <1>1, <1>2, <1>3 DEF DiskFits, Fits, RecordFits, quietVars
<1>5. j.tx \in TxsOf(hist.made)
  BY <1>2 DEF TxsOf
<1>6. KeepsAudit(file, hist.made, hist.done)
  BY <1>5 DEF Inv, Keeps, KeepsAudit
<1>7. Keeps(disk)' /\ ("power" \in regime => Keeps(durable)') /\ RecoveryIsSafe' /\ Made'
  BY <1>1, <1>2, <1>6 DEF Inv, Made, Keeps, RecoveryIsSafe, quietVars
<1>8. Passed(j, 0) = {}
  BY NothingPassed
<1>9. Holding(p)' /\ Progress(p)'
  BY <1>1, <1>2, <1>8 DEF Holding, Progress, WrittenTo, Writing, Applying, quietVars
<1>10. ASSUME "power" \in regime
       PROVE  Tracks(p)'
  <2>1. /\ durable.journal = j /\ Fits(j, durable)
        /\ LinesWith(j, durable.audit) = LinesWith(j, disk.audit)
        /\ \A r \in Records \ DOMAIN j.after : durable.table[r] = disk.table[r]
    BY <1>2, <1>10 DEF Tracks, Applying
  <2>2. Fits(j, durable') /\ LinesWith(j, durable'.audit) = LinesWith(j, disk'.audit)
    BY <1>1, <2>1 DEF Fits, RecordFits
  <2> QED BY <1>1, <1>2, <1>8, <2>1, <2>2 DEF Tracks, WrittenTo, Applying
<1>11. Inv'
  BY <1>2, <1>4, <1>7, <1>9, <1>10, OneHolder DEF Calm, quietVars
<1>12. AuditKept(p)
  BY <1>1 DEF AuditKept, Applying
<1> QED BY <1>11, <1>12

LEMMA TrimTornStep ==
  ASSUME Inv, NEW p \in Procs, TrimTorn(p)
  PROVE  Inv' /\ AuditKept(p)
<1> DEFINE j == job[p].journal
           file == [disk.audit EXCEPT !.torn = None]
<1>1. j \in hist.made /\ IsJournal(j) /\ disk.journal = j /\ Fits(j, disk)
  BY AtWork, JournalTypes DEF TrimTorn, Writing, Applying, Progress, Inv, DiskFits
<1>2. disk.audit \in AuditFile /\ j.tx \in TxIds /\ j.audited
  BY <1>1, DiskTypes, JournalTypes DEF Inv, TypeOK, TrimTorn
<1>3. TypeOK'
  BY <1>1, AuditStepTypes DEF Inv
<1>4. /\ disk.audit.torn = j.tx /\ WriteAudit(file) /\ UNCHANGED <<lock, pc, job, quietVars>>
      /\ pc[p] = "audit" /\ pc' = [pc EXCEPT ![p] = "audit"]
  BY DEF TrimTorn, Inv, TypeOK
<1>5. file \in AuditFile /\ file.lines = disk.audit.lines /\ file.torn = None
  BY <1>2 DEF AuditFile
<1>6. TailOf(disk.audit) = j.prev /\ j.tx \notin ToSet(disk.audit.lines)
  <2>1. j.tx # None
    BY <1>2, StoreAssumption DEF TxIds
  <2> QED BY <1>1, <1>4, <2>1 DEF Fits, AuditFits, LineIsThere
<1> HIDE DEF file
<1>7. AuditFits(j, file) /\ LinesWith(j, file) = LinesWith(j, disk.audit)
  BY <1>2, <1>5, <1>6 DEF AuditFits, LinesWith, TailOf
<1> QED BY <1>3, <1>4, <1>5, <1>7, AuditMove

LEMMA SkipAuditStep ==
  ASSUME Inv, NEW p \in Procs, SkipAudit(p)
  PROVE  Inv'
<1> DEFINE j == job[p].journal
<1>1. TypeOK'
  BY ControlTypes DEF Inv, SkipAudit
<1>2. /\ pc[p] = "audit" /\ pc' = [pc EXCEPT ![p] = "apply"] /\ pc'[p] = "apply"
      /\ UNCHANGED <<diskVars, lock, job, seen, regime, begun, faults, hist>>
  BY DEF SkipAudit, Goto, quietVars, Inv, TypeOK
<1>3. /\ \A q \in Procs \ {p} : pc'[q] = "idle" /\ job'[q] = NoJob
      /\ lock = p /\ disk.journal = j /\ job[p].passed = 0
      /\ j \in hist.made /\ IsJournal(j)
      /\ "power" \in regime => Keeps(durable) /\ Tracks(p)
  BY <1>2, AtWork DEF Progress, Inv, TypeOK, Writing, Applying
<1>4. LineIsThere(j, disk.audit)
  <2>1. Fits(j, disk)
    BY <1>3, JournalTypes DEF Inv, DiskFits
  <2> QED BY <2>1, AuditTailIs DEF SkipAudit, Fits, AuditFits, LineIsThere
<1>5. Passed(j, 0) = {}
  BY NothingPassed
<1>6. Holding(p)' /\ Progress(p)'
  BY <1>2, <1>3, <1>4, <1>5 DEF Holding, Progress, WrittenTo, Writing, Applying, diskVars
<1>7. "power" \in regime => Tracks(p)'
  BY <1>2, <1>3, <1>5 DEF Tracks, WrittenTo, Applying, diskVars
<1> QED BY <1>1, <1>2, <1>3, <1>6, <1>7, QuietDisks, MadeStays, OneHolder DEF Inv, Calm, quietVars

LEMMA AppendHalfStep ==
  ASSUME Inv, NEW p \in Procs, AppendHalf(p)
  PROVE  Inv' /\ AuditKept(p)
<1> DEFINE j == job[p].journal
           file == [disk.audit EXCEPT !.exists = TRUE, !.torn = j.tx]
<1>1. j \in hist.made /\ IsJournal(j) /\ disk.journal = j /\ Fits(j, disk)
  BY AtWork, JournalTypes DEF AppendHalf, Writing, Applying, Progress, Inv, DiskFits
<1>2. disk.audit \in AuditFile /\ j.tx \in TxIds /\ j.audited
  BY <1>1, DiskTypes, JournalTypes DEF Inv, TypeOK, AppendHalf
<1>3. TypeOK'
  BY <1>1, AuditStepTypes DEF Inv
<1>4. /\ disk.audit.torn = None /\ TailOf(disk.audit) = j.prev
      /\ j.tx \notin ToSet(disk.audit.lines)
  BY <1>1, AuditTailIs DEF AppendHalf, Fits, AuditFits, LineIsThere
<1>5. /\ WriteAudit(file) /\ UNCHANGED <<lock, job, quietVars>>
      /\ pc[p] = "audit" /\ pc' = [pc EXCEPT ![p] = "torn"] /\ pc'[p] = "torn"
  BY <1>4, AuditTailIs DEF AppendHalf, Goto, Inv, TypeOK
<1>6. file \in AuditFile /\ file.lines = disk.audit.lines /\ file.torn = j.tx
  BY <1>2 DEF AuditFile
<1> HIDE DEF file
<1>7. AuditFits(j, file) /\ LinesWith(j, file) = LinesWith(j, disk.audit) /\ TailOf(file) = j.prev
  BY <1>2, <1>4, <1>6 DEF AuditFits, LinesWith, TailOf
<1> QED BY <1>2, <1>3, <1>5, <1>6, <1>7, AuditMove

LEMMA AppendRestStep ==
  ASSUME Inv, NEW p \in Procs, AppendRest(p)
  PROVE  Inv' /\ AuditKept(p)
<1> DEFINE j == job[p].journal
           file == [disk.audit EXCEPT !.torn = None, !.lines = Append(@, j.tx)]
<1>1. /\ j \in hist.made /\ IsJournal(j) /\ disk.journal = j /\ Fits(j, disk)
      /\ j.audited /\ disk.audit.torn = j.tx /\ TailOf(disk.audit) = j.prev
  BY AtWork, JournalTypes DEF AppendRest, Writing, Applying, Progress, Inv, DiskFits
<1>2. disk.audit \in AuditFile /\ j.tx \in TxIds /\ disk.audit.lines \in Seq(TxIds)
  BY <1>1, DiskTypes, JournalTypes, TailIs DEF Inv, TypeOK
<1>3. TypeOK'
  BY <1>1, AuditStepTypes DEF Inv
<1>4. j.tx \notin ToSet(disk.audit.lines)
  <2>1. j.tx # None
    BY <1>2, StoreAssumption DEF TxIds
  <2> QED BY <1>1, <2>1 DEF Fits, AuditFits, LineIsThere
<1>5. /\ WriteAudit(file) /\ UNCHANGED <<lock, job, quietVars>>
      /\ pc[p] = "torn" /\ pc' = [pc EXCEPT ![p] = "apply"] /\ pc'[p] = "apply"
  BY DEF AppendRest, Goto, Inv, TypeOK
<1>6. file \in AuditFile /\ file.lines = Append(disk.audit.lines, j.tx) /\ file.torn = None
  <2>1. Append(disk.audit.lines, j.tx) \in Seq(TxIds)
    BY <1>2, AppendTells
  <2> QED BY <1>2, <2>1 DEF AuditFile
<1> HIDE DEF file
<1>7. /\ ToSet(file.lines) = ToSet(disk.audit.lines) \cup {j.tx}
      /\ TailOf(file) = j.tx
  BY <1>2, <1>6, AppendTells DEF TailOf
<1>8. TailOf(disk.audit) # j.tx
  BY <1>2, <1>4, TailIs
<1>9. LineIsThere(j, file) /\ AuditFits(j, file) /\ LinesWith(j, file) = LinesWith(j, disk.audit)
  BY <1>1, <1>6, <1>7, <1>8 DEF LineIsThere, AuditFits, LinesWith
<1> QED BY <1>3, <1>5, <1>6, <1>7, <1>9, AuditMove

----------------------------------------------------------------------------
\* The record files

LEMMA PassedNext ==
  ASSUME NEW p \in Procs, job[p].passed \in Nat
  PROVE  Passed(job[p].journal, job[p].passed + 1)
           = Passed(job[p].journal, job[p].passed) \cup WritesNow(p)
  BY DEF Passed, WritesNow

LEMMA PassedAll ==
  ASSUME NEW j, IsJournal(j)
  PROVE  Passed(j, 3) = DOMAIN j.after
<1>1. \A r \in Records : \E i \in 1..3 : KindOf[r] = ApplyOrder[i]
  BY StoreAssumption DEF Kinds, ToSet, ApplyOrder
<1> QED BY <1>1, JournalTypes DEF Passed

LEMMA KeepsNext ==
  ASSUME NEW s \in Seq(TxIds), NEW tx \in TxIds, NEW r \in Records, NEW made, NEW done,
         NEW read \in [Procs -> [Records -> Seq(TxIds)]],
         tx \in TxsOf(made), KeepsRecord(s, r, made, done, read)
  PROVE  KeepsRecord(Append(s, tx), r, made, done, read)
<1> DEFINE t == Append(s, tx)
<1>1. t \in Seq(TxIds) /\ ToSet(t) = ToSet(s) \cup {tx} /\ Behind(s, t)
  BY AppendTells
<1> HIDE DEF t
<1>2. \A p \in Procs : Behind(read[p][r], t)
  <2> TAKE p \in Procs
  <2>1. read[p][r] \in Seq(TxIds) /\ Behind(read[p][r], s)
    BY DEF KeepsRecord
  <2> QED BY <1>1, <2>1, BehindIsTransitive
<1>3. KeepsRecord(t, r, made, done, read)
  BY <1>1, <1>2 DEF KeepsRecord
<1> QED BY <1>3 DEF t

\* The process that applies its journal, with nobody else at work.
LEMMA AtFiles ==
  ASSUME Inv, NEW p \in Procs, pc[p] \in {"apply", "applied"}
  PROVE  /\ \A q \in Procs \ {p} : pc[q] = "idle" /\ job[q] = NoJob
         /\ lock = p /\ Holding(p) /\ disk.journal = job[p].journal
         /\ job[p].journal \in hist.made /\ IsJournal(job[p].journal)
         /\ job[p].passed \in 0..3 /\ LineIsThere(job[p].journal, disk.audit)
         /\ Fits(job[p].journal, disk)
         /\ pc[p] = "apply" => WrittenTo(job[p].journal, job[p].passed, disk)
         /\ pc[p] = "applied" => /\ job[p].passed < 3
                                 /\ WrittenTo(job[p].journal, job[p].passed + 1, disk)
         /\ "power" \in regime => Keeps(durable) /\ Tracks(p)
<1>1. /\ \A q \in Procs \ {p} : pc[q] = "idle" /\ job[q] = NoJob
      /\ lock = p /\ Holding(p) /\ Progress(p)
      /\ job[p].journal \in hist.made /\ IsJournal(job[p].journal)
      /\ "power" \in regime => Keeps(durable) /\ Tracks(p)
  BY AtWork DEF Writing, Applying
<1>2. disk.journal = job[p].journal /\ disk.journal # None
  BY <1>1, JournalTypes DEF Progress, Applying
<1>3. job[p].passed \in 0..3
  BY JobTypes DEF Inv, TypeOK
<1> QED BY <1>1, <1>2, <1>3 DEF Progress, Inv, DiskFits, ApplyOrder

LEMMA SkipFileStep ==
  ASSUME Inv, NEW p \in Procs, SkipFile(p)
  PROVE  Inv'
<1> DEFINE j == job[p].journal
           n == job[p].passed
<1>1. TypeOK'
  BY ControlTypes DEF Inv, SkipFile
<1>2. /\ pc[p] = "apply" /\ UNCHANGED <<diskVars, lock, pc, seen, regime, begun, faults, hist>>
      /\ WritesNow(p) = {} /\ job' = [job EXCEPT ![p].passed = @ + 1] /\ n < 3
  BY DEF SkipFile, NextFile, quietVars, ApplyOrder
<1>3. /\ \A q \in Procs \ {p} : pc'[q] = "idle" /\ job'[q] = NoJob
      /\ lock = p /\ disk.journal = j /\ j \in hist.made /\ n \in 0..3
      /\ LineIsThere(j, disk.audit) /\ WrittenTo(j, n, disk)
      /\ "power" \in regime => Keeps(durable) /\ Tracks(p)
  BY <1>2, AtFiles DEF Inv, TypeOK
<1>4. job'[p].journal = j /\ job'[p].passed = n + 1
  BY <1>2, JobTypes DEF Inv, TypeOK
<1>5. Passed(j, n + 1) = Passed(j, n)
  <2>1. job[p].passed \in Nat
    BY <1>3
  <2>2. Passed(j, n + 1) = Passed(j, n) \cup WritesNow(p)
    BY <2>1, PassedNext
  <2> QED BY <1>2, <2>2
<1> HIDE DEF j, n
<1>6. Holding(p)' /\ Progress(p)'
  BY <1>2, <1>3, <1>4, <1>5 DEF Holding, Progress, WrittenTo, Writing, Applying, diskVars
<1>7. "power" \in regime => Tracks(p)'
  BY <1>2, <1>3, <1>4, <1>5 DEF Tracks, WrittenTo, Applying, diskVars, j, n
<1> QED BY <1>1, <1>2, <1>3, <1>6, <1>7, QuietDisks, MadeStays, OneHolder DEF Inv, Calm

LEMMA WriteFileStep ==
  ASSUME Inv, NEW p \in Procs, WriteFile(p)
  PROVE  Inv' /\ RecordsKept(p)
<1> DEFINE j == job[p].journal
           n == job[p].passed
<1>1. pc[p] = "apply"
  BY DEF WriteFile
<1>2. /\ \A q \in Procs \ {p} : pc[q] = "idle" /\ job[q] = NoJob
      /\ lock = p /\ disk.journal = j /\ j \in hist.made /\ IsJournal(j) /\ n \in 0..3
      /\ LineIsThere(j, disk.audit) /\ WrittenTo(j, n, disk) /\ Fits(j, disk)
      /\ "power" \in regime => Keeps(durable) /\ Tracks(p)
  BY <1>1, AtFiles
<1>3. /\ disk.table \in [Records -> Seq(TxIds)] /\ seen \in [Procs -> [Records -> Seq(TxIds)]]
      /\ j.tx \in TxIds /\ DOMAIN j.after \subseteq Records
  BY <1>2, JournalTypes, DiskTypes DEF Inv, TypeOK, Record
<1>4. \A r \in WritesNow(p) : Landed(p, r) \/ Expected(p, r)
  <2> TAKE r \in WritesNow(p)
  <2>1. r \in Records /\ RecordFits(j, r, disk.table)
    BY <1>2, <1>3 DEF WritesNow, Fits
  <2>2. Len(Append(disk.table[r], j.tx)) = Len(disk.table[r]) + 1
    BY <1>3, <2>1, AppendProperties
  <2> QED BY <2>1, <2>2 DEF RecordFits, Landed, Expected
<1>5. ~RefuseRecovery(p)
  <2>1. pc' = [pc EXCEPT ![p] = "applied"]
    BY <1>4 DEF WriteFile, Goto
  <2>2. pc'[p] = "applied"
    BY <2>1 DEF Inv, TypeOK
  <2>3. ASSUME RefuseRecovery(p)
        PROVE  pc'[p] = "idle"
    BY <2>3 DEF RefuseRecovery, Leave, Goto, Inv, TypeOK
  <2> QED BY <2>2, <2>3
<1>6. /\ n < 3 /\ pc' = [pc EXCEPT ![p] = "applied"] /\ pc'[p] = "applied"
      /\ UNCHANGED <<durable, lock, job, seen, regime, begun, faults, hist>>
      /\ disk'.journal = disk.journal /\ disk'.audit = disk.audit
      /\ disk'.table = [r \in Records |-> IF r \in WritesNow(p) THEN j.after[r] ELSE disk.table[r]]
  BY <1>2, <1>5, WriteFileMoves DEF Inv, TypeOK, quietVars, ApplyOrder
<1>7. TypeOK'
  BY <1>2, WriteFileTypes DEF Inv
<1>8. WritesNow(p) \subseteq DOMAIN j.after /\ Passed(j, n + 1) = Passed(j, n) \cup WritesNow(p)
  <2>1. job[p].passed \in Nat
    BY <1>2
  <2>2. Passed(j, n + 1) = Passed(j, n) \cup WritesNow(p)
    BY <2>1, PassedNext
  <2> QED BY <2>2 DEF WritesNow
<1>9. \A r \in Records : \/ disk'.table[r] = disk.table[r]
                         \/ /\ r \in DOMAIN j.after /\ disk'.table[r] = j.after[r]
                            /\ disk'.table[r] = Append(disk.table[r], j.tx)
  BY <1>2, <1>6, <1>8 DEF Fits, RecordFits
<1> HIDE DEF j, n
<1>10. j.tx \in TxsOf(hist.made)
  BY <1>2 DEF TxsOf
<1>11. Keeps(disk)'
  <2> SUFFICES ASSUME NEW r \in Records
               PROVE  KeepsRecord(disk'.table[r], r, hist.made, hist.done, seen)
    BY <1>6 DEF Keeps, Inv
  <2>1. KeepsRecord(disk.table[r], r, hist.made, hist.done, seen) /\ disk.table[r] \in Seq(TxIds)
    BY <1>3 DEF Keeps, Inv
  <2>2. KeepsRecord(Append(disk.table[r], j.tx), r, hist.made, hist.done, seen)
    BY <1>3, <1>10, <2>1, KeepsNext
  <2> QED BY <1>9, <2>1, <2>2
<1>12. WrittenTo(j, n + 1, disk')
  BY <1>2, <1>3, <1>6, <1>8 DEF WrittenTo, Passed
<1>13. Fits(j, disk')
  <2>1. \A r \in DOMAIN j.after : RecordFits(j, r, disk'.table)
    BY <1>2, <1>3, <1>9 DEF Fits, RecordFits
  <2> QED BY <1>2, <1>6, <2>1 DEF Fits
<1>14. DiskFits' /\ RecoveryIsSafe' /\ ("power" \in regime => Keeps(durable)')
  BY <1>2, <1>6, <1>13, JournalTypes DEF DiskFits, Keeps, Inv, RecoveryIsSafe
<1>15. Holding(p)' /\ Progress(p)'
  BY <1>2, <1>6, <1>12 DEF Holding, Progress, LineIsThere, Writing, Applying, ApplyOrder, j, n
<1>16. ASSUME "power" \in regime
       PROVE  Tracks(p)'
  <2>1. \A r \in Records \ DOMAIN j.after : disk'.table[r] = disk.table[r]
    BY <1>6, <1>8
  <2> QED BY <1>1, <1>2, <1>6, <1>16, <2>1 DEF Tracks, Applying, j, n
<1>17. \A q \in Procs \ {p} : pc'[q] = "idle" /\ job'[q] = NoJob
  BY <1>2, <1>6, OthersIdle DEF Inv
<1>18. Inv'
  BY <1>6, <1>7, <1>11, <1>14, <1>15, <1>16, <1>17, MadeStays, OneHolder DEF Inv, Calm
<1>19. RecordsKept(p)
  BY <1>6, <1>8 DEF RecordsKept, Applying, j
<1> QED BY <1>18, <1>19

LEMMA SyncFileStep ==
  ASSUME Inv, NEW p \in Procs, SyncFile(p)
  PROVE  Inv'
<1> DEFINE j == job[p].journal
           n == job[p].passed
<1>1. /\ pc[p] = "applied" /\ pc' = [pc EXCEPT ![p] = "apply"] /\ pc'[p] = "apply"
      /\ UNCHANGED <<disk, lock, seen, regime, begun, faults, hist>> /\ durable' = disk
      /\ job' = [job EXCEPT ![p].passed = @ + 1]
  BY DEF SyncFile, SyncDir, NextFile, Goto, quietVars, Inv, TypeOK
<1>2. /\ \A q \in Procs \ {p} : pc'[q] = "idle" /\ job'[q] = NoJob
      /\ lock = p /\ disk.journal = j /\ j \in hist.made /\ n \in 0..3 /\ n < 3
      /\ LineIsThere(j, disk.audit) /\ WrittenTo(j, n + 1, disk) /\ Fits(j, disk)
  BY <1>1, AtFiles DEF Inv, TypeOK
<1>3. TypeOK'
  BY <1>2, ControlTypes DEF Inv, ApplyOrder
<1>4. job'[p].journal = j /\ job'[p].passed = n + 1
  BY <1>1, JobTypes DEF Inv, TypeOK
<1> HIDE DEF j, n
<1>5. DiskFits' /\ Keeps(disk)' /\ RecoveryIsSafe' /\ Keeps(durable)'
  BY <1>1 DEF Inv, DiskFits, Keeps, RecoveryIsSafe
<1>6. Holding(p)' /\ Progress(p)'
  BY <1>1, <1>2, <1>4 DEF Holding, Progress, Writing, Applying
<1>7. Tracks(p)'
  BY <1>1, <1>2, <1>4 DEF Tracks, WrittenTo, Applying
<1> QED BY <1>1, <1>2, <1>3, <1>5, <1>6, <1>7, MadeStays, OneHolder DEF Inv, Calm

LEMMA RemoveJournalStep ==
  ASSUME Inv, NEW p \in Procs, RemoveJournal(p)
  PROVE  Inv'
<1> DEFINE j == job[p].journal
<1>1. TypeOK'
  BY JournalStepTypes DEF Inv
<1>2. /\ pc[p] = "apply" /\ pc' = [pc EXCEPT ![p] = "removed"] /\ pc'[p] = "removed"
      /\ UNCHANGED <<durable, lock, job, seen, regime, begun, faults, hist>>
      /\ disk'.journal = None /\ disk'.audit = disk.audit /\ disk'.table = disk.table
      /\ job[p].passed = 3
  BY DEF RemoveJournal, Goto, quietVars, ApplyOrder, Inv, TypeOK, IsDisk
<1>3. /\ \A q \in Procs \ {p} : pc'[q] = "idle" /\ job'[q] = NoJob
      /\ lock = p /\ disk.journal = j /\ j \in hist.made /\ IsJournal(j)
      /\ LineIsThere(j, disk.audit) /\ WrittenTo(j, 3, disk)
      /\ "power" \in regime => Keeps(durable) /\ Tracks(p)
  BY <1>2, AtFiles DEF Inv, TypeOK
<1>4. Passed(j, 3) = DOMAIN j.after /\ DOMAIN j.after # {}
  BY <1>3, PassedAll DEF Inv, Made
<1> HIDE DEF j
<1>5. DiskFits' /\ Keeps(disk)' /\ RecoveryIsSafe' /\ ("power" \in regime => Keeps(durable)')
  BY <1>2, <1>3 DEF Inv, DiskFits, LineIsThere, Keeps, RecoveryIsSafe
<1>6. Holding(p)' /\ Progress(p)'
  BY <1>2, <1>3, <1>4 DEF Holding, Progress, LineIsThere, WrittenTo, Writing, Applying, j
<1>7. ASSUME "power" \in regime
      PROVE  Tracks(p)'
  <2>1. /\ durable.journal = j /\ durable.audit = disk.audit
        /\ \A r \in Records \ DOMAIN j.after : durable.table[r] = disk.table[r]
        /\ \A r \in DOMAIN j.after : durable.table[r] = j.after[r]
    BY <1>2, <1>3, <1>4, <1>7 DEF Tracks, Applying, WrittenTo, j
  <2>2. \A r \in Records : durable.table[r] = disk.table[r]
    BY <1>3, <1>4, <2>1 DEF WrittenTo
  <2>3. durable.table = disk.table
    BY <2>2, DiskTypes DEF Inv, TypeOK
  <2> QED BY <1>2, <2>1, <2>3 DEF Tracks, SameFiles, Applying, j
<1> QED BY <1>1, <1>2, <1>3, <1>5, <1>6, <1>7, MadeStays, OneHolder DEF Inv, Calm

LEMMA SyncRemovedStep ==
  ASSUME Inv, NEW p \in Procs, SyncRemoved(p)
  PROVE  Inv'
<1> DEFINE j == job[p].journal
<1>1. /\ pc[p] = "removed" /\ pc' = [pc EXCEPT ![p] = "choose"] /\ pc'[p] = "choose"
      /\ UNCHANGED <<disk, lock, regime, begun, faults>> /\ durable' = disk
      /\ job' = [job EXCEPT ![p] = NoJob] /\ job'[p] = NoJob
  BY DEF SyncRemoved, SyncDir, Goto, Inv, TypeOK
<1>2. /\ \A q \in Procs \ {p} : pc[q] = "idle" /\ job[q] = NoJob
      /\ lock = p /\ disk.journal = None /\ j \in hist.made /\ IsJournal(j)
      /\ LineIsThere(j, disk.audit) /\ \A r \in DOMAIN j.after : disk.table[r] = j.after[r]
  BY <1>1, AtWork DEF Progress, Writing
<1>3. TypeOK'
  BY <1>2, SyncRemovedTypes DEF Inv
<1>4. \A q \in Procs \ {p} : pc'[q] = "idle" /\ job'[q] = NoJob
  BY <1>1, <1>2, OthersIdle DEF Inv
<1>5. /\ hist'.made = hist.made /\ hist'.stuck = hist.stuck /\ hist'.refused = hist.refused
      /\ hist'.done \subseteq hist.done \cup {j.tx}
  <2>1. CASE job[p].own
    BY <2>1 DEF SyncRemoved, Inv, TypeOK
  <2>2. CASE ~job[p].own
    BY <2>2 DEF SyncRemoved
  <2> QED BY <2>1, <2>2
<1>6. \A q \in Procs, r \in Records :
        seen'[q][r] = seen[q][r] \/ (r \in DOMAIN j.after /\ seen'[q][r] = j.after[r])
  <2>1. seen' = seen \/ seen' = [seen EXCEPT ![p] = With(seen[p], j.after)]
    BY DEF SyncRemoved
  <2> QED BY <2>1 DEF With, Inv, TypeOK
<1>7. /\ j.tx \in TxIds /\ disk.audit \in AuditFile /\ disk.table \in [Records -> Seq(TxIds)]
      /\ \A k \in hist.made : k.tx = j.tx => k = j
      /\ \A r \in DOMAIN j.after : j.tx \in ToSet(j.after[r])
  BY <1>2, JournalTypes, DiskTypes DEF Inv, Made, TypeOK
<1> HIDE DEF j
<1>8. KeepsAudit(disk.audit, hist'.made, hist'.done)
  <2>1. j.audited => j.tx \in ToSet(disk.audit.lines)
    BY <1>2, <1>7, TailIs DEF LineIsThere
  <2> QED BY <1>5, <1>7, <2>1 DEF Inv, Keeps, KeepsAudit
<1>9. \A r \in Records : KeepsRecord(disk.table[r], r, hist'.made, hist'.done, seen')
  <2> TAKE r \in Records
  <2>1. KeepsRecord(disk.table[r], r, hist.made, hist.done, seen)
    BY DEF Inv, Keeps
  <2>2. \A k \in hist.made : k.tx \in hist'.done /\ r \in DOMAIN k.after => k.tx \in ToSet(disk.table[r])
    BY <1>2, <1>5, <1>7, <2>1 DEF KeepsRecord
  <2>3. \A q \in Procs : Behind(seen'[q][r], disk.table[r])
    BY <1>2, <1>6, <1>7, <2>1, BehindItself DEF KeepsRecord
  <2> QED BY <1>5, <2>1, <2>2, <2>3 DEF KeepsRecord
<1>10. Keeps(disk)' /\ Keeps(durable)' /\ RecoveryIsSafe'
  BY <1>1, <1>5, <1>8, <1>9 DEF Keeps, Inv, RecoveryIsSafe
<1>11. Made'
  BY <1>1, <1>2, <1>5 DEF Inv, Made
<1>12. DiskFits'
  BY <1>1, <1>2 DEF DiskFits, LineIsThere
<1>13. Holding(p)' /\ Progress(p)' /\ Tracks(p)'
  BY <1>1, <1>2 DEF Holding, Progress, Tracks, Writing, Applying
<1> QED BY <1>1, <1>3, <1>4, <1>10, <1>11, <1>12, <1>13, OneHolder DEF SameFiles

----------------------------------------------------------------------------
\* Power losses

LEMMA PowerLossStep ==
  ASSUME Inv, PowerLoss
  PROVE  Inv'
<1>1. /\ "power" \in regime /\ lock # Nobody /\ lock' = Nobody
      /\ pc' = [q \in Procs |-> "idle"] /\ job' = [q \in Procs |-> NoJob]
      /\ UNCHANGED <<seen, regime, begun, hist>>
  BY DEF PowerLoss
<1>2. PICK p \in Procs : lock = p
  BY <1>1 DEF Inv, TypeOK
<1> DEFINE j == job[p].journal
<1>3. /\ durable' = disk'
      /\ disk'.journal \in {disk.journal, durable.journal}
      /\ disk'.audit \in {disk.audit, durable.audit}
      /\ \A r \in Records : disk'.table[r] \in {disk.table[r], durable.table[r]}
  BY PowerLossMoves DEF Inv
<1>4. TypeOK' /\ Made' /\ RecoveryIsSafe'
  BY <1>1, PowerLossTypes, MadeStays DEF Inv, RecoveryIsSafe
<1>5. Keeps(disk) /\ Keeps(durable) /\ Tracks(p) /\ Progress(p) /\ Holding(p)
  BY <1>1, <1>2 DEF Inv, DurableTracks
<1>6. Keeps(disk)' /\ Keeps(durable)'
  BY <1>1, <1>3, <1>5 DEF Keeps
<1>7. DiskFits'
  <2>1. ASSUME disk.journal = durable.journal, SameFiles(durable, disk)
        PROVE  DiskFits'
    <3>1. disk.journal # None => DOMAIN disk.journal.after \subseteq Records
      BY JournalTypes DEF Inv, TypeOK, IsDisk
    <3>2. /\ disk'.journal = disk.journal /\ disk'.audit = disk.audit
          /\ \A r \in Records : disk'.table[r] = disk.table[r]
      BY <2>1, <1>3 DEF SameFiles
    <3> QED BY <1>1, <3>1, <3>2 DEF Inv, DiskFits, Fits, RecordFits
  <2>2. CASE pc[p] \in Calm
    <3>1. \A q \in Procs : pc[q] \in Calm
      BY <1>2, <2>2, Alone DEF Inv, Calm
    <3> QED BY <1>1, <2>1, <3>1 DEF Inv, DurableTracks
  <2>3. CASE pc[p] \in {"sync", "removed"}
    <3>1. j \in hist.made /\ IsJournal(j)
      BY <1>5, <2>3 DEF Holding, Writing, Inv, TypeOK
    <3>2. DOMAIN j.after \subseteq Records /\ j # None
      BY <3>1, JournalTypes
    <3>3. SameFiles(durable, disk) /\ disk'.journal \in {j, None} /\ disk.audit.torn = None
          /\ Fits(j, disk)
      <4>1. CASE pc[p] = "sync"
        BY <4>1, <1>3, <1>5, FreshFits DEF Progress, Tracks, Fresh
      <4>2. CASE pc[p] = "removed"
        BY <4>2, <1>3, <1>5 DEF Progress, Tracks, Fits, AuditFits, LineIsThere, RecordFits
      <4> QED BY <2>3, <4>1, <4>2
    <3>4. disk'.audit = disk.audit /\ \A r \in Records : disk'.table[r] = disk.table[r]
      BY <1>3, <3>3 DEF SameFiles
    <3> HIDE DEF j
    <3> QED BY <1>1, <3>1, <3>2, <3>3, <3>4 DEF DiskFits, Fits, RecordFits
  <2>4. CASE pc[p] \in Applying
    <3>1. j \in hist.made /\ IsJournal(j)
      BY <1>5, <2>4 DEF Holding, Writing, Inv, TypeOK
    <3>2. DOMAIN j.after \subseteq Records /\ j # None
      BY <3>1, JournalTypes
    <3>3. disk.journal = j /\ durable.journal = j /\ Fits(j, disk) /\ Fits(j, durable)
      BY <1>1, <1>5, <2>4, <3>2 DEF Progress, Tracks, Inv, DiskFits
    <3> HIDE DEF j
    <3>4. \A r \in DOMAIN j.after : RecordFits(j, r, disk'.table)
      BY <1>3, <3>2, <3>3 DEF Fits, RecordFits
    <3>5. AuditFits(j, disk'.audit)
      BY <1>3, <3>3 DEF Fits
    <3> QED BY <1>1, <1>3, <3>1, <3>2, <3>3, <3>4, <3>5 DEF DiskFits, Fits
  <2>5. pc[p] \in Calm \/ pc[p] \in {"sync", "removed"} \/ pc[p] \in Applying
    BY DEF Inv, TypeOK, Steps, Calm, Applying
  <2> QED BY <2>2, <2>3, <2>4, <2>5
<1>8. \A q \in Procs : Holding(q)' /\ Progress(q)' /\ Tracks(q)'
  BY <1>1 DEF Holding, Progress, Tracks, Writing, Applying
<1> QED BY <1>3, <1>4, <1>6, <1>7, <1>8 DEF Inv, DurableTracks, SameFiles

----------------------------------------------------------------------------
\* The invariant

LEMMA InvInit ==
  ASSUME Init
  PROVE  Inv
<1> USE DEF Init
<1>1. /\ <<>> \in Seq(TxIds) /\ ToSet(<<>>) = {} /\ Behind(<<>>, <<>>)
      /\ NoAudit \in AuditFile /\ NoAudit.torn = None /\ NoAudit.lines = <<>>
  <2>1. <<>> \in Seq(TxIds)
    BY EmptySeq
  <2>2. Behind(<<>>, <<>>)
    BY <2>1, BehindItself
  <2>3. NoAudit \in AuditFile /\ NoAudit.torn = None /\ NoAudit.lines = <<>>
    BY <2>1 DEF AuditFile, NoAudit
  <2> QED BY <2>1, <2>2, <2>3, ToSetOfEmpty
<1>2. IsDisk(EmptyDisk) /\ EmptyDisk.journal = None /\ EmptyDisk.audit = NoAudit
      /\ EmptyDisk.table = [r \in Records |-> <<>>]
  BY <1>1 DEF IsDisk, EmptyDisk, Record
<1>3. TypeOK
  BY <1>1, <1>2, NoJobType, StoreAssumption DEF TypeOK, Steps, Record
<1>4. Made /\ RecoveryIsSafe
  BY DEF Made, RecoveryIsSafe
<1>5. DiskFits /\ Keeps(disk) /\ Keeps(durable)
  BY <1>1, <1>2 DEF DiskFits, Keeps, KeepsAudit, KeepsRecord, TxsOf
<1>6. \A p \in Procs : Holding(p) /\ Progress(p) /\ Tracks(p)
  BY DEF Holding, Progress, Tracks, Writing, Applying
<1> QED BY <1>3, <1>4, <1>5, <1>6 DEF Inv, DurableTracks, SameFiles

LEMMA InvStep ==
  ASSUME OneKindOfFault, Inv, [Next]_vars
  PROVE  Inv'
<1>1. CASE UNCHANGED vars
  <2>1. UNCHANGED <<diskVars, lock, pc, job, seen, regime, begun, faults, hist>>
    BY <1>1 DEF vars, diskVars
  <2>2. TypeOK' /\ Made' /\ \A p \in Procs : Holding(p)' /\ Progress(p)'
    BY <2>1 DEF Inv, TypeOK, Made, Holding, Progress, Fresh, WrittenTo, Passed, LineIsThere,
                diskVars
  <2>3. DurableTracks'
    BY <2>1, QuietDisks DEF Inv, DurableTracks, Tracks, SameFiles, Fits, AuditFits, LineIsThere,
                RecordFits, LinesWith, WrittenTo, Passed, diskVars
  <2> QED BY <2>1, <2>2, <2>3, QuietDisks DEF Inv
<1>2. CASE PowerLoss
  BY <1>2, PowerLossStep
<1>3. ASSUME NEW p \in Procs, AcquireLock(p) \/ Advance(p) \/ Choose(p) \/ Kill(p)
      PROVE  Inv'
  <2>1. CASE AcquireLock(p) \/ Kill(p) \/ Ready(p) \/ Unlock(p)
    BY <2>1, AcquireLockStep, KillStep, ReadyStep, UnlockStep
  <2>2. CASE RenameJournal(p) \/ SyncJournal(p) \/ RemoveJournal(p) \/ SyncRemoved(p)
    BY <2>2, RenameJournalStep, SyncJournalStep, RemoveJournalStep, SyncRemovedStep
  <2>3. CASE ReplayAudit(p)
    BY <2>3, TrimTornStep, SkipAuditStep, AppendHalfStep, AppendRestStep DEF ReplayAudit
  <2>4. CASE ApplyFiles(p)
    BY <2>4, SkipFileStep, WriteFileStep, SyncFileStep DEF ApplyFiles
  <2>5. CASE Choose(p)
    BY <2>5, LoadStep, CommitRefusedStep, WriteJournalStep DEF Choose
  <2> QED BY <1>3, <2>1, <2>2, <2>3, <2>4, <2>5 DEF Advance, Replay
<1> QED BY <1>1, <1>2, <1>3 DEF Next

LEMMA InvHolds ==
  ASSUME OneKindOfFault
  PROVE  Spec => []Inv
  BY InvInit, InvStep, PTL DEF Spec

\* Every variable keeps its type.
THEOREM StoreTypes ==
  ASSUME OneKindOfFault
  PROVE  Spec => []TypeOK
<1>1. Inv => TypeOK
  BY DEF Inv
<1> QED BY <1>1, InvHolds, PTL

\* learn_store.py (_ready, _replay): when a history has kills, or power losses, whoever
\* takes the lock next completes the journal it finds; it never raises RecoveryError.
THEOREM RecoveriesComplete ==
  ASSUME OneKindOfFault
  PROVE  Spec => []RecoveryIsSafe
<1>1. Inv => RecoveryIsSafe
  BY DEF Inv
<1> QED BY <1>1, InvHolds, PTL

\* learn_store.py (commit): a decision whose caller was told that it is recorded is in
\* every record it writes and, if it is audited, in the audit, for good; of one whose
\* caller was told that nothing was recorded nothing is ever found.
THEOREM CallersAreToldTheTruth ==
  ASSUME OneKindOfFault
  PROVE  Spec => []TheCallerIsToldTheTruth
<1>1. ASSUME Inv
      PROVE  TheCallerIsToldTheTruth
  <2>1. Keeps(disk) /\ TxsOf(hist.made) \cap hist.refused = {}
    BY <1>1 DEF Inv, Made, TxsOf
  <2>2. \A j \in hist.made : DOMAIN j.after \subseteq Records
    BY <1>1, JournalTypes DEF Inv, TypeOK
  <2>3. \A j \in hist.made : j.tx \in hist.done => Applied(j)
    BY <2>1, <2>2 DEF Applied, Keeps, KeepsAudit, KeepsRecord
  <2>4. /\ \A r \in Records : ToSet(disk.table[r]) \cap hist.refused = {}
        /\ ToSet(disk.audit.lines) \cap hist.refused = {}
    BY <2>1 DEF Keeps, KeepsAudit, KeepsRecord
  <2> QED BY <2>3, <2>4 DEF TheCallerIsToldTheTruth
<1> QED BY <1>1, InvHolds, PTL

----------------------------------------------------------------------------
\* The store implements the audit

\* The records and the audit as a reader finds them, with journal j completed.
TableWith(table, j) == IF j = None THEN table ELSE With(table, j.after)
AuditWith(audit, j) == IF j = None THEN audit.lines ELSE LinesWith(j, audit)

LEMMA CompletedIs ==
  ASSUME TypeOK
  PROVE  /\ Completed = TableWith(disk.table, Pending)
         /\ CompletedAudit = AuditWith(disk.audit, Pending)
<1>1. Last(<<0>> \o disk.audit.lines) = TailOf(disk.audit)
  BY TailIs, DiskTypes DEF TypeOK
<1> QED BY <1>1 DEF Completed, CompletedAudit, TableWith, AuditWith, LinesWith

LEMMA CompletedIsNext ==
  ASSUME TypeOK'
  PROVE  /\ Completed' = TableWith(disk'.table, Pending')
         /\ CompletedAudit' = AuditWith(disk'.audit, Pending')
<1>1. Last(<<0>> \o disk'.audit.lines) = TailOf(disk'.audit)
  BY TailIs, DiskTypes DEF TypeOK
<1> QED BY <1>1 DEF Completed, CompletedAudit, TableWith, AuditWith, LinesWith

LEMMA PendingIs ==
  ASSUME NEW p \in Procs, \A q \in Procs \ {p} : pc[q] = "idle" /\ pc'[q] = "idle"
  PROVE  /\ Pending = IF pc[p] = "sync" THEN None ELSE disk.journal
         /\ Pending' = IF pc'[p] = "sync" THEN None ELSE disk'.journal
  BY DEF Pending

\* A journal whose lines and records are there already adds nothing.
LEMMA WithWhatIsThere ==
  ASSUME NEW d, IsDisk(d), NEW j, IsJournal(j), LineIsThere(j, d.audit),
         \A r \in DOMAIN j.after : d.table[r] = j.after[r]
  PROVE  TableWith(d.table, j) = d.table /\ AuditWith(d.audit, j) = d.audit.lines
<1>1. d.table \in [Records -> Seq(TxIds)] /\ j # None
  BY JournalTypes, DiskTypes
<1> QED BY <1>1 DEF TableWith, AuditWith, With, LinesWith, LineIsThere

Same == Completed' = Completed /\ CompletedAudit' = CompletedAudit

\* The moment a decision is recorded: its journal is there to stay.
LEMMA JournalCommits ==
  ASSUME TypeOK, TypeOK', NEW j, IsJournal(j), Fresh(j, disk), DOMAIN j.after # {},
         Pending = None, Pending' = j, disk'.audit = disk.audit,
         \A r \in Records : disk'.table[r] = disk.table[r]
  PROVE  Store!StoreNext
<1>1. /\ j.tx \in TxIds /\ j.audited \in BOOLEAN /\ j # None /\ DOMAIN j.after \subseteq Records
      /\ disk.audit \in AuditFile /\ disk.table \in [Records -> Seq(TxIds)]
      /\ disk'.table \in [Records -> Seq(TxIds)]
  BY JournalTypes, DiskTypes DEF TypeOK
<1>2. TailOf(disk.audit) # j.tx
  BY <1>1, TailIs DEF Fresh
<1>3. /\ Completed = disk.table /\ CompletedAudit = disk.audit.lines
      /\ Completed' = With(disk'.table, j.after)
      /\ CompletedAudit' = LinesWith(j, disk.audit)
  BY <1>1, CompletedIs, CompletedIsNext DEF TableWith, AuditWith
<1>4. Completed' = [r \in Records |-> IF r \in DOMAIN j.after THEN Append(Completed[r], j.tx)
                                                             ELSE Completed[r]]
  BY <1>1, <1>3 DEF With, Fresh
<1>5. CompletedAudit' = IF j.audited THEN Append(CompletedAudit, j.tx) ELSE CompletedAudit
  BY <1>1, <1>2, <1>3 DEF LinesWith
<1>6. Store!IsNew(j.tx)
  BY <1>3 DEF Fresh, Store!IsNew, Store!Occurs, ToSet
<1>7. Store!Commit(j.tx, DOMAIN j.after, j.audited)
  BY <1>4, <1>5, <1>6 DEF Store!Commit
<1> QED BY <1>1, <1>7 DEF Store!StoreNext

\* Steps that leave the journal that counts, the audit and the records alone.
LEMMA SameDisk ==
  ASSUME TypeOK, TypeOK', Pending' = Pending, disk'.audit = disk.audit, disk'.table = disk.table
  PROVE  Same
  BY CompletedIs, CompletedIsNext DEF Same

LEMMA OthersStayIdle ==
  ASSUME Inv, NEW p \in Procs, AcquireLock(p) \/ Advance(p) \/ Choose(p) \/ Kill(p)
  PROVE  \A q \in Procs \ {p} : pc[q] = "idle" /\ pc'[q] = "idle"
<1>1. (\E step : pc' = [pc EXCEPT ![p] = step]) \/ UNCHANGED pc
  BY DEF AcquireLock, Advance, Choose, Kill, Ready, Unlock, RenameJournal, SyncJournal, Replay,
         ReplayAudit, TrimTorn, SkipAudit, AppendHalf, AppendRest, ApplyFiles, SkipFile, WriteFile,
         SyncFile, RemoveJournal, SyncRemoved, Load, CommitRefused, WriteJournal, RefuseRecovery,
         Leave, Goto
<1>2. \A q \in Procs \ {p} : pc[q] = "idle"
  <2>1. CASE AcquireLock(p)
    BY <2>1, FreeMeansIdle DEF AcquireLock, Inv
  <2>2. CASE Kill(p)
    BY <2>2, Alone DEF Kill, Inv
  <2>3. CASE Advance(p) \/ Choose(p)
    <3>1. pc[p] # "idle"
      BY <2>3
      DEF Advance, Choose, Ready, Unlock, RenameJournal, SyncJournal, Replay, ReplayAudit,
          TrimTorn, SkipAudit, AppendHalf, AppendRest, ApplyFiles, SkipFile, WriteFile, SyncFile,
          RemoveJournal, SyncRemoved, Load, CommitRefused, WriteJournal
    <3> QED BY <3>1, AtWork
  <2> QED BY <2>1, <2>2, <2>3
<1> QED BY <1>1, <1>2 DEF Inv, TypeOK

LEMMA StepRefines ==
  ASSUME OneKindOfFault, Inv, Inv', NEW p \in Procs,
         AcquireLock(p) \/ Advance(p) \/ Choose(p) \/ Kill(p)
  PROVE  Store!StoreNext \/ Same
<1> DEFINE j == job[p].journal
<1> USE DEF diskVars, quietVars
<1>1. /\ Pending = IF pc[p] = "sync" THEN None ELSE disk.journal
      /\ Pending' = IF pc'[p] = "sync" THEN None ELSE disk'.journal
      /\ TypeOK /\ TypeOK'
  BY OthersStayIdle, PendingIs DEF Inv
<1>2. CASE AcquireLock(p) \/ Ready(p) \/ Unlock(p) \/ Choose(p)
  <2>1. pc[p] # "sync" /\ pc'[p] # "sync"
    BY <1>2 DEF AcquireLock, Ready, Unlock, Choose, Load, CommitRefused, WriteJournal, Leave, Goto,
                Inv, TypeOK
  <2>2. disk'.journal = disk.journal /\ disk'.audit = disk.audit /\ disk'.table = disk.table
    BY <1>2 DEF AcquireLock, Ready, Unlock, Choose, Load, CommitRefused, WriteJournal, Inv, TypeOK,
                IsDisk
  <2> QED BY <1>1, <2>1, <2>2, SameDisk
<1>3. CASE RenameJournal(p)
  <2>1. pc[p] = "rename" /\ pc'[p] = "sync" /\ disk.journal = None
    BY <1>3, AtWork DEF RenameJournal, Goto, Progress, Inv, TypeOK
  <2>2. disk'.audit = disk.audit /\ disk'.table = disk.table
    BY <1>3 DEF RenameJournal, Inv, TypeOK, IsDisk
  <2> QED BY <1>1, <2>1, <2>2, SameDisk
<1>4. CASE pc[p] = "sync" /\ (SyncJournal(p) \/ Kill(p))
  <2>1. pc'[p] # "sync" /\ disk' = disk
    BY <1>4 DEF SyncJournal, SyncDir, Kill, Leave, Goto, Inv, TypeOK
  <2>2. /\ disk.journal = j /\ Fresh(j, disk) /\ j \in hist.made /\ IsJournal(j)
    BY <1>4, AtWork DEF Progress, Writing
  <2>3. DOMAIN j.after # {}
    BY <2>2 DEF Inv, Made
  <2> HIDE DEF j
  <2> QED BY <1>1, <1>4, <2>1, <2>2, <2>3, JournalCommits
<1>5. CASE Kill(p) /\ pc[p] # "sync"
  <2>1. pc'[p] # "sync" /\ disk' = disk
    BY <1>5 DEF Kill, Leave, Goto, Inv, TypeOK
  <2> QED BY <1>1, <1>5, <2>1, SameDisk
<1>6. CASE ReplayAudit(p)
  <2>1. /\ pc[p] \in {"audit", "torn"} /\ disk.journal = j /\ IsJournal(j) /\ j # None
    BY <1>6, AtWork, JournalTypes
    DEF ReplayAudit, TrimTorn, SkipAudit, AppendHalf, AppendRest, Progress, Writing, Applying
  <2>2. CASE SkipAudit(p)
    <3>1. pc'[p] # "sync" /\ disk' = disk
      BY <2>2 DEF SkipAudit, Goto, Inv, TypeOK
    <3> QED BY <1>1, <2>1, <3>1, SameDisk
  <2>3. CASE AuditKept(p)
    <3>1. pc'[p] # "sync"
      BY <2>3 DEF AuditKept, Applying
    <3>2. Pending = j /\ Pending' = j
      BY <1>1, <2>1, <2>3, <3>1 DEF AuditKept
    <3>3. LinesWith(j, disk'.audit) = LinesWith(j, disk.audit) /\ disk'.table = disk.table
      BY <2>3 DEF AuditKept
    <3> HIDE DEF j
    <3> QED BY <1>1, <2>1, <3>2, <3>3, CompletedIs, CompletedIsNext DEF Same, TableWith, AuditWith
  <2> QED BY <1>6, <2>2, <2>3, TrimTornStep, AppendHalfStep, AppendRestStep DEF ReplayAudit
<1>7. CASE SkipFile(p) \/ SyncFile(p)
  <2>1. pc[p] # "sync" /\ pc'[p] # "sync" /\ disk' = disk
    BY <1>7 DEF SkipFile, SyncFile, SyncDir, Goto, Inv, TypeOK
  <2> QED BY <1>1, <2>1, SameDisk
<1>8. CASE WriteFile(p)
  <2>1. pc[p] = "apply" /\ disk.journal = j /\ IsJournal(j) /\ j # None
    <3>1. pc[p] = "apply"
      BY <1>8 DEF WriteFile
    <3> QED BY <3>1, AtFiles, JournalTypes
  <2>2. RecordsKept(p) /\ pc'[p] # "sync"
    BY <1>8, WriteFileStep DEF RecordsKept, Applying
  <2>3. Pending = j /\ Pending' = j
    BY <1>1, <2>1, <2>2 DEF RecordsKept
  <2>4. With(disk'.table, j.after) = With(disk.table, j.after)
    BY <2>2 DEF With, RecordsKept
  <2> HIDE DEF j
  <2> QED BY <1>1, <2>1, <2>2, <2>3, <2>4, CompletedIs, CompletedIsNext
          DEF Same, RecordsKept, TableWith, AuditWith
<1>9. CASE RemoveJournal(p)
  <2>1. /\ pc[p] = "apply" /\ pc'[p] = "removed" /\ job[p].passed = 3
        /\ disk'.journal = None /\ disk'.audit = disk.audit /\ disk'.table = disk.table
    BY <1>9 DEF RemoveJournal, Goto, ApplyOrder, Inv, TypeOK, IsDisk
  <2>2. /\ disk.journal = j /\ IsJournal(j) /\ LineIsThere(j, disk.audit)
        /\ \A r \in DOMAIN j.after : disk.table[r] = j.after[r]
    BY <2>1, AtFiles, PassedAll DEF WrittenTo
  <2> HIDE DEF j
  <2>3. TableWith(disk.table, j) = disk.table /\ AuditWith(disk.audit, j) = disk.audit.lines
    BY <1>1, <2>2, WithWhatIsThere DEF TypeOK
  <2>4. Pending = j /\ Pending' = None
    BY <1>1, <2>1, <2>2
  <2> QED BY <1>1, <2>1, <2>3, <2>4, CompletedIs, CompletedIsNext DEF Same, TableWith, AuditWith
<1>10. CASE SyncRemoved(p)
  <2>1. pc[p] # "sync" /\ pc'[p] # "sync" /\ disk' = disk
    BY <1>10 DEF SyncRemoved, SyncDir, Goto, Inv, TypeOK
  <2> QED BY <1>1, <2>1, SameDisk
<1>11. SyncJournal(p) => pc[p] = "sync"
  BY DEF SyncJournal
<1> QED BY <1>2, <1>3, <1>4, <1>5, <1>6, <1>7, <1>8, <1>9, <1>10, <1>11 DEF Advance, Replay, ApplyFiles

LEMMA PowerLossRefines ==
  ASSUME Inv, Inv', PowerLoss
  PROVE  Store!StoreNext \/ Same
<1>1. /\ "power" \in regime /\ lock # Nobody
      /\ pc' = [q \in Procs |-> "idle"]
  BY DEF PowerLoss
<1>2. PICK p \in Procs : lock = p
  BY <1>1 DEF Inv, TypeOK
<1> DEFINE j == job[p].journal
<1>3. /\ disk'.journal \in {disk.journal, durable.journal}
      /\ disk'.audit \in {disk.audit, durable.audit}
      /\ \A r \in Records : disk'.table[r] \in {disk.table[r], durable.table[r]}
      /\ disk.table \in [Records -> Seq(TxIds)] /\ disk'.table \in [Records -> Seq(TxIds)]
  BY PowerLossMoves, DiskTypes DEF Inv, TypeOK
<1>4. /\ Tracks(p) /\ Progress(p) /\ Holding(p)
      /\ \A q \in Procs \ {p} : pc[q] = "idle" /\ pc'[q] = "idle"
      /\ pc'[p] = "idle" /\ TypeOK /\ TypeOK'
  BY <1>1, <1>2, Alone DEF Inv, DurableTracks
<1>5. Pending' = disk'.journal /\ Pending = IF pc[p] = "sync" THEN None ELSE disk.journal
  BY <1>4, PendingIs
<1>6. SameFiles(durable, disk) => disk'.audit = disk.audit /\ disk'.table = disk.table
  BY <1>3 DEF SameFiles
<1>7. CASE pc[p] \in Calm
  <2>1. durable.journal = disk.journal /\ SameFiles(durable, disk)
    BY <1>1, <1>4, <1>7 DEF Inv, DurableTracks, Calm
  <2> QED BY <1>3, <1>4, <1>5, <1>6, <1>7, <2>1, SameDisk DEF Calm
<1>8. CASE pc[p] = "sync"
  <2>1. /\ disk.journal = j /\ Fresh(j, disk) /\ j \in hist.made /\ IsJournal(j)
        /\ SameFiles(durable, disk) /\ durable.journal = None
    BY <1>4, <1>8 DEF Progress, Tracks, Holding, Writing, Inv, TypeOK
  <2>2. DOMAIN j.after # {}
    BY <2>1 DEF Inv, Made
  <2> HIDE DEF j
  <2>3. Pending = None /\ Pending' \in {j, None}
    BY <1>3, <1>5, <1>8, <2>1
  <2> QED BY <1>4, <1>6, <2>1, <2>2, <2>3, JournalCommits, SameDisk
<1>9. CASE pc[p] \in Applying
  <2>1. j \in hist.made /\ IsJournal(j)
    BY <1>4, <1>9 DEF Holding, Writing, Inv, TypeOK
  <2>2. /\ disk.journal = j /\ durable.journal = j /\ j # None /\ DOMAIN j.after \subseteq Records
        /\ LinesWith(j, durable.audit) = LinesWith(j, disk.audit)
        /\ \A r \in Records \ DOMAIN j.after : durable.table[r] = disk.table[r]
    BY <1>4, <1>9, <2>1, JournalTypes DEF Progress, Tracks
  <2> HIDE DEF j
  <2>3. Pending = j /\ Pending' = j
    BY <1>3, <1>5, <1>9, <2>2 DEF Applying
  <2>4. With(disk'.table, j.after) = With(disk.table, j.after)
    BY <1>3, <2>2 DEF With
  <2>5. LinesWith(j, disk'.audit) = LinesWith(j, disk.audit)
    BY <1>3, <2>2
  <2> QED BY <1>4, <2>2, <2>3, <2>4, <2>5, CompletedIs, CompletedIsNext DEF Same, TableWith, AuditWith
<1>10. CASE pc[p] = "removed"
  <2>1. j \in hist.made /\ IsJournal(j)
    BY <1>4, <1>10 DEF Holding, Writing, Inv, TypeOK
  <2>2. /\ disk.journal = None /\ durable.journal = j /\ SameFiles(durable, disk)
        /\ LineIsThere(j, disk.audit) /\ \A r \in DOMAIN j.after : disk.table[r] = j.after[r]
    BY <1>4, <1>10 DEF Progress, Tracks
  <2> HIDE DEF j
  <2>3. TableWith(disk.table, j) = disk.table /\ AuditWith(disk.audit, j) = disk.audit.lines
    BY <1>4, <2>1, <2>2, WithWhatIsThere DEF TypeOK
  <2>4. Pending = None /\ Pending' \in {j, None}
    BY <1>3, <1>5, <1>10, <2>2
  <2> QED BY <1>4, <1>6, <2>2, <2>3, <2>4, CompletedIs, CompletedIsNext DEF Same, TableWith, AuditWith
<1>11. pc[p] \in Calm \/ pc[p] = "sync" \/ pc[p] \in Applying \/ pc[p] = "removed"
  BY DEF Inv, TypeOK, Steps, Calm, Applying
<1> QED BY <1>7, <1>8, <1>9, <1>10, <1>11

LEMMA NextRefines ==
  ASSUME OneKindOfFault, Inv, Inv', [Next]_vars
  PROVE  [Store!StoreNext]_(Store!storeVars)
<1>1. ASSUME Store!StoreNext \/ Same
      PROVE  [Store!StoreNext]_(Store!storeVars)
  BY <1>1 DEF Same, Store!storeVars
<1>2. CASE UNCHANGED vars
  <2>1. Pending' = Pending /\ disk' = disk
    BY <1>2 DEF vars, Pending
  <2> QED BY <1>1, <2>1, SameDisk DEF Inv
<1>3. CASE Next
  BY <1>1, <1>3, StepRefines, PowerLossRefines DEF Next
<1> QED BY <1>2, <1>3

\* learn_store.py: the whole of commit, _replay and _ready implements DecisionAudit. A
\* decision is recorded once and whole at the moment its journal is there to stay, on the
\* records it was made on; whatever dies between two writes, what a reader finds with the
\* pending journal completed changes at no other moment.
THEOREM StoreImplementsAudit ==
  ASSUME OneKindOfFault
  PROVE  Spec => RefinesStore
<1>1. ASSUME Init
      PROVE  Store!StoreInit
  <2>1. TypeOK
    BY <1>1, InvInit DEF Inv
  <2>2. /\ Pending = None /\ disk.table = [r \in Records |-> <<>>] /\ disk.audit.lines = <<>>
    BY <1>1 DEF Init, Pending, EmptyDisk, NoAudit
  <2> QED BY <2>1, <2>2, CompletedIs DEF Store!StoreInit, TableWith, AuditWith
<1>2. Inv /\ Inv' /\ [Next]_vars => [Store!StoreNext]_(Store!storeVars)
  BY NextRefines
<1> QED BY <1>1, <1>2, InvHolds, PTL DEF Spec, RefinesStore, Store!StoreSpec
====
