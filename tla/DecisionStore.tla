---------------------------- MODULE DecisionStore ----------------------------
(***************************************************************************)
(* JsonStore (learn_store.py): the recommendations, adoptions and forward    *)
(* records of `dx learn`, one file per kind, and the chained decision audit. *)
(* A transaction is a durable journal first; the audit line and the record   *)
(* files follow, and the journal goes last.  Whoever takes the store's lock  *)
(* completes a pending journal before anything else.                         *)
(*                                                                         *)
(* A file system keeps two views of the directory: what processes see, and  *)
(* what survives a power loss.  A rename, a new file or an unlink joins the  *)
(* second at the next fsync of the directory; data written to a file that is *)
(* there already joins it at its own fsync.                                 *)
(***************************************************************************)
EXTENDS Naturals, FiniteSets, SequencesExt

CONSTANTS Procs,      \* the dx learn processes
          Records,    \* the records, of all kinds
          KindOf,     \* each record's kind
          Shapes,     \* the transactions dx learn makes
          Regimes,    \* the combinations of faults a history may have
          Nobody,     \* the lock is free
          None,       \* no such file, no journal
          MaxTx,      \* bound: transactions begun
          MaxFaults   \* bound: processes killed and power losses

ApplyOrder == <<"adoption", "forward", "rec">>
Kinds == ToSet(ApplyOrder)
AllFaults == {"kill", "power"}

\* What a caller asks for: the records it writes, whether it is audited, and
\* whether writes in conflict are dropped (a pass) or refuse the whole.
Shape == [writes : (SUBSET Records) \ {{}}, audited : BOOLEAN, skip : BOOLEAN]

ASSUME StoreAssumption ==
  /\ KindOf \in [Records -> Kinds]
  /\ Shapes \subseteq Shape
  /\ Regimes \subseteq SUBSET AllFaults
  /\ Nobody \notin Procs
  /\ None \notin Nat
  /\ MaxTx \in Nat /\ MaxFaults \in Nat

----------------------------------------------------------------------------
\* Data

TxIds == 1..MaxTx

\* A record is the sequence of the transactions that wrote it; its revision is
\* its length.
Record == Seq(TxIds)

\* An audit line is chained to the line before it, so the transaction that made
\* it stands for its hash; 0 is the genesis hash.
AuditFile == [exists : BOOLEAN, lines : Seq(TxIds), torn : TxIds \cup {None}]
NoAudit == [exists |-> FALSE, lines |-> <<>>, torn |-> None]

\* journal.json: `after` is the record each write leaves.
JournalOf(writes) == [tx : TxIds, audited : BOOLEAN, prev : TxIds \cup {0},
                      after : [writes -> Record]]
IsJournal(j) == \E writes \in SUBSET Records : j \in JournalOf(writes)

ASSUME JournalAssumption == \A writes \in SUBSET Records : None \notin JournalOf(writes)

\* The files of the store's directory.
IsDisk(d) ==
  /\ DOMAIN d = {"journal", "tmp", "audit", "table"}
  /\ d.journal = None \/ IsJournal(d.journal)
  /\ d.tmp = None \/ IsJournal(d.tmp)
  /\ d.audit \in AuditFile
  /\ d.table \in [Records -> Record]
EmptyDisk == [journal |-> None, tmp |-> None, audit |-> NoAudit,
              table |-> [r \in Records |-> <<>>]]

\* What a process carries: the journal it is applying, whether it is its own
\* transaction's, and how many record files it has been through.
IsJob(j) ==
  /\ DOMAIN j = {"journal", "own", "passed"}
  /\ j.journal = None \/ IsJournal(j.journal)
  /\ j.own \in BOOLEAN /\ j.passed \in 0..Len(ApplyOrder)
NoJob == [journal |-> None, own |-> FALSE, passed |-> 0]

\* A table with a journal's records.
With(table, after) ==
  [r \in Records |-> IF r \in DOMAIN after THEN after[r] ELSE table[r]]

Steps == {"idle", "ready", "choose", "rename", "sync", "audit", "torn", "apply",
          "applied", "removed"}

VARIABLES
  disk,     \* the files as processes see them
  durable,  \* the files as a power loss leaves them
  lock,     \* who holds the flock on .lock
  pc, job,  \* each process's step and local variables
  seen,     \* the records each process, or the human behind it, read last
  regime,   \* the faults of this history
  begun,    \* transactions begun
  faults,   \* processes killed and power losses so far
  hist      \* what happened, for the properties: journals written, callers
            \* told "done", told "nothing was recorded", recoveries refused

vars == <<disk, durable, lock, pc, job, seen, regime, begun, faults, hist>>
diskVars == <<disk, durable>>
quietVars == <<seen, regime, begun, faults, hist>>

Init ==
  /\ disk = EmptyDisk /\ durable = EmptyDisk
  /\ lock = Nobody
  /\ pc = [p \in Procs |-> "idle"]
  /\ job = [p \in Procs |-> NoJob]
  /\ seen = [p \in Procs |-> EmptyDisk.table]
  /\ regime \in Regimes
  /\ begun = 0 /\ faults = 0
  /\ hist = [made |-> {}, done |-> {}, refused |-> {}, stuck |-> FALSE]

Goto(p, step) == pc' = [pc EXCEPT ![p] = step]

\* Leaving mutation_lock.
Leave(p) ==
  /\ lock' = Nobody
  /\ Goto(p, "idle")
  /\ job' = [job EXCEPT ![p] = NoJob]

\* _fsync_dir
SyncDir == durable' = disk /\ UNCHANGED disk

\* RecoveryError: this operation, and every later one, is refused.
RefuseRecovery(p) ==
  /\ Leave(p)
  /\ hist' = [hist EXCEPT !.stuck = TRUE]
  /\ UNCHANGED <<diskVars, seen, regime, begun, faults>>

----------------------------------------------------------------------------
\* mutation_lock and _ready

AcquireLock(p) ==
  /\ pc[p] = "idle" /\ lock = Nobody
  /\ lock' = p
  /\ Goto(p, "ready")
  /\ UNCHANGED <<diskVars, job, quietVars>>

\* Mutant of Ready: a pending journal is left for `recover`.
ReadyWithoutReplay(p) ==
  /\ pc[p] = "ready"
  /\ disk' = [disk EXCEPT !.tmp = None]
  /\ Goto(p, "choose")
  /\ UNCHANGED <<durable, lock, job, quietVars>>

\* A journal that was never renamed into place is dropped; one that was is
\* replayed before anything else.
Ready(p) ==
  /\ pc[p] = "ready"
  /\ disk' = [disk EXCEPT !.tmp = None]
  /\ IF disk.journal = None
     THEN Goto(p, "choose") /\ UNCHANGED job
     ELSE /\ job' = [job EXCEPT ![p].journal = disk.journal]
          /\ Goto(p, "audit")
  /\ UNCHANGED <<durable, lock, quietVars>>

\* load_recs, load_adoptions and load_forwards, each under the lock on its own.
Load(p, kind) ==
  /\ pc[p] = "choose"
  /\ seen' = [seen EXCEPT ![p] =
                [r \in Records |-> IF KindOf[r] = kind THEN disk.table[r] ELSE @[r]]]
  /\ UNCHANGED <<diskVars, lock, pc, job, regime, begun, faults, hist>>

\* Nothing more to do under the lock (also `recover` and `verify_audit`).
Unlock(p) ==
  /\ pc[p] = "choose"
  /\ Leave(p)
  /\ UNCHANGED <<diskVars, quietVars>>

----------------------------------------------------------------------------
\* commit: the check of revisions and the journal

\* The writes whose record is still at the revision the caller read.
AtRevision(p, shape) ==
  {r \in shape.writes : Len(seen[p][r]) = Len(disk.table[r])}

\* _audit_tail
AuditTail == IF disk.audit.lines = <<>> THEN 0 ELSE Last(disk.audit.lines)

NewJournal(p, tx, shape) ==
  [tx |-> tx, audited |-> shape.audited, prev |-> AuditTail,
   after |-> [r \in AtRevision(p, shape) |-> Append(seen[p][r], tx)]]

\* StaleDecision or no write left, or an audit chain that does not verify:
\* nothing was recorded.
CommitRefused(p, shape) ==
  /\ pc[p] = "choose" /\ begun < MaxTx
  /\ \/ AtRevision(p, shape) # shape.writes /\ ~shape.skip
     \/ AtRevision(p, shape) = {}
     \/ disk.audit.torn # None
  /\ begun' = begun + 1
  /\ hist' = [hist EXCEPT !.refused = @ \cup {begun + 1}]
  /\ Leave(p)
  /\ UNCHANGED <<diskVars, seen, regime, faults>>

\* journal.json's temporary file is written and fsynced.
WriteJournal(p, shape) ==
  LET journal == NewJournal(p, begun + 1, shape)
  IN  /\ pc[p] = "choose" /\ begun < MaxTx
      /\ disk.audit.torn = None
      /\ AtRevision(p, shape) # {}
      /\ AtRevision(p, shape) = shape.writes \/ shape.skip
      /\ begun' = begun + 1
      /\ disk' = [disk EXCEPT !.tmp = journal]
      /\ job' = [job EXCEPT ![p] = [journal |-> journal, own |-> TRUE, passed |-> 0]]
      /\ hist' = [hist EXCEPT !.made = @ \cup {journal}]
      /\ Goto(p, "rename")
      /\ UNCHANGED <<durable, lock, seen, regime, faults>>

RenameJournal(p) ==
  /\ pc[p] = "rename"
  /\ disk' = [disk EXCEPT !.journal = disk.tmp, !.tmp = None]
  /\ Goto(p, "sync")
  /\ UNCHANGED <<durable, lock, job, quietVars>>

\* Mutant of SyncJournal: the directory is not fsynced after the rename.
NoSyncJournal(p) ==
  /\ pc[p] = "sync"
  /\ Goto(p, "audit")
  /\ UNCHANGED <<diskVars, lock, job, quietVars>>

SyncJournal(p) ==
  /\ pc[p] = "sync"
  /\ SyncDir
  /\ Goto(p, "audit")
  /\ UNCHANGED <<lock, job, quietVars>>

----------------------------------------------------------------------------
\* _replay: the audit line, the record files in ApplyOrder, then the journal goes

\* An append or a truncation, and its fsync.
WriteAudit(file) ==
  /\ disk' = [disk EXCEPT !.audit = file]
  /\ durable' = IF durable.audit.exists THEN [durable EXCEPT !.audit = file] ELSE durable

TrimTorn(p) ==
  /\ pc[p] = "audit"
  /\ job[p].journal.audited
  /\ disk.audit.torn = job[p].journal.tx
  /\ WriteAudit([disk.audit EXCEPT !.torn = None])
  /\ UNCHANGED <<lock, pc, job, quietVars>>

\* Mutant of SkipAudit: the tail is compared with the line the journal's follows.
SkipAuditAtPrevious(p) ==
  /\ pc[p] = "audit"
  /\ \/ ~job[p].journal.audited
     \/ disk.audit.torn = None /\ AuditTail = job[p].journal.prev
  /\ Goto(p, "apply")
  /\ UNCHANGED <<diskVars, lock, job, quietVars>>

\* The line is there already, or there is none to write.
SkipAudit(p) ==
  /\ pc[p] = "audit"
  /\ \/ ~job[p].journal.audited
     \/ disk.audit.torn = None /\ AuditTail = job[p].journal.tx
  /\ Goto(p, "apply")
  /\ UNCHANGED <<diskVars, lock, job, quietVars>>

\* Half of the line; but a chain that moved past the journal's refuses recovery.
AppendHalf(p) ==
  LET journal == job[p].journal
  IN  /\ pc[p] = "audit"
      /\ journal.audited
      /\ disk.audit.torn # journal.tx
      /\ ~(disk.audit.torn = None /\ AuditTail = journal.tx)
      /\ IF disk.audit.torn = None /\ AuditTail = journal.prev
         THEN /\ WriteAudit([disk.audit EXCEPT !.exists = TRUE, !.torn = journal.tx])
              /\ Goto(p, "torn")
              /\ UNCHANGED <<lock, job, quietVars>>
         ELSE RefuseRecovery(p)

AppendRest(p) ==
  /\ pc[p] = "torn"
  /\ WriteAudit([disk.audit EXCEPT !.torn = None, !.lines = Append(@, job[p].journal.tx)])
  /\ Goto(p, "apply")
  /\ UNCHANGED <<lock, job, quietVars>>

ReplayAudit(p) == TrimTorn(p) \/ SkipAudit(p) \/ AppendHalf(p) \/ AppendRest(p)

\* The journal's writes to the file whose turn it is.
WritesNow(p) ==
  {r \in DOMAIN job[p].journal.after : KindOf[r] = ApplyOrder[job[p].passed + 1]}

\* Mutant of Landed: a write that landed already is not recognised.
LandedNever(p, r) == FALSE

\* The record is at the journal's revision or the one before it.
Landed(p, r) == disk.table[r] = job[p].journal.after[r]
Expected(p, r) == Len(disk.table[r]) + 1 = Len(job[p].journal.after[r])

NextFile(p) == job' = [job EXCEPT ![p].passed = @ + 1]

SkipFile(p) ==
  /\ pc[p] = "apply" /\ job[p].passed < Len(ApplyOrder)
  /\ WritesNow(p) = {}
  /\ NextFile(p)
  /\ UNCHANGED <<diskVars, lock, pc, quietVars>>

\* A record that moved since the journal was written refuses recovery.
WriteFile(p) ==
  /\ pc[p] = "apply" /\ job[p].passed < Len(ApplyOrder)
  /\ WritesNow(p) # {}
  /\ IF \A r \in WritesNow(p) : Landed(p, r) \/ Expected(p, r)
     THEN /\ disk' = [disk EXCEPT !.table =
                        [r \in Records |-> IF r \in WritesNow(p) THEN job[p].journal.after[r]
                                                                 ELSE @[r]]]
          /\ Goto(p, "applied")
          /\ UNCHANGED <<durable, lock, job, quietVars>>
     ELSE RefuseRecovery(p)

SyncFile(p) ==
  /\ pc[p] = "applied"
  /\ SyncDir
  /\ NextFile(p)
  /\ Goto(p, "apply")
  /\ UNCHANGED <<lock, quietVars>>

ApplyFiles(p) == SkipFile(p) \/ WriteFile(p) \/ SyncFile(p)

RemoveJournal(p) ==
  /\ pc[p] = "apply" /\ job[p].passed = Len(ApplyOrder)
  /\ disk' = [disk EXCEPT !.journal = None]
  /\ Goto(p, "removed")
  /\ UNCHANGED <<durable, lock, job, quietVars>>

\* The journal's removal is durable.  A process that committed tells its caller,
\* whose records move to the new revision; one that recovered goes on.
SyncRemoved(p) ==
  LET journal == job[p].journal
  IN  /\ pc[p] = "removed"
      /\ SyncDir
      /\ IF job[p].own
         THEN /\ hist' = [hist EXCEPT !.done = @ \cup {journal.tx}]
              /\ seen' = [seen EXCEPT ![p] = With(@, journal.after)]
         ELSE UNCHANGED <<hist, seen>>
      /\ Goto(p, "choose")
      /\ job' = [job EXCEPT ![p] = NoJob]
      /\ UNCHANGED <<lock, regime, begun, faults>>

----------------------------------------------------------------------------
\* Faults

\* A process dies, and the kernel drops its lock.
Kill(p) ==
  /\ "kill" \in regime /\ faults < MaxFaults
  /\ lock = p
  /\ Leave(p)
  /\ faults' = faults + 1
  /\ UNCHANGED <<diskVars, seen, regime, begun, hist>>

\* The machine goes down.  Each directory entry that was not synced may or may
\* not have reached the disk.
PowerLoss ==
  /\ "power" \in regime /\ faults < MaxFaults
  /\ lock # Nobody
  /\ \E keptKinds \in SUBSET Kinds :
       disk' \in [journal : {disk.journal, durable.journal},
                  tmp     : {disk.tmp, durable.tmp},
                  audit   : {disk.audit, durable.audit},
                  table   : {[r \in Records |-> IF KindOf[r] \in keptKinds
                                                THEN disk.table[r] ELSE durable.table[r]]}]
  /\ durable' = disk'
  /\ lock' = Nobody
  /\ pc' = [p \in Procs |-> "idle"]
  /\ job' = [p \in Procs |-> NoJob]
  /\ faults' = faults + 1
  /\ UNCHANGED <<seen, regime, begun, hist>>

----------------------------------------------------------------------------

\* A process that holds the lock goes on by itself until it has applied a journal.
Replay(p) == ReplayAudit(p) \/ ApplyFiles(p) \/ RemoveJournal(p) \/ SyncRemoved(p)
Advance(p) == Ready(p) \/ Unlock(p) \/ RenameJournal(p) \/ SyncJournal(p) \/ Replay(p)

Choose(p) ==
  \/ \E kind \in Kinds : Load(p, kind)
  \/ \E shape \in Shapes : CommitRefused(p, shape) \/ WriteJournal(p, shape)

Next ==
  \/ \E p \in Procs : AcquireLock(p) \/ Advance(p) \/ Choose(p) \/ Kill(p)
  \/ PowerLoss

Spec == Init /\ [][Next]_vars

\* A process that runs is not stopped half-way for ever, and some process opens
\* the store again after a crash.
Fairness ==
  /\ \A p \in Procs : WF_vars(Advance(p))
  /\ WF_vars(\E p \in Procs : AcquireLock(p))
FairSpec == Spec /\ Fairness

----------------------------------------------------------------------------
\* Properties

TypeOK ==
  /\ IsDisk(disk) /\ IsDisk(durable)
  /\ lock \in Procs \cup {Nobody}
  /\ pc \in [Procs -> Steps]
  /\ DOMAIN job = Procs /\ \A p \in Procs : IsJob(job[p])
  /\ seen \in [Procs -> [Records -> Record]]
  /\ regime \in Regimes
  /\ begun \in 0..MaxTx /\ faults \in 0..MaxFaults
  /\ DOMAIN hist = {"made", "done", "refused", "stuck"} /\ \A j \in hist.made : IsJournal(j)
  /\ hist.done \subseteq TxIds /\ hist.refused \subseteq TxIds /\ hist.stuck \in BOOLEAN

\* The journal that counts: one whose rename is still to be synced by the process
\* that made it does not.
Pending ==
  IF \E p \in Procs : pc[p] = "sync" THEN None ELSE disk.journal

\* The store as a reader finds it, with the pending journal completed.
Completed ==
  IF Pending = None THEN disk.table ELSE With(disk.table, Pending.after)
CompletedAudit ==
  IF Pending = None \/ Last(<<0>> \o disk.audit.lines) = Pending.tx \/ ~Pending.audited
  THEN disk.audit.lines ELSE Append(disk.audit.lines, Pending.tx)

\* A decision is recorded exactly once and whole, on the records it was made on,
\* whatever dies between two writes.
Store == INSTANCE DecisionAudit WITH records <- Completed, audit <- CompletedAudit
RefinesStore == Store!StoreSpec

\* A recovery never finds the audit chain or a record moved: a crash alone never
\* leaves a store that refuses every operation.
RecoveryIsSafe == ~hist.stuck

Applied(j) ==
  /\ j.audited => j.tx \in ToSet(disk.audit.lines)
  /\ \A r \in DOMAIN j.after : j.tx \in ToSet(disk.table[r])

\* A caller told "recorded" finds its decision in the store for good, and one told
\* "nothing was recorded" never does.
TheCallerIsToldTheTruth ==
  /\ \A j \in hist.made : j.tx \in hist.done => Applied(j)
  /\ \A r \in Records : ToSet(disk.table[r]) \cap hist.refused = {}
  /\ ToSet(disk.audit.lines) \cap hist.refused = {}

\* A pending journal is completed by whoever opens the store next.
JournalIsCompleted == disk.journal # None ~> disk.journal = None

=============================================================================
