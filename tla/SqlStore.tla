------------------------------ MODULE SqlStore ------------------------------
(***************************************************************************)
(* MssqlStore (learn_store.py), the store of `dx learn` on SQL Server: a Tx  *)
(* is one SQL transaction on the session of its process.  Every row it is to *)
(* write is read again under an update lock and its revision compared, the   *)
(* audit row is chained to the tail under a lock of its own, and the rows    *)
(* are written.  mutation_lock is a lock of the session; dx learn's commands *)
(* commit inside it, callers of commit alone (the tests) do not, and the     *)
(* class promises both of them the same.                                     *)
(*                                                                         *)
(* The server is modelled by what these statements use of it: row and key    *)
(* locks held to the end of a transaction, at most one victim of a deadlock, *)
(* writes that nobody sees before COMMIT, and a session that loses all of    *)
(* that with its connection.  A wait for the session's lock that times out   *)
(* ends the command before it began, and is the wait here.  record_pass, a   *)
(* snapshot that nothing reads back, is left out.                            *)
(***************************************************************************)
EXTENDS Naturals, SequencesExt

CONSTANTS
  Sessions,  \* processes, each with its connection
  Guarded,   \* those that commit inside mutation_lock
  Records,   \* the rows of the three tables
  Shapes,    \* what a command may commit
  Nobody,    \* a lock that is free
  MaxTx,     \* bound: transactions begun
  MaxFaults  \* bound: connections lost

\* A row's revision is the number of transactions that wrote it.
TxIds == 1..MaxTx
Row == Seq(TxIds)
None == 0     \* no transaction; as a previous hash, the genesis hash

\* The key range behind the audit table's last row, beside the rows.
AuditTail == "DecisionAudit"
Locks == Records \cup {AuditTail}

ASSUME SqlAssumption ==
  /\ Guarded \subseteq Sessions
  /\ Shapes \subseteq [writes : Seq(Records) \ {<<>>}, audited : BOOLEAN, skip : BOOLEAN]
  /\ Nobody \notin Sessions
  /\ AuditTail \notin Records
  /\ MaxTx \in Nat /\ MaxFaults \in Nat

Steps == {"idle", "open", "select", "write"}

\* An audit row, with the row before it.
Entry == [tx : TxIds, prev : TxIds \cup {None}]

\* A commit under way: `n` rows are selected, `accepted` those at the revision read.
NoShape == [writes |-> <<>>, audited |-> FALSE, skip |-> FALSE]
Job == [tx : TxIds \cup {None}, shape : Shapes \cup {NoShape}, n : Nat,
        accepted : SUBSET Records, prev : TxIds \cup {None}]
NoJob == [tx |-> None, shape |-> NoShape, n |-> 0, accepted |-> {}, prev |-> None]

VARIABLES
  table,   \* the rows, as committed
  audit,   \* DecisionAudit as committed: [tx, prev] in AuditId order
  applock, \* who holds the session lock dx_learn.mutation
  locked,  \* who holds each row's, and the tail's, update lock
  pc, job, \* each process's step and the commit it is in
  seen,    \* the rows each process read last
  begun, faults,
  told     \* for the properties: the commits reported as recorded, and the
           \* transactions reported as not recorded

vars == <<table, audit, applock, locked, pc, job, seen, begun, faults, told>>
storeVars == <<table, audit>>

Init ==
  /\ table = [r \in Records |-> <<>>]
  /\ audit = <<>>
  /\ applock = Nobody
  /\ locked = [k \in Locks |-> Nobody]
  /\ pc = [p \in Sessions |-> "idle"]
  /\ job = [p \in Sessions |-> NoJob]
  /\ seen = [p \in Sessions |-> table]
  /\ begun = 0 /\ faults = 0
  /\ told = [recorded |-> {}, nothing |-> {}]

----------------------------------------------------------------------------
\* Helpers

Goto(p, step) == pc' = [pc EXCEPT ![p] = step]

\* The end of p's transaction: the server drops its update locks.
EndTx(p) ==
  /\ locked' = [k \in Locks |-> IF locked[k] = p THEN Nobody ELSE locked[k]]
  /\ job' = [job EXCEPT ![p] = NoJob]

\* p's command is over: an open transaction is rolled back, mutation_lock released.
End(p) ==
  /\ EndTx(p)
  /\ applock' = IF applock = p THEN Nobody ELSE applock
  /\ Goto(p, "idle")

\* Every audit row names the row before it.
PrevOf(i) == IF i = 1 THEN None ELSE audit[i - 1].tx
Verifies == \A i \in DOMAIN audit : audit[i].prev = PrevOf(i)
TailTx == IF audit = <<>> THEN None ELSE Last(audit).tx

\* Mutant of AtRevision: a row that moved on since it was read is accepted.
AtRevisionOrLater(p, r) == Len(seen[p][r]) <= Len(table[r])

AtRevision(p, r) == Len(seen[p][r]) = Len(table[r])

----------------------------------------------------------------------------
\* A command begins, takes mutation_lock if it is one of those, and reads

Open(p) ==
  /\ pc[p] = "idle"
  /\ p \in Guarded => applock = Nobody
  /\ applock' = IF p \in Guarded THEN p ELSE applock
  /\ Goto(p, "open")
  /\ UNCHANGED <<storeVars, locked, job, seen, begun, faults, told>>

\* A scan of load_recs, load_adoptions or load_forwards reads one row after another.
ReadRow(p, r) ==
  /\ pc[p] = "open"
  /\ seen' = [seen EXCEPT ![p][r] = table[r]]
  /\ UNCHANGED <<storeVars, applock, locked, pc, job, begun, faults, told>>

Close(p) ==
  /\ pc[p] = "open"
  /\ End(p)
  /\ UNCHANGED <<storeVars, seen, begun, faults, told>>

----------------------------------------------------------------------------
\* commit

\* verify_audit, a transaction of its own, comes first.
BeginCommit(p, shape) ==
  /\ pc[p] = "open" /\ begun < MaxTx
  /\ Verifies
  /\ begun' = begun + 1
  /\ job' = [job EXCEPT ![p] = [NoJob EXCEPT !.tx = begun + 1, !.shape = shape]]
  /\ Goto(p, "select")
  /\ UNCHANGED <<storeVars, applock, locked, seen, faults, told>>

NextRow(p) == job[p].shape.writes[job[p].n + 1]
Selecting(p) == pc[p] = "select" /\ job[p].n < Len(job[p].shape.writes)
Selected(p) == pc[p] = "select" /\ job[p].n = Len(job[p].shape.writes)

\* SELECT Revision WITH (UPDLOCK, HOLDLOCK): waits for whoever holds the row.
SelectRow(p) ==
  /\ Selecting(p)
  /\ locked[NextRow(p)] \in {Nobody, p}
  /\ locked' = [locked EXCEPT ![NextRow(p)] = p]
  /\ job' = [job EXCEPT ![p].n = @ + 1,
                        ![p].accepted = IF AtRevision(p, NextRow(p)) THEN @ \cup {NextRow(p)}
                                                                     ELSE @]
  /\ UNCHANGED <<storeVars, applock, pc, seen, begun, faults, told>>

\* Mutant of Refused: what did not change is written, as in a pass.
RefusedIfAllMoved(p) == job[p].accepted = {}

Refused(p) == job[p].accepted # ToSet(job[p].shape.writes) /\ ~job[p].shape.skip

\* StaleDecision; or every write was skipped, and an empty transaction is committed.
NothingToWrite(p) ==
  /\ Selected(p)
  /\ Refused(p) \/ job[p].accepted = {}
  /\ told' = [told EXCEPT !.nothing = @ \cup {job[p].tx}]
  /\ End(p)
  /\ UNCHANGED <<storeVars, seen, begun, faults>>

\* Mutant of ReadTail: the tail is read without holding it.
ReadTailUnlocked(p) ==
  /\ Selected(p) /\ ~Refused(p) /\ job[p].accepted # {}
  /\ UNCHANGED locked
  /\ job' = [job EXCEPT ![p].prev = TailTx]
  /\ Goto(p, "write")
  /\ UNCHANGED <<storeVars, applock, seen, begun, faults, told>>

\* SELECT TOP (1) Hash WITH (UPDLOCK, HOLDLOCK), if the Tx is audited.
ReadTail(p) ==
  /\ Selected(p) /\ ~Refused(p) /\ job[p].accepted # {}
  /\ IF job[p].shape.audited
     THEN /\ locked[AuditTail] = Nobody
          /\ locked' = [locked EXCEPT ![AuditTail] = p]
          /\ job' = [job EXCEPT ![p].prev = TailTx]
     ELSE UNCHANGED <<locked, job>>
  /\ Goto(p, "write")
  /\ UNCHANGED <<storeVars, applock, seen, begun, faults, told>>

\* The audit row and the rows, WHERE Revision = the one read, seen by others at COMMIT.
\* The update locks keep that revision, so that @@ROWCOUNT is 1.
Apply(p) ==
  /\ \A r \in job[p].accepted : AtRevision(p, r)
  /\ table' = [r \in Records |-> IF r \in job[p].accepted THEN Append(seen[p][r], job[p].tx)
                                                          ELSE table[r]]
  /\ audit' = IF job[p].shape.audited
              THEN Append(audit, [tx |-> job[p].tx, prev |-> job[p].prev])
              ELSE audit

\* COMMIT, and its answer: the caller's records move to their new revisions.
Commit(p) ==
  /\ pc[p] = "write"
  /\ Apply(p)
  /\ seen' = [seen EXCEPT ![p] = [r \in Records |-> IF r \in job[p].accepted THEN table'[r]
                                                                              ELSE @[r]]]
  /\ told' = [told EXCEPT !.recorded = @ \cup {job[p]}]
  /\ EndTx(p)
  /\ Goto(p, "open")
  /\ UNCHANGED <<applock, begun, faults>>

----------------------------------------------------------------------------
\* Faults

\* Mutant of Disconnected: an error of the connection counts as a refusal.
DisconnectedAsRefused(p) ==
  /\ told' = [told EXCEPT !.nothing = (@ \cup {job[p].tx}) \ {None}]
  /\ End(p)

\* pyodbc's error passes through commit and _commit, which catch StoreError only:
\* the caller is told neither "recorded" nor "nothing was recorded".
Disconnected(p) == End(p) /\ UNCHANGED told

\* The connection is lost, or the process dies: the server rolls back.
LoseConnection(p) ==
  /\ pc[p] # "idle" /\ faults < MaxFaults
  /\ faults' = faults + 1
  /\ Disconnected(p)
  /\ UNCHANGED <<storeVars, seen, begun>>

\* It is lost after the server committed and before the answer.
LoseAnswer(p) ==
  /\ pc[p] = "write" /\ faults < MaxFaults
  /\ faults' = faults + 1
  /\ Apply(p)
  /\ Disconnected(p)
  /\ UNCHANGED <<seen, begun>>

WaitsFor(p, q) == Selecting(p) /\ locked[NextRow(p)] = q

\* Two transactions that lock the same rows in different orders, as two passes with
\* different evidence do: the server ends one of them.
Deadlocked(p) ==
  /\ \E q \in Sessions \ {p} : WaitsFor(p, q) /\ WaitsFor(q, p)
  /\ Disconnected(p)
  /\ UNCHANGED <<storeVars, seen, begun, faults>>

----------------------------------------------------------------------------

Session(p) ==
  \/ Open(p) \/ Close(p)
  \/ \E r \in Records : ReadRow(p, r)
  \/ \E shape \in Shapes : BeginCommit(p, shape)
  \/ SelectRow(p) \/ NothingToWrite(p) \/ ReadTail(p) \/ Commit(p)
  \/ LoseConnection(p) \/ LoseAnswer(p) \/ Deadlocked(p)

Next == \E p \in Sessions : Session(p)
Spec == Init /\ [][Next]_vars

----------------------------------------------------------------------------
\* Properties

TypeOK ==
  /\ table \in [Records -> Row]
  /\ audit \in Seq(Entry)
  /\ applock \in Sessions \cup {Nobody}
  /\ locked \in [Locks -> Sessions \cup {Nobody}]
  /\ pc \in [Sessions -> Steps]
  /\ job \in [Sessions -> Job]
  /\ seen \in [Sessions -> [Records -> Row]]
  /\ begun \in 0..MaxTx /\ faults \in 0..MaxFaults
  /\ told \in [recorded : SUBSET Job, nothing : SUBSET TxIds]

AuditedTxs == [i \in DOMAIN audit |-> audit[i].tx]

\* A Tx takes effect whole, once, and on the records it was made on, whether or not
\* its caller holds mutation_lock, through lost connections and deadlocks.
Store == INSTANCE DecisionAudit WITH audit <- AuditedTxs, records <- table
RefinesStore == Store!StoreSpec

Traces(tx) ==
  {r \in Records : tx \in ToSet(table[r])} \cup {AuditTail : row \in {a \in ToSet(audit) : a.tx = tx}}

\* A caller told "recorded" finds its writes in the rows, all of them but for those a
\* pass may skip, and if it is audited in a chain that verifies; one told "nothing
\* was recorded" never finds a trace.
TheCallerIsToldTheTruth ==
  /\ Verifies
  /\ \A j \in told.recorded :
       LET asked == ToSet(j.shape.writes)
       IN  /\ Traces(j.tx) \ asked = IF j.shape.audited THEN {AuditTail} ELSE {}
           /\ asked \subseteq Traces(j.tx) \/ j.shape.skip
  /\ \A tx \in told.nothing : Traces(tx) = {}

=============================================================================
