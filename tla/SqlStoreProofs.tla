--------------------------- MODULE SqlStoreProofs ---------------------------
(***************************************************************************)
(* Proofs about SqlStore: its transactions implement those of DecisionAudit, *)
(* and what callers are told is true, for all sessions, rows, shapes and     *)
(* bounds, whether or not a session commits inside mutation_lock.            *)
(***************************************************************************)
EXTENDS SqlStore, TLAPS

Committing == {"select", "write"}

\* Facts about what an Append does, used wherever a row or the audit grows.
LEMMA AppendGrows ==
  ASSUME NEW S, NEW s \in Seq(S), NEW e \in S
  PROVE  /\ Append(s, e) \in Seq(S)
         /\ Len(Append(s, e)) = Len(s) + 1
         /\ DOMAIN Append(s, e) = 1..(Len(s) + 1) /\ DOMAIN s = 1..Len(s)
         /\ \A i \in 1..Len(s) : Append(s, e)[i] = s[i]
         /\ Append(s, e)[Len(s) + 1] = e
  OBVIOUS

----------------------------------------------------------------------------
\* Types

LEMMA NoJobIsAJob == NoJob \in Job
  BY DEF NoJob, Job, NoShape

\* A job stays a job when a field is replaced.
LEMMA JobFields ==
  ASSUME NEW j \in Job, NEW n \in Nat, NEW rows \in SUBSET Records,
         NEW prev \in TxIds \cup {None}
  PROVE  /\ [j EXCEPT !.n = n] \in Job
         /\ [j EXCEPT !.accepted = rows] \in Job
         /\ [j EXCEPT !.prev = prev] \in Job
  BY DEF Job

LEMMA EndTxTypes ==
  ASSUME TypeOK, NEW p \in Sessions, EndTx(p)
  PROVE  /\ locked' \in [Locks -> Sessions \cup {Nobody}]
         /\ job' \in [Sessions -> Job]
  BY NoJobIsAJob DEF EndTx, TypeOK

LEMMA EndTypes ==
  ASSUME TypeOK, NEW p \in Sessions, End(p)
  PROVE  /\ locked' \in [Locks -> Sessions \cup {Nobody}]
         /\ job' \in [Sessions -> Job]
         /\ applock' \in Sessions \cup {Nobody}
         /\ pc' \in [Sessions -> Steps]
  BY EndTxTypes DEF End, Goto, TypeOK, Steps

\* A job at the step "write" has an identity.
Staged ==
  \A p \in Sessions : pc[p] \in Committing <=> job[p].tx # None

LEMMA ApplyTypes ==
  ASSUME TypeOK, Staged, NEW p \in Sessions, pc[p] = "write", Apply(p)
  PROVE  /\ table' \in [Records -> Row]
         /\ audit' \in Seq(Entry)
  <1>1. job[p].tx \in TxIds /\ job[p].prev \in TxIds \cup {None}
    BY DEF TypeOK, Staged, Committing, Job
  <1>2. \A r \in Records : seen[p][r] \in Seq(TxIds) /\ table[r] \in Seq(TxIds)
    BY DEF TypeOK, Row
  <1>3. \A r \in Records : Append(seen[p][r], job[p].tx) \in Seq(TxIds)
    BY <1>1, <1>2, AppendGrows
  <1>4. table' \in [Records -> Row]
    BY <1>2, <1>3 DEF Apply, Row
  <1>5. [tx |-> job[p].tx, prev |-> job[p].prev] \in Entry
    BY <1>1 DEF Entry
  <1>6. audit \in Seq(Entry)
    BY DEF TypeOK
  <1>7. Append(audit, [tx |-> job[p].tx, prev |-> job[p].prev])
          \in Seq(Entry)
    BY <1>5, <1>6, AppendGrows
  <1> QED
    BY <1>4, <1>6, <1>7 DEF Apply

\* What the tail names is an audited transaction.
LEMMA TailType ==
  ASSUME TypeOK
  PROVE  TailTx \in TxIds \cup {None}
  <1>1. audit \in Seq(Entry)
    BY DEF TypeOK
  <1>2. CASE audit = <<>>
    BY <1>2 DEF TailTx
  <1>3. CASE audit # <<>>
    <2>1. Len(audit) \in 1..Len(audit)
      BY <1>1, <1>3
    <2>2. Last(audit) \in Entry
      BY <1>1, <2>1 DEF Last
    <2> QED
      BY <1>3, <2>2 DEF TailTx, Entry
  <1> QED
    BY <1>2, <1>3

\* A commit is asked to write rows.
LEMMA AskedAreRows ==
  ASSUME NEW j \in Job
  PROVE  j.shape.writes \in Seq(Records) /\ ToSet(j.shape.writes) \subseteq Records
  <1>1. j.shape \in Shapes \cup {NoShape}
    BY DEF Job
  <1>2. j.shape.writes \in Seq(Records)
    <2>1. <<>> \in Seq(Records)
      OBVIOUS
    <2>2. CASE j.shape = NoShape
      <3>1. j.shape.writes = <<>>
        BY <2>2 DEF NoShape
      <3> QED
        BY <2>1, <3>1
    <2>3. CASE j.shape \in Shapes
      <3>1. j.shape \in [writes : Seq(Records) \ {<<>>}, audited : BOOLEAN, skip : BOOLEAN]
        BY <2>3, SqlAssumption
      <3> QED
        BY <3>1
    <2> QED
      BY <1>1, <2>2, <2>3
  <1>3. \A i \in DOMAIN j.shape.writes : j.shape.writes[i] \in Records
    BY <1>2
  <1> QED
    BY <1>2, <1>3 DEF ToSet

LEMMA NextRowIsARow ==
  ASSUME TypeOK, NEW p \in Sessions, Selecting(p)
  PROVE  NextRow(p) \in Records /\ NextRow(p) \in ToSet(job[p].shape.writes)
  <1>1. job[p] \in Job /\ job[p].n \in Nat
    BY DEF TypeOK, Job
  <1>2. job[p].shape.writes \in Seq(Records)
    BY <1>1, AskedAreRows
  <1>3. job[p].n + 1 \in DOMAIN job[p].shape.writes
    BY <1>1, <1>2 DEF Selecting
  <1> QED
    BY <1>2, <1>3 DEF NextRow, ToSet

LEMMA TypesPreserved ==
  ASSUME TypeOK, Staged, [Next]_vars
  PROVE  TypeOK'
  <1>0. CASE UNCHANGED vars
    BY <1>0 DEF vars, TypeOK
  <1> SUFFICES ASSUME NEW p \in Sessions, Session(p) PROVE TypeOK'
    BY <1>0 DEF Next
  <1>1. CASE Open(p)
    BY <1>1 DEF Open, Goto, storeVars, TypeOK, Steps
  <1>2. ASSUME NEW r \in Records, ReadRow(p, r) PROVE TypeOK'
    <2>1. seen' \in [Sessions -> [Records -> Row]]
      BY <1>2 DEF ReadRow, TypeOK
    <2> QED
      BY <1>2, <2>1 DEF ReadRow, storeVars, TypeOK
  <1>3. CASE Close(p)
    BY <1>3, EndTypes DEF Close, storeVars, TypeOK
  <1>4. ASSUME NEW shape \in Shapes, BeginCommit(p, shape) PROVE TypeOK'
    <2>1. begun' \in 0..MaxTx /\ begun + 1 \in TxIds
      BY <1>4, SqlAssumption DEF BeginCommit, TypeOK, TxIds
    <2>2. [NoJob EXCEPT !.tx = begun + 1, !.shape = shape] \in Job
      BY <2>1 DEF NoJob, Job
    <2>3. job' \in [Sessions -> Job]
      BY <1>4, <2>2 DEF BeginCommit, TypeOK
    <2> QED
      BY <1>4, <2>1, <2>3 DEF BeginCommit, Goto, storeVars, TypeOK, Steps
  <1>5. CASE SelectRow(p)
    <2>1. job[p].n + 1 \in Nat
      BY DEF TypeOK, Job
    <2>3. NextRow(p) \in Records
      BY <1>5, NextRowIsARow DEF SelectRow
    <2>4. job' \in [Sessions -> Job]
      <3> DEFINE counted == [job EXCEPT ![p].n = @ + 1]
                 rows == IF AtRevision(p, NextRow(p)) THEN job[p].accepted \cup {NextRow(p)}
                                                      ELSE job[p].accepted
      <3>1. job \in [Sessions -> Job] /\ job[p] \in Job
        BY DEF TypeOK
      <3>2. rows \in SUBSET Records
        BY <2>3, <3>1 DEF Job
      <3>3. [job[p] EXCEPT !.n = job[p].n + 1] \in Job
        BY <2>1, <3>1, JobFields
      <3>4. counted \in [Sessions -> Job] /\ counted[p] \in Job
        BY <3>1, <3>3
      <3>5. counted[p].accepted = job[p].accepted
        BY <3>1 DEF Job
      <3>6. job' = [counted EXCEPT ![p] = [counted[p] EXCEPT !.accepted = rows]]
        BY <1>5, <3>5 DEF SelectRow
      <3>7. [counted[p] EXCEPT !.accepted = rows] \in Job
        BY <3>2, <3>4, JobFields
      <3> HIDE DEF counted
      <3> QED
        BY <3>4, <3>6, <3>7
    <2>5. locked' \in [Locks -> Sessions \cup {Nobody}]
      BY <1>5 DEF SelectRow, TypeOK
    <2> QED
      BY <1>5, <2>4, <2>5 DEF SelectRow, storeVars, TypeOK
  <1>6. CASE NothingToWrite(p)
    <2>1. job[p].tx \in TxIds
      BY <1>6 DEF NothingToWrite, Selected, Staged, Committing, TypeOK, Job
    <2>2. told' \in [recorded : SUBSET Job, nothing : SUBSET TxIds]
      BY <1>6, <2>1 DEF NothingToWrite, TypeOK
    <2> QED
      BY <1>6, <2>2, EndTypes DEF NothingToWrite, storeVars, TypeOK
  <1>7. CASE ReadTail(p)
    <2>1. job' \in [Sessions -> Job]
      <3>1. [job EXCEPT ![p].prev = TailTx] \in [Sessions -> Job]
        <4>1. job \in [Sessions -> Job] /\ job[p] \in Job
          BY DEF TypeOK
        <4>2. [job[p] EXCEPT !.prev = TailTx] \in Job
          BY <4>1, TailType, JobFields
        <4> QED
          BY <4>1, <4>2
      <3> QED
        BY <1>7, <3>1 DEF ReadTail, TypeOK
    <2>2. locked' \in [Locks -> Sessions \cup {Nobody}]
      BY <1>7 DEF ReadTail, TypeOK
    <2> QED
      BY <1>7, <2>1, <2>2 DEF ReadTail, Goto, storeVars, TypeOK, Steps
  <1>8. CASE Commit(p)
    <2>1. /\ table' \in [Records -> Row]
          /\ audit' \in Seq(Entry)
      BY <1>8, ApplyTypes DEF Commit
    <2>2. seen' \in [Sessions -> [Records -> Row]]
      BY <1>8, <2>1 DEF Commit, TypeOK
    <2>3. told' \in [recorded : SUBSET Job, nothing : SUBSET TxIds]
      BY <1>8 DEF Commit, TypeOK
    <2> QED
      BY <1>8, <2>1, <2>2, <2>3, EndTxTypes DEF Commit, Goto, TypeOK, Steps
  <1>9. CASE LoseConnection(p)
    BY <1>9, EndTypes, SqlAssumption
       DEF LoseConnection, Disconnected, storeVars, TypeOK
  <1>10. CASE LoseAnswer(p)
    <2>1. /\ table' \in [Records -> Row]
          /\ audit' \in Seq(Entry)
      BY <1>10, ApplyTypes DEF LoseAnswer
    <2> QED
      BY <1>10, <2>1, EndTypes, SqlAssumption DEF LoseAnswer, Disconnected, TypeOK
  <1>11. CASE Deadlocked(p)
    BY <1>11, EndTypes DEF Deadlocked, Disconnected, storeVars, TypeOK
  <1> QED
    BY <1>1, <1>2, <1>3, <1>4, <1>5, <1>6, <1>7, <1>8, <1>9, <1>10, <1>11 DEF Session

----------------------------------------------------------------------------
\* What a step does to the store: most leave it alone, a commit may take effect.
\* Every step is one session's: it leaves the others where they are.

TracedIn(tx, r) == \E i \in DOMAIN table[r] : table[r][i] = tx
TracedInAudit(tx) == \E i \in DOMAIN audit : audit[i].tx = tx
NoTrace(tx) == ~TracedInAudit(tx) /\ \A r \in Records : ~TracedIn(tx, r)

OthersStay(p) ==
  \A q \in Sessions \ {p} : job'[q] = job[q] /\ pc'[q] = pc[q] /\ seen'[q] = seen[q]

\* A transaction gets its identity.
Begins(p) ==
  /\ begun' = begun + 1 /\ begun < MaxTx
  /\ job'[p].tx = begun + 1 /\ job'[p].accepted = {}
  /\ pc'[p] = "select"
  /\ UNCHANGED <<table, audit, seen, told, locked>>

\* It takes effect, reported or not.
TakesEffect(p) ==
  /\ pc[p] = "write" /\ Apply(p)
  /\ job'[p] = NoJob /\ pc'[p] \in {"idle", "open"}
  /\ begun' = begun
  /\ \/ seen' = seen /\ told' = told
     \/ /\ seen'[p] = [r \in Records |-> IF r \in job[p].accepted THEN table'[r] ELSE seen[p][r]]
        /\ told' = [told EXCEPT !.recorded = @ \cup {job[p]}]

\* It goes on, or ends without effect.
GoesOn(p) ==
  /\ UNCHANGED <<table, audit, begun>>
  /\ \/ job'[p] = NoJob /\ pc'[p] \notin Committing
     \/ job'[p].tx = job[p].tx /\ (pc'[p] \in Committing <=> pc[p] \in Committing)
  /\ \/ seen'[p] = seen[p]
     \/ \E r \in Records : seen'[p] = [seen[p] EXCEPT ![r] = table[r]]
  /\ told' # told => /\ pc[p] = "select" /\ job'[p] = NoJob
                     /\ told' = [told EXCEPT !.nothing = @ \cup {job[p].tx}]

LEMMA EndsJob ==
  ASSUME TypeOK, NEW p \in Sessions, EndTx(p)
  PROVE  job'[p] = NoJob /\ \A q \in Sessions \ {p} : job'[q] = job[q]
  BY DEF EndTx, TypeOK

LEMMA EndsCommand ==
  ASSUME TypeOK, NEW p \in Sessions, End(p)
  PROVE  /\ job'[p] = NoJob /\ pc'[p] = "idle"
         /\ \A q \in Sessions \ {p} : job'[q] = job[q] /\ pc'[q] = pc[q]
  BY EndsJob DEF End, Goto, TypeOK

LEMMA Moves ==
  ASSUME TypeOK, NEW p \in Sessions, NEW step, Goto(p, step)
  PROVE  pc'[p] = step /\ \A q \in Sessions \ {p} : pc'[q] = pc[q]
  BY DEF Goto, TypeOK

LEMMA StepOfASession ==
  ASSUME TypeOK, Staged, NEW p \in Sessions, Session(p)
  PROVE  OthersStay(p) /\ (Begins(p) \/ TakesEffect(p) \/ GoesOn(p))
  <1> USE DEF Committing, storeVars
  <1>0. job \in [Sessions -> Job] /\ seen \in [Sessions -> [Records -> Row]]
    BY DEF TypeOK
  <1>1. CASE Open(p)
    BY <1>1, Moves DEF Open, OthersStay, GoesOn
  <1>2. ASSUME NEW r \in Records, ReadRow(p, r) PROVE OthersStay(p) /\ GoesOn(p)
    <2>1. seen'[p] = [seen[p] EXCEPT ![r] = table[r]]
      BY <1>0, <1>2 DEF ReadRow
    <2>2. \A q \in Sessions \ {p} : seen'[q] = seen[q]
      BY <1>0, <1>2 DEF ReadRow
    <2> QED
      BY <1>2, <2>1, <2>2 DEF ReadRow, OthersStay, GoesOn
  <1>3. CASE Close(p)
    BY <1>3, EndsCommand DEF Close, OthersStay, GoesOn
  <1>4. ASSUME NEW shape \in Shapes, BeginCommit(p, shape) PROVE OthersStay(p) /\ Begins(p)
    <2>1. job'[p] = [NoJob EXCEPT !.tx = begun + 1, !.shape = shape]
      BY <1>0, <1>4 DEF BeginCommit
    <2>2. \A q \in Sessions \ {p} : job'[q] = job[q]
      BY <1>0, <1>4 DEF BeginCommit
    <2>3. job'[p].tx = begun + 1 /\ job'[p].accepted = {}
      BY <2>1 DEF NoJob
    <2> QED
      BY <1>4, <2>2, <2>3, Moves DEF BeginCommit, OthersStay, Begins
  <1>5. CASE SelectRow(p)
    <2>1. job'[p].tx = job[p].tx /\ \A q \in Sessions \ {p} : job'[q] = job[q]
      BY <1>0, <1>5 DEF SelectRow, Job
    <2> QED
      BY <1>5, <2>1 DEF SelectRow, OthersStay, GoesOn
  <1>6. CASE NothingToWrite(p)
    BY <1>6, EndsCommand DEF NothingToWrite, Selected, OthersStay, GoesOn
  <1>7. CASE ReadTail(p)
    <2>1. job'[p].tx = job[p].tx /\ \A q \in Sessions \ {p} : job'[q] = job[q]
      BY <1>0, <1>7 DEF ReadTail, Job
    <2> QED
      BY <1>7, <2>1, Moves DEF ReadTail, Selected, OthersStay, GoesOn
  <1>8. CASE Commit(p)
    <2>1. /\ seen'[p] = [r \in Records |-> IF r \in job[p].accepted THEN table'[r]
                                                                   ELSE seen[p][r]]
          /\ \A q \in Sessions \ {p} : seen'[q] = seen[q]
      BY <1>0, <1>8 DEF Commit
    <2> QED
      BY <1>8, <2>1, EndsJob, Moves DEF Commit, OthersStay, TakesEffect
  <1>9. CASE LoseConnection(p)
    BY <1>9, EndsCommand DEF LoseConnection, Disconnected, OthersStay, GoesOn
  <1>10. CASE LoseAnswer(p)
    BY <1>10, EndsCommand DEF LoseAnswer, Disconnected, OthersStay, TakesEffect
  <1>11. CASE Deadlocked(p)
    BY <1>11, EndsCommand DEF Deadlocked, Disconnected, OthersStay, GoesOn
  <1> QED
    BY <1>1, <1>2, <1>3, <1>4, <1>5, <1>6, <1>7, <1>8, <1>9, <1>10, <1>11 DEF Session

----------------------------------------------------------------------------
\* The inductive invariant of the refinement: identities are used once, what a session
\* read of a row is that row or an earlier revision of it, and what is about to be
\* written is not nothing.

Unmarked == {tx \in TxIds : NoTrace(tx)}

IdsAreFresh ==
  /\ \A tx \in TxIds : begun < tx => tx \in Unmarked
  /\ \A p \in Sessions : /\ job[p].tx <= begun
                         /\ job[p].tx # None => job[p].tx \in Unmarked
  /\ \A p, q \in Sessions : p # q /\ job[p].tx = job[q].tx => job[p].tx = None

SeenIsPast ==
  \A p \in Sessions, r \in Records :
    seen[p][r] = table[r] \/ Len(seen[p][r]) < Len(table[r])

SomethingToWrite == \A p \in Sessions : pc[p] = "write" => job[p].accepted # {}

IInv == TypeOK /\ Staged /\ IdsAreFresh /\ SeenIsPast /\ SomethingToWrite

\* A commit extends the rows as they are, by its identity.
LEMMA RowsExtended ==
  ASSUME IInv, NEW p \in Sessions, pc[p] = "write", Apply(p)
  PROVE  /\ job[p].tx \in TxIds /\ job[p].accepted \subseteq Records
         /\ job[p].accepted # {}
         /\ table' = [r \in Records |-> IF r \in job[p].accepted
                                        THEN Append(table[r], job[p].tx) ELSE table[r]]
         /\ audit' = IF job[p].shape.audited
                     THEN Append(audit, [tx |-> job[p].tx, prev |-> job[p].prev]) ELSE audit
  <1>1. job[p].tx \in TxIds /\ job[p].accepted \subseteq Records
    BY DEF IInv, TypeOK, Staged, Committing, Job
  <1>2. \A r \in Records : table[r] \in Seq(TxIds) /\ seen[p][r] \in Seq(TxIds)
    BY DEF IInv, TypeOK, Row
  <1>3. \A r \in job[p].accepted : seen[p][r] = table[r]
    BY <1>1, <1>2 DEF IInv, SeenIsPast, Apply, AtRevision
  <1> QED
    BY <1>1, <1>3 DEF Apply, IInv, SomethingToWrite

\* After it, its identity has left its traces, and the other identities none.
LEMMA TracesOfApply ==
  ASSUME IInv, NEW p \in Sessions, pc[p] = "write", Apply(p)
  PROVE  /\ \A r \in Records, tx \in TxIds :
              TracedIn(tx, r)' <=> TracedIn(tx, r) \/ (tx = job[p].tx /\ r \in job[p].accepted)
         /\ \A tx \in TxIds :
              TracedInAudit(tx)' <=> TracedInAudit(tx) \/ (tx = job[p].tx /\ job[p].shape.audited)
  <1>1. ASSUME NEW r \in Records, NEW tx \in TxIds
        PROVE  TracedIn(tx, r)' <=> TracedIn(tx, r) \/ (tx = job[p].tx /\ r \in job[p].accepted)
    <2>1. table[r] \in Seq(TxIds) /\ job[p].tx \in TxIds
      BY RowsExtended DEF IInv, TypeOK, Row
    <2>2. CASE r \in job[p].accepted
      <3>1. table'[r] = Append(table[r], job[p].tx)
        BY <2>2, RowsExtended
      <3>2. /\ DOMAIN table'[r] = 1..(Len(table[r]) + 1) /\ DOMAIN table[r] = 1..Len(table[r])
            /\ \A i \in 1..Len(table[r]) : table'[r][i] = table[r][i]
            /\ table'[r][Len(table[r]) + 1] = job[p].tx
            /\ Len(table[r]) \in Nat
        BY <2>1, <3>1, AppendGrows
      <3> QED
        BY <2>2, <3>2 DEF TracedIn
    <2>3. CASE r \notin job[p].accepted
      BY <2>3, RowsExtended DEF TracedIn
    <2> QED
      BY <2>2, <2>3
  <1>2. ASSUME NEW tx \in TxIds
        PROVE  TracedInAudit(tx)'
                 <=> TracedInAudit(tx) \/ (tx = job[p].tx /\ job[p].shape.audited)
    <2>1. CASE job[p].shape.audited
      <3> DEFINE row == [tx |-> job[p].tx, prev |-> job[p].prev]
      <3>1. audit \in Seq(Entry) /\ row \in Entry /\ row.tx = job[p].tx
        BY RowsExtended DEF IInv, TypeOK, Entry, Job
      <3>2. audit' = Append(audit, row)
        BY <2>1, RowsExtended
      <3> HIDE DEF row
      <3>3. /\ DOMAIN audit' = 1..(Len(audit) + 1) /\ DOMAIN audit = 1..Len(audit)
            /\ \A i \in 1..Len(audit) : audit'[i] = audit[i]
            /\ audit'[Len(audit) + 1] = row
            /\ Len(audit) \in Nat
        BY <3>1, <3>2, AppendGrows
      <3> QED
        BY <2>1, <3>1, <3>3 DEF TracedInAudit
    <2>2. CASE ~job[p].shape.audited
      BY <2>2, RowsExtended DEF TracedInAudit
    <2> QED
      BY <2>1, <2>2
  <1> QED
    BY <1>1, <1>2

----------------------------------------------------------------------------

LEMMA StagedPreserved ==
  ASSUME TypeOK, Staged, NEW p \in Sessions, Session(p)
  PROVE  Staged'
  <1>1. \A q \in Sessions \ {p} : pc'[q] \in Committing <=> job'[q].tx # None
    BY StepOfASession DEF OthersStay, Staged
  <1>2. pc'[p] \in Committing <=> job'[p].tx # None
    <2>1. CASE Begins(p)
      BY <2>1 DEF Begins, Committing, None, TypeOK
    <2>2. CASE TakesEffect(p)
      BY <2>2 DEF TakesEffect, Committing, NoJob
    <2>3. CASE GoesOn(p)
      BY <2>3 DEF GoesOn, Staged, NoJob
    <2> QED
      BY <2>1, <2>2, <2>3, StepOfASession
  <1> QED
    BY <1>1, <1>2 DEF Staged

LEMMA IdsPreserved ==
  ASSUME IInv, NEW p \in Sessions, Session(p)
  PROVE  IdsAreFresh'
  <1>0. /\ begun \in Nat /\ \A q \in Sessions : job[q].tx \in TxIds \cup {None}
        /\ \A q \in Sessions \ {p} : job'[q] = job[q]
        /\ TxIds \subseteq Nat /\ None \notin TxIds /\ None = 0
    BY StepOfASession, SqlAssumption DEF IInv, TypeOK, Job, OthersStay, TxIds, None
  <1> SUFFICES /\ \A tx \in TxIds : begun' < tx => tx \in Unmarked'
               /\ \A q \in Sessions : /\ job'[q].tx <= begun'
                                      /\ job'[q].tx # None => job'[q].tx \in Unmarked'
               /\ \A q, o \in Sessions : q # o /\ job'[q].tx = job'[o].tx => job'[q].tx = None
    BY DEF IdsAreFresh
  <1> USE DEF IdsAreFresh
  <1>1. CASE Begins(p)
    <2>1. Unmarked' = Unmarked
      BY <1>1 DEF Begins, Unmarked, NoTrace, TracedIn, TracedInAudit
    <2>2. begun' = begun + 1 /\ job'[p].tx = begun + 1 /\ begun + 1 \in TxIds
      BY <1>0, <1>1, SqlAssumption DEF Begins, TxIds
    <2>3. begun + 1 \in Unmarked
      BY <1>0, <2>2 DEF IInv
    <2>4. \A q \in Sessions : job[q].tx <= begun /\ job[q].tx # begun + 1
      BY <1>0 DEF IInv
    <2>5. \A tx \in TxIds : begun' < tx => tx \in Unmarked'
      BY <1>0, <2>1, <2>2 DEF IInv
    <2>6. \A q \in Sessions : /\ job'[q].tx <= begun'
                              /\ job'[q].tx # None => job'[q].tx \in Unmarked'
      <3>1. ASSUME NEW q \in Sessions \ {p}
            PROVE  /\ job'[q].tx <= begun'
                   /\ job'[q].tx # None => job'[q].tx \in Unmarked'
        <4>1. job[q].tx # None => job[q].tx \in Unmarked
          BY DEF IInv
        <4>2. job'[q].tx = job[q].tx
          BY <1>0
        <4>3. job[q].tx \in TxIds \cup {None}
          BY <1>0
        <4>4. job[q].tx \in Nat /\ job[q].tx <= begun /\ begun \in Nat
          <5>1. job[q].tx <= begun
            BY <2>4
          <5>2. begun \in Nat
            BY <1>0
          <5> QED
            BY <4>3, <5>1, <5>2, SqlAssumption DEF TxIds, None
        <4>5. job'[q].tx <= begun'
          BY <2>2, <4>2, <4>4
        <4> QED
          BY <2>1, <4>1, <4>2, <4>5
      <3> QED
        BY <1>0, <2>1, <2>2, <2>3, <3>1
    <2>7. \A q, o \in Sessions : q # o /\ job'[q].tx = job'[o].tx => job'[q].tx = None
      BY <1>0, <2>2, <2>4 DEF IInv
    <2> QED
      BY <2>5, <2>6, <2>7
  <1>2. CASE TakesEffect(p)
    <2>1. begun' = begun /\ job'[p].tx = None
      BY <1>2 DEF TakesEffect, NoJob
    <2>2. job[p].tx \in TxIds
      BY <1>2, RowsExtended DEF TakesEffect
    <2>3. Unmarked \ {job[p].tx} \subseteq Unmarked'
      BY <1>2, TracesOfApply DEF TakesEffect, Unmarked, NoTrace
    <2>4. \A q \in Sessions \ {p} : job[q].tx # None => job[q].tx # job[p].tx
      BY DEF IInv
    <2> QED
      BY <1>0, <2>1, <2>2, <2>3, <2>4 DEF IInv
  <1>3. CASE GoesOn(p)
    <2>1. Unmarked' = Unmarked
      BY <1>3 DEF GoesOn, Unmarked, NoTrace, TracedIn, TracedInAudit
    <2>2. begun' = begun /\ job'[p].tx \in {job[p].tx, None}
      BY <1>3 DEF GoesOn, NoJob
    <2> QED
      BY <1>0, <2>1, <2>2 DEF IInv
  <1> QED
    BY <1>1, <1>2, <1>3, StepOfASession DEF IInv

LEMMA SeenPreserved ==
  ASSUME IInv, NEW p \in Sessions, Session(p)
  PROVE  SeenIsPast'
  <1> SUFFICES ASSUME NEW q \in Sessions, NEW r \in Records
               PROVE  seen'[q][r] = table'[r] \/ Len(seen'[q][r]) < Len(table'[r])
    BY DEF SeenIsPast
  <1>0. /\ table[r] \in Seq(TxIds) /\ Len(table[r]) \in Nat
        /\ seen[q][r] \in Seq(TxIds) /\ Len(seen[q][r]) \in Nat
        /\ seen[p] \in [Records -> Row]
        /\ seen[q][r] = table[r] \/ Len(seen[q][r]) < Len(table[r])
    BY DEF IInv, TypeOK, Row, SeenIsPast
  <1>1. CASE Begins(p)
    BY <1>0, <1>1 DEF Begins
  <1>2. CASE TakesEffect(p)
    <2>1. table'[r] = IF r \in job[p].accepted THEN Append(table[r], job[p].tx) ELSE table[r]
      <3>1. pc[p] = "write" /\ Apply(p)
        BY <1>2 DEF TakesEffect
      <3>2. table' = [o \in Records |-> IF o \in job[p].accepted
                                        THEN Append(table[o], job[p].tx) ELSE table[o]]
        BY <3>1, RowsExtended
      <3> QED
        BY <3>2
    <2>2. job[p].tx \in TxIds
      BY <1>2, RowsExtended DEF TakesEffect
    <2>3. r \in job[p].accepted => Len(table'[r]) = Len(table[r]) + 1
      BY <1>0, <2>1, <2>2, AppendGrows
    <2>4. seen'[q][r] = seen[q][r] \/ (r \in job[p].accepted /\ seen'[q][r] = table'[r])
      BY <1>2, StepOfASession DEF TakesEffect, OthersStay, IInv
    <2> QED
      BY <1>0, <2>1, <2>3, <2>4
  <1>3. CASE GoesOn(p)
    <2>1. seen'[q][r] = seen[q][r] \/ seen'[q][r] = table[r]
      <3>1. CASE q # p
        BY <3>1, StepOfASession DEF OthersStay, IInv
      <3>2. CASE q = p
        <4>1. seen'[p] = seen[p] \/ \E o \in Records : seen'[p] = [seen[p] EXCEPT ![o] = table[o]]
          BY <1>3 DEF GoesOn
        <4> QED
          BY <1>0, <3>2, <4>1
      <3> QED
        BY <3>1, <3>2
    <2> QED
      BY <1>0, <1>3, <2>1 DEF GoesOn
  <1> QED
    BY <1>1, <1>2, <1>3, StepOfASession DEF IInv

\* What leaves a session in its commit.
LEMMA StaysInCommit ==
  ASSUME TypeOK, Staged, NEW p \in Sessions, Session(p), pc'[p] \in Committing
  PROVE  \/ (\E shape \in Shapes : BeginCommit(p, shape)) /\ pc'[p] = "select"
         \/ SelectRow(p) /\ pc'[p] = "select"
         \/ ReadTail(p) /\ pc'[p] = "write"
  <1> USE DEF Committing
  <1>1. CASE \/ Close(p) \/ NothingToWrite(p) \/ LoseConnection(p) \/ LoseAnswer(p)
             \/ Deadlocked(p)
    BY <1>1, EndsCommand
       DEF Close, NothingToWrite, LoseConnection, LoseAnswer, Deadlocked, Disconnected
  <1>2. CASE Open(p)
    BY <1>2, Moves DEF Open
  <1>3. CASE Commit(p)
    BY <1>3, Moves DEF Commit
  <1>4. CASE \E r \in Records : ReadRow(p, r)
    BY <1>4 DEF ReadRow
  <1>5. ASSUME NEW shape \in Shapes, BeginCommit(p, shape) PROVE pc'[p] = "select"
    BY <1>5, Moves DEF BeginCommit
  <1>6. CASE SelectRow(p)
    BY <1>6 DEF SelectRow, Selecting
  <1>7. CASE ReadTail(p)
    BY <1>7, Moves DEF ReadTail
  <1> QED
    BY <1>1, <1>2, <1>3, <1>4, <1>5, <1>6, <1>7 DEF Session

LEMMA WritesPreserved ==
  ASSUME IInv, NEW p \in Sessions, Session(p)
  PROVE  SomethingToWrite'
  <1> SUFFICES ASSUME pc'[p] = "write" PROVE job'[p].accepted # {}
    BY StepOfASession DEF SomethingToWrite, OthersStay, IInv
  <1>1. ReadTail(p)
    BY StaysInCommit DEF Committing, IInv
  <1>2. job'[p].accepted = job[p].accepted
    BY <1>1 DEF ReadTail, IInv, TypeOK, Job
  <1> QED
    BY <1>1, <1>2 DEF ReadTail

LEMMA InitInv == Init => IInv
  <1> SUFFICES ASSUME Init PROVE IInv
    OBVIOUS
  <1>1. \A S : <<>> \in Seq(S) /\ DOMAIN <<>> = {}
    OBVIOUS
  <1>2. TypeOK
    BY <1>1, NoJobIsAJob, SqlAssumption DEF Init, TypeOK, Row, Steps
  <1>3. Staged /\ SomethingToWrite
    BY DEF Init, Staged, SomethingToWrite, Committing, NoJob
  <1>4. IdsAreFresh
    BY DEF Init, IdsAreFresh, Unmarked, NoTrace, TracedIn, TracedInAudit, NoJob, None
  <1>5. SeenIsPast
    BY DEF Init, SeenIsPast
  <1> QED
    BY <1>2, <1>3, <1>4, <1>5 DEF IInv

LEMMA NextInv == IInv /\ [Next]_vars => IInv'
  <1> SUFFICES ASSUME IInv, [Next]_vars PROVE IInv'
    OBVIOUS
  <1>1. CASE UNCHANGED vars
    BY <1>1 DEF vars, IInv, TypeOK, Staged, IdsAreFresh, Unmarked, NoTrace, TracedIn,
                TracedInAudit, SeenIsPast, SomethingToWrite
  <1>2. ASSUME NEW p \in Sessions, Session(p) PROVE IInv'
    <2>1. TypeOK'
      BY <1>2, TypesPreserved DEF Next, IInv
    <2>2. Staged'
      BY <1>2, StagedPreserved DEF IInv
    <2>3. IdsAreFresh' /\ SeenIsPast' /\ SomethingToWrite'
      BY <1>2, IdsPreserved, SeenPreserved, WritesPreserved
    <2> QED
      BY <2>1, <2>2, <2>3 DEF IInv
  <1> QED
    BY <1>1, <1>2 DEF Next

LEMMA StoreInvariant == Spec => []IInv
  BY InitInv, NextInv, PTL DEF Spec

----------------------------------------------------------------------------

\* Every variable has its type.
THEOREM TypeCorrect == Spec => []TypeOK
  BY StoreInvariant, PTL DEF IInv

\* A commit that takes effect, reported or not, is one transaction of DecisionAudit.
LEMMA EffectIsACommit ==
  ASSUME IInv, NEW p \in Sessions, pc[p] = "write", Apply(p)
  PROVE  Store!StoreNext
  <1>1. Store!IsNew(job[p].tx)
    <2>1. NoTrace(job[p].tx)
      BY RowsExtended DEF IInv, IdsAreFresh, Unmarked, Staged, Committing
    <2>2. DOMAIN AuditedTxs = DOMAIN audit /\ \A i \in DOMAIN audit : AuditedTxs[i] = audit[i].tx
      BY DEF AuditedTxs
    <2> QED
      BY <2>1, <2>2 DEF NoTrace, TracedIn, TracedInAudit, Store!IsNew, Store!Occurs
  <1>2. AuditedTxs' = IF job[p].shape.audited THEN Append(AuditedTxs, job[p].tx)
                                              ELSE AuditedTxs
    <2>1. CASE job[p].shape.audited
      <3> DEFINE row == [tx |-> job[p].tx, prev |-> job[p].prev]
      <3>1. audit \in Seq(Entry) /\ row \in Entry /\ row.tx = job[p].tx
        BY RowsExtended DEF IInv, TypeOK, Entry, Job
      <3>2. audit' = Append(audit, row)
        BY <2>1, RowsExtended
      <3> HIDE DEF row
      <3>3. /\ DOMAIN audit' = 1..(Len(audit) + 1) /\ DOMAIN audit = 1..Len(audit)
            /\ \A i \in 1..Len(audit) : audit'[i] = audit[i]
            /\ audit'[Len(audit) + 1] = row
            /\ Len(audit) \in Nat
        BY <3>1, <3>2, AppendGrows
      <3>4. \A i \in 1..Len(audit) : audit[i].tx \in TxIds
        <4>1. \A i \in 1..Len(audit) : audit[i] \in Entry
          BY <3>1
        <4> QED
          BY <4>1 DEF Entry
      <3>5. /\ AuditedTxs = [i \in 1..Len(audit) |-> audit[i].tx]
            /\ AuditedTxs \in Seq(TxIds) /\ Len(AuditedTxs) = Len(audit)
        BY <3>3, <3>4 DEF AuditedTxs
      <3>6. AuditedTxs' = [i \in 1..(Len(audit) + 1) |-> audit'[i].tx]
        BY <3>3 DEF AuditedTxs
      <3>7. AuditedTxs' = Append(AuditedTxs, job[p].tx)
        BY <3>1, <3>3, <3>5, <3>6, RowsExtended
      <3> QED
        BY <2>1, <3>7
    <2>2. CASE ~job[p].shape.audited
      BY <2>2, RowsExtended DEF AuditedTxs
    <2> QED
      BY <2>1, <2>2
  <1>3. job[p].shape.audited \in BOOLEAN
    <2>1. job[p].shape \in Shapes \cup {NoShape}
      BY DEF IInv, TypeOK, Job
    <2>2. \A shape \in Shapes : shape.audited \in BOOLEAN
      BY SqlAssumption
    <2>3. NoShape.audited \in BOOLEAN
      BY DEF NoShape
    <2> QED
      BY <2>1, <2>2, <2>3
  <1>4. Store!Commit(job[p].tx, job[p].accepted, job[p].shape.audited)
    BY <1>1, <1>2, RowsExtended DEF Store!Commit
  <1> QED
    BY <1>3, <1>4, RowsExtended DEF Store!StoreNext

\* The SQL store implements the audited store that the journal of JsonStore implements,
\* with or without mutation_lock (MssqlStore: one Tx is one SQL transaction).
THEOREM SqlImplementsStore == Spec => RefinesStore
  <1>1. Init => Store!StoreInit
    BY DEF Init, Store!StoreInit, AuditedTxs
  <1>2. IInv /\ [Next]_vars => [Store!StoreNext]_(Store!storeVars)
    <2> SUFFICES ASSUME IInv, [Next]_vars
                 PROVE  Store!StoreNext \/ UNCHANGED <<table, AuditedTxs>>
      BY DEF Store!storeVars
    <2>1. CASE UNCHANGED vars
      BY <2>1 DEF vars, AuditedTxs
    <2>2. ASSUME NEW p \in Sessions, Session(p)
          PROVE  Store!StoreNext \/ UNCHANGED <<table, AuditedTxs>>
      BY <2>2, StepOfASession, EffectIsACommit
         DEF IInv, Begins, GoesOn, TakesEffect, AuditedTxs
    <2> QED
      BY <2>1, <2>2 DEF Next
  <1> QED
    BY <1>1, <1>2, StoreInvariant, PTL DEF Spec, RefinesStore, Store!StoreSpec

-----------------------------------------------------------------------------
(***************************************************************************)
(* The proof that callers of MssqlStore are told the truth, and that its     *)
(* audit chain verifies (SqlStore!TheCallerIsToldTheTruth): whoever is about *)
(* to write an audit row holds the tail it chained to.                       *)
(***************************************************************************)
TailHeld ==
  \A p \in Sessions : pc[p] = "write" /\ job[p].shape.audited =>
    locked[AuditTail] = p /\ job[p].prev = TailTx

\* A commit writes what it was asked to, all of it unless it may skip.
AsAsked(j) ==
  LET asked == ToSet(j.shape.writes)
  IN  j.accepted \subseteq asked /\ (j.accepted = asked \/ j.shape.skip)

Chosen ==
  \A p \in Sessions :
    /\ pc[p] \in Committing => job[p].accepted \subseteq ToSet(job[p].shape.writes)
    /\ pc[p] = "write" => AsAsked(job[p])

\* A transaction that has ended is under way nowhere.
Ended(tx) == tx \in TxIds /\ tx <= begun /\ \A p \in Sessions : job[p].tx # tx

LeftAllOf(j) ==
  /\ \A r \in Records : TracedIn(j.tx, r) <=> r \in j.accepted
  /\ TracedInAudit(j.tx) <=> j.shape.audited

ToldRight ==
  /\ \A tx \in told.nothing : Ended(tx) /\ tx \in Unmarked
  /\ \A j \in told.recorded : Ended(j.tx) /\ AsAsked(j) /\ LeftAllOf(j)

TInv == IInv /\ Verifies /\ TailHeld /\ Chosen /\ ToldRight

----------------------------------------------------------------------------
\* The tail

LEMMA TailIsNoRow == AuditTail \in Locks /\ AuditTail \notin Records
  BY SqlAssumption DEF Locks

\* Nobody else's step frees the tail.
LEMMA TailStaysHeld ==
  ASSUME IInv, NEW p \in Sessions, Session(p), NEW q \in Sessions \ {p},
         locked[AuditTail] = q
  PROVE  locked'[AuditTail] = q
  <1>0. locked \in [Locks -> Sessions \cup {Nobody}] /\ AuditTail \in Locks
    BY TailIsNoRow DEF IInv, TypeOK
  <1>1. ASSUME EndTx(p) PROVE locked'[AuditTail] = q
    BY <1>0, <1>1 DEF EndTx
  <1>2. CASE SelectRow(p)
    <2>1. NextRow(p) # AuditTail
      BY <1>2, NextRowIsARow, TailIsNoRow DEF IInv, SelectRow
    <2> QED
      BY <1>0, <1>2, <2>1 DEF SelectRow
  <1>3. CASE ReadTail(p)
    <2>1. q # Nobody
      BY SqlAssumption
    <2> QED
      BY <1>3, <2>1 DEF ReadTail
  <1> QED
    BY <1>1, <1>2, <1>3
       DEF Session, Open, Close, ReadRow, BeginCommit, NothingToWrite, Commit,
           LoseConnection, LoseAnswer, Deadlocked, Disconnected, End

LEMMA TailHeldPreserved ==
  ASSUME TInv, NEW p \in Sessions, Session(p)
  PROVE  TailHeld'
  <1> SUFFICES ASSUME NEW q \in Sessions, pc'[q] = "write", job'[q].shape.audited
               PROVE  locked'[AuditTail] = q /\ job'[q].prev = TailTx'
    BY DEF TailHeld
  <1>0. IInv /\ TypeOK /\ Staged
    BY DEF TInv, IInv
  <1>1. CASE q # p
    <2>1. job'[q] = job[q] /\ pc[q] = "write"
      BY <1>0, <1>1, StepOfASession DEF OthersStay
    <2>2. locked[AuditTail] = q /\ job[q].prev = TailTx
      BY <2>1 DEF TInv, TailHeld
    <2>3. locked'[AuditTail] = q
      BY <1>0, <1>1, <2>2, TailStaysHeld
    <2>4. audit' = audit
      <3>1. CASE TakesEffect(p)
        <4>1. ~job[p].shape.audited
          BY <1>1, <2>2, <3>1 DEF TInv, TailHeld, TakesEffect
        <4> QED
          BY <3>1, <4>1 DEF TakesEffect, Apply
      <3> QED
        BY <1>0, <3>1, StepOfASession DEF Begins, GoesOn
    <2> QED
      BY <2>1, <2>2, <2>3, <2>4 DEF TailTx
  <1>2. CASE q = p
    <2>1. ReadTail(p)
      BY <1>0, <1>2, StaysInCommit DEF Committing
    <2>2. job[p].shape.audited
      <3>1. job'[p].shape = job[p].shape
        BY <1>0, <2>1 DEF ReadTail, TypeOK, Job
      <3> QED
        BY <1>2, <3>1
    <2>3. locked'[AuditTail] = p
      BY <1>0, <2>1, <2>2, TailIsNoRow DEF ReadTail, TypeOK
    <2>4. job'[p].prev = TailTx /\ audit' = audit
      BY <1>0, <2>1, <2>2 DEF ReadTail, TypeOK, Job, storeVars
    <2> QED
      BY <1>2, <2>3, <2>4 DEF TailTx
  <1> QED
    BY <1>1, <1>2

LEMMA VerifiesPreserved ==
  ASSUME TInv, NEW p \in Sessions, Session(p)
  PROVE  Verifies'
  <1>0. IInv /\ TypeOK /\ Staged /\ Verifies
    BY DEF TInv, IInv
  <1>1. CASE audit' = audit
    BY <1>0, <1>1 DEF Verifies, PrevOf
  <1>2. CASE audit' # audit
    <2>1. TakesEffect(p)
      BY <1>0, <1>2, StepOfASession DEF Begins, GoesOn
    <2> DEFINE row == [tx |-> job[p].tx, prev |-> job[p].prev]
    <2>2. job[p].shape.audited /\ audit' = Append(audit, row)
      BY <1>2, <2>1 DEF TakesEffect, Apply
    <2>3. job[p].prev = TailTx
      BY <2>1, <2>2 DEF TakesEffect, TInv, TailHeld
    <2>4. audit \in Seq(Entry) /\ row \in Entry /\ row.prev = job[p].prev
      BY <1>0, <2>1, RowsExtended DEF TakesEffect, TypeOK, Entry, Job
    <2> HIDE DEF row
    <2>5. /\ DOMAIN audit' = 1..(Len(audit) + 1) /\ DOMAIN audit = 1..Len(audit)
          /\ \A i \in 1..Len(audit) : audit'[i] = audit[i]
          /\ audit'[Len(audit) + 1] = row
          /\ Len(audit) \in Nat
      BY <2>2, <2>4, AppendGrows
    <2>6. ASSUME NEW i \in 1..Len(audit)
          PROVE  audit'[i].prev = IF i = 1 THEN None ELSE audit'[i - 1].tx
      <3>1. audit[i].prev = IF i = 1 THEN None ELSE audit[i - 1].tx
        BY <1>0, <2>5 DEF Verifies, PrevOf
      <3>2. i # 1 => i - 1 \in 1..Len(audit)
        BY <2>5
      <3> QED
        BY <2>5, <3>1, <3>2
    <2>7. row.prev = IF Len(audit) + 1 = 1 THEN None ELSE audit'[Len(audit)].tx
      <3>1. CASE audit = <<>>
        BY <2>3, <2>4, <3>1 DEF TailTx
      <3>2. CASE audit # <<>>
        <4>1. Len(audit) # 0 /\ Len(audit) \in 1..Len(audit)
          BY <2>4, <2>5, <3>2
        <4>2. TailTx = audit[Len(audit)].tx
          BY <3>2 DEF TailTx, Last
        <4> QED
          BY <2>3, <2>4, <2>5, <4>1, <4>2
      <3> QED
        BY <3>1, <3>2
    <2>8. \A i \in 1..(Len(audit) + 1) :
            audit'[i].prev = IF i = 1 THEN None ELSE audit'[i - 1].tx
      <3> TAKE i \in 1..(Len(audit) + 1)
      <3>1. CASE i = Len(audit) + 1
        BY <2>5, <2>7, <3>1
      <3>2. CASE i # Len(audit) + 1
        BY <2>5, <2>6, <3>2
      <3> QED
        BY <3>1, <3>2
    <2> QED
      BY <2>5, <2>8 DEF Verifies, PrevOf
  <1> QED
    BY <1>1, <1>2

----------------------------------------------------------------------------
\* What was asked, and what was told

LEMMA ChosenPreserved ==
  ASSUME TInv, NEW p \in Sessions, Session(p)
  PROVE  Chosen'
  <1>0. IInv /\ TypeOK /\ Staged /\ job \in [Sessions -> Job]
    BY DEF TInv, IInv, TypeOK
  <1>1. ASSUME NEW q \in Sessions \ {p}
        PROVE  /\ pc'[q] \in Committing => job'[q].accepted \subseteq ToSet(job'[q].shape.writes)
               /\ pc'[q] = "write" => AsAsked(job'[q])
    BY <1>0, StepOfASession DEF OthersStay, TInv, Chosen
  <1>2. ASSUME pc'[p] \in Committing
        PROVE  /\ job'[p].accepted \subseteq ToSet(job'[p].shape.writes)
               /\ pc'[p] = "write" => AsAsked(job'[p])
    <2>1. ASSUME NEW shape \in Shapes, BeginCommit(p, shape)
          PROVE  job'[p].accepted = {}
      BY <1>0, <2>1, StepOfASession DEF BeginCommit, NoJob
    <2>2. CASE SelectRow(p)
      <3>1. /\ job'[p].shape = job[p].shape
            /\ job'[p].accepted \subseteq job[p].accepted \cup {NextRow(p)}
        BY <1>0, <2>2 DEF SelectRow, Job
      <3>2. job[p].accepted \subseteq ToSet(job[p].shape.writes)
        BY <2>2 DEF SelectRow, Selecting, TInv, Chosen, Committing
      <3>3. NextRow(p) \in ToSet(job[p].shape.writes)
        BY <1>0, <2>2, NextRowIsARow DEF SelectRow
      <3>4. pc'[p] = "select"
        BY <2>2 DEF SelectRow, Selecting
      <3> QED
        BY <3>1, <3>2, <3>3, <3>4
    <2>3. CASE ReadTail(p)
      <3>1. job'[p].shape = job[p].shape /\ job'[p].accepted = job[p].accepted
        BY <1>0, <2>3 DEF ReadTail, Job
      <3>2. job[p].accepted \subseteq ToSet(job[p].shape.writes)
        BY <2>3 DEF ReadTail, Selected, TInv, Chosen, Committing
      <3>3. job[p].accepted = ToSet(job[p].shape.writes) \/ job[p].shape.skip
        BY <2>3 DEF ReadTail, Refused
      <3> QED
        BY <3>1, <3>2, <3>3 DEF AsAsked
    <2> QED
      BY <1>0, <1>2, <2>1, <2>2, <2>3, StaysInCommit
  <1> QED
    BY <1>1, <1>2 DEF Chosen, Committing

\* What has ended stays ended, and identities are never given twice.
LEMMA EndedStaysEnded ==
  ASSUME IInv, NEW p \in Sessions, Session(p), NEW tx, Ended(tx)
  PROVE  Ended(tx)'
  <1>0. begun \in Nat /\ tx \in Nat /\ tx # None /\ tx <= begun
    BY SqlAssumption DEF IInv, TypeOK, Ended, TxIds, None
  <1>1. \A q \in Sessions \ {p} : job'[q] = job[q]
    BY StepOfASession DEF IInv, OthersStay
  <1>2. CASE Begins(p)
    BY <1>0, <1>1, <1>2 DEF Begins, Ended
  <1>3. CASE TakesEffect(p)
    BY <1>0, <1>1, <1>3 DEF TakesEffect, Ended, NoJob
  <1>4. CASE GoesOn(p)
    <2>1. begun' = begun /\ job'[p].tx \in {job[p].tx, None}
      BY <1>4 DEF GoesOn, NoJob
    <2> QED
      BY <1>0, <1>1, <2>1 DEF Ended
  <1> QED
    BY <1>2, <1>3, <1>4, StepOfASession DEF IInv

\* A transaction that ends is under way nowhere else.
LEMMA EndsForAll ==
  ASSUME IInv, NEW p \in Sessions, Session(p), pc[p] \in Committing, job'[p] = NoJob,
         NEW tx, tx = job[p].tx
  PROVE  Ended(tx)'
  <1>1. tx \in TxIds /\ tx <= begun /\ begun \in Nat
    BY DEF IInv, TypeOK, Staged, Job, IdsAreFresh
  <1>2. \A q \in Sessions \ {p} : job'[q] = job[q] /\ job[q].tx # tx
    BY StepOfASession DEF IInv, IdsAreFresh, Staged, OthersStay
  <1>3. job'[p].tx # tx
    BY DEF NoJob, IInv, Staged
  <1>4. begun' = begun
    <2>1. ~Begins(p)
      BY <1>1 DEF Begins, NoJob, None
    <2> QED
      BY <2>1, StepOfASession DEF IInv, TakesEffect, GoesOn
  <1> QED
    BY <1>1, <1>2, <1>3, <1>4 DEF Ended

LEMMA ToldPreserved ==
  ASSUME TInv, NEW p \in Sessions, Session(p)
  PROVE  ToldRight'
  <1>0. IInv /\ TypeOK /\ Staged /\ job \in [Sessions -> Job]
    BY DEF TInv, IInv, TypeOK
  <1>1. CASE ~TakesEffect(p)
    <2>0. UNCHANGED <<table, audit>>
      BY <1>0, <1>1, StepOfASession DEF Begins, GoesOn
    <2>1. Unmarked' = Unmarked
      BY <2>0 DEF Unmarked, NoTrace, TracedIn, TracedInAudit
    <2>2. ASSUME NEW j, LeftAllOf(j) PROVE LeftAllOf(j)'
      BY <2>0, <2>2 DEF LeftAllOf, TracedIn, TracedInAudit
    <2>3. /\ told'.recorded = told.recorded
          /\ told'.nothing = told.nothing \/ /\ told'.nothing = told.nothing \cup {job[p].tx}
                                             /\ pc[p] = "select" /\ job'[p] = NoJob
      BY <1>0, <1>1, StepOfASession DEF Begins, GoesOn, TypeOK
    <2>4. \A tx \in told'.nothing : Ended(tx)' /\ tx \in Unmarked'
      <3>1. ASSUME NEW tx \in told.nothing PROVE Ended(tx)' /\ tx \in Unmarked'
        BY <1>0, <2>1, EndedStaysEnded DEF TInv, ToldRight
      <3>2. ASSUME pc[p] = "select", job'[p] = NoJob, NEW tx, tx = job[p].tx
            PROVE  Ended(tx)' /\ tx \in Unmarked'
        BY <1>0, <2>1, <3>2, EndsForAll DEF Committing, IInv, IdsAreFresh, Staged
      <3> QED
        BY <2>3, <3>1, <3>2
    <2>5. \A j \in told'.recorded : Ended(j.tx)' /\ AsAsked(j) /\ LeftAllOf(j)'
      BY <1>0, <2>2, <2>3, EndedStaysEnded DEF TInv, ToldRight
    <2> QED
      BY <2>4, <2>5 DEF ToldRight
  <1>2. CASE TakesEffect(p)
    <2>0. /\ pc[p] = "write" /\ Apply(p) /\ job'[p] = NoJob
          /\ job[p].tx \in TxIds /\ job[p].tx \in Unmarked
      BY <1>0, <1>2, RowsExtended DEF TakesEffect, IInv, IdsAreFresh, Staged, Committing
    <2>1. Unmarked \ {job[p].tx} \subseteq Unmarked'
      BY <1>0, <2>0, TracesOfApply DEF Unmarked, NoTrace
    <2>2. ASSUME NEW j \in told.recorded PROVE LeftAllOf(j)'
      <3>1. j.tx \in TxIds /\ j.tx # job[p].tx /\ LeftAllOf(j)
        BY DEF TInv, ToldRight, Ended
      <3> QED
        BY <1>0, <2>0, <3>1, TracesOfApply DEF LeftAllOf
    <2>3. ASSUME NEW j, j = job[p] PROVE Ended(j.tx)' /\ AsAsked(j) /\ LeftAllOf(j)'
      <3>1. NoTrace(j.tx) /\ j.tx \in TxIds
        BY <2>0, <2>3 DEF Unmarked
      <3>2. LeftAllOf(j)'
        BY <1>0, <2>0, <2>3, <3>1, TracesOfApply DEF LeftAllOf, NoTrace
      <3>3. Ended(j.tx)'
        BY <1>0, <2>0, <2>3, EndsForAll DEF Committing
      <3> QED
        BY <2>0, <2>3, <3>2, <3>3 DEF TInv, Chosen
    <2>4. /\ told'.nothing = told.nothing
          /\ \A j \in told'.recorded : j \in told.recorded \/ j = job[p]
      BY <1>0, <1>2 DEF TakesEffect, TypeOK
    <2>5. \A tx \in told'.nothing : Ended(tx)' /\ tx \in Unmarked'
      <3> TAKE tx \in told'.nothing
      <3>1. Ended(tx) /\ tx \in Unmarked
        BY <2>4 DEF TInv, ToldRight
      <3>2. tx # job[p].tx
        BY <3>1 DEF Ended
      <3> QED
        BY <1>0, <2>1, <3>1, <3>2, EndedStaysEnded
    <2>6. \A j \in told'.recorded : Ended(j.tx)' /\ AsAsked(j) /\ LeftAllOf(j)'
      <3>1. ASSUME NEW j \in told.recorded PROVE Ended(j.tx)' /\ AsAsked(j) /\ LeftAllOf(j)'
        BY <1>0, <2>2, EndedStaysEnded DEF TInv, ToldRight
      <3> QED
        BY <2>3, <2>4, <3>1
    <2> QED
      BY <2>5, <2>6 DEF ToldRight
  <1> QED
    BY <1>1, <1>2

LEMMA TruthInvariant == Spec => []TInv
  <1>1. Init => TInv
    <2> SUFFICES ASSUME Init PROVE TInv
      OBVIOUS
    <2>1. IInv
      BY InitInv
    <2>2. Verifies /\ TailHeld /\ Chosen /\ ToldRight
      BY DEF Init, Verifies, TailHeld, Chosen, ToldRight, Committing
    <2> QED
      BY <2>1, <2>2 DEF TInv
  <1>2. TInv /\ [Next]_vars => TInv'
    <2> SUFFICES ASSUME TInv, [Next]_vars PROVE TInv'
      OBVIOUS
    <2>1. IInv'
      BY NextInv DEF TInv
    <2>2. CASE UNCHANGED vars
      BY <2>1, <2>2 DEF vars, TInv, Verifies, PrevOf, TailHeld, TailTx, Chosen, ToldRight,
                        Ended, Unmarked, NoTrace, TracedIn, TracedInAudit, LeftAllOf
    <2>3. ASSUME NEW p \in Sessions, Session(p) PROVE TInv'
      BY <2>1, <2>3, VerifiesPreserved, TailHeldPreserved, ChosenPreserved, ToldPreserved
         DEF TInv
    <2> QED
      BY <2>2, <2>3 DEF Next
  <1> QED
    BY <1>1, <1>2, PTL DEF Spec

\* The chain verifies; whoever was told "recorded" finds what it asked for and nothing
\* else, whoever was told "nothing was recorded" no trace (commit, verify_audit).
THEOREM CallersAreToldTheTruth == Spec => []TheCallerIsToldTheTruth
  <1>1. TInv => TheCallerIsToldTheTruth
    <2> SUFFICES ASSUME TInv PROVE TheCallerIsToldTheTruth
      OBVIOUS
    <2>1. ASSUME NEW tx \in TxIds
          PROVE  Traces(tx) = {r \in Records : TracedIn(tx, r)}
                                \cup (IF TracedInAudit(tx) THEN {AuditTail} ELSE {})
      BY DEF Traces, TracedIn, TracedInAudit, ToSet
    <2>2. ASSUME NEW tx \in told.nothing PROVE Traces(tx) = {}
      BY <2>1 DEF TInv, ToldRight, Ended, Unmarked, NoTrace
    <2>3. ASSUME NEW j \in told.recorded
          PROVE  /\ Traces(j.tx) \ ToSet(j.shape.writes)
                      = IF j.shape.audited THEN {AuditTail} ELSE {}
                 /\ ToSet(j.shape.writes) \subseteq Traces(j.tx) \/ j.shape.skip
      <3>1. /\ j.tx \in TxIds /\ AsAsked(j) /\ LeftAllOf(j)
            /\ j.accepted \subseteq Records
        BY DEF TInv, ToldRight, Ended, IInv, TypeOK, Job
      <3>2. Traces(j.tx) = j.accepted \cup (IF j.shape.audited THEN {AuditTail} ELSE {})
        BY <2>1, <3>1 DEF LeftAllOf
      <3>3. AuditTail \notin ToSet(j.shape.writes)
        BY AskedAreRows, TailIsNoRow DEF TInv, IInv, TypeOK
      <3> QED
        BY <3>1, <3>2, <3>3 DEF AsAsked
    <2> QED
      BY <2>2, <2>3 DEF TheCallerIsToldTheTruth, TInv
  <1> QED
    BY <1>1, TruthInvariant, PTL

=============================================================================
