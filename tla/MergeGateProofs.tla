--------------------------- MODULE MergeGateProofs ---------------------------
(***************************************************************************)
(* Proofs about MergeGate, for every set of gates, runners, clones, tasks,   *)
(* commits, tiers and faults.                                               *)
(*                                                                         *)
(* The argument: a row is recorded only on the head its writer names, so    *)
(* what a process found true of the rows up to its head is true of the rows *)
(* below the row it records, however long ago it looked and whatever was    *)
(* appended since: the append fails, or a late push lands, on that head     *)
(* alone.                                                                   *)
(***************************************************************************)
EXTENDS MergeGate, SequenceTheorems, TLAPS

----------------------------------------------------------------------------
\* The inductive invariant

\* A process at work has a task, and a commit from its state check on.
Engaged(a) ==
  /\ pc[a] # "idle" => job[a].task \in Tasks
  /\ pc[a] \notin {"idle", "head", "state"} => job[a].sha \in Shas

TypeInv == TypeOK /\ \A a \in Actors : Engaged(a)

StateAt(n, task) == CurrentState(SubSeq(hub, 1, n), task)

\* The rows up to n make the commit the candidate of a signable task.
SignableAt(n, task, sha) ==
  Signable(StateAt(n, task)) /\ StateAt(n, task).candidate = sha

NeedsSecond(sha) == Touches[sha] = "exec-surface" \/ DeclaredTier = "two-human"

\* What is true of a row right on top of the first n.
Right(n, row) ==
  /\ row.action = "SIGNED" =>
       /\ SignableAt(n, row.task, row.sha)
       /\ row.signature.head = n
       /\ NeedsSecond(row.sha) => row.signature.by = "second"
  /\ row.action = "MERGED" /\ row.merge => row.sha \in merges

\* What a gate found between its state check and its SIGNED row: the state it saw
\* is that of a prefix at or past its head.
Approving == {"approve", "redline", "acquire", "sign"}
SawHead(a) == pc[a] = "state" => job[a].head \in 1..view[CloneOf[a]]
SawCandidate(a) ==
  pc[a] \in Approving =>
    /\ job[a].head \in 1..Len(hub)
    /\ \E n \in job[a].head..Len(hub) : SignableAt(n, job[a].task, job[a].sha)
SawSignature(a) ==
  pc[a] \in {"acquire", "sign"} =>
    /\ job[a].signature.head = job[a].head
    /\ NeedsSecond(job[a].sha) => job[a].signature.by = "second"

\* Then it merges what was signed, and tells of the merge it made.
MergesSigned(a) == pc[a] = "merge" => \E i \in RowsOf("SIGNED") : hub[i].sha = job[a].sha
Telling == {"reread", "record", "release", "bind"}
TellsMerge(a) == job[a].merged => pc[a] \in Telling /\ job[a].sha \in merges

Found(a) ==
  SawHead(a) /\ SawCandidate(a) /\ SawSignature(a) /\ MergesSigned(a) /\ TellsMerge(a)

HubRight == \A i \in DOMAIN hub : Right(i-1, hub[i])
LateRight == \A l \in late : l.head \in 1..Len(hub) /\ Right(l.head, l.row)

Inv ==
  /\ TypeInv
  /\ HubRight /\ LateRight
  /\ \A t \in Tasks : approval[t].by = "nobody" => approval[t].head = 0
  /\ \A a \in Actors : Found(a)
  /\ MergeHasSignature

----------------------------------------------------------------------------
\* Rows and ledgers

LEMMA SignatureTypes ==
  /\ NoSignature \in Signature
  /\ \A s \in Signature : s.head \in Nat /\ s.by \in Signers \cup {"nobody"}
  BY DEF NoSignature, Signature

LEMMA NewRowTypes ==
  ASSUME NEW action \in StatusActions \cup RecordOnlyActions, NEW task \in Tasks \cup {Free},
         NEW sha \in Shas \cup {NoSha}
  PROVE  /\ NewRow(action, task, sha) \in Row
         /\ NewRow(action, task, sha).action = action
         /\ \A s \in Signature : [NewRow(action, task, sha) EXCEPT !.signature = s] \in Row
         /\ \A m \in BOOLEAN : [NewRow(action, task, sha) EXCEPT !.merge = m] \in Row
  BY SignatureTypes DEF NewRow, Row

LEMMA HumanActionsAreActions == HumanActions \subseteq StatusActions \cup RecordOnlyActions
  BY GateAssumption DEF RecordOnlyActions

LEMMA JobTypes ==
  /\ NoJob \in Job
  /\ \A task \in Tasks \cup {Free}, sha \in Shas \cup {NoSha}, mode \in AllModes :
       NewJob(task, sha, mode) \in Job
  BY SignatureTypes DEF NoJob, NewJob, Job, AllModes

LEMMA JobFields ==
  ASSUME NEW j \in Job, NEW n \in Nat, NEW sha \in Shas \cup {NoSha}, NEW s \in Signature
  PROVE  /\ [j EXCEPT !.head = n] \in Job
         /\ [j EXCEPT !.sha = sha] \in Job
         /\ [j EXCEPT !.signature = s] \in Job
  BY DEF Job

LEMMA JobMarks ==
  ASSUME NEW j \in Job
  PROVE  /\ [j EXCEPT !.merged = TRUE] \in Job
         /\ [j EXCEPT !.merged = TRUE].task = j.task
         /\ [j EXCEPT !.merged = TRUE].sha = j.sha
         /\ [j EXCEPT !.passed = TRUE] \in Job
         /\ [j EXCEPT !.passed = TRUE].task = j.task
         /\ [j EXCEPT !.passed = TRUE].sha = j.sha
         /\ [j EXCEPT !.passed = TRUE].merged = j.merged
  BY DEF Job

LEMMA AppendRow ==
  ASSUME NEW h \in Seq(Row), NEW row \in Row
  PROVE  /\ Append(h, row) \in Seq(Row)
         /\ Len(h) \in Nat /\ Len(Append(h, row)) = Len(h) + 1
         /\ DOMAIN Append(h, row) = 1..(Len(h) + 1) /\ DOMAIN h = 1..Len(h)
         /\ \A i \in 1..Len(h) : Append(h, row)[i] = h[i]
         /\ Append(h, row)[Len(h) + 1] = row
  OBVIOUS

LedgerOK ==
  /\ hub \in Seq(Row)
  /\ lock \in Tasks \cup {Free}
  /\ late \in SUBSET [row : Row, head : Nat]
  /\ view \in [Clones -> 1..Len(hub)]

\* What a step makes of the ledger: a hub that is the same or one row longer, clones
\* that know no less of it than before, and perhaps one more push in flight.
LedgerGrows ==
  /\ \/ hub' = hub
     \/ \E row \in Row : hub' = Append(hub, row)
  /\ lock' \in Tasks \cup {Free}
  /\ late' \in SUBSET [row : Row, head : Nat]
  /\ view' \in [Clones -> 1..Len(hub')]
  /\ \A c \in Clones : view[c] <= view'[c]

LEMMA LedgerKept ==
  ASSUME LedgerOK, UNCHANGED ledgerVars
  PROVE  LedgerGrows
  BY DEF LedgerOK, LedgerGrows, ledgerVars

LEMMA ViewPulled ==
  ASSUME LedgerOK, NEW c \in Clones, NEW n \in {view[c], Len(hub)},
         UNCHANGED hub, view' = [view EXCEPT ![c] = n]
  PROVE  /\ view' \in [Clones -> 1..Len(hub')]
         /\ \A d \in Clones : view[d] <= view'[d]
  BY DEF LedgerOK

LEMMA HubAppended ==
  ASSUME LedgerOK, NEW c \in Clones, NEW row \in Row,
         hub' = Append(hub, row),
         view' = [view EXCEPT ![c] = Len(hub) + 1] \/ UNCHANGED view
         \/ \E n \in {view[c], Len(hub)} : view' = [view EXCEPT ![c] = n]
  PROVE  /\ view' \in [Clones -> 1..Len(hub')]
         /\ \A d \in Clones : view[d] <= view'[d]
  BY AppendRow DEF LedgerOK

LEMMA AcceptedGrows ==
  ASSUME LedgerOK, NEW a \in Actors, NEW row \in Row, Accepted(a, row)
  PROVE  LedgerGrows
  BY HubAppended, GateAssumption DEF Accepted, LedgerOK, LedgerGrows

LEMMA NotAcceptedGrows ==
  ASSUME LedgerOK, NEW a \in Actors, NEW row \in Row, job[a].head \in Nat,
         NotAccepted(a, row)
  PROVE  LedgerGrows
  <1> DEFINE c == CloneOf[a]
  <1>0. c \in Clones
    BY GateAssumption
  <1>1. PICK n \in {view[c], Len(hub)} : view' = [view EXCEPT ![c] = n]
    BY DEF NotAccepted
  <1>2. CASE hub' = hub
    <2>1. late' \in SUBSET [row : Row, head : Nat]
      BY <1>2 DEF NotAccepted, LedgerOK
    <2> QED
      BY <1>0, <1>1, <1>2, <2>1, ViewPulled DEF NotAccepted, LedgerGrows, LedgerOK
  <1>3. CASE hub' # hub
    <2>1. hub' = Append(hub, row) /\ late' = late
      BY <1>3 DEF NotAccepted
    <2> QED
      BY <1>0, <1>1, <2>1, HubAppended DEF NotAccepted, LedgerGrows, LedgerOK
  <1> QED
    BY <1>2, <1>3

LEMMA RedlineGrows ==
  ASSUME LedgerOK, NEW a \in Actors, job[a] \in Job, AppendRedline(a)
  PROVE  LedgerGrows
  <1>1. NewRow("REDLINE", job[a].task, job[a].sha) \in Row
    BY NewRowTypes DEF Job, StatusActions
  <1> QED
    BY <1>1, LedgerKept, HubAppended, GateAssumption DEF AppendRedline, LedgerGrows, LedgerOK

LEMMA GrowsTyped ==
  ASSUME LedgerOK, LedgerGrows
  PROVE  LedgerOK' /\ Len(hub) <= Len(hub')
  <1>1. hub' \in Seq(Row) /\ Len(hub) <= Len(hub')
    <2>1. CASE hub' = hub
      BY <2>1 DEF LedgerOK
    <2>2. CASE \E row \in Row : hub' = Append(hub, row)
      BY <2>2, AppendRow DEF LedgerOK
    <2> QED
      BY <2>1, <2>2 DEF LedgerGrows
  <1> QED
    BY <1>1 DEF LedgerOK, LedgerGrows

----------------------------------------------------------------------------
\* The types

WorkOK ==
  /\ queue \in [Clones -> [Tasks -> Shas \cup {NoSha}]]
  /\ approval \in [Tasks -> Signature]
  /\ onBranch \in SUBSET Shas
  /\ merges \in SUBSET onBranch
  /\ begun \in 0..MaxJobs /\ said \in 0..MaxHuman

ProcsOK ==
  /\ pc \in [Actors -> Steps]
  /\ job \in [Actors -> Job]
  /\ \A a \in Actors : Engaged(a)

LEMMA TypeInvParts == TypeInv <=> LedgerOK /\ WorkOK /\ ProcsOK
  BY DEF TypeInv, TypeOK, LedgerOK, WorkOK, ProcsOK

LEMMA ActorTypes ==
  ASSUME TypeInv, NEW a \in Actors
  PROVE  /\ job[a] \in Job /\ pc[a] \in Steps /\ CloneOf[a] \in Clones
         /\ view[CloneOf[a]] \in 1..Len(hub)
         /\ Len(hub) \in Nat \ {0}
         /\ job[a].head \in Nat /\ job[a].signature \in Signature
         /\ job[a].merged \in BOOLEAN
  <1>1. /\ job[a] \in Job /\ pc[a] \in Steps /\ CloneOf[a] \in Clones
        /\ view[CloneOf[a]] \in 1..Len(hub)
    BY GateAssumption DEF TypeInv, TypeOK
  <1> QED
    BY <1>1 DEF Job, TypeInv, TypeOK

\* A step of one process leaves the others where they are, and their clones.
OthersStay(a) ==
  /\ \A b \in Actors \ {a} : pc'[b] = pc[b] /\ job'[b] = job[b]
  /\ \A c \in Clones \ {CloneOf[a]} : view'[c] = view[c]

Typed(a) == TypeInv' /\ LedgerGrows /\ OthersStay(a)

\* A step that moves one process on, or stops it.
Moves(a) ==
  /\ pc' \in [Actors -> Steps]
  /\ job' \in [Actors -> Job]
  /\ \A b \in Actors \ {a} : pc'[b] = pc[b] /\ job'[b] = job[b]
  /\ Engaged(a)'

LEMMA StopMoves ==
  ASSUME TypeInv, NEW a \in Actors, Stop(a)
  PROVE  Moves(a)
  BY JobTypes DEF Stop, Goto, Moves, Engaged, TypeInv, TypeOK, Steps

LEMMA GotoMoves ==
  ASSUME TypeInv, NEW a \in Actors, NEW step \in Steps, NEW j \in Job, Goto(a, step),
         job' = [job EXCEPT ![a] = j],
         step # "idle" => j.task \in Tasks,
         step \notin {"idle", "head", "state"} => j.sha \in Shas
  PROVE  Moves(a)
  BY DEF Goto, Moves, Engaged, TypeInv, TypeOK

LEMMA JobKept ==
  ASSUME TypeInv, NEW a \in Actors, UNCHANGED job
  PROVE  job' = [job EXCEPT ![a] = job[a]]
  BY DEF TypeInv, TypeOK

LEMMA TypedByParts ==
  ASSUME TypeInv, NEW a \in Actors, LedgerGrows, WorkOK', Moves(a),
         \A c \in Clones \ {CloneOf[a]} : view'[c] = view[c]
  PROVE  Typed(a)
  <1>1. LedgerOK'
    BY GrowsTyped, TypeInvParts
  <1>2. \A b \in Actors : Engaged(b)'
    BY DEF Moves, TypeInv, Engaged
  <1>3. ProcsOK'
    BY <1>2 DEF Moves, ProcsOK
  <1>4. TypeInv'
    BY <1>1, <1>3, TypeInvParts, PTL
  <1> QED
    BY <1>4 DEF Typed, OthersStay, Moves

LEMMA WorkKept ==
  ASSUME TypeInv, UNCHANGED <<workVars, boundVars>>
  PROVE  WorkOK'
  BY TypeInvParts DEF WorkOK, workVars, boundVars

\* Steps that write nothing but a process's own variables.
LEMMA LookTyped ==
  ASSUME TypeInv, NEW a \in Actors, Moves(a), UNCHANGED <<ledgerVars, workVars, boundVars>>
  PROVE  Typed(a)
  <1>1. LedgerGrows
    BY LedgerKept, TypeInvParts
  <1>2. WorkOK'
    BY WorkKept
  <1> QED
    BY <1>1, <1>2, TypedByParts DEF ledgerVars

LEMMA BeginRunTyped ==
  ASSUME TypeInv, NEW r \in Runners, NEW t \in Tasks, NEW s \in Shas, BeginRun(r, t, s)
  PROVE  Typed(r)
  <1>1. NewJob(t, s, "record") \in Job /\ r \in Actors
    BY JobTypes DEF AllModes, Actors
  <1>2. Moves(r)
    BY <1>1, GotoMoves DEF BeginRun, Steps, NewJob
  <1>3. WorkOK'
    BY TypeInvParts, GateAssumption DEF BeginRun, WorkOK, workVars
  <1>4. LedgerGrows
    BY LedgerKept, TypeInvParts DEF BeginRun
  <1> QED
    BY <1>1, <1>2, <1>3, <1>4, TypedByParts DEF BeginRun, ledgerVars

LEMMA ReadOpenTaskTyped ==
  ASSUME TypeInv, NEW r \in Actors, ReadOpenTask(r)
  PROVE  Typed(r)
  <1>0. job[r].task \in Tasks /\ job[r].sha \in Shas
    BY DEF TypeInv, Engaged, ReadOpenTask
  <1>1. CASE Look(r, "rehead") /\ UNCHANGED job
    <2>1. Moves(r)
      BY <1>0, <1>1, ActorTypes, JobKept, GotoMoves DEF Look, Steps
    <2> QED
      BY <1>1, <2>1, LookTyped DEF Look
  <1>2. CASE Refuse(r)
    BY <1>2, StopMoves, LookTyped DEF Refuse
  <1> QED
    BY <1>1, <1>2 DEF ReadOpenTask

LEMMA ReadRunHeadTyped ==
  ASSUME TypeInv, NEW r \in Actors, ReadRunHead(r)
  PROVE  Typed(r)
  <1> DEFINE j == [job[r] EXCEPT !.head = view[CloneOf[r]]]
  <1>0. job[r].task \in Tasks /\ job[r].sha \in Shas
    BY DEF TypeInv, Engaged, ReadRunHead
  <1>1. j \in Job /\ j.task = job[r].task /\ j.sha = job[r].sha
    BY ActorTypes, JobFields DEF Job
  <1>2. job' = [job EXCEPT ![r] = j]
    BY DEF ReadRunHead
  <1> HIDE DEF j
  <1>3. Moves(r)
    BY <1>0, <1>1, <1>2, GotoMoves DEF ReadRunHead, Look, Steps
  <1> QED
    BY <1>3, LookTyped DEF ReadRunHead, Look

LEMMA AppendExecutedTyped ==
  ASSUME TypeInv, NEW r \in Actors, AppendExecuted(r)
  PROVE  Typed(r)
  <1> DEFINE row == NewRow("EXECUTED", job[r].task, job[r].sha)
  <1>0. job[r].task \in Tasks /\ job[r].sha \in Shas
    BY DEF TypeInv, Engaged, AppendExecuted
  <1>1. row \in Row
    BY <1>0, NewRowTypes DEF StatusActions
  <1>2. WorkOK'
    BY WorkKept DEF AppendExecuted
  <1> HIDE DEF row
  <1>3. CASE Accepted(r, row) /\ Goto(r, "queue") /\ UNCHANGED job
    <2>1. Moves(r)
      BY <1>0, <1>3, ActorTypes, JobKept, GotoMoves DEF Steps
    <2>2. LedgerGrows
      BY <1>1, <1>3, AcceptedGrows, TypeInvParts
    <2>3. \A c \in Clones \ {CloneOf[r]} : view'[c] = view[c]
      BY <1>3 DEF Accepted, TypeInv, TypeOK
    <2> QED
      BY <1>2, <2>1, <2>2, <2>3, TypedByParts
  <1>4. CASE NotAccepted(r, row) /\ Stop(r)
    <2>1. LedgerGrows
      BY <1>1, <1>4, NotAcceptedGrows, TypeInvParts, ActorTypes
    <2>2. \A c \in Clones \ {CloneOf[r]} : view'[c] = view[c]
      BY <1>4 DEF NotAccepted, TypeInv, TypeOK
    <2> QED
      BY <1>2, <1>4, <2>1, <2>2, StopMoves, TypedByParts
  <1> QED
    BY <1>3, <1>4 DEF AppendExecuted, row

LEMMA UpdateQueueTyped ==
  ASSUME TypeInv, NEW r \in Actors, UpdateQueue(r)
  PROVE  Typed(r)
  <1>0. job[r].task \in Tasks /\ job[r].sha \in Shas
    BY DEF TypeInv, Engaged, UpdateQueue
  <1>1. LedgerGrows
    BY LedgerKept, TypeInvParts DEF UpdateQueue
  <1>2. queue' \in [Clones -> [Tasks -> Shas \cup {NoSha}]]
    <2>1. queue \in [Clones -> [Tasks -> Shas \cup {NoSha}]] /\ CloneOf[r] \in Clones
      BY ActorTypes DEF TypeInv, TypeOK
    <2>2. [queue[CloneOf[r]] EXCEPT ![job[r].task] = job[r].sha] \in [Tasks -> Shas \cup {NoSha}]
      BY <1>0, <2>1
    <2> QED
      BY <2>1, <2>2 DEF UpdateQueue
  <1>3. WorkOK'
    BY <1>2, TypeInvParts DEF UpdateQueue, WorkOK, boundVars
  <1>4. Moves(r)
    BY <1>0, ActorTypes, JobKept, GotoMoves, StopMoves DEF UpdateQueue, Steps
  <1> QED
    BY <1>1, <1>3, <1>4, TypedByParts DEF UpdateQueue, ledgerVars

LEMMA RedlineTyped ==
  ASSUME TypeInv, NEW a \in Actors, AppendRedline(a) \/ UNCHANGED ledgerVars, Stop(a),
         UNCHANGED <<workVars, boundVars>>
  PROVE  Typed(a)
  <1>1. LedgerGrows
    BY RedlineGrows, LedgerKept, ActorTypes, TypeInvParts
  <1>2. \A c \in Clones \ {CloneOf[a]} : view'[c] = view[c]
    BY DEF AppendRedline, TypeInv, TypeOK, ledgerVars
  <1> QED
    BY <1>1, <1>2, StopMoves, WorkKept, TypedByParts

LEMMA RunTyped ==
  ASSUME TypeInv, NEW r \in Runners, Run(r)
  PROVE  Typed(r)
  <1>0. r \in Actors
    BY DEF Actors
  <1>1. CASE RedlineAfterRun(r)
    BY <1>0, <1>1, RedlineTyped DEF RedlineAfterRun
  <1> QED
    BY <1>0, <1>1, ReadOpenTaskTyped, ReadRunHeadTyped, AppendExecutedTyped, UpdateQueueTyped
    DEF Run

LEMMA BeginGateTyped ==
  ASSUME TypeInv, NEW g \in Gates, NEW t \in Tasks, NEW mode \in Modes, BeginGate(g, t, mode)
  PROVE  Typed(g)
  <1>1. NewJob(t, NoSha, mode) \in Job /\ g \in Actors
    BY JobTypes, GateAssumption DEF Actors
  <1>2. Moves(g)
    BY <1>1, GotoMoves DEF BeginGate, Steps, NewJob
  <1>3. WorkOK'
    BY TypeInvParts, GateAssumption DEF BeginGate, WorkOK, workVars
  <1>4. LedgerGrows
    BY LedgerKept, TypeInvParts DEF BeginGate
  <1> QED
    BY <1>1, <1>2, <1>3, <1>4, TypedByParts DEF BeginGate, ledgerVars

\* read_head, before the gate and again before its last row.
LEMMA HeadTyped ==
  ASSUME TypeInv, NEW g \in Actors, ReadHead(g) \/ RereadHead(g)
  PROVE  Typed(g)
  <1> DEFINE j == [job[g] EXCEPT !.head = view[CloneOf[g]]]
  <1>0. job[g].task \in Tasks /\ (pc[g] = "reread" => job[g].sha \in Shas)
    BY DEF TypeInv, Engaged, ReadHead, RereadHead
  <1>1. j \in Job /\ j.task = job[g].task /\ j.sha = job[g].sha
    BY ActorTypes, JobFields DEF Job
  <1>2. job' = [job EXCEPT ![g] = j]
    BY DEF ReadHead, RereadHead
  <1> HIDE DEF j
  <1>3. Moves(g)
    BY <1>0, <1>1, <1>2, GotoMoves DEF ReadHead, RereadHead, Look, Steps
  <1> QED
    BY <1>3, LookTyped DEF ReadHead, RereadHead, Look

\* The candidate a gate takes is the one its queue file names, in a signable state.
LEMMA CandidateIs ==
  ASSUME TypeInv, NEW g \in Actors, NEW task \in Tasks,
         CandidateForMerge(CloneOf[g], task) # NoSha
  PROVE  /\ CandidateForMerge(CloneOf[g], task) \in Shas
         /\ SignableAt(view[CloneOf[g]], task, CandidateForMerge(CloneOf[g], task))
  <1>1. queue[CloneOf[g]][task] \in Shas \cup {NoSha}
    BY ActorTypes DEF TypeInv, TypeOK
  <1> QED
    BY <1>1 DEF CandidateForMerge, StateIn, SignableAt, StateAt

LEMMA ReadStateTyped ==
  ASSUME TypeInv, NEW g \in Actors, ReadState(g)
  PROVE  Typed(g)
  <1> DEFINE sha == CandidateForMerge(CloneOf[g], job[g].task)
             j == [job[g] EXCEPT !.sha = sha]
  <1>0. job[g].task \in Tasks
    BY DEF TypeInv, Engaged, ReadState
  <1>1. CASE sha # NoSha /\ Look(g, "approve") /\ job' = [job EXCEPT ![g].sha = sha]
    <2>1. sha \in Shas
      BY <1>0, <1>1, CandidateIs
    <2> HIDE DEF sha
    <2>2. j \in Job /\ j.task = job[g].task /\ j.sha = sha
      BY <2>1, ActorTypes, JobFields, SignatureTypes DEF Job
    <2>3. job' = [job EXCEPT ![g] = j]
      BY <1>1
    <2> HIDE DEF j
    <2>4. Moves(g)
      BY <1>0, <1>1, <2>1, <2>2, <2>3, GotoMoves DEF Look, Steps
    <2> QED
      BY <1>1, <2>4, LookTyped DEF Look
  <1>2. CASE Refuse(g)
    BY <1>2, StopMoves, LookTyped DEF Refuse
  <1> QED
    BY <1>1, <1>2 DEF ReadState

LEMMA ApproveTyped ==
  ASSUME TypeInv, NEW g \in Actors, Approve(g)
  PROVE  Typed(g)
  <1> DEFINE s == approval[job[g].task]
             j == [job[g] EXCEPT !.signature = s]
  <1>0. job[g].task \in Tasks /\ job[g].sha \in Shas
    BY DEF TypeInv, Engaged, Approve
  <1>1. CASE Goto(g, "redline") /\ UNCHANGED job
    BY <1>0, <1>1, ActorTypes, JobKept, GotoMoves, LookTyped DEF Approve, Steps
  <1>2. CASE Goto(g, "acquire") /\ job' = [job EXCEPT ![g].signature = s]
    <2>1. s \in Signature
      BY <1>0 DEF TypeInv, TypeOK
    <2> HIDE DEF s
    <2>2. j \in Job /\ j.task = job[g].task /\ j.sha = job[g].sha
      BY <2>1, ActorTypes, JobFields DEF Job
    <2>3. job' = [job EXCEPT ![g] = j]
      BY <1>2
    <2> HIDE DEF j
    <2>4. Moves(g)
      BY <1>0, <1>2, <2>2, <2>3, GotoMoves DEF Steps
    <2> QED
      BY <2>4, LookTyped DEF Approve
  <1>3. CASE Stop(g)
    BY <1>3, StopMoves, LookTyped DEF Approve
  <1> QED
    BY <1>1, <1>2, <1>3 DEF Approve

LEMMA PullGrows ==
  ASSUME TypeInv, NEW g \in Actors, UNCHANGED <<hub, late>>, lock' \in Tasks \cup {Free},
         view' = [view EXCEPT ![CloneOf[g]] = Len(hub)] \/ UNCHANGED view
  PROVE  LedgerGrows /\ \A c \in Clones \ {CloneOf[g]} : view'[c] = view[c]
  <1>1. /\ hub' = hub /\ lock' \in Tasks \cup {Free} /\ late' \in SUBSET [row : Row, head : Nat]
        /\ view \in [Clones -> 1..Len(hub)] /\ CloneOf[g] \in Clones
        /\ view[CloneOf[g]] \in 1..Len(hub) /\ Len(hub) \in Nat \ {0}
    BY ActorTypes, TypeInvParts DEF LedgerOK
  <1> DEFINE n == Len(hub)
  <1>2. n \in 1..n /\ \A c \in Clones : view[c] \in 1..n /\ view[c] =< n
    BY <1>1
  <1>3. CASE view' = [view EXCEPT ![CloneOf[g]] = n]
    <2> HIDE DEF n
    <2>1. view' \in [Clones -> 1..n] /\ \A c \in Clones : view[c] =< view'[c]
      BY <1>1, <1>2, <1>3 DEF n
    <2> QED BY <1>1, <2>1 DEF LedgerGrows, n
  <1>4. CASE UNCHANGED view
    <2>1. \A c \in Clones : view[c] =< view'[c]
      BY <1>1, <1>4
    <2> QED BY <1>1, <1>4, <2>1 DEF LedgerGrows
  <1> QED
    BY <1>1, <1>3, <1>4

LEMMA AcquireTyped ==
  ASSUME TypeInv, NEW g \in Actors, Acquire(g)
  PROVE  Typed(g)
  <1>0. job[g].task \in Tasks /\ job[g].sha \in Shas
    BY DEF TypeInv, Engaged, Acquire
  <1>1. lock' \in Tasks \cup {Free}
    BY <1>0 DEF Acquire, TypeInv, TypeOK
  <1>2. LedgerGrows /\ \A c \in Clones \ {CloneOf[g]} : view'[c] = view[c]
    BY <1>1, PullGrows DEF Acquire
  <1>3. Moves(g)
    BY <1>0, ActorTypes, JobKept, GotoMoves, StopMoves DEF Acquire, Steps
  <1> QED
    BY <1>2, <1>3, WorkKept, TypedByParts DEF Acquire

LEMMA AppendSignedTyped ==
  ASSUME TypeInv, NEW g \in Actors, AppendSigned(g)
  PROVE  Typed(g)
  <1> DEFINE row == [NewRow("SIGNED", job[g].task, job[g].sha) EXCEPT
                     !.signature = job[g].signature]
  <1>0. job[g].task \in Tasks /\ job[g].sha \in Shas
    BY DEF TypeInv, Engaged, AppendSigned
  <1>1. row \in Row
    BY <1>0, NewRowTypes, ActorTypes DEF StatusActions
  <1>2. WorkOK'
    BY WorkKept DEF AppendSigned
  <1>3. Moves(g)
    BY <1>0, ActorTypes, JobKept, GotoMoves DEF AppendSigned, Steps
  <1>4. Accepted(g, row) \/ NotAccepted(g, row)
    BY DEF AppendSigned
  <1> HIDE DEF row
  <1>5. LedgerGrows
    BY <1>1, <1>4, AcceptedGrows, NotAcceptedGrows, TypeInvParts, ActorTypes
  <1>6. \A c \in Clones \ {CloneOf[g]} : view'[c] = view[c]
    BY <1>4 DEF Accepted, NotAccepted, TypeInv, TypeOK
  <1> QED
    BY <1>2, <1>3, <1>5, <1>6, TypedByParts

LEMMA MergeCommitTyped ==
  ASSUME TypeInv, NEW g \in Actors, MergeCommit(g)
  PROVE  Typed(g)
  <1> DEFINE j == [job[g] EXCEPT !.merged = TRUE]
  <1>0. job[g].task \in Tasks /\ job[g].sha \in Shas
    BY DEF TypeInv, Engaged, MergeCommit
  <1>1. WorkOK'
    BY <1>0, TypeInvParts DEF MergeCommit, WorkOK, boundVars
  <1>2. j \in Job /\ j.task = job[g].task /\ j.sha = job[g].sha
    BY ActorTypes, JobMarks
  <1>3. \/ job' = [job EXCEPT ![g] = j] /\ Goto(g, "reread")
        \/ UNCHANGED job /\ (Goto(g, "reread") \/ Goto(g, "release"))
    BY DEF MergeCommit
  <1> HIDE DEF j
  <1>4. Moves(g)
    BY <1>0, <1>2, <1>3, ActorTypes, JobKept, GotoMoves DEF Steps
  <1> QED
    BY <1>1, <1>4, TypedByParts, LedgerKept, TypeInvParts DEF MergeCommit, ledgerVars

LEMMA AppendMergedTyped ==
  ASSUME TypeInv, NEW g \in Actors, AppendMerged(g)
  PROVE  Typed(g)
  <1> DEFINE row == [NewRow("MERGED", job[g].task, job[g].sha) EXCEPT !.merge = job[g].merged]
             j == [job[g] EXCEPT !.passed = TRUE]
  <1>0. job[g].task \in Tasks /\ job[g].sha \in Shas
    BY DEF TypeInv, Engaged, AppendMerged
  <1>1. row \in Row
    BY <1>0, NewRowTypes, ActorTypes DEF StatusActions
  <1>2. WorkOK'
    BY WorkKept DEF AppendMerged
  <1>3. j \in Job /\ j.task = job[g].task /\ j.sha = job[g].sha
    BY ActorTypes, JobMarks
  <1>4. /\ job' = [job EXCEPT ![g] = j] \/ UNCHANGED job
        /\ Goto(g, "release")
        /\ Accepted(g, row) \/ NotAccepted(g, row)
    BY DEF AppendMerged
  <1> HIDE DEF row, j
  <1>5. Moves(g)
    BY <1>0, <1>3, <1>4, ActorTypes, JobKept, GotoMoves DEF Steps
  <1>6. LedgerGrows
    BY <1>1, <1>4, AcceptedGrows, NotAcceptedGrows, TypeInvParts, ActorTypes
  <1>7. \A c \in Clones \ {CloneOf[g]} : view'[c] = view[c]
    BY <1>4 DEF Accepted, NotAccepted, TypeInv, TypeOK
  <1> QED
    BY <1>2, <1>5, <1>6, <1>7, TypedByParts

LEMMA ReleaseTyped ==
  ASSUME TypeInv, NEW g \in Actors, Release(g)
  PROVE  Typed(g)
  <1>0. job[g].task \in Tasks /\ job[g].sha \in Shas
    BY DEF TypeInv, Engaged, Release
  <1>1. lock' \in Tasks \cup {Free}
    BY DEF Release, TypeInv, TypeOK
  <1>2. LedgerGrows /\ \A c \in Clones \ {CloneOf[g]} : view'[c] = view[c]
    BY <1>1, PullGrows DEF Release
  <1>3. Moves(g)
    BY <1>0, ActorTypes, JobKept, GotoMoves, StopMoves DEF Release, Steps
  <1> QED
    BY <1>2, <1>3, WorkKept, TypedByParts DEF Release

LEMMA BindEvidenceTyped ==
  ASSUME TypeInv, NEW g \in Actors, BindEvidence(g)
  PROVE  Typed(g)
  <1> DEFINE row == NewRow("EVIDENCE", job[g].task, NoSha)
  <1>1. row \in Row
    BY NewRowTypes, ActorTypes DEF Job, RecordOnlyActions
  <1>2. \/ hub' = Append(hub, row) /\ view' = [view EXCEPT ![CloneOf[g]] = Len(hub) + 1]
           /\ UNCHANGED <<lock, late>>
        \/ UNCHANGED ledgerVars
    BY DEF BindEvidence
  <1> HIDE DEF row
  <1>3. LedgerGrows
    BY <1>1, <1>2, HubAppended, LedgerKept, TypeInvParts, GateAssumption
    DEF LedgerGrows, LedgerOK
  <1>4. \A c \in Clones \ {CloneOf[g]} : view'[c] = view[c]
    BY <1>2 DEF TypeInv, TypeOK, ledgerVars
  <1> QED
    BY <1>3, <1>4, StopMoves, WorkKept, TypedByParts DEF BindEvidence

LEMMA GateTyped ==
  ASSUME TypeInv, NEW g \in Gates, Gate(g)
  PROVE  Typed(g)
  <1>0. g \in Actors
    BY DEF Actors
  <1>1. CASE RedlineAtGate(g)
    BY <1>0, <1>1, RedlineTyped DEF RedlineAtGate
  <1> QED
    BY <1>0, <1>1, HeadTyped, ReadStateTyped, ApproveTyped, AcquireTyped, AppendSignedTyped,
       MergeCommitTyped, AppendMergedTyped, ReleaseTyped, BindEvidenceTyped
    DEF Gate

LEMMA CrashTyped ==
  ASSUME TypeInv, NEW a \in Actors, Crash(a)
  PROVE  Typed(a)
  BY StopMoves, LookTyped DEF Crash

\* What one process does in one step.
Works(a) ==
  \/ /\ a \in Runners
     /\ Run(a) \/ \E t \in Tasks, s \in Shas : BeginRun(a, t, s)
  \/ /\ a \in Gates
     /\ Gate(a) \/ \E t \in Tasks, mode \in Modes : BeginGate(a, t, mode)
  \/ Crash(a)

LEMMA WorksTyped ==
  ASSUME TypeInv, NEW a \in Actors, Works(a)
  PROVE  Typed(a)
  BY RunTyped, BeginRunTyped, GateTyped, BeginGateTyped, CrashTyped DEF Works

\* Steps of no process: the ledger may grow, processes stay.
Around == TypeInv' /\ LedgerGrows /\ UNCHANGED <<pc, job>>

LEMMA AroundByParts ==
  ASSUME TypeInv, LedgerGrows, WorkOK', UNCHANGED <<pc, job>>
  PROVE  Around
  <1>1. LedgerOK'
    BY GrowsTyped, TypeInvParts
  <1>2. ProcsOK'
    BY TypeInvParts DEF ProcsOK, Engaged
  <1>3. TypeInv'
    BY <1>1, <1>2, TypeInvParts, PTL
  <1> QED
    BY <1>3 DEF Around

LEMMA LandTyped ==
  ASSUME TypeInv, Land
  PROVE  Around
  <1>1. PICK l \in late : /\ l.head = Len(hub) /\ hub' = Append(hub, l.row)
                          /\ late' = late \ {l}
    BY DEF Land
  <1>2. l.row \in Row
    BY DEF TypeInv, TypeOK
  <1>3. LedgerGrows
    <2>1. /\ view' \in [Clones -> 1..Len(hub')]
          /\ \A c \in Clones : view[c] <= view'[c]
      BY <1>1, <1>2, AppendRow DEF Land, TypeInv, TypeOK
    <2> QED
      BY <1>1, <1>2, <2>1 DEF Land, TypeInv, TypeOK, LedgerGrows
  <1>4. WorkOK'
    BY WorkKept DEF Land
  <1> QED
    BY <1>3, <1>4, AroundByParts DEF Land

LEMMA HumanRowTyped ==
  ASSUME TypeInv, NEW t \in Tasks, NEW action \in HumanActions, HumanRow(t, action)
  PROVE  Around
  <1>1. PICK s \in Shas \cup {NoSha} : hub' = Append(hub, NewRow(action, t, s))
    BY DEF HumanRow
  <1>2. NewRow(action, t, s) \in Row
    BY NewRowTypes, HumanActionsAreActions
  <1>3. LedgerGrows
    <2>1. /\ view' \in [Clones -> 1..Len(hub')]
          /\ \A c \in Clones : view[c] <= view'[c]
      BY <1>1, <1>2, AppendRow DEF HumanRow, TypeInv, TypeOK
    <2> QED
      BY <1>1, <1>2, <2>1 DEF HumanRow, TypeInv, TypeOK, LedgerGrows
  <1>4. WorkOK'
    BY TypeInvParts, GateAssumption DEF HumanRow, WorkOK, workVars
  <1> QED
    BY <1>3, <1>4, AroundByParts DEF HumanRow

LEMMA SignTyped ==
  ASSUME TypeInv, NEW t \in Tasks, NEW by \in Signers, Sign(t, by)
  PROVE  Around
  <1>1. [head |-> Len(hub), by |-> by] \in Signature
    BY DEF TypeInv, TypeOK, Signature
  <1>2. WorkOK'
    BY <1>1, TypeInvParts DEF Sign, WorkOK, boundVars
  <1> QED
    BY <1>2, LedgerKept, TypeInvParts, AroundByParts DEF Sign

LEMMA SyncCloneTyped ==
  ASSUME TypeInv, NEW c \in Clones, NEW d \in Clones, SyncClone(c, d)
  PROVE  Around
  <1>1. LedgerGrows
    BY DEF SyncClone, TypeInv, TypeOK, LedgerGrows
  <1>2. WorkOK'
    BY TypeInvParts DEF SyncClone, WorkOK, boundVars
  <1> QED
    BY <1>1, <1>2, AroundByParts DEF SyncClone

LEMMA InlineTyped ==
  ASSUME TypeInv, NEW s \in Shas, Inline(s)
  PROVE  Around
  <1>1. WorkOK'
    BY TypeInvParts DEF Inline, WorkOK, boundVars
  <1> QED
    BY <1>1, LedgerKept, TypeInvParts, AroundByParts DEF Inline

\* What happens around the processes.
Outside ==
  \/ Land
  \/ \E t \in Tasks, action \in HumanActions : HumanRow(t, action)
  \/ \E t \in Tasks, by \in Signers : Sign(t, by)
  \/ \E c, d \in Clones : SyncClone(c, d)
  \/ \E s \in Shas : Inline(s)

LEMMA OutsideTyped ==
  ASSUME TypeInv, Outside
  PROVE  Around
  BY LandTyped, HumanRowTyped, SignTyped, SyncCloneTyped, InlineTyped DEF Outside

LEMMA NextIs == Next => Outside \/ \E a \in Actors : Works(a)
  BY DEF Next, Environment, Outside, Works, Actors

LEMMA FirstRowsAre ==
  /\ FirstRows \in Seq(Row) /\ Len(FirstRows) \in Nat \ {0}
  /\ \A i \in 1..Len(FirstRows) : FirstRows[i].action \in {"GENESIS", "ADMITTED"}
  <1> DEFINE n == Len(Admitted)
             genesis == NewRow("GENESIS", Free, NoSha)
             first == <<genesis>>
             rest == [i \in DOMAIN Admitted |-> NewRow("ADMITTED", Admitted[i], NoSha)]
  <1>1. n \in Nat /\ DOMAIN Admitted = 1..n /\ \A i \in 1..n : Admitted[i] \in Tasks
    BY GateAssumption
  <1>2. first \in Seq(Row) /\ Len(first) = 1 /\ first[1].action = "GENESIS"
    <2>1. genesis \in Row /\ genesis.action = "GENESIS"
      BY NewRowTypes DEF RecordOnlyActions
    <2> HIDE DEF genesis
    <2> QED
      BY <2>1
  <1>3. \A i \in 1..n : /\ NewRow("ADMITTED", Admitted[i], NoSha) \in Row
                        /\ NewRow("ADMITTED", Admitted[i], NoSha).action = "ADMITTED"
    BY <1>1, NewRowTypes DEF StatusActions
  <1>4. rest \in Seq(Row) /\ Len(rest) = n /\ \A i \in 1..n : rest[i].action = "ADMITTED"
    BY <1>1, <1>3
  <1>5. FirstRows = first \o rest
    BY DEF FirstRows
  <1> HIDE DEF first, rest, n
  <1> QED
    BY <1>1, <1>2, <1>4, <1>5, ConcatProperties

LEMMA InitTyped == Init => TypeInv
  <1> SUFFICES ASSUME Init PROVE TypeInv
    OBVIOUS
  <1>1. hub \in Seq(Row) /\ view \in [Clones -> 1..Len(hub)]
    BY FirstRowsAre DEF Init
  <1>2. /\ queue \in [Clones -> [Tasks -> Shas \cup {NoSha}]]
        /\ approval \in [Tasks -> Signature]
        /\ pc \in [Actors -> Steps] /\ job \in [Actors -> Job]
    BY SignatureTypes, JobTypes DEF Init, Steps
  <1> QED
    BY <1>1, <1>2, GateAssumption DEF Init, TypeInv, TypeOK, Engaged

LEMMA TypeInvStep == TypeInv /\ [Next]_vars => TypeInv'
  <1> SUFFICES ASSUME TypeInv, [Next]_vars PROVE TypeInv'
    OBVIOUS
  <1>1. CASE UNCHANGED vars
    BY <1>1 DEF vars, ledgerVars, workVars, boundVars, TypeInv, TypeOK, Engaged
  <1>2. CASE Next
    BY <1>2, NextIs, OutsideTyped, WorksTyped DEF Around, Typed
  <1> QED
    BY <1>1, <1>2

\* The types: rows, signatures, queue files and what processes carry, and a clone
\* never holds more of the ledger than the hub does; a merge commit is on the branch.
THEOREM GateTypes == Spec => []TypeOK
  <1>1. Spec => []TypeInv
    BY InitTyped, TypeInvStep, PTL DEF Spec
  <1>2. TypeInv => TypeOK
    BY DEF TypeInv
  <1> QED
    BY <1>1, <1>2, PTL

----------------------------------------------------------------------------
\* What was read stays read: a hub that grows keeps its prefixes.

LEMMA RowsStay ==
  ASSUME TypeInv, LedgerGrows
  PROVE  /\ Len(hub) \in Nat /\ Len(hub') \in Nat /\ Len(hub) <= Len(hub')
         /\ DOMAIN hub = 1..Len(hub) /\ DOMAIN hub' = 1..Len(hub')
         /\ \A i \in 1..Len(hub) : hub'[i] = hub[i]
         /\ hub \in Seq(Row) /\ hub' \in Seq(Row)
  <1>1. CASE hub' = hub
    BY <1>1 DEF TypeInv, TypeOK
  <1>2. CASE \E row \in Row : hub' = Append(hub, row)
    BY <1>2, AppendRow DEF TypeInv, TypeOK
  <1> QED
    BY <1>1, <1>2 DEF LedgerGrows

LEMMA PrefixesStay ==
  ASSUME TypeInv, LedgerGrows, NEW n \in 0..Len(hub)
  PROVE  SubSeq(hub', 1, n) = SubSeq(hub, 1, n)
  <1>1. /\ \A i \in 1..n : hub[i] \in Row /\ hub'[i] = hub[i]
        /\ n \in Int /\ n \in Nat
    BY RowsStay, ElementOfSeq
  <1>2. /\ SubSeq(hub, 1, n) \in Seq(Row)
        /\ Len(SubSeq(hub, 1, n)) = (IF 1 <= n THEN n - 1 + 1 ELSE 0)
        /\ \A i \in 1..(n - 1 + 1) : SubSeq(hub, 1, n)[i] = hub[1 + i - 1]
    BY <1>1, SubSeqProperties
  <1>3. /\ SubSeq(hub', 1, n) \in Seq(Row)
        /\ Len(SubSeq(hub', 1, n)) = (IF 1 <= n THEN n - 1 + 1 ELSE 0)
        /\ \A i \in 1..(n - 1 + 1) : SubSeq(hub', 1, n)[i] = hub'[1 + i - 1]
    BY <1>1, SubSeqProperties
  <1>4. /\ Len(SubSeq(hub, 1, n)) = n /\ Len(SubSeq(hub', 1, n)) = n
        /\ \A i \in 1..n : SubSeq(hub', 1, n)[i] = SubSeq(hub, 1, n)[i]
    BY <1>1, <1>2, <1>3
  <1> QED
    BY <1>2, <1>3, <1>4, SeqEqual

LEMMA StatesStay ==
  ASSUME TypeInv, LedgerGrows, NEW n \in 0..Len(hub), NEW task
  PROVE  CurrentState(SubSeq(hub', 1, n), task) = StateAt(n, task)
  BY PrefixesStay DEF StateAt

LEMMA RightStays ==
  ASSUME TypeInv, LedgerGrows, merges \subseteq merges',
         NEW n \in 0..Len(hub), NEW row, Right(n, row)
  PROVE  Right(n, row)'
  <1>1. CurrentState(SubSeq(hub', 1, n), row.task) = StateAt(n, row.task)
    BY StatesStay
  <1> QED
    BY <1>1 DEF Right, SignableAt, StateAt, NeedsSecond

LEMMA CandidateStays ==
  ASSUME TypeInv, LedgerGrows, NEW m \in 1..Len(hub), NEW task, NEW sha,
         \E n \in m..Len(hub) : SignableAt(n, task, sha)
  PROVE  m \in 1..Len(hub') /\ \E n \in m..Len(hub') : SignableAt(n, task, sha)'
  <1>1. PICK n \in m..Len(hub) : SignableAt(n, task, sha)
    OBVIOUS
  <1>2. n \in 0..Len(hub) /\ n \in m..Len(hub') /\ m \in 1..Len(hub')
    BY RowsStay
  <1>3. CurrentState(SubSeq(hub', 1, n), task) = StateAt(n, task)
    BY <1>2, StatesStay
  <1>4. SignableAt(n, task, sha)'
    BY <1>1, <1>3 DEF SignableAt, StateAt
  <1> QED
    BY <1>2, <1>4

LEMMA FoundStays ==
  ASSUME Inv, LedgerGrows, merges \subseteq merges',
         NEW b \in Actors, pc'[b] = pc[b], job'[b] = job[b]
  PROVE  Found(b)'
  <1>1. TypeInv /\ Found(b) /\ view[CloneOf[b]] <= view'[CloneOf[b]]
    BY GateAssumption DEF Inv, LedgerGrows
  <1>2. SawHead(b)'
    <2>1. view'[CloneOf[b]] \in Nat /\ view[CloneOf[b]] \in Nat
      BY RowsStay, <1>1, GateAssumption DEF LedgerGrows, TypeInv, TypeOK
    <2> QED
      BY <1>1, <2>1 DEF Found, SawHead
  <1>3. SawCandidate(b)'
    <2> SUFFICES ASSUME pc[b] \in Approving
                 PROVE  /\ job[b].head \in 1..Len(hub')
                        /\ \E n \in job[b].head..Len(hub') :
                             SignableAt(n, job[b].task, job[b].sha)'
      BY DEF SawCandidate, SignableAt, StateAt
    <2> QED
      BY <1>1, CandidateStays DEF Found, SawCandidate
  <1>4. SawSignature(b)'
    BY <1>1 DEF Found, SawSignature, NeedsSecond
  <1>5. MergesSigned(b)'
    BY <1>1, RowsStay DEF Found, MergesSigned, RowsOf
  <1>6. TellsMerge(b)'
    BY <1>1 DEF Found, TellsMerge
  <1> QED
    BY <1>2, <1>3, <1>4, <1>5, <1>6 DEF Found

----------------------------------------------------------------------------
\* Every step records what is right

RightGrowth ==
  /\ hub' = hub \/ \E row \in Row : hub' = Append(hub, row) /\ Right(Len(hub), row)
  /\ \A l \in late' : l \in late \/ (l.head \in 1..Len(hub) /\ Right(l.head, l.row))
  /\ merges \subseteq merges'
  /\ \A s \in merges' \ merges : \E i \in RowsOf("SIGNED") : hub[i].sha = s

LEMMA GrowthIsRight ==
  ASSUME Inv, LedgerGrows, RightGrowth
  PROVE  HubRight' /\ LateRight' /\ MergeHasSignature'
  <1>0. TypeInv /\ merges \subseteq merges'
    BY DEF Inv, RightGrowth
  <1>1. ASSUME NEW i \in 1..Len(hub')
        PROVE  \E row : row = hub'[i] /\ Right(i-1, row)'
    <2>1. i-1 \in 0..Len(hub)
      BY <1>0, RowsStay, AppendRow DEF LedgerGrows
    <2>2. CASE i \in 1..Len(hub)
      <3>1. Right(i-1, hub[i]) /\ hub'[i] = hub[i]
        BY <1>0, <2>2, RowsStay DEF Inv, HubRight
      <3>2. PICK row : row = hub[i]
        OBVIOUS
      <3>3. Right(i-1, row)'
        BY <1>0, <2>1, <3>1, <3>2, RightStays
      <3> QED
        BY <3>1, <3>2, <3>3
    <2>3. CASE i \notin 1..Len(hub)
      <3>1. i = Len(hub) + 1 /\ hub' # hub
        BY <1>0, <2>1, <2>3, RowsStay
      <3>2. PICK row \in Row : hub' = Append(hub, row) /\ Right(Len(hub), row)
        BY <3>1 DEF RightGrowth
      <3>3. hub \in Seq(Row) /\ hub'[i] = row /\ i-1 = Len(hub)
        BY <1>0, <3>1, <3>2, RowsStay, AppendRow DEF TypeInv, TypeOK
      <3>4. Right(i-1, row)'
        BY <1>0, <2>1, <3>2, <3>3, RightStays
      <3> QED
        BY <3>3, <3>4
    <2> QED
      BY <2>2, <2>3
  <1>2. HubRight'
    BY <1>0, <1>1, RowsStay DEF HubRight, Right, SignableAt, StateAt, NeedsSecond
  <1>3. ASSUME NEW l \in late'
        PROVE  l.head \in 1..Len(hub') /\ Right(l.head, l.row)'
    <2>1. l.head \in 1..Len(hub) /\ Right(l.head, l.row)
      BY DEF RightGrowth, Inv, LateRight
    <2>2. l.head \in 0..Len(hub) /\ l.head \in 1..Len(hub')
      BY <1>0, <2>1, RowsStay
    <2> QED
      BY <1>0, <2>1, <2>2, RightStays
  <1>4. LateRight'
    BY <1>3 DEF LateRight
  <1>5. MergeHasSignature'
    <2>1. \A i \in RowsOf("SIGNED") : i \in RowsOf("SIGNED")' /\ hub'[i] = hub[i]
      BY <1>0, RowsStay DEF RowsOf
    <2>2. ASSUME NEW s \in merges' PROVE \E i \in RowsOf("SIGNED") : hub[i].sha = s
      BY DEF Inv, MergeHasSignature, RightGrowth
    <2> QED
      BY <2>1, <2>2 DEF MergeHasSignature
  <1> QED
    BY <1>2, <1>4, <1>5

\* A row that is neither SIGNED nor MERGED is right anywhere.
LEMMA OtherRowsAreRight ==
  ASSUME NEW n, NEW row, row.action \notin {"SIGNED", "MERGED"}
  PROVE  Right(n, row)
  BY DEF Right

LEMMA StillIsRight ==
  ASSUME UNCHANGED <<hub, late, merges>>
  PROVE  RightGrowth
  BY DEF RightGrowth

\* append_row, of a row that is right if the hub's head is the one it names.
LEMMA AppendIsRight ==
  ASSUME TypeInv, NEW a \in Actors, NEW row \in Row,
         Accepted(a, row) \/ NotAccepted(a, row), UNCHANGED merges,
         job[a].head = Len(hub) => Right(Len(hub), row)
  PROVE  RightGrowth
  <1>0. Len(hub) \in 1..Len(hub)
    BY ActorTypes
  <1>1. CASE Accepted(a, row)
    BY <1>1 DEF Accepted, RightGrowth
  <1>2. CASE NotAccepted(a, row)
    <2>1. CASE UNCHANGED <<hub, late>>
      BY <2>1, StillIsRight
    <2>2. CASE job[a].head = Len(hub) /\ hub' = Append(hub, row) /\ late' = late
      BY <2>2 DEF RightGrowth
    <2>3. CASE /\ job[a].head = Len(hub) /\ UNCHANGED hub
               /\ late' = late \cup {[row |-> row, head |-> job[a].head]}
      BY <1>0, <2>3 DEF RightGrowth
    <2> QED
      BY <1>2, <2>1, <2>2, <2>3 DEF NotAccepted
  <1> QED
    BY <1>1, <1>2

LEMMA RedlineIsRight ==
  ASSUME NEW a \in Actors, TypeInv, AppendRedline(a) \/ UNCHANGED ledgerVars, UNCHANGED workVars
  PROVE  RightGrowth
  <1> DEFINE row == NewRow("REDLINE", job[a].task, job[a].sha)
  <1>1. row \in Row /\ row.action = "REDLINE"
    <2>1. job[a].task \in Tasks \cup {Free} /\ job[a].sha \in Shas \cup {NoSha}
      BY ActorTypes DEF Job
    <2> QED
      BY <2>1, NewRowTypes DEF StatusActions
  <1>2. \/ hub' = Append(hub, row) /\ late' = late
        \/ UNCHANGED <<hub, late>>
    BY DEF AppendRedline, ledgerVars
  <1> HIDE DEF row
  <1>3. Right(Len(hub), row)
    BY <1>1, OtherRowsAreRight
  <1> QED
    BY <1>1, <1>2, <1>3 DEF RightGrowth, workVars

Sound(a) == RightGrowth /\ Found(a)'

\* A process at rest, or at work on what is not the gate's, has nothing to have found.
LEMMA NothingToFind ==
  ASSUME NEW a \in Actors, pc'[a] \notin {"state", "merge"} \cup Approving,
         job'[a].merged => /\ job[a].merged /\ job'[a].sha = job[a].sha
                           /\ pc[a] \in Telling => pc'[a] \in Telling,
         Found(a), merges \subseteq merges'
  PROVE  Found(a)'
  BY DEF Found, SawHead, SawCandidate, SawSignature, MergesSigned, TellsMerge, Approving, Telling

LEMMA StopFound ==
  ASSUME Inv, NEW a \in Actors, Stop(a), merges \subseteq merges'
  PROVE  Found(a)'
  <1>1. pc'[a] = "idle" /\ ~job'[a].merged
    BY DEF Stop, Goto, Inv, TypeInv, TypeOK, NoJob, NewJob
  <1> QED
    BY <1>1, NothingToFind DEF Inv, Approving, Telling

LEMMA GotoIs ==
  ASSUME TypeInv, NEW a \in Actors, NEW step, Goto(a, step)
  PROVE  pc'[a] = step
  BY DEF Goto, TypeInv, TypeOK

LEMMA BeginSound ==
  ASSUME Inv, NEW a \in Actors, NEW j, j.merged = FALSE,
         NEW step \in {"ran", "head"}, Goto(a, step), job' = [job EXCEPT ![a] = j],
         UNCHANGED <<ledgerVars, workVars>>
  PROVE  Sound(a)
  <1>1. pc'[a] = step /\ ~job'[a].merged
    BY DEF Goto, Inv, TypeInv, TypeOK
  <1> QED
    BY <1>1, NothingToFind, StillIsRight
    DEF Inv, Approving, Telling, Sound, ledgerVars, workVars

LEMMA RefuseSound ==
  ASSUME Inv, NEW a \in Actors, Stop(a), UNCHANGED <<ledgerVars, workVars>>
  PROVE  Sound(a)
  BY StopFound, StillIsRight DEF Sound, ledgerVars, workVars

LEMMA RunSound ==
  ASSUME Inv, NEW r \in Actors, Run(r)
  PROVE  Sound(r)
  <1>0. TypeInv /\ Found(r)
    BY DEF Inv
  <1>1. CASE ReadOpenTask(r)
    <2>1. CASE Look(r, "rehead") /\ UNCHANGED job
      <3>1. pc'[r] = "rehead" /\ pc[r] = "ran" /\ job' = job /\ merges' = merges
        BY <1>0, <1>1, <2>1, GotoIs DEF Look, ReadOpenTask, workVars
      <3>2. ~job[r].merged
        BY <1>0, <3>1 DEF Found, TellsMerge, Telling
      <3>3. Found(r)'
        BY <1>0, <3>1, <3>2, NothingToFind DEF Approving
      <3> QED
        BY <2>1, <3>3, StillIsRight DEF Look, Sound, ledgerVars, workVars
    <2>2. CASE Refuse(r)
      BY <2>2, RefuseSound DEF Refuse
    <2> QED
      BY <1>1, <2>1, <2>2 DEF ReadOpenTask
  <1>2. CASE ReadRunHead(r)
    <2>1. pc'[r] = "executed" /\ job'[r].merged = job[r].merged /\ job'[r].sha = job[r].sha
      BY <1>0, <1>2 DEF ReadRunHead, Look, Goto, TypeInv, TypeOK, Job
    <2> QED
      BY <1>0, <1>2, <2>1, NothingToFind, StillIsRight
      DEF ReadRunHead, Look, Sound, ledgerVars, workVars, Approving, Telling
  <1>3. CASE AppendExecuted(r)
    <2> DEFINE row == NewRow("EXECUTED", job[r].task, job[r].sha)
    <2>1. job[r].task \in Tasks /\ job[r].sha \in Shas
      BY <1>0, <1>3 DEF TypeInv, Engaged, AppendExecuted
    <2>2. row \in Row /\ row.action = "EXECUTED"
      BY <2>1, NewRowTypes DEF StatusActions
    <2>3. /\ Accepted(r, row) \/ NotAccepted(r, row)
          /\ (Goto(r, "queue") /\ UNCHANGED job) \/ Stop(r)
          /\ pc[r] = "executed" /\ UNCHANGED merges
      BY <1>3 DEF AppendExecuted, workVars
    <2> HIDE DEF row
    <2>4. RightGrowth
      BY <1>0, <2>2, <2>3, OtherRowsAreRight, AppendIsRight
    <2>5. Found(r)'
      BY <1>0, <2>3, GotoIs, NothingToFind, StopFound DEF Approving, Telling
    <2> QED
      BY <2>4, <2>5 DEF Sound
  <1>4. CASE UpdateQueue(r)
    BY <1>0, <1>4, GotoIs, NothingToFind, StopFound, StillIsRight
    DEF UpdateQueue, Sound, ledgerVars, Approving, Telling
  <1>5. CASE RedlineAfterRun(r)
    BY <1>0, <1>5, RedlineIsRight, StopFound DEF RedlineAfterRun, Sound, workVars
  <1> QED
    BY <1>1, <1>2, <1>3, <1>4, <1>5 DEF Run

\* ReadHead, ReadState: what the gate reads.
LEMMA ReadHeadSound ==
  ASSUME Inv, NEW g \in Actors, ReadHead(g)
  PROVE  Sound(g)
  <1>0. TypeInv /\ Found(g)
    BY DEF Inv
  <1>1. /\ pc[g] = "head" /\ pc'[g] = "state" /\ job'[g].head = view[CloneOf[g]]
        /\ job'[g].merged = job[g].merged /\ job'[g].sha = job[g].sha
    BY <1>0, ActorTypes DEF ReadHead, Look, Goto, TypeInv, TypeOK, Job
  <1>2. UNCHANGED <<hub, late, merges, view>>
    BY DEF ReadHead, Look, ledgerVars, workVars
  <1>3. job'[g].head \in 1..view'[CloneOf[g]]
    BY <1>0, <1>1, <1>2, ActorTypes
  <1>4. Found(g)'
    BY <1>0, <1>1, <1>2, <1>3
    DEF Found, SawHead, SawCandidate, SawSignature, MergesSigned, TellsMerge, Approving, Telling
  <1> QED
    BY <1>2, <1>4, StillIsRight DEF Sound

LEMMA ReadStateSound ==
  ASSUME Inv, NEW g \in Actors, ReadState(g)
  PROVE  Sound(g)
  <1> DEFINE sha == CandidateForMerge(CloneOf[g], job[g].task)
             n == view[CloneOf[g]]
  <1>0. TypeInv /\ Found(g) /\ job[g].task \in Tasks
    BY DEF Inv, TypeInv, Engaged, ReadState
  <1>1. CASE sha # NoSha /\ Look(g, "approve") /\ job' = [job EXCEPT ![g].sha = sha]
    <2>1. SignableAt(n, job[g].task, sha)
      BY <1>0, <1>1, CandidateIs
    <2> HIDE DEF sha
    <2>2. /\ pc'[g] = "approve" /\ job'[g].sha = sha
          /\ job'[g].task = job[g].task /\ job'[g].head = job[g].head
          /\ job'[g].merged = job[g].merged
      BY <1>0, <1>1 DEF Look, Goto, TypeInv, TypeOK, Job
    <2>3. ~job[g].merged
      BY <1>0 DEF Found, TellsMerge, Telling, ReadState
    <2>4. job[g].head \in 1..n /\ n \in 1..Len(hub) /\ Len(hub) \in Nat
      BY <1>0, ActorTypes DEF Found, SawHead, ReadState
    <2>5. hub' = hub
      BY <1>1 DEF Look, ledgerVars
    <2>6. SawCandidate(g)'
      BY <2>1, <2>2, <2>4, <2>5 DEF SawCandidate, SignableAt, StateAt
    <2>7. Found(g)'
      BY <2>2, <2>3, <2>6 DEF Found, SawHead, SawSignature, MergesSigned, TellsMerge, Approving, Telling
    <2> QED
      BY <1>1, <2>7, StillIsRight DEF Sound, Look, ledgerVars, workVars
  <1>2. CASE Refuse(g)
    BY <1>2, RefuseSound DEF Refuse
  <1> QED
    BY <1>1, <1>2 DEF ReadState

\* decide() never lets a scope that needs a second human pass as single-reviewer.
LEMMA TierOfNeeding ==
  ASSUME NEW sha \in Shas, NEW mode, NEW readable \in BOOLEAN, NeedsSecond(sha)
  PROVE  TierOf(sha, mode, readable) \in {"two-human", "control-plane"}
  BY DEF TierOf, NeedsSecond

LEMMA ApproveSound ==
  ASSUME Inv, NEW g \in Actors, Approve(g)
  PROVE  Sound(g)
  <1> DEFINE s == approval[job[g].task]
  <1>0. /\ TypeInv /\ Found(g) /\ job[g].task \in Tasks /\ job[g].sha \in Shas
        /\ pc[g] = "approve"
    BY DEF Inv, TypeInv, Engaged, Approve
  <1>1. hub' = hub /\ merges' = merges /\ RightGrowth
    BY StillIsRight DEF Approve, ledgerVars, workVars
  <1>2. SawCandidate(g) /\ ~job[g].merged
    BY <1>0 DEF Found, TellsMerge, Telling
  <1>3. ASSUME pc'[g] \in Approving, job'[g].head = job[g].head, job'[g].task = job[g].task,
               job'[g].sha = job[g].sha
        PROVE  SawCandidate(g)'
    BY <1>0, <1>1, <1>2, <1>3 DEF SawCandidate, SignableAt, StateAt, Approving
  <1>4. CASE Goto(g, "redline") /\ UNCHANGED job
    <2>1. pc'[g] = "redline" /\ job' = job
      BY <1>0, <1>4, GotoIs
    <2>2. Found(g)'
      BY <1>2, <1>3, <2>1
      DEF Found, SawHead, SawSignature, MergesSigned, TellsMerge, Approving
    <2> QED
      BY <1>1, <2>2 DEF Sound
  <1>5. CASE \E readable \in BOOLEAN :
               /\ s.head = job[g].head
               /\ TierOf(job[g].sha, job[g].mode, readable) = "two-human" => s.by # "author"
               /\ TierOf(job[g].sha, job[g].mode, readable) # "control-plane"
               /\ Goto(g, "acquire") /\ job' = [job EXCEPT ![g].signature = s]
    <2>1. s \in Signature /\ (s.by = "nobody" => s.head = 0)
      BY <1>0 DEF Inv, TypeInv, TypeOK
    <2>2. job[g].head \in 1..Len(hub)
      BY <1>0, <1>2 DEF SawCandidate, Approving
    <2>3. NeedsSecond(job[g].sha) => s.by = "second"
      BY <1>0, <1>5, <2>1, <2>2, SignatureTypes, TierOfNeeding DEF Signers
    <2>4. s.head = job[g].head /\ Goto(g, "acquire") /\ job' = [job EXCEPT ![g].signature = s]
      BY <1>5
    <2> HIDE DEF s
    <2>5. /\ pc'[g] = "acquire" /\ job'[g].signature = s
          /\ job'[g].head = job[g].head /\ job'[g].task = job[g].task
          /\ job'[g].sha = job[g].sha /\ job'[g].merged = job[g].merged
      BY <1>0, <2>4 DEF Goto, TypeInv, TypeOK, Job
    <2>6. SawSignature(g)'
      BY <2>3, <2>4, <2>5 DEF SawSignature, NeedsSecond
    <2>7. SawCandidate(g)'
      BY <1>3, <2>5 DEF Approving
    <2>8. Found(g)'
      BY <1>2, <2>5, <2>6, <2>7 DEF Found, SawHead, MergesSigned, TellsMerge
    <2> QED
      BY <1>1, <2>8 DEF Sound
  <1>6. CASE Stop(g)
    BY <1>1, <1>6, StopFound DEF Sound
  <1> QED
    BY <1>4, <1>5, <1>6 DEF Approve

LEMMA AcquireSound ==
  ASSUME Inv, NEW g \in Actors, Acquire(g)
  PROVE  Sound(g)
  <1>0. TypeInv /\ Found(g) /\ pc[g] = "acquire" /\ hub' = hub /\ merges' = merges
    BY DEF Inv, Acquire, workVars
  <1>1. RightGrowth
    BY StillIsRight DEF Acquire, workVars
  <1>2. CASE Goto(g, "sign") /\ UNCHANGED job
    <2>1. pc'[g] = "sign" /\ job' = job
      BY <1>0, <1>2, GotoIs
    <2>2. SawCandidate(g)'
      BY <1>0, <2>1 DEF Found, SawCandidate, SignableAt, StateAt, Approving
    <2>3. SawSignature(g)'
      BY <1>0, <2>1 DEF Found, SawSignature, NeedsSecond
    <2>4. Found(g)'
      BY <1>0, <2>1, <2>2, <2>3 DEF Found, SawHead, MergesSigned, TellsMerge, Telling
    <2> QED
      BY <1>1, <2>4 DEF Sound
  <1>3. CASE Stop(g)
    BY <1>0, <1>1, <1>3, StopFound DEF Sound
  <1> QED
    BY <1>2, <1>3 DEF Acquire

LEMMA AppendSignedSound ==
  ASSUME Inv, NEW g \in Actors, AppendSigned(g)
  PROVE  Sound(g)
  <1> DEFINE row == [NewRow("SIGNED", job[g].task, job[g].sha) EXCEPT
                     !.signature = job[g].signature]
  <1>0. /\ TypeInv /\ Found(g) /\ job[g].task \in Tasks /\ job[g].sha \in Shas
        /\ pc[g] = "sign" /\ merges' = merges /\ job' = job
    BY DEF Inv, TypeInv, Engaged, AppendSigned, workVars
  <1>1. row \in Row
    BY <1>0, NewRowTypes, ActorTypes DEF StatusActions
  <1>2. /\ row.action = "SIGNED" /\ row.task = job[g].task /\ row.sha = job[g].sha
        /\ row.signature = job[g].signature
    BY DEF NewRow
  <1>3. \/ Accepted(g, row) /\ Goto(g, "merge")
        \/ NotAccepted(g, row) /\ Goto(g, "release")
    BY DEF AppendSigned
  <1> HIDE DEF row
  <1>4. ASSUME job[g].head = Len(hub) PROVE Right(Len(hub), row)
    <2>1. SignableAt(Len(hub), job[g].task, job[g].sha)
      BY <1>0, <1>4 DEF Found, SawCandidate, Approving
    <2> QED
      BY <1>0, <1>2, <1>4, <2>1 DEF Right, Found, SawSignature
  <1>5. RightGrowth
    BY <1>0, <1>1, <1>3, <1>4, AppendIsRight
  <1>6. ~job[g].merged
    BY <1>0 DEF Found, TellsMerge, Telling
  <1>7. CASE Accepted(g, row) /\ Goto(g, "merge")
    <2>1. pc'[g] = "merge" /\ hub' = Append(hub, row) /\ hub \in Seq(Row)
      BY <1>0, <1>7, GotoIs DEF Accepted, TypeInv, TypeOK
    <2>2. Len(hub) + 1 \in RowsOf("SIGNED")' /\ hub'[Len(hub) + 1].sha = job'[g].sha
      BY <1>0, <1>1, <1>2, <2>1, AppendRow DEF RowsOf
    <2>3. Found(g)'
      BY <1>0, <1>6, <2>1, <2>2
      DEF Found, SawHead, SawCandidate, SawSignature, MergesSigned, TellsMerge, Approving
    <2> QED
      BY <1>5, <2>3 DEF Sound
  <1>8. CASE NotAccepted(g, row) /\ Goto(g, "release")
    BY <1>0, <1>5, <1>6, <1>8, GotoIs, NothingToFind DEF Sound, Approving
  <1> QED
    BY <1>3, <1>7, <1>8

LEMMA MergeCommitSound ==
  ASSUME Inv, NEW g \in Actors, MergeCommit(g)
  PROVE  Sound(g)
  <1>0. /\ TypeInv /\ Found(g) /\ pc[g] = "merge" /\ hub' = hub /\ late' = late
        /\ ~job[g].merged
    BY DEF Inv, MergeCommit, ledgerVars, Found, TellsMerge, Telling
  <1>1. \E i \in RowsOf("SIGNED") : hub[i].sha = job[g].sha
    BY <1>0 DEF Found, MergesSigned
  <1>2. CASE /\ merges' = merges \cup {job[g].sha} /\ Goto(g, "reread")
             /\ job' = [job EXCEPT ![g].merged = TRUE]
    <2>1. pc'[g] = "reread" /\ job'[g].sha = job[g].sha
      BY <1>0, <1>2 DEF Goto, TypeInv, TypeOK, Job
    <2>2. RightGrowth
      BY <1>0, <1>1, <1>2 DEF RightGrowth
    <2>3. Found(g)'
      BY <1>2, <2>1
      DEF Found, SawHead, SawCandidate, SawSignature, MergesSigned, TellsMerge, Approving,
          Telling
    <2> QED
      BY <2>2, <2>3 DEF Sound
  <1>3. CASE UNCHANGED <<merges, job>> /\ (Goto(g, "reread") \/ Goto(g, "release"))
    <2>1. pc'[g] \in {"reread", "release"}
      BY <1>0, <1>3, GotoIs
    <2> QED
      BY <1>0, <1>3, <2>1, NothingToFind, StillIsRight DEF Sound, Approving
  <1> QED
    BY <1>2, <1>3 DEF MergeCommit

LEMMA AppendMergedSound ==
  ASSUME Inv, NEW g \in Actors, AppendMerged(g)
  PROVE  Sound(g)
  <1> DEFINE row == [NewRow("MERGED", job[g].task, job[g].sha) EXCEPT !.merge = job[g].merged]
  <1>0. /\ TypeInv /\ Found(g) /\ job[g].task \in Tasks /\ job[g].sha \in Shas
        /\ pc[g] = "record" /\ merges' = merges
    BY DEF Inv, TypeInv, Engaged, AppendMerged, workVars
  <1>1. row \in Row
    BY <1>0, NewRowTypes, ActorTypes DEF StatusActions
  <1>2. row.action = "MERGED" /\ row.sha = job[g].sha /\ row.merge = job[g].merged
    BY DEF NewRow
  <1>3. Accepted(g, row) \/ NotAccepted(g, row)
    BY DEF AppendMerged
  <1> HIDE DEF row
  <1>4. Right(Len(hub), row)
    BY <1>0, <1>2 DEF Right, Found, TellsMerge
  <1>5. RightGrowth
    BY <1>0, <1>1, <1>3, <1>4, AppendIsRight
  <1>6. /\ pc'[g] = "release" /\ job'[g].sha = job[g].sha
        /\ job'[g].merged = job[g].merged
    BY <1>0 DEF AppendMerged, Goto, TypeInv, TypeOK, Job
  <1> QED
    BY <1>0, <1>5, <1>6, NothingToFind DEF Sound, Approving, Telling

LEMMA GateSound ==
  ASSUME Inv, NEW g \in Actors, Gate(g)
  PROVE  Sound(g)
  <1>0. TypeInv /\ Found(g)
    BY DEF Inv
  <1>1. CASE RedlineAtGate(g)
    BY <1>0, <1>1, RedlineIsRight, StopFound DEF RedlineAtGate, Sound, workVars
  <1>2. CASE RereadHead(g)
    <2>1. /\ pc'[g] = "record" /\ job'[g].sha = job[g].sha /\ job'[g].merged = job[g].merged
          /\ pc[g] = "reread"
      BY <1>0, <1>2 DEF RereadHead, Look, Goto, TypeInv, TypeOK, Job
    <2> QED
      BY <1>0, <1>2, <2>1, NothingToFind, StillIsRight
      DEF RereadHead, Look, Sound, ledgerVars, workVars, Approving, Telling
  <1>3. CASE Release(g)
    <2>1. UNCHANGED <<hub, late, merges>>
      BY <1>3 DEF Release, workVars
    <2>2. CASE Goto(g, "bind") /\ UNCHANGED job
      <3>1. pc'[g] = "bind" /\ job' = job
        BY <1>0, <2>2, GotoIs
      <3> QED
        BY <1>0, <2>1, <3>1, NothingToFind, StillIsRight DEF Sound, Approving, Telling
    <2>3. CASE Stop(g)
      BY <2>1, <2>3, StopFound, StillIsRight DEF Sound
    <2> QED
      BY <1>3, <2>2, <2>3 DEF Release
  <1>4. CASE BindEvidence(g)
    <2> DEFINE row == NewRow("EVIDENCE", job[g].task, NoSha)
    <2>1. row \in Row /\ row.action = "EVIDENCE"
      <3>1. job[g].task \in Tasks \cup {Free}
        BY <1>0, ActorTypes DEF Job
      <3> QED
        BY <3>1, NewRowTypes DEF RecordOnlyActions
    <2>2. /\ (hub' = Append(hub, row) /\ late' = late) \/ UNCHANGED <<hub, late>>
          /\ Stop(g) /\ merges' = merges
      BY <1>4 DEF BindEvidence, ledgerVars, workVars
    <2> HIDE DEF row
    <2>3. Right(Len(hub), row)
      BY <2>1, OtherRowsAreRight
    <2>4. RightGrowth
      BY <2>1, <2>2, <2>3 DEF RightGrowth
    <2> QED
      BY <2>2, <2>4, StopFound DEF Sound
  <1> QED
    BY <1>1, <1>2, <1>3, <1>4, ReadHeadSound, ReadStateSound, ApproveSound, AcquireSound,
       AppendSignedSound, MergeCommitSound, AppendMergedSound
    DEF Gate

LEMMA WorksSound ==
  ASSUME Inv, NEW a \in Actors, Works(a)
  PROVE  Sound(a)
  <1>1. ASSUME NEW t \in Tasks, NEW s \in Shas, BeginRun(a, t, s)
        PROVE  Sound(a)
    BY <1>1, BeginSound DEF BeginRun, NewJob
  <1>2. ASSUME NEW t \in Tasks, NEW mode \in Modes, BeginGate(a, t, mode)
        PROVE  Sound(a)
    BY <1>2, BeginSound DEF BeginGate, NewJob
  <1>3. ASSUME Crash(a)
        PROVE  Sound(a)
    BY <1>3, RefuseSound DEF Crash
  <1> QED
    BY <1>1, <1>2, <1>3, RunSound, GateSound DEF Works

LEMMA WorksKeepApprovals ==
  ASSUME NEW a \in Actors, Works(a)
  PROVE  approval' = approval
  BY DEF Works, Run, Gate, BeginRun, BeginGate, Crash, ReadOpenTask, ReadRunHead,
     AppendExecuted, UpdateQueue, RedlineAfterRun, ReadHead, ReadState, Approve,
     RedlineAtGate, Acquire, AppendSigned, MergeCommit, RereadHead, AppendMerged, Release,
     BindEvidence, Look, Refuse, workVars

LEMMA LandedIsRight ==
  ASSUME TypeInv, LateRight, Land
  PROVE  RightGrowth
  <1>1. PICK l \in late : /\ l.head = Len(hub) /\ hub' = Append(hub, l.row)
                          /\ late' = late \ {l}
    BY DEF Land
  <1>2. l.row \in Row /\ Right(Len(hub), l.row)
    BY <1>1 DEF TypeInv, TypeOK, LateRight
  <1> QED
    BY <1>1, <1>2 DEF RightGrowth, Land, workVars

\* Humans append no SIGNED and no MERGED row.
LEMMA HumanRowIs ==
  ASSUME NEW t \in Tasks, NEW action \in HumanActions, HumanRow(t, action)
  PROVE  \E row \in Row : /\ hub' = Append(hub, row) /\ row.action = action
                          /\ row.action \notin {"SIGNED", "MERGED"}
  <1>1. PICK s \in Shas \cup {NoSha} : hub' = Append(hub, NewRow(action, t, s))
    BY DEF HumanRow
  <1>2. NewRow(action, t, s) \in Row /\ NewRow(action, t, s).action = action
    BY NewRowTypes, HumanActionsAreActions
  <1>3. action \notin {"SIGNED", "MERGED"}
    BY GateAssumption
  <1> QED
    BY <1>1, <1>2, <1>3

LEMMA OutsideSound ==
  ASSUME Inv, Outside
  PROVE  /\ RightGrowth
         /\ \A t \in Tasks : approval'[t].by = "nobody" => approval'[t].head = 0
  <1>0. TypeInv /\ LateRight /\ \A t \in Tasks : approval[t].by = "nobody" => approval[t].head = 0
    BY DEF Inv
  <1>1. CASE Land
    BY <1>0, <1>1, LandedIsRight DEF Land, workVars
  <1>2. ASSUME NEW t \in Tasks, NEW action \in HumanActions, HumanRow(t, action)
        PROVE  RightGrowth /\ approval' = approval
    BY <1>2, HumanRowIs, OtherRowsAreRight DEF HumanRow, RightGrowth, workVars
  <1>3. ASSUME NEW t \in Tasks, NEW by \in Signers, Sign(t, by)
        PROVE  /\ RightGrowth
               /\ \A u \in Tasks : approval'[u].by = "nobody" => approval'[u].head = 0
    <2>1. approval \in [Tasks -> Signature] /\ by # "nobody"
      BY <1>0 DEF TypeInv, TypeOK, Signers
    <2> QED
      BY <1>0, <1>3, <2>1, StillIsRight DEF Sign, ledgerVars
  <1>4. ASSUME NEW c \in Clones, NEW d \in Clones, SyncClone(c, d)
        PROVE  RightGrowth /\ approval' = approval
    BY <1>4, StillIsRight DEF SyncClone
  <1>5. ASSUME NEW s \in Shas, Inline(s)
        PROVE  RightGrowth /\ approval' = approval
    BY <1>5, StillIsRight DEF Inline, ledgerVars
  <1> QED
    BY <1>0, <1>1, <1>2, <1>3, <1>4, <1>5 DEF Outside

LEMMA InvInit == Init => Inv
  <1> SUFFICES ASSUME Init PROVE Inv
    OBVIOUS
  <1>1. HubRight
    <2>1. \A i \in 1..Len(FirstRows) : FirstRows[i].action \notin {"SIGNED", "MERGED"}
      BY FirstRowsAre
    <2>2. DOMAIN hub = 1..Len(FirstRows) /\ hub = FirstRows
      BY FirstRowsAre DEF Init
    <2> QED
      BY <2>1, <2>2, OtherRowsAreRight DEF HubRight
  <1>2. ASSUME NEW a \in Actors PROVE Found(a)
    BY DEF Init, Found, SawHead, SawCandidate, SawSignature, MergesSigned, TellsMerge, Approving,
           NoJob, NewJob
  <1>3. LateRight /\ MergeHasSignature /\ \A t \in Tasks : approval[t].head = 0
    BY DEF Init, LateRight, MergeHasSignature, NoSignature
  <1> QED
    BY <1>1, <1>2, <1>3, InitTyped DEF Inv

LEMMA InvStep == Inv /\ [Next]_vars => Inv'
  <1> SUFFICES ASSUME Inv, [Next]_vars PROVE Inv'
    OBVIOUS
  <1>0. TypeInv
    BY DEF Inv
  <1>1. ASSUME NEW a \in Actors, Works(a) PROVE Inv'
    <2>1. Typed(a) /\ Sound(a) /\ approval' = approval
      BY <1>0, <1>1, WorksTyped, WorksSound, WorksKeepApprovals
    <2>2. TypeInv' /\ LedgerGrows /\ RightGrowth /\ OthersStay(a) /\ Found(a)'
      BY <2>1 DEF Typed, Sound
    <2>3. \A b \in Actors \ {a} : Found(b)'
      BY <2>2, FoundStays DEF OthersStay, RightGrowth
    <2>4. \A b \in Actors : Found(b)'
      BY <2>2, <2>3
    <2> QED
      BY <2>1, <2>2, <2>4, GrowthIsRight DEF Inv
  <1>2. CASE Outside
    <2>1. Around /\ RightGrowth
          /\ \A t \in Tasks : approval'[t].by = "nobody" => approval'[t].head = 0
      BY <1>0, <1>2, OutsideTyped, OutsideSound
    <2>2. TypeInv' /\ LedgerGrows /\ \A b \in Actors : Found(b)'
      BY <2>1, FoundStays DEF Around, RightGrowth
    <2> QED
      BY <2>1, <2>2, GrowthIsRight DEF Inv
  <1>3. CASE UNCHANGED vars
    <2>1. TypeInv' /\ LedgerGrows /\ RightGrowth /\ approval' = approval
      BY <1>0, <1>3, TypeInvStep, LedgerKept, TypeInvParts, StillIsRight
      DEF vars, ledgerVars, workVars
    <2>2. \A b \in Actors : Found(b)'
      BY <1>3, <2>1, FoundStays DEF vars, RightGrowth
    <2> QED
      BY <2>1, <2>2, GrowthIsRight DEF Inv
  <1> QED
    BY <1>1, <1>2, <1>3, NextIs

LEMMA Invariant == Spec => []Inv
  BY InvInit, InvStep, PTL DEF Spec

----------------------------------------------------------------------------
\* What it shows

\* A SIGNED row is on the head its signature was made for, over a task that was
\* signable there, for its candidate: whatever rows, late pushes and other gates
\* came while its gate ran (cmd_merge.py re-points neither the row nor the head).
THEOREM SignedRowsAreApproved == Spec => []SignedAsApproved
  <1>1. Inv => SignedAsApproved
    BY DEF Inv, HubRight, Right, SignableAt, StateAt, StateBefore, SignedAsApproved, RowsOf
  <1> QED
    BY <1>1, Invariant, PTL

\* A scope that needs a second human is signed by one: no order of the tier decision,
\* the signature and the append lets the author's own signature through.
THEOREM SignerIsSecond == Spec => []SignedBySecondHuman
  <1>1. Inv => SignedBySecondHuman
    BY DEF Inv, HubRight, Right, NeedsSecond, SignedBySecondHuman, RowsOf
  <1> QED
    BY <1>1, Invariant, PTL

\* Every merge commit dx makes is of a candidate whose SIGNED row is on the hub: a
\* SIGNED row that was refused, or whose fate is unknown, stops the merge.
THEOREM MergesAreSigned == Spec => []MergeHasSignature
  <1>1. Inv => MergeHasSignature
    BY DEF Inv
  <1> QED
    BY <1>1, Invariant, PTL

\* A MERGED row that tells of a merge commit tells of one that dx made (F-003), also
\* when it lands late.
THEOREM MergedRowsAreTrue == Spec => []MergedRowIsTrue
  <1>1. Inv => MergedRowIsTrue
    BY DEF Inv, HubRight, Right, MergedRowIsTrue, RowsOf
  <1> QED
    BY <1>1, Invariant, PTL

----------------------------------------------------------------------------
(***************************************************************************)
(* With a clone of its own, what a process found there stays what it holds, *)
(* so that the head it reads after its last look is the one it looked at.   *)
(***************************************************************************)

OnSigned(n, task, sha) ==
  /\ n \in 1..Len(hub)
  /\ hub[n].action = "SIGNED" /\ hub[n].task = task /\ hub[n].sha = sha

OpenAt(n, task) == n \in 1..Len(hub) /\ ~Closed(StateAt(n, task))

\* Humans may record an execution themselves; dx never second-guesses them.
OnlyDxExecutes == "EXECUTED" \notin HumanActions

RightOwn(n, row) ==
  /\ row.action = "MERGED" => OnSigned(n, row.task, row.sha)
  /\ row.action = "EXECUTED" /\ OnlyDxExecutes => OpenAt(n, row.task)

HubOwn == \A i \in DOMAIN hub : RightOwn(i-1, hub[i])
LateOwn == \A l \in late : RightOwn(l.head, l.row)

HoldsSigned(a) ==
  pc[a] \in {"merge", "reread"} => OnSigned(view[CloneOf[a]], job[a].task, job[a].sha)
HeadSigned(a) == pc[a] = "record" => OnSigned(job[a].head, job[a].task, job[a].sha)
HoldsOpen(a) == pc[a] = "rehead" => OpenAt(view[CloneOf[a]], job[a].task)
HeadOpen(a) == pc[a] = "executed" => OpenAt(job[a].head, job[a].task)

FoundOwn(a) == HoldsSigned(a) /\ HeadSigned(a) /\ HoldsOpen(a) /\ HeadOpen(a)

OwnInv == HubOwn /\ LateOwn /\ \A a \in Actors : FoundOwn(a)

LEMMA SignedStays ==
  ASSUME TypeInv, LedgerGrows, NEW n, NEW task, NEW sha, OnSigned(n, task, sha)
  PROVE  OnSigned(n, task, sha)'
  BY RowsStay DEF OnSigned

LEMMA OpenStays ==
  ASSUME TypeInv, LedgerGrows, NEW n, NEW task, OpenAt(n, task)
  PROVE  OpenAt(n, task)'
  <1>1. n \in 0..Len(hub) /\ n \in 1..Len(hub')
    BY RowsStay DEF OpenAt
  <1>2. CurrentState(SubSeq(hub', 1, n), task) = StateAt(n, task)
    BY <1>1, StatesStay
  <1> QED
    BY <1>1, <1>2 DEF OpenAt, StateAt

LEMMA RightOwnStays ==
  ASSUME TypeInv, LedgerGrows, NEW n, NEW row, RightOwn(n, row)
  PROVE  RightOwn(n, row)'
  BY SignedStays, OpenStays DEF RightOwn, OnlyDxExecutes

LEMMA FoundOwnStays ==
  ASSUME TypeInv, LedgerGrows, NEW b \in Actors, FoundOwn(b), pc'[b] = pc[b], job'[b] = job[b],
         view'[CloneOf[b]] = view[CloneOf[b]]
  PROVE  FoundOwn(b)'
  <1>1. \A n, task, sha : OnSigned(n, task, sha) => OnSigned(n, task, sha)'
    BY SignedStays
  <1>2. \A n, task : OpenAt(n, task) => OpenAt(n, task)'
    BY OpenStays
  <1>3. HoldsSigned(b)' /\ HeadSigned(b)'
    BY <1>1 DEF FoundOwn, HoldsSigned, HeadSigned, OnSigned
  <1>4. HoldsOpen(b)' /\ HeadOpen(b)'
    BY <1>2 DEF FoundOwn, HoldsOpen, HeadOpen, OpenAt, StateAt
  <1> QED
    BY <1>3, <1>4 DEF FoundOwn

OwnGrowth ==
  /\ hub' = hub \/ \E row \in Row : hub' = Append(hub, row) /\ RightOwn(Len(hub), row)
  /\ \A l \in late' : l \in late \/ RightOwn(l.head, l.row)

LEMMA GrowthIsOwn ==
  ASSUME TypeInv, HubOwn, LateOwn, LedgerGrows, OwnGrowth
  PROVE  HubOwn' /\ LateOwn'
  <1>1. ASSUME NEW i \in 1..Len(hub')
        PROVE  \E row : row = hub'[i] /\ RightOwn(i-1, row)'
    <2>1. CASE i \in 1..Len(hub)
      <3>1. RightOwn(i-1, hub[i]) /\ hub'[i] = hub[i]
        BY <2>1, RowsStay DEF HubOwn
      <3>2. PICK row : row = hub[i]
        OBVIOUS
      <3>3. RightOwn(i-1, row)'
        BY <3>1, <3>2, RightOwnStays
      <3> QED
        BY <3>1, <3>2, <3>3
    <2>2. CASE i \notin 1..Len(hub)
      <3>1. hub' # hub
        BY <2>2
      <3>2. PICK row \in Row : hub' = Append(hub, row) /\ RightOwn(Len(hub), row)
        BY <3>1 DEF OwnGrowth
      <3>3. hub'[i] = row /\ i-1 = Len(hub)
        BY <2>2, <3>2, RowsStay, AppendRow DEF TypeInv, TypeOK
      <3>4. RightOwn(i-1, row)'
        BY <3>2, <3>3, RightOwnStays
      <3> QED
        BY <3>3, <3>4
    <2> QED
      BY <2>1, <2>2
  <1>2. HubOwn'
    BY <1>1, RowsStay DEF HubOwn, RightOwn, OnSigned, OpenAt, StateAt, OnlyDxExecutes
  <1>3. \A l \in late' : RightOwn(l.head, l.row)'
    BY RightOwnStays DEF OwnGrowth, LateOwn
  <1> QED
    BY <1>2, <1>3 DEF LateOwn

LEMMA StillIsOwn ==
  ASSUME UNCHANGED <<hub, late>>
  PROVE  OwnGrowth
  BY DEF OwnGrowth

LEMMA OtherRowsAreOwn ==
  ASSUME NEW n, NEW row, row.action \notin {"MERGED", "EXECUTED"}
  PROVE  RightOwn(n, row)
  BY DEF RightOwn

LEMMA AppendIsOwn ==
  ASSUME NEW a \in Actors, NEW row \in Row, Accepted(a, row) \/ NotAccepted(a, row),
         job[a].head = Len(hub) => RightOwn(Len(hub), row)
  PROVE  OwnGrowth
  <1>1. CASE Accepted(a, row)
    BY <1>1 DEF Accepted, OwnGrowth
  <1>2. CASE NotAccepted(a, row)
    <2>1. CASE UNCHANGED <<hub, late>>
      BY <2>1, StillIsOwn
    <2>2. CASE job[a].head = Len(hub) /\ hub' = Append(hub, row) /\ late' = late
      BY <2>2 DEF OwnGrowth
    <2>3. CASE /\ job[a].head = Len(hub) /\ UNCHANGED hub
               /\ late' = late \cup {[row |-> row, head |-> job[a].head]}
      BY <2>3 DEF OwnGrowth
    <2> QED
      BY <1>2, <2>1, <2>2, <2>3 DEF NotAccepted
  <1> QED
    BY <1>1, <1>2

LEMMA RedlineIsOwn ==
  ASSUME NEW a \in Actors, TypeInv, AppendRedline(a) \/ UNCHANGED ledgerVars
  PROVE  OwnGrowth
  <1> DEFINE row == NewRow("REDLINE", job[a].task, job[a].sha)
  <1>1. row \in Row /\ row.action = "REDLINE"
    <2>1. job[a].task \in Tasks \cup {Free} /\ job[a].sha \in Shas \cup {NoSha}
      BY ActorTypes DEF Job
    <2> QED
      BY <2>1, NewRowTypes DEF StatusActions
  <1>2. (hub' = Append(hub, row) /\ late' = late) \/ UNCHANGED <<hub, late>>
    BY DEF AppendRedline, ledgerVars
  <1> HIDE DEF row
  <1> QED
    BY <1>1, <1>2, OtherRowsAreOwn DEF OwnGrowth

SoundOwn(a) == OwnGrowth /\ FoundOwn(a)'

\* Steps to where nothing of the clone is relied on.
Relying == {"merge", "reread", "record", "rehead", "executed"}

LEMMA NothingToHold ==
  ASSUME NEW a \in Actors, pc'[a] \notin Relying
  PROVE  FoundOwn(a)'
  BY DEF FoundOwn, HoldsSigned, HeadSigned, HoldsOpen, HeadOpen, Relying

LEMMA StopOwn ==
  ASSUME TypeInv, NEW a \in Actors, Stop(a)
  PROVE  FoundOwn(a)'
  BY NothingToHold DEF Stop, Goto, TypeInv, TypeOK, Relying

LEMMA RunOwn ==
  ASSUME TypeInv, OwnInv, NEW r \in Actors, Run(r)
  PROVE  SoundOwn(r)
  <1>1. CASE ReadOpenTask(r)
    <2>1. CASE /\ Look(r, "rehead") /\ UNCHANGED job
               /\ ~Closed(StateIn(CloneOf[r], job[r].task))
      <3>1. pc'[r] = "rehead" /\ job' = job /\ hub' = hub /\ late' = late /\ view' = view
        BY <2>1, GotoIs DEF Look, ledgerVars
      <3>2. OpenAt(view[CloneOf[r]], job[r].task)
        BY <2>1, ActorTypes DEF OpenAt, StateAt, StateIn
      <3>3. FoundOwn(r)'
        BY <3>1, <3>2
        DEF FoundOwn, HoldsSigned, HeadSigned, HoldsOpen, HeadOpen, OpenAt, StateAt
      <3> QED
        BY <3>1, <3>3, StillIsOwn DEF SoundOwn
    <2>2. CASE Refuse(r)
      BY <2>2, StopOwn, StillIsOwn DEF Refuse, SoundOwn, ledgerVars
    <2> QED
      BY <1>1, <2>1, <2>2 DEF ReadOpenTask
  <1>2. CASE ReadRunHead(r)
    <2>1. /\ pc'[r] = "executed" /\ pc[r] = "rehead"
          /\ job'[r].head = view[CloneOf[r]] /\ job'[r].task = job[r].task
      BY <1>2, ActorTypes DEF ReadRunHead, Look, Goto, TypeInv, TypeOK, Job
    <2>2. OpenAt(view[CloneOf[r]], job[r].task)
      BY <2>1 DEF OwnInv, FoundOwn, HoldsOpen
    <2>3. hub' = hub /\ late' = late
      BY <1>2 DEF ReadRunHead, Look, ledgerVars
    <2>4. FoundOwn(r)'
      BY <2>1, <2>2, <2>3
      DEF FoundOwn, HoldsSigned, HeadSigned, HoldsOpen, HeadOpen, OpenAt, StateAt
    <2> QED
      BY <2>3, <2>4, StillIsOwn DEF SoundOwn
  <1>3. CASE AppendExecuted(r)
    <2> DEFINE row == NewRow("EXECUTED", job[r].task, job[r].sha)
    <2>1. job[r].task \in Tasks /\ job[r].sha \in Shas /\ OpenAt(job[r].head, job[r].task)
      BY <1>3 DEF TypeInv, Engaged, AppendExecuted, OwnInv, FoundOwn, HeadOpen
    <2>2. row \in Row /\ row.action = "EXECUTED" /\ row.task = job[r].task
      BY <2>1, NewRowTypes DEF StatusActions, NewRow
    <2>3. /\ Accepted(r, row) \/ NotAccepted(r, row)
          /\ (Goto(r, "queue") /\ UNCHANGED job) \/ Stop(r)
      BY <1>3 DEF AppendExecuted
    <2> HIDE DEF row
    <2>4. OwnGrowth
      BY <2>1, <2>2, <2>3, AppendIsOwn DEF RightOwn
    <2>5. FoundOwn(r)'
      BY <2>3, GotoIs, NothingToHold, StopOwn DEF Relying
    <2> QED
      BY <2>4, <2>5 DEF SoundOwn
  <1>4. CASE UpdateQueue(r)
    BY <1>4, GotoIs, NothingToHold, StopOwn, StillIsOwn
    DEF UpdateQueue, SoundOwn, ledgerVars, Relying
  <1>5. CASE RedlineAfterRun(r)
    BY <1>5, RedlineIsOwn, StopOwn DEF RedlineAfterRun, SoundOwn
  <1> QED
    BY <1>1, <1>2, <1>3, <1>4, <1>5 DEF Run

LEMMA AppendSignedOwn ==
  ASSUME TypeInv, NEW g \in Actors, AppendSigned(g)
  PROVE  SoundOwn(g)
  <1> DEFINE row == [NewRow("SIGNED", job[g].task, job[g].sha) EXCEPT
                     !.signature = job[g].signature]
  <1>0. job[g].task \in Tasks /\ job[g].sha \in Shas /\ job' = job
    BY DEF TypeInv, Engaged, AppendSigned
  <1>1. row \in Row
    BY <1>0, NewRowTypes, ActorTypes DEF StatusActions
  <1>2. row.action = "SIGNED" /\ row.task = job[g].task /\ row.sha = job[g].sha
    BY DEF NewRow
  <1>3. \/ Accepted(g, row) /\ Goto(g, "merge")
        \/ NotAccepted(g, row) /\ Goto(g, "release")
    BY DEF AppendSigned
  <1> HIDE DEF row
  <1>4. OwnGrowth
    BY <1>1, <1>2, <1>3, OtherRowsAreOwn, AppendIsOwn
  <1>5. CASE Accepted(g, row) /\ Goto(g, "merge")
    <2>1. pc'[g] = "merge" /\ hub' = Append(hub, row) /\ view'[CloneOf[g]] = Len(hub) + 1
      BY <1>5, GotoIs, ActorTypes DEF Accepted, TypeInv, TypeOK
    <2>2. OnSigned(view[CloneOf[g]], job[g].task, job[g].sha)'
      BY <1>0, <1>1, <1>2, <2>1, AppendRow DEF OnSigned, TypeInv, TypeOK
    <2>3. FoundOwn(g)'
      BY <2>1, <2>2 DEF FoundOwn, HoldsSigned, HeadSigned, HoldsOpen, HeadOpen
    <2> QED
      BY <1>4, <2>3 DEF SoundOwn
  <1>6. CASE NotAccepted(g, row) /\ Goto(g, "release")
    BY <1>4, <1>6, GotoIs, NothingToHold DEF SoundOwn, Relying
  <1> QED
    BY <1>3, <1>5, <1>6

LEMMA MergeOwn ==
  ASSUME TypeInv, OwnInv, NEW g \in Actors, MergeCommit(g)
  PROVE  SoundOwn(g)
  <1>1. /\ pc[g] = "merge" /\ hub' = hub /\ late' = late /\ view' = view
        /\ pc'[g] \in {"reread", "release"}
        /\ job'[g].task = job[g].task /\ job'[g].sha = job[g].sha
    BY DEF MergeCommit, ledgerVars, Goto, TypeInv, TypeOK, Job
  <1>2. OnSigned(view[CloneOf[g]], job[g].task, job[g].sha)
    BY <1>1 DEF OwnInv, FoundOwn, HoldsSigned
  <1>3. FoundOwn(g)'
    BY <1>1, <1>2 DEF FoundOwn, HoldsSigned, HeadSigned, HoldsOpen, HeadOpen, OnSigned
  <1> QED
    BY <1>1, <1>3, StillIsOwn DEF SoundOwn

LEMMA RereadOwn ==
  ASSUME TypeInv, OwnInv, NEW g \in Actors, RereadHead(g)
  PROVE  SoundOwn(g)
  <1>1. /\ pc[g] = "reread" /\ hub' = hub /\ late' = late
        /\ pc'[g] = "record" /\ job'[g].head = view[CloneOf[g]]
        /\ job'[g].task = job[g].task /\ job'[g].sha = job[g].sha
    BY DEF RereadHead, Look, ledgerVars, Goto, TypeInv, TypeOK, Job
  <1>2. OnSigned(view[CloneOf[g]], job[g].task, job[g].sha)
    BY <1>1 DEF OwnInv, FoundOwn, HoldsSigned
  <1>3. FoundOwn(g)'
    BY <1>1, <1>2 DEF FoundOwn, HoldsSigned, HeadSigned, HoldsOpen, HeadOpen, OnSigned
  <1> QED
    BY <1>1, <1>3, StillIsOwn DEF SoundOwn

LEMMA AppendMergedOwn ==
  ASSUME TypeInv, OwnInv, NEW g \in Actors, AppendMerged(g)
  PROVE  SoundOwn(g)
  <1> DEFINE row == [NewRow("MERGED", job[g].task, job[g].sha) EXCEPT !.merge = job[g].merged]
  <1>0. /\ job[g].task \in Tasks /\ job[g].sha \in Shas /\ pc'[g] = "release"
        /\ OnSigned(job[g].head, job[g].task, job[g].sha)
    BY GotoIs DEF TypeInv, Engaged, AppendMerged, OwnInv, FoundOwn, HeadSigned
  <1>1. row \in Row
    BY <1>0, NewRowTypes, ActorTypes DEF StatusActions
  <1>2. row.action = "MERGED" /\ row.task = job[g].task /\ row.sha = job[g].sha
    BY DEF NewRow
  <1>3. Accepted(g, row) \/ NotAccepted(g, row)
    BY DEF AppendMerged
  <1> HIDE DEF row
  <1>4. OwnGrowth
    BY <1>0, <1>1, <1>2, <1>3, AppendIsOwn DEF RightOwn
  <1> QED
    BY <1>0, <1>4, NothingToHold DEF SoundOwn, Relying

LEMMA GateOwn ==
  ASSUME TypeInv, OwnInv, NEW g \in Actors, Gate(g)
  PROVE  SoundOwn(g)
  <1>1. CASE ReadHead(g)
    BY <1>1, GotoIs, NothingToHold, StillIsOwn
    DEF ReadHead, Look, SoundOwn, ledgerVars, Relying
  <1>2. CASE ReadState(g)
    BY <1>2, GotoIs, NothingToHold, StopOwn, StillIsOwn
    DEF ReadState, Refuse, Look, SoundOwn, ledgerVars, Relying
  <1>3. CASE Approve(g)
    <2>1. pc'[g] \in {"redline", "acquire"} \/ Stop(g)
      BY <1>3, GotoIs DEF Approve
    <2> QED
      BY <1>3, <2>1, NothingToHold, StopOwn, StillIsOwn
      DEF Approve, SoundOwn, ledgerVars, Relying
  <1>4. CASE RedlineAtGate(g)
    BY <1>4, RedlineIsOwn, StopOwn DEF RedlineAtGate, SoundOwn
  <1>5. CASE Acquire(g)
    BY <1>5, GotoIs, NothingToHold, StopOwn, StillIsOwn DEF Acquire, SoundOwn, Relying
  <1>6. CASE Release(g)
    BY <1>6, GotoIs, NothingToHold, StopOwn, StillIsOwn DEF Release, SoundOwn, Relying
  <1>7. CASE BindEvidence(g)
    <2> DEFINE row == NewRow("EVIDENCE", job[g].task, NoSha)
    <2>1. row \in Row /\ row.action = "EVIDENCE"
      <3>1. job[g].task \in Tasks \cup {Free}
        BY ActorTypes DEF Job
      <3> QED
        BY <3>1, NewRowTypes DEF RecordOnlyActions
    <2>2. /\ (hub' = Append(hub, row) /\ late' = late) \/ UNCHANGED <<hub, late>>
          /\ Stop(g)
      BY <1>7 DEF BindEvidence, ledgerVars
    <2> HIDE DEF row
    <2> QED
      BY <2>1, <2>2, OtherRowsAreOwn, StopOwn DEF OwnGrowth, SoundOwn
  <1> QED
    BY <1>1, <1>2, <1>3, <1>4, <1>5, <1>6, <1>7, AppendSignedOwn, MergeOwn, RereadOwn,
       AppendMergedOwn
    DEF Gate

LEMMA WorksOwn ==
  ASSUME TypeInv, OwnInv, NEW a \in Actors, Works(a)
  PROVE  SoundOwn(a)
  <1>1. ASSUME NEW t \in Tasks, NEW s \in Shas, BeginRun(a, t, s)
        PROVE  SoundOwn(a)
    BY <1>1, GotoIs, NothingToHold, StillIsOwn DEF BeginRun, SoundOwn, ledgerVars, Relying
  <1>2. ASSUME NEW t \in Tasks, NEW mode \in Modes, BeginGate(a, t, mode)
        PROVE  SoundOwn(a)
    BY <1>2, GotoIs, NothingToHold, StillIsOwn DEF BeginGate, SoundOwn, ledgerVars, Relying
  <1>3. ASSUME Crash(a)
        PROVE  SoundOwn(a)
    BY <1>3, StopOwn, StillIsOwn DEF Crash, SoundOwn, ledgerVars
  <1> QED
    BY <1>1, <1>2, <1>3, RunOwn, GateOwn DEF Works

LEMMA LandedIsOwn ==
  ASSUME TypeInv, LateRight, LateOwn, Land
  PROVE  OwnGrowth
  <1>1. PICK l \in late : /\ l.head = Len(hub) /\ hub' = Append(hub, l.row)
                          /\ late' = late \ {l}
    BY DEF Land
  <1>2. l.row \in Row /\ RightOwn(Len(hub), l.row)
    BY <1>1 DEF TypeInv, TypeOK, LateOwn
  <1> QED
    BY <1>1, <1>2 DEF OwnGrowth

\* Around the processes, a clone moves only while nobody works in it.
LEMMA OutsideOwn ==
  ASSUME Inv, OwnInv, Outside
  PROVE  OwnGrowth /\ \A b \in Actors : pc[b] = "idle" \/ view'[CloneOf[b]] = view[CloneOf[b]]
  <1>0. TypeInv /\ LateRight /\ LateOwn
    BY DEF Inv, OwnInv
  <1>1. CASE Land
    BY <1>0, <1>1, LandedIsOwn DEF Land
  <1>2. ASSUME NEW t \in Tasks, NEW action \in HumanActions, HumanRow(t, action)
        PROVE  OwnGrowth /\ view' = view
    <2>1. PICK row \in Row : /\ hub' = Append(hub, row) /\ row.action = action
                             /\ row.action \notin {"SIGNED", "MERGED"}
      BY <1>2, HumanRowIs
    <2>2. RightOwn(Len(hub), row)
      BY <2>1 DEF RightOwn, OnlyDxExecutes
    <2> QED
      BY <1>2, <2>1, <2>2 DEF HumanRow, OwnGrowth
  <1>3. ASSUME NEW c \in Clones, NEW d \in Clones, SyncClone(c, d)
        PROVE  /\ OwnGrowth
               /\ \A b \in Actors : pc[b] = "idle" \/ view'[CloneOf[b]] = view[CloneOf[b]]
    BY <1>0, <1>3, StillIsOwn, GateAssumption DEF SyncClone, TypeInv, TypeOK
  <1>4. ASSUME NEW t \in Tasks, NEW by \in Signers, Sign(t, by)
        PROVE  OwnGrowth /\ view' = view
    BY <1>4, StillIsOwn DEF Sign, ledgerVars
  <1>5. ASSUME NEW s \in Shas, Inline(s)
        PROVE  OwnGrowth /\ view' = view
    BY <1>5, StillIsOwn DEF Inline, ledgerVars
  <1> QED
    BY <1>1, <1>2, <1>3, <1>4, <1>5 DEF Outside

LEMMA OwnInit == Init => OwnInv
  <1> SUFFICES ASSUME Init PROVE OwnInv
    OBVIOUS
  <1>1. HubOwn
    <2>1. \A i \in 1..Len(FirstRows) : FirstRows[i].action \notin {"MERGED", "EXECUTED"}
      BY FirstRowsAre
    <2>2. DOMAIN hub = 1..Len(FirstRows) /\ hub = FirstRows
      BY FirstRowsAre DEF Init
    <2> QED
      BY <2>1, <2>2, OtherRowsAreOwn DEF HubOwn
  <1>2. LateOwn /\ \A a \in Actors : FoundOwn(a)
    BY DEF Init, LateOwn, FoundOwn, HoldsSigned, HeadSigned, HoldsOpen, HeadOpen
  <1> QED
    BY <1>1, <1>2 DEF OwnInv

LEMMA OwnStep ==
  ASSUME OneActorPerClone
  PROVE  Inv /\ OwnInv /\ [Next]_vars => OwnInv'
  <1> SUFFICES ASSUME Inv, OwnInv, [Next]_vars PROVE OwnInv'
    OBVIOUS
  <1>0. TypeInv /\ HubOwn /\ LateOwn /\ \A b \in Actors : FoundOwn(b)
    BY DEF Inv, OwnInv
  <1>1. ASSUME NEW a \in Actors, Works(a) PROVE OwnInv'
    <2>1. LedgerGrows /\ OthersStay(a) /\ OwnGrowth /\ FoundOwn(a)'
      BY <1>0, <1>1, WorksTyped, WorksOwn DEF Typed, SoundOwn
    <2>2. ASSUME NEW b \in Actors \ {a} PROVE FoundOwn(b)'
      <3>1. CloneOf[b] \in Clones \ {CloneOf[a]}
        BY GateAssumption DEF OneActorPerClone
      <3> QED
        BY <1>0, <2>1, <3>1, FoundOwnStays DEF OthersStay
    <2>3. \A b \in Actors : FoundOwn(b)'
      BY <2>1, <2>2
    <2> QED
      BY <1>0, <2>1, <2>3, GrowthIsOwn DEF OwnInv
  <1>2. CASE Outside
    <2>1. /\ LedgerGrows /\ UNCHANGED <<pc, job>> /\ OwnGrowth
          /\ \A b \in Actors : pc[b] = "idle" \/ view'[CloneOf[b]] = view[CloneOf[b]]
      BY <1>0, <1>2, OutsideTyped, OutsideOwn DEF Around
    <2>2. ASSUME NEW b \in Actors PROVE FoundOwn(b)'
      <3>1. CASE pc[b] = "idle"
        BY <2>1, <3>1, NothingToHold DEF Relying
      <3>2. CASE view'[CloneOf[b]] = view[CloneOf[b]]
        BY <1>0, <2>1, <3>2, FoundOwnStays
      <3> QED
        BY <2>1, <3>1, <3>2
    <2> QED
      BY <1>0, <2>1, <2>2, GrowthIsOwn DEF OwnInv
  <1>3. CASE UNCHANGED vars
    <2>1. LedgerGrows /\ OwnGrowth
      BY <1>0, <1>3, LedgerKept, TypeInvParts, StillIsOwn DEF vars, ledgerVars
    <2>2. \A b \in Actors : FoundOwn(b)'
      BY <1>0, <1>3, <2>1, FoundOwnStays DEF vars, ledgerVars
    <2> QED
      BY <1>0, <2>1, <2>2, GrowthIsOwn DEF OwnInv
  <1> QED
    BY <1>1, <1>2, <1>3, NextIs

LEMMA OwnInvariant ==
  ASSUME OneActorPerClone
  PROVE  Spec => [](Inv /\ OwnInv)
  <1>1. Inv /\ OwnInv /\ [Next]_vars => OwnInv'
    BY OwnStep
  <1> QED
    BY <1>1, InvInit, InvStep, OwnInit, PTL DEF Spec

\* With one process to a clone, MERGED is recorded right on top of its SIGNED row: an
\* objection that reaches the hub in between makes the append fail, even one that
\* comes while git merges or while the append's own push is on its way.
THEOREM MergedRowsFollow ==
  ASSUME OneActorPerClone
  PROVE  Spec => []MergedFollowsSigned
  <1>1. OwnInv => MergedFollowsSigned
    BY DEF OwnInv, HubOwn, RightOwn, OnSigned, MergedFollowsSigned, RowsOf
  <1> QED
    BY <1>1, OwnInvariant, PTL

\* With one process to a clone, and no execution recorded by hand, an admission gets
\* one EXECUTED row, and none after a signature or an end, from any number of runs.
THEOREM ExecutionsAreOnce ==
  ASSUME OneActorPerClone, "EXECUTED" \notin HumanActions
  PROVE  Spec => []ExecutedOncePerAdmission
  <1>1. OwnInv => ExecutedOncePerAdmission
    BY DEF OwnInv, HubOwn, RightOwn, OpenAt, OnlyDxExecutes, StateAt, StateBefore,
           ExecutedOncePerAdmission, RowsOf
  <1> QED
    BY <1>1, OwnInvariant, PTL

=============================================================================
