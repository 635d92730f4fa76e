------------------------------ MODULE MergeGate ------------------------------
(***************************************************************************)
(* The writers of the ledger and what they decide: `dx run` recording an    *)
(* execution (executed.py, the end of cmd_run.py), `dx merge` taking a      *)
(* candidate through the RL-003 gate (cmd_merge.py), and the humans whose   *)
(* rows and signatures come from elsewhere.                                 *)
(*                                                                         *)
(* The ledger is the one SharedLedger implements: append_row is one step,   *)
(* accepted only on the hub's head, and the merge lock is taken only while  *)
(* free.  The hub only grows, so a row's hash is its position and a head is *)
(* the number of rows below it.  A clone's ledger.jsonl is a prefix of the  *)
(* hub, which only a write from that clone fast-forwards: what a process    *)
(* reads there may be stale.                                                *)
(***************************************************************************)
EXTENDS LedgerState, FiniteSets

CONSTANTS Gates,         \* the `dx merge` processes
          Runners,       \* the `dx run` processes
          Clones,        \* the ledger clones
          CloneOf,       \* the clone each process works in
          Tasks,         \* the task ids
          Shas,          \* the commits a run may produce
          Touches,       \* the most protected path class each commit touches
          DeclaredTier,  \* the tier declared for the scope
          Modes,         \* the ways `dx merge` is called
          HumanActions,  \* the rows humans append
          Free,          \* "no merge lock"
          Faults,        \* the environment's faults this instance includes
          Admitted,      \* the tasks whose ADMITTED row the hub starts with
          MaxJobs,       \* bound: merges and runs begun
          MaxHuman       \* bound: rows humans append

Actors == Gates \cup Runners
Classes == {"control-plane", "exec-surface", "plain"}
Tiers == {"control-plane", "two-human", "single-reviewer"}

\* --repo; --repo --allow-already-on-branch; no --repo
AllModes == {"merge", "inline", "record"}

AllFaults == {"crash", "late"}

ASSUME GateAssumption ==
  /\ Gates \cap Runners = {}
  /\ CloneOf \in [Actors -> Clones]
  /\ Touches \in [Shas -> Classes]
  /\ DeclaredTier \in {"two-human", "single-reviewer"}
  /\ Modes \subseteq AllModes
  /\ HumanActions \subseteq (StatusActions \ {"SIGNED", "MERGED"}) \cup {"CORRECTION"}
  /\ Faults \subseteq AllFaults
  /\ NoSha \notin Shas /\ Free \notin Tasks
  /\ Admitted \in Seq(Tasks)
  /\ MaxJobs \in Nat /\ MaxHuman \in Nat

OneActorPerClone == \A a, b \in Actors : CloneOf[a] = CloneOf[b] => a = b

----------------------------------------------------------------------------
\* Data

Signers == {"author", "second"}

\* A detached signature over task_id + head + role, and who made it.
Signature == [head : Nat, by : Signers \cup {"nobody"}]
NoSignature == [head |-> 0, by |-> "nobody"]

\* A SIGNED row names the signature; a MERGED row says whether dx made a merge
\* commit.
Row == [action : StatusActions \cup RecordOnlyActions, task : Tasks \cup {Free},
        sha : Shas \cup {NoSha}, signature : Signature, merge : BOOLEAN]

NewRow(action, task, sha) ==
  [action |-> action, task |-> task, sha |-> sha, signature |-> NoSignature,
   merge |-> FALSE]

\* What a process carries in its local variables.
Job == [task : Tasks \cup {Free}, sha : Shas \cup {NoSha}, head : Nat,
        mode : AllModes, signature : Signature,
        merged : BOOLEAN, passed : BOOLEAN]
NewJob(task, sha, mode) ==
  [task |-> task, sha |-> sha, head |-> 0, mode |-> mode, signature |-> NoSignature,
   merged |-> FALSE, passed |-> FALSE]
NoJob == NewJob(Free, NoSha, "record")

Steps == {"idle",
          "head", "state", "approve", "redline", "acquire", "sign", "merge",
          "reread", "record", "release", "bind",
          "ran", "rehead", "executed", "queue", "redline_run"}

VARIABLES
  hub,        \* the rows on the hub
  lock,       \* the task queue/MERGE_LOCK.json names on the hub
  late,       \* rows of killed pushes that may still land, with their head
  view,       \* how much of the hub each clone's ledger.jsonl holds
  queue,      \* the commit each clone's queue/<task>.json names
  approval,   \* the signature under approvals/ for each task
  onBranch,   \* the commits reachable from the merge target's head
  merges,     \* the commits dx made a merge commit for
  pc, job,    \* each process's step and local variables
  begun, said \* merges and runs begun, rows humans appended

ledgerVars == <<hub, lock, late, view>>
workVars == <<queue, approval, onBranch, merges>>
boundVars == <<begun, said>>
vars == <<ledgerVars, workVars, boundVars, pc, job>>

FirstRows ==
  <<NewRow("GENESIS", Free, NoSha)>>
    \o [i \in DOMAIN Admitted |-> NewRow("ADMITTED", Admitted[i], NoSha)]

Init ==
  /\ hub = FirstRows
  /\ lock = Free
  /\ late = {}
  /\ view = [c \in Clones |-> Len(FirstRows)]
  /\ queue = [c \in Clones |-> [t \in Tasks |-> NoSha]]
  /\ approval = [t \in Tasks |-> NoSignature]
  /\ onBranch = {} /\ merges = {}
  /\ pc = [a \in Actors |-> "idle"]
  /\ job = [a \in Actors |-> NoJob]
  /\ begun = 0 /\ said = 0

----------------------------------------------------------------------------
\* Control flow

Goto(a, step) == pc' = [pc EXCEPT ![a] = step]
Stop(a) == Goto(a, "idle") /\ job' = [job EXCEPT ![a] = NoJob]

\* The task's state in the rows a clone holds.
StateIn(c, task) == CurrentState(SubSeq(hub, 1, view[c]), task)

\* A check that writes nothing.
Look(a, step) == Goto(a, step) /\ UNCHANGED <<ledgerVars, workVars, boundVars>>
Refuse(a) == Stop(a) /\ UNCHANGED <<ledgerVars, workVars, boundVars>>

\* append_row: the clone is fast-forwarded, and the row is accepted only on the
\* head it names.
Accepted(a, row) ==
  /\ job[a].head = Len(hub)
  /\ hub' = Append(hub, row)
  /\ view' = [view EXCEPT ![CloneOf[a]] = Len(hub) + 1]
  /\ UNCHANGED <<lock, late>>

\* It raises LedgerWriteError: refused (another head, a push that lost a race,
\* git), or told that the outcome is unknown.
NotAccepted(a, row) ==
  /\ \E seen \in {view[CloneOf[a]], Len(hub)} :
       view' = [view EXCEPT ![CloneOf[a]] = seen]
  /\ UNCHANGED lock
  /\ \/ UNCHANGED <<hub, late>>
     \/ /\ "late" \in Faults /\ job[a].head = Len(hub)
        /\ \/ hub' = Append(hub, row) /\ UNCHANGED late
           \/ late' = late \cup {[row |-> row, head |-> job[a].head]} /\ UNCHANGED hub

\* A killed push reaches the hub after all.
Land ==
  /\ \E l \in late :
       /\ l.head = Len(hub)
       /\ hub' = Append(hub, l.row)
       /\ late' = late \ {l}
  /\ UNCHANGED <<lock, view, workVars, boundVars, pc, job>>

----------------------------------------------------------------------------
\* record_executed and record_control_plane_redline, at the end of dx run

BeginRun(r, t, s) ==
  /\ pc[r] = "idle" /\ begun < MaxJobs
  /\ begun' = begun + 1
  /\ Goto(r, "ran")
  /\ job' = [job EXCEPT ![r] = NewJob(t, s, "record")]
  /\ UNCHANGED <<ledgerVars, workVars, said>>

ReadOpenTask(r) ==
  LET c == CloneOf[r]
      task == job[r].task
  IN  /\ pc[r] = "ran"
      /\ IF TaskRows(SubSeq(hub, 1, view[c]), task) # <<>> /\ ~Closed(StateIn(c, task))
         THEN Look(r, "rehead") /\ UNCHANGED job
         ELSE Refuse(r)

\* Mutant of ReadRunHead: the head is taken from a fresh pull, so the row is
\* re-pointed past what the state check saw.
PullRunHead(r) ==
  /\ pc[r] = "rehead"
  /\ view' = [view EXCEPT ![CloneOf[r]] = Len(hub)]
  /\ job' = [job EXCEPT ![r].head = Len(hub)]
  /\ Goto(r, "executed")
  /\ UNCHANGED <<hub, lock, late, workVars, boundVars>>

ReadRunHead(r) ==
  /\ pc[r] = "rehead"
  /\ job' = [job EXCEPT ![r].head = view[CloneOf[r]]]
  /\ Look(r, "executed")

AppendExecuted(r) ==
  LET row == NewRow("EXECUTED", job[r].task, job[r].sha)
  IN  /\ pc[r] = "executed"
      /\ \/ Accepted(r, row) /\ Goto(r, "queue") /\ UNCHANGED job
         \/ NotAccepted(r, row) /\ Stop(r)
      /\ UNCHANGED <<workVars, boundVars>>

\* The queue file follows, if there is one; if it cannot be written the run warns
\* and stops here, before the control-plane check.
UpdateQueue(r) ==
  /\ pc[r] = "queue"
  /\ \/ /\ queue' = [queue EXCEPT ![CloneOf[r]][job[r].task] = job[r].sha]
        /\ Goto(r, "redline_run") /\ UNCHANGED job
     \/ /\ queue[CloneOf[r]][job[r].task] = NoSha
        /\ Goto(r, "redline_run") /\ UNCHANGED <<queue, job>>
     \/ Stop(r) /\ UNCHANGED queue
  /\ UNCHANGED <<ledgerVars, approval, onBranch, merges, boundVars>>

\* Mutant of TierOf: the declared tier is believed over the exec surface.
TierAsDeclared(sha, mode, readable) ==
  CASE mode = "record" \/ ~readable    -> "two-human"
    [] Touches[sha] = "control-plane"  -> "control-plane"
    [] OTHER                           -> DeclaredTier

\* decide(): what the diff touches, the declared scope; a gate without --repo,
\* and a diff that cannot be read, are two-human.
TierOf(sha, mode, readable) ==
  CASE mode = "record" \/ ~readable    -> "two-human"
    [] Touches[sha] = "control-plane"  -> "control-plane"
    [] Touches[sha] = "exec-surface"   -> "two-human"
    [] OTHER                           -> DeclaredTier

\* A REDLINE row on the head its writer reads, best effort; a task that is
\* REDLINE already is left alone.
AppendRedline(a) ==
  LET row == NewRow("REDLINE", job[a].task, job[a].sha)
  IN  \/ /\ StateIn(CloneOf[a], job[a].task).action # "REDLINE"
         /\ view[CloneOf[a]] = Len(hub)
         /\ hub' = Append(hub, row)
         /\ view' = [view EXCEPT ![CloneOf[a]] = Len(hub) + 1]
         /\ UNCHANGED <<lock, late>>
      \/ UNCHANGED ledgerVars

RedlineAfterRun(r) ==
  /\ pc[r] = "redline_run"
  /\ \/ /\ \E readable \in BOOLEAN :
             TierOf(job[r].sha, "merge", readable) = "control-plane"
        /\ AppendRedline(r)
     \/ /\ \E readable \in BOOLEAN :
             TierOf(job[r].sha, "merge", readable) # "control-plane"
        /\ UNCHANGED ledgerVars
  /\ Stop(r)
  /\ UNCHANGED <<workVars, boundVars>>

Run(r) ==
  \/ ReadOpenTask(r) \/ ReadRunHead(r) \/ AppendExecuted(r) \/ UpdateQueue(r)
  \/ RedlineAfterRun(r)

----------------------------------------------------------------------------
\* dx merge

BeginGate(g, t, mode) ==
  /\ pc[g] = "idle" /\ begun < MaxJobs
  /\ begun' = begun + 1
  /\ Goto(g, "head")
  /\ job' = [job EXCEPT ![g] = NewJob(t, NoSha, mode)]
  /\ UNCHANGED <<ledgerVars, workVars, said>>

\* get_ledger_head over the clone's file: current_head, which the signature must
\* name and the SIGNED row will.
ReadHead(g) ==
  /\ pc[g] = "head"
  /\ job' = [job EXCEPT ![g].head = view[CloneOf[g]]]
  /\ Look(g, "state")

\* Mutant of CandidateForMerge: the queue file is believed without the state.
CandidateUnchecked(c, task) ==
  IF queue[c][task] = StateIn(c, task).candidate THEN queue[c][task] ELSE NoSha

\* The task is approvable and its queue file names the candidate of its EXECUTED
\* row; with --repo the candidate must not be on the branch yet.
CandidateForMerge(c, task) ==
  LET state == StateIn(c, task)
  IN  IF Signable(state) /\ queue[c][task] = state.candidate
      THEN state.candidate ELSE NoSha

ReadState(g) ==
  LET sha == CandidateForMerge(CloneOf[g], job[g].task)
  IN  /\ pc[g] = "state"
      /\ IF sha # NoSha /\ (job[g].mode = "merge" => sha \notin onBranch)
         THEN Look(g, "approve") /\ job' = [job EXCEPT ![g].sha = sha]
         ELSE Refuse(g)

\* The signature verifies and names this task and current_head; then the tier and
\* the separation of duties.  Every check may refuse.
Approve(g) ==
  /\ pc[g] = "approve"
  /\ LET s == approval[job[g].task]
     IN  \/ \E readable \in BOOLEAN :
              LET tier == TierOf(job[g].sha, job[g].mode, readable)
              IN  /\ s.head = job[g].head
                  /\ \/ /\ tier = "control-plane"
                        /\ Goto(g, "redline") /\ UNCHANGED job
                     \/ /\ tier = "two-human" => s.by # "author"
                        /\ tier # "control-plane"
                        /\ Goto(g, "acquire")
                        /\ job' = [job EXCEPT ![g].signature = s]
         \/ Stop(g)
  /\ UNCHANGED <<ledgerVars, workVars, boundVars>>

RedlineAtGate(g) ==
  /\ pc[g] = "redline"
  /\ AppendRedline(g)
  /\ Stop(g)
  /\ UNCHANGED <<workVars, boundVars>>

\* MergeLock.__enter__: this task's own lock is entered as it stands, and so is a
\* file that a dead gate left in the clone, although the hub has no lock; another
\* task's lock, or a push that lost a race, refuses the merge.
Acquire(g) ==
  /\ pc[g] = "acquire"
  /\ \/ /\ lock \in {Free, job[g].task}
        /\ lock' = job[g].task
        /\ view' = [view EXCEPT ![CloneOf[g]] = Len(hub)]
        /\ Goto(g, "sign") /\ UNCHANGED job
     \/ /\ "crash" \in Faults /\ lock = Free
        /\ view' = [view EXCEPT ![CloneOf[g]] = Len(hub)]
        /\ Goto(g, "sign") /\ UNCHANGED <<lock, job>>
     \/ /\ view' = [view EXCEPT ![CloneOf[g]] = Len(hub)]
        /\ Stop(g) /\ UNCHANGED lock
     \/ /\ "late" \in Faults /\ lock = Free
        /\ lock' = job[g].task
        /\ Stop(g) /\ UNCHANGED view
  /\ UNCHANGED <<hub, late, workVars, boundVars>>

\* Mutant of AppendSigned: a refused SIGNED row does not stop the merge.
AppendSignedOrNot(g) ==
  LET row == [NewRow("SIGNED", job[g].task, job[g].sha) EXCEPT
             !.signature = job[g].signature]
  IN  /\ pc[g] = "sign"
      /\ Accepted(g, row) \/ NotAccepted(g, row)
      /\ Goto(g, "merge")
      /\ UNCHANGED <<workVars, boundVars, job>>

AppendSigned(g) ==
  LET row == [NewRow("SIGNED", job[g].task, job[g].sha) EXCEPT
             !.signature = job[g].signature]
  IN  /\ pc[g] = "sign"
      /\ \/ Accepted(g, row) /\ Goto(g, "merge")
         \/ NotAccepted(g, row) /\ Goto(g, "release")
      /\ UNCHANGED <<workVars, boundVars, job>>

\* Mutant of MergeCommit: whatever git reports counts as a merge (F-003).
MergeAnyExit(g) ==
  LET sha == job[g].sha
  IN  /\ pc[g] = "merge"
      /\ merges' = IF sha \in onBranch THEN merges ELSE merges \cup {sha}
      /\ onBranch' = onBranch \cup {sha}
      /\ job' = [job EXCEPT ![g].merged = TRUE]
      /\ Goto(g, "reread")
      /\ UNCHANGED <<ledgerVars, queue, approval, boundVars>>

\* git merge --no-ff into the target.  A merge that fails is aborted, and a dirty
\* tree refuses it before git looks.
MergeCommit(g) ==
  LET sha == job[g].sha
  IN  /\ pc[g] = "merge"
      /\ \/ /\ job[g].mode # "record" /\ sha \notin onBranch
            /\ merges' = merges \cup {sha}
            /\ onBranch' = onBranch \cup {sha}
            /\ job' = [job EXCEPT ![g].merged = TRUE]
            /\ Goto(g, "reread")
         \/ /\ job[g].mode = "record" \/ (job[g].mode = "inline" /\ sha \in onBranch)
            /\ Goto(g, "reread") /\ UNCHANGED <<merges, onBranch, job>>
         \/ /\ job[g].mode # "record"
            /\ Goto(g, "release") /\ UNCHANGED <<merges, onBranch, job>>
      /\ UNCHANGED <<ledgerVars, queue, approval, boundVars>>

\* Mutant of RereadHead: the head is taken from a fresh pull.
PullHead(g) ==
  /\ pc[g] = "reread"
  /\ view' = [view EXCEPT ![CloneOf[g]] = Len(hub)]
  /\ job' = [job EXCEPT ![g].head = Len(hub)]
  /\ Goto(g, "record")
  /\ UNCHANGED <<hub, lock, late, workVars, boundVars>>

\* read_head over the clone's file, without a pull.
RereadHead(g) ==
  /\ pc[g] = "reread"
  /\ job' = [job EXCEPT ![g].head = view[CloneOf[g]]]
  /\ Look(g, "record")

AppendMerged(g) ==
  LET row == [NewRow("MERGED", job[g].task, job[g].sha) EXCEPT !.merge = job[g].merged]
  IN  /\ pc[g] = "record"
      /\ \/ Accepted(g, row) /\ job' = [job EXCEPT ![g].passed = TRUE]
         \/ NotAccepted(g, row) /\ UNCHANGED job
      /\ Goto(g, "release")
      /\ UNCHANGED <<workVars, boundVars>>

\* MergeLock.__exit__ removes whatever lock is there.  Only a gate that recorded
\* MERGED goes on, to bind its evidence bundle.
Release(g) ==
  /\ pc[g] = "release"
  /\ \/ /\ lock' = Free
        /\ view' = [view EXCEPT ![CloneOf[g]] = Len(hub)]
        /\ IF job[g].passed THEN Goto(g, "bind") /\ UNCHANGED job ELSE Stop(g)
     \/ Stop(g) /\ UNCHANGED <<lock, view>>
  /\ UNCHANGED <<hub, late, workVars, boundVars>>

\* The EVIDENCE row, on the head the clone holds, best effort.
BindEvidence(g) ==
  LET row == NewRow("EVIDENCE", job[g].task, NoSha)
  IN  /\ pc[g] = "bind"
      /\ \/ /\ view[CloneOf[g]] = Len(hub)
            /\ hub' = Append(hub, row)
            /\ view' = [view EXCEPT ![CloneOf[g]] = Len(hub) + 1]
            /\ UNCHANGED <<lock, late>>
         \/ UNCHANGED ledgerVars
      /\ Stop(g)
      /\ UNCHANGED <<workVars, boundVars>>

Gate(g) ==
  \/ ReadHead(g) \/ ReadState(g) \/ Approve(g) \/ RedlineAtGate(g)
  \/ Acquire(g) \/ AppendSigned(g) \/ MergeCommit(g) \/ RereadHead(g)
  \/ AppendMerged(g) \/ Release(g) \/ BindEvidence(g)

----------------------------------------------------------------------------
\* Humans and the environment

\* A human, or a tool that is not dx, appends a row on the hub's head.
HumanRow(t, action) ==
  /\ said < MaxHuman
  /\ said' = said + 1
  /\ \E s \in IF action = "EXECUTED" THEN Shas ELSE {NoSha} :
       hub' = Append(hub, NewRow(action, t, s))
  /\ UNCHANGED <<lock, late, view, workVars, begun, pc, job>>

\* A keyholder signs a task at the head.  (A signature made in a stale clone is
\* one made when that head was the hub's.)
Sign(t, by) ==
  /\ approval' = [approval EXCEPT ![t] = [head |-> Len(hub), by |-> by]]
  /\ UNCHANGED <<ledgerVars, queue, onBranch, merges, boundVars, pc, job>>

\* While no dx process works in it, a clone is fast-forwarded and gets the queue
\* files of another.
SyncClone(c, d) ==
  /\ \A a \in Actors : CloneOf[a] = c => pc[a] = "idle"
  /\ view' = [view EXCEPT ![c] = Len(hub)]
  /\ queue' = [queue EXCEPT ![c] = queue[d]]
  /\ UNCHANGED <<hub, lock, late, approval, onBranch, merges, boundVars, pc, job>>

\* A commit gets onto the target branch without dx.
Inline(s) ==
  /\ onBranch' = onBranch \cup {s}
  /\ UNCHANGED <<ledgerVars, queue, approval, merges, boundVars, pc, job>>

\* A process dies; a lock it took stays on the hub.
Crash(a) ==
  /\ "crash" \in Faults
  /\ pc[a] # "idle"
  /\ Stop(a)
  /\ UNCHANGED <<ledgerVars, workVars, boundVars>>

Environment ==
  \/ Land
  \/ \E t \in Tasks, action \in HumanActions : HumanRow(t, action)
  \/ \E t \in Tasks, by \in Signers : Sign(t, by)
  \/ \E c, d \in Clones : SyncClone(c, d)
  \/ \E s \in Shas : Inline(s)
  \/ \E a \in Actors : Crash(a)

Next ==
  \/ \E r \in Runners :
       Run(r) \/ \E t \in Tasks, s \in Shas : BeginRun(r, t, s)
  \/ \E g \in Gates :
       Gate(g) \/ \E t \in Tasks, mode \in Modes : BeginGate(g, t, mode)
  \/ Environment

Spec == Init /\ [][Next]_vars

----------------------------------------------------------------------------
\* Properties

TypeOK ==
  /\ hub \in Seq(Row)
  /\ lock \in Tasks \cup {Free}
  /\ late \in SUBSET [row : Row, head : Nat]
  /\ view \in [Clones -> 1..Len(hub)]
  /\ queue \in [Clones -> [Tasks -> Shas \cup {NoSha}]]
  /\ approval \in [Tasks -> Signature]
  /\ onBranch \in SUBSET Shas
  /\ merges \in SUBSET onBranch
  /\ pc \in [Actors -> Steps]
  /\ job \in [Actors -> Job]
  /\ begun \in 0..MaxJobs /\ said \in 0..MaxHuman

\* The state of row i's task just below row i.
StateBefore(i) == CurrentState(SubSeq(hub, 1, i-1), hub[i].task)

RowsOf(action) == {i \in DOMAIN hub : hub[i].action = action}

\* A signature is recorded only over a task that was signable, for its candidate,
\* on the very head it was made for (RL-003; "a SIGNED row's signature binds to
\* the head it was verified against"), whatever was appended while the gate ran.
SignedAsApproved ==
  \A i \in RowsOf("SIGNED") :
    /\ Signable(StateBefore(i))
    /\ StateBefore(i).candidate = hub[i].sha
    /\ hub[i].signature.head = i - 1

\* The signer of a candidate that touches the exec surface, or of a two-human
\* scope, is not its author (Decision 0020).
SignedBySecondHuman ==
  \A i \in RowsOf("SIGNED") :
    \/ Touches[hub[i].sha] = "exec-surface"
    \/ DeclaredTier = "two-human"
    => hub[i].signature.by = "second"

\* MERGED is recorded right on top of its task's SIGNED row: nobody's objection
\* comes between them.
MergedFollowsSigned ==
  \A i \in RowsOf("MERGED") :
    /\ hub[i-1].action = "SIGNED"
    /\ hub[i-1].task = hub[i].task /\ hub[i-1].sha = hub[i].sha

\* dx makes a merge commit only for a candidate whose SIGNED row is on the hub.
MergeHasSignature ==
  \A s \in merges : \E i \in RowsOf("SIGNED") : hub[i].sha = s

\* A MERGED row that names a merge commit names one that dx made ("the MERGED row
\* recorded a merge that never happened", finding F-003).
MergedRowIsTrue ==
  \A i \in RowsOf("MERGED") : hub[i].merge => hub[i].sha \in merges

\* At most one execution is recorded for one admission, and none after a
\* signature or an end ("appending a second would rewrite history").
ExecutedOncePerAdmission ==
  \A i \in RowsOf("EXECUTED") : ~Closed(StateBefore(i))

\* Nothing is signed past an objection "without a row that says the objection was
\* answered": a re-admission or a review.
ObjectionsAreAnswered ==
  \A i \in RowsOf("SIGNED") : \A j \in 1..(i-1) :
    /\ hub[j].task = hub[i].task
    /\ hub[j].action \in WithholdingActions
    => \E k \in (j+1)..(i-1) :
         hub[k].task = hub[i].task /\ hub[k].action \in {"ADMITTED", "REVIEWED"}

=============================================================================
