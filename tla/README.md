# A TLA+ model of dx-orchestrator

`dx` runs coding tasks through an external executor (pxx), records what
happened in a hash-chained ledger shared through git, and merges a candidate
only under a human's signature.  This directory models the parts of it in which
the order of steps matters: several processes, clones and people, and programs
that die half-way.

Paths below are relative to `src/src/dx/` unless they say otherwise.

## The system

| component | state it keeps | operations | talks to |
|---|---|---|---|
| shared ledger (`ledger_writer.py`) | `ledger.jsonl`, `queue/MERGE_LOCK.json`, the clone's branch, `refs/dx/unpublished/`, the hub's branch | `append_row`, `MergeLock.acquire/release`, `pull_ledger` | git, the hub |
| task state (`ledger_state.py`) | none: a reading of a task's rows | `current_state`, `candidate_for_merge` | everyone who appends |
| merge gate (`cmd_merge.py`, `approval_tier.py`) | the gate's locals; the target branch | `dx merge` | ledger, target checkout, signatures |
| execution record (`executed.py`) | `queue/<task>.json` | `record_executed`, `record_control_plane_redline` | ledger |
| task run (`cmd_run.py`, `task_branch.py`, `seed.py`, `salvage.py`) | branches, tags and tree of the target checkout | `dx run` | pxx, ledger, evidence store |
| decision store (`learn_store.py`) | `journal.json`, `audit.jsonl`, one file per record kind, `store.lock` | `load_*`, `commit`, `recover` | the file system |
| learn queue (`cmd_learn.py`, `learn_engine.py`, `learn_forward.py`) | recommendations, adoptions, forward records | `dx learn run/accept/reject/retire/forward/reconcile` | decision store, pxx's inbox |
| pxx bridge (`learn_bridge.py`) | files in pxx's inbox | `inspect`, `write_pending`, `withdraw_if_ours` | pxx's cycle (a lock is shared) and triage (none is) |
| SQL decision store (`MssqlStore`, `learn_mssql.sql`) | the same in SQL tables | one SQL transaction per commit | SQL Server |
| evidence (`evidence.py`; written by `dx run`, `dx merge`, `dx verify-gui`, staged actions) | bundle directories with `SHA256SUMS` | write, digest, bind; a person prunes | ledger (EVIDENCE rows), VLM, PSOperator's observer |
| approval keys (`approval_key.py`, `key_registry.py`, `tail_anchor.py`, `ledger_utils.py`) | key files, a registry chain | verify a signature, verify the chain | gpg |
| staged actions (`staged_action.py`, `staged_harness.py`, `examples/staged_harness_live.py`) | a staged bundle, its approval | stage, reject, approve, observe, execute | ledger, evidence, the screen |
| reports and configuration (`cmd_tier`, `cmd_doctor`, `cmd_roles`, `psoperator_client`, `config_loader`, `model_probe`, `redact`, roles, `learn_sources/stats/views/model`) | none that changes | read-only | |

How they interact: a planner appends ADMITTED; `dx run` works in the target
checkout, pins a candidate with a tag, and appends EXECUTED; a person reviews
and signs `task_id + head + role`; `dx merge` checks all of it, takes the merge
lock, appends SIGNED, merges, appends MERGED and binds the evidence.  Beside
that, `dx learn` turns run records into recommendations that humans decide, and
offers some of them to pxx.

What is hard, and what each component owes:

- **Shared ledger.**  Writers race through a hub that only fast-forwards; a push
  may be killed and still land; a writer may die between two git commands.  The
  hub must stay one chain, and what a writer reports must be true for good.
- **Merge gate.**  Everything it checks was read before it appends.  Nothing may
  be signed or merged that was not approved in that very state, and nothing
  recorded as merged that was not.
- **Task run.**  pxx's commits are the product.  No failing step on the way back
  to the base branch may lose them, and what is recorded must be this run's.
- **Decision store.**  A decision is one audit line and up to three files; it
  must be recorded once and whole although any write may be the last one.
- **Learn queue.**  A pass works on evidence it gathered before it took the lock,
  and a human decides on what was printed some time ago.  Neither may undo or
  misread what happened in between, and a change is only judged on a comparison
  that is its own.
- **Bridge.**  pxx's inbox is written by programs that share no lock with dx.
  dx must not remove or overwrite what is not its own, nor lose track of what is.
- **Evidence.**  A bundle is many files and one promise.  What was announced, and
  what a row names, must verify although a command may die in any write.
- **Staged actions.**  What runs must be what was approved, in the world it was
  approved in; the world moves, and the harness's own rows move the ledger.

`PROJECT.json` lists these hazards at their lines.

## Modules

| module | models | notes |
|---|---|---|
| `AppendOnlyLedger` | what the ledger promises | a sequence of rows that only grows at its end, one row at a time, and a lock that is taken only while free |
| `SharedLedger` | `ledger_writer.py` | the steps of an append, an acquisition and a release between which another writer, a late push or a crash makes a difference; git commands that only this clone can see are taken together (`Pull`, the quarantine) |
| `LedgerState` | `ledger_state.py` | `CurrentState` is a left fold, as in the code |
| `MergeGate` | `cmd_merge.py`, `executed.py`, the end of `cmd_run.py`, `approval_tier.py` | one action per read, check or append; uses the ledger as the abstract one |
| `TaskRun` | `cmd_run.py`, `task_branch.py`, `seed.py`, `salvage.py` | commits with their parents, branches, tags, the tree, the queue's `base_sha` |
| `DecisionAudit` | what the decision store promises | a transaction happens whole, once, on the records it was made on |
| `DecisionStore` | `JsonStore` of `learn_store.py` | the files a process sees and the files that survive a power loss |
| `SqlStore` | `MssqlStore` of `learn_store.py`, `learn_mssql.sql` | one SQL statement per step; implements the same `DecisionAudit` |
| `LearnQueue` | `learn` and `reconcile` and `efficacy` of `learn_engine.py`, the decisions of `cmd_learn.py` | a command under the store's lock is one step |
| `LearnForward` | `learn_forward.py`, `learn_bridge.py`, the commands of `cmd_learn.py` | several commands under `mutation_lock`; a commit to the store is one step, by `DecisionStore`; each look at, lock of and write to the inbox is one |
| `EvidenceStore` | `evidence.py`, `_emit_evidence` of `cmd_run.py`, `_emit_merge_evidence` and `_bind_bundle_into_ledger` of `cmd_merge.py`, `cmd_verify.py`, `observer.py` | one action per file, the digest and the row apart |
| `StagedAction` | `staged_harness.py`, `staged_action.py`, residency in `approval_key.py`, the caller in `examples/` | extends `EvidenceStore`; one action per row |
| `MC...` | instances for TLC | |
| `SharedLedgerProofs`, `MergeGateProofs`, `TaskRunProofs`, `DecisionStoreProofs`, `SqlStoreProofs`, `LearnQueueProofs`, `LearnForwardProofs` | | proofs about the module of that name |
| `StagedActionProofs` | | proofs about `StagedAction` and the `EvidenceStore` it extends |

The composition is by layers.  `SharedLedger` implements `AppendOnlyLedger`;
`MergeGate` is written over that abstract ledger, with `append_row` as one step
that is accepted only on the hub's head.  `TaskRun` and `MergeGate` meet in the
EXECUTED row and in the merge: `TaskRun` has `Merge` as an external step, and
`MergeGate` has a run's effect on the ledger as a short process of its own.
`DecisionStore` and `SqlStore`, the two stores a configuration may choose, both
implement `DecisionAudit`; `LearnQueue` and `LearnForward` are written over that
promise, one over the queue and its decisions, the other over pxx's inbox.
`StagedAction` extends `EvidenceStore`: a staged action shares the store and the
ledger with the commands beside it.

### SharedLedger

A git history is the sequence of its commits, so "is an ancestor" is
`IsPrefix`; a commit carries the two files dx synchronises.  Each clone has
`branch` (HEAD), `index`, `tree` and `unpublished` (the refs that `_quarantine`
makes).  A write goes `Pull`, `CheckHead`/`CheckAcquire`/`CheckRelease`,
`Write`, `MakeCommit`, `Push`, `ReadBack`, with an exit to `Raise` wherever the
code raises.  `inflight` holds pushes of killed git processes, which may `Land`
later.  `hist` records what was made, pushed, reported as recorded and reported
as not recorded; no action reads it.

### MergeGate

A row's hash is its position, so a head is a number.  `view[c]` is how much of
the hub a clone has.  `ReadHead`, `ReadState`, `Approve` are the checks in the
order of `_run_merge`; `Acquire` to `Release` is the `with MergeLock` block;
`BindEvidence` follows a pass.  With crashes among the faults `Acquire` may
also enter on a left-over lock file, as `SharedLedger` shows.  `BeginRun` to `RedlineAfterRun` are the ledger
steps at the end of `dx run`.  Humans append rows (`HumanRow`), sign (`Sign`),
pull their clones (`SyncClone`) and commit to the target (`Inline`).

### TaskRun

Commits are numbered in the order they are made and know their maker and run.
The steps are those of `cmd_run`: `Start` (preflight and the recorded base),
`Create`, the seed, pxx's commits and its end (kept, reset, or refused to
reset), `ReadBack`, `Salvage`, `Tag`, `Settle`, `Receipt`, `Record`, `Finish`.

### DecisionStore

`disk` is what processes see and `durable` what survives a power loss; a rename,
creation or unlink moves from one to the other at the next fsync of the
directory.  `WriteJournal`, `RenameJournal`, `SyncJournal`, the audit line in
its two halves, `NextFile`/`WriteFile`/`SyncFile` per kind and
`RemoveJournal`/`SyncRemoved` are the file operations in the order of `commit`
and `_replay`; a recovery runs the same steps from whatever is there.

### SqlStore

A row's revision is the number of transactions that wrote it, `audit` the rows of
`DecisionAudit` with the hash each names.  `BeginCommit` (after `verify_audit`),
`SelectRow` (`WITH (UPDLOCK, HOLDLOCK)`), `NothingToWrite`, `ReadTail` and
`Commit` are the statements of `commit` in their order; `locked` is who holds which
row, and `applock` the session lock of `mutation_lock`.  A scan reads row by row.
`LoseConnection` rolls back, `LoseAnswer` loses the connection after the server
committed, `Deadlocked` is the server's choice of a victim when two sessions wait
for each other.  One session of the instance commits inside `mutation_lock`, as the
commands of `dx learn` do, the other without it, because the class promises a `Tx`
by itself and the tests call `commit` that way.

### LearnQueue

`recs` and `adoptions` are the store's two tables, `merged` the MERGED rows of the
ledger, `seams` the landed changes of a view's exclusion policy.  `Gather` is what a
pass reads before the lock (with or without pxx's source), `Learn` is `learn` and
`reconcile` under it.  `Show` and `ShowAdoption` are the two reads of `dx learn show`;
`Accept`, `Reject`, `Link` and `Retire` the decisions, with or without `--seen`.  An
acceptance bears the time at which its command began to wait for the lock
(`since`), since the code takes the time first.  `Comparable`, `SamePolicy` and
`Confounders` are the conditions of `efficacy`; the rates themselves are a choice of
evidence weights (`Findings`).

### LearnForward

`cmd[c]` is a dx command with its locals and `mutex` whoever has `mutation_lock`.  A
pass and what follows a decision (`SettleForward`, which the code leaves out when pxx's
configuration cannot be read) run step by step under the lock; a decision and a pass
with `--no-pxx` (`BlindPass`) commit once.  A command may die anywhere (`Crash`), and
then the kernel frees its locks.  With the SQL store the lock is a session's:
`LoseSession` takes it away while the command works on the inbox, and the command goes
on without it until it comes back to the store (`GoOn`), where it fails.

`Inspect` gives the same eight views.  `Open` creates the file and `Write` fills it, so a
death in between leaves a `Torn` one, which is nobody's.  pxx's cycle takes `cycle.lock`;
its triage reads, writes the decided copy and unlinks in three steps under no lock.  The
revision checks in `forward_proposals` and `reconcile_forwards` (`StaleDecision`,
`learn_forward.py:129,142,206`) are a second defence: with the lock no record can have
changed since it was read, and whoever lost the lock lost the connection too and fails
at the same commit.

### EvidenceStore and StagedAction

A bundle is a function from file names to contents in a directory `<task, second>`;
a hash is what it hashes, so `SHA256SUMS` is the function of the other files and a
digest is that function.  `PrepareOut`, `WriteFile`, `HashFiles`, `WriteSums`,
`BundleDigest` and `Bind` follow `_prepare_out`, `_finalize`, `bundle_digest` and
`_bind_bundle_into_ledger`; a crash or a failed write may leave `Torn` content, or a
`SHA256SUMS` that is whole and of which nobody was told.
`dx verify-gui` comes to its bundle through `ObtainFrame` (the screen, or an older frame
of a file or of PSOperator's snapshot), `Attest` and `Judge`.
Two commands of one task in one second share a directory, as in the code, and the
properties of bundles except them.

A stage is written as a bundle, offered, and then rejected, executed or drilled
(the three acts).  The rows are appended one by one where the harness appends
them.  `regime.fresh` is what the caller's `observe` reads afresh: the example
reads the frame only, the docstrings speak of all four bindings; the run has both.  `Perceive`
reads the head first and the frame later, with other writers' rows in between.  The
re-proposal gate (`RefuseUnchanged`, `Unchanged`) belongs to the caller: the example has
it before it offers, and no act of the harness calls it.

## Runs

Every run finishes in the whole state space of its instance.

| run | asks | instance |
|---|---|---|
| `rows` | Is the hub one chain, is every report true, is nothing lost or published behind a caller's back, has a merge section the hub's lock but in three cases, and does it implement the append-only ledger? | two writers in two clones, two operations each, both append and merge, all faults |
| `crash` | Does the lock exclude when writers die? It does not. | the same |
| `race` | Is what is signed what was approved, and MERGED on top of it, whatever is appended meanwhile? | two gates, a runner, a human row, late pushes, one task |
| `modes` | Do the tiers and the three modes of `dx merge` leave true rows? | one gate, a runner, a candidate of each path class, crashes, commits outside dx |
| `objection` | Is an objection answered before a signature? Not always. | one gate, a runner, a REDLINE |
| `store` | Is each decision recorded once and whole, and does recovery always complete? | two processes, two transactions, two kills or two power losses |
| `inbox` | Does dx send only what is proposed, touch only its own entries, track them, and withdraw and report in the end? | two commands on the SQL store, one recommendation in two versions, pxx's own proposal, a cycle, a triage decision that may be taken back, two passes that find something, one death or lost session |
| `run` | Are pxx's commits kept, EXECUTED true and pinned, the base clean and the exit code right? | two tasks, two runs, three admissions, both modes, all faults but a failing read |
| `receipts` | Does what was announced, has a whole `SHA256SUMS`, or is named by a row, verify; is an attested screenshot the observer's frame; is a stage executed only as approved, and do its rows say so? | two commands at a time (run and gate, run and verification, stage and gate, stage and re-proposal), two seconds, two frames, one fault, one pruning or movement of the screen |
| `queue` | Do decisions stand, name what was seen and own their metric, and is a change judged only on a comparison of its own? | two recommendations on one metric and the verdict on one of them, two passes, one look, three decisions, a task, a seam, three ticks with a window of one |
| `sql` | Does the SQL store implement the same audited store, and is nobody told what is not so? | two sessions, one of them without `mutation_lock`, three rows, three transactions of four shapes, one lost connection |
| `headread` | Is pxx's commit kept when reading HEAD fails? It is not. | one run, branch mode |

Why these bounds are enough to meet the cases: two writers are what a race
needs, and two operations each let a writer meet its own left-overs (a
quarantined commit, a lock file, a dirty index, a push that lands late).  Two
gates, a runner and one human row give every order of a signature, an objection
and an execution on one task; a second task would add only rows that move the
head, which the human and the other gate do already.  Two transactions let a
transaction follow a recovery, and two faults let a recovery itself be
interrupted.  Two versions of one recommendation with pxx's own proposal fill
the single slot that all share in the inbox; two commands are one that lost its
session and whoever took the lock after it.  Two runs let a run meet what the
one before it left: a parked branch, a tag, litter, a recorded base.  Two
commands in two seconds share a bundle directory or not; one more row beside a
stage's own moves the head, and one movement of the screen moves the frame, at
every point of an act.  In the stages of `receipts` what moves is the frame and the head; the
payload and the bundle of a stage could only be changed by another stage that writes in
its directory, which the theorem covers and this instance does not.

`CHECK_DEADLOCK FALSE` stands in runs whose counters run out or whose commands
all end.

The window of `queue` is one tick in three, so that a merge, a seam or another
merge falls before, inside and after it; its two passes let one work on a corpus
from before the decision that the other already saw.  In `sql` two of the shapes
write the same two rows in both orders, which is the deadlock, and a third
transaction follows the one whose answer was lost.

In `race` the two gates are interchangeable with their clones, in `rows` the two
writers with their clones and tasks, in `run` the two tasks and in `queue` the two
passes; these runs check safety only, and `RefinesLedger` of `rows` names no
writer, clone or task.

Every module has a type invariant.  `rows` checks that of `SharedLedger`; those of
the other modules say what each variable may hold, were checked in the same
instances, and are left out of the runs, which keep to what could go wrong.

### The mutants

Each property of a passing run is paired in `PROJECT.json` with a change of the
code's model under which TLC finds it violated: a read-back that takes
"unreadable" for "absent", a check of the head that is dropped, a MERGED row
built on the pulled head instead of the one just written, a journal that is not
synced, a decision or a withdrawal outside its lock, a `SHA256SUMS` that grows with
each file, and so on.  They stand in the modules
next to what they change.

## Fairness

Safety is checked without fairness.  Two specifications have some:

- `DecisionStore!FairSpec`: a process that holds the lock goes on until it is
  killed, and some process opens the store again.  The first is the scheduler;
  the second is a human who uses `dx learn`, or its timer.
- `LearnForward!FairSpec`: every dx command comes to an end (it never waits once it has
  `mutation_lock`: `cycle.lock` is tried once), a pass that looks at the inbox is run
  again and again (it is a scheduled command, `docs/learn.md`), and pxx finishes a cycle
  and a triage it began.  Where only `--no-pxx` passes run there is no such pass, and the
  two liveness properties are not claimed.  Nothing is assumed of what humans decide, nor
  that a pxx cycle ever begins.

## What is proved

The theorems hold for every set of processes, clones, tasks, records and commits, every
bound and every combination of faults, but for the hypotheses named here; the
assumptions of the modules (`LedgerAssumption` and so on) type the constants.  All
invariants and action properties of the passing runs are proved; liveness is not.
`PROJECT.json` lists each theorem with the property it states.

| module proved about | theorems | hypotheses |
|---|---|---|
| `SharedLedger` | `TypeCorrect`, `HubIsAChain`, `RecordedStays`, `HubImplementsLedger`, `DeniedStaysAway`, `NothingIsCarriedAlong`, `CommitsAreKept`, `SectionsAreLocked` | `OneWriterPerClone`, but for `TypeCorrect`; `OneMergerPerTask` too for `SectionsAreLocked` |
| `MergeGate` | `GateTypes`, `SignedRowsAreApproved`, `SignerIsSecond`, `MergesAreSigned`, `MergedRowsAreTrue`, `MergedRowsFollow`, `ExecutionsAreOnce` | `OneActorPerClone` for the last two; no EXECUTED row by hand for the last |
| `TaskRun` | `RunTypes`, `ExecutedStaysPinned`, `BaseStaysClean`, `ExitIsThePosture`, `CandidatesAreOfTheirRun`, `NoWorkIsLost` | HEAD can be read (`"read" \notin Faults`) for the last three |
| `DecisionStore` | `StoreTypes`, `StoreImplementsAudit`, `RecoveriesComplete`, `CallersAreToldTheTruth` | `OneKindOfFault`: a history has kills or power losses |
| `SqlStore` | `TypeCorrect`, `SqlImplementsStore`, `CallersAreToldTheTruth` | |
| `LearnQueue` | `TypeCorrect`, `AdoptionsAgree`, `SeenDecides`, `DecisionsAreKept`, `MetricsAreOwned`, `VerdictsAreClean` | |
| `LearnForward` | `ForwardTypesHold`, `ProposedAloneIsSent`, `FileLockSendsProposed`, `OwnAloneIsRemoved`, `PendingStaysTracked` | the lock is not a SQL session's (`~Sql`), for `FileLockSendsProposed` |
| `StagedAction`, `EvidenceStore` | `StagesAreExecutedAsApproved`, `StageRowsAreTrue`, `AnnouncedBundlesVerify`, `NamedBundlesAreKept`, `SignedFrameIsKept` | |

The hypotheses are not conveniences; each stands for a gap that the code has and the
runs or these proofs show:

- `OneWriterPerClone`, `OneActorPerClone`: with two processes in one clone the check of
  the head and the write are not atomic, and the code has nothing that makes them so.
- `OneMergerPerTask`: two `dx merge` of one task re-enter each other's lock.
- `"EXECUTED" \notin HumanActions`: a person may append a second EXECUTED by hand.
- `"read" \notin Faults`: the run `headread`.
- `OneKindOfFault`: see "Disagreements".

Every instance but that of `headread` satisfies the ones its properties need.

Four assumptions only say that a value that stands for "nothing" is none of the values it
stands beside, which TLC's model values give for nothing: `EntryAssumption`,
`JournalAssumption`, `NoneAssumption` and, among the others, `Free \notin Tasks`.

### The shared ledger

`HubChain` and `RefinesLedger` are not inductive: whether a push keeps the chain
depends on what the pushed commit contains, which depends on what was checked
several steps earlier.  The inductive invariant `IInv` says, of every branch, every
in-flight push and every unpublished commit, that it is a history (each commit
extends the tree before it by at most one row, or moves the lock as the ledger
allows), and of every running write, by its step, how the tree relates to the
branch and the branch to the `before` and `head` it remembers.  A push then
replaces the hub by an extension that is a history, hence a sequence of steps of
the abstract ledger of which one push adds exactly one.

What becomes of an operation (`Fate`) follows the identity it gets when it begins: it
is new (`Counted`), it is in nobody else's hands, it starts its push once, and it is
denied either before that push or after git finished it, when no push of it is under
way and the hub does not have it (`Settled`).  `Begins`, `GoesOn`, `Ends`, `Denies`
and `Pushes` are the five things a step can do to all this, and each keeps it.  That
nothing is lost needs one fact more: what a failed push is undone to is what the
branch was before its commit (`Behind`), so the quarantine keeps all that lies beyond.

Of the lock, `LockInv` says that the history a writer last agreed on with the hub
(`Base`) tells the truth of its own lock: if it names the writer's task, the hub's lock
still does, or a release landed late, or the writer is reading back its own release
(`Stays`).  Nobody else writes that task's lock, and whoever removes it without being its
holder lost his own to a late release first.  Whoever is inside agreed on a lock that is
its own, or entered on a left-over (`Inside`).

### The merge gate

A row is recorded only on the head its writer names.  So it is enough to carry, with
every gate at work and with every push that may land late, what makes its row right on
that head (`Right`): `SawCandidate` and `SawSignature` hold of a prefix of the hub, and a
prefix stays.  `MERGED` and `EXECUTED` name a head that is read again, and the state that
counts was read before it; with a clone of its own the process finds there what it left
there (`FoundOwn`), and the row that it appends sits on what it looked at.

### The task run

Commits are numbered after their parents, so what a commit reaches is a recursive
function along the numbers.  That it exists, is unique and does not change as commits are
added is shown without induction, by the least commit that would refute it.  `RunInv`
relates HEAD, the tag and the posture to the step; `WorkInv` adds that between the run's
base and the tip all is this run's and of pxx (`Candidate`), that what pxx did not start
from is not pxx's (`StartedClean`), that a run which settles has parked or tagged its
commit or has none, and that a recorded base stays on the base branch.

### The two decision stores

For `DecisionStore` the invariant says that a pending journal fits what is on the disk: its
audit line and each of its records is there already or is the very next thing to be
written (`Fits`).  Each write keeps that, of the directory that processes see and of the
one that a power loss leaves (`DurableTracks`), and both complete to the same store.  The
step that leaves the journal for good is the transaction of `DecisionAudit` (its fsync, or
a kill between rename and fsync); every other step is a stutter, and a recovery always
finds a journal that it can complete.  What a directory holds was journalled, and is never
less than what callers were told or what a process read (`Keeps`).

For `SqlStore` the invariant `IInv` says three things.  An identity is used once and
leaves no trace before it takes effect (`IdsAreFresh`).  What a session read of a row
is the row as it is or a shorter, earlier revision (`SeenIsPast`), so a row that the
update lock found at the revision read is the row that was read.  A transaction that
reaches its writes has something to write (`SomethingToWrite`).  Only `Commit` and
`LoseAnswer` touch the tables; every other step is a stutter of `DecisionAudit`.  What
the callers are told needs more (`TInv`): whoever is about to write an audit row holds
the lock of the tail it chained to (`TailHeld`), a commit writes all it was asked to
unless it may skip (`Chosen`), and a transaction that has ended is under way nowhere,
so that its answer stays true (`ToldRight`).

### The learn queue and the bridge

For `LearnQueue` the invariant `IInv` adds three facts.  A decided record remembers
the weight it was decided on (`AllWeighed`), without which "twice the evidence" would
be measured against nothing.  What a human was shown is an earlier revision of what
is there, or the same (`ShownIsPast`): equal revisions then mean equal records, which
is what makes the seen-token sound although it holds two numbers read at two moments.
And an adoption nobody made has no task (`UntakenIsUnlinked`).  `StepOfARecord` says
once what a step can make of the two records of a recommendation (a pass's work, a
decision, nothing), and each theorem is a case split over that.  The verdict needs
arithmetic besides: two policy versions are equal at both ends of the windows only
if no seam lies between (`NoSeamBetween`), and the least merge after the acceptance
exists (`FirstIsLeast`).

For `LearnForward`, nothing but a command that has `cycle.lock` puts an entry of dx's into
pxx's inbox.  `Alone` says what a command knows with or without `mutation_lock`: it is at a
step on the store only with it, and from its look under `cycle.lock` to its unlink or its
text it has the name to itself, but for triage.  `InLock` says what the lock adds: the record
is of the entry in hand (`RecordsName`), what it did not see is not there but for a stray,
and what it is about to send is still PROPOSED, which is where a decision that did not wait
for the lock would break the proof.  `OnlyProposedIsSent` and `PendingIsTracked` except what
a command writes after its session was lost; `FileLockSendsProposed` proves the first
without that exception for a lock that cannot be lost.

### Bundles and staged actions

A directory belongs to the commands that prepared it, for good (`OwnDir`): so a collision
is a fact for good too, and without one the directory holds exactly the files its command
has written so far (`OwnFiles`), which are what SHA256SUMS will say; a SHA256SUMS that is
there in full therefore says that all of them are (`Finished`), whether or not its command
lived to tell.  A row names the sums
of a command that has ended (`RowNames`), which is what keeps its bundle from being pruned.
Of a stage, `Stages` says which act each step belongs to (`ActOf`), which rows it has
written by then (`RowsOf`), that the runner saw in the bindings read afresh what was
approved (`SeenOf`), and that its head is behind the ledger as soon as a row of its own
is written (`HeadOf`), which is why an act with a fresh head never executes.

## What is only model-checked

- Liveness: `JournalIsCompleted`, `RejectedIsWithdrawn`, `RecordedDivergenceSurfaces`.  It
  is outside what TLAPS proves.
- The type invariant of `StagedAction`.  The proofs use its shape (`Shape`) and the facts
  about directories; that a digest which was read is not `None` would need the assumption
  that `None` is no function, which TLC cannot evaluate.
- The three counterexamples below.

What recursive definitions compute is proved only where a least counterexample does it
(the ancestors of a commit, the first merge of a window); folds such as `CurrentState`
are used through the fact that they read a prefix.
## Disagreements between the code and what is said of it

Three runs end in a counterexample; `PROJECT.json` quotes the lines.

1. `crash`: a lock file left behind by a dead process is re-entered although the
   hub has no lock (`ledger_writer.py:384`).  `SectionIsLocked` therefore excepts a
   section entered on such a left-over (and what that section appends), the time in
   which a release waits for the answer of its own push, and everything after a
   release has landed late; `SectionsAreLocked` proves that there is no fourth way.
2. `objection`: an EXECUTED row recorded after a REDLINE makes the task signable
   (`executed.py:102`).
3. `headread`: a failed `rev-parse HEAD` after pxx lets the task branch be
   deleted with the only reference to its commit (`cmd_run.py:827`).

These were met without a run of their own:

- A release that lands late takes away the lock of more than its own task: the task
  may have been entered again, its next release removes whatever lock file it finds
  without looking whose it is (`ledger_writer.py:402-408`), and so the lock of a third
  merge is gone while it is inside.
- Two `dx merge` of one task, in two clones, re-enter each other's lock
  (`ledger_writer.py:384-385`), and the first release removes it while the other is
  still inside.  The proof has `OneMergerPerTask` as a hypothesis for it.
- After a kill *and* a power loss the JSON store may break its promise.  `_ready`
  replays a journal that it finds, without an fsync of the directory
  (`learn_store.py:181-182`), although the kill may have come between the rename and
  that fsync; a power loss in the replay then drops the journal and keeps an audit line
  without its records (`RefinesStore`, two faults).  With a kill before the fsync after
  the journal's removal and a second one in the next commit, a power loss brings the
  old journal back beside half of the next audit line, and recovery refuses for good
  (`RecoveryIsSafe`, three faults).  The run `store` and the proofs have one kind of
  fault in a history.
- The salvage of work that pxx reset away is not tried past an untracked file or a
  seed (`cmd_run.py:853`), which `tests/test_salvage.py:109-113` expects to be put
  back.
- A pass that did not read a source (`dx learn run --no-pxx`) marks every open
  proposal on its metrics STALE, "the condition no longer holds"
  (`learn_engine.py:629`).
- A pass reconciles with a corpus from before the lock, so the older of two passes
  may overwrite the evidence of the newer.
- Accepting a retired recommendation that was proposed again replaces its adoption,
  and linking another task replaces the task: the earlier merge is then no confounder
  of the others any more.  `VerdictIsClean` speaks of the adoptions on record.
- `tail_anchor.tail_matches_anchor` is false after a legitimate append as well as
  after a change of the past.
- A forward-blocked record forgets the proposal that was really sent
  (`learn_forward.py:122`), so a divergence about it is never recorded;
  `RecordedDivergenceSurfaces` is stated of the recorded proposal.
- The re-proposal gate compares bundle digests, which cover the stage's name, the
  second and the head (`staged_harness.py:139`), so it refuses only the very bundle
  that was rejected.
- A death, or a full disk, between `open("x")` and the write of an inbox entry
  (`learn_bridge.py:147-148`) leaves an empty or partial file.  `inspect` takes it for
  somebody else's (`learn_bridge.py:109-110`), so the interrupted intent becomes
  NOT_WRITTEN and the name stays blocked: neither "our entry present" nor "absent", the
  two cases of `learn_forward.py:14-18`, and dx no longer knows the file for its own.
  `PendingIsTracked` is of whole entries.
- A SQL session that is lost inside `write_pending` frees `mutation_lock`, and a reject can
  then land between the check and the write after all (`learn_forward.py:3-4`); the entry
  is written, and its outcome is never recorded.  The next pass finds it by the INTENT;
  but until then it may also hide, since `inspect` looks at the pending file first, the
  decision a pxx human took on an earlier copy.  The model calls such an entry `stray`.
- Two bundles of one task in one second share a directory (`evidence.py:477-484`), although
  `write_bundle` says that runs "accumulate rather than overwrite" (`evidence.py:605-608`).
  `receipts` reaches it, and the properties of bundles except it (`Collided`).
- With the head read afresh no stage ever executes, because the act's own rows move it
  (`staged_harness.py:107-115`); `ExecutedAsApproved` says so.

## Not modelled, and why

- Signature verification, key registry, chain verifier and tail anchors: checks
  of files at one instant.  The gate's model takes their verdict.
- Path classification and the supersede chain: one class per candidate.
- Role cards, routing, prompts, model probe, redaction, doctor, tier and verify
  reports: no state, or text.
- Detectors, scores and statistics of `dx learn`, and with them the exploratory view,
  which nobody may accept from: floating-point; only whether a pass sees the
  evidence, and in which version or weight, is kept.
- The task spec that an acceptance prints, and the snapshots of `record_pass`, which
  nothing reads back.
- An unshared ledger clone (no `dx.ledgerRemote`): there is no hub and no race.
- Two processes in one clone or one checkout, stale git lock files.
- Histories of the store that have both kills and power losses, in the run and in the
  proofs; what TLC finds in them stands under "Disagreements".
- SQL Server beyond what the statements use: isolation of other clients, its own
  recovery, a lock wait that times out (which ends a command before it began).
- A person who prunes a bundle whose command still runs: the rule of
  `docs/evidence-store-hygiene.md` cannot protect it, since its row comes later.
- The screen moving between a runner's observation and its executor: nothing in
  the code looks again.  The bindings that a runner observes are read in one step.
- A push that git itself ended with an error and that lands nevertheless: in the model it
  has landed before that error, or never does (`ledger_writer.py:222-251` takes git's
  answer as final).  Only a push whose git was killed may land later.
- An EVIDENCE row whose push was killed and that lands after its command gave up
  (`ledger_writer.py:240`): a bundle pruned in between would be named by it.  In
  `EvidenceStore` a refused row stays away.
- pxx after the death of its `dx run`: the code leaves it running (`cmd_run.py:818`), and it
  may commit to whatever branch is checked out until it ends.  In `TaskRun` it ends with
  dx, as with a Ctrl-C; a person who returns the checkout is taken to have looked.

## Plan

Done: every module above, and for each of them its type invariant and every safety
property that a run checks, as theorems.

Next, in this order:

1. The store under kills and power losses together: with an fsync of the directory in
   `_ready` before a replay, do `RefinesStore` and `RecoveryIsSafe` hold?
2. Two processes in one clone, with the index lock of git: what is left of
   `HubIsAChain` without `OneWriterPerClone`.
3. The tier in depth: the supersede chain that widens the classified diff.
