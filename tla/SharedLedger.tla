---------------------------- MODULE SharedLedger ----------------------------
(***************************************************************************)
(* The writers of one devswarm-ledger that sync through one hub             *)
(* (ledger_writer.py): every write is pull -> check -> write the file ->     *)
(* commit -> push, and a push that fails is read back and, unless the hub    *)
(* has it, undone.  The merge lock is a file in the same repository, written *)
(* by the same steps.                                                       *)
(*                                                                         *)
(* A writer is one dx process; CloneOf says which working clone it runs in.  *)
(* A git history is the sequence of its commits, so "is an ancestor of" is   *)
(* IsPrefix; a commit carries the tree it snapshots.  Git itself and the     *)
(* hub, which takes fast-forwards only, are modelled from how the code uses  *)
(* them.                                                                    *)
(***************************************************************************)
EXTENDS Naturals, FiniteSets, SequencesExt

CONSTANTS Writers,   \* the dx processes
          Clones,    \* the working clones of the ledger repository
          CloneOf,   \* the clone each writer works in
          Tasks,     \* the task ids
          MayMerge,  \* the tasks each writer may run `dx merge` for
          Genesis,   \* the identity of the genesis row and of the root commit
          Free,      \* "no MERGE_LOCK.json", and "not inside a merge lock"
          Faults,    \* the environment's faults that this instance includes
          MaxOps     \* bound: appends and acquisitions each writer begins

AllFaults == {"crash", "late", "unreadable", "commit"}

ASSUME LedgerAssumption ==
  /\ CloneOf \in [Writers -> Clones]
  /\ MayMerge \in [Writers -> SUBSET Tasks]
  /\ Free \notin Tasks
  /\ Genesis \notin Writers \X Nat
  /\ Faults \subseteq AllFaults
  /\ MaxOps \in Nat

\* Each writer has a clone of its own.
OneWriterPerClone ==
  \A v, w \in Writers : CloneOf[v] = CloneOf[w] => v = w

\* Each task is merged by one writer.
OneMergerPerTask ==
  \A v, w \in Writers : MayMerge[v] \cap MayMerge[w] # {} => v = w

----------------------------------------------------------------------------
\* Data

\* One operation of one writer; it names the row and the commit it makes.
OpId == Writers \X Nat
RowId == OpId \cup {Genesis}

Row == [id : RowId, prev : RowId]
GenesisRow == [id |-> Genesis, prev |-> Genesis]

\* The two files dx commits: ledger.jsonl and queue/MERGE_LOCK.json.
Tree == [rows : Seq(Row), lock : Tasks \cup {Free}]
RootTree == [rows |-> <<GenesisRow>>, lock |-> Free]

Commit == [tree : Tree, id : RowId]
RootCommit == [tree |-> RootTree, id |-> Genesis]

Kinds == {"ROW", "LOCK", "UNLOCK"}
Steps == {"idle", "pull", "check", "write", "commit", "push", "readback"}

\* What a running write carries in its local variables.
Op == [kind : Kinds, task : Tasks \cup {Free}, id : RowId, prev : RowId,
       before : Seq(Commit), head : Seq(Commit), finished : BOOLEAN]
NewOp(kind, task, id, prev) ==
  [kind |-> kind, task |-> task, id |-> id, prev |-> prev,
   before |-> <<>>, head |-> <<>>, finished |-> TRUE]
NoOp == NewOp("ROW", Free, Genesis, Genesis)

\* What happened, for the properties: the commits ever made, and the operations
\* whose push started, that reported success, that reported "not recorded".
History == [made : SUBSET Commit, pushed : SUBSET RowId,
            recorded : SUBSET RowId, denied : SUBSET RowId]

VARIABLES
  hub,          \* the hub's branch
  branch,       \* each clone's branch
  index,        \* each clone's staged tree
  tree,         \* each clone's files
  unpublished,  \* each clone's refs/dx/unpublished/: the commits kept there
  inflight,     \* histories a killed `git push` may still deliver
  pc,           \* the step each writer is at
  op,           \* the operation each writer is running
  held,         \* the task whose merge section each writer is inside
  count,        \* operations each writer has begun
  hist          \* what happened so far (a history variable)

cloneVars == <<branch, index, tree, unpublished>>
netVars == <<hub, inflight>>
vars == <<netVars, cloneVars, pc, op, held, count, hist>>

HeadRow(t) == t.rows[Len(t.rows)].id
HeadTree(c) == branch[c][Len(branch[c])].tree
HubTree == hub[Len(hub)].tree

\* `git status --porcelain --untracked-files=no` over the two synced files: a
\* lock file that was never staged is untracked, so it does not show.
Dirty(c) ==
  \/ index[c] # HeadTree(c)
  \/ tree[c].rows # index[c].rows
  \/ tree[c].lock # index[c].lock /\ index[c].lock # Free

Init ==
  /\ hub = <<RootCommit>>
  /\ branch = [c \in Clones |-> <<RootCommit>>]
  /\ index = [c \in Clones |-> RootTree]
  /\ tree = [c \in Clones |-> RootTree]
  /\ unpublished = [c \in Clones |-> {}]
  /\ inflight = {}
  /\ pc = [w \in Writers |-> "idle"]
  /\ op = [w \in Writers |-> NoOp]
  /\ held = [w \in Writers |-> Free]
  /\ count = [w \in Writers |-> 0]
  /\ hist = [made |-> {}, pushed |-> {}, recorded |-> {}, denied |-> {}]

----------------------------------------------------------------------------
\* Control flow of one operation

Goto(w, step) == pc' = [pc EXCEPT ![w] = step]

\* What becomes of "inside the merge section" when an operation ends: an
\* acquisition enters it only by succeeding, and __exit__ leaves it even when
\* the release raises.
Section(w, ok) ==
  CASE op[w].kind = "LOCK"   -> IF ok THEN op[w].task ELSE Free
    [] op[w].kind = "UNLOCK" -> Free
    [] OTHER                 -> held[w]

Finish(w, ok) ==
  /\ Goto(w, "idle")
  /\ op' = [op EXCEPT ![w] = NoOp]
  /\ held' = [held EXCEPT ![w] = Section(w, ok)]
  /\ UNCHANGED count

\* The operation's commit is recorded, and the caller is told so.
Succeed(w) ==
  /\ Finish(w, TRUE)
  /\ hist' = [hist EXCEPT !.recorded = @ \cup {op[w].id}]

\* The caller is told that nothing was recorded.
Deny(w) ==
  /\ Finish(w, FALSE)
  /\ hist' = [hist EXCEPT !.denied = @ \cup {op[w].id}]

\* The caller gets an error that claims nothing about the record.
Raise(w) == Finish(w, FALSE) /\ UNCHANGED hist

Begin(w, kind, task, prev) ==
  /\ pc[w] = "idle"
  /\ Goto(w, "pull")
  /\ op' = [op EXCEPT ![w] = NewOp(kind, task, <<w, count[w] + 1>>, prev)]
  /\ count' = [count EXCEPT ![w] = @ + 1]
  /\ UNCHANGED <<netVars, cloneVars, held, hist>>

\* A caller read the head at some earlier moment (current_head in dx merge,
\* read_head in record_executed) and now appends a row built on it.
BeginAppend(w) ==
  /\ count[w] < MaxOps
  /\ \E i \in DOMAIN tree[CloneOf[w]].rows :
       Begin(w, "ROW", Free, tree[CloneOf[w]].rows[i].id)

BeginAcquire(w) ==
  /\ count[w] < MaxOps
  /\ held[w] = Free
  /\ \E t \in MayMerge[w] : Begin(w, "LOCK", t, Genesis)

BeginRelease(w) ==
  /\ held[w] # Free
  /\ Begin(w, "UNLOCK", held[w], Genesis)

----------------------------------------------------------------------------
\* Moving a clone to another history (git merge --ff-only, git reset --keep):
\* git refuses to touch a file that differs from HEAD, tracked or not.

CanMove(c, target) ==
  /\ target.rows # HeadTree(c).rows => tree[c].rows = HeadTree(c).rows
  /\ target.lock # HeadTree(c).lock => tree[c].lock = HeadTree(c).lock

MoveTo(c, history) ==
  LET target == history[Len(history)].tree
  IN  /\ branch' = [branch EXCEPT ![c] = history]
      /\ index' = [index EXCEPT ![c] = target]
      /\ tree' = [tree EXCEPT ![c] =
                    [rows |-> IF target.rows = HeadTree(c).rows
                              THEN @.rows ELSE target.rows,
                     lock |-> IF target.lock = HeadTree(c).lock
                              THEN @.lock ELSE target.lock]]

\* Mutant of Keep: the reset drops the commits.
KeepNothing(c, before) == UNCHANGED unpublished

\* HEAD's commits go under refs/dx/unpublished/, then the clone goes back.
Keep(c, before) ==
  unpublished' = [unpublished EXCEPT ![c] =
                    @ \cup {branch[c][i] : i \in (Len(before)+1)..Len(branch[c])}]

Quarantine(c, before) ==
  /\ Keep(c, before)
  /\ IF CanMove(c, before[Len(before)].tree)
     THEN MoveTo(c, before)
     ELSE UNCHANGED <<branch, index, tree>>

----------------------------------------------------------------------------
\* pull_ledger, the first call of every operation

PullRefused(w) ==
  /\ pc[w] = "pull"
  /\ Dirty(CloneOf[w]) \/ "unreadable" \in Faults
  /\ Deny(w)
  /\ UNCHANGED <<netVars, cloneVars>>

PullForward(w) ==
  LET c == CloneOf[w]
  IN  /\ pc[w] = "pull"
      /\ ~Dirty(c)
      /\ IsPrefix(branch[c], hub)
      /\ IF CanMove(c, HubTree)
         THEN /\ MoveTo(c, hub)
              /\ Goto(w, "check")
              /\ UNCHANGED <<unpublished, op, held, count, hist>>
         ELSE Deny(w) /\ UNCHANGED cloneVars
      /\ UNCHANGED netVars

\* Mutant of PullQuarantines: a clone ahead of the hub goes on with its write.
PullCarriesAlong(w) ==
  /\ pc[w] = "pull"
  /\ ~Dirty(CloneOf[w])
  /\ IsStrictPrefix(hub, branch[CloneOf[w]])
  /\ Goto(w, "check")
  /\ UNCHANGED <<netVars, cloneVars, op, held, count, hist>>

PullQuarantines(w) ==
  LET c == CloneOf[w]
  IN  /\ pc[w] = "pull"
      /\ ~Dirty(c)
      /\ IsStrictPrefix(hub, branch[c])
      /\ Quarantine(c, hub)
      /\ Deny(w)
      /\ UNCHANGED netVars

PullDiverged(w) ==
  LET c == CloneOf[w]
  IN  /\ pc[w] = "pull"
      /\ ~Dirty(c)
      /\ ~IsPrefix(branch[c], hub)
      /\ ~IsPrefix(hub, branch[c])
      /\ Deny(w)
      /\ UNCHANGED <<netVars, cloneVars>>

Pull(w) ==
  PullRefused(w) \/ PullForward(w) \/ PullQuarantines(w) \/ PullDiverged(w)

----------------------------------------------------------------------------
\* The checks after the pull, and the write to the file

\* Mutant of CheckHead: the head the row was built on is not compared.
CheckNoHead(w) ==
  /\ pc[w] = "check"
  /\ op[w].kind = "ROW"
  /\ Goto(w, "write")
  /\ UNCHANGED <<netVars, cloneVars, op, held, count, hist>>

\* append_row: a row built on another head is refused, never re-pointed.
CheckHead(w) ==
  /\ pc[w] = "check"
  /\ op[w].kind = "ROW"
  /\ IF op[w].prev = HeadRow(tree[CloneOf[w]])
     THEN Goto(w, "write") /\ UNCHANGED <<op, held, count, hist>>
     ELSE Deny(w)
  /\ UNCHANGED <<netVars, cloneVars>>

\* Mutant of CheckAcquire: whoever finds a lock enters.
CheckAnyHolder(w) ==
  /\ pc[w] = "check"
  /\ op[w].kind = "LOCK"
  /\ IF tree[CloneOf[w]].lock = Free
     THEN Goto(w, "write") /\ UNCHANGED <<op, held, count, hist>>
     ELSE Finish(w, TRUE) /\ UNCHANGED hist
  /\ UNCHANGED <<netVars, cloneVars>>

\* MergeLock.acquire: another task's lock is refused, this task's own lock is
\* entered as it stands.
CheckAcquire(w) ==
  LET holder == tree[CloneOf[w]].lock
  IN  /\ pc[w] = "check"
      /\ op[w].kind = "LOCK"
      /\ \/ holder = Free /\ Goto(w, "write") /\ UNCHANGED <<op, held, count, hist>>
         \/ holder = op[w].task /\ Finish(w, TRUE) /\ UNCHANGED hist
         \/ holder \notin {Free, op[w].task} /\ Deny(w)
      /\ UNCHANGED <<netVars, cloneVars>>

\* MergeLock.release: whatever lock is there is removed.
CheckRelease(w) ==
  /\ pc[w] = "check"
  /\ op[w].kind = "UNLOCK"
  /\ IF tree[CloneOf[w]].lock # Free
     THEN Goto(w, "write") /\ UNCHANGED <<op, held, count, hist>>
     ELSE Finish(w, TRUE) /\ UNCHANGED hist
  /\ UNCHANGED <<netVars, cloneVars>>

NewRow(w) == [id |-> op[w].id, prev |-> op[w].prev]

\* Mutant of Written: the lock file names the operation, not the task.
WrittenForOp(w, t) ==
  CASE op[w].kind = "ROW"    -> [t EXCEPT !.rows = Append(@, NewRow(w))]
    [] op[w].kind = "LOCK"   -> [t EXCEPT !.lock = op[w].id]
    [] op[w].kind = "UNLOCK" -> [t EXCEPT !.lock = Free]

Written(w, t) ==
  CASE op[w].kind = "ROW"    -> [t EXCEPT !.rows = Append(@, NewRow(w))]
    [] op[w].kind = "LOCK"   -> [t EXCEPT !.lock = op[w].task]
    [] op[w].kind = "UNLOCK" -> [t EXCEPT !.lock = Free]

Write(w) ==
  /\ pc[w] = "write"
  /\ tree' = [tree EXCEPT ![CloneOf[w]] = Written(w, @)]
  /\ Goto(w, "commit")
  /\ UNCHANGED <<netVars, branch, index, unpublished, op, held, count, hist>>

----------------------------------------------------------------------------
\* _commit_shared and _publish

\* `git add` of the file this operation wrote.
Staged(w) ==
  LET c == CloneOf[w]
  IN  IF op[w].kind = "ROW" THEN [index[c] EXCEPT !.rows = tree[c].rows]
                            ELSE [index[c] EXCEPT !.lock = tree[c].lock]

NewCommit(w) == [tree |-> Staged(w), id |-> op[w].id]

MakeCommit(w) ==
  LET c == CloneOf[w]
  IN  /\ pc[w] = "commit"
      /\ Staged(w) # HeadTree(c)
      /\ index' = [index EXCEPT ![c] = Staged(w)]
      /\ branch' = [branch EXCEPT ![c] = Append(@, NewCommit(w))]
      /\ op' = [op EXCEPT ![w].before = branch[c]]
      /\ hist' = [hist EXCEPT !.made = @ \cup {NewCommit(w)}]
      /\ Goto(w, "push")
      /\ UNCHANGED <<netVars, tree, unpublished, held, count>>

\* git commit exits non-zero: nothing to commit, or the environment's fault.
CommitFails(w) ==
  LET c == CloneOf[w]
  IN  /\ pc[w] = "commit"
      /\ Staged(w) = HeadTree(c) \/ "commit" \in Faults
      /\ index' = [index EXCEPT ![c] = Staged(w)]
      /\ Raise(w)
      /\ UNCHANGED <<netVars, branch, tree, unpublished>>

StartedPush(w) == [hist EXCEPT !.pushed = @ \cup {op[w].id}]

\* The hub takes a fast-forward and its answer arrives.
PushAccepted(w) ==
  LET c == CloneOf[w]
  IN  /\ pc[w] = "push"
      /\ IsPrefix(hub, branch[c])
      /\ hub' = branch[c]
      /\ Finish(w, TRUE)
      /\ hist' = [StartedPush(w) EXCEPT !.recorded = @ \cup {op[w].id}]
      /\ UNCHANGED <<inflight, cloneVars>>

\* The push did not return success; the code reads the hub back.
PushNotConfirmed(w, finished) ==
  /\ pc[w] = "push"
  /\ op' = [op EXCEPT ![w].head = branch[CloneOf[w]], ![w].finished = finished]
  /\ hist' = StartedPush(w)
  /\ Goto(w, "readback")
  /\ UNCHANGED <<cloneVars, held, count>>

PushRejected(w) ==
  /\ ~IsPrefix(hub, branch[CloneOf[w]]) \/ "unreadable" \in Faults
  /\ PushNotConfirmed(w, TRUE)
  /\ UNCHANGED netVars

\* Accepted, and the answer is lost: an error or a timeout.
PushReplyLost(w) ==
  /\ "late" \in Faults
  /\ IsPrefix(hub, branch[CloneOf[w]])
  /\ \E finished \in BOOLEAN : PushNotConfirmed(w, finished)
  /\ hub' = branch[CloneOf[w]]
  /\ UNCHANGED inflight

\* The push is killed at its timeout; it may still land.
PushKilled(w) ==
  /\ "late" \in Faults
  /\ PushNotConfirmed(w, FALSE)
  /\ inflight' = inflight \cup {branch[CloneOf[w]]}
  /\ UNCHANGED hub

Push(w) ==
  PushAccepted(w) \/ PushRejected(w) \/ PushReplyLost(w) \/ PushKilled(w)

\* _hub_has: the hub holds the commit after all, which is success.
ReadBackAccepted(w) ==
  /\ pc[w] = "readback"
  /\ IsPrefix(op[w].head, hub)
  /\ Succeed(w)
  /\ UNCHANGED <<netVars, cloneVars>>

\* Mutant of ReadBackAbsent: a push that was killed counts as rejected.
ReadBackDenies(w) ==
  /\ pc[w] = "readback"
  /\ ~IsPrefix(op[w].head, hub)
  /\ Quarantine(CloneOf[w], op[w].before)
  /\ Deny(w)
  /\ UNCHANGED netVars

\* The hub was read and does not hold the commit: "nothing was recorded" if git
\* finished the push, UNKNOWN if it was killed.
ReadBackAbsent(w) ==
  /\ pc[w] = "readback"
  /\ ~IsPrefix(op[w].head, hub)
  /\ Quarantine(CloneOf[w], op[w].before)
  /\ IF op[w].finished THEN Deny(w) ELSE Raise(w)
  /\ UNCHANGED netVars

\* Mutant of ReadBackUnreadable: an unreadable hub counts as success.
ReadBackOptimistic(w) ==
  /\ "unreadable" \in Faults
  /\ pc[w] = "readback"
  /\ Succeed(w)
  /\ UNCHANGED <<netVars, cloneVars>>

ReadBackUnreadable(w) ==
  /\ "unreadable" \in Faults
  /\ pc[w] = "readback"
  /\ Quarantine(CloneOf[w], op[w].before)
  /\ Raise(w)
  /\ UNCHANGED netVars

ReadBack(w) ==
  ReadBackAccepted(w) \/ ReadBackAbsent(w) \/ ReadBackUnreadable(w)

----------------------------------------------------------------------------
\* The environment

\* A killed push reaches the hub after all.
Land ==
  \E h \in inflight :
    /\ IsStrictPrefix(hub, h)
    /\ hub' = h
    /\ inflight' = inflight \ {h}
    /\ UNCHANGED <<cloneVars, pc, op, held, count, hist>>

\* The dx process dies; its clone stays as it is, and so does a `git push` that
\* already runs.
Crash(w) ==
  /\ "crash" \in Faults
  /\ pc[w] # "idle" \/ held[w] # Free
  /\ Goto(w, "idle")
  /\ op' = [op EXCEPT ![w] = NoOp]
  /\ held' = [held EXCEPT ![w] = Free]
  /\ \/ UNCHANGED <<inflight, hist>>
     \/ /\ "late" \in Faults
        /\ pc[w] = "push"
        /\ inflight' = inflight \cup {branch[CloneOf[w]]}
        /\ hist' = StartedPush(w)
  /\ UNCHANGED <<hub, cloneVars, count>>

Step(w) ==
  \/ Pull(w) \/ CheckHead(w) \/ CheckAcquire(w) \/ CheckRelease(w)
  \/ Write(w) \/ MakeCommit(w) \/ CommitFails(w) \/ Push(w) \/ ReadBack(w)

Next ==
  \/ \E w \in Writers :
       BeginAppend(w) \/ BeginAcquire(w) \/ BeginRelease(w) \/ Step(w) \/ Crash(w)
  \/ Land

Spec == Init /\ [][Next]_vars

----------------------------------------------------------------------------
\* Properties

TypeOK ==
  /\ hub \in Seq(Commit)
  /\ branch \in [Clones -> Seq(Commit)]
  /\ index \in [Clones -> Tree]
  /\ tree \in [Clones -> Tree]
  /\ unpublished \in [Clones -> SUBSET Commit]
  /\ inflight \in SUBSET Seq(Commit)
  /\ pc \in [Writers -> Steps]
  /\ op \in [Writers -> Op]
  /\ held \in [Writers -> Tasks \cup {Free}]
  /\ count \in [Writers -> Nat]
  /\ hist \in History

HubIds == {hub[i].id : i \in DOMAIN hub}

\* The hub's ledger is one unbroken chain: every row names the row before it
\* (append_row "refuses to write one that would break the chain").
HubChain ==
  \A i \in 2..Len(HubTree.rows) :
    HubTree.rows[i].prev = HubTree.rows[i-1].id

\* An operation that reported success has its commit on the hub, also after a
\* lost reply (_publish: "accepted after all is success").
RecordedIsOnHub == hist.recorded \subseteq HubIds

\* An operation that reported that nothing was recorded never shows up on the
\* hub, however late its push is delivered (_publish: only a push git finished
\* and rejected is "nothing recorded").
DeniedNeverOnHub == hist.denied \cap HubIds = {}

\* A commit reaches the hub only by its own operation's push: a write that was
\* interrupted before its push is never published by a later operation of the
\* same clone (pull_ledger quarantines it).
PublishedByItsOwnPush == HubIds \subseteq hist.pushed \cup {Genesis}

\* No committed row is dropped: it is on the hub, on its clone's branch, or kept
\* under refs/dx/unpublished/ (_quarantine).
NothingLost ==
  \A m \in hist.made :
    \/ \E i \in DOMAIN hub : hub[i] = m
    \/ \E c \in Clones : m \in unpublished[c] \cup ToSet(branch[c])

\* Ways out of the lock that the code leaves open.  A lock file that a crash left in
\* the clone before it was ever committed looks like the task's own lock; a release
\* removes the file again and then has nothing to commit.
EnteredOnLeftover(w) ==
  LET c == CloneOf[w]
  IN  /\ HeadTree(c).lock = Free
      /\ tree[c].lock = held[w] \/ (op[w].kind = "UNLOCK" /\ pc[w] = "commit")

\* The push of the writer's own release has no answer yet.
Releasing(w) == op[w].kind = "UNLOCK" /\ pc[w] = "readback"

\* The hub has a release whose caller was never told so: its push was killed, or its
\* answer lost, and the command is over.
ReleasedLate ==
  \E i \in 2..Len(hub) :
    /\ hub[i-1].tree.lock # Free /\ hub[i].tree.lock = Free
    /\ hub[i].id \notin hist.recorded
    /\ \A w \in Writers : pc[w] # "idle" => op[w].id # hub[i].id

\* Whoever is inside a merge section, the hub's lock names that task
\* (MergeLock: "held for the duration of one merge"), but for those two, and until
\* the push of its own release is read back.
SectionIsLocked ==
  \A w \in Writers : held[w] # Free =>
    \/ HubTree.lock = held[w]
    \/ EnteredOnLeftover(w) \/ Releasing(w) \/ ReleasedLate

\* Two writers are never inside merge sections of different tasks.
LockExclusion ==
  \A v, w \in Writers : held[v] # Free /\ held[w] # Free => held[v] = held[w]

\* The shared ledger implements the append-only ledger with its lock.
Ledger == INSTANCE AppendOnlyLedger WITH rows <- HubTree.rows, lock <- HubTree.lock
RefinesLedger == Ledger!LedgerSpec

=============================================================================
