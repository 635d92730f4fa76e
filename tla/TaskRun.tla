------------------------------- MODULE TaskRun -------------------------------
(***************************************************************************)
(* `dx run` in one checkout of the target repository (cmd_run.py,            *)
(* task_branch.py, seed.py, salvage.py): the task branch, the seed, pxx, the *)
(* salvage of what pxx discarded, the candidate tag, the return to the base  *)
(* branch and the EXECUTED row, in both the branch mode and the inline mode. *)
(*                                                                         *)
(* pxx, the person who returns a parked checkout and the merge of a signed   *)
(* candidate (module MergeGate) are external.  One run at a time works in    *)
(* the checkout; a run may be killed between any two of its steps.           *)
(***************************************************************************)
EXTENDS Naturals, FiniteSets, SequencesExt

CONSTANTS Tasks,      \* the task ids
          Base,       \* the base branch
          NoTask,     \* no run in progress
          Modes,      \* the manifest's modes: "branch", "inline"
          Faults,     \* the faults a history may have
          MaxRuns,    \* bound: runs started
          MaxAdmits,  \* bound: admissions
          MaxPxx,     \* bound: commits pxx makes in one run
          MaxHuman    \* bound: edits and returns by people

AllFaults == {"kill", "git", "tag", "read", "receipt", "row"}

ASSUME TaskRunAssumption ==
  /\ Base \notin Tasks /\ NoTask \notin Tasks
  /\ Modes \subseteq {"branch", "inline"}
  /\ Faults \subseteq AllFaults
  /\ {MaxRuns, MaxAdmits, MaxPxx, MaxHuman} \subseteq Nat

\* Commits are numbered as they are made; 0 is no commit.
None == 0
Makers == {"human", "seed", "pxx", "merge"}

\* Whose modifications of tracked files are in the tree.
Editors == {"human", "seed", "pxx", "salvage"}

VARIABLES
  mode,      \* the manifest's `branches:` section
  commits,   \* the commits, each with its parents, its maker and its run
  branch,    \* where each branch points; None when there is no such branch
  on,        \* the branch that is checked out
  tracked,   \* whose uncommitted edits of tracked files are in the tree
  litter,    \* are there untracked files
  tags,      \* candidate/<task>, candidate/<task>-2, ... of each task
  base,      \* base_sha in each task's queue file
  open,      \* the tasks admitted and without an EXECUTED row since
  executed,  \* EXECUTED rows, with the base and the run behind each
  cmd,       \* the dx run in progress
  exit,      \* how the last one ended
  runs, admits, humans,  \* counters
  dropped    \* commits on branches a person deleted

repoVars == <<commits, branch, on, tracked, litter, tags>>
ledgerVars == <<base, open, executed>>
peopleVars == <<admits, humans, dropped>>
vars == <<mode, repoVars, ledgerVars, cmd, exit, runs, peopleVars>>

Tip == branch[on]
Clean == tracked = {} /\ ~litter

\* The commits reachable from c.  A commit is numbered after its parents.
Ancestors ==
  LET reach[c \in DOMAIN commits] ==
        {c} \cup UNION {reach[p] : p \in ToSet(commits[c].parents)}
  IN  reach

\* The commits on the first-parent line of c.
Mainline ==
  LET line[c \in DOMAIN commits] ==
        {c} \cup IF commits[c].parents = <<>> THEN {} ELSE line[commits[c].parents[1]]
  IN  line

Pinned == UNION {ToSet(tags[t]) : t \in Tasks}
Held == UNION {Ancestors[c] : c \in (Pinned \cup {branch[b] : b \in DOMAIN branch}) \ {None}}

NoRun == [pc |-> "idle", task |-> NoTask, base |-> None, receipt |-> FALSE,
          source |-> None, pre |-> None, after |-> None, made |-> 0, rc |-> 0,
          net |-> "none", patch |-> "none", diff |-> FALSE, changed |-> FALSE,
          tag |-> None, parked |-> FALSE, restored |-> FALSE]

Init ==
  /\ mode \in Modes
  /\ commits = <<[parents |-> <<>>, by |-> "human", run |-> 0]>>
  /\ branch = [b \in Tasks \cup {Base} |-> IF b = Base THEN 1 ELSE None]
  /\ on = Base /\ tracked = {} /\ litter = FALSE
  /\ tags = [t \in Tasks |-> <<>>]
  /\ base = [t \in Tasks |-> None]
  /\ open = {} /\ executed = {}
  /\ cmd = NoRun /\ exit = "none"
  /\ runs = 0 /\ admits = 0 /\ humans = 0 /\ dropped = {}

At(pc) == cmd.pc = pc
Step(pc) == cmd' = [cmd EXCEPT !.pc = pc]

\* A command is over: it exits ok (0), in error (1), failed (3) or parked (4), or
\* is killed.
Exit(code) == cmd' = NoRun /\ exit' = code

\* _exit: the branch posture goes on top of the code.
ExitWith(code, restored) ==
  Exit(IF mode = "branch" /\ ~restored THEN "parked" ELSE code)

\* A commit on the checked-out branch.
Commit(parents, by, run) ==
  /\ commits' = Append(commits, [parents |-> parents, by |-> by, run |-> run])
  /\ branch' = [branch EXCEPT ![on] = Len(commits) + 1]

----------------------------------------------------------------------------
\* Before pxx

\* preflight: the checkout is on the base branch and clean.
Preflight == on = Base /\ Clean

\* `dx run` up to the preflight.  A refusal changes nothing.  The queue file's
\* base is read once; in the inline mode neither is looked at.
Start(t, receipt) ==
  /\ At("idle") /\ runs < MaxRuns
  /\ mode = "branch" => Preflight /\ base[t] # None
  /\ cmd' = [NoRun EXCEPT !.pc = IF mode = "branch" THEN "create" ELSE "branched",
                          !.task = t, !.receipt = receipt,
                          !.base = IF mode = "branch" THEN base[t] ELSE None]
  /\ runs' = runs + 1
  /\ UNCHANGED <<mode, repoVars, ledgerVars, exit, peopleVars>>

\* Mutant of Create: a branch that cannot be created is not an error.
CreateOrInline ==
  /\ At("create")
  /\ \/ /\ branch[cmd.task] = None
        /\ branch' = [branch EXCEPT ![cmd.task] = cmd.base]
        /\ on' = cmd.task
     \/ UNCHANGED <<branch, on>>
  /\ Step("branched")
  /\ UNCHANGED <<mode, commits, tracked, litter, tags, ledgerVars, exit, runs, peopleVars>>

\* create_task_branch: refused when the branch exists, or when git fails.
Create ==
  /\ At("create")
  /\ \/ /\ branch[cmd.task] = None
        /\ branch' = [branch EXCEPT ![cmd.task] = cmd.base]
        /\ on' = cmd.task
        /\ Step("branched")
        /\ UNCHANGED exit
     \/ /\ branch[cmd.task] # None \/ "git" \in Faults
        /\ Exit("error")
        /\ UNCHANGED <<branch, on>>
  /\ UNCHANGED <<mode, commits, tracked, litter, tags, ledgerVars, runs, peopleVars>>

\* return_to_base: switch, then delete the branch.  Either may fail; a branch
\* that cannot be read is taken not to exist.
ReturnToBase(t, result) ==
  IF Clean
  THEN \/ /\ result = "returned" /\ on' = Base
          /\ branch' = [branch EXCEPT ![t] = None]
       \/ "read" \in Faults /\ result = "returned" /\ on' = Base /\ UNCHANGED branch
       \/ "git" \in Faults /\ result = "failed" /\ on' \in {on, Base} /\ UNCHANGED branch
  ELSE result = "dirty" /\ UNCHANGED <<branch, on>>

\* _git of cmd_run: a read that fails is None, and the run goes on.
BestEffort(c) == {c} \cup (IF "read" \in Faults THEN {None} ELSE {})

\* source_head is read on the task branch before any seed, and only for a
\* bundle; pre_run_head after it, and only in the branch mode.
GoPxx(head) ==
  \E source \in BestEffort(Tip), pre \in BestEffort(head) :
    cmd' = [cmd EXCEPT !.pc = "pxx",
                       !.source = IF cmd.receipt THEN source ELSE None,
                       !.pre = IF mode = "branch" THEN pre ELSE None]

NoSeed ==
  /\ At("branched")
  /\ GoPxx(Tip)
  /\ UNCHANGED <<mode, repoVars, ledgerVars, exit, runs, peopleVars>>

\* seed_from_patch: tracked edits refuse it; then the patch is committed.
SeedCommitted ==
  /\ At("branched") /\ tracked = {}
  /\ Commit(<<Tip>>, "seed", runs)
  /\ GoPxx(Len(commits) + 1)
  /\ UNCHANGED <<mode, on, tracked, litter, tags, ledgerVars, exit, runs, peopleVars>>

\* The seed is refused before it was applied, or after (git add or git commit
\* failed; if one of them timed out, see Kill).  _leave_empty_branch returns the
\* checkout if the tree is clean.
SeedRefused ==
  /\ At("branched")
  /\ tracked' \in IF tracked = {} THEN {{}, {"seed"}} ELSE {tracked}
  /\ Step("unseed")
  /\ UNCHANGED <<mode, commits, branch, on, litter, tags, ledgerVars, exit, runs, peopleVars>>

LeaveEmptyBranch ==
  /\ At("unseed")
  /\ \/ mode = "branch" /\ \E result \in {"returned", "failed", "dirty"} :
                             ReturnToBase(cmd.task, result)
     \/ mode = "inline" /\ UNCHANGED <<branch, on>>
  /\ Exit("error")
  /\ UNCHANGED <<mode, commits, tracked, litter, tags, ledgerVars, runs, peopleVars>>

----------------------------------------------------------------------------
\* pxx (external): it commits on the checked-out branch, and on a failed run it
\* resets the tree to where it started unless HEAD has moved.

PxxCommits ==
  /\ At("pxx") /\ cmd.made < MaxPxx
  /\ Commit(<<Tip>>, "pxx", runs)
  /\ cmd' = [cmd EXCEPT !.made = @ + 1]
  /\ UNCHANGED <<mode, on, tracked, litter, tags, ledgerVars, exit, runs, peopleVars>>

\* pxx may leave its edits, and files nobody added.
PxxLeaves(edits) ==
  /\ tracked' \in {tracked, tracked \cup edits}
  /\ litter' \in {litter, TRUE}

PxxCompletes ==
  /\ At("pxx")
  /\ PxxLeaves({"pxx"})
  /\ Step("ended")
  /\ UNCHANGED <<mode, commits, branch, on, tags, ledgerVars, exit, runs, peopleVars>>

\* The record says what became of the tree (or says nothing), and holds the
\* work that was reset: nothing, a patch that applies, or one that does not.
PxxResets ==
  /\ At("pxx") /\ cmd.made = 0
  /\ PxxLeaves({})
  /\ \E net \in {"restored", "none"}, patch \in {"none", "applies", "conflicts"} :
       cmd' = [cmd EXCEPT !.pc = "ended", !.rc = 1, !.net = net, !.patch = patch]
  /\ UNCHANGED <<mode, commits, branch, on, tags, ledgerVars, exit, runs, peopleVars>>

PxxRefusesToReset ==
  /\ At("pxx")
  /\ PxxLeaves({"pxx"})
  /\ cmd' = [cmd EXCEPT !.pc = "ended", !.rc = 1, !.net = "kept", !.patch = "applies"]
  /\ UNCHANGED <<mode, commits, branch, on, tags, ledgerVars, exit, runs, peopleVars>>

----------------------------------------------------------------------------
\* After pxx

\* What the run looks like, read before anything is written: the diff against
\* source_head, the status, HEAD.  Each read may fail.
ReadBack ==
  /\ At("ended")
  /\ \E after \in BestEffort(Tip), unread \in SUBSET {"diff", "status"} :
       LET reads == mode = "branch" \/ cmd.receipt
           diff == cmd.source # None /\ "diff" \notin unread
       IN  /\ unread # {} => "read" \in Faults
           /\ cmd' = [cmd EXCEPT
                !.pc = "salvage",
                !.after = IF reads THEN after ELSE None,
                !.diff = diff,
                !.changed = \/ diff /\ (Tip # cmd.source \/ tracked # {})
                            \/ reads /\ "status" \notin unread /\ ~Clean]
  /\ UNCHANGED <<mode, repoVars, ledgerVars, exit, runs, peopleVars>>

\* Salvage is only looked for when a failed run seems to have changed nothing.
LooksUnchanged == cmd.rc # 0 /\ ~cmd.changed

\* salvage_discarded_work: pxx did not keep the tree, it recorded a patch, no
\* tracked file is modified, and the patch applies; it is never committed.
Salvageable == cmd.net # "kept" /\ cmd.patch = "applies" /\ tracked = {}

Salvage ==
  /\ At("salvage")
  /\ tracked' = IF LooksUnchanged /\ Salvageable THEN {"salvage"} ELSE tracked
  /\ Step("tag")
  /\ UNCHANGED <<mode, commits, branch, on, litter, tags, ledgerVars, exit, runs, peopleVars>>

\* Mutant of Moved: only a run that succeeded has a candidate.
MovedAndPassed == cmd.after # None /\ cmd.after # cmd.pre /\ cmd.rc = 0

\* _settle_branch: HEAD left the commit pxx started from.
Moved == cmd.after # None /\ cmd.after # cmd.pre

\* Mutant of TagCandidate: candidate/<task> is moved to the latest candidate.
ForceTag(t, sha) == tags' = [tags EXCEPT ![t] = <<sha>>]

\* tag_candidate: the first of candidate/<task>, -2, -3, ... that is free, unless
\* one before it is this very commit.
TagCandidate(t, sha) ==
  tags' = [tags EXCEPT ![t] = IF sha \in ToSet(@) THEN @ ELSE Append(@, sha)]

\* The tag comes first: a commit that cannot be pinned keeps its branch.
Tag ==
  /\ At("tag")
  /\ IF mode = "branch" /\ Moved
     THEN \/ /\ TagCandidate(cmd.task, cmd.after)
             /\ cmd' = [cmd EXCEPT !.pc = "settle", !.tag = cmd.after]
          \/ /\ "tag" \in Faults
             /\ cmd' = [cmd EXCEPT !.pc = "settle", !.parked = TRUE]
             /\ UNCHANGED tags
     ELSE Step("settle") /\ UNCHANGED tags
  /\ UNCHANGED <<mode, commits, branch, on, tracked, litter, ledgerVars, exit, runs, peopleVars>>

\* Mutant of Settle: any return that was tried counts as a return.
SettleHopefully ==
  /\ At("settle")
  /\ IF mode = "branch" /\ ~cmd.parked
     THEN /\ \E result \in {"returned", "failed", "dirty"} : ReturnToBase(cmd.task, result)
          /\ cmd' = [cmd EXCEPT !.pc = "receipt", !.restored = TRUE]
     ELSE Step("receipt") /\ UNCHANGED <<branch, on>>
  /\ UNCHANGED <<mode, commits, tracked, litter, tags, ledgerVars, exit, runs, peopleVars>>

\* The rest of _settle_branch, and the branch's entry in the queue file.
Settle ==
  /\ At("settle")
  /\ IF mode = "branch" /\ ~cmd.parked
     THEN \E result \in {"returned", "failed", "dirty"} :
            /\ ReturnToBase(cmd.task, result)
            /\ cmd' = [cmd EXCEPT !.pc = "receipt", !.restored = result = "returned",
                                  !.parked = result # "returned"]
     ELSE Step("receipt") /\ UNCHANGED <<branch, on>>
  /\ UNCHANGED <<mode, commits, tracked, litter, tags, ledgerVars, exit, runs, peopleVars>>

\* The evidence bundle comes before EXECUTED; without it the run ends here, and
\* so does a run that pxx failed.
Receipt ==
  /\ At("receipt")
  /\ \/ /\ cmd.rc = 0
        /\ cmd' = [cmd EXCEPT !.pc = "record",
                              !.changed = @ /\ (cmd.receipt => cmd.diff)]
        /\ UNCHANGED exit
     \/ cmd.rc # 0 /\ ExitWith("failed", cmd.restored)
     \/ cmd.receipt /\ "receipt" \in Faults /\ ExitWith("error", cmd.restored)
  /\ UNCHANGED <<mode, repoVars, ledgerVars, runs, peopleVars>>

\* Mutant of HasCandidate: HEAD moved past source_head, by whatever commit.
HasCommit == cmd.changed /\ cmd.receipt /\ cmd.after # None /\ cmd.after # cmd.source

\* Only a commit is a candidate, not the seed's, and only a pinned one.
HasCandidate ==
  /\ cmd.changed /\ cmd.receipt
  /\ cmd.after # None /\ cmd.after # cmd.source
  /\ mode = "branch" => cmd.after # cmd.pre /\ cmd.tag # None

\* record_executed refuses a task that has a candidate for its admission.  A row
\* that cannot be written is an error nobody catches.
Record ==
  /\ At("record")
  /\ \/ /\ HasCandidate /\ cmd.task \in open
        /\ executed' = executed \cup {[task |-> cmd.task, sha |-> cmd.after, run |-> runs,
                                       base |-> IF mode = "branch" THEN cmd.base
                                                                   ELSE base[cmd.task]]}
        /\ open' = open \ {cmd.task}
        /\ Step("finish") /\ UNCHANGED exit
     \/ /\ ~(HasCandidate /\ cmd.task \in open)
        /\ Step("finish") /\ UNCHANGED <<executed, open, exit>>
     \/ /\ HasCandidate /\ "row" \in Faults
        /\ Exit("error") /\ UNCHANGED <<executed, open>>
  /\ UNCHANGED <<mode, repoVars, base, runs, peopleVars>>

\* The GUI task, when there is one, fails before the posture is reported.
Finish ==
  /\ At("finish")
  /\ ExitWith("ok", cmd.restored) \/ Exit("error")
  /\ UNCHANGED <<mode, repoVars, ledgerVars, runs, peopleVars>>

\* dx is killed, and pxx with it, or ends with an exception that nobody catches (the
\* git of a seed that times out): the checkout stays as it is at that step.
Kill ==
  /\ "kill" \in Faults /\ ~At("idle")
  /\ Exit("killed")
  /\ UNCHANGED <<mode, repoVars, ledgerVars, runs, peopleVars>>

----------------------------------------------------------------------------
\* Outside dx run

\* The launcher admits a task, or admits it again, at the base branch's head.
Admit(t) ==
  /\ admits < MaxAdmits /\ t \notin open
  /\ base' = [base EXCEPT ![t] = branch[Base]]
  /\ open' = open \cup {t}
  /\ admits' = admits + 1
  /\ UNCHANGED <<mode, repoVars, executed, cmd, exit, runs, humans, dropped>>

\* The merge of a recorded candidate: _precheck_merge, then git_merge_no_ff.
Merge ==
  /\ mode = "branch" => on = Base
  /\ Clean
  /\ \E row \in executed :
       /\ row.sha \notin Ancestors[Tip]
       /\ Commit(<<Tip, row.sha>>, "merge", 0)
  /\ UNCHANGED <<mode, on, tracked, litter, tags, ledgerVars, cmd, exit, runs, peopleVars>>

PersonEdits ==
  /\ At("idle") /\ humans < MaxHuman /\ Clean
  /\ \/ tracked' = {"human"} /\ UNCHANGED litter
     \/ litter' = TRUE /\ UNCHANGED tracked
  /\ humans' = humans + 1
  /\ UNCHANGED <<mode, commits, branch, on, tags, ledgerVars, cmd, exit, runs, admits, dropped>>

\* A person discards what is uncommitted, returns the checkout, and deletes task
\* branches or leaves them.
PersonReturns ==
  /\ At("idle") /\ humans < MaxHuman
  /\ tracked' = {} /\ litter' = FALSE /\ on' = Base
  /\ \E gone \in SUBSET {t \in Tasks : branch[t] # None} :
       /\ ~(on = Base /\ Clean /\ gone = {})
       /\ branch' = [b \in DOMAIN branch |-> IF b \in gone THEN None ELSE branch[b]]
       /\ dropped' = dropped \cup UNION {Ancestors[branch[t]] : t \in gone}
  /\ humans' = humans + 1
  /\ UNCHANGED <<mode, commits, tags, ledgerVars, cmd, exit, runs, admits>>

Next ==
  \/ \E t \in Tasks : Admit(t) \/ \E receipt \in BOOLEAN : Start(t, receipt)
  \/ Create \/ NoSeed \/ SeedCommitted \/ SeedRefused \/ LeaveEmptyBranch
  \/ PxxCommits \/ PxxCompletes \/ PxxResets \/ PxxRefusesToReset
  \/ ReadBack \/ Salvage \/ Tag \/ Settle \/ Receipt \/ Record \/ Finish \/ Kill
  \/ Merge \/ PersonEdits \/ PersonReturns

Spec == Init /\ [][Next]_vars

----------------------------------------------------------------------------
\* Properties

Pcs == {"idle", "create", "branched", "unseed", "pxx", "ended", "salvage", "tag",
        "settle", "receipt", "record", "finish"}

\* The checkout is always on a branch that exists, parents come before their
\* children, and every row, tag and recorded base names a commit (create_task_branch,
\* return_to_base, tag_candidate, record_executed).
TypeOK ==
  LET Sha == DOMAIN commits IN
  /\ mode \in Modes
  /\ \A c \in Sha : /\ commits[c].by \in Makers /\ commits[c].run \in 0..MaxRuns
                    /\ \A p \in ToSet(commits[c].parents) : p \in 1..(c - 1)
  /\ branch \in [Tasks \cup {Base} -> Sha \cup {None}]
  /\ branch[on] # None
  /\ tracked \subseteq Editors /\ litter \in BOOLEAN
  /\ \A t \in Tasks : ToSet(tags[t]) \subseteq Sha
  /\ base \in [Tasks -> Sha \cup {None}] /\ open \subseteq Tasks
  /\ \A row \in executed : {row.sha, row.base} \subseteq Sha /\ row.task \in Tasks
  /\ cmd.pc \in Pcs /\ (At("idle") <=> cmd = NoRun)

\* _settle_branch, return_to_base: no commit pxx made is lost with its branch.
\* Each is reachable from a branch or a candidate tag, however the run ended,
\* unless a person deleted the branch it was on.
PxxWorkIsHeld ==
  \A c \in DOMAIN commits : commits[c].by = "pxx" => c \in Held \cup dropped

\* cmd_run, record_executed: in the branch mode an EXECUTED row names a commit that
\* pxx made in the run behind it, and all that lies between the recorded base and
\* that commit, which is what a review reads, was made by that run.
CandidateIsThisRun ==
  mode = "branch" =>
    \A row \in executed :
      /\ commits[row.sha].by = "pxx"
      /\ row.base \in Ancestors[row.sha]
      /\ \A c \in Ancestors[row.sha] \ Ancestors[row.base] : commits[c].run = row.run

\* tag_candidate: what an EXECUTED row names stays pinned by a tag of its task,
\* through re-admissions and later candidates.
ExecutedIsPinned ==
  mode = "branch" => \A row \in executed : row.sha \in ToSet(tags[row.task])

\* task_branch's promise: in the branch mode the base branch moves only by merges of
\* recorded candidates.
BaseHoldsOnlyMerges ==
  mode = "branch" =>
    \A c \in Mainline[branch[Base]] :
      \/ commits[c].by = "human"
      \/ /\ commits[c].by = "merge"
         /\ \E row \in executed : row.sha = commits[c].parents[2]

\* _exit, EXIT_BRANCH_NOT_RESTORED: in the branch mode an exit with 0 or 3 leaves
\* the checkout clean on the base branch, without the run's task branch.
ExitTellsThePosture ==
  [][mode = "branch" /\ ~At("idle") /\ cmd'.pc = "idle" /\ exit' \in {"ok", "failed"}
       => on' = Base /\ Clean' /\ branch'[cmd.task] = None]_vars

=============================================================================
