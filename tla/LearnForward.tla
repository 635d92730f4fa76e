---------------------------- MODULE LearnForward ----------------------------
(***************************************************************************)
(* The queue of `dx learn` and its forwarding into pxx's inbox: a pass       *)
(* (cmd_learn_run), the human decisions (accept, reject, retire),            *)
(* reconcile_forwards and forward_proposals (learn_forward.py) with the      *)
(* primitives on the inbox (learn_bridge.py).                                *)
(*                                                                         *)
(* Several dx commands are under way.  Each takes the store's mutation_lock  *)
(* and works under it; a commit is one step (DecisionStore).  A command may  *)
(* die between any two of its writes, and the kernel frees its locks.  With  *)
(* the SQL store the lock belongs to a session, which may be lost: the       *)
(* command then goes on without it up to its next access to the store, and   *)
(* others come in.  pxx's cycle takes cycle.lock, its triage takes no lock.  *)
(*                                                                         *)
(* pxx keys its inbox by target:operation, so all forwarded proposals share  *)
(* one file name: one pending entry, one qualified, one rejected.            *)
(***************************************************************************)
EXTENDS Naturals, FiniteSets

CONSTANTS Keys,        \* the forwardable recommendations
          Commands,    \* the dx commands that may be under way together
          NoCommand,   \* nobody has the lock
          Theirs,      \* a proposal of pxx's own
          Torn,        \* a file that is created and not written: no JSON
          NoEntry,     \* no such file in the inbox
          MaxVersion,  \* bound: versions of a recommendation's evidence
          MaxCycles,   \* bound: cycles pxx runs
          MaxTriage,   \* bound: decisions pxx's humans take; each may be taken back
          Sql,         \* whether the lock is a session's (MssqlStore) or a process's
          MaxFailures, \* bound: dx commands that die, and sessions that are lost
          MaxPasses    \* bound: passes that see the evidence change

ASSUME ForwardAssumption ==
  /\ Theirs # NoEntry /\ Torn \notin {Theirs, NoEntry}
  /\ NoCommand \notin Commands /\ Commands \cap {"free", "cycle"} = {}
  /\ MaxVersion \in Nat \ {0}
  /\ Sql \in BOOLEAN
  /\ {MaxCycles, MaxTriage, MaxFailures, MaxPasses} \subseteq Nat

----------------------------------------------------------------------------
\* Data

Statuses == {"NONE", "PROPOSED", "ACCEPTED", "REJECTED", "RETIRED", "STALE"}
States == {"NONE", "INTENT", "WRITTEN", "NOT_WRITTEN", "INTERRUPTED", "WITHDRAWN",
           "SUPERSEDED"}
Views == {"none", "pending-ours", "pending-other", "qualified", "rejected",
          "qualified-other", "rejected-other", "absent"}

\* A dx entry is known by its fingerprint: the recommendation and the version of
\* the evidence it carries.  A torn file has none, not even if it is dx's own.
OurEntry == [key : Keys, version : 1..MaxVersion]
Readable == OurEntry \cup {Theirs, NoEntry}
File == Readable \cup {Torn}

ASSUME EntryAssumption == OurEntry \cap {Theirs, Torn, NoEntry} = {}

\* A forward record; `retry` says whether its note starts with "retry: ".
Forward == [state : States, entry : Readable, view : Views, retry : BOOLEAN,
            divergence : {"none", "qualified", "rejected"}]
NoForward == [state |-> "NONE", entry |-> NoEntry, view |-> "none", retry |-> FALSE,
              divergence |-> "none"]

\* The steps of a dx command: those that need the store, and those that work on
\* pxx's inbox only.
StoreSteps == {"reconcile", "settle", "forward", "outcome"}
FileSteps == {"withdraw", "unlink", "unlinked", "create", "open", "write", "opened"}

\* A command: its step, the entry in hand, the keys it has still to visit, what
\* follows the reconciliation, what the inbox held when it looked last, and whether
\* it tried to withdraw, or to create, the entry.
Command == [pc : {"idle"} \cup StoreSteps \cup FileSteps, hand : Readable,
            todo : SUBSET Keys, plan : {"learn", "forward", "stop"},
            view : Views, tried : {"no", "yes", "busy"}]
Idle == [pc |-> "idle", hand |-> NoEntry, todo |-> {}, plan |-> "stop",
         view |-> "none", tried |-> "no"]

VARIABLES
  status,     \* each recommendation's status ("NONE": not in the queue)
  version,    \* the version of its evidence
  fwd,        \* its forward record
  pending,    \* the file under inbox/human-review-required/
  decided,    \* the files under inbox/qualified/ and inbox/rejected/
  cycleLock,  \* who holds pxx's cycle.lock
  triage,     \* what pxx's triage has read and is about to decide
  mutex,      \* who holds the store's mutation_lock
  cmd,        \* the dx commands
  counts,     \* what the bounds count
  stray       \* whether the pending entry was written by a command that had lost
              \* its session; no action reads it

queueVars == <<status, version, fwd>>
inboxVars == <<pending, decided, cycleLock, triage>>
dxVars == <<mutex, cmd>>
vars == <<queueVars, inboxVars, dxVars, counts, stray>>

Boxes == {"qualified", "rejected"}
NoTriage == [entry |-> NoEntry, box |-> "none", wrote |-> FALSE]

Init ==
  /\ status = [k \in Keys |-> "NONE"]
  /\ version = [k \in Keys |-> 1]
  /\ fwd = [k \in Keys |-> NoForward]
  /\ pending = NoEntry
  /\ decided = [b \in Boxes |-> NoEntry]
  /\ cycleLock = "free"
  /\ triage = NoTriage
  /\ mutex = NoCommand
  /\ cmd = [c \in Commands |-> Idle]
  /\ counts = [cycles |-> 0, triages |-> 0, failures |-> 0, passes |-> 0]
  /\ stray = FALSE

Fingerprint(k) == [key |-> k, version |-> version[k]]

\* inspect(): our pending entry first, then a human's decision, then the rest; a
\* file that cannot be read is somebody else's.
Inspect(entry) ==
  CASE pending = entry                    -> "pending-ours"
    [] pending # entry /\ decided["qualified"] # NoEntry ->
         IF decided["qualified"] = entry THEN "qualified" ELSE "qualified-other"
    [] pending # entry /\ decided["qualified"] = NoEntry /\ decided["rejected"] # NoEntry ->
         IF decided["rejected"] = entry THEN "rejected" ELSE "rejected-other"
    [] OTHER                              ->
         IF pending = NoEntry THEN "absent" ELSE "pending-other"

\* Mutant of Divergence: a retirement is not seen as a decision.
DivergenceOfRejects(st, v) ==
  CASE v = "qualified" /\ st = "REJECTED" -> "qualified"
    [] v = "rejected" /\ st = "ACCEPTED"  -> "rejected"
    [] OTHER                              -> "none"

Divergence(st, v) ==
  CASE v = "qualified" /\ st \in {"REJECTED", "RETIRED"} -> "qualified"
    [] v = "rejected" /\ st = "ACCEPTED"                 -> "rejected"
    [] OTHER                                             -> "none"

----------------------------------------------------------------------------
\* Control flow of a dx command

Forwarded == {k \in Keys : fwd[k] # NoForward}

\* A step on the store: only in the session that has the lock.
Holds(c, step) == cmd[c].pc = step /\ mutex = c
At(c, step) == cmd[c].pc = step

\* The name of a new process means nothing: it gets any that is not in use.
FreeName == CHOOSE c \in Commands : At(c, "idle")

\* The command takes mutation_lock, and settles forward records first.
Begin(c, keys, next) ==
  /\ At(c, "idle") /\ c = FreeName /\ mutex = NoCommand
  /\ mutex' = c
  /\ cmd' = [cmd EXCEPT ![c] = [Idle EXCEPT !.pc = "reconcile", !.todo = keys, !.plan = next]]

Goto(c, step) == cmd' = [cmd EXCEPT ![c].pc = step]

\* The work on the inbox goes on with `me`.  A command whose session was lost learns
\* so when it comes back to the store, and fails there.
GoOn(c, me) ==
  cmd' = [cmd EXCEPT ![c] = IF mutex # c /\ me.pc \in StoreSteps THEN Idle ELSE me]

\* The step on this key is over.
Return(c, step) ==
  cmd' = [cmd EXCEPT ![c] = [Idle EXCEPT !.pc = step, !.todo = cmd[c].todo,
                                         !.plan = cmd[c].plan]]

\* The command ends; the lock is given back, if it still has it.
Stop(c) ==
  /\ cmd' = [cmd EXCEPT ![c] = Idle]
  /\ mutex' = IF mutex = c THEN NoCommand ELSE mutex

----------------------------------------------------------------------------
\* The commands

\* cmd_learn_run: settle what earlier commands left, then learn.
BeginPass(c) ==
  /\ Begin(c, Forwarded, "learn")
  /\ UNCHANGED <<queueVars, inboxVars, counts, stray>>

\* Mutant of Decide: the decision does not wait for the lock.
DecideUnlocked(k, from, to) ==
  /\ status[k] \in from
  /\ status' = [status EXCEPT ![k] = to]
  /\ UNCHANGED <<version, fwd, inboxVars, counts, stray>>

\* A decision reads and commits under the lock.
Decide(k, from, to) ==
  /\ mutex = NoCommand
  /\ status[k] \in from
  /\ status' = [status EXCEPT ![k] = to]
  /\ UNCHANGED <<version, fwd, inboxVars, counts, stray>>

\* _settle_forward: the forward record is settled at once, under the same lock,
\* unless there is none or pxx's configuration cannot be read.
SettleForward(k) ==
  \/ k \in Forwarded /\ \E c \in Commands : Begin(c, {k}, "stop")
  \/ UNCHANGED dxVars

Accept(k) == Decide(k, {"PROPOSED", "STALE"}, "ACCEPTED") /\ UNCHANGED dxVars
Reject(k) == Decide(k, {"PROPOSED", "STALE"}, "REJECTED") /\ SettleForward(k)
Retire(k) == Decide(k, {"ACCEPTED"}, "RETIRED") /\ SettleForward(k)

\* reconcile() of learn_engine.py, then the pass's commit.  `fresh` are the
\* recommendations this pass sees evidence for, `grown` those whose evidence grew
\* enough to be raised again.
Raised(k, fresh, grown) ==
  CASE status[k] = "ACCEPTED"                              -> "ACCEPTED"
    [] status[k] \in {"REJECTED", "RETIRED"}               ->
         IF k \in fresh \cap grown THEN "PROPOSED" ELSE status[k]
    [] status[k] \in {"NONE", "PROPOSED", "STALE"} /\ k \in fresh -> "PROPOSED"
    [] status[k] = "PROPOSED" /\ k \notin fresh            -> "STALE"
    [] OTHER                                               -> status[k]

\* A pass that finds something new; the bound counts these only.
LearnSome ==
  /\ counts.passes < MaxPasses
  /\ counts' = [counts EXCEPT !.passes = @ + 1]
  /\ \E fresh, grown \in SUBSET Keys :
       /\ status' = [k \in Keys |-> Raised(k, fresh, grown)]
       /\ version' = [k \in Keys |->
            IF k \in fresh \cap grown /\ status[k] \notin {"NONE", "ACCEPTED"}
               /\ version[k] < MaxVersion
            THEN version[k] + 1 ELSE version[k]]
  /\ <<status, version>>' # <<status, version>>

Learn(c) ==
  /\ Holds(c, "reconcile") /\ cmd[c].todo = {} /\ cmd[c].plan = "learn"
  /\ LearnSome \/ UNCHANGED <<status, version, counts>>
  /\ cmd' = [cmd EXCEPT ![c] = [Idle EXCEPT !.pc = "reconcile", !.todo = Forwarded,
                                            !.plan = "forward"]]
  /\ UNCHANGED <<mutex, fwd, inboxVars, stray>>

\* A pass with --no-pxx leaves the inbox and the forward records alone: what it does
\* under the lock is that one commit.
BlindPass ==
  /\ mutex = NoCommand
  /\ LearnSome
  /\ UNCHANGED <<fwd, inboxVars, dxVars, stray>>

----------------------------------------------------------------------------
\* reconcile_forwards

\* Mutant of Withdrawable: only evidence that is gone withdraws.
WithdrawableIfStale == {"STALE"}

Withdrawable == {"REJECTED", "RETIRED", "STALE"}

\* Look at the inbox for one record.
LookAt(c, k) ==
  LET seen == Inspect(fwd[k].entry)
      step == IF status[k] \in Withdrawable /\ seen = "pending-ours" THEN "withdraw" ELSE "settle"
  IN  /\ Holds(c, "reconcile") /\ k \in cmd[c].todo
      /\ cmd' = [cmd EXCEPT ![c] = [cmd[c] EXCEPT !.hand = fwd[k].entry, !.todo = @ \ {k},
                                                  !.view = seen, !.pc = step]]
      /\ UNCHANGED <<mutex, queueVars, inboxVars, counts, stray>>

\* All records seen: a pass forwards, if it was asked to; a decision is over.
Reconciled(c) ==
  /\ Holds(c, "reconcile") /\ cmd[c].todo = {}
  /\ \/ /\ cmd[c].plan = "forward"
        /\ cmd' = [cmd EXCEPT ![c] = [Idle EXCEPT !.pc = "forward", !.todo = Keys]]
        /\ UNCHANGED mutex
     \/ cmd[c].plan \in {"forward", "stop"} /\ Stop(c)
  /\ UNCHANGED <<queueVars, inboxVars, counts, stray>>

\* Mutant of Withdraw: cycle.lock is not taken.
WithdrawUnlocked(c) ==
  /\ At(c, "withdraw")
  /\ LET seen == Inspect(cmd[c].hand)
     IN  cmd' = [cmd EXCEPT ![c] =
           [cmd[c] EXCEPT !.tried = "yes", !.view = seen,
                     !.pc = IF seen = "pending-ours" THEN "unlink" ELSE "settle"]]
  /\ UNCHANGED <<mutex, queueVars, inboxVars, counts, stray>>

\* The beginning of both primitives: take cycle.lock, or give up at once; go on
\* only if the inbox is as it must be.
UnderCycleLock(c, wanted, next, otherwise) ==
  LET seen == Inspect(cmd[c].hand)
      looked == [cmd[c] EXCEPT !.tried = "yes", !.view = seen]
  IN  \/ /\ cycleLock # "free"
         /\ GoOn(c, [cmd[c] EXCEPT !.tried = "busy", !.pc = otherwise])
         /\ UNCHANGED cycleLock
      \/ /\ cycleLock = "free" /\ seen = wanted
         /\ GoOn(c, [looked EXCEPT !.pc = next])
         /\ cycleLock' = c
      \/ /\ cycleLock = "free" /\ seen # wanted
         /\ GoOn(c, [looked EXCEPT !.pc = otherwise])
         /\ UNCHANGED cycleLock

\* withdraw_if_ours: cycle.lock, inspect, unlink, inspect.
Withdraw(c) ==
  /\ At(c, "withdraw")
  /\ UnderCycleLock(c, "pending-ours", "unlink", "settle")
  /\ UNCHANGED <<mutex, queueVars, pending, decided, triage, counts, stray>>

Unlink(c) ==
  /\ At(c, "unlink")
  /\ pending' = NoEntry /\ stray' = FALSE
  /\ Goto(c, "unlinked")
  /\ UNCHANGED <<mutex, queueVars, decided, cycleLock, triage, counts>>

\* The answer is what the inbox holds now; cycle.lock is given back.
LookAgain(c, step, next) ==
  /\ At(c, step)
  /\ GoOn(c, [cmd[c] EXCEPT !.view = Inspect(cmd[c].hand), !.pc = next])
  /\ cycleLock' = "free"
  /\ UNCHANGED <<mutex, queueVars, pending, decided, triage, counts, stray>>

LookAfterUnlink(c) == LookAgain(c, "unlinked", "settle")

\* Mutant of Recovered: an intent that was interrupted counts as never written.
RecoveredBlindly(f, seen) ==
  IF f.state = "INTENT" THEN [f EXCEPT !.state = "INTERRUPTED", !.retry = FALSE] ELSE f

\* An interrupted intent is resolved by what the inbox held, and an entry that
\* pxx's cycle replaced is superseded.
Recovered(f, seen) ==
  CASE f.state = "INTENT" /\ seen \in {"pending-ours", "qualified", "rejected"} ->
         [f EXCEPT !.state = "WRITTEN", !.retry = FALSE]
    [] f.state = "INTENT" /\ seen = "absent" ->
         [f EXCEPT !.state = "INTERRUPTED", !.retry = FALSE]
    [] f.state = "INTENT" /\ seen \in {"pending-other", "qualified-other", "rejected-other"} ->
         [f EXCEPT !.state = "NOT_WRITTEN", !.retry = TRUE]
    [] f.state = "WRITTEN" /\ seen = "pending-other" ->
         [f EXCEPT !.state = "SUPERSEDED", !.retry = TRUE]
    [] OTHER -> f

Settled(c) ==
  LET me == cmd[c]
      k == me.hand.key
      f == Recovered(fwd[k], IF me.tried = "no" THEN me.view ELSE "pending-ours")
      g == CASE me.tried = "yes" /\ me.view = "absent" ->
                  [f EXCEPT !.state = "WITHDRAWN", !.retry = status[k] = "STALE"]
             [] me.tried = "busy" -> [f EXCEPT !.retry = FALSE]
             [] OTHER             -> f
  IN  [g EXCEPT !.view = me.view, !.divergence = Divergence(status[k], me.view)]

Settle(c) ==
  /\ Holds(c, "settle")
  /\ fwd' = [fwd EXCEPT ![cmd[c].hand.key] = Settled(c)]
  /\ Return(c, "reconcile")
  /\ UNCHANGED <<mutex, status, version, inboxVars, counts, stray>>

----------------------------------------------------------------------------
\* forward_proposals

Eligible(k) ==
  /\ status[k] = "PROPOSED"
  /\ \/ fwd[k].state \in {"NONE", "INTERRUPTED"}
     \/ fwd[k].state \in {"NOT_WRITTEN", "SUPERSEDED", "WITHDRAWN"} /\ fwd[k].retry

NotEligible(c, k) ==
  /\ Holds(c, "forward") /\ k \in cmd[c].todo /\ ~Eligible(k)
  /\ cmd' = [cmd EXCEPT ![c].todo = @ \ {k}]
  /\ UNCHANGED <<mutex, queueVars, inboxVars, counts, stray>>

\* _outcome_for
Outcome(f, seen) ==
  [f EXCEPT !.view = seen,
            !.state = IF seen \in {"pending-ours", "qualified", "rejected"}
                      THEN "WRITTEN" ELSE "NOT_WRITTEN",
            !.retry = seen \in {"pending-other", "absent"}]

\* The slug is held: that is recorded, and nothing is written.  A record that says
\* so already stays as it is (its note may be worded otherwise, and is replaced).
Blocked(c, k) ==
  LET seen == Inspect(Fingerprint(k))
      f == Outcome([NoForward EXCEPT !.entry = Fingerprint(k)], seen)
      g == IF seen = "pending-ours" THEN f ELSE [f EXCEPT !.state = "NOT_WRITTEN"]
      same == /\ fwd[k].state = g.state /\ fwd[k].retry = g.retry
              /\ fwd[k].view = g.view
  IN  /\ Holds(c, "forward") /\ k \in cmd[c].todo /\ Eligible(k)
      /\ seen # "absent"
      /\ \/ fwd' = [fwd EXCEPT ![k] = g]
         \/ same /\ UNCHANGED fwd
      /\ cmd' = [cmd EXCEPT ![c].todo = @ \ {k}]
      /\ UNCHANGED <<mutex, status, version, inboxVars, counts, stray>>

\* The intent is durable before anything reaches pxx.
Intend(c, k) ==
  /\ Holds(c, "forward") /\ k \in cmd[c].todo /\ Eligible(k)
  /\ Inspect(Fingerprint(k)) = "absent"
  /\ fwd' = [fwd EXCEPT ![k] = [NoForward EXCEPT !.state = "INTENT",
                                                 !.entry = Fingerprint(k)]]
  /\ cmd' = [cmd EXCEPT ![c] = [cmd[c] EXCEPT !.hand = Fingerprint(k), !.todo = @ \ {k},
                                              !.pc = "create"]]
  /\ UNCHANGED <<mutex, status, version, inboxVars, counts, stray>>

\* write_pending: cycle.lock, inspect, create without clobbering, write, inspect.
Create(c) ==
  /\ At(c, "create")
  /\ UnderCycleLock(c, "absent", "open", "outcome")
  /\ UNCHANGED <<mutex, queueVars, pending, decided, triage, counts, stray>>

\* open("x"): the name is taken, the file is empty.
Open(c) ==
  /\ At(c, "open")
  /\ \/ pending = NoEntry /\ pending' = Torn /\ Goto(c, "write")
     \/ pending # NoEntry /\ UNCHANGED pending /\ Goto(c, "opened")
  /\ UNCHANGED <<mutex, queueVars, decided, cycleLock, triage, counts, stray>>

\* A triage may have unlinked the name since: then the text goes nowhere.
Write(c) ==
  /\ At(c, "write")
  /\ \/ /\ pending = Torn
        /\ pending' = cmd[c].hand
        /\ stray' = (mutex # c)
     \/ pending # Torn /\ UNCHANGED <<pending, stray>>
  /\ Goto(c, "opened")
  /\ UNCHANGED <<mutex, queueVars, decided, cycleLock, triage, counts>>

LookAfterOpen(c) == LookAgain(c, "opened", "outcome")

RecordOutcome(c) ==
  /\ Holds(c, "outcome")
  /\ fwd' = [fwd EXCEPT ![cmd[c].hand.key] =
               IF cmd[c].tried = "busy"
               THEN [@ EXCEPT !.state = "NOT_WRITTEN", !.retry = TRUE]
               ELSE Outcome(@, cmd[c].view)]
  /\ Return(c, "forward")
  /\ UNCHANGED <<mutex, status, version, inboxVars, counts, stray>>

EndPass(c) ==
  /\ Holds(c, "forward") /\ cmd[c].todo = {}
  /\ Stop(c)
  /\ UNCHANGED <<queueVars, inboxVars, counts, stray>>

----------------------------------------------------------------------------
\* Failures

\* The command dies, of a kill or of an exception; the kernel drops its locks.
Crash(c) ==
  /\ ~At(c, "idle") /\ counts.failures < MaxFailures
  /\ counts' = [counts EXCEPT !.failures = @ + 1]
  /\ cycleLock' = IF cycleLock = c THEN "free" ELSE cycleLock
  /\ Stop(c)
  /\ UNCHANGED <<queueVars, pending, decided, triage, stray>>

\* The connection breaks while the command works on the inbox: SQL Server ends the
\* session and frees its application lock, and the command does not know.
LoseSession(c) ==
  /\ cmd[c].pc \in FileSteps /\ mutex = c /\ Sql /\ counts.failures < MaxFailures
  /\ counts' = [counts EXCEPT !.failures = @ + 1]
  /\ mutex' = NoCommand
  /\ UNCHANGED <<cmd, queueVars, inboxVars, stray>>

Work(c) ==
  \/ Learn(c) \/ \E k \in Keys : LookAt(c, k)
  \/ Reconciled(c) \/ Withdraw(c) \/ Unlink(c) \/ LookAfterUnlink(c) \/ Settle(c)
  \/ \E k \in Keys : NotEligible(c, k) \/ Blocked(c, k) \/ Intend(c, k)
  \/ Create(c) \/ Open(c) \/ Write(c) \/ LookAfterOpen(c) \/ RecordOutcome(c)
  \/ EndPass(c)

Decisions == \E k \in Keys : Accept(k) \/ Reject(k) \/ Retire(k)

----------------------------------------------------------------------------
\* pxx

\* The improvement cycle writes its own proposal without looking whether one is
\* there, unless a human has decided the signature.
CycleBegin ==
  /\ cycleLock = "free" /\ counts.cycles < MaxCycles
  /\ counts' = [counts EXCEPT !.cycles = @ + 1]
  /\ cycleLock' = "cycle"
  /\ UNCHANGED <<queueVars, pending, decided, triage, dxVars, stray>>

CycleWrite ==
  /\ cycleLock = "cycle"
  /\ decided = [b \in Boxes |-> NoEntry]
  /\ pending' = Theirs /\ stray' = FALSE
  /\ UNCHANGED <<queueVars, decided, cycleLock, triage, dxVars, counts>>

CycleEnd ==
  /\ cycleLock = "cycle"
  /\ cycleLock' = "free"
  /\ UNCHANGED <<queueVars, pending, decided, triage, dxVars, counts, stray>>

\* A pxx human decides: the entry is read, its decided copy written, the pending
\* file unlinked.  What cannot be read cannot be decided.
TriageRead(box) ==
  /\ triage = NoTriage /\ pending \notin {NoEntry, Torn}
  /\ counts.triages < MaxTriage
  /\ counts' = [counts EXCEPT !.triages = @ + 1]
  /\ triage' = [entry |-> pending, box |-> box, wrote |-> FALSE]
  /\ UNCHANGED <<queueVars, pending, decided, cycleLock, dxVars, stray>>

TriageWrite ==
  /\ triage # NoTriage /\ ~triage.wrote
  /\ decided' = [decided EXCEPT ![triage.box] = triage.entry]
  /\ triage' = [triage EXCEPT !.wrote = TRUE]
  /\ UNCHANGED <<queueVars, pending, cycleLock, dxVars, counts, stray>>

TriageUnlink ==
  /\ triage # NoTriage /\ triage.wrote
  /\ pending' = NoEntry /\ stray' = FALSE
  /\ triage' = NoTriage
  /\ UNCHANGED <<queueVars, decided, cycleLock, dxVars, counts>>

\* A pxx human re-opens a decided signature.
Reopen(box) ==
  /\ decided[box] # NoEntry
  /\ decided' = [decided EXCEPT ![box] = NoEntry]
  /\ UNCHANGED <<queueVars, pending, cycleLock, triage, dxVars, counts, stray>>

Pxx ==
  \/ CycleBegin \/ CycleWrite \/ CycleEnd \/ TriageWrite \/ TriageUnlink
  \/ \E box \in Boxes : TriageRead(box) \/ Reopen(box)

Next ==
  \/ BlindPass \/ Decisions
  \/ \E c \in Commands : BeginPass(c) \/ Work(c) \/ Crash(c) \/ LoseSession(c)
  \/ Pxx

Spec == Init /\ [][Next]_vars

\* A dx command comes to its end (it never waits once it has the lock, so that it
\* goes on is all this takes), a pass that looks at the inbox is run again and again,
\* and pxx finishes what it began.
Fairness ==
  /\ \A c \in Commands : []<>At(c, "idle")
  /\ WF_vars(\E c \in Commands : BeginPass(c))
  /\ WF_vars(CycleEnd \/ TriageWrite \/ TriageUnlink)
FairSpec == Spec /\ Fairness

----------------------------------------------------------------------------
\* Properties

TypeOK ==
  /\ status \in [Keys -> Statuses]
  /\ version \in [Keys -> 1..MaxVersion]
  /\ fwd \in [Keys -> Forward]
  /\ pending \in File /\ decided \in [Boxes -> Readable]
  /\ cycleLock \in {"free", "cycle"} \cup Commands
  /\ triage \in [entry : Readable, box : Boxes \cup {"none"}, wrote : BOOLEAN]
  /\ mutex \in Commands \cup {NoCommand}
  /\ cmd \in [Commands -> Command]
  /\ stray \in BOOLEAN

\* A command that has the lock puts only what is PROPOSED at that moment in pxx's
\* inbox: no decision comes between its check and its write, whatever dies, and
\* whoever lost his session meanwhile ("a reject cannot land between the check and
\* the write", learn_forward.py:3-4).  A command whose own session was lost is
\* excepted: of that one the sentence is not true.
OnlyProposedIsSent ==
  [][\A e \in OurEntry :
       pending' = e /\ pending # e /\ ~stray' => status[e.key] = "PROPOSED"]_vars

\* A command of dx's removes nothing from pxx's inbox but an entry of dx's own that
\* belongs to the recommendation it withdraws, whatever pxx does meanwhile.
RemovesOnlyItsOwn ==
  [][\A c \in Commands :
       cmd'[c] # cmd[c] /\ pending' = NoEntry /\ pending # NoEntry =>
         pending \in OurEntry /\ pending.key = cmd[c].hand.key]_vars

\* Every whole entry of dx's that waits in pxx's inbox is the one its forward record
\* names, as intended or written, after any death; one that was written after its
\* writer lost the session is excepted.  A file that a death left torn is no entry:
\* dx itself takes it for somebody else's.
PendingIsTracked ==
  pending \in OurEntry /\ ~stray =>
    /\ fwd[pending.key].entry = pending
    /\ fwd[pending.key].state \in {"INTENT", "WRITTEN"}

\* A proposal that dx's human rejected or retired does not stay in pxx's inbox.
RejectedIsWithdrawn ==
  \A k \in Keys :
    (status[k] \in {"REJECTED", "RETIRED"} /\ pending = fwd[k].entry /\ pending # NoEntry)
      ~> (status[k] \notin {"REJECTED", "RETIRED"} \/ pending # fwd[k].entry)

\* A pxx human decided this entry one way, and dx's human its recommendation the
\* other way.
Diverged(k, entry) ==
  \/ decided["qualified"] = entry /\ status[k] \in {"REJECTED", "RETIRED"}
  \/ decided["rejected"] = entry /\ status[k] = "ACCEPTED"

\* When the two decide the proposal a forward record names differently, the record
\* comes to say so, unless one of them takes the decision back (docs/learn.md:326-331).
\* It does not hold of a proposal whose record has come to name a newer one, nor while
\* an entry that a lost session left there hides the decision (inspect() looks at the
\* pending file first).
RecordedDivergenceSurfaces ==
  \A k \in Keys :
    (Diverged(k, fwd[k].entry) /\ fwd[k] # NoForward)
      ~> \/ ~Diverged(k, fwd[k].entry) \/ fwd[k].divergence # "none"
         \/ stray /\ pending = fwd[k].entry

=============================================================================
