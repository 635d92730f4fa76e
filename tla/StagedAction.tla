------------------------------ MODULE StagedAction ------------------------------
(***************************************************************************)
(* The staged-action harness (staged_harness.py) over its runtime             *)
(* (staged_action.py): a sequence is perceived and filed as a bundle of       *)
(* EvidenceStore, offered, and then rejected, or approved and executed, or    *)
(* approved and drilled.  The harness writes its rows one at a time to the    *)
(* ledger other commands write to, and looks at the world again before it     *)
(* acts; what its caller lets it look at is regime.fresh.                      *)
(***************************************************************************)
EXTENDS EvidenceStore

CONSTANT Prior   \* the rejected stage that a command proposes again, or None

ASSUME PriorAssumption ==
  /\ None \notin Commands
  /\ Prior \in [Commands -> Commands \cup {None}]

VARIABLES
  act,       \* the act of the harness each stage went into
  approval,  \* the world its approval is bound to
  observed,  \* the world its runner saw before it acted
  world,     \* history: the world as it was then
  ran        \* the executor was called

stageVars == <<act, approval, observed, world, ran>>
vars == <<clock, screen, store, ledger, step, job, told, regime, people, faults, observer,
          act, approval, observed, world, ran>>

Init ==
  /\ InitStore
  /\ act = [c \in Commands |-> None]
  /\ approval = [c \in Commands |-> None]
  /\ observed = [c \in Commands |-> None]
  /\ world = [c \in Commands |-> None]
  /\ ran = [c \in Commands |-> FALSE]

IsStored == <<clock, screen, store, told, regime, people, observer>>

Wrote(c, action) == \E i \in DOMAIN ledger : ledger[i].by = c /\ ledger[i].action = action

----------------------------------------------------------------------------
\* Proposing

\* A stage that answers a rejection is made after it.
MayPropose(c) ==
  /\ Runs(c, "staged")
  /\ step[c] = "idle"
  /\ Prior[c] # None => Wrote(Prior[c], "ABANDONED")

\* stage() of the example, at the moment of its frame: the head was read before, and
\* others may have written since; the sequence is of whatever the tree showed.
Perceive(c) ==
  /\ MayPropose(c)
  /\ \E payload \in Payloads, head \in 0..Len(ledger) :
       job' = [job EXCEPT ![c].frame = screen, ![c].payload = payload,
                          ![c].head = head, ![c].passed = TRUE]
  /\ Goto(c, "prepare")
  /\ UNCHANGED <<ledger, faults>> /\ UNCHANGED IsStored /\ UNCHANGED stageVars

\* The rejected bundle itself is proposed again.
Refile(c) ==
  /\ MayPropose(c) /\ Prior[c] # None
  /\ job' = [job EXCEPT ![c] = [job[Prior[c]] EXCEPT !.dir = None, !.written = 0]]
  /\ Goto(c, "offer")
  /\ UNCHANGED <<ledger, faults>> /\ UNCHANGED IsStored /\ UNCHANGED stageVars

\* refuse_reproposal_without_changed_evidence, which the caller must call before it
\* takes a new proposal into an act, as the example does: no act calls it itself.
Unchanged(c) == Prior[c] # None /\ job[c].digest = job[Prior[c]].digest

RefuseUnchanged(c) ==
  /\ step[c] = "offer" /\ Unchanged(c)
  /\ Goto(c, Ended)
  /\ UNCHANGED <<ledger, job, faults>> /\ UNCHANGED IsStored /\ UNCHANGED stageVars

\* The operator takes it into an act of the harness.
Offer(c) ==
  /\ step[c] = "offer" /\ ~Unchanged(c)
  /\ \E a \in {"loop", "rejection", "drill"} : act' = [act EXCEPT ![c] = a]
  /\ Goto(c, "file")
  /\ UNCHANGED <<ledger, job, faults>> /\ UNCHANGED IsStored
  /\ UNCHANGED <<approval, observed, world, ran>>

----------------------------------------------------------------------------
\* The rows of an act: append(action, ...), each at its place

RowAt == [file |-> "EVIDENCE", review |-> "REVIEWED", abandon |-> "ABANDONED",
          sign |-> "SIGNED", record |-> "EXECUTED", refuse |-> "INCOMPLETE"]

After(c) ==
  CASE step[c] = "file" -> "review"
    [] step[c] = "review" -> IF act[c] = "rejection" THEN "abandon" ELSE "approve"
    [] step[c] = "sign" -> "observe"
    [] OTHER -> Ended

AppendRow(c) ==
  /\ step[c] \in DOMAIN RowAt
  /\ ledger' = Append(ledger, Row(c, RowAt[step[c]], None))
  /\ Goto(c, After(c))
  /\ UNCHANGED <<job, faults>> /\ UNCHANGED IsStored /\ UNCHANGED stageVars

\* A row that is refused ends the act.
AppendFails(c) ==
  /\ step[c] \in DOMAIN RowAt
  /\ Fails("ledger")
  /\ Goto(c, Ended)
  /\ UNCHANGED <<ledger, job>> /\ UNCHANGED IsStored /\ UNCHANGED stageVars

----------------------------------------------------------------------------
\* Approving and executing

\* WorldState of the stage, and the world at this moment.
Staged(c) == [head |-> job[c].head, frame |-> job[c].frame,
              payload |-> [proposes |-> job[c].payload], bundle |-> job[c].digest]
Now(c) == [head |-> Len(ledger), frame |-> screen,
           payload |-> Files(job[c].dir)["staged_sequence.json"],
           bundle |-> Files(job[c].dir)[Sums]]

\* Where gpg finds the signing secret; the mechanism of an approval is derived from
\* it, and there is none, but an ApprovalKeyError, if it is absent.
Residencies == {"card", "software", "absent"}
HasMechanism(residency) == residency # "absent"

\* build_approval_record.
BuildApproval(c) ==
  /\ step[c] = "approve"
  /\ \E residency \in Residencies :
       \/ HasMechanism(residency) /\ approval' = [approval EXCEPT ![c] = Staged(c)]
          /\ Goto(c, "sign")
       \/ ~HasMechanism(residency) /\ Goto(c, Ended) /\ UNCHANGED approval
  /\ UNCHANGED <<ledger, job, faults>> /\ UNCHANGED IsStored
  /\ UNCHANGED <<act, observed, world, ran>>

\* Mutant of Observe: every binding is copied from the stage.
ObserveStale(c) ==
  /\ step[c] = "observe"
  /\ observed' = [observed EXCEPT ![c] = Staged(c)]
  /\ world' = [world EXCEPT ![c] = Now(c)]
  /\ Goto(c, "verify")
  /\ UNCHANGED <<ledger, job, faults>> /\ UNCHANGED IsStored
  /\ UNCHANGED <<act, approval, ran>>

\* observe(): what the caller reads afresh, and for the rest what was staged.
Observe(c) ==
  /\ step[c] = "observe"
  /\ observed' = [observed EXCEPT ![c] =
                    [b \in Bindings |-> IF b \in regime.fresh THEN Now(c)[b] ELSE Staged(c)[b]]]
  /\ world' = [world EXCEPT ![c] = Now(c)]
  /\ Goto(c, "verify")
  /\ UNCHANGED <<ledger, job, faults>> /\ UNCHANGED IsStored
  /\ UNCHANGED <<act, approval, ran>>

\* reverify_bindings.
Moved(c) == \E b \in Bindings : observed[c][b] # approval[c][b]

\* Mutant of Execute: the drill's sentinel delegates to the executor.
DelegatingDrill(c) ==
  /\ step[c] = "verify" /\ ~Moved(c)
  /\ ran' = [ran EXCEPT ![c] = TRUE]
  /\ \/ act[c] = "loop" /\ Goto(c, "record")
     \/ Goto(c, Ended)
  /\ UNCHANGED <<ledger, job, faults>> /\ UNCHANGED IsStored
  /\ UNCHANGED <<act, approval, observed, world>>

\* execute_approved_stage; the executor may raise.  A drill has a sentinel for an
\* executor and ends with HarnessError.
Execute(c) ==
  /\ step[c] = "verify" /\ ~Moved(c)
  /\ ran' = [ran EXCEPT ![c] = act[c] = "loop"]
  /\ \/ act[c] = "loop" /\ Goto(c, "record")
     \/ Goto(c, Ended)
  /\ UNCHANGED <<ledger, job, faults>> /\ UNCHANGED IsStored
  /\ UNCHANGED <<act, approval, observed, world>>

\* StaleStageError: a drill records it, the full loop raises.
RefuseStale(c) ==
  /\ step[c] = "verify" /\ Moved(c)
  /\ Goto(c, IF act[c] = "drill" THEN "refuse" ELSE Ended)
  /\ UNCHANGED <<ledger, job, faults>> /\ UNCHANGED IsStored /\ UNCHANGED stageVars

Propose(c) == Perceive(c) \/ Refile(c) \/ RefuseUnchanged(c) \/ Offer(c)
Account(c) == AppendRow(c) \/ AppendFails(c)
ActOn(c) == BuildApproval(c) \/ Observe(c) \/ Execute(c) \/ RefuseStale(c)

Next ==
  \/ NextStore /\ UNCHANGED stageVars
  \/ \E c \in Commands : Propose(c) \/ Account(c) \/ ActOn(c)

Spec == Init /\ [][Next]_vars

----------------------------------------------------------------------------
\* Properties

Steps == {"idle", Ended, "attest", "judge", "prepare", "write", "hash", "sums", "digest", "bind",
          "offer", "approve", "observe", "verify"} \cup DOMAIN RowAt

\* The variables have their types, every bundle that was begun is in its own task's
\* directory, and whoever is past the reading of a digest has one (evidence.py,
\* staged_harness.py).
TypeOK ==
  /\ clock \in Seconds /\ screen \in Frames /\ regime \in Regimes
  /\ people \in 0..MaxPeople /\ faults \in 0..MaxFaults
  /\ DOMAIN store \subseteq Dirs
  /\ step \in [Commands -> Steps]
  /\ told \in [Commands -> {"nothing", "receipt", "no receipt"}]
  /\ act \in [Commands -> {None, "loop", "rejection", "drill"}]
  /\ ran \in [Commands -> BOOLEAN]
  /\ \A c \in Commands :
       /\ job[c].dir # None => job[c].dir \in {TaskOf[c]} \X Seconds
       /\ job[c].written \in 0..Len(FilesOf(FamilyOf[c]))
       /\ step[c] \in {"bind", "offer", "approve", "observe", "verify"} \cup DOMAIN RowAt
            => job[c].digest # None
       /\ step[c] = "verify" => approval[c] # None /\ observed[c] # None

\* execute_approved_stage: a stage whose executor was called was, when its runner
\* looked, in the world its approval is bound to, in every binding the runner reads
\* afresh, whatever others wrote to the ledger and however the screen moved.  With
\* the head among them no stage is ever executed: the act's own rows have moved it.
ExecutedAsApproved ==
  \A c \in Commands :
    ran[c] => /\ \A b \in regime.fresh : world[c][b] = approval[c][b]
              /\ "head" \notin regime.fresh

\* What the rows say of a stage is what happened to it, at any step and through
\* crashes and refused rows: EXECUTED follows a call of the executor, a stage that
\* was rejected, drilled or refused as stale has none.
RowsTellTheTruth ==
  \A c \in Commands :
    /\ Wrote(c, "EXECUTED") => ran[c]
    /\ Wrote(c, "ABANDONED") \/ Wrote(c, "INCOMPLETE") => ~ran[c]
    /\ ran[c] => act[c] = "loop" /\ Wrote(c, "SIGNED") /\ ~Moved(c)

=============================================================================
