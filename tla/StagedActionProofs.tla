--------------------------- MODULE StagedActionProofs ---------------------------
(***************************************************************************)
(* Proofs about StagedAction and EvidenceStore, for every set of commands,    *)
(* every task, prior stage, regime and fault, and every bound: what a staged  *)
(* action did is what its rows and its approval say, and a bundle that was    *)
(* announced verifies.                                                       *)
(*                                                                         *)
(* The argument about a bundle: a directory belongs to the commands that      *)
(* prepared it, for good, so only a command of the same task and second can   *)
(* disturb another's; between its own steps the directory of a command holds  *)
(* exactly the files it has written so far.                                  *)
(***************************************************************************)
EXTENDS StagedAction, SequenceTheorems, TLAPS

----------------------------------------------------------------------------
\* The shape of the variables

Fields == {"dir", "written", "sums", "digest", "frame", "attested", "passed", "payload", "head"}

IsSeq(s) == \E S : s \in Seq(S)

Shape0 ==
  /\ clock \in Seconds
  /\ step \in [Commands -> Steps] /\ ran \in [Commands -> BOOLEAN]
  /\ told \in [Commands -> {"nothing", "receipt", "no receipt"}]
  /\ DOMAIN job = Commands /\ \A c \in Commands : DOMAIN job[c] = Fields
  /\ DOMAIN act = Commands /\ DOMAIN approval = Commands /\ DOMAIN observed = Commands
  /\ DOMAIN world = Commands /\ DOMAIN observer = Commands

Shape == Shape0 /\ IsSeq(ledger)

----------------------------------------------------------------------------
\* What the rows, the act and the approval of a stage say

Unoffered == {"idle", "attest", "judge", "prepare", "write", "hash", "sums", "digest", "bind", "offer"}
Acting == {"file", "review", "abandon", "approve", "sign", "observe", "verify", "record", "refuse"}

\* A stage was perceived before its own rows, which have moved the head.
HeadOf(c) ==
  /\ step[c] \in Acting \cup {"offer"} => FamilyOf[c] = "staged"
  /\ FamilyOf[c] = "staged" /\ step[c] # "idle" => job[c].head \in 0..Len(ledger)
  /\ step[c] \in {"review", "abandon", "approve", "sign", "observe"} => job[c].head < Len(ledger)
  /\ step[c] \in {"sign", "observe"} => approval[c].head = job[c].head

\* Which act each step belongs to.
ActOf(c) ==
  /\ step[c] = "abandon" => act[c] = "rejection"
  /\ step[c] = "refuse" => act[c] = "drill"
  /\ step[c] = "record" => ran[c]
  /\ step[c] \in Unoffered \cup (Acting \ {"record"}) => ~ran[c]

RowsOf(c) ==
  /\ step[c] \in Unoffered => \A i \in DOMAIN ledger : ledger[i].by # c
  /\ step[c] \in {"observe", "verify"} => Wrote(c, "SIGNED")
  /\ Wrote(c, "ABANDONED") => step[c] = Ended /\ act[c] = "rejection" /\ FamilyOf[c] = "staged"
  /\ Wrote(c, "INCOMPLETE") => step[c] = Ended /\ act[c] = "drill"
  /\ Wrote(c, "EXECUTED") => step[c] = Ended /\ ran[c]

\* The runner has seen what it was told to see.
SeenOf(c) ==
  /\ step[c] = "verify" =>
       /\ \A b \in regime.fresh : observed[c][b] = world[c][b]
       /\ "head" \in regime.fresh => Moved(c)
  /\ ran[c] =>
       /\ act[c] = "loop" /\ Wrote(c, "SIGNED") /\ ~Moved(c)
       /\ \A b \in regime.fresh : world[c][b] = approval[c][b]
       /\ "head" \notin regime.fresh

StageOf(c) == HeadOf(c) /\ ActOf(c) /\ RowsOf(c) /\ SeenOf(c)
Stages == regime \in Regimes /\ \A c \in Commands : StageOf(c)

----------------------------------------------------------------------------
\* What a directory holds

NamesOf(c) == ToSet(FilesOf(FamilyOf[c]))
Written(c) == {FilesOf(FamilyOf[c])[i] : i \in 1..job[c].written}
SumsOf(c) == [f \in NamesOf(c) |-> Content(c, f)]

\* A directory belongs to the commands that prepared it.
OwnDir(c) ==
  /\ job[c].dir # None => job[c].dir \in {TaskOf[c]} \X Seconds
  /\ step[c] \in {"idle", "attest", "judge", "prepare"} => job[c].dir = None
  /\ step[c] \in {"write", "hash", "sums", "digest", "bind"} => job[c].dir # None
  /\ job[c].dir # None /\ step[c] # Ended => job[c].dir \in DOMAIN store
  /\ told[c] = "receipt" => job[c].dir # None
  /\ told[c] = "receipt" => step[c] \in {"digest", "bind", "offer", Ended} \cup Acting
  /\ step[c] \in {"digest", "bind"} => told[c] = "receipt"
  /\ step[c] \in {"idle", "attest", "judge", "prepare"} => job[c].written = 0
  /\ step[c] = "write" => job[c].written \in 0..(Len(FilesOf(FamilyOf[c])) - 1)
  /\ step[c] \in {"hash", "sums"} => job[c].written = Len(FilesOf(FamilyOf[c]))

OwnFiles(c) ==
  ~Collided(c) =>
    /\ step[c] \in {"write", "hash", "sums"} =>
         /\ DOMAIN Files(job[c].dir) = Written(c)
         /\ \A f \in Written(c) : Files(job[c].dir)[f] = Content(c, f)
    /\ step[c] = "sums" => job[c].sums = SumsOf(c)
    /\ Finished(c) /\ job[c].dir \in DOMAIN store =>
         /\ DOMAIN Files(job[c].dir) = NamesOf(c) \cup {Sums}
         /\ \A f \in NamesOf(c) : Files(job[c].dir)[f] = Content(c, f)
         /\ Files(job[c].dir)[Sums] = SumsOf(c)
    /\ step[c] = "bind" => job[c].digest = SumsOf(c)

RowNames(row) ==
  row.digest # None =>
    /\ row.by \in Commands /\ told[row.by] = "receipt" /\ step[row.by] = Ended
    /\ ~Collided(row.by) => job[row.by].dir \in DOMAIN store /\ row.digest = SumsOf(row.by)

Bundles ==
  /\ \A dir \in DOMAIN store : dir # None /\ \E c \in Commands : job[c].dir = dir
  /\ \A c \in Commands : OwnDir(c) /\ OwnFiles(c)
  /\ \A i \in DOMAIN ledger : RowNames(ledger[i])

----------------------------------------------------------------------------
\* Whom an observer attests to

AttestOf(c) ==
  /\ step[c] \in {"attest", "judge"} => FamilyOf[c] = "gui"
  /\ job[c].attested /\ FamilyOf[c] = "gui" =>
       step[c] \notin {"idle", "attest"} /\ observer[c] = job[c].frame
Attests == \A c \in Commands : AttestOf(c)

----------------------------------------------------------------------------
\* The ledger grows by rows of the command that acts

LEMMA SeqFacts ==
  ASSUME NEW s, IsSeq(s)
  PROVE  Len(s) \in Nat /\ DOMAIN s = 1..Len(s)
<1> PICK S : s \in Seq(S)
  BY DEF IsSeq
<1> QED BY LenProperties

LEMMA Appended ==
  ASSUME NEW s, IsSeq(s), NEW row
  PROVE  /\ IsSeq(Append(s, row)) /\ Len(Append(s, row)) = Len(s) + 1
         /\ Append(s, row)[Len(s) + 1] = row
         /\ \A i \in 1..Len(s) : Append(s, row)[i] = s[i]
<1> PICK S : s \in Seq(S)
  BY DEF IsSeq
<1>1. s \in Seq(S \cup {row}) /\ row \in S \cup {row}
  BY SeqMonotonic
<1> DEFINE T == S \cup {row}
<1> HIDE DEF T
<1>2. s \in Seq(T) /\ row \in T
  BY <1>1 DEF T
<1>3. /\ Append(s, row) \in Seq(T) /\ Len(Append(s, row)) = Len(s) + 1
      /\ Append(s, row)[Len(s) + 1] = row
      /\ \A i \in 1..Len(s) : Append(s, row)[i] = s[i]
  BY <1>2, AppendProperties
<1> QED BY <1>3 DEF IsSeq

LEMMA RowsGrow ==
  ASSUME IsSeq(ledger), NEW row, ledger' = Append(ledger, row)
  PROVE  /\ IsSeq(ledger') /\ Len(ledger) \in Nat /\ Len(ledger') = Len(ledger) + 1
         /\ \A i \in DOMAIN ledger' : (i \in DOMAIN ledger /\ ledger'[i] = ledger[i]) \/ ledger'[i] = row
         /\ \A i \in DOMAIN ledger : i \in DOMAIN ledger' /\ ledger'[i] = ledger[i]
         /\ \A c, action : Wrote(c, action)' <=> Wrote(c, action) \/ (row.by = c /\ row.action = action)
<1>1. /\ IsSeq(ledger') /\ Len(ledger') = Len(ledger) + 1 /\ Len(ledger) \in Nat
      /\ DOMAIN ledger = 1..Len(ledger) /\ DOMAIN ledger' = 1..(Len(ledger) + 1)
      /\ ledger'[Len(ledger) + 1] = row
      /\ \A i \in 1..Len(ledger) : ledger'[i] = ledger[i]
  <2>1. IsSeq(ledger') /\ Len(ledger') = Len(ledger) + 1
    BY Appended
  <2> QED BY <2>1, Appended, SeqFacts
<1>2. Len(ledger) + 1 \in DOMAIN ledger'
  BY <1>1
<1>3. \A i \in DOMAIN ledger' : (i \in DOMAIN ledger /\ ledger'[i] = ledger[i]) \/ ledger'[i] = row
  <2> TAKE i \in DOMAIN ledger'
  <2>1. i \in 1..Len(ledger) \/ i = Len(ledger) + 1
    BY <1>1
  <2> QED BY <1>1, <2>1
<1>4. \A i \in DOMAIN ledger : i \in DOMAIN ledger' /\ ledger'[i] = ledger[i]
  BY <1>1
<1>5. \A c, action : Wrote(c, action)' <=> Wrote(c, action) \/ (row.by = c /\ row.action = action)
  BY <1>1, <1>2, <1>3, <1>4 DEF Wrote
<1> QED BY <1>1, <1>3, <1>4, <1>5

----------------------------------------------------------------------------
\* Every step keeps the shape of the variables

LEMMA StoreShape ==
  ASSUME Shape, NEW c \in Commands,
         RunEnded(c) \/ VerifyGui(c) \/ WriteBundle(c) \/ BindBundle(c) \/ Crash(c), UNCHANGED stageVars
  PROVE  Shape'
<1> USE DEF Goto, Steps, Ended
<1>1. /\ UNCHANGED clock /\ UNCHANGED stageVars
  BY DEF RunEnded, VerifyGui, ObtainFrame, Attest, Judge, WriteBundle, PrepareOut, WriteFile, HashFiles,
         WriteSums, WriteFails, BindBundle, BundleDigest, Bind, Crash
<1>2. step' \in [Commands -> Steps]
  BY DEF Shape, Shape0, RunEnded, VerifyGui, ObtainFrame, Attest, Judge, WriteBundle, PrepareOut,
         WriteFile, HashFiles, WriteSums, WriteFails, BindBundle, BundleDigest, Bind, Crash
<1>3. told' \in [Commands -> {"nothing", "receipt", "no receipt"}]
  BY DEF Shape, Shape0, RunEnded, VerifyGui, ObtainFrame, Attest, Judge, WriteBundle, PrepareOut,
         WriteFile, HashFiles, WriteSums, WriteFails, BindBundle, BundleDigest, Bind, Crash, Tell
<1>4. DOMAIN observer' = Commands
  BY DEF Shape, Shape0, RunEnded, VerifyGui, ObtainFrame, Attest, Judge, WriteBundle, PrepareOut,
         WriteFile, HashFiles, WriteSums, WriteFails, BindBundle, BundleDigest, Bind, Crash
<1>5. DOMAIN job' = Commands /\ \A d \in Commands : DOMAIN job'[d] = Fields
  <2> USE DEF Shape, Shape0
  <2>1. CASE RunEnded(c)
    BY <2>1 DEF RunEnded
  <2>2. CASE ObtainFrame(c)
    BY <2>2 DEF ObtainFrame
  <2>3. CASE Attest(c)
    <3>1. UNCHANGED job \/ job' = [job EXCEPT ![c].attested = TRUE]
      BY <2>3 DEF Attest
    <3> DEFINE yes == TRUE
    <3>2. UNCHANGED job \/ job' = [job EXCEPT ![c].attested = yes]
      BY <3>1
    <3> HIDE DEF yes
    <3> QED BY <3>2
  <2>4. CASE Judge(c)
    <3>1. PICK verdict \in Verdicts : job' = [job EXCEPT ![c].passed = (verdict = "met")]
      BY <2>4 DEF Judge
    <3> DEFINE met == verdict = "met"
    <3>2. job' = [job EXCEPT ![c].passed = met]
      BY <3>1
    <3> HIDE DEF met
    <3> QED BY <3>2
  <2>5. CASE PrepareOut(c)
    BY <2>5 DEF PrepareOut
  <2>6. CASE WriteFile(c)
    BY <2>6 DEF WriteFile
  <2>7. CASE HashFiles(c)
    BY <2>7 DEF HashFiles
  <2>8. CASE BundleDigest(c)
    BY <2>8 DEF BundleDigest
  <2>9. CASE WriteSums(c) \/ WriteFails(c) \/ Bind(c) \/ Crash(c)
    BY <2>9 DEF WriteSums, WriteFails, Bind, Crash
  <2> QED BY <2>1, <2>2, <2>3, <2>4, <2>5, <2>6, <2>7, <2>8, <2>9
          DEF WriteBundle, BindBundle, VerifyGui
<1>6. IsSeq(ledger')
  <2>1. UNCHANGED ledger \/ ledger' = Append(ledger, Row(c, "EVIDENCE", job[c].digest))
    BY DEF RunEnded, VerifyGui, ObtainFrame, Attest, Judge, WriteBundle, PrepareOut,
           WriteFile, HashFiles, WriteSums, WriteFails, BindBundle, BundleDigest, Bind, Crash
  <2> QED BY <2>1, RowsGrow DEF Shape
<1> QED BY <1>1, <1>2, <1>3, <1>4, <1>5, <1>6 DEF Shape, Shape0, stageVars

LEMMA WorldShape ==
  ASSUME Shape, Tick \/ ScreenMoves \/ Prune, UNCHANGED stageVars
  PROVE  Shape'
<1>1. clock' \in Seconds
  <2>1. MaxClock \in Nat
    BY EvidenceAssumption
  <2>2. UNCHANGED clock \/ (clock < MaxClock /\ clock' = clock + 1)
    BY DEF Tick, ScreenMoves, Prune
  <2>3. clock \in 0..MaxClock
    BY DEF Shape, Shape0, Seconds
  <2> QED BY <2>1, <2>2, <2>3 DEF Seconds
<1>2. IsSeq(ledger')
  BY DEF Shape, Tick, ScreenMoves, Prune
<1>3. UNCHANGED <<step, told, job, observer, act, approval, observed, world, ran>>
  BY DEF Tick, ScreenMoves, Prune, stageVars
<1> QED BY <1>1, <1>2, <1>3 DEF Shape, Shape0

LEMMA StageShape ==
  ASSUME Shape, NEW c \in Commands, Propose(c) \/ Account(c) \/ ActOn(c)
  PROVE  Shape'
<1> USE DEF Goto, Steps, Ended
<1>1. /\ UNCHANGED clock /\ UNCHANGED <<told, observer>>
  BY DEF Propose, Perceive, Refile, RefuseUnchanged, Offer, Account, AppendRow, AppendFails, ActOn,
         BuildApproval, Observe, Execute, RefuseStale, IsStored
<1>2. step' \in [Commands -> Steps]
  BY DEF Shape, Shape0, Propose, Perceive, Refile, RefuseUnchanged, Offer, Account, AppendRow,
         AppendFails, ActOn, BuildApproval, Observe, Execute, RefuseStale, After, RowAt
<1>3. /\ ran' \in [Commands -> BOOLEAN]
      /\ DOMAIN act' = Commands /\ DOMAIN approval' = Commands /\ DOMAIN observed' = Commands
      /\ DOMAIN world' = Commands
  BY DEF Shape, Shape0, Propose, Perceive, Refile, RefuseUnchanged, Offer, Account, AppendRow,
         AppendFails, ActOn, BuildApproval, Observe, Execute, RefuseStale, stageVars
<1>4. DOMAIN job' = Commands /\ \A d \in Commands : DOMAIN job'[d] = Fields
  <2>1. CASE Refile(c)
    <3>1. Prior[c] \in Commands
      BY <2>1, PriorAssumption DEF Refile
    <3> QED BY <2>1, <3>1 DEF Refile, Shape, Shape0
  <2>2. CASE ~Refile(c)
    BY <2>2 DEF Shape, Shape0, Propose, Perceive, RefuseUnchanged, Offer, Account, AppendRow,
           AppendFails, ActOn, BuildApproval, Observe, Execute, RefuseStale
  <2> QED BY <2>1, <2>2
<1>5. IsSeq(ledger')
  <2>1. UNCHANGED ledger \/ \E row : ledger' = Append(ledger, row)
    BY DEF Propose, Perceive, Refile, RefuseUnchanged, Offer, Account, AppendRow, AppendFails,
           ActOn, BuildApproval, Observe, Execute, RefuseStale
  <2> QED BY <2>1, RowsGrow DEF Shape
<1> QED BY <1>1, <1>2, <1>3, <1>4, <1>5 DEF Shape, Shape0

----------------------------------------------------------------------------
\* A command moves nothing of another's but the files of its own directory

OfStore(c) == RunEnded(c) \/ VerifyGui(c) \/ WriteBundle(c) \/ BindBundle(c) \/ Crash(c)
OfStage(c) == Propose(c) \/ Account(c) \/ ActOn(c)
StepOf(c) == (OfStore(c) /\ UNCHANGED stageVars) \/ OfStage(c)

SameFor(d) ==
  /\ step'[d] = step[d] /\ job'[d] = job[d] /\ told'[d] = told[d] /\ observer'[d] = observer[d]
  /\ act'[d] = act[d] /\ approval'[d] = approval[d] /\ observed'[d] = observed[d]
  /\ world'[d] = world[d] /\ ran'[d] = ran[d]

LEMMA StepShape ==
  ASSUME Shape, NEW c \in Commands, StepOf(c)
  PROVE  Shape'
  BY StoreShape, StageShape DEF StepOf, OfStore, OfStage

LEMMA OthersSame ==
  ASSUME Shape, NEW c \in Commands, StepOf(c), NEW d \in Commands \ {c}
  PROVE  SameFor(d) /\ regime' = regime /\ clock' = clock
<1> USE DEF Shape, Shape0, Goto, StepOf, OfStore, OfStage
<1>1. step'[d] = step[d]
  BY DEF RunEnded, VerifyGui, ObtainFrame, Attest, Judge, WriteBundle, PrepareOut, WriteFile, HashFiles,
         WriteSums, WriteFails, BindBundle, BundleDigest, Bind, Crash, Propose, Perceive, Refile,
         RefuseUnchanged, Offer, Account, AppendRow, AppendFails, ActOn, BuildApproval, Observe,
         Execute, RefuseStale
<1>2. told'[d] = told[d] /\ observer'[d] = observer[d]
  BY DEF RunEnded, VerifyGui, ObtainFrame, Attest, Judge, WriteBundle, PrepareOut, WriteFile, HashFiles,
         WriteSums, WriteFails, BindBundle, BundleDigest, Bind, Crash, Propose, Perceive, Refile,
         RefuseUnchanged, Offer, Account, AppendRow, AppendFails, ActOn, BuildApproval, Observe,
         Execute, RefuseStale, IsStored, Tell
<1>3. regime' = regime /\ clock' = clock
  BY DEF RunEnded, VerifyGui, ObtainFrame, Attest, Judge, WriteBundle, PrepareOut, WriteFile, HashFiles,
         WriteSums, WriteFails, BindBundle, BundleDigest, Bind, Crash, Propose, Perceive, Refile,
         RefuseUnchanged, Offer, Account, AppendRow, AppendFails, ActOn, BuildApproval, Observe,
         Execute, RefuseStale, IsStored
<1>4. job'[d] = job[d]
  BY DEF RunEnded, VerifyGui, ObtainFrame, Attest, Judge, WriteBundle, PrepareOut, WriteFile, HashFiles,
         WriteSums, WriteFails, BindBundle, BundleDigest, Bind, Crash, Propose, Perceive, Refile,
         RefuseUnchanged, Offer, Account, AppendRow, AppendFails, ActOn, BuildApproval, Observe,
         Execute, RefuseStale
<1>5. /\ act'[d] = act[d] /\ approval'[d] = approval[d] /\ observed'[d] = observed[d]
      /\ world'[d] = world[d] /\ ran'[d] = ran[d]
  <2>1. CASE UNCHANGED stageVars
    BY <2>1 DEF stageVars
  <2>2. CASE OfStage(c)
    BY <2>2 DEF Propose, Perceive, Refile, RefuseUnchanged, Offer, Account, AppendRow, AppendFails,
                ActOn, BuildApproval, Observe, Execute, RefuseStale, stageVars
  <2> QED BY <2>1, <2>2
<1> QED BY <1>1, <1>2, <1>3, <1>4, <1>5 DEF SameFor

LEMMA LedgerOf ==
  ASSUME NEW c \in Commands, StepOf(c)
  PROVE  UNCHANGED ledger \/ \E row : row.by = c /\ ledger' = Append(ledger, row)
<1>1. CASE OfStore(c)
  <2>1. UNCHANGED ledger \/ ledger' = Append(ledger, Row(c, "EVIDENCE", job[c].digest))
    BY <1>1 DEF OfStore, RunEnded, VerifyGui, ObtainFrame, Attest, Judge, WriteBundle, PrepareOut,
           WriteFile, HashFiles, WriteSums, WriteFails, BindBundle, BundleDigest, Bind, Crash
  <2> QED BY <2>1 DEF Row
<1>2. CASE OfStage(c)
  <2>1. UNCHANGED ledger \/ ledger' = Append(ledger, Row(c, RowAt[step[c]], None))
    BY <1>2 DEF OfStage, Propose, Perceive, Refile, RefuseUnchanged, Offer, Account, AppendRow,
           AppendFails, ActOn, BuildApproval, Observe, Execute, RefuseStale
  <2> QED BY <2>1 DEF Row
<1> QED BY <1>1, <1>2 DEF StepOf

----------------------------------------------------------------------------
\* What a step does to the command's own variables

SameBut(c, moved) == \A f \in Fields \ moved : job'[c][f] = job[c][f]

LEMMA OneField ==
  ASSUME Shape, NEW c \in Commands, NEW f \in Fields, NEW v,
         job' = [job EXCEPT ![c] = [job[c] EXCEPT ![f] = v]]
  PROVE  job'[c][f] = v /\ SameBut(c, {f})
  BY DEF Shape, Shape0, SameBut

LEMMA RunMoves ==
  ASSUME Shape, NEW c \in Commands, RunEnded(c)
  PROVE  /\ step[c] = "idle" /\ step'[c] = "prepare" /\ UNCHANGED <<ledger, store, told, observer>>
         /\ FamilyOf[c] \in {"role", "merge"} /\ SameBut(c, {"passed", "head"})
<1> DEFINE head == IF FamilyOf[c] = "merge" THEN Len(ledger) ELSE job[c].head
<1>1. /\ step[c] = "idle" /\ step'[c] = "prepare" /\ UNCHANGED <<ledger, store, told, observer>>
      /\ FamilyOf[c] \in {"role", "merge"}
  BY DEF RunEnded, Runs, Goto, Shape, Shape0
<1>2. \E passed \in BOOLEAN : job' = [job EXCEPT ![c].passed = passed, ![c].head = head]
  BY DEF RunEnded, Shape, Shape0, Fields
<1> HIDE DEF head
<1>3. \E it : job' = [job EXCEPT ![c].passed = it, ![c].head = head]
  BY <1>2
<1> PICK it : job' = [job EXCEPT ![c].passed = it, ![c].head = head]
  BY <1>3
<1>4. SameBut(c, {"passed", "head"})
  BY DEF Shape, Shape0, Fields, SameBut
<1> QED BY <1>1, <1>4

LEMMA FrameMoves ==
  ASSUME Shape, NEW c \in Commands, ObtainFrame(c)
  PROVE  /\ step[c] = "idle" /\ step'[c] \in {"attest", "judge"}
         /\ UNCHANGED <<ledger, store, told, observer>>
         /\ FamilyOf[c] = "gui" /\ SameBut(c, {"frame"})
<1>1. /\ step[c] = "idle" /\ step'[c] \in {"attest", "judge"}
      /\ UNCHANGED <<ledger, store, told, observer>>
      /\ FamilyOf[c] = "gui"
      /\ \E frame \in Frames :
           job' = [job EXCEPT ![c] = [job[c] EXCEPT !["frame"] = frame]] /\ "frame" \in Fields
  BY DEF ObtainFrame, Runs, Goto, Shape, Shape0, Fields
<1>2. SameBut(c, {"frame"})
  BY <1>1, OneField
<1> QED BY <1>1, <1>2

LEMMA PerceiveMoves ==
  ASSUME Shape, NEW c \in Commands, Perceive(c)
  PROVE  /\ step[c] = "idle" /\ step'[c] = "prepare" /\ UNCHANGED <<ledger, store, told, observer>>
         /\ FamilyOf[c] = "staged" /\ SameBut(c, {"frame", "payload", "head", "passed"})
<1>1. /\ step[c] = "idle" /\ step'[c] = "prepare" /\ UNCHANGED <<ledger, store, told, observer>>
      /\ FamilyOf[c] = "staged"
  BY DEF Perceive, MayPropose, IsStored, Runs, Goto, Shape, Shape0
<1>2. PICK payload \in Payloads, head \in 0..Len(ledger) :
        job' = [job EXCEPT ![c].frame = screen, ![c].payload = payload,
                           ![c].head = head, ![c].passed = TRUE]
  BY DEF Perceive
<1> DEFINE yes == TRUE
<1>3. job' = [job EXCEPT ![c].frame = screen, ![c].payload = payload,
                         ![c].head = head, ![c].passed = yes]
  BY <1>2
<1> HIDE DEF yes
<1>4. SameBut(c, {"frame", "payload", "head", "passed"})
  BY <1>3 DEF Shape, Shape0, Fields, SameBut
<1> QED BY <1>1, <1>4

LEMMA RefileMoves ==
  ASSUME Shape, NEW c \in Commands, Refile(c)
  PROVE  /\ step[c] = "idle" /\ step'[c] = "offer" /\ UNCHANGED <<ledger, store, told, observer>>
         /\ FamilyOf[c] = "staged" /\ job'[c].dir = None
<1>1. /\ step[c] = "idle" /\ step'[c] = "offer" /\ UNCHANGED <<ledger, store, told, observer>>
      /\ FamilyOf[c] = "staged"
  BY DEF Refile, MayPropose, IsStored, Runs, Goto, Shape, Shape0
<1>2. /\ Prior[c] \in Commands
      /\ job' = [job EXCEPT ![c] = [job[Prior[c]] EXCEPT !.dir = None, !.written = 0]]
  BY PriorAssumption DEF Refile
<1>3. job'[c].dir = None
  BY <1>2 DEF Shape, Shape0, Fields
<1> QED BY <1>1, <1>3

LEMMA AttestMoves ==
  ASSUME Shape, NEW c \in Commands, Attest(c)
  PROVE  /\ step[c] = "attest" /\ step'[c] \in {"judge", Ended} /\ UNCHANGED <<ledger, store, told>>
         /\ SameBut(c, {"attested"})
         /\ observer'[c] = screen
         /\ \/ step'[c] = Ended /\ job'[c] = job[c]
            \/ step'[c] = "judge" /\ screen = job[c].frame
<1>1. /\ step[c] = "attest" /\ step'[c] \in {"judge", Ended} /\ UNCHANGED <<ledger, store, told>>
      /\ observer'[c] = screen
      /\ \/ step'[c] = Ended /\ UNCHANGED job
         \/ step'[c] = "judge" /\ Attested(c) /\ job' = [job EXCEPT ![c].attested = TRUE]
  BY DEF Attest, Goto, Shape, Shape0
<1>2. CASE UNCHANGED job
  BY <1>1, <1>2 DEF SameBut, Attested
<1>3. CASE job' = [job EXCEPT ![c].attested = TRUE]
  <2> DEFINE yes == TRUE
  <2>1. job' = [job EXCEPT ![c] = [job[c] EXCEPT !["attested"] = yes]] /\ "attested" \in Fields
    BY <1>3 DEF Fields
  <2> HIDE DEF yes
  <2>2. SameBut(c, {"attested"})
    BY <2>1, OneField
  <2> QED BY <1>1, <2>2 DEF Attested
<1> QED BY <1>1, <1>2, <1>3

LEMMA JudgeMoves ==
  ASSUME Shape, NEW c \in Commands, Judge(c)
  PROVE  /\ step[c] = "judge" /\ step'[c] = "prepare" /\ UNCHANGED <<ledger, store, told, observer>>
         /\ SameBut(c, {"passed"})
<1>1. /\ step[c] = "judge" /\ step'[c] = "prepare" /\ UNCHANGED <<ledger, store, told, observer>>
      /\ \E verdict \in Verdicts : job' = [job EXCEPT ![c].passed = (verdict = "met")]
  BY DEF Judge, Goto, Shape, Shape0
<1> PICK verdict \in Verdicts : job' = [job EXCEPT ![c].passed = (verdict = "met")]
  BY <1>1
<1> DEFINE met == verdict = "met"
<1>2. job' = [job EXCEPT ![c] = [job[c] EXCEPT !["passed"] = met]] /\ "passed" \in Fields
  BY DEF Fields
<1> HIDE DEF met
<1>3. SameBut(c, {"passed"})
  BY <1>2, OneField
<1> QED BY <1>1, <1>3

LEMMA PrepareMoves ==
  ASSUME Shape, NEW c \in Commands, PrepareOut(c)
  PROVE  /\ step[c] = "prepare" /\ step'[c] = "write" /\ UNCHANGED <<ledger, told, observer>>
         /\ job'[c].dir = <<TaskOf[c], clock>> /\ SameBut(c, {"dir"})
         /\ DOMAIN store' = DOMAIN store \cup {job'[c].dir}
         /\ \A d \in DOMAIN store : store'[d] = store[d]
         /\ job'[c].dir \notin DOMAIN store => store'[job'[c].dir] = <<>>
<1> DEFINE dir == <<TaskOf[c], clock>>
<1>1. /\ step[c] = "prepare" /\ step'[c] = "write" /\ UNCHANGED <<ledger, told, observer>>
      /\ store' = [d \in DOMAIN store \cup {dir} |-> IF d \in DOMAIN store THEN store[d] ELSE <<>>]
      /\ job' = [job EXCEPT ![c] = [job[c] EXCEPT !["dir"] = dir]] /\ "dir" \in Fields
  BY DEF PrepareOut, Goto, Shape, Shape0, Fields
<1> HIDE DEF dir
<1>2. job'[c].dir = dir /\ SameBut(c, {"dir"})
  BY <1>1, OneField
<1>3. job'[c].dir = <<TaskOf[c], clock>>
  BY <1>2 DEF dir
<1> QED BY <1>1, <1>2, <1>3

\* What a write into a directory leaves.
LEMMA FileWritten ==
  ASSUME NEW dir \in DOMAIN store, NEW file, NEW content, NEW after, after = WithFile(dir, file, content)
  PROVE  /\ DOMAIN after = DOMAIN store
         /\ \A d \in DOMAIN store \ {dir} : after[d] = store[d]
         /\ DOMAIN after[dir] = DOMAIN store[dir] \cup {file}
         /\ after[dir][file] = content
         /\ \A f \in DOMAIN store[dir] \ {file} : after[dir][f] = store[dir][f]
  BY DEF WithFile, Put

LEMMA WriteMoves ==
  ASSUME Shape, NEW c \in Commands, WriteFile(c)
  PROVE  /\ step[c] = "write" /\ UNCHANGED <<ledger, told, observer>>
         /\ job'[c].written = job[c].written + 1 /\ SameBut(c, {"written"})
         /\ step'[c] = IF job[c].written + 1 = Len(FilesOf(FamilyOf[c])) THEN "hash" ELSE "write"
         /\ LET file == FilesOf(FamilyOf[c])[job[c].written + 1]
            IN  store' = WithFile(job[c].dir, file, Content(c, file))
<1> DEFINE next == job[c].written + 1
           file == FilesOf(FamilyOf[c])[job[c].written + 1]
<1>1. /\ step[c] = "write" /\ UNCHANGED <<ledger, told, observer>>
      /\ job' = [job EXCEPT ![c] = [job[c] EXCEPT !["written"] = next]] /\ "written" \in Fields
  BY DEF WriteFile, Fields
<1>2. job'[c].written = next /\ SameBut(c, {"written"})
  <2> HIDE DEF next
  <2> QED BY <1>1, OneField
<1>3. step'[c] = IF job[c].written + 1 = Len(FilesOf(FamilyOf[c])) THEN "hash" ELSE "write"
  BY DEF WriteFile, Goto, Shape, Shape0
<1>4. store' = WithFile(job[c].dir, file, Content(c, file))
  BY DEF WriteFile
<1> QED BY <1>1, <1>2, <1>3, <1>4

LEMMA HashMoves ==
  ASSUME Shape, NEW c \in Commands, HashFiles(c)
  PROVE  /\ step[c] = "hash" /\ step'[c] = "sums" /\ UNCHANGED <<ledger, store, told, observer>>
         /\ job'[c].sums = [f \in DOMAIN Files(job[c].dir) \ {Sums} |-> Files(job[c].dir)[f]]
         /\ SameBut(c, {"sums"})
<1> DEFINE sums == [f \in DOMAIN Files(job[c].dir) \ {Sums} |-> Files(job[c].dir)[f]]
<1>1. /\ step[c] = "hash" /\ step'[c] = "sums" /\ UNCHANGED <<ledger, store, told, observer>>
      /\ job' = [job EXCEPT ![c] = [job[c] EXCEPT !["sums"] = sums]] /\ "sums" \in Fields
  BY DEF HashFiles, Goto, Fields, Shape, Shape0
<1>2. job'[c].sums = sums /\ SameBut(c, {"sums"})
  <2> HIDE DEF sums
  <2> QED BY <1>1, OneField
<1> QED BY <1>1, <1>2

LEMMA DigestMoves ==
  ASSUME Shape, NEW c \in Commands, BundleDigest(c)
  PROVE  /\ step[c] = "digest" /\ step'[c] = IF FamilyOf[c] = "staged" THEN "offer" ELSE "bind"
         /\ UNCHANGED <<ledger, store, told, observer>>
         /\ HasSums(job[c].dir) /\ job'[c].digest = Files(job[c].dir)[Sums]
         /\ SameBut(c, {"digest"})
<1> DEFINE digest == Files(job[c].dir)[Sums]
<1>1. /\ step[c] = "digest" /\ step'[c] = IF FamilyOf[c] = "staged" THEN "offer" ELSE "bind"
      /\ UNCHANGED <<ledger, store, told, observer>> /\ HasSums(job[c].dir)
      /\ job' = [job EXCEPT ![c] = [job[c] EXCEPT !["digest"] = digest]] /\ "digest" \in Fields
  BY DEF BundleDigest, Goto, Fields, Shape, Shape0
<1>2. job'[c].digest = digest /\ SameBut(c, {"digest"})
  <2> HIDE DEF digest
  <2> QED BY <1>1, OneField
<1> QED BY <1>1, <1>2

----------------------------------------------------------------------------
\* Stages

\* What others do says nothing new of a stage.
LEMMA StageOfOthers ==
  ASSUME Shape, NEW c, StageOf(c), SameFor(c), regime' = regime,
         UNCHANGED ledger \/ \E row : row.by # c /\ ledger' = Append(ledger, row)
  PROVE  StageOf(c)'
<1>1. /\ \A action : Wrote(c, action)' <=> Wrote(c, action)
      /\ Len(ledger) \in Nat /\ Len(ledger') >= Len(ledger) /\ Len(ledger') \in Nat
      /\ (\A i \in DOMAIN ledger : ledger[i].by # c) => (\A i \in DOMAIN ledger' : ledger'[i].by # c)
  <2>1. CASE UNCHANGED ledger
    BY <2>1, SeqFacts DEF Wrote, Shape
  <2>2. CASE \E row : row.by # c /\ ledger' = Append(ledger, row)
    <3> PICK row : row.by # c /\ ledger' = Append(ledger, row)
      BY <2>2
    <3> QED BY RowsGrow DEF Shape
  <2> QED BY <2>1, <2>2
<1>2. HeadOf(c)'
  BY <1>1 DEF StageOf, HeadOf, SameFor, Acting
<1>3. ActOf(c)'
  BY DEF StageOf, ActOf, SameFor
<1>4. RowsOf(c)'
  BY <1>1 DEF StageOf, RowsOf, SameFor
<1>5. SeenOf(c)'
  BY <1>1 DEF StageOf, SeenOf, SameFor, Moved
<1> QED BY <1>2, <1>3, <1>4, <1>5 DEF StageOf

\* The command ends: nothing it did changes.
LEMMA StageEnds ==
  ASSUME NEW c, StageOf(c), step[c] # "idle", step'[c] = Ended, job'[c] = job[c],
         UNCHANGED <<ledger, regime>> /\ UNCHANGED stageVars
  PROVE  StageOf(c)'
  BY DEF StageOf, HeadOf, ActOf, RowsOf, SeenOf, Wrote, Moved, stageVars, Ended, Unoffered, Acting

\* A command on its way to a digest has no act, and writes no row of one.
LEMMA StageFiles ==
  ASSUME Shape, NEW c \in Commands, StageOf(c), regime' = regime, UNCHANGED stageVars,
         step[c] \in Unoffered, step'[c] \in Unoffered \cup {Ended},
         step'[c] = "offer" => FamilyOf[c] = "staged",
         step[c] = "idle" => FamilyOf[c] # "staged",
         FamilyOf[c] = "staged" => job'[c].head = job[c].head,
         \/ UNCHANGED ledger
         \/ /\ step'[c] = Ended
            /\ \E row : row.action = "EVIDENCE" /\ ledger' = Append(ledger, row)
  PROVE  StageOf(c)'
<1>1. \A action : ~Wrote(c, action)
  BY DEF StageOf, RowsOf, Wrote
<1>2. ~ran[c] /\ ~ran'[c]
  BY DEF StageOf, ActOf, stageVars
<1>3. Len(ledger) \in Nat /\ Len(ledger') \in Nat /\ Len(ledger') >= Len(ledger)
      /\ \A action \in {"SIGNED", "ABANDONED", "INCOMPLETE", "EXECUTED"} : ~Wrote(c, action)'
  <2>1. CASE UNCHANGED ledger
    <3>1. Len(ledger) \in Nat
      BY SeqFacts DEF Shape
    <3>2. \A action : ~Wrote(c, action)'
      BY <1>1, <2>1 DEF Wrote
    <3> QED BY <2>1, <3>1, <3>2
  <2>2. CASE \E row : row.action = "EVIDENCE" /\ ledger' = Append(ledger, row)
    <3> PICK row : row.action = "EVIDENCE" /\ ledger' = Append(ledger, row)
      BY <2>2
    <3> QED BY <1>1, RowsGrow DEF Shape
  <2> QED BY <2>1, <2>2
<1>4. HeadOf(c)'
  BY <1>3 DEF StageOf, HeadOf, Unoffered, Acting, Ended
<1>5. ActOf(c)'
  BY <1>2 DEF ActOf, Unoffered, Acting, Ended
<1>6. RowsOf(c)'
  BY <1>3 DEF StageOf, RowsOf, Unoffered, Ended
<1>7. SeenOf(c)'
  BY <1>2 DEF SeenOf, Unoffered, Ended
<1> QED BY <1>4, <1>5, <1>6, <1>7 DEF StageOf

LEMMA StoreStage ==
  ASSUME Shape, NEW c \in Commands, StageOf(c), OfStore(c), UNCHANGED stageVars
  PROVE  StageOf(c)'
<1>1. regime' = regime
  BY DEF OfStore, RunEnded, VerifyGui, ObtainFrame, Attest, Judge, WriteBundle, PrepareOut, WriteFile,
         HashFiles, WriteSums, WriteFails, BindBundle, BundleDigest, Bind, Crash
<1>2. CASE RunEnded(c)
  <2>1. /\ step[c] = "idle" /\ step'[c] = "prepare" /\ UNCHANGED ledger
        /\ FamilyOf[c] # "staged"
    BY <1>2 DEF RunEnded, Runs, Goto, Shape, Shape0, Fields
  <2>2. /\ step[c] \in Unoffered /\ step'[c] \in Unoffered \cup {Ended}
        /\ step'[c] = "offer" => FamilyOf[c] = "staged"
    BY <2>1 DEF Unoffered, Ended
  <2> QED BY <1>1, <2>1, <2>2, StageFiles
<1>3. CASE ObtainFrame(c)
  <2>1. /\ step[c] = "idle" /\ step'[c] \in {"attest", "judge"} /\ UNCHANGED ledger
        /\ FamilyOf[c] # "staged"
    BY <1>3 DEF ObtainFrame, Runs, Goto, Shape, Shape0, Fields
  <2>2. /\ step[c] \in Unoffered /\ step'[c] \in Unoffered \cup {Ended}
        /\ step'[c] = "offer" => FamilyOf[c] = "staged"
    BY <2>1 DEF Unoffered, Ended
  <2> QED BY <1>1, <2>1, <2>2, StageFiles
<1>4. CASE Attest(c)
  <2>1. /\ step[c] = "attest" /\ step'[c] \in {"judge", Ended} /\ UNCHANGED ledger
        /\ job'[c].head = job[c].head
    BY <1>4, AttestMoves DEF SameBut, Fields
  <2>2. /\ step[c] \in Unoffered /\ step'[c] \in Unoffered \cup {Ended}
        /\ step'[c] = "offer" => FamilyOf[c] = "staged"
    BY <2>1 DEF Unoffered, Ended
  <2> QED BY <1>1, <2>1, <2>2, StageFiles
<1>5. CASE Judge(c)
  <2>1. /\ step[c] = "judge" /\ step'[c] = "prepare" /\ UNCHANGED ledger
        /\ job'[c].head = job[c].head
    BY <1>5, JudgeMoves DEF SameBut, Fields
  <2>2. /\ step[c] \in Unoffered /\ step'[c] \in Unoffered \cup {Ended}
        /\ step'[c] = "offer" => FamilyOf[c] = "staged"
    BY <2>1 DEF Unoffered, Ended
  <2> QED BY <1>1, <2>1, <2>2, StageFiles
<1>6. CASE PrepareOut(c) \/ WriteFile(c) \/ HashFiles(c)
  <2>1. /\ step[c] \in {"prepare", "write", "hash"} /\ step'[c] \in {"write", "hash", "sums"}
        /\ UNCHANGED ledger /\ job'[c].head = job[c].head
    <3>1. CASE PrepareOut(c)
      BY <3>1, PrepareMoves DEF SameBut, Fields
    <3>2. CASE WriteFile(c)
      BY <3>2 DEF WriteFile, Goto, Shape, Shape0, Fields
    <3>3. CASE HashFiles(c)
      BY <3>3, HashMoves DEF SameBut, Fields
    <3> QED BY <1>6, <3>1, <3>2, <3>3
  <2>2. /\ step[c] \in Unoffered /\ step'[c] \in Unoffered \cup {Ended}
        /\ step'[c] = "offer" => FamilyOf[c] = "staged"
    BY <2>1 DEF Unoffered, Ended
  <2> QED BY <1>1, <2>1, <2>2, StageFiles
<1>7. CASE WriteSums(c)
  <2>1. /\ step[c] = "sums" /\ step'[c] \in {"digest", Ended}
        /\ UNCHANGED <<ledger, job>>
    BY <1>7 DEF WriteSums, Goto, Shape, Shape0, Fields
  <2>2. /\ step[c] \in Unoffered /\ step'[c] \in Unoffered \cup {Ended}
        /\ step'[c] = "offer" => FamilyOf[c] = "staged"
    BY <2>1 DEF Unoffered, Ended
  <2> QED BY <1>1, <2>1, <2>2, StageFiles
<1>8. CASE BundleDigest(c)
  <2>1. /\ step[c] = "digest" /\ step'[c] = IF FamilyOf[c] = "staged" THEN "offer" ELSE "bind"
        /\ UNCHANGED ledger /\ job'[c].head = job[c].head
    BY <1>8 DEF BundleDigest, Goto, Shape, Shape0, Fields
  <2>2. /\ step[c] \in Unoffered /\ step'[c] \in Unoffered \cup {Ended}
        /\ step'[c] = "offer" => FamilyOf[c] = "staged"
    BY <2>1 DEF Unoffered, Ended
  <2> QED BY <1>1, <2>1, <2>2, StageFiles
<1>9. CASE Bind(c)
  <2>1. /\ step[c] = "bind" /\ step'[c] = Ended /\ UNCHANGED job
        /\ UNCHANGED ledger \/ ledger' = Append(ledger, Row(c, "EVIDENCE", job[c].digest))
    BY <1>9 DEF Bind, Goto, Shape, Shape0, Fields
  <2>2. Row(c, "EVIDENCE", job[c].digest).action = "EVIDENCE"
    BY DEF Row
  <2>3. /\ step[c] \in Unoffered /\ step'[c] \in Unoffered \cup {Ended}
        /\ step'[c] = "offer" => FamilyOf[c] = "staged"
    BY <2>1 DEF Unoffered, Ended
  <2> QED BY <1>1, <2>1, <2>2, <2>3, StageFiles
<1>10. CASE WriteFails(c) \/ Crash(c)
  <2>1. step[c] # "idle" /\ step'[c] = Ended /\ UNCHANGED <<ledger, regime, job>>
    BY <1>10 DEF WriteFails, Crash, Goto, Shape, Shape0, Fields
  <2> QED BY <2>1, StageEnds
<1> QED BY <1>2, <1>3, <1>4, <1>5, <1>6, <1>7, <1>8, <1>9, <1>10
        DEF OfStore, VerifyGui, WriteBundle, BindBundle

\* Proposing: a stage, or a rejected one again, is perceived at a head the ledger has or had.
LEMMA ProposeStage ==
  ASSUME Shape, Stages, NEW c \in Commands, Propose(c)
  PROVE  StageOf(c)'
<1>1. StageOf(c) /\ regime' = regime /\ UNCHANGED ledger /\ Len(ledger) \in Nat
  BY SeqFacts DEF Stages, Propose, Perceive, Refile, RefuseUnchanged, Offer, IsStored, Shape
<1>2. ASSUME step[c] = "idle", step'[c] \in {"prepare", "offer"}, FamilyOf[c] = "staged",
             UNCHANGED stageVars, job'[c].head \in 0..Len(ledger)
      PROVE  StageOf(c)'
  <2>1. ~ran[c] /\ ~ran'[c] /\ \A i \in DOMAIN ledger : ledger[i].by # c
    BY <1>1, <1>2 DEF StageOf, ActOf, RowsOf, Unoffered, stageVars
  <2>2. \A action : ~Wrote(c, action)'
    BY <1>1, <2>1 DEF Wrote
  <2>3. HeadOf(c)'
    BY <1>1, <1>2 DEF HeadOf
  <2>4. ActOf(c)' /\ RowsOf(c)' /\ SeenOf(c)'
    BY <1>1, <1>2, <2>1, <2>2 DEF ActOf, RowsOf, SeenOf
  <2> QED BY <2>3, <2>4 DEF StageOf
<1>3. CASE Perceive(c)
  <2>1. PICK payload \in Payloads, head \in 0..Len(ledger) :
          job' = [job EXCEPT ![c].frame = screen, ![c].payload = payload,
                             ![c].head = head, ![c].passed = TRUE]
    BY <1>3 DEF Perceive
  <2> DEFINE yes == TRUE
  <2>2. job' = [job EXCEPT ![c].frame = screen, ![c].payload = payload,
                           ![c].head = head, ![c].passed = yes]
    BY <2>1
  <2> HIDE DEF yes
  <2>3. job'[c].head \in 0..Len(ledger)
    BY <2>2 DEF Shape, Shape0, Fields
  <2>4. step[c] = "idle" /\ step'[c] = "prepare" /\ FamilyOf[c] = "staged" /\ UNCHANGED stageVars
    BY <1>3 DEF Perceive, MayPropose, Runs, Goto, Shape, Shape0
  <2> QED BY <1>1, <1>2, <2>3, <2>4
<1>4. CASE Refile(c)
  <2>1. /\ step[c] = "idle" /\ step'[c] = "offer" /\ FamilyOf[c] = "staged" /\ UNCHANGED stageVars
        /\ Prior[c] \in Commands /\ Wrote(Prior[c], "ABANDONED")
        /\ job' = [job EXCEPT ![c] = [job[Prior[c]] EXCEPT !.dir = None, !.written = 0]]
    BY <1>4, PriorAssumption DEF Refile, MayPropose, Runs, Goto, Shape, Shape0
  <2>2. job[Prior[c]].head \in 0..Len(ledger)
    BY <2>1 DEF Stages, StageOf, HeadOf, RowsOf, Ended
  <2>3. job'[c].head = job[Prior[c]].head
    BY <2>1 DEF Shape, Shape0, Fields
  <2> QED BY <1>2, <2>1, <2>2, <2>3
<1>5. CASE RefuseUnchanged(c)
  <2>1. step[c] # "idle" /\ step'[c] = Ended /\ UNCHANGED <<ledger, regime, job>>
        /\ UNCHANGED stageVars
    BY <1>5 DEF RefuseUnchanged, Goto, IsStored, Shape, Shape0
  <2> QED BY <1>1, <2>1, StageEnds
<1>6. CASE Offer(c)
  <2>1. /\ step[c] = "offer" /\ step'[c] = "file" /\ UNCHANGED <<approval, observed, world, ran, job>>
    BY <1>6 DEF Offer, Goto, Shape, Shape0
  <2>2. ~ran[c] /\ ~ran'[c] /\ \A i \in DOMAIN ledger : ledger[i].by # c
    BY <1>1, <2>1 DEF StageOf, ActOf, RowsOf, Unoffered
  <2>3. \A action : ~Wrote(c, action)'
    BY <1>1, <2>2 DEF Wrote
  <2>4. HeadOf(c)'
    BY <1>1, <2>1 DEF StageOf, HeadOf
  <2>5. ActOf(c)' /\ RowsOf(c)' /\ SeenOf(c)'
    BY <1>1, <2>1, <2>2, <2>3 DEF ActOf, RowsOf, SeenOf, Unoffered
  <2> QED BY <2>4, <2>5 DEF StageOf
<1> QED BY <1>3, <1>4, <1>5, <1>6 DEF Propose

\* A row of an act, each at its place.
LEMMA AppendStage ==
  ASSUME Shape, NEW c \in Commands, StageOf(c), AppendRow(c)
  PROVE  StageOf(c)'
<1> DEFINE row == Row(c, RowAt[step[c]], None)
<1>1. /\ step[c] \in {"file", "review", "abandon", "sign", "record", "refuse"}
      /\ ledger' = Append(ledger, row) /\ step'[c] = After(c)
      /\ UNCHANGED <<job, regime>> /\ UNCHANGED stageVars
  BY DEF AppendRow, RowAt, Goto, IsStored, Shape, Shape0
<1>2. row.by = c /\ row.action = RowAt[step[c]]
  BY DEF Row
<1> HIDE DEF row
<1>3. /\ Len(ledger) \in Nat /\ Len(ledger') = Len(ledger) + 1
      /\ \A action : Wrote(c, action)' <=> Wrote(c, action) \/ action = RowAt[step[c]]
  BY <1>1, <1>2, RowsGrow DEF Shape
<1>4. FamilyOf[c] = "staged" /\ job[c].head \in 0..Len(ledger)
  BY <1>1 DEF StageOf, HeadOf, Acting
<1>5. ~Wrote(c, "ABANDONED") /\ ~Wrote(c, "INCOMPLETE") /\ ~Wrote(c, "EXECUTED")
  BY <1>1 DEF StageOf, RowsOf, Ended
<1>6. CASE step[c] \in {"file", "review"}
  <2>1. step'[c] \in {"review", "abandon", "approve"} /\ (step'[c] = "abandon" => act[c] = "rejection")
    BY <1>1, <1>6 DEF After
  <2>2. \A action \in {"ABANDONED", "INCOMPLETE", "EXECUTED"} : ~Wrote(c, action)'
    BY <1>3, <1>5, <1>6 DEF RowAt
  <2>3. ~ran[c] /\ ~ran'[c]
    BY <1>1, <1>6 DEF StageOf, ActOf, Acting, stageVars
  <2>4. HeadOf(c)'
    BY <1>1, <1>3, <1>4, <2>1 DEF HeadOf
  <2>5. ActOf(c)' /\ RowsOf(c)' /\ SeenOf(c)'
    BY <1>1, <2>1, <2>2, <2>3 DEF ActOf, RowsOf, SeenOf, stageVars, Unoffered
  <2> QED BY <2>4, <2>5 DEF StageOf
<1>7. CASE step[c] = "sign"
  <2>1. step'[c] = "observe"
    BY <1>1, <1>7 DEF After
  <2>2. /\ \A action \in {"ABANDONED", "INCOMPLETE", "EXECUTED"} : ~Wrote(c, action)'
        /\ Wrote(c, "SIGNED")'
    BY <1>3, <1>5, <1>7 DEF RowAt
  <2>3. ~ran[c] /\ ~ran'[c]
    BY <1>1, <1>7 DEF StageOf, ActOf, Acting, stageVars
  <2>4. HeadOf(c)'
    BY <1>1, <1>3, <1>4, <1>7, <2>1 DEF StageOf, HeadOf, stageVars
  <2>5. ActOf(c)' /\ RowsOf(c)' /\ SeenOf(c)'
    BY <1>1, <2>1, <2>2, <2>3 DEF ActOf, RowsOf, SeenOf, stageVars, Unoffered
  <2> QED BY <2>4, <2>5 DEF StageOf
<1>8. CASE step[c] \in {"abandon", "record", "refuse"}
  <2>1. step'[c] = Ended
    BY <1>1, <1>8 DEF After
  <2>2. HeadOf(c)'
    BY <1>1, <1>3, <1>4, <2>1 DEF HeadOf, Ended, Acting
  <2>3. ActOf(c)'
    BY <2>1 DEF ActOf, Ended, Unoffered, Acting
  <2>4. RowsOf(c)'
    BY <1>1, <1>3, <1>4, <1>5, <1>8, <2>1 DEF StageOf, ActOf, RowsOf, RowAt, stageVars, Ended, Unoffered
  <2>5. SeenOf(c)'
    BY <1>1, <1>3, <2>1 DEF StageOf, SeenOf, stageVars, Ended, Moved
  <2> QED BY <2>2, <2>3, <2>4, <2>5 DEF StageOf
<1> QED BY <1>1, <1>6, <1>7, <1>8

\* Approving, looking and executing.
LEMMA ApproveStage ==
  ASSUME Shape, NEW c \in Commands, StageOf(c), BuildApproval(c)
  PROVE  StageOf(c)'
<1>1. step[c] = "approve" /\ UNCHANGED <<ledger, job, regime, act, observed, world, ran>>
  BY DEF BuildApproval, IsStored
<1>2. CASE step'[c] = Ended /\ UNCHANGED approval
  BY <1>1, <1>2, StageEnds DEF stageVars
<1>3. CASE step'[c] = "sign" /\ approval' = [approval EXCEPT ![c] = Staged(c)]
  <2>1. approval'[c].head = job[c].head
    BY <1>3 DEF Shape, Shape0, Staged
  <2>2. ~ran[c] /\ ~ran'[c]
    BY <1>1 DEF StageOf, ActOf, Acting
  <2>3. \A action : Wrote(c, action)' <=> Wrote(c, action)
    BY <1>1 DEF Wrote
  <2>4. HeadOf(c)'
    BY <1>1, <1>3, <2>1 DEF StageOf, HeadOf, Acting
  <2>5. ActOf(c)' /\ SeenOf(c)'
    BY <1>3, <2>2 DEF ActOf, SeenOf
  <2>6. RowsOf(c)'
    BY <1>1, <1>3, <2>3 DEF StageOf, RowsOf, Unoffered, Ended
  <2> QED BY <2>4, <2>5, <2>6 DEF StageOf
<1>4. \/ step'[c] = Ended /\ UNCHANGED approval
      \/ step'[c] = "sign" /\ approval' = [approval EXCEPT ![c] = Staged(c)]
  BY DEF BuildApproval, Goto, Shape, Shape0
<1> QED BY <1>2, <1>3, <1>4

LEMMA ObserveStage ==
  ASSUME Shape, Stages, NEW c \in Commands, Observe(c)
  PROVE  StageOf(c)'
<1> DEFINE seen == [b \in Bindings |-> IF b \in regime.fresh THEN Now(c)[b] ELSE Staged(c)[b]]
<1>1. /\ step[c] = "observe" /\ step'[c] = "verify"
      /\ UNCHANGED <<ledger, job, regime, act, approval, ran>>
      /\ observed'[c] = seen /\ world'[c] = Now(c)
  BY DEF Observe, IsStored, Goto, Shape, Shape0
<1>2. regime.fresh \subseteq Bindings
  BY EvidenceAssumption DEF Stages, Regime
<1>3. StageOf(c)
  BY DEF Stages
<1>4. \A b \in regime.fresh : observed'[c][b] = world'[c][b]
  BY <1>1, <1>2
<1>5. ASSUME "head" \in regime.fresh
      PROVE  Moved(c)'
  <2>1. observed'[c]["head"] = Len(ledger) /\ "head" \in Bindings
    BY <1>1, <1>2, <1>5 DEF Now
  <2>2. approval'[c]["head"] < Len(ledger) /\ Len(ledger) \in Nat
    BY <1>1, <1>3, SeqFacts DEF StageOf, HeadOf, Shape
  <2>3. approval'[c]["head"] \in Nat
    BY <1>1, <1>3 DEF StageOf, HeadOf, Acting
  <2> QED BY <2>1, <2>2, <2>3 DEF Moved
<1>6. ~ran[c] /\ ~ran'[c]
  BY <1>1, <1>3 DEF StageOf, ActOf, Acting
<1>7. \A action : Wrote(c, action)' <=> Wrote(c, action)
  BY <1>1 DEF Wrote
<1>8. HeadOf(c)'
  BY <1>1, <1>3 DEF StageOf, HeadOf, Acting
<1>9. RowsOf(c)'
  BY <1>1, <1>3, <1>7 DEF StageOf, RowsOf, Unoffered, Ended
<1>10. ActOf(c)' /\ SeenOf(c)'
  BY <1>1, <1>4, <1>5, <1>6 DEF ActOf, SeenOf
<1> QED BY <1>8, <1>9, <1>10 DEF StageOf

LEMMA ExecuteStage ==
  ASSUME Shape, Stages, NEW c \in Commands, Execute(c)
  PROVE  StageOf(c)'
<1>1. /\ step[c] = "verify" /\ ~Moved(c)
      /\ UNCHANGED <<ledger, job, regime, act, approval, observed, world>>
      /\ step'[c] = Ended \/ (step'[c] = "record" /\ act[c] = "loop")
      /\ ran'[c] = (act[c] = "loop")
  BY DEF Execute, IsStored, Goto, Shape, Shape0
<1>2. StageOf(c) /\ regime.fresh \subseteq Bindings
  BY EvidenceAssumption DEF Stages, Regime
<1>3. /\ \A b \in regime.fresh : observed[c][b] = world[c][b]
      /\ "head" \notin regime.fresh
  BY <1>1, <1>2 DEF StageOf, SeenOf
<1>4. \A b \in regime.fresh : world[c][b] = approval[c][b]
  BY <1>1, <1>2, <1>3 DEF Moved
<1>5. (\A action : Wrote(c, action)' <=> Wrote(c, action)) /\ (Moved(c)' <=> Moved(c))
  BY <1>1 DEF Wrote, Moved
<1>6. /\ Wrote(c, "SIGNED")
      /\ ~Wrote(c, "ABANDONED") /\ ~Wrote(c, "INCOMPLETE") /\ ~Wrote(c, "EXECUTED")
  BY <1>1, <1>2 DEF StageOf, RowsOf, Ended
<1>7. HeadOf(c)'
  BY <1>1, <1>2 DEF StageOf, HeadOf, Acting, Ended
<1>8. ActOf(c)'
  BY <1>1 DEF ActOf, Unoffered, Acting, Ended
<1>9. RowsOf(c)'
  BY <1>1, <1>5, <1>6 DEF RowsOf, Unoffered, Ended
<1>10. SeenOf(c)'
  BY <1>1, <1>3, <1>4, <1>5, <1>6 DEF SeenOf, Ended
<1> QED BY <1>7, <1>8, <1>9, <1>10 DEF StageOf

LEMMA RefuseStage ==
  ASSUME Shape, NEW c \in Commands, StageOf(c), RefuseStale(c)
  PROVE  StageOf(c)'
<1>1. /\ step[c] = "verify" /\ UNCHANGED <<ledger, job, regime>> /\ UNCHANGED stageVars
      /\ step'[c] = Ended \/ (step'[c] = "refuse" /\ act[c] = "drill")
  BY DEF RefuseStale, IsStored, Goto, Shape, Shape0
<1>2. CASE step'[c] = Ended
  BY <1>1, <1>2, StageEnds
<1>3. CASE step'[c] = "refuse" /\ act[c] = "drill"
  <2>1. ~ran[c] /\ ~ran'[c]
    BY <1>1 DEF StageOf, ActOf, Acting, stageVars
  <2>2. \A action : Wrote(c, action)' <=> Wrote(c, action)
    BY <1>1 DEF Wrote
  <2>3. HeadOf(c)'
    BY <1>1, <1>3 DEF StageOf, HeadOf, Acting
  <2>4. ActOf(c)' /\ SeenOf(c)'
    BY <1>1, <1>3, <2>1 DEF ActOf, SeenOf, stageVars
  <2>5. RowsOf(c)'
    BY <1>1, <1>3, <2>2 DEF StageOf, RowsOf, Unoffered, Ended
  <2> QED BY <2>3, <2>4, <2>5 DEF StageOf
<1> QED BY <1>1, <1>2, <1>3

LEMMA StagesInit ==
  ASSUME Init
  PROVE  Shape /\ Stages
<1> USE DEF Init, InitStore
<1>1. IsSeq(ledger) /\ DOMAIN ledger = {}
  <2>1. ledger \in Seq({})
    BY EmptySeq
  <2>2. Len(ledger) = 0 /\ DOMAIN ledger = 1..0
    BY <2>1, LenProperties, EmptySeq
  <2> QED BY <2>1, <2>2 DEF IsSeq
<1>2. Shape
  <2>1. clock \in Seconds
    BY EvidenceAssumption DEF Seconds
  <2> QED BY <1>1, <2>1 DEF Shape, Shape0, Steps, NoJob, Fields
<1>3. Stages
  <2>1. \A c, action : ~Wrote(c, action)
    BY <1>1 DEF Wrote
  <2>2. ASSUME NEW c \in Commands
        PROVE  StageOf(c)
    <3>1. HeadOf(c)
      BY DEF HeadOf, Acting
    <3>2. ActOf(c) /\ RowsOf(c) /\ SeenOf(c)
      BY <1>1, <2>1 DEF ActOf, RowsOf, SeenOf
    <3> QED BY <3>1, <3>2 DEF StageOf
  <2> QED BY <2>2 DEF Stages
<1> QED BY <1>2, <1>3

\* Who takes a step: a command, or the world.
LEMMA WhoSteps ==
  ASSUME [Next]_vars
  PROVE  \/ \E c \in Commands : StepOf(c)
         \/ (Tick \/ ScreenMoves \/ Prune) /\ UNCHANGED stageVars
         \/ UNCHANGED vars
  BY DEF Next, NextStore, StepOf, OfStore, OfStage

LEMMA StagesStep ==
  ASSUME Shape, Stages, [Next]_vars
  PROVE  Stages'
<1>1. CASE \E c \in Commands : StepOf(c)
  <2> PICK c \in Commands : StepOf(c)
    BY <1>1
  <2>1. StageOf(c)'
    <3>1. StageOf(c)
      BY DEF Stages
    <3>2. CASE OfStore(c) /\ UNCHANGED stageVars
      BY <3>1, <3>2, StoreStage
    <3>3. CASE AppendFails(c)
      <4>1. step[c] # "idle" /\ step'[c] = Ended /\ UNCHANGED <<ledger, regime, job>>
            /\ UNCHANGED stageVars
        BY <3>3 DEF AppendFails, RowAt, Goto, IsStored, Shape, Shape0
      <4> QED BY <3>1, <4>1, StageEnds
    <3>4. CASE Propose(c)
      BY <3>4, ProposeStage
    <3>5. CASE AppendRow(c)
      BY <3>1, <3>5, AppendStage
    <3>6. CASE BuildApproval(c)
      BY <3>1, <3>6, ApproveStage
    <3>7. CASE Observe(c)
      BY <3>7, ObserveStage
    <3>8. CASE Execute(c)
      BY <3>8, ExecuteStage
    <3>9. CASE RefuseStale(c)
      BY <3>1, <3>9, RefuseStage
    <3> QED BY <3>2, <3>3, <3>4, <3>5, <3>6, <3>7, <3>8, <3>9 DEF StepOf, OfStage, Account, ActOn
  <2>2. regime' = regime
    BY DEF StepOf, OfStore, OfStage, RunEnded, VerifyGui, ObtainFrame, Attest, Judge, WriteBundle,
           PrepareOut, WriteFile, HashFiles, WriteSums, WriteFails, BindBundle, BundleDigest, Bind,
           Crash, Propose, Perceive, Refile, RefuseUnchanged, Offer, Account, AppendRow, AppendFails,
           ActOn, BuildApproval, Observe, Execute, RefuseStale, IsStored
  <2>3. ASSUME NEW d \in Commands \ {c}
        PROVE  StageOf(d)'
    <3>1. StageOf(d) /\ SameFor(d)
      BY OthersSame DEF Stages
    <3>2. UNCHANGED ledger \/ \E row : row.by # d /\ ledger' = Append(ledger, row)
      BY LedgerOf
    <3> QED BY <2>2, <3>1, <3>2, StageOfOthers
  <2> QED BY <2>1, <2>2, <2>3 DEF Stages
<1>2. CASE (Tick \/ ScreenMoves \/ Prune) /\ UNCHANGED stageVars
  <2>1. UNCHANGED <<ledger, step, job, told, observer, regime>>
    BY <1>2 DEF Tick, ScreenMoves, Prune
  <2>2. ASSUME NEW d \in Commands
        PROVE  StageOf(d)'
    <3>1. StageOf(d) /\ SameFor(d)
      BY <1>2, <2>1 DEF Stages, SameFor, stageVars
    <3> QED BY <2>1, <3>1, StageOfOthers
  <2> QED BY <2>1, <2>2 DEF Stages
<1>3. CASE UNCHANGED vars
  <2>1. UNCHANGED <<ledger, step, job, told, observer, regime>> /\ UNCHANGED stageVars
    BY <1>3 DEF vars, stageVars
  <2>2. ASSUME NEW d \in Commands
        PROVE  StageOf(d)'
    <3>1. StageOf(d) /\ SameFor(d)
      BY <2>1 DEF Stages, SameFor, stageVars
    <3> QED BY <2>1, <3>1, StageOfOthers
  <2> QED BY <2>1, <2>2 DEF Stages
<1> QED BY <1>1, <1>2, <1>3, WhoSteps

LEMMA ShapeStep ==
  ASSUME Shape, [Next]_vars
  PROVE  Shape'
<1>1. CASE UNCHANGED vars
  BY <1>1 DEF Shape, Shape0, vars
<1> QED BY <1>1, WhoSteps, StepShape, WorldShape

----------------------------------------------------------------------------
\* Directories and their files

LEMMA FilesFacts ==
  ASSUME NEW c \in Commands
  PROVE  /\ Len(FilesOf(FamilyOf[c])) \in Nat /\ Len(FilesOf(FamilyOf[c])) > 0
         /\ Sums \notin NamesOf(c)
         /\ \A i \in 1..Len(FilesOf(FamilyOf[c])) : FilesOf(FamilyOf[c])[i] \in NamesOf(c)
         /\ NamesOf(c) = {FilesOf(FamilyOf[c])[i] : i \in 1..Len(FilesOf(FamilyOf[c]))}
         /\ FamilyOf[c] = "gui" => "screenshot.png" \in NamesOf(c)
<1> DEFINE artifacts == [role |-> <<"prompt.txt", "changes.patch">>, gui |-> <<"screenshot.png">>,
                         staged |-> <<"staged_sequence.json">>, merge |-> <<>>]
           first == artifacts[FamilyOf[c]]
           last == <<"manifest.json", "README.md">>
           files == FilesOf(FamilyOf[c])
           names == {"prompt.txt", "changes.patch", "screenshot.png", "staged_sequence.json",
                     "manifest.json", "README.md"}
<1>1. FamilyOf[c] \in Families
  BY EvidenceAssumption
<1>2. /\ first \in Seq(names) /\ Len(first) \in Nat
      /\ FamilyOf[c] = "gui" => first[1] = "screenshot.png" /\ Len(first) = 1
  <2>1. CASE FamilyOf[c] = "role"
    <3>1. first = <<"prompt.txt", "changes.patch">>
      BY <2>1
    <3> HIDE DEF first
    <3> QED BY <2>1, <3>1
  <2>2. CASE FamilyOf[c] = "gui"
    <3>1. first = <<"screenshot.png">>
      BY <2>2
    <3> HIDE DEF first
    <3> QED BY <2>2, <3>1
  <2>3. CASE FamilyOf[c] = "staged"
    <3>1. first = <<"staged_sequence.json">>
      BY <2>3
    <3> HIDE DEF first
    <3> QED BY <2>3, <3>1
  <2>4. CASE FamilyOf[c] = "merge"
    <3>1. first = <<>>
      BY <2>4
    <3> HIDE DEF first
    <3> QED BY <2>4, <3>1
  <2> QED BY <1>1, <2>1, <2>2, <2>3, <2>4 DEF Families
<1>3. last \in Seq(names) /\ Len(last) = 2
  OBVIOUS
<1>4. files = first \o last
  BY DEF FilesOf
<1>5. Sums \notin names
  BY DEF Sums
<1> HIDE DEF first, last, artifacts, names, files
<1>6. /\ files \in Seq(names) /\ Len(files) = Len(first) + Len(last)
      /\ \A i \in 1..Len(first) : files[i] = first[i]
  <2>1. \A i \in 1..Len(first) : i \in 1..Len(files) /\ files[i] = first[i]
    BY <1>2, <1>3, <1>4, ConcatProperties
  <2> QED BY <2>1, <1>2, <1>3, <1>4, ConcatProperties
<1>7. /\ Len(files) \in Nat /\ Len(files) > 0 /\ DOMAIN files = 1..Len(files)
      /\ \A i \in 1..Len(files) : files[i] \in names
  <2>1. Len(files) \in Nat /\ DOMAIN files = 1..Len(files)
    BY <1>6, LenProperties
  <2>2. Len(files) > 0
    BY <1>2, <1>3, <1>6
  <2> QED BY <1>6, <2>1, <2>2, ElementOfSeq
<1>8. NamesOf(c) = {files[i] : i \in 1..Len(files)}
  BY <1>7 DEF NamesOf, ToSet, files
<1>9. ASSUME FamilyOf[c] = "gui"
      PROVE  files[1] = "screenshot.png" /\ 1 \in 1..Len(files)
  <2>1. first[1] = "screenshot.png" /\ Len(first) = 1
    BY <1>2, <1>9
  <2>2. 1 \in 1..Len(first) /\ 1 \in 1..Len(files)
    BY <1>7, <2>1
  <2>3. files[1] = first[1]
    BY <1>6, <2>2
  <2> QED BY <2>1, <2>2, <2>3
<1>10. Sums \notin NamesOf(c) /\ (FamilyOf[c] = "gui" => "screenshot.png" \in NamesOf(c))
  BY <1>5, <1>7, <1>8, <1>9
<1>11. \A i \in 1..Len(files) : files[i] \in NamesOf(c)
  BY <1>8
<1> QED BY <1>7, <1>8, <1>10, <1>11 DEF files

\* What a file of a bundle says depends on these.
Said == {"dir", "frame", "attested", "passed", "payload", "head"}

LEMMA ContentSame ==
  ASSUME NEW c, \A f \in Said : job'[c][f] = job[c][f]
  PROVE  (\A file : Content(c, file)' = Content(c, file)) /\ SumsOf(c)' = SumsOf(c)
<1>1. /\ job'[c].dir = job[c].dir /\ job'[c].frame = job[c].frame /\ job'[c].attested = job[c].attested
      /\ job'[c].passed = job[c].passed /\ job'[c].payload = job[c].payload
      /\ job'[c].head = job[c].head
  BY DEF Said
<1>2. Manifest(c)' = Manifest(c)
  BY <1>1 DEF Manifest, RoleBundle, GuiBundle, MergeBundle, StagedBundle
<1>3. \A file : Content(c, file)' = Content(c, file)
  BY <1>1, <1>2 DEF Content
<1> QED BY <1>3 DEF SumsOf

LEMMA SameTask ==
  ASSUME NEW c, NEW d, OwnDir(c), OwnDir(d), job[c].dir = job[d].dir, job[c].dir # None
  PROVE  TaskOf[c] = TaskOf[d]
  BY DEF OwnDir

\* A directory, once prepared, stays the command's own.
LEMMA DirMoves ==
  ASSUME Shape, NEW c \in Commands, StepOf(c), OwnDir(c)
  PROVE  /\ step[c] # Ended
         /\ job'[c].dir = job[c].dir \/ (PrepareOut(c) /\ job[c].dir = None)
<1>1. step[c] # Ended
  BY DEF StepOf, OfStore, OfStage, RunEnded, VerifyGui, ObtainFrame, Attest, Judge, WriteBundle,
         PrepareOut, WriteFile, HashFiles, WriteSums, WriteFails, BindBundle, BundleDigest, Bind,
         Crash, Propose, Perceive, Refile, MayPropose, RefuseUnchanged, Offer, Account, AppendRow,
         AppendFails, ActOn, BuildApproval, Observe, Execute, RefuseStale, Ended, RowAt
<1>2. RunEnded(c) => job'[c].dir = job[c].dir
  BY RunMoves DEF SameBut, Fields
<1>3. ObtainFrame(c) => job'[c].dir = job[c].dir
  BY FrameMoves DEF SameBut, Fields
<1>4. Attest(c) \/ Judge(c) => job'[c].dir = job[c].dir
  BY AttestMoves, JudgeMoves DEF SameBut, Fields
<1>5. WriteFile(c) \/ HashFiles(c) \/ BundleDigest(c) => job'[c].dir = job[c].dir
  <2>1. "dir" \in Fields \ {"written"} /\ "dir" \in Fields \ {"sums"} /\ "dir" \in Fields \ {"digest"}
    BY DEF Fields
  <2>2. WriteFile(c) => SameBut(c, {"written"})
    BY WriteMoves
  <2>3. (HashFiles(c) => SameBut(c, {"sums"})) /\ (BundleDigest(c) => SameBut(c, {"digest"}))
    BY HashMoves, DigestMoves
  <2> QED BY <2>1, <2>2, <2>3 DEF SameBut
<1>6. PrepareOut(c) => job[c].dir = None
  BY PrepareMoves DEF OwnDir
<1>7. Perceive(c) => job'[c].dir = job[c].dir
  BY PerceiveMoves DEF SameBut, Fields
<1>8. Refile(c) => job'[c].dir = job[c].dir
  BY RefileMoves DEF OwnDir
<1>9. \/ UNCHANGED job \/ RunEnded(c) \/ ObtainFrame(c) \/ WriteFile(c) \/ Attest(c) \/ Judge(c)
      \/ HashFiles(c) \/ BundleDigest(c) \/ PrepareOut(c) \/ Perceive(c) \/ Refile(c)
  BY DEF StepOf, OfStore, OfStage, VerifyGui, WriteBundle, WriteSums, WriteFails, BindBundle, Bind,
         Crash, Propose, RefuseUnchanged, Offer, Account, AppendRow, AppendFails, ActOn,
         BuildApproval, Observe, Execute, RefuseStale
<1> QED BY <1>1, <1>2, <1>3, <1>4, <1>5, <1>6, <1>7, <1>8, <1>9

\* A step touches the files of one directory.
LEMMA StoreMoves ==
  ASSUME Shape, NEW c \in Commands, StepOf(c)
  PROVE  /\ DOMAIN store \subseteq DOMAIN store'
         /\ DOMAIN store' \subseteq DOMAIN store \cup {job'[c].dir}
         /\ \A dir \in DOMAIN store : dir # job'[c].dir => store'[dir] = store[dir]
<1>1. CASE UNCHANGED store
  BY <1>1
<1>2. CASE PrepareOut(c)
  BY <1>2, PrepareMoves
<1>3. CASE \E file, content : store' = WithFile(job[c].dir, file, content) /\ job'[c].dir = job[c].dir
  <2> PICK file, content : store' = WithFile(job[c].dir, file, content) /\ job'[c].dir = job[c].dir
    BY <1>3
  <2> QED BY DEF WithFile
<1>4. WriteFile(c) => job'[c].dir = job[c].dir
  BY WriteMoves DEF SameBut, Fields
<1>5. \/ UNCHANGED store \/ PrepareOut(c)
      \/ \E file, content : store' = WithFile(job[c].dir, file, content) /\ job'[c].dir = job[c].dir
  BY <1>4 DEF StepOf, OfStore, OfStage, RunEnded, VerifyGui, ObtainFrame, Attest, Judge, WriteBundle,
         WriteFile, HashFiles, WriteSums, WriteFails, Interrupted, BindBundle, BundleDigest, Bind,
         Crash, Propose, Perceive, Refile, RefuseUnchanged, Offer, Account, AppendRow,
         AppendFails, ActOn, BuildApproval, Observe, Execute, RefuseStale, IsStored
<1> QED BY <1>1, <1>2, <1>3, <1>5

\* Two commands share a directory only if they are filed under the same task, and then
\* for good.
LEMMA KeepCollision ==
  ASSUME Shape, NEW c \in Commands, StepOf(c), \A d \in Commands : OwnDir(d),
         NEW e \in Commands, job[e].dir # None, Collided(e)
  PROVE  Collided(e)'
<1> PICK d \in Commands \ {e} : TaskOf[d] = TaskOf[e] /\ job[d].dir = job[e].dir
  BY DEF Collided
<1>1. \A f \in {d, e} : job'[f].dir = job[f].dir
  <2> TAKE f \in {d, e}
  <2>1. CASE f = c
    BY <2>1, DirMoves
  <2>2. CASE f # c
    BY <2>2, OthersSame DEF SameFor
  <2> QED BY <2>1, <2>2
<1> QED BY <1>1 DEF Collided

LEMMA AwayFrom ==
  ASSUME NEW c \in Commands, NEW d \in Commands \ {c}, OwnDir(c), OwnDir(d),
         job[d].dir # None, ~Collided(d)
  PROVE  job[c].dir # job[d].dir
  BY SameTask DEF Collided

\* Every step keeps what a command knows of its directory.
LEMMA DirOfOthers ==
  ASSUME Shape, NEW d \in Commands, OwnDir(d), SameFor(d), DOMAIN store \subseteq DOMAIN store'
  PROVE  OwnDir(d)'
  BY DEF OwnDir, SameFor

LEMMA DirOfCommand ==
  ASSUME Shape, NEW c \in Commands, OwnDir(c), StepOf(c)
  PROVE  OwnDir(c)'
<1> DEFINE length == Len(FilesOf(FamilyOf[c]))
<1>1. length \in Nat /\ length > 0
  BY FilesFacts
<1>2. DOMAIN store \subseteq DOMAIN store'
  BY StoreMoves
<1>3. ASSUME step[c] \in {"idle", "attest", "judge"}, step'[c] \in {"attest", "judge", "prepare", Ended},
             job'[c].dir = job[c].dir, job'[c].written = job[c].written, UNCHANGED told
      PROVE  OwnDir(c)'
  BY <1>2, <1>3 DEF OwnDir, Ended, Acting
<1>4. ASSUME step'[c] = Ended, job'[c].dir = job[c].dir,
             \/ UNCHANGED told
             \/ told'[c] = "no receipt"
             \/ told'[c] = "receipt" /\ step[c] = "sums"
      PROVE  OwnDir(c)'
  BY <1>2, <1>4 DEF OwnDir, Ended
<1>5. ASSUME step[c] \in {"digest", "offer"} \cup Acting, step'[c] \in {"bind", "offer", Ended} \cup Acting,
             step'[c] = "bind" => step[c] = "digest",
             job'[c].dir = job[c].dir, UNCHANGED told
      PROVE  OwnDir(c)'
  BY <1>2, <1>5 DEF OwnDir, Ended, Acting
<1>6. CASE RunEnded(c) \/ ObtainFrame(c) \/ Perceive(c)
  <2>1. "dir" \in Fields \ {"passed", "head", "frame", "payload"}
        /\ "written" \in Fields \ {"passed", "head", "frame", "payload"}
    BY DEF Fields
  <2>2. job'[c].dir = job[c].dir /\ job'[c].written = job[c].written
    BY <1>6, <2>1, RunMoves, FrameMoves, PerceiveMoves DEF SameBut
  <2> QED BY <1>3, <1>6, <2>2, RunMoves, FrameMoves, PerceiveMoves
<1>7. CASE Attest(c) \/ Judge(c)
  <2>1. "dir" \in Fields \ {"passed", "attested"} /\ "written" \in Fields \ {"passed", "attested"}
    BY DEF Fields
  <2>2. job'[c].dir = job[c].dir /\ job'[c].written = job[c].written
    BY <1>7, <2>1, AttestMoves, JudgeMoves DEF SameBut
  <2> QED BY <1>3, <1>7, <2>2, AttestMoves, JudgeMoves
<1>8. CASE PrepareOut(c)
  <2>1. /\ step[c] = "prepare" /\ step'[c] = "write" /\ UNCHANGED told
        /\ job'[c].dir = <<TaskOf[c], clock>> /\ job'[c].dir \in DOMAIN store'
        /\ SameBut(c, {"dir"})
    BY <1>8, PrepareMoves
  <2>2. job'[c].written = 0 /\ told[c] # "receipt"
    BY <2>1 DEF OwnDir, SameBut, Fields, Ended, Acting
  <2>3. job'[c].dir \in {TaskOf[c]} \X Seconds /\ job'[c].dir # None
    <3>1. job'[c].dir \in {TaskOf[c]} \X Seconds
      <4>1. clock \in Seconds
        BY DEF Shape, Shape0
      <4>2. <<TaskOf[c], clock>> \in {TaskOf[c]} \X Seconds
        BY <4>1
      <4> QED BY <2>1, <4>2
    <3>2. job'[c].dir \in Dirs
      BY <3>1 DEF Dirs
    <3> QED BY <3>1, <3>2, NoneAssumption
  <2> HIDE DEF length
  <2>4. job'[c].written \in 0..(length - 1)
    BY <1>1, <2>2
  <2> QED BY <2>1, <2>2, <2>3, <2>4 DEF OwnDir, length, Acting, Ended
<1>9. CASE WriteFile(c)
  <2>1. /\ step[c] = "write" /\ UNCHANGED told /\ job'[c].dir = job[c].dir
        /\ job'[c].written = job[c].written + 1
        /\ step'[c] = IF job[c].written + 1 = length THEN "hash" ELSE "write"
    BY <1>9, WriteMoves DEF SameBut, Fields
  <2> HIDE DEF length
  <2>2. job[c].written \in 0..(length - 1) /\ job[c].dir # None /\ told[c] # "receipt"
    BY <2>1 DEF OwnDir, length, Ended, Acting
  <2>3. /\ step'[c] = "write" => job'[c].written \in 0..(length - 1)
        /\ step'[c] = "hash" => job'[c].written = length
        /\ step'[c] \in {"write", "hash"}
    BY <1>1, <2>1, <2>2
  <2> QED BY <1>2, <2>1, <2>2, <2>3 DEF OwnDir, length, Ended, Acting
<1>10. CASE HashFiles(c)
  <2>1. /\ step[c] = "hash" /\ step'[c] = "sums" /\ UNCHANGED told /\ SameBut(c, {"sums"})
    BY <1>10, HashMoves
  <2>2. job'[c].dir = job[c].dir /\ job'[c].written = job[c].written
    BY <2>1 DEF SameBut, Fields
  <2> QED BY <1>2, <2>1, <2>2 DEF OwnDir, Ended, Acting
<1>11. CASE WriteSums(c)
  <2>1. /\ step[c] = "sums" /\ step'[c] \in {"digest", Ended} /\ told'[c] = "receipt" /\ UNCHANGED job
    BY <1>11 DEF WriteSums, Goto, Tell, Shape, Shape0
  <2>2. CASE step'[c] = "digest"
    BY <1>2, <2>1, <2>2 DEF OwnDir, Ended, Acting
  <2> QED BY <1>4, <2>1, <2>2
<1>12. CASE WriteFails(c) \/ Crash(c)
  <2>1. step'[c] = Ended /\ UNCHANGED job /\ (UNCHANGED told \/ told'[c] = "no receipt")
    BY <1>12 DEF WriteFails, Crash, Goto, Tell, Shape, Shape0
  <2> QED BY <1>4, <2>1
<1>13. CASE BundleDigest(c)
  <2>1. /\ step[c] = "digest" /\ step'[c] \in {"offer", "bind"} /\ UNCHANGED told /\ SameBut(c, {"digest"})
    BY <1>13, DigestMoves
  <2>2. job'[c].dir = job[c].dir
    BY <2>1 DEF SameBut, Fields
  <2> QED BY <1>5, <2>1, <2>2
<1>14. CASE Bind(c)
  <2>1. step'[c] = Ended /\ UNCHANGED <<job, told>>
    BY <1>14 DEF Bind, Goto, Shape, Shape0
  <2> QED BY <1>4, <2>1
<1>15. CASE Refile(c)
  <2>1. step[c] = "idle" /\ step'[c] = "offer" /\ UNCHANGED told /\ job'[c].dir = None
    BY <1>15, RefileMoves
  <2>2. told[c] # "receipt"
    BY <2>1 DEF OwnDir, Ended, Acting
  <2> QED BY <2>1, <2>2 DEF OwnDir
<1>16. CASE RefuseUnchanged(c) \/ Offer(c) \/ Account(c) \/ ActOn(c)
  <2>1. /\ step[c] \in {"offer"} \cup Acting /\ step'[c] \in {Ended} \cup Acting
        /\ UNCHANGED <<job, told>>
    BY <1>16 DEF RefuseUnchanged, Offer, Account, AppendRow, AppendFails, ActOn, BuildApproval, Observe,
           Execute, RefuseStale, IsStored, Goto, Shape, Shape0, RowAt, After, Acting
  <2>2. step'[c] # "bind"
    BY <2>1 DEF Ended, Acting
  <2> QED BY <1>5, <2>1, <2>2
<1> QED BY <1>6, <1>7, <1>8, <1>9, <1>10, <1>11, <1>12, <1>13, <1>14, <1>15, <1>16
        DEF StepOf, OfStore, OfStage, VerifyGui, WriteBundle, BindBundle, Propose

\* SHA256SUMS is none of the files that a command writes before it.
LEMMA WritesItsFiles ==
  ASSUME NEW c \in Commands, OwnDir(c), step[c] = "write"
  PROVE  Sums \notin Written(c) \cup {FilesOf(FamilyOf[c])[job[c].written + 1]}
<1> DEFINE length == Len(FilesOf(FamilyOf[c]))
           n == job[c].written
<1>1. length \in Nat /\ n \in 0..(length - 1)
  BY FilesFacts DEF OwnDir
<1>2. /\ \A i \in 1..length : FilesOf(FamilyOf[c])[i] \in NamesOf(c)
      /\ Sums \notin NamesOf(c)
  BY FilesFacts
<1> HIDE DEF length, n
<1>3. n + 1 \in 1..length /\ \A i \in 1..n : i \in 1..length
  BY <1>1
<1> QED BY <1>2, <1>3 DEF Written, length, n

\* The files of a directory no other command of the task shares.
LEMMA FilesOfOthers ==
  ASSUME Shape, NEW d \in Commands, OwnDir(d), OwnFiles(d), OwnDir(d)', SameFor(d),
         None \notin DOMAIN store',
         job[d].dir # None /\ ~Collided(d)' =>
           /\ ~Collided(d)
           /\ job[d].dir \in DOMAIN store' =>
                job[d].dir \in DOMAIN store /\ store'[job[d].dir] = store[job[d].dir]
  PROVE  OwnFiles(d)'
<1>1. /\ step'[d] = step[d] /\ told'[d] = told[d] /\ job'[d] = job[d]
      /\ \A file : Content(d, file)' = Content(d, file)
      /\ SumsOf(d)' = SumsOf(d)
  BY ContentSame DEF SameFor
<1>2. NamesOf(d)' = NamesOf(d) /\ Written(d)' = Written(d)
  BY <1>1 DEF NamesOf, Written
<1>3. SUFFICES ASSUME ~Collided(d)', job[d].dir # None
               PROVE  OwnFiles(d)'
  BY <1>1 DEF OwnFiles, OwnDir, Ended, Acting
<1>4. /\ ~Collided(d)
      /\ job[d].dir \in DOMAIN store' =>
           job[d].dir \in DOMAIN store /\ store'[job[d].dir] = store[job[d].dir]
  BY <1>3
<1>5. step[d] # Ended => job[d].dir \in DOMAIN store'
  BY <1>1, <1>3 DEF OwnDir
<1>6. step[d] \in {"write", "hash", "sums"} => step[d] # Ended
  BY DEF Ended
<1>7. step[d] \in {"write", "hash", "sums"} => Files(job[d].dir)' = Files(job[d].dir)
  BY <1>1, <1>4, <1>5, <1>6 DEF Files
<1>8. job'[d].dir \in DOMAIN store' => job[d].dir \in DOMAIN store /\ Files(job[d].dir)' = Files(job[d].dir)
  BY <1>1, <1>4 DEF Files
<1>9. job'[d].dir \in DOMAIN store' /\ Finished(d)' => Finished(d)
  BY <1>1, <1>8 DEF Finished, HasSums
<1> QED BY <1>1, <1>2, <1>4, <1>7, <1>8, <1>9 DEF OwnFiles

LEMMA FilesOfCommand ==
  ASSUME Shape, Bundles, NEW c \in Commands, StepOf(c)
  PROVE  OwnFiles(c)'
<1>1. OwnDir(c) /\ OwnFiles(c) /\ \A d \in Commands : OwnDir(d)
  BY DEF Bundles
<1>2. job[c].dir # None /\ ~Collided(c)' => ~Collided(c)
  BY <1>1, KeepCollision
<1>3. ASSUME step'[c] \notin {"write", "hash", "sums", "bind"},
             ~Finished(c)' \/ job'[c].dir \notin DOMAIN store'
      PROVE  OwnFiles(c)'
  BY <1>3 DEF OwnFiles
<1>4. ASSUME step'[c] \notin {"write", "hash", "sums", "bind"}, UNCHANGED <<store, job>>,
             told'[c] = "receipt" => told[c] = "receipt"
      PROVE  OwnFiles(c)'
  <2>1. Finished(c)' => Finished(c)
    BY <1>4 DEF Finished, HasSums, Files
  <2>2. CASE ~Finished(c) \/ job[c].dir \notin DOMAIN store
    BY <1>3, <1>4, <2>1, <2>2
  <2>3. CASE Finished(c) /\ job[c].dir \in DOMAIN store
    <3>1. /\ job[c].dir # None
          /\ \A file : Content(c, file)' = Content(c, file)
          /\ SumsOf(c)' = SumsOf(c) /\ NamesOf(c)' = NamesOf(c)
      BY <1>4, <2>3, ContentSame DEF Bundles, NamesOf
    <3> QED BY <1>1, <1>2, <1>4, <2>3, <3>1 DEF OwnFiles, Files
  <2> QED BY <2>2, <2>3
<1>5. CASE RunEnded(c) \/ VerifyGui(c) \/ Perceive(c) \/ Refile(c)
  <2>1. step[c] \in {"idle", "attest", "judge"} /\ step'[c] \in {"attest", "judge", "prepare", "offer", Ended}
        /\ UNCHANGED <<store, told>>
    BY <1>5, RunMoves, FrameMoves, AttestMoves, JudgeMoves, PerceiveMoves, RefileMoves DEF VerifyGui
  <2>2. ~PrepareOut(c)
    BY <2>1 DEF PrepareOut, Ended
  <2>3. job'[c].dir = None
    BY <1>1, <2>1, <2>2, DirMoves DEF OwnDir
  <2>4. None \notin DOMAIN store'
    BY <2>1 DEF Bundles
  <2> QED BY <1>3, <2>1, <2>3, <2>4 DEF Ended
<1>6. CASE Bind(c) \/ RefuseUnchanged(c) \/ Offer(c) \/ Account(c) \/ ActOn(c)
  <2>1. step'[c] \in {Ended} \cup Acting /\ UNCHANGED <<store, job, told>>
    BY <1>6 DEF Bind, RefuseUnchanged, Offer, Account, AppendRow, AppendFails, ActOn, BuildApproval,
           Observe, Execute, RefuseStale, IsStored, Goto, Shape, Shape0, RowAt, After, Acting
  <2> QED BY <1>4, <2>1 DEF Ended, Acting
<1>7. ASSUME step[c] = "sums", UNCHANGED job, store' = WithFile(job[c].dir, Sums, job[c].sums),
             step'[c] \in {"digest", Ended}
      PROVE  OwnFiles(c)'
  <2>1. /\ job[c].dir # None /\ job[c].dir \in DOMAIN store /\ job[c].written = Len(FilesOf(FamilyOf[c]))
    BY <1>1, <1>7 DEF OwnDir, Ended
  <2>2. /\ (\A f : Content(c, f)' = Content(c, f)) /\ SumsOf(c)' = SumsOf(c)
        /\ NamesOf(c)' = NamesOf(c)
    BY <1>7, ContentSame DEF NamesOf
  <2>3. Written(c) = NamesOf(c) /\ Sums \notin NamesOf(c)
    BY <2>1, FilesFacts DEF Written
  <2>4. /\ DOMAIN Files(job[c].dir)' = DOMAIN Files(job[c].dir) \cup {Sums}
        /\ Files(job[c].dir)'[Sums] = job[c].sums
        /\ \A f \in DOMAIN Files(job[c].dir) \ {Sums} : Files(job[c].dir)'[f] = Files(job[c].dir)[f]
    BY <1>7, <2>1, FileWritten DEF Files
  <2>5. SUFFICES ASSUME ~Collided(c)'
                 PROVE  OwnFiles(c)'
    BY DEF OwnFiles
  <2>6. /\ DOMAIN Files(job[c].dir) = NamesOf(c)
        /\ \A f \in NamesOf(c) : Files(job[c].dir)[f] = Content(c, f)
        /\ job[c].sums = SumsOf(c)
    BY <1>1, <1>2, <1>7, <2>1, <2>3, <2>5 DEF OwnFiles
  <2>7. /\ DOMAIN Files(job[c].dir)' = NamesOf(c)' \cup {Sums}
        /\ \A f \in NamesOf(c)' : Files(job[c].dir)'[f] = Content(c, f)'
        /\ Files(job[c].dir)'[Sums] = SumsOf(c)'
    BY <2>2, <2>3, <2>4, <2>6
  <2> QED BY <1>7, <2>7 DEF OwnFiles, Ended
<1>8. CASE WriteFails(c) \/ Crash(c)
  <2>1. /\ step'[c] = Ended /\ UNCHANGED job /\ store' \in Interrupted(c)
        /\ told'[c] = "receipt" => told[c] = "receipt"
    BY <1>8 DEF WriteFails, Crash, Goto, Tell, Shape, Shape0
  <2>2. CASE UNCHANGED store
    BY <1>4, <2>1, <2>2 DEF Ended
  <2>3. CASE store' # store
    <3>1. /\ step[c] \in {"write", "sums"} /\ job[c].dir # None /\ job[c].dir \in DOMAIN store
          /\ told'[c] # "receipt"
      BY <1>1, <2>1, <2>3 DEF Interrupted, OwnDir, Ended, Acting
    <3>2. CASE step[c] = "write"
      <4> DEFINE file == FilesOf(FamilyOf[c])[job[c].written + 1]
      <4>1. store' = WithFile(job[c].dir, file, Torn)
        BY <2>1, <2>3, <3>2 DEF Interrupted
      <4>2. Sums \notin Written(c) \cup {file}
        BY <1>1, <3>2, WritesItsFiles
      <4> HIDE DEF file
      <4>3. DOMAIN Files(job[c].dir)' = DOMAIN Files(job[c].dir) \cup {file}
        BY <2>1, <3>1, <4>1, FileWritten DEF Files
      <4>4. ASSUME ~Collided(c)'
            PROVE  ~Finished(c)'
        <5>1. DOMAIN Files(job[c].dir) = Written(c)
          BY <1>1, <1>2, <3>1, <3>2, <4>4 DEF OwnFiles
        <5> QED BY <2>1, <3>1, <4>2, <4>3, <5>1 DEF Finished, HasSums
      <4>5. CASE Collided(c)'
        BY <4>5 DEF OwnFiles
      <4> QED BY <1>3, <2>1, <4>4, <4>5 DEF Ended
    <3>3. CASE step[c] = "sums"
      <4>1. CASE store' = WithFile(job[c].dir, Sums, Torn)
        <5>1. Files(job[c].dir)'[Sums] = Torn
          BY <2>1, <3>1, <4>1, FileWritten DEF Files
        <5>2. ~Finished(c)'
          BY <2>1, <3>1, <5>1 DEF Finished
        <5> QED BY <1>3, <2>1, <5>2 DEF Ended
      <4>2. CASE store' = WithFile(job[c].dir, Sums, job[c].sums)
        BY <1>7, <2>1, <3>3, <4>2
      <4> QED BY <2>1, <2>3, <3>3, <4>1, <4>2 DEF Interrupted
    <3> QED BY <3>1, <3>2, <3>3
  <2> QED BY <2>2, <2>3
<1>9. CASE PrepareOut(c)
  <2>1. /\ step[c] = "prepare" /\ step'[c] = "write" /\ UNCHANGED told
        /\ job'[c].dir = <<TaskOf[c], clock>> /\ SameBut(c, {"dir"})
        /\ job'[c].dir \notin DOMAIN store => store'[job'[c].dir] = <<>>
    BY <1>9, PrepareMoves
  <2>2. told[c] # "receipt" /\ job[c].written = 0 /\ job[c].dir = None
    BY <1>1, <2>1 DEF OwnDir, Ended, Acting
  <2>3. job'[c].written = 0
    BY <2>1, <2>2 DEF SameBut, Fields
  <2>4. ASSUME job'[c].dir \in DOMAIN store
        PROVE  Collided(c)'
    <3>1. PICK d \in Commands : job[d].dir = job'[c].dir /\ job[d].dir # None
      BY <2>4 DEF Bundles
    <3>2. d # c
      BY <2>2, <3>1
    <3>3. job'[d].dir = job[d].dir
      BY <3>2, OthersSame DEF SameFor
    <3>4. TaskOf[d] = TaskOf[c]
      <4>1. OwnDir(d)
        BY <1>1
      <4>2. <<TaskOf[c], clock>> \in {TaskOf[d]} \X Seconds
        BY <2>1, <3>1, <4>1 DEF OwnDir
      <4> QED BY <4>2
    <3> QED BY <3>1, <3>2, <3>3, <3>4 DEF Collided
  <2>5. ASSUME job'[c].dir \notin DOMAIN store
        PROVE  DOMAIN Files(job[c].dir)' = {}
    <3>1. Files(job[c].dir)' = <<>>
      BY <2>1, <2>5 DEF Files
    <3>2. DOMAIN <<>> = {}
      OBVIOUS
    <3> QED BY <3>1, <3>2
  <2>6. Written(c)' = {}
    <3>1. 1..0 = {}
      OBVIOUS
    <3> QED BY <2>3, <3>1 DEF Written
  <2>7. job'[c].dir \notin DOMAIN store => ~Finished(c)'
    BY <2>1, <2>2, <2>5 DEF Finished, HasSums, Files
  <2> QED BY <2>1, <2>2, <2>4, <2>5, <2>6, <2>7 DEF OwnFiles
<1>10. CASE WriteFile(c)
  <2> DEFINE files == FilesOf(FamilyOf[c])
             file == files[job[c].written + 1]
  <2>1. /\ step[c] = "write" /\ step'[c] \in {"write", "hash"} /\ UNCHANGED told
        /\ job'[c].written = job[c].written + 1 /\ SameBut(c, {"written"})
        /\ store' = WithFile(job[c].dir, file, Content(c, file))
    BY <1>10, WriteMoves
  <2>2. /\ job[c].dir # None /\ job[c].dir \in DOMAIN store /\ told[c] # "receipt"
        /\ job[c].written \in 0..(Len(files) - 1)
    BY <1>1, <2>1 DEF OwnDir, Ended, Acting
  <2>3. /\ job'[c].dir = job[c].dir /\ \A f : Content(c, f)' = Content(c, f)
    <3>1. \A f \in Said : job'[c][f] = job[c][f]
      BY <2>1 DEF SameBut, Fields, Said
    <3>2. \A f : Content(c, f)' = Content(c, f)
      BY <3>1, ContentSame
    <3> QED BY <3>1, <3>2 DEF Said
  <2>4. Written(c)' = Written(c) \cup {file}
    <3> HIDE DEF files
    <3>1. /\ Written(c) = {files[i] : i \in 1..job[c].written}
          /\ Written(c)' = {files[i] : i \in 1..(job[c].written + 1)}
      BY <2>1 DEF Written, files
    <3>2. 1..(job[c].written + 1) = (1..job[c].written) \cup {job[c].written + 1}
      <4> DEFINE n == job[c].written
      <4>1. Len(files) \in Nat
        BY FilesFacts DEF files
      <4>2. n \in Nat
        BY <2>2, <4>1
      <4> HIDE DEF n
      <4>3. 1..(n + 1) = (1..n) \cup {n + 1}
        BY <4>2
      <4> QED BY <4>3 DEF n
    <3> QED BY <3>1, <3>2
  <2> HIDE DEF file, files
  <2>5. /\ DOMAIN Files(job[c].dir)' = DOMAIN Files(job[c].dir) \cup {file}
        /\ Files(job[c].dir)'[file] = Content(c, file)
        /\ \A f \in DOMAIN Files(job[c].dir) \ {file} : Files(job[c].dir)'[f] = Files(job[c].dir)[f]
    BY <2>1, <2>2, <2>3, FileWritten DEF Files
  <2>6. SUFFICES ASSUME ~Collided(c)'
                 PROVE  OwnFiles(c)'
    BY DEF OwnFiles
  <2>7. /\ DOMAIN Files(job[c].dir) = Written(c)
        /\ \A f \in Written(c) : Files(job[c].dir)[f] = Content(c, f)
    BY <1>1, <1>2, <2>1, <2>2, <2>6 DEF OwnFiles
  <2>8. /\ DOMAIN Files(job[c].dir)' = Written(c)'
        /\ \A f \in Written(c)' : Files(job[c].dir)'[f] = Content(c, f)'
    BY <2>3, <2>4, <2>5, <2>7
  <2>9. Sums \notin Written(c)'
    BY <1>1, <2>1, <2>4, WritesItsFiles DEF file, files
  <2>10. ~Finished(c)'
    BY <2>1, <2>2, <2>3, <2>8, <2>9 DEF Finished, HasSums, Files
  <2> QED BY <2>1, <2>8, <2>10 DEF OwnFiles
<1>11. CASE HashFiles(c)
  <2>1. /\ step[c] = "hash" /\ step'[c] = "sums" /\ UNCHANGED <<store, told>> /\ SameBut(c, {"sums"})
        /\ job'[c].sums = [f \in DOMAIN Files(job[c].dir) \ {Sums} |-> Files(job[c].dir)[f]]
    BY <1>11, HashMoves
  <2>2. /\ job[c].dir # None /\ told[c] # "receipt" /\ job[c].written = Len(FilesOf(FamilyOf[c]))
    BY <1>1, <2>1 DEF OwnDir, Ended, Acting
  <2>3. /\ job'[c].dir = job[c].dir /\ job'[c].written = job[c].written
        /\ (\A f : Content(c, f)' = Content(c, f)) /\ SumsOf(c)' = SumsOf(c)
    <3>1. /\ \A f \in Said : job'[c][f] = job[c][f]
          /\ job'[c].written = job[c].written
      BY <2>1 DEF SameBut, Fields, Said
    <3>2. (\A f : Content(c, f)' = Content(c, f)) /\ SumsOf(c)' = SumsOf(c)
      BY <3>1, ContentSame
    <3> QED BY <3>1, <3>2 DEF Said
  <2>4. Written(c) = NamesOf(c) /\ Sums \notin NamesOf(c) /\ Written(c)' = Written(c)
    BY <2>2, <2>3, FilesFacts DEF Written
  <2>5. SUFFICES ASSUME ~Collided(c)'
                 PROVE  OwnFiles(c)'
    BY DEF OwnFiles
  <2>6. /\ DOMAIN Files(job[c].dir) = Written(c)
        /\ \A f \in Written(c) : Files(job[c].dir)[f] = Content(c, f)
    BY <1>1, <1>2, <2>1, <2>2, <2>5 DEF OwnFiles
  <2>7. job'[c].sums = SumsOf(c)
    <3>1. DOMAIN Files(job[c].dir) \ {Sums} = NamesOf(c)
      BY <2>4, <2>6
    <3> QED BY <2>1, <2>4, <2>6, <3>1 DEF SumsOf
  <2>8. Files(job[c].dir)' = Files(job[c].dir)
    BY <2>1, <2>3 DEF Files
  <2>9. /\ DOMAIN Files(job[c].dir)' = Written(c)'
        /\ \A f \in Written(c)' : Files(job[c].dir)'[f] = Content(c, f)'
    BY <2>3, <2>4, <2>6, <2>8
  <2>10. job'[c].sums = SumsOf(c)'
    BY <2>3, <2>7
  <2>11. ~Finished(c)'
    BY <2>1, <2>2, <2>3, <2>4, <2>9 DEF Finished, HasSums, Files
  <2> QED BY <2>1, <2>9, <2>10, <2>11 DEF OwnFiles
<1>12. CASE WriteSums(c)
  BY <1>7, <1>12 DEF WriteSums, Goto, Tell, Shape, Shape0
<1>13. CASE BundleDigest(c)
  <2>1. /\ step[c] = "digest" /\ step'[c] \in {"offer", "bind"} /\ UNCHANGED <<store, told>>
        /\ SameBut(c, {"digest"})
        /\ HasSums(job[c].dir) /\ job'[c].digest = Files(job[c].dir)[Sums]
    BY <1>13, DigestMoves
  <2>2. /\ job'[c].dir = job[c].dir
        /\ (\A f : Content(c, f)' = Content(c, f)) /\ SumsOf(c)' = SumsOf(c)
        /\ NamesOf(c)' = NamesOf(c)
    <3>1. \A f \in Said : job'[c][f] = job[c][f]
      BY <2>1 DEF SameBut, Fields, Said
    <3>2. (\A f : Content(c, f)' = Content(c, f)) /\ SumsOf(c)' = SumsOf(c)
      BY <3>1, ContentSame
    <3> QED BY <3>1, <3>2 DEF Said, NamesOf
  <2>3. told[c] = "receipt" /\ job[c].dir # None /\ job[c].dir \in DOMAIN store
    BY <1>1, <2>1 DEF OwnDir, Ended
  <2>4. Files(job[c].dir)' = Files(job[c].dir)
    BY <2>1, <2>2 DEF Files
  <2>5. SUFFICES ASSUME ~Collided(c)'
                 PROVE  OwnFiles(c)'
    BY DEF OwnFiles
  <2>6. /\ DOMAIN Files(job[c].dir) = NamesOf(c) \cup {Sums}
        /\ \A f \in NamesOf(c) : Files(job[c].dir)[f] = Content(c, f)
        /\ Files(job[c].dir)[Sums] = SumsOf(c)
    BY <1>1, <1>2, <2>3, <2>5 DEF OwnFiles, Finished
  <2>7. /\ DOMAIN Files(job[c].dir)' = NamesOf(c)' \cup {Sums}
        /\ \A f \in NamesOf(c)' : Files(job[c].dir)'[f] = Content(c, f)'
        /\ Files(job[c].dir)'[Sums] = SumsOf(c)'
    BY <2>2, <2>4, <2>6
  <2>8. job'[c].digest = SumsOf(c)'
    BY <2>1, <2>2, <2>6
  <2> QED BY <2>1, <2>7, <2>8 DEF OwnFiles
<1> QED BY <1>5, <1>6, <1>8, <1>9, <1>10, <1>11, <1>12, <1>13
        DEF StepOf, OfStore, OfStage, WriteBundle, BindBundle, Propose

\* What the directories hold is kept by every step of a command.
LEMMA BundlesOfCommands ==
  ASSUME Shape, Bundles, NEW c \in Commands, StepOf(c)
  PROVE  Bundles'
<1>1. \A d \in Commands : OwnDir(d) /\ OwnFiles(d)
  BY DEF Bundles
<1>2. /\ DOMAIN store \subseteq DOMAIN store' /\ DOMAIN store' \subseteq DOMAIN store \cup {job'[c].dir}
      /\ \A dir \in DOMAIN store : dir # job'[c].dir => store'[dir] = store[dir]
  BY StoreMoves
<1>3. \A d \in Commands : OwnDir(d)'
  <2> TAKE d \in Commands
  <2>1. CASE d = c
    BY <1>1, <2>1, DirOfCommand
  <2>2. CASE d # c
    BY <1>1, <1>2, <2>2, OthersSame, DirOfOthers
  <2> QED BY <2>1, <2>2
<1>4. ASSUME NEW d \in Commands \ {c}, job[d].dir # None, ~Collided(d)'
      PROVE  ~Collided(d) /\ job'[c].dir # job[d].dir
  <2>1. ~Collided(d)
    BY <1>1, <1>4, KeepCollision
  <2>2. job'[d].dir = job[d].dir
    BY OthersSame DEF SameFor
  <2>3. job'[c].dir # job'[d].dir
    <3>1. OwnDir(c)' /\ OwnDir(d)' /\ job'[d].dir # None
      BY <1>3, <1>4, <2>2
    <3>2. job'[c].dir = job'[d].dir => TaskOf[c] = TaskOf[d]
      BY <3>1 DEF OwnDir
    <3> QED BY <1>4, <3>2 DEF Collided
  <2> QED BY <2>1, <2>2, <2>3
<1>5. \A dir \in DOMAIN store' : dir # None /\ \E d \in Commands : job'[d].dir = dir
  <2> TAKE dir \in DOMAIN store'
  <2>1. CASE dir \in DOMAIN store
    <3>1. PICK d \in Commands : job[d].dir = dir /\ dir # None
      BY <2>1 DEF Bundles
    <3>2. job'[d].dir = job[d].dir
      <4>1. CASE d = c
        BY <1>1, <3>1, <4>1, DirMoves
      <4>2. CASE d # c
        BY <4>2, OthersSame DEF SameFor
      <4> QED BY <4>1, <4>2
    <3> QED BY <3>1, <3>2
  <2>2. CASE dir \notin DOMAIN store
    <3>1. dir = job'[c].dir
      BY <1>2, <2>2
    <3>2. job'[c].dir # None
      <4>1. CASE PrepareOut(c)
        <5>1. job'[c].dir = <<TaskOf[c], clock>> /\ clock \in Seconds
          BY <4>1, PrepareMoves DEF Shape, Shape0
        <5>2. job'[c].dir \in Dirs
          BY <5>1 DEF Dirs
        <5> QED BY <5>2, NoneAssumption
      <4>2. CASE ~PrepareOut(c)
        <5>1. job'[c].dir = job[c].dir
          BY <1>1, <4>2, DirMoves
        <5>2. DOMAIN store' = DOMAIN store
          BY <4>2 DEF StepOf, OfStore, OfStage, RunEnded, VerifyGui, ObtainFrame, Attest, Judge,
                 WriteBundle, WriteFile, HashFiles, WriteSums, WriteFails, Interrupted, WithFile,
                 BindBundle, BundleDigest, Bind, Crash, Propose, Perceive, Refile, RefuseUnchanged,
                 Offer, Account, AppendRow, AppendFails, ActOn, BuildApproval, Observe, Execute,
                 RefuseStale, IsStored
        <5> QED BY <2>2, <5>2
      <4> QED BY <4>1, <4>2
    <3> QED BY <3>1, <3>2
  <2> QED BY <2>1, <2>2
<1>6. \A d \in Commands : OwnFiles(d)'
  <2> TAKE d \in Commands
  <2>1. CASE d = c
    BY <2>1, FilesOfCommand
  <2>2. CASE d # c
    <3>1. SameFor(d)
      BY <2>2, OthersSame
    <3>2. ASSUME job[d].dir # None, ~Collided(d)'
          PROVE  /\ ~Collided(d)
                 /\ job[d].dir \in DOMAIN store' =>
                      job[d].dir \in DOMAIN store /\ store'[job[d].dir] = store[job[d].dir]
      BY <1>2, <1>4, <2>2, <3>2
    <3> QED BY <1>1, <1>3, <1>5, <3>1, <3>2, FilesOfOthers
  <2> QED BY <2>1, <2>2
<1>7. \A i \in DOMAIN ledger' : \A row : row = ledger'[i] => RowNames(row)'
  <2>1. ASSUME NEW row, RowNames(row), row.digest # None
        PROVE  RowNames(row)'
    <3> DEFINE e == row.by
    <3>1. /\ e \in Commands /\ told[e] = "receipt" /\ step[e] = Ended
          /\ ~Collided(e) => job[e].dir \in DOMAIN store /\ row.digest = SumsOf(e)
      BY <2>1 DEF RowNames
    <3>2. e # c
      BY <1>1, <3>1, DirMoves
    <3>3. SameFor(e) /\ job[e].dir # None
      BY <1>1, <3>1, <3>2, OthersSame DEF OwnDir
    <3>4. ~Collided(e)' => ~Collided(e)
      BY <1>4, <3>1, <3>2, <3>3
    <3>5. SumsOf(e)' = SumsOf(e) /\ job'[e].dir = job[e].dir
      BY <3>3, ContentSame DEF SameFor
    <3> HIDE DEF e
    <3>6. /\ told'[e] = "receipt" /\ step'[e] = Ended
          /\ ~Collided(e)' => job'[e].dir \in DOMAIN store' /\ row.digest = SumsOf(e)'
      BY <1>2, <3>1, <3>3, <3>4, <3>5 DEF SameFor
    <3> QED BY <3>1, <3>6 DEF RowNames, e
  <2>2. ASSUME NEW row, row.digest = None
        PROVE  RowNames(row)'
    BY <2>2 DEF RowNames
  <2>3. ASSUME NEW i \in DOMAIN ledger, NEW row, row = ledger[i]
        PROVE  RowNames(row)'
    BY <2>1, <2>2, <2>3 DEF Bundles
  <2>4. CASE UNCHANGED ledger
    BY <2>3, <2>4
  <2>5. CASE ledger' # ledger
    <3>1. Bind(c) \/ AppendRow(c)
      BY <2>5 DEF StepOf, OfStore, OfStage, RunEnded, VerifyGui, ObtainFrame, Attest, Judge,
             WriteBundle, PrepareOut, WriteFile, HashFiles, WriteSums, WriteFails, BindBundle,
             BundleDigest, Crash, Propose, Perceive, Refile, RefuseUnchanged, Offer, Account,
             AppendFails, ActOn, BuildApproval, Observe, Execute, RefuseStale
    <3>2. PICK mark : ledger' = Append(ledger, mark) /\ RowNames(mark)'
      <4>1. CASE Bind(c)
        <5>1. /\ step[c] = "bind" /\ step'[c] = Ended /\ UNCHANGED <<job, told, store>>
              /\ \E mark : mark = Row(c, "EVIDENCE", job[c].digest) /\ ledger' = Append(ledger, mark)
          BY <2>5, <4>1 DEF Bind, Goto, Shape, Shape0
        <5> PICK mark : mark = Row(c, "EVIDENCE", job[c].digest) /\ ledger' = Append(ledger, mark)
          BY <5>1
        <5>2. mark.by = c /\ mark.digest = job[c].digest
          BY DEF Row
        <5>3. told[c] = "receipt" /\ job[c].dir # None /\ job[c].dir \in DOMAIN store
          BY <1>1, <5>1 DEF OwnDir, Ended
        <5>4. ~Collided(c)' => job[c].digest = SumsOf(c)
          <6>1. ~Collided(c)' => ~Collided(c)
            BY <1>1, <5>3, KeepCollision
          <6> QED BY <1>1, <5>1, <6>1 DEF OwnFiles
        <5>5. SumsOf(c)' = SumsOf(c)
          BY <5>1, ContentSame
        <5>6. RowNames(mark)'
          BY <5>1, <5>2, <5>3, <5>4, <5>5 DEF RowNames
        <5> QED BY <5>6
      <4>2. CASE AppendRow(c)
        <5>1. \E mark : mark = Row(c, RowAt[step[c]], None) /\ ledger' = Append(ledger, mark)
          BY <4>2 DEF AppendRow
        <5> PICK mark : mark = Row(c, RowAt[step[c]], None) /\ ledger' = Append(ledger, mark)
          BY <5>1
        <5>2. mark.digest = None
          BY DEF Row
        <5> QED BY <2>2, <5>2
      <4> QED BY <3>1, <4>1, <4>2
    <3>3. \A i \in DOMAIN ledger' : (i \in DOMAIN ledger /\ ledger'[i] = ledger[i]) \/ ledger'[i] = mark
      BY <3>2, RowsGrow DEF Shape
    <3> QED BY <2>3, <3>2, <3>3
  <2> QED BY <2>4, <2>5
<1>8. ASSUME NEW i \in DOMAIN ledger'
      PROVE  RowNames(ledger[i])'
  <2> DEFINE row == ledger'[i]
  <2>1. \A mark : mark = row => RowNames(mark)'
    BY <1>7
  <2> QED BY <2>1 DEF RowNames
<1> QED BY <1>3, <1>5, <1>6, <1>8 DEF Bundles

\* A pruning spares the bundles of commands that have not ended and those a row names.
LEMMA BundlesOfWorld ==
  ASSUME Bundles, Shape, UNCHANGED <<step, job, told, ledger>>,
         DOMAIN store' \subseteq DOMAIN store,
         \A dir \in DOMAIN store' : store'[dir] = store[dir],
         \A dir \in DOMAIN store : dir \in DOMAIN store' \/ Prunable(dir)
  PROVE  Bundles'
<1>1. \A d \in Commands : OwnDir(d) /\ OwnFiles(d)
  BY DEF Bundles
<1>2. \A d \in Commands : OwnDir(d)'
  <2> TAKE d \in Commands
  <2>1. job[d].dir # None /\ step[d] # Ended => job[d].dir \in DOMAIN store'
    BY <1>1 DEF OwnDir, Prunable, InUse
  <2> QED BY <1>1, <2>1 DEF OwnDir
<1>3. \A d : Collided(d)' <=> Collided(d)
  BY DEF Collided
<1>4. \A d \in Commands : OwnFiles(d)'
  <2> TAKE d \in Commands
  <2>1. /\ step'[d] = step[d] /\ told'[d] = told[d] /\ job'[d] = job[d]
        /\ \A file : Content(d, file)' = Content(d, file)
        /\ SumsOf(d)' = SumsOf(d) /\ NamesOf(d)' = NamesOf(d) /\ Written(d)' = Written(d)
    BY ContentSame DEF NamesOf, Written
  <2>2. step[d] \in {"write", "hash", "sums"} =>
          job[d].dir \in DOMAIN store' /\ Files(job[d].dir)' = Files(job[d].dir)
    BY <1>1, <1>2 DEF OwnDir, Files, Ended
  <2>3. job'[d].dir \in DOMAIN store' => job[d].dir \in DOMAIN store /\ Files(job[d].dir)' = Files(job[d].dir)
    BY <2>1 DEF Files
  <2>4. OwnFiles(d) /\ (~Collided(d)' => ~Collided(d))
    BY <1>1, <1>3
  <2>5. job'[d].dir \in DOMAIN store' /\ Finished(d)' => Finished(d)
    BY <2>1, <2>3 DEF Finished, HasSums
  <2> QED BY <2>1, <2>2, <2>3, <2>4, <2>5 DEF OwnFiles
<1>5. \A dir \in DOMAIN store' : dir # None /\ \E d \in Commands : job'[d].dir = dir
  BY DEF Bundles
<1>6. ASSUME NEW i \in DOMAIN ledger, NEW row, row = ledger[i]
      PROVE  RowNames(row)'
  <2> SUFFICES ASSUME row.digest # None
               PROVE  RowNames(row)'
    BY DEF RowNames
  <2>1. RowNames(row)
    BY <1>6 DEF Bundles
  <2>2. SUFFICES ASSUME ~Collided(row.by)
                 PROVE  job[row.by].dir \in DOMAIN store' /\ row.digest = SumsOf(row.by)'
    BY <1>3, <2>1 DEF RowNames
  <2>3. /\ row.by \in Commands /\ told[row.by] = "receipt"
        /\ job[row.by].dir \in DOMAIN store /\ row.digest = SumsOf(row.by)
    BY <2>1, <2>2 DEF RowNames
  <2>4. Sums \in DOMAIN Files(job[row.by].dir) /\ Files(job[row.by].dir)[Sums] = row.digest
    BY <1>1, <2>2, <2>3 DEF OwnFiles, Finished
  <2>5. ~Prunable(job[row.by].dir)
    BY <1>6, <2>3, <2>4 DEF Prunable, HasSums, Named
  <2>6. \A d : SumsOf(d)' = SumsOf(d)
    BY ContentSame
  <2> QED BY <2>3, <2>5, <2>6
<1>7. ASSUME NEW i \in DOMAIN ledger'
      PROVE  RowNames(ledger[i])'
  <2> DEFINE row == ledger'[i]
  <2>1. \A mark : mark = row => RowNames(mark)'
    BY <1>6
  <2> QED BY <2>1 DEF RowNames
<1> QED BY <1>2, <1>4, <1>5, <1>7 DEF Bundles

LEMMA BundlesStep ==
  ASSUME Shape, Bundles, [Next]_vars
  PROVE  Bundles'
<1>1. CASE \E c \in Commands : StepOf(c)
  BY <1>1, BundlesOfCommands
<1>2. CASE Tick \/ ScreenMoves \/ UNCHANGED vars
  <2>1. UNCHANGED <<step, job, told, ledger, store>>
    BY <1>2 DEF Tick, ScreenMoves, vars
  <2> QED BY <2>1, BundlesOfWorld
<1>3. CASE Prune
  <2>1. PICK dir \in DOMAIN store : Prunable(dir) /\ store' = [d \in DOMAIN store \ {dir} |-> store[d]]
    BY <1>3 DEF Prune
  <2>2. /\ DOMAIN store' \subseteq DOMAIN store
        /\ \A d \in DOMAIN store' : store'[d] = store[d]
        /\ \A d \in DOMAIN store : d \in DOMAIN store' \/ Prunable(d)
    BY <2>1
  <2>3. UNCHANGED <<step, job, told, ledger>>
    BY <1>3 DEF Prune
  <2> QED BY <2>2, <2>3, BundlesOfWorld
<1> QED BY <1>1, <1>2, <1>3, WhoSteps

LEMMA BundlesInit ==
  ASSUME Init
  PROVE  Bundles
<1> USE DEF Init, InitStore
<1>1. DOMAIN store = {} /\ DOMAIN ledger = {}
  <2>1. DOMAIN <<>> = {}
    OBVIOUS
  <2> QED BY <2>1
<1>2. ASSUME NEW c \in Commands
      PROVE  OwnDir(c) /\ OwnFiles(c)
  <2>1. /\ step[c] = "idle" /\ told[c] = "nothing"
        /\ job[c].dir = None /\ job[c].written = 0
    BY DEF NoJob
  <2>2. OwnDir(c)
    BY <2>1 DEF OwnDir
  <2>3. OwnFiles(c)
    BY <1>1, <2>1 DEF OwnFiles, Finished, HasSums
  <2> QED BY <2>2, <2>3
<1> QED BY <1>1, <1>2 DEF Bundles

----------------------------------------------------------------------------
\* Whom an observer attests to

LEMMA AttestsInit ==
  ASSUME Init
  PROVE  Attests
  BY DEF Init, InitStore, NoJob, Attests, AttestOf

LEMMA AttestOfCommand ==
  ASSUME Shape, NEW c \in Commands, AttestOf(c), StepOf(c)
  PROVE  AttestOf(c)'
<1>1. CASE FamilyOf[c] # "gui"
  <2>1. step'[c] \notin {"attest", "judge"}
    <3>1. ~ObtainFrame(c) /\ step[c] \notin {"attest", "judge"}
      BY <1>1, FrameMoves DEF AttestOf
    <3> QED BY <3>1 DEF StepOf, OfStore, OfStage, RunEnded, VerifyGui, Attest, Judge, WriteBundle,
               PrepareOut, WriteFile, HashFiles, WriteSums, WriteFails, BindBundle, BundleDigest,
               Bind, Crash, Propose, Perceive, Refile, RefuseUnchanged, Offer, Account, AppendRow,
               AppendFails, ActOn, BuildApproval, Observe, Execute, RefuseStale, Goto, Shape,
               Shape0, After, Ended
  <2> QED BY <1>1, <2>1 DEF AttestOf
<1>2. CASE FamilyOf[c] = "gui"
  <2>1. ASSUME step'[c] \notin {"idle", "attest"}, step[c] \notin {"idle", "attest"},
               job'[c].attested = job[c].attested, job'[c].frame = job[c].frame,
               observer'[c] = observer[c]
        PROVE  AttestOf(c)'
    BY <1>2, <2>1 DEF AttestOf
  <2>2. CASE ObtainFrame(c)
    <3>1. /\ step[c] = "idle" /\ step'[c] \in {"attest", "judge"}
          /\ job'[c].attested = job[c].attested
      BY <2>2, FrameMoves DEF SameBut, Fields
    <3> QED BY <1>2, <3>1 DEF AttestOf
  <2>3. CASE Attest(c)
    <3>1. /\ step[c] = "attest" /\ step'[c] \in {"judge", Ended} /\ observer'[c] = screen
          /\ \/ step'[c] = Ended /\ job'[c] = job[c]
             \/ step'[c] = "judge" /\ screen = job[c].frame
          /\ job'[c].frame = job[c].frame
      BY <2>3, AttestMoves DEF SameBut, Fields
    <3> QED BY <1>2, <3>1 DEF AttestOf, Ended
  <2>4. CASE Judge(c) \/ PrepareOut(c) \/ WriteFile(c) \/ HashFiles(c) \/ BundleDigest(c)
    <3>1. /\ step[c] \notin {"idle", "attest"} /\ step'[c] \notin {"idle", "attest"}
          /\ observer'[c] = observer[c]
      BY <2>4 DEF Judge, PrepareOut, WriteFile, HashFiles, BundleDigest, Goto, Shape, Shape0
    <3>2. "attested" \in Fields \ {"passed", "dir", "written", "sums", "digest"}
          /\ "frame" \in Fields \ {"passed", "dir", "written", "sums", "digest"}
      BY DEF Fields
    <3>3. /\ Judge(c) => SameBut(c, {"passed"})
          /\ PrepareOut(c) => SameBut(c, {"dir"})
          /\ HashFiles(c) => SameBut(c, {"sums"})
          /\ BundleDigest(c) => SameBut(c, {"digest"})
      BY JudgeMoves, PrepareMoves, HashMoves, DigestMoves
    <3>4. WriteFile(c) => SameBut(c, {"written"})
      BY WriteMoves
    <3>5. job'[c].attested = job[c].attested /\ job'[c].frame = job[c].frame
      BY <2>4, <3>2, <3>3, <3>4 DEF SameBut
    <3> QED BY <2>1, <3>1, <3>5
  <2>5. CASE \/ WriteSums(c) \/ WriteFails(c) \/ Bind(c) \/ Crash(c)
             \/ RefuseUnchanged(c) \/ Offer(c) \/ Account(c) \/ ActOn(c)
    <3>1. CASE step[c] # "attest"
      <4>1. /\ step[c] \notin {"idle", "attest"} /\ step'[c] \notin {"idle", "attest"}
            /\ UNCHANGED <<job, observer>>
        BY <2>5, <3>1 DEF WriteSums, WriteFails, Bind, Crash, RefuseUnchanged, Offer, Account, AppendRow,
               AppendFails, ActOn, BuildApproval, Observe, Execute, RefuseStale, IsStored, Goto,
               Shape, Shape0, RowAt, After, Ended
      <4> QED BY <2>1, <4>1
    <3>2. CASE step[c] = "attest"
      <4>1. step'[c] = Ended /\ UNCHANGED <<job, observer>>
        BY <2>5, <3>2 DEF WriteSums, WriteFails, Bind, Crash, RefuseUnchanged, Offer, Account, AppendRow,
               AppendFails, ActOn, BuildApproval, Observe, Execute, RefuseStale, IsStored, Goto,
               Shape, Shape0, RowAt, After, Ended
      <4> QED BY <1>2, <3>2, <4>1 DEF AttestOf, Ended
    <3> QED BY <3>1, <3>2
  <2>6. ~RunEnded(c) /\ ~Perceive(c) /\ ~Refile(c)
    BY <1>2, RunMoves, PerceiveMoves, RefileMoves
  <2> QED BY <2>2, <2>3, <2>4, <2>5, <2>6
          DEF StepOf, OfStore, OfStage, VerifyGui, WriteBundle, BindBundle, Propose
<1> QED BY <1>1, <1>2

LEMMA AttestsStep ==
  ASSUME Shape, Attests, [Next]_vars
  PROVE  Attests'
<1>1. CASE \E c \in Commands : StepOf(c)
  <2> PICK c \in Commands : StepOf(c)
    BY <1>1
  <2>1. AttestOf(c)'
    BY AttestOfCommand DEF Attests
  <2>2. ASSUME NEW d \in Commands \ {c}
        PROVE  AttestOf(d)'
    <3>1. AttestOf(d) /\ SameFor(d)
      BY OthersSame DEF Attests
    <3> QED BY <3>1 DEF AttestOf, SameFor
  <2> QED BY <2>1, <2>2 DEF Attests
<1>2. CASE Tick \/ ScreenMoves \/ Prune \/ UNCHANGED vars
  <2>1. UNCHANGED <<step, job, observer>>
    BY <1>2 DEF Tick, ScreenMoves, Prune, vars
  <2> QED BY <2>1 DEF Attests, AttestOf
<1> QED BY <1>1, <1>2, WhoSteps

----------------------------------------------------------------------------
\* What was announced, and what the rows say

LEMMA WholeBundle ==
  ASSUME Bundles, NEW c \in Commands, Finished(c), ~Collided(c), job[c].dir \in DOMAIN store
  PROVE  /\ Whole(job[c].dir) /\ Files(job[c].dir)[Sums] = SumsOf(c)
         /\ \A f \in NamesOf(c) : f \in DOMAIN Files(job[c].dir) /\ Files(job[c].dir)[f] = Content(c, f)
<1>1. /\ DOMAIN Files(job[c].dir) = NamesOf(c) \cup {Sums}
      /\ \A f \in NamesOf(c) : Files(job[c].dir)[f] = Content(c, f)
      /\ Files(job[c].dir)[Sums] = SumsOf(c)
  BY DEF Bundles, OwnFiles
<1>2. DOMAIN Files(job[c].dir) \ {Sums} = NamesOf(c)
  BY <1>1, FilesFacts
<1>3. SumsOf(c) = [f \in DOMAIN Files(job[c].dir) \ {Sums} |-> Files(job[c].dir)[f]]
  BY <1>1, <1>2 DEF SumsOf
<1> QED BY <1>1, <1>3 DEF Whole, HasSums

\* A stage whose executor was called was, when its runner looked, in the world its
\* approval is bound to (staged_action.py, execute_approved_stage).
THEOREM StagesAreExecutedAsApproved == Spec => []ExecutedAsApproved
<1>1. Init => Shape /\ Stages
  BY StagesInit
<1>2. Shape /\ Stages /\ [Next]_vars => Shape' /\ Stages'
  BY ShapeStep, StagesStep
<1>3. Stages => ExecutedAsApproved
  BY DEF Stages, StageOf, SeenOf, ExecutedAsApproved
<1> QED BY <1>1, <1>2, <1>3, PTL DEF Spec

\* The rows of a stage say what happened to it (staged_harness.py).
THEOREM StageRowsAreTrue == Spec => []RowsTellTheTruth
<1>1. Init => Shape /\ Stages
  BY StagesInit
<1>2. Shape /\ Stages /\ [Next]_vars => Shape' /\ Stages'
  BY ShapeStep, StagesStep
<1>3. ASSUME Stages
      PROVE  RowsTellTheTruth
  <2> SUFFICES ASSUME NEW c \in Commands
               PROVE  /\ Wrote(c, "EXECUTED") => ran[c]
                      /\ Wrote(c, "ABANDONED") \/ Wrote(c, "INCOMPLETE") => ~ran[c]
                      /\ ran[c] => act[c] = "loop" /\ Wrote(c, "SIGNED") /\ ~Moved(c)
    BY DEF RowsTellTheTruth
  <2>1. RowsOf(c) /\ SeenOf(c)
    BY <1>3 DEF Stages, StageOf
  <2> QED BY <2>1 DEF RowsOf, SeenOf
<1> QED BY <1>1, <1>2, <1>3, PTL DEF Spec

\* A bundle that was announced, or whose SHA256SUMS is there in full, verifies and holds
\* every file of its command (evidence.py, _finalize).
THEOREM AnnouncedBundlesVerify == Spec => []ReceiptsVerify
<1>1. Init => Shape /\ Bundles
  BY StagesInit, BundlesInit
<1>2. Shape /\ Bundles /\ [Next]_vars => Shape' /\ Bundles'
  BY ShapeStep, BundlesStep
<1>3. Bundles => ReceiptsVerify
  <2> SUFFICES ASSUME Bundles, NEW c \in Commands,
                      Finished(c), ~Collided(c), job[c].dir \in DOMAIN store
               PROVE  /\ Whole(job[c].dir)
                      /\ \A f \in ToSet(FilesOf(FamilyOf[c])) :
                           f \in DOMAIN Files(job[c].dir) /\ Files(job[c].dir)[f] = Content(c, f)
    BY DEF ReceiptsVerify
  <2> QED BY WholeBundle DEF NamesOf
<1> QED BY <1>1, <1>2, <1>3, PTL DEF Spec

\* The bundle an EVIDENCE row names is in the store and verifies
\* (cmd_merge.py, _bind_bundle_into_ledger).
THEOREM NamedBundlesAreKept == Spec => []EvidenceIsKept
<1>1. Init => Shape /\ Bundles
  BY StagesInit, BundlesInit
<1>2. Shape /\ Bundles /\ [Next]_vars => Shape' /\ Bundles'
  BY ShapeStep, BundlesStep
<1>3. Bundles => EvidenceIsKept
  <2> SUFFICES ASSUME Bundles, NEW i \in DOMAIN ledger,
                      ledger[i].digest # None, ~Collided(ledger[i].by)
               PROVE  /\ Whole(job[ledger[i].by].dir)
                      /\ Files(job[ledger[i].by].dir)[Sums] = ledger[i].digest
    BY DEF EvidenceIsKept
  <2>1. /\ ledger[i].by \in Commands /\ told[ledger[i].by] = "receipt"
        /\ job[ledger[i].by].dir \in DOMAIN store /\ ledger[i].digest = SumsOf(ledger[i].by)
    BY DEF Bundles, RowNames
  <2> QED BY <2>1, WholeBundle DEF Finished
<1> QED BY <1>1, <1>2, <1>3, PTL DEF Spec

\* A bundle with an observer block holds the frame the observer signed
\* (observer.py, verify_attested_frame).
THEOREM SignedFrameIsKept == Spec => []AttestedScreenshot
<1>1. Init => Shape /\ Bundles /\ Attests
  BY StagesInit, BundlesInit, AttestsInit
<1>2. Shape /\ Bundles /\ Attests /\ [Next]_vars => Shape' /\ Bundles' /\ Attests'
  BY ShapeStep, BundlesStep, AttestsStep
<1>3. Bundles /\ Attests => AttestedScreenshot
  <2> SUFFICES ASSUME Bundles, Attests, NEW c \in Commands,
                      told[c] = "receipt", FamilyOf[c] = "gui", job[c].attested,
                      ~Collided(c), job[c].dir \in DOMAIN store
               PROVE  Files(job[c].dir)["screenshot.png"] = [shows |-> observer[c]]
    BY DEF AttestedScreenshot
  <2>1. "screenshot.png" \in NamesOf(c)
    BY FilesFacts
  <2>2. Files(job[c].dir)["screenshot.png"] = Content(c, "screenshot.png")
    BY <2>1, WholeBundle DEF Finished
  <2>3. observer[c] = job[c].frame
    BY DEF Attests, AttestOf
  <2> QED BY <2>2, <2>3 DEF Content
<1> QED BY <1>1, <1>2, <1>3, PTL DEF Spec

=================================================================================
