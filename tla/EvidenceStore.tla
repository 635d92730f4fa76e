----------------------------- MODULE EvidenceStore -----------------------------
(***************************************************************************)
(* The evidence store (evidence.py) and the commands that write to it:       *)
(* `dx run` (cmd_run._emit_evidence), `dx merge` (cmd_merge), `dx verify-gui` *)
(* (cmd_verify, observer.py) and, in module StagedAction, a staged action.   *)
(*                                                                         *)
(* A bundle is a directory <task>/<second>: its files are written one after  *)
(* another, SHA256SUMS last, and the digest of SHA256SUMS stands for all of   *)
(* it.  Two commands of one task in one second share a directory.  A hash is *)
(* what it hashes; redaction, wording and layout are left out.               *)
(***************************************************************************)
EXTENDS Naturals, FiniteSets, SequencesExt

CONSTANTS Commands,   \* the dx processes, each of which writes one bundle
          FamilyOf,   \* the family of each one's bundle
          TaskOf,     \* the task, or the stage, it is filed under
          Regimes,    \* the commands of a history, and what its observer reads
          Frames,     \* what the screen may show
          Payloads,   \* the sequences a stage may propose
          None,       \* not there yet
          Torn,       \* a file whose writing was interrupted
          Faults,     \* the faults a history may have
          MaxClock,   \* bound: seconds
          MaxPeople,  \* bound: prunings and movements of the screen
          MaxFaults   \* bound: faults

Families == {"role", "gui", "merge", "staged"}
AllFaults == {"crash", "disk", "ledger"}
Bindings == {"head", "frame", "payload", "bundle"}
Regime == [cast : SUBSET Commands, fresh : SUBSET Bindings]

ASSUME EvidenceAssumption ==
  /\ FamilyOf \in [Commands -> Families]
  /\ Regimes \subseteq Regime
  /\ None \notin Frames \cup Payloads
  /\ Faults \subseteq AllFaults
  /\ {MaxClock, MaxPeople, MaxFaults} \subseteq Nat

----------------------------------------------------------------------------
\* Data

Seconds == 0..MaxClock
Dirs == {TaskOf[c] : c \in Commands} \X Seconds

ASSUME NoneAssumption == None \notin Dirs

Ended == "ended"

\* The files of a family's bundle in the order they are written.
FilesOf(family) ==
  LET artifacts == [role |-> <<"prompt.txt", "changes.patch">>, gui |-> <<"screenshot.png">>,
                    staged |-> <<"staged_sequence.json">>, merge |-> <<>>]
  IN  artifacts[family] \o <<"manifest.json", "README.md">>
Sums == "SHA256SUMS"

VARIABLES
  clock,   \* the second
  screen,  \* what the screen shows
  store,   \* the directories of the store, each with its files
  ledger,  \* the rows
  step,    \* where each command is
  job,     \* its local variables
  told,    \* what it said of its receipt
  regime,  \* the commands of this history, and what its observer reads
  people, faults,  \* counters
  observer \* the frame PSOperator's observer signed for each command

storeVars == <<clock, screen, store, ledger, step, job, told, regime, people, faults, observer>>

\* What a command carries: its directory, how much it wrote, the hashes it took,
\* the digest it read; the frame it captured, whether an observer attested it, and
\* its verdict; the payload it proposes and the head it read.
NoJob == [dir |-> None, written |-> 0, sums |-> None, digest |-> None,
          frame |-> None, attested |-> FALSE, passed |-> FALSE,
          payload |-> None, head |-> None]

InitStore ==
  /\ clock = 0
  /\ screen \in Frames
  /\ store = <<>>
  /\ ledger = <<>>
  /\ step = [c \in Commands |-> "idle"]
  /\ job = [c \in Commands |-> NoJob]
  /\ told = [c \in Commands |-> "nothing"]
  /\ regime \in Regimes
  /\ people = 0 /\ faults = 0
  /\ observer = [c \in Commands |-> None]

Runs(c, family) == c \in regime.cast /\ FamilyOf[c] = family
Goto(c, next) == step' = [step EXCEPT ![c] = next]
Fails(fault) == fault \in Faults /\ faults < MaxFaults /\ faults' = faults + 1
Row(c, action, digest) == [task |-> TaskOf[c], action |-> action, digest |-> digest, by |-> c]

----------------------------------------------------------------------------
\* What a command does before it has something to attest to

\* dx run: pxx has exited; dx merge: the gate has passed or refused.
RunEnded(c) ==
  /\ \/ Runs(c, "role")
     \/ Runs(c, "merge")
  /\ step[c] = "idle"
  /\ \E passed \in BOOLEAN :
       job' = [job EXCEPT ![c].passed = passed,
                          ![c].head = IF FamilyOf[c] = "merge" THEN Len(ledger) ELSE @]
  /\ Goto(c, "prepare")
  /\ UNCHANGED <<clock, screen, store, ledger, told, regime, people, faults, observer>>

\* dx verify-gui: _obtain_frame, with or without --observer.  The frame is the screen
\* over SSH, or an older one, of a file or a snapshot of PSOperator's.
ObtainFrame(c) ==
  /\ Runs(c, "gui")
  /\ step[c] = "idle"
  /\ \E frame \in Frames : job' = [job EXCEPT ![c].frame = frame]
  /\ Goto(c, "attest") \/ Goto(c, "judge")
  /\ UNCHANGED <<clock, screen, store, ledger, told, regime, people, faults, observer>>

\* verify_attested_frame: the observer's frame is the one that was captured.
Attested(c) == screen = job[c].frame

\* Mutant of Attest: the observer's frame is not compared with the captured one.
AttestAnyFrame(c) ==
  /\ step[c] = "attest"
  /\ observer' = [observer EXCEPT ![c] = screen]
  /\ job' = [job EXCEPT ![c].attested = TRUE]
  /\ Goto(c, "judge")
  /\ UNCHANGED <<clock, screen, store, ledger, told, regime, people, faults>>

\* _observer_provenance: the observer signs what it sees now; no answer, or
\* another frame, ends the command without a bundle.
Attest(c) ==
  /\ step[c] = "attest"
  /\ observer' = [observer EXCEPT ![c] = screen]
  /\ \/ /\ Attested(c)
        /\ job' = [job EXCEPT ![c].attested = TRUE]
        /\ Goto(c, "judge")
     \/ Goto(c, Ended) /\ UNCHANGED job
  /\ UNCHANGED <<clock, screen, store, ledger, told, regime, people, faults>>

\* parse_vlm_reply: the third is a reply that opens with neither word, or none.
Verdicts == {"met", "not_met", "no_verdict"}

\* _verify_with_vlm.
Judge(c) ==
  /\ step[c] = "judge"
  /\ \E verdict \in Verdicts : job' = [job EXCEPT ![c].passed = (verdict = "met")]
  /\ Goto(c, "prepare")
  /\ UNCHANGED <<clock, screen, store, ledger, told, regime, people, faults, observer>>

----------------------------------------------------------------------------
\* Writing a bundle

\* What manifest.json and README.md of each family say.
RoleBundle(c) == [of |-> c, dir |-> job[c].dir, passed |-> job[c].passed]
GuiBundle(c) == [of |-> c, dir |-> job[c].dir, passed |-> job[c].passed,
                 attested |-> job[c].attested]
MergeBundle(c) == [of |-> c, dir |-> job[c].dir, passed |-> job[c].passed, head |-> job[c].head]
StagedBundle(c) == [stage |-> TaskOf[c], dir |-> job[c].dir,
                    frame |-> job[c].frame, head |-> job[c].head]

Manifest(c) ==
  CASE FamilyOf[c] = "role" -> RoleBundle(c)
    [] FamilyOf[c] = "gui" -> GuiBundle(c)
    [] FamilyOf[c] = "merge" -> MergeBundle(c)
    [] FamilyOf[c] = "staged" -> StagedBundle(c)

Content(c, file) ==
  CASE file = "screenshot.png" -> [shows |-> job[c].frame]
    [] file = "staged_sequence.json" -> [proposes |-> job[c].payload]
    [] file \in {"prompt.txt", "changes.patch"} -> [of |-> c]
    [] OTHER -> Manifest(c)

Files(dir) == store[dir]
Put(files, file, content) ==
  [f \in DOMAIN files \cup {file} |-> IF f = file THEN content ELSE files[f]]
WithFile(dir, file, content) == [store EXCEPT ![dir] = Put(@, file, content)]

\* _prepare_out: the directory of this second, there already or not.
PrepareOut(c) ==
  LET dir == <<TaskOf[c], clock>>
  IN  /\ step[c] = "prepare"
      /\ store' = [d \in DOMAIN store \cup {dir} |-> IF d \in DOMAIN store THEN store[d] ELSE <<>>]
      /\ job' = [job EXCEPT ![c].dir = dir]
      /\ Goto(c, "write")
      /\ UNCHANGED <<clock, screen, ledger, told, regime, people, faults, observer>>

\* Mutant of WriteFile: SHA256SUMS is brought up to date with each file.
WriteFileAndSums(c) ==
  LET files == FilesOf(FamilyOf[c])
      file == files[job[c].written + 1]
      now == Put(Files(job[c].dir), file, Content(c, file))
      sums == [f \in DOMAIN now \ {Sums} |-> now[f]]
  IN  /\ step[c] = "write"
      /\ store' = [store EXCEPT ![job[c].dir] = Put(now, Sums, sums)]
      /\ job' = [job EXCEPT ![c].written = @ + 1]
      /\ Goto(c, IF job[c].written + 1 = Len(files) THEN "hash" ELSE "write")
      /\ UNCHANGED <<clock, screen, ledger, told, regime, people, faults, observer>>

\* _finalize: the artifacts, manifest.json and README.md.
WriteFile(c) ==
  LET files == FilesOf(FamilyOf[c])
      file == files[job[c].written + 1]
  IN  /\ step[c] = "write"
      /\ store' = WithFile(job[c].dir, file, Content(c, file))
      /\ job' = [job EXCEPT ![c].written = @ + 1]
      /\ Goto(c, IF job[c].written + 1 = Len(files) THEN "hash" ELSE "write")
      /\ UNCHANGED <<clock, screen, ledger, told, regime, people, faults, observer>>

\* Every file of the directory but SHA256SUMS.
HashFiles(c) ==
  /\ step[c] = "hash"
  /\ job' = [job EXCEPT ![c].sums =
               [f \in DOMAIN Files(job[c].dir) \ {Sums} |-> Files(job[c].dir)[f]]]
  /\ Goto(c, "sums")
  /\ UNCHANGED <<clock, screen, store, ledger, told, regime, people, faults, observer>>

\* The path of the bundle, or a warning.
Tell(c, what) == told' = [told EXCEPT ![c] = what]

\* Who goes on with the digest of its bundle: a gate that passed, and a stage.
NeedsDigest(c) == FamilyOf[c] = "staged" \/ (FamilyOf[c] = "merge" /\ job[c].passed)

\* The bundle is complete, and its path is announced.
WriteSums(c) ==
  /\ step[c] = "sums"
  /\ store' = WithFile(job[c].dir, Sums, job[c].sums)
  /\ Tell(c, "receipt")
  /\ Goto(c, IF NeedsDigest(c) THEN "digest" ELSE Ended)
  /\ UNCHANGED <<clock, screen, ledger, job, regime, people, faults, observer>>

\* What an interrupted step leaves of the file it was writing: nothing, a part, or
\* all of it, and then nobody says so.
Interrupted(c) ==
  CASE step[c] = "write" ->
         {store, WithFile(job[c].dir, FilesOf(FamilyOf[c])[job[c].written + 1], Torn)}
    [] step[c] = "sums" ->
         {store} \cup {WithFile(job[c].dir, Sums, content) : content \in {Torn, job[c].sums}}
    [] OTHER -> {store}

\* OSError: EvidenceError, and no receipt.
WriteFails(c) ==
  /\ step[c] \in {"prepare", "write", "hash", "sums"}
  /\ Fails("disk")
  /\ store' \in Interrupted(c)
  /\ Tell(c, "no receipt")
  /\ Goto(c, Ended)
  /\ UNCHANGED <<clock, screen, ledger, job, regime, people, observer>>

----------------------------------------------------------------------------
\* The digest and the EVIDENCE row

HasSums(dir) == dir \in DOMAIN store /\ Sums \in DOMAIN Files(dir)

\* Mutant of BundleDigest: the digest is also noted in the README.
BundleDigestNoted(c) ==
  /\ step[c] = "digest"
  /\ HasSums(job[c].dir)
  /\ job' = [job EXCEPT ![c].digest = Files(job[c].dir)[Sums]]
  /\ store' = WithFile(job[c].dir, "README.md", [digest |-> Files(job[c].dir)[Sums]])
  /\ Goto(c, IF FamilyOf[c] = "staged" THEN "offer" ELSE "bind")
  /\ UNCHANGED <<clock, screen, ledger, told, regime, people, faults, observer>>

\* bundle_digest: the hash of SHA256SUMS.
BundleDigest(c) ==
  /\ step[c] = "digest"
  /\ HasSums(job[c].dir)
  /\ job' = [job EXCEPT ![c].digest = Files(job[c].dir)[Sums]]
  /\ Goto(c, IF FamilyOf[c] = "staged" THEN "offer" ELSE "bind")
  /\ UNCHANGED <<clock, screen, store, ledger, told, regime, people, faults, observer>>

\* _bind_bundle_into_ledger: a row that is refused is a warning.
Bind(c) ==
  /\ step[c] = "bind"
  /\ \/ ledger' = Append(ledger, Row(c, "EVIDENCE", job[c].digest)) /\ UNCHANGED faults
     \/ Fails("ledger") /\ UNCHANGED ledger
  /\ Goto(c, Ended)
  /\ UNCHANGED <<clock, screen, store, job, told, regime, people, observer>>

----------------------------------------------------------------------------
\* The environment

Crash(c) ==
  /\ c \in regime.cast /\ step[c] \notin {"idle", Ended}
  /\ Fails("crash")
  /\ store' \in Interrupted(c)
  /\ Goto(c, Ended)
  /\ UNCHANGED <<clock, screen, ledger, job, told, regime, people, observer>>

Tick ==
  /\ clock < MaxClock
  /\ clock' = clock + 1
  /\ UNCHANGED <<screen, store, ledger, step, job, told, regime, people, faults, observer>>

ScreenMoves ==
  /\ people < MaxPeople
  /\ screen' \in Frames \ {screen}
  /\ people' = people + 1
  /\ UNCHANGED <<clock, store, ledger, step, job, told, regime, faults, observer>>

InUse(dir) == \E c \in Commands : job[c].dir = dir /\ step[c] # Ended
Named(digest) == \E i \in DOMAIN ledger : ledger[i].digest = digest

\* A person prunes a bundle of a command that has ended, by the rule of
\* docs/evidence-store-hygiene.md: a merge-gate bundle only if no row names it.
Prunable(dir) == ~InUse(dir) /\ (HasSums(dir) => ~Named(Files(dir)[Sums]))
Prune ==
  /\ people < MaxPeople
  /\ \E dir \in DOMAIN store :
       /\ Prunable(dir)
       /\ store' = [d \in DOMAIN store \ {dir} |-> store[d]]
  /\ people' = people + 1
  /\ UNCHANGED <<clock, screen, ledger, step, job, told, regime, faults, observer>>

WriteBundle(c) ==
  PrepareOut(c) \/ WriteFile(c) \/ HashFiles(c) \/ WriteSums(c) \/ WriteFails(c)
VerifyGui(c) == ObtainFrame(c) \/ Attest(c) \/ Judge(c)
BindBundle(c) == BundleDigest(c) \/ Bind(c)

NextStore ==
  \/ \E c \in Commands :
       RunEnded(c) \/ VerifyGui(c) \/ WriteBundle(c) \/ BindBundle(c) \/ Crash(c)
  \/ Tick \/ ScreenMoves \/ Prune

----------------------------------------------------------------------------
\* Properties

\* sha256sum -c SHA256SUMS, and no file of the bundle is left out of it.
Whole(dir) ==
  /\ HasSums(dir)
  /\ Files(dir)[Sums] = [f \in DOMAIN Files(dir) \ {Sums} |-> Files(dir)[f]]

\* Another command filed under the same task in the same second.
Collided(c) == \E d \in Commands \ {c} : TaskOf[d] = TaskOf[c] /\ job[d].dir = job[c].dir

\* A bundle is finished when its path was announced, or when SHA256SUMS is there in
\* full: the command may have died before it said so.
Finished(c) ==
  \/ told[c] = "receipt"
  \/ HasSums(job[c].dir) /\ Files(job[c].dir)[Sums] # Torn

\* Half a bundle never passes for one: whatever is announced, or has a SHA256SUMS that
\* is not cut short, holds every file of its command and verifies until a person
\* prunes it, through crashes and failing writes; except when another command of the
\* task began its bundle in the same second.
ReceiptsVerify ==
  \A c \in Commands :
    job[c].dir \in DOMAIN store /\ ~Collided(c) /\ Finished(c) =>
      /\ Whole(job[c].dir)
      /\ \A f \in ToSet(FilesOf(FamilyOf[c])) :
           f \in DOMAIN Files(job[c].dir) /\ Files(job[c].dir)[f] = Content(c, f)

\* An EVIDENCE row names a bundle that is in the store and verifies, through
\* crashes, failed writes and prunings, with the same exception.
EvidenceIsKept ==
  \A i \in DOMAIN ledger :
    LET row == ledger[i]
        dir == job[row.by].dir
    IN  row.digest # None /\ ~Collided(row.by) => Whole(dir) /\ Files(dir)[Sums] = row.digest

\* A GUI bundle with an observer block holds the very frame the observer signed.
AttestedScreenshot ==
  \A c \in Commands :
    /\ told[c] = "receipt" /\ FamilyOf[c] = "gui" /\ job[c].attested
    /\ ~Collided(c) /\ job[c].dir \in DOMAIN store
    => Files(job[c].dir)["screenshot.png"] = [shows |-> observer[c]]

=============================================================================
