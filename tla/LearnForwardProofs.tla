-------------------------- MODULE LearnForwardProofs --------------------------
(***************************************************************************)
(* Proofs about LearnForward, for every set of recommendations, any number   *)
(* of commands and all bounds: the run has one recommendation and two        *)
(* commands, and it is the file name that all share that makes the others    *)
(* interesting.                                                            *)
(*                                                                         *)
(* The argument: nothing but a command that has pxx's cycle.lock puts an     *)
(* entry of dx's into pxx's inbox.  So for the command that has the store's   *)
(* lock, an entry that it saw can only have gone since, and one that it did   *)
(* not see is not there when it acts, unless a command without the lock put   *)
(* it there.                                                               *)
(***************************************************************************)
EXTENDS LearnForward, TLAPS

----------------------------------------------------------------------------
\* The inductive invariant

Reconciling == {"withdraw", "unlink", "unlinked", "settle"}
Forwarding == {"create", "open", "write", "opened", "outcome"}
OnAKey == Reconciling \cup Forwarding
Locked == {"unlink", "unlinked", "open", "write", "opened"}

\* The forward record of k names an entry of k's.
Names(k) == fwd[k].entry \in OurEntry /\ fwd[k].entry.key = k
RecordsName == \A k \in Keys : fwd[k] # NoForward => Names(k)

\* A command, whether or not it still has mutation_lock: it comes to the store only
\* with it, and while it creates or unlinks the file it has the inbox to itself, but
\* for triage.
Alone(c) ==
  /\ cmd[c].pc \in StoreSteps => mutex = c
  /\ ~Sql /\ cmd[c].pc # "idle" => mutex = c
  /\ cmd[c].pc \in OnAKey => cmd[c].hand \in OurEntry
  /\ cmd[c].pc \in {"reconcile"} \cup Reconciling => \A k \in cmd[c].todo : Names(k)
  /\ cmd[c].pc \in Locked => cycleLock = c /\ cmd[c].tried = "yes"
  /\ cmd[c].pc \in {"unlink", "opened"} => pending \in {cmd[c].hand, NoEntry}
  /\ cmd[c].pc \in {"unlinked", "open"} => pending = NoEntry
  /\ cmd[c].pc = "write" => pending \in {Torn, NoEntry}

\* The command that has mutation_lock: the record is of the entry in hand, an entry
\* that it did not find at its last look is not there now, but for a stray, and what
\* it is about to send is still proposed.
InLock(c) ==
  mutex = c =>
    /\ cmd[c].pc \in OnAKey => fwd[cmd[c].hand.key].entry = cmd[c].hand
    /\ cmd[c].pc \in {"withdraw", "settle"} /\ pending = cmd[c].hand /\ ~stray
         => cmd[c].view = "pending-ours"
    /\ cmd[c].pc \in Forwarding => /\ status[cmd[c].hand.key] = "PROPOSED"
                                   /\ fwd[cmd[c].hand.key].state = "INTENT"
    /\ cmd[c].pc = "create" => pending \notin OurEntry \/ stray
    /\ cmd[c].pc = "outcome" /\ pending \in OurEntry /\ ~stray =>
         pending = cmd[c].hand /\ cmd[c].tried = "yes" /\ cmd[c].view = "pending-ours"

Each(c) == Alone(c) /\ InLock(c)

Inv ==
  /\ TypeOK /\ RecordsName /\ PendingIsTracked /\ (~Sql => ~stray)
  /\ \A c \in Commands : Each(c)

----------------------------------------------------------------------------
\* What a look at the inbox tells

LEMMA LookTells ==
  ASSUME NEW entry
  PROVE  /\ Inspect(entry) \in Views
         /\ Inspect(entry) = "pending-ours" <=> pending = entry
         /\ Inspect(entry) = "absent" => pending = NoEntry
  BY DEF Inspect, Views

LEMMA OursAreApart == Theirs \notin OurEntry /\ NoEntry \notin OurEntry /\ Torn \notin OurEntry
  BY EntryAssumption

LEMMA ForwardTypes ==
  /\ NoForward \in Forward /\ NoForward.entry = NoEntry
  /\ \A f \in Forward : /\ f.state \in States /\ f.entry \in Readable /\ f.view \in Views
                        /\ f.retry \in BOOLEAN /\ f.divergence \in {"none", "qualified", "rejected"}
  BY DEF NoForward, Forward, States, Readable, Views

LEMMA FingerprintNames ==
  ASSUME TypeOK, NEW k \in Keys
  PROVE  /\ Fingerprint(k) \in OurEntry /\ Fingerprint(k).key = k
         /\ Fingerprint(k) \in Readable
  BY DEF TypeOK, Fingerprint, OurEntry, Readable

LEMMA DivergenceTypes ==
  ASSUME NEW st, NEW v
  PROVE  Divergence(st, v) \in {"none", "qualified", "rejected"}
  BY DEF Divergence

\* Settling keeps the entry, and an entry that was seen stays recorded as there.
LEMMA SettledIs ==
  ASSUME TypeOK, NEW c \in Commands, cmd[c].hand \in OurEntry
  PROVE  /\ Settled(c) \in Forward
         /\ Settled(c).entry = fwd[cmd[c].hand.key].entry
         /\ cmd[c].view = "pending-ours" /\ fwd[cmd[c].hand.key].state \in {"INTENT", "WRITTEN"}
              => Settled(c).state = "WRITTEN"
<1> DEFINE me == cmd[c]
           k == me.hand.key
           seen == IF me.tried = "no" THEN me.view ELSE "pending-ours"
           f == Recovered(fwd[k], seen)
           g == CASE me.tried = "yes" /\ me.view = "absent" ->
                       [f EXCEPT !.state = "WITHDRAWN", !.retry = status[k] = "STALE"]
                  [] me.tried = "busy" -> [f EXCEPT !.retry = FALSE]
                  [] OTHER             -> f
<1>1. fwd[k] \in Forward /\ me.view \in Views /\ k \in Keys
  BY DEF TypeOK, Command, OurEntry
<1>2. /\ f \in Forward /\ f.entry = fwd[k].entry
      /\ seen = "pending-ours" /\ fwd[k].state \in {"INTENT", "WRITTEN"} => f.state = "WRITTEN"
  <2> HIDE DEF seen, k
  <2>1. \A st \in States, retry \in BOOLEAN :
          LET h == [fwd[k] EXCEPT !.state = st, !.retry = retry]
          IN  h \in Forward /\ h.entry = fwd[k].entry /\ h.state = st
    BY <1>1 DEF Forward
  <2>2. {"WRITTEN", "INTERRUPTED", "NOT_WRITTEN", "SUPERSEDED"} \subseteq States
    BY DEF States
  <2> QED BY <1>1, <2>1, <2>2 DEF Recovered
<1>3. /\ g \in Forward /\ g.entry = f.entry
      /\ me.view = "pending-ours" => g.state = f.state
  <2> HIDE DEF f
  <2> QED BY <1>2 DEF Forward, States
<1>4. /\ [g EXCEPT !.view = me.view, !.divergence = Divergence(status[k], me.view)] \in Forward
      /\ [g EXCEPT !.view = me.view, !.divergence = Divergence(status[k], me.view)].entry = g.entry
      /\ [g EXCEPT !.view = me.view, !.divergence = Divergence(status[k], me.view)].state = g.state
  <2> HIDE DEF g
  <2> QED BY <1>1, <1>3, DivergenceTypes DEF Forward
<1> QED BY <1>2, <1>3, <1>4 DEF Settled

LEMMA OutcomeIs ==
  ASSUME NEW f \in Forward, NEW seen \in Views
  PROVE  /\ Outcome(f, seen) \in Forward
         /\ Outcome(f, seen).entry = f.entry
         /\ Outcome(f, seen).view = seen
         /\ seen = "pending-ours" => Outcome(f, seen).state = "WRITTEN"
<1> DEFINE again == seen \in {"pending-other", "absent"}
           written == IF seen \in {"pending-ours", "qualified", "rejected"}
                      THEN "WRITTEN" ELSE "NOT_WRITTEN"
<1>1. again \in BOOLEAN /\ written \in States
  BY DEF States
<1>2. [f EXCEPT !.view = seen, !.state = written, !.retry = again] \in Forward
  <2> HIDE DEF again, written
  <2> QED BY <1>1 DEF Forward
<1> QED BY <1>2 DEF Outcome, Forward

----------------------------------------------------------------------------
\* What the steps of a command do to the commands

\* A step of c leaves the other commands where they are.
LEMMA Moves ==
  ASSUME TypeOK, NEW c \in Commands, NEW me, cmd' = [cmd EXCEPT ![c] = me]
  PROVE  /\ cmd'[c] = me
         /\ \A other \in Commands \ {c} : cmd'[other] = cmd[other]
         /\ me \in Command => cmd' \in [Commands -> Command]
  BY DEF TypeOK

LEMMA Changes ==
  ASSUME NEW me \in Command, NEW step \in {"idle"} \cup StoreSteps \cup FileSteps
  PROVE  /\ Idle \in Command
         /\ [me EXCEPT !.pc = step] \in Command
         /\ \A t \in {"no", "yes", "busy"} : [me EXCEPT !.tried = t, !.pc = step] \in Command
         /\ \A v \in Views :
              /\ [me EXCEPT !.view = v, !.pc = step] \in Command
              /\ [[me EXCEPT !.tried = "yes", !.view = v] EXCEPT !.pc = step] \in Command
         /\ \A k : [me EXCEPT !.todo = @ \ {k}] \in Command
<1>1. Idle \in Command
  BY DEF Command, Idle, Views, Readable
<1>2. [me EXCEPT !.pc = step] \in Command
  BY DEF Command
<1>3. \A t \in {"no", "yes", "busy"} : [me EXCEPT !.tried = t, !.pc = step] \in Command
  BY DEF Command
<1>4. \A v \in Views :
        /\ [me EXCEPT !.view = v, !.pc = step] \in Command
        /\ [[me EXCEPT !.tried = "yes", !.view = v] EXCEPT !.pc = step] \in Command
  <2> TAKE v \in Views
  <2> HIDE DEF Views
  <2> QED BY DEF Command
<1>5. \A k : [me EXCEPT !.todo = @ \ {k}] \in Command
  BY DEF Command
<1> QED BY <1>1, <1>2, <1>3, <1>4, <1>5

\* A step that leaves command c where it is, and what it may do around it.
Around(c) ==
  /\ cmd'[c] = cmd[c]
  /\ mutex = c <=> mutex' = c
  /\ cycleLock = c => cycleLock' = c
  /\ \/ pending' = pending /\ stray' = stray
     \/ pending' = NoEntry
     \/ cycleLock # c /\ pending' \notin OurEntry
     \/ cycleLock # c /\ (mutex = c => stray')
  /\ mutex = c => UNCHANGED <<fwd, status>>
  /\ \A k \in Keys : Names(k) => Names(k)'

LEMMA AroundKeeps ==
  ASSUME TypeOK, NEW c \in Commands, Each(c), Around(c)
  PROVE  Each(c)'
<1>1. cmd[c] \in Command
  BY DEF TypeOK
<1>2. Alone(c)'
  BY <1>1 DEF Each, Alone, Around, Command, OnAKey, Reconciling, Forwarding, Locked
<1>3. InLock(c)'
  BY <1>1, OursAreApart DEF Each, Alone, InLock, Around, OnAKey, Reconciling, Forwarding, Locked
<1> QED BY <1>2, <1>3 DEF Each

----------------------------------------------------------------------------
\* Three kinds of steps

\* A step of c that touches neither the inbox nor the records.
LEMMA QuietStep ==
  ASSUME Inv, NEW c \in Commands, NEW me \in Command, cmd' = [cmd EXCEPT ![c] = me],
         UNCHANGED <<fwd, pending, decided, triage, stray>>,
         status' \in [Keys -> Statuses], version' \in [Keys -> 1..MaxVersion],
         status' = status \/ mutex \in {c, NoCommand},
         mutex' = mutex \/ {mutex, mutex'} = {c, NoCommand},
         cycleLock' = cycleLock \/ {cycleLock, cycleLock'} = {c, "free"},
         Each(c)'
  PROVE  Inv'
<1>1. TypeOK'
  BY Moves DEF Inv, TypeOK
<1>2. ASSUME NEW other \in Commands \ {c}
      PROVE  Each(other)'
  <2>1. Around(other)
    BY Moves, ForwardAssumption DEF Inv, Around, Names
  <2> QED BY <2>1, AroundKeeps DEF Inv
<1> QED BY <1>1, <1>2 DEF Inv, RecordsName, Names, PendingIsTracked

\* A step of c under mutation_lock that writes a forward record.
LEMMA RecordStep ==
  ASSUME Inv, NEW c \in Commands, NEW me \in Command, cmd' = [cmd EXCEPT ![c] = me],
         mutex = c, UNCHANGED <<mutex, status, version, inboxVars, stray>>,
         fwd' \in [Keys -> Forward],
         \A k \in Keys : Names(k) => Names(k)',
         RecordsName', PendingIsTracked', Each(c)'
  PROVE  Inv'
<1>1. TypeOK'
  BY Moves DEF Inv, TypeOK, inboxVars
<1>2. ASSUME NEW other \in Commands \ {c}
      PROVE  Each(other)'
  <2>1. Around(other)
    BY Moves DEF Inv, Around, inboxVars
  <2> QED BY <2>1, AroundKeeps DEF Inv
<1> QED BY <1>1, <1>2 DEF Inv

\* A step of c under cycle.lock that writes the pending file.
LEMMA FileStep ==
  ASSUME Inv, NEW c \in Commands, NEW step \in StoreSteps \cup FileSteps, Goto(c, step),
         cycleLock = c, UNCHANGED <<mutex, queueVars, decided, cycleLock, triage>>,
         pending' \in File, stray' \in BOOLEAN,
         \/ pending' = pending /\ stray' = stray
         \/ pending' = NoEntry
         \/ pending' \notin OurEntry
         \/ stray' = (mutex # c),
         ~Sql => ~stray',
         PendingIsTracked', Each(c)'
  PROVE  Inv'
<1> DEFINE me == [cmd[c] EXCEPT !.pc = step]
<1>1. cmd' = [cmd EXCEPT ![c] = me] /\ me \in Command
  BY Changes DEF Inv, TypeOK, Goto
<1>2. TypeOK'
  BY <1>1, Moves DEF Inv, TypeOK, queueVars
<1>3. ASSUME NEW other \in Commands \ {c}
      PROVE  Each(other)'
  <2>1. Around(other)
    BY <1>1, Moves DEF Inv, Around, Names, queueVars
  <2> QED BY <2>1, AroundKeeps DEF Inv
<1> QED BY <1>2, <1>3 DEF Inv, RecordsName, Names, queueVars

\* A step of somebody else's: of pxx's, or a commit while nobody has the lock.
LEMMA OthersStep ==
  ASSUME Inv, UNCHANGED <<fwd, dxVars>>, TypeOK',
         status' = status \/ mutex = NoCommand,
         \A c \in Commands : cycleLock = c => cycleLock' = c,
         \/ UNCHANGED <<pending, stray>>
         \/ pending' = NoEntry /\ ~stray'
         \/ pending' = Theirs /\ ~stray' /\ cycleLock = "cycle"
  PROVE  Inv'
<1>1. ASSUME NEW c \in Commands
      PROVE  Each(c)'
  <2>1. Around(c)
    BY ForwardAssumption, OursAreApart DEF Inv, Around, Names, dxVars
  <2> QED BY <2>1, AroundKeeps DEF Inv
<1> QED BY <1>1, OursAreApart DEF Inv, RecordsName, Names, PendingIsTracked
----------------------------------------------------------------------------
\* Steps that touch neither the inbox nor the records

LEMMA BeginStep ==
  ASSUME Inv, NEW c \in Commands, NEW keys \in SUBSET Forwarded, NEW plan \in {"learn", "stop"},
         Begin(c, keys, plan), UNCHANGED <<version, fwd, inboxVars, stray>>,
         status' \in [Keys -> Statuses]
  PROVE  Inv'
<1> DEFINE me == [Idle EXCEPT !.pc = "reconcile", !.todo = keys, !.plan = plan]
<1>1. me \in Command /\ me.pc = "reconcile" /\ me.todo = keys
  <2>1. keys \in SUBSET Keys
    BY DEF Forwarded
  <2> QED BY <2>1 DEF Command, Idle, Views, Readable, StoreSteps
<1>2. cmd' = [cmd EXCEPT ![c] = me] /\ mutex = NoCommand /\ mutex' = c
  BY DEF Begin
<1> HIDE DEF me
<1>3. Each(c)'
  <2>1. cmd'[c] = me
    BY <1>1, <1>2, Moves DEF Inv
  <2> QED BY <1>1, <1>2, <2>1
          DEF Inv, RecordsName, Names, Forwarded, Each, Alone, InLock, OnAKey, Reconciling,
              Forwarding, Locked, StoreSteps
<1> QED BY <1>1, <1>2, <1>3, QuietStep DEF Inv, TypeOK, inboxVars

\* A command that ends, or dies.
LEMMA StopStep ==
  ASSUME Inv, NEW c \in Commands, Stop(c),
         UNCHANGED <<queueVars, pending, decided, triage, stray>>,
         cycleLock' = cycleLock \/ {cycleLock, cycleLock'} = {c, "free"}
  PROVE  Inv'
<1>1. Idle \in Command /\ Idle.pc = "idle" /\ cmd' = [cmd EXCEPT ![c] = Idle]
  BY DEF Stop, Command, Idle, Views, Readable
<1>2. Each(c)'
  <2>1. cmd'[c] = Idle
    BY <1>1, Moves DEF Inv
  <2> QED BY <1>1, <2>1
          DEF Each, Alone, InLock, OnAKey, Reconciling, Forwarding, Locked, StoreSteps
<1> QED BY <1>1, <1>2, QuietStep DEF Inv, TypeOK, Stop, queueVars

LEMMA DecideStep ==
  ASSUME Inv, Decisions
  PROVE  Inv'
<1> PICK k \in Keys : Accept(k) \/ Reject(k) \/ Retire(k)
  BY DEF Decisions
<1>1. /\ mutex = NoCommand /\ UNCHANGED <<version, fwd, inboxVars, counts, stray>>
      /\ status' \in [Keys -> Statuses]
      /\ \/ UNCHANGED dxVars
         \/ k \in Forwarded /\ \E c \in Commands : Begin(c, {k}, "stop")
  BY DEF Inv, TypeOK, Accept, Reject, Retire, Decide, SettleForward, Statuses
<1>2. CASE UNCHANGED dxVars
  BY <1>1, <1>2, OthersStep DEF Inv, TypeOK, inboxVars, dxVars
<1>3. CASE k \in Forwarded /\ \E c \in Commands : Begin(c, {k}, "stop")
  BY <1>1, <1>3, BeginStep
<1> QED BY <1>1, <1>2, <1>3

LEMMA LearnTypes ==
  ASSUME TypeOK, LearnSome \/ UNCHANGED <<status, version, counts>>
  PROVE  status' \in [Keys -> Statuses] /\ version' \in [Keys -> 1..MaxVersion]
<1>1. ASSUME NEW k \in Keys, NEW fresh, NEW grown
      PROVE  Raised(k, fresh, grown) \in Statuses
  BY DEF TypeOK, Raised, Statuses
<1> QED BY <1>1, ForwardAssumption DEF TypeOK, LearnSome

LEMMA LearnStep ==
  ASSUME Inv, NEW c \in Commands, Learn(c)
  PROVE  Inv'
<1> DEFINE me == [Idle EXCEPT !.pc = "reconcile", !.todo = Forwarded, !.plan = "forward"]
<1>1. me \in Command /\ me.pc = "reconcile" /\ me.todo = Forwarded
  BY DEF Forwarded, Command, Idle, Views, Readable, StoreSteps
<1>2. /\ cmd' = [cmd EXCEPT ![c] = me] /\ mutex = c
      /\ UNCHANGED <<mutex, fwd, inboxVars, stray>>
  BY DEF Learn, Holds
<1>3. status' \in [Keys -> Statuses] /\ version' \in [Keys -> 1..MaxVersion]
  BY LearnTypes DEF Inv, Learn
<1> HIDE DEF me
<1>4. Each(c)'
  <2>1. cmd'[c] = me
    BY <1>1, <1>2, Moves DEF Inv
  <2> QED BY <1>1, <1>2, <2>1
          DEF Inv, RecordsName, Names, Forwarded, Each, Alone, InLock, OnAKey, Reconciling,
              Forwarding, Locked, StoreSteps
<1> QED BY <1>1, <1>2, <1>3, <1>4, QuietStep DEF inboxVars

LEMMA BlindStep ==
  ASSUME Inv, BlindPass
  PROVE  Inv'
<1>1. TypeOK'
  BY LearnTypes DEF Inv, TypeOK, BlindPass, inboxVars, dxVars
<1> QED BY <1>1, OthersStep DEF BlindPass, inboxVars

LEMMA ReconciledStep ==
  ASSUME Inv, NEW c \in Commands, Reconciled(c)
  PROVE  Inv'
<1>1. UNCHANGED <<queueVars, inboxVars, stray>> /\ Holds(c, "reconcile")
  BY DEF Reconciled
<1>2. CASE Stop(c)
  BY <1>1, <1>2, StopStep DEF inboxVars
<1>3. CASE ~Stop(c)
  <2> DEFINE me == [Idle EXCEPT !.pc = "forward", !.todo = Keys]
  <2>1. me \in Command /\ me.pc = "forward"
    BY DEF Command, Idle, Views, Readable, StoreSteps
  <2>2. cmd' = [cmd EXCEPT ![c] = me] /\ mutex = c /\ UNCHANGED mutex
    BY <1>3 DEF Reconciled, Holds
  <2> HIDE DEF me
  <2>3. Each(c)'
    <3>1. cmd'[c] = me
      BY <2>1, <2>2, Moves DEF Inv
    <3> QED BY <2>1, <2>2, <3>1
            DEF Each, Alone, InLock, OnAKey, Reconciling, Forwarding, Locked, StoreSteps
  <2> QED BY <1>1, <2>1, <2>2, <2>3, QuietStep DEF Inv, TypeOK, queueVars, inboxVars
<1> QED BY <1>2, <1>3

LEMMA EndStep ==
  ASSUME Inv, NEW c \in Commands, EndPass(c) \/ Crash(c)
  PROVE  Inv'
<1>1. /\ Stop(c) /\ UNCHANGED <<queueVars, pending, decided, triage, stray>>
      /\ cycleLock' = cycleLock \/ {cycleLock, cycleLock'} = {c, "free"}
  BY DEF EndPass, Crash, inboxVars
<1> QED BY <1>1, StopStep

\* The command goes on as it was, but for what it would have done on the store.
LEMMA LoseStep ==
  ASSUME Inv, NEW c \in Commands, LoseSession(c)
  PROVE  Inv'
<1>1. /\ cmd[c] \in Command /\ cmd' = [cmd EXCEPT ![c] = cmd[c]] /\ cmd'[c] = cmd[c]
      /\ cmd[c].pc \in FileSteps /\ mutex = c /\ mutex' = NoCommand /\ Sql
      /\ UNCHANGED <<queueVars, inboxVars, stray>>
  BY DEF Inv, TypeOK, LoseSession
<1>2. Each(c)'
  BY <1>1, ForwardAssumption
  DEF Inv, Each, Alone, InLock, Names, FileSteps, StoreSteps, queueVars, inboxVars
<1> QED BY <1>1, <1>2, QuietStep DEF Inv, TypeOK, queueVars, inboxVars

LEMMA NotEligibleStep ==
  ASSUME Inv, NEW c \in Commands, NEW k \in Keys, NotEligible(c, k)
  PROVE  Inv'
<1> DEFINE me == [cmd[c] EXCEPT !.todo = @ \ {k}]
<1>1. /\ me \in Command /\ me.pc = "forward" /\ cmd' = [cmd EXCEPT ![c] = me] /\ mutex = c
      /\ UNCHANGED <<mutex, queueVars, inboxVars, stray>>
  BY DEF Inv, TypeOK, NotEligible, Holds, Command
<1> HIDE DEF me
<1>2. Each(c)'
  <2>1. cmd'[c] = me
    BY <1>1, Moves DEF Inv
  <2> QED BY <1>1, <2>1
          DEF Each, Alone, InLock, OnAKey, Reconciling, Forwarding, Locked, StoreSteps
<1> QED BY <1>1, <1>2, QuietStep DEF Inv, TypeOK, queueVars, inboxVars

LEMMA LookStep ==
  ASSUME Inv, NEW c \in Commands, NEW k \in Keys, LookAt(c, k)
  PROVE  Inv'
<1> DEFINE seen == Inspect(fwd[k].entry)
           step == IF status[k] \in Withdrawable /\ seen = "pending-ours" THEN "withdraw" ELSE "settle"
           me == [cmd[c] EXCEPT !.hand = fwd[k].entry, !.todo = @ \ {k}, !.view = seen, !.pc = step]
<1>1. /\ cmd' = [cmd EXCEPT ![c] = me] /\ cmd[c].pc = "reconcile" /\ mutex = c
      /\ UNCHANGED <<mutex, queueVars, inboxVars, stray>>
  BY DEF LookAt, Holds
<1>2. /\ Names(k) /\ \A other \in cmd[c].todo : Names(other)
      /\ fwd[k].entry \in OurEntry /\ fwd[k].entry.key = k
      /\ cmd[c] \in Command
  BY <1>1 DEF Inv, TypeOK, Each, Alone, LookAt, Names
<1>3. step \in {"withdraw", "settle"} /\ (step = "withdraw" => seen = "pending-ours")
  OBVIOUS
<1>4. seen \in Views /\ (seen = "pending-ours" <=> pending = fwd[k].entry)
  BY LookTells
<1> HIDE DEF seen, step
<1>5. /\ me \in Command /\ me.pc = step /\ me.hand = fwd[k].entry /\ me.view = seen
      /\ me.todo \subseteq cmd[c].todo
  BY <1>2, <1>3, <1>4 DEF Command, Readable, StoreSteps, FileSteps
<1> HIDE DEF me
<1>6. Each(c)'
  <2>1. cmd'[c] = me
    BY <1>1, Moves DEF Inv
  <2>2. \A other : Names(other)' = Names(other)
    BY <1>1 DEF Names, queueVars
  <2>3. Alone(c)'
    BY <1>1, <1>2, <1>3, <1>5, <2>1, <2>2
    DEF Alone, OnAKey, Reconciling, Forwarding, Locked
  <2>4. InLock(c)'
    BY <1>1, <1>2, <1>3, <1>4, <1>5, <2>1
    DEF InLock, OnAKey, Reconciling, Forwarding, queueVars, inboxVars
  <2> QED BY <2>3, <2>4 DEF Each
<1> QED BY <1>1, <1>5, <1>6, QuietStep DEF Inv, TypeOK, queueVars, inboxVars

\* A step on the inbox after which the command may have to see the store again.
LEMMA GoOnStep ==
  ASSUME Inv, NEW c \in Commands, NEW me \in Command, GoOn(c, me),
         UNCHANGED <<mutex, queueVars, pending, decided, triage, stray>>,
         cycleLock' = cycleLock \/ {cycleLock, cycleLock'} = {c, "free"},
         cmd'[c] = me /\ (me.pc \in StoreSteps => mutex = c) => Each(c)'
  PROVE  Inv'
<1> DEFINE now == IF mutex # c /\ me.pc \in StoreSteps THEN Idle ELSE me
<1>1. cmd' = [cmd EXCEPT ![c] = now] /\ now \in Command
  BY DEF GoOn, Command, Idle, Views, Readable
<1>2. cmd'[c] = now
  BY <1>1, Moves DEF Inv
<1>3. Each(c)'
  <2>1. CASE now = me /\ (me.pc \in StoreSteps => mutex = c)
    BY <1>2, <2>1
  <2>2. CASE now = Idle
    BY <1>2, <2>2
    DEF Idle, Each, Alone, InLock, OnAKey, Reconciling, Forwarding, Locked, StoreSteps
  <2> QED BY <2>1, <2>2
<1> QED BY <1>1, <1>3, QuietStep DEF Inv, TypeOK, queueVars

LEMMA WithdrawStep ==
  ASSUME Inv, NEW c \in Commands, Withdraw(c)
  PROVE  Inv'
<1> DEFINE seen == Inspect(cmd[c].hand)
           looked == [cmd[c] EXCEPT !.tried = "yes", !.view = seen]
<1>1. /\ cmd[c].pc = "withdraw" /\ cmd[c] \in Command /\ Each(c)
      /\ UNCHANGED <<mutex, queueVars, pending, decided, triage, stray>>
  BY DEF Withdraw, At, Inv, TypeOK
<1>2. \A k : Names(k)' = Names(k)
  BY <1>1 DEF Names, queueVars
<1>3. seen \in Views /\ (seen = "pending-ours" <=> pending = cmd[c].hand)
  BY LookTells
<1>4. ASSUME NEW me \in Command, GoOn(c, me), me.hand = cmd[c].hand, me.todo = cmd[c].todo,
             \/ me.pc = "settle" /\ cycleLock' = cycleLock
                /\ (me.view = cmd[c].view \/ pending # cmd[c].hand)
             \/ me.pc = "unlink" /\ me.tried = "yes" /\ cycleLock = "free" /\ cycleLock' = c
                /\ pending = cmd[c].hand
      PROVE  Inv'
  <2>1. ASSUME cmd'[c] = me, me.pc \in StoreSteps => mutex = c
        PROVE  Each(c)'
    <3>1. Alone(c)'
      BY <1>1, <1>2, <1>4, <2>1
      DEF Each, Alone, OnAKey, Reconciling, Forwarding, Locked, queueVars
    <3>2. InLock(c)'
      BY <1>1, <1>4, <2>1
      DEF Each, Alone, InLock, OnAKey, Reconciling, Forwarding, queueVars
    <3> QED BY <3>1, <3>2 DEF Each
  <2>2. cycleLock' = cycleLock \/ {cycleLock, cycleLock'} = {c, "free"}
    BY <1>4
  <2> QED BY <1>1, <1>4, <2>1, <2>2, GoOnStep
<1>5. CASE /\ cycleLock # "free" /\ UNCHANGED cycleLock
           /\ GoOn(c, [cmd[c] EXCEPT !.tried = "busy", !.pc = "settle"])
  <2> DEFINE me == [cmd[c] EXCEPT !.tried = "busy", !.pc = "settle"]
  <2>1. /\ me \in Command /\ me.hand = cmd[c].hand /\ me.todo = cmd[c].todo
        /\ me.pc = "settle" /\ me.view = cmd[c].view
    BY <1>1 DEF Command, StoreSteps
  <2> HIDE DEF me
  <2> QED BY <1>4, <1>5, <2>1 DEF me
<1>6. CASE /\ cycleLock = "free" /\ seen = "pending-ours" /\ cycleLock' = c
           /\ GoOn(c, [looked EXCEPT !.pc = "unlink"])
  <2> DEFINE me == [looked EXCEPT !.pc = "unlink"]
  <2>1. /\ me \in Command /\ me.hand = cmd[c].hand /\ me.todo = cmd[c].todo
        /\ me.pc = "unlink" /\ me.tried = "yes"
    <3> HIDE DEF seen
    <3> QED BY <1>1, <1>3 DEF Command, FileSteps
  <2> HIDE DEF me
  <2> QED BY <1>3, <1>4, <1>6, <2>1 DEF me
<1>7. CASE /\ cycleLock = "free" /\ seen # "pending-ours" /\ UNCHANGED cycleLock
           /\ GoOn(c, [looked EXCEPT !.pc = "settle"])
  <2> DEFINE me == [looked EXCEPT !.pc = "settle"]
  <2>1. /\ me \in Command /\ me.hand = cmd[c].hand /\ me.todo = cmd[c].todo
        /\ me.pc = "settle"
    <3> HIDE DEF seen
    <3> QED BY <1>1, <1>3 DEF Command, StoreSteps
  <2> HIDE DEF me
  <2> QED BY <1>3, <1>4, <1>7, <2>1 DEF me
<1> QED BY <1>5, <1>6, <1>7 DEF Withdraw, UnderCycleLock

LEMMA CreateStep ==
  ASSUME Inv, NEW c \in Commands, Create(c)
  PROVE  Inv'
<1> DEFINE seen == Inspect(cmd[c].hand)
           looked == [cmd[c] EXCEPT !.tried = "yes", !.view = seen]
<1>1. /\ cmd[c].pc = "create" /\ cmd[c] \in Command /\ Each(c)
      /\ UNCHANGED <<mutex, queueVars, pending, decided, triage, stray>>
  BY DEF Create, At, Inv, TypeOK
<1>2. seen \in Views /\ (seen = "absent" => pending = NoEntry)
  BY LookTells
<1>3. ASSUME NEW me \in Command, GoOn(c, me), me.hand = cmd[c].hand,
             \/ me.pc = "outcome" /\ cycleLock' = cycleLock
             \/ me.pc = "open" /\ me.tried = "yes" /\ cycleLock = "free" /\ cycleLock' = c
                /\ pending = NoEntry
      PROVE  Inv'
  <2>1. ASSUME cmd'[c] = me, me.pc \in StoreSteps => mutex = c
        PROVE  Each(c)'
    <3>1. Alone(c)'
      BY <1>1, <1>3, <2>1
      DEF Each, Alone, OnAKey, Reconciling, Forwarding, Locked
    <3>2. InLock(c)'
      BY <1>1, <1>3, <2>1
      DEF Each, Alone, InLock, OnAKey, Reconciling, Forwarding, queueVars
    <3> QED BY <3>1, <3>2 DEF Each
  <2>2. cycleLock' = cycleLock \/ {cycleLock, cycleLock'} = {c, "free"}
    BY <1>3
  <2> QED BY <1>1, <1>3, <2>1, <2>2, GoOnStep
<1>4. CASE /\ cycleLock # "free" /\ UNCHANGED cycleLock
           /\ GoOn(c, [cmd[c] EXCEPT !.tried = "busy", !.pc = "outcome"])
  <2> DEFINE me == [cmd[c] EXCEPT !.tried = "busy", !.pc = "outcome"]
  <2>1. me \in Command /\ me.hand = cmd[c].hand /\ me.pc = "outcome"
    BY <1>1 DEF Command, StoreSteps
  <2> HIDE DEF me
  <2> QED BY <1>3, <1>4, <2>1 DEF me
<1>5. CASE /\ cycleLock = "free" /\ seen = "absent" /\ cycleLock' = c
           /\ GoOn(c, [looked EXCEPT !.pc = "open"])
  <2> DEFINE me == [looked EXCEPT !.pc = "open"]
  <2>1. me \in Command /\ me.hand = cmd[c].hand /\ me.pc = "open" /\ me.tried = "yes"
    <3> HIDE DEF seen
    <3> QED BY <1>1, <1>2 DEF Command, FileSteps
  <2> HIDE DEF me
  <2> QED BY <1>2, <1>3, <1>5, <2>1 DEF me
<1>6. CASE /\ cycleLock = "free" /\ seen # "absent" /\ UNCHANGED cycleLock
           /\ GoOn(c, [looked EXCEPT !.pc = "outcome"])
  <2> DEFINE me == [looked EXCEPT !.pc = "outcome"]
  <2>1. me \in Command /\ me.hand = cmd[c].hand /\ me.pc = "outcome"
    <3> HIDE DEF seen
    <3> QED BY <1>1, <1>2 DEF Command, StoreSteps
  <2> HIDE DEF me
  <2> QED BY <1>3, <1>6, <2>1 DEF me
<1> QED BY <1>4, <1>5, <1>6 DEF Create, UnderCycleLock

LEMMA LookAgainStep ==
  ASSUME Inv, NEW c \in Commands, LookAfterUnlink(c) \/ LookAfterOpen(c)
  PROVE  Inv'
<1> PICK next \in {"settle", "outcome"} :
         /\ \/ next = "settle" /\ LookAgain(c, "unlinked", "settle")
            \/ next = "outcome" /\ LookAgain(c, "opened", "outcome")
  BY DEF LookAfterUnlink, LookAfterOpen
<1> DEFINE seen == Inspect(cmd[c].hand)
           me == [cmd[c] EXCEPT !.view = seen, !.pc = next]
<1>1. /\ cmd[c] \in Command /\ Each(c) /\ GoOn(c, me)
      /\ cmd[c].pc = IF next = "settle" THEN "unlinked" ELSE "opened"
      /\ UNCHANGED <<mutex, queueVars, pending, decided, triage, stray>>
      /\ cycleLock' = "free"
  BY DEF LookAgain, At, Inv, TypeOK
<1>2. seen \in Views /\ (seen = "pending-ours" <=> pending = cmd[c].hand)
  BY LookTells
<1> HIDE DEF seen
<1>3. /\ me \in Command /\ me.hand = cmd[c].hand /\ me.todo = cmd[c].todo /\ me.pc = next
      /\ me.tried = cmd[c].tried /\ me.view = seen
  BY <1>1, <1>2 DEF Command, StoreSteps
<1> HIDE DEF me
<1>4. cycleLock = c
  BY <1>1 DEF Each, Alone, Locked
<1>5. \A k : Names(k)' = Names(k)
  BY <1>1 DEF Names, queueVars
<1>6. ASSUME cmd'[c] = me, me.pc \in StoreSteps => mutex = c
      PROVE  Each(c)'
  <2>1. Alone(c)'
    BY <1>1, <1>3, <1>5, <1>6
    DEF Each, Alone, OnAKey, Reconciling, Forwarding, Locked, queueVars
  <2>2. InLock(c)'
    BY <1>1, <1>2, <1>3, <1>6, OursAreApart
    DEF Each, Alone, InLock, OnAKey, Reconciling, Forwarding, Locked, queueVars
  <2> QED BY <2>1, <2>2 DEF Each
<1> QED BY <1>1, <1>3, <1>4, <1>6, GoOnStep

----------------------------------------------------------------------------
\* Steps on the pending file

LEMMA UnlinkStep ==
  ASSUME Inv, NEW c \in Commands, Unlink(c)
  PROVE  Inv'
<1>1. /\ cmd[c].pc = "unlink" /\ Each(c) /\ Goto(c, "unlinked")
      /\ pending' = NoEntry /\ stray' = FALSE
      /\ UNCHANGED <<mutex, queueVars, decided, cycleLock, triage>>
  BY DEF Unlink, At, Inv
<1>2. /\ cmd'[c] = [cmd[c] EXCEPT !.pc = "unlinked"] /\ cmd[c] \in Command
      /\ \A k : Names(k)' = Names(k)
  BY <1>1 DEF Goto, Inv, TypeOK, Names, queueVars
<1>3. Each(c)'
  <2>1. Alone(c)'
    BY <1>1, <1>2 DEF Command, Each, Alone, OnAKey, Reconciling, Forwarding, Locked, StoreSteps
  <2>2. InLock(c)'
    BY <1>1, <1>2
    DEF Command, Each, InLock, OnAKey, Reconciling, Forwarding, queueVars
  <2> QED BY <2>1, <2>2 DEF Each
<1>4. /\ cycleLock = c /\ pending' \in File /\ stray' \in BOOLEAN /\ PendingIsTracked'
      /\ "unlinked" \in StoreSteps \cup FileSteps
  BY <1>1, OursAreApart
  DEF Each, Alone, Locked, File, Readable, PendingIsTracked, FileSteps
<1> QED BY <1>1, <1>3, <1>4, FileStep

LEMMA OpenStep ==
  ASSUME Inv, NEW c \in Commands, Open(c)
  PROVE  Inv'
<1>1. cmd[c].pc = "open" /\ Each(c) /\ pending = NoEntry
  BY DEF Open, At, Inv, Each, Alone
<1>2. /\ Goto(c, "write") /\ pending' = Torn /\ stray' = stray
      /\ UNCHANGED <<mutex, queueVars, decided, cycleLock, triage>>
  BY <1>1 DEF Open
<1>3. cmd'[c] = [cmd[c] EXCEPT !.pc = "write"] /\ cmd[c] \in Command
  BY <1>2 DEF Goto, Inv, TypeOK
<1>4. Each(c)'
  <2>1. Alone(c)'
    BY <1>1, <1>2, <1>3
    DEF Command, Each, Alone, OnAKey, Reconciling, Forwarding, Locked, StoreSteps
  <2>2. InLock(c)'
    BY <1>1, <1>2, <1>3
    DEF Command, Each, InLock, OnAKey, Reconciling, Forwarding, queueVars
  <2> QED BY <2>1, <2>2 DEF Each
<1>5. /\ cycleLock = c /\ pending' \in File /\ stray' \in BOOLEAN /\ PendingIsTracked'
      /\ pending' \notin OurEntry /\ (~Sql => ~stray')
      /\ "write" \in StoreSteps \cup FileSteps
  BY <1>1, <1>2, OursAreApart
  DEF Inv, TypeOK, Each, Alone, Locked, File, PendingIsTracked, FileSteps
<1> QED BY <1>2, <1>4, <1>5, FileStep

\* The record of what a command writes under mutation_lock says that it is on its way.
LEMMA WriteStep ==
  ASSUME Inv, NEW c \in Commands, Write(c)
  PROVE  Inv'
<1>1. /\ cmd[c].pc = "write" /\ Each(c) /\ cmd[c].hand \in OurEntry /\ cycleLock = c
      /\ pending \in {Torn, NoEntry} /\ (~Sql => mutex = c)
  BY DEF Write, At, Inv, Each, Alone, OnAKey, Forwarding, Locked
<1>2. /\ Goto(c, "opened") /\ UNCHANGED <<mutex, queueVars, decided, cycleLock, triage>>
      /\ \/ pending' = cmd[c].hand /\ stray' = (mutex # c)
         \/ pending = NoEntry /\ UNCHANGED <<pending, stray>>
  BY <1>1 DEF Write
<1>3. cmd'[c] = [cmd[c] EXCEPT !.pc = "opened"] /\ cmd[c] \in Command
  BY <1>2 DEF Goto, Inv, TypeOK
<1>4. Each(c)'
  <2>1. Alone(c)'
    BY <1>1, <1>2, <1>3
    DEF Command, Each, Alone, OnAKey, Reconciling, Forwarding, Locked, StoreSteps
  <2>2. InLock(c)'
    BY <1>1, <1>2, <1>3
    DEF Command, Each, InLock, OnAKey, Reconciling, Forwarding, queueVars
  <2> QED BY <2>1, <2>2 DEF Each
<1>5. PendingIsTracked'
  BY <1>1, <1>2, OursAreApart
  DEF PendingIsTracked, Each, InLock, OnAKey, Forwarding, queueVars
<1>6. pending' \in File /\ "opened" \in StoreSteps \cup FileSteps
  BY <1>1, <1>2 DEF Inv, TypeOK, File, Readable, FileSteps
<1>7. stray' \in BOOLEAN /\ (~Sql => ~stray')
  <2>1. CASE stray' = (mutex # c)
    BY <1>1, <2>1, Zenon
  <2>2. CASE UNCHANGED stray
    BY <2>2 DEF Inv, TypeOK
  <2> QED BY <1>2, <2>1, <2>2
<1> QED BY <1>1, <1>2, <1>4, <1>5, <1>6, <1>7, FileStep

----------------------------------------------------------------------------
\* Steps on a forward record

LEMMA SettleStep ==
  ASSUME Inv, NEW c \in Commands, Settle(c)
  PROVE  Inv'
<1> DEFINE k == cmd[c].hand.key
           me == [Idle EXCEPT !.pc = "reconcile", !.todo = cmd[c].todo, !.plan = cmd[c].plan]
<1>1. /\ cmd[c].pc = "settle" /\ mutex = c /\ cmd[c] \in Command /\ Each(c)
      /\ fwd' = [fwd EXCEPT ![k] = Settled(c)] /\ cmd' = [cmd EXCEPT ![c] = me]
      /\ UNCHANGED <<mutex, status, version, inboxVars, stray>>
      /\ fwd \in [Keys -> Forward]
  BY DEF Settle, Holds, Return, Inv, TypeOK
<1>2. /\ cmd[c].hand \in OurEntry /\ k \in Keys /\ fwd[k].entry = cmd[c].hand
      /\ \A other \in cmd[c].todo : Names(other)
      /\ pending = cmd[c].hand /\ ~stray => cmd[c].view = "pending-ours"
  BY <1>1 DEF Each, Alone, InLock, OnAKey, Reconciling, OurEntry
<1>3. /\ me \in Command /\ me.pc = "reconcile" /\ me.todo = cmd[c].todo
  BY <1>1 DEF Command, Idle, Views, Readable, StoreSteps
<1> HIDE DEF me
<1>4. /\ Settled(c) \in Forward /\ Settled(c).entry = cmd[c].hand
      /\ cmd[c].view = "pending-ours" /\ fwd[k].state \in {"INTENT", "WRITTEN"}
           => Settled(c).state = "WRITTEN"
  BY <1>2, SettledIs DEF Inv
<1>5. /\ fwd' \in [Keys -> Forward]
      /\ \A other \in Keys : Names(other) => Names(other)'
      /\ RecordsName'
  BY <1>1, <1>2, <1>4 DEF Inv, RecordsName, Names
<1>6. PendingIsTracked'
  BY <1>1, <1>2, <1>4 DEF Inv, PendingIsTracked, OurEntry, inboxVars
<1>7. Each(c)'
  <2>1. cmd'[c] = me
    BY <1>1, Moves DEF Inv
  <2>2. cmd[c].todo \subseteq Keys
    BY <1>1 DEF Command
  <2> QED BY <1>1, <1>2, <1>3, <1>5, <2>1, <2>2
          DEF Each, Alone, InLock, OnAKey, Reconciling, Forwarding, Locked, StoreSteps
<1> QED BY <1>1, <1>3, <1>5, <1>6, <1>7, RecordStep

\* The record of what may be pending is never replaced here.
LEMMA BlockedStep ==
  ASSUME Inv, NEW c \in Commands, NEW k \in Keys, Blocked(c, k)
  PROVE  Inv'
<1> DEFINE named == [NoForward EXCEPT !.entry = Fingerprint(k)]
           f == Outcome(named, Inspect(Fingerprint(k)))
           me == [cmd[c] EXCEPT !.todo = @ \ {k}]
<1>1. /\ cmd[c].pc = "forward" /\ mutex = c /\ Eligible(k) /\ cmd[c] \in Command
      /\ cmd' = [cmd EXCEPT ![c] = me]
      /\ UNCHANGED <<mutex, status, version, inboxVars, stray>>
      /\ fwd \in [Keys -> Forward]
  BY DEF Blocked, Holds, Inv, TypeOK
<1>2. me \in Command /\ me.pc = "forward"
  BY <1>1 DEF Command
<1> HIDE DEF me
<1>3. named \in Forward /\ named.entry = Fingerprint(k)
  BY FingerprintNames DEF Inv, NoForward, Forward, States, Views
<1>4. f \in Forward /\ f.entry = Fingerprint(k)
  <2> HIDE DEF named
  <2> QED BY <1>3, LookTells, OutcomeIs
<1>5. \/ fwd' = fwd
      \/ fwd' = [fwd EXCEPT ![k] = f]
      \/ fwd' = [fwd EXCEPT ![k] = [f EXCEPT !.state = "NOT_WRITTEN"]]
  BY DEF Blocked
<1> HIDE DEF f
<1>6. /\ fwd' \in [Keys -> Forward]
      /\ \A other \in Keys \ {k} : fwd'[other] = fwd[other]
      /\ fwd'[k] = fwd[k] \/ fwd'[k].entry = Fingerprint(k)
  BY <1>1, <1>4, <1>5 DEF Forward, States
<1>7. /\ \A other \in Keys : Names(other) => Names(other)'
      /\ RecordsName'
  BY <1>1, <1>6, FingerprintNames DEF Inv, RecordsName, Names
<1>8. PendingIsTracked'
  BY <1>1, <1>6 DEF Inv, PendingIsTracked, Eligible, OurEntry, inboxVars
<1>9. Each(c)'
  <2>1. cmd'[c] = me
    BY <1>1, Moves DEF Inv
  <2> QED BY <1>1, <1>2, <2>1
          DEF Each, Alone, InLock, OnAKey, Reconciling, Forwarding, Locked, StoreSteps
<1> QED BY <1>1, <1>2, <1>6, <1>7, <1>8, <1>9, RecordStep

LEMMA IntendStep ==
  ASSUME Inv, NEW c \in Commands, NEW k \in Keys, Intend(c, k)
  PROVE  Inv'
<1> DEFINE f == [NoForward EXCEPT !.state = "INTENT", !.entry = Fingerprint(k)]
           me == [cmd[c] EXCEPT !.hand = Fingerprint(k), !.todo = @ \ {k}, !.pc = "create"]
<1>1. /\ cmd[c].pc = "forward" /\ mutex = c /\ status[k] = "PROPOSED" /\ cmd[c] \in Command
      /\ fwd' = [fwd EXCEPT ![k] = f] /\ cmd' = [cmd EXCEPT ![c] = me]
      /\ UNCHANGED <<mutex, status, version, inboxVars, stray>>
      /\ fwd \in [Keys -> Forward]
      /\ pending = NoEntry
  BY LookTells DEF Intend, Eligible, Holds, Inv, TypeOK
<1>2. /\ Fingerprint(k) \in OurEntry /\ Fingerprint(k).key = k /\ Fingerprint(k) \in Readable
  BY FingerprintNames DEF Inv
<1>3. f \in Forward /\ f.entry = Fingerprint(k) /\ f.state = "INTENT"
  BY <1>2 DEF NoForward, Forward, States, Views
<1>4. me \in Command /\ me.pc = "create" /\ me.hand = Fingerprint(k)
  BY <1>1, <1>2 DEF Command, FileSteps
<1> HIDE DEF f, me
<1>5. /\ fwd' \in [Keys -> Forward] /\ fwd'[k] = f
      /\ \A other \in Keys : Names(other) => Names(other)'
      /\ RecordsName'
  BY <1>1, <1>2, <1>3 DEF Inv, RecordsName, Names
<1>6. PendingIsTracked'
  BY <1>1, OursAreApart DEF PendingIsTracked, inboxVars
<1>7. Each(c)'
  <2>1. cmd'[c] = me
    BY <1>1, Moves DEF Inv
  <2> QED BY <1>1, <1>2, <1>3, <1>4, <1>5, <2>1, OursAreApart
          DEF Each, Alone, InLock, OnAKey, Reconciling, Forwarding, Locked, StoreSteps, inboxVars
<1> QED BY <1>1, <1>4, <1>5, <1>6, <1>7, RecordStep

LEMMA OutcomeStep ==
  ASSUME Inv, NEW c \in Commands, RecordOutcome(c)
  PROVE  Inv'
<1> DEFINE k == cmd[c].hand.key
           f == IF cmd[c].tried = "busy"
                THEN [fwd[k] EXCEPT !.state = "NOT_WRITTEN", !.retry = TRUE]
                ELSE Outcome(fwd[k], cmd[c].view)
           me == [Idle EXCEPT !.pc = "forward", !.todo = cmd[c].todo, !.plan = cmd[c].plan]
<1>1. /\ cmd[c].pc = "outcome" /\ mutex = c /\ cmd[c] \in Command /\ Each(c)
      /\ fwd' = [fwd EXCEPT ![k] = f] /\ cmd' = [cmd EXCEPT ![c] = me]
      /\ UNCHANGED <<mutex, status, version, inboxVars, stray>>
      /\ fwd \in [Keys -> Forward]
  BY DEF RecordOutcome, Holds, Return, Inv, TypeOK
<1>2. /\ cmd[c].hand \in OurEntry /\ k \in Keys /\ fwd[k].entry = cmd[c].hand
      /\ pending \in OurEntry /\ ~stray =>
           pending = cmd[c].hand /\ cmd[c].tried = "yes" /\ cmd[c].view = "pending-ours"
  BY <1>1 DEF Each, Alone, InLock, OnAKey, Forwarding, OurEntry
<1>3. me \in Command /\ me.pc = "forward"
  BY <1>1 DEF Command, Idle, Views, Readable, StoreSteps
<1>4. /\ f \in Forward /\ f.entry = cmd[c].hand
      /\ cmd[c].tried = "yes" /\ cmd[c].view = "pending-ours" => f.state = "WRITTEN"
  <2>1. fwd[k] \in Forward /\ cmd[c].view \in Views
    BY <1>1, <1>2 DEF Command
  <2>2. /\ [fwd[k] EXCEPT !.state = "NOT_WRITTEN", !.retry = TRUE] \in Forward
        /\ [fwd[k] EXCEPT !.state = "NOT_WRITTEN", !.retry = TRUE].entry = fwd[k].entry
    BY <2>1 DEF Forward, States
  <2> QED BY <1>2, <2>1, <2>2, OutcomeIs
<1> HIDE DEF f, me
<1>5. /\ fwd' \in [Keys -> Forward]
      /\ \A other \in Keys : Names(other) => Names(other)'
      /\ RecordsName'
  BY <1>1, <1>2, <1>4 DEF Inv, RecordsName, Names
<1>6. PendingIsTracked'
  BY <1>1, <1>2, <1>4 DEF PendingIsTracked, inboxVars
<1>7. Each(c)'
  <2>1. cmd'[c] = me
    BY <1>1, Moves DEF Inv
  <2> QED BY <1>1, <1>3, <2>1
          DEF Each, Alone, InLock, OnAKey, Reconciling, Forwarding, Locked, StoreSteps
<1> QED BY <1>1, <1>3, <1>5, <1>6, <1>7, RecordStep

----------------------------------------------------------------------------
\* The invariant

\* pxx takes entries of dx's away and brings none; its cycle, which could replace
\* one, waits while dx creates or unlinks.
LEMMA PxxStep ==
  ASSUME Inv, Pxx
  PROVE  Inv'
<1>1. UNCHANGED <<queueVars, dxVars>>
  BY DEF Pxx, CycleBegin, CycleWrite, CycleEnd, TriageRead, TriageWrite, TriageUnlink, Reopen
<1>2. /\ \/ UNCHANGED <<pending, stray>>
         \/ pending' = NoEntry /\ ~stray'
         \/ pending' = Theirs /\ ~stray' /\ cycleLock = "cycle"
      /\ cycleLock' = cycleLock \/ cycleLock \in {"free", "cycle"}
      /\ cycleLock' \in {"free", "cycle"} \cup Commands
      /\ stray' \in BOOLEAN /\ pending' \in File
  BY DEF Inv, TypeOK, File, Readable, Pxx, CycleBegin, CycleWrite, CycleEnd, TriageRead,
         TriageWrite, TriageUnlink, Reopen
<1>3. decided' \in [Boxes -> Readable]
  BY DEF Inv, TypeOK, Readable, Boxes, NoTriage, Pxx, CycleBegin, CycleWrite, CycleEnd,
         TriageRead, TriageWrite, TriageUnlink, Reopen
<1>4. triage' \in [entry : Readable, box : Boxes \cup {"none"}, wrote : BOOLEAN]
  <2>1. CASE \E box \in Boxes : TriageRead(box)
    BY <2>1 DEF Inv, TypeOK, TriageRead, File
  <2>2. CASE TriageWrite
    BY <2>2 DEF Inv, TypeOK, TriageWrite
  <2>3. CASE TriageUnlink
    <3>1. NoEntry \in Readable /\ "none" \in Boxes \cup {"none"}
      BY DEF Readable
    <3> QED BY <2>3, <3>1 DEF TriageUnlink, NoTriage
  <2>4. CASE UNCHANGED triage
    BY <2>4 DEF Inv, TypeOK
  <2> QED BY <2>1, <2>2, <2>3, <2>4 DEF Pxx, CycleBegin, CycleWrite, CycleEnd, Reopen
<1>5. TypeOK'
  BY <1>1, <1>2, <1>3, <1>4 DEF Inv, TypeOK, queueVars, dxVars
<1> QED BY <1>1, <1>2, <1>5, ForwardAssumption, OthersStep DEF queueVars

LEMMA InvInit == Init => Inv
<1> SUFFICES ASSUME Init
             PROVE  Inv
  OBVIOUS
<1>1. Idle \in Command /\ Idle.pc = "idle"
  BY DEF Command, Idle, Views, Readable
<1>2. TypeOK
  <2>1. NoEntry \in Readable /\ NoEntry \in File /\ "NONE" \in Statuses
    BY DEF Readable, File, Statuses
  <2>2. version \in [Keys -> 1..MaxVersion]
    BY ForwardAssumption DEF Init
  <2>3. triage \in [entry : Readable, box : Boxes \cup {"none"}, wrote : BOOLEAN]
    BY <2>1 DEF Init, NoTriage
  <2> QED BY <1>1, <2>1, <2>2, <2>3, ForwardTypes DEF Init, TypeOK
<1>3. ASSUME NEW c \in Commands
      PROVE  Each(c)
  BY <1>1, ForwardAssumption
  DEF Init, Each, Alone, InLock, OnAKey, Reconciling, Forwarding, Locked, StoreSteps
<1> QED BY <1>2, <1>3, OursAreApart DEF Init, Inv, RecordsName, PendingIsTracked

LEMMA WorkStep ==
  ASSUME Inv, NEW c \in Commands, Work(c)
  PROVE  Inv'
BY LearnStep, LookStep, ReconciledStep, WithdrawStep, UnlinkStep, LookAgainStep, SettleStep,
   NotEligibleStep, BlockedStep, IntendStep, CreateStep, OpenStep, WriteStep, OutcomeStep,
   EndStep
DEF Work

LEMMA InvStep == Inv /\ [Next]_vars => Inv'
<1> SUFFICES ASSUME Inv, [Next]_vars
             PROVE  Inv'
  OBVIOUS
<1>1. CASE UNCHANGED vars
  BY <1>1
  DEF Inv, TypeOK, RecordsName, Names, PendingIsTracked, Each, Alone, InLock, vars, queueVars,
      inboxVars, dxVars
<1>2. ASSUME NEW c \in Commands, BeginPass(c)
      PROVE  Inv'
  <2>1. Forwarded \in SUBSET Forwarded /\ status' \in [Keys -> Statuses]
    BY <1>2 DEF BeginPass, queueVars, Inv, TypeOK
  <2> QED BY <1>2, <2>1, BeginStep DEF BeginPass, queueVars
<1>3. CASE Next
  BY <1>2, <1>3, BlindStep, DecideStep, WorkStep, EndStep, LoseStep, PxxStep DEF Next
<1> QED BY <1>1, <1>3

LEMMA InvHolds == Spec => []Inv
  BY InvInit, InvStep, PTL DEF Spec

----------------------------------------------------------------------------
\* The theorems

\* Who changes the pending file.
LEMMA WhoWrites ==
  ASSUME Inv, [Next]_vars
  PROVE  \/ pending' = pending
         \/ pending' = NoEntry /\ cmd' = cmd
         \/ \E c \in Commands : Unlink(c)
         \/ pending' \in {Torn, Theirs}
         \/ \E c \in Commands : Write(c)
<1>1. CASE UNCHANGED vars
  BY <1>1 DEF vars, inboxVars
<1>2. CASE Pxx
  BY <1>2 DEF Pxx, CycleBegin, CycleWrite, CycleEnd, TriageRead, TriageWrite, TriageUnlink,
              Reopen, dxVars
<1>3. CASE BlindPass \/ Decisions
  BY <1>3 DEF BlindPass, Decisions, Accept, Reject, Retire, Decide, inboxVars
<1>4. ASSUME NEW c \in Commands, BeginPass(c) \/ Crash(c) \/ LoseSession(c)
      PROVE  pending' = pending
  BY <1>4 DEF BeginPass, Crash, LoseSession, inboxVars
<1>5. ASSUME NEW c \in Commands, Work(c)
      PROVE  pending' = pending \/ Unlink(c) \/ pending' = Torn \/ Write(c)
  <2>1. CASE Open(c)
    BY <2>1 DEF Open
  <2>2. CASE Withdraw(c) \/ Create(c) \/ LookAfterUnlink(c) \/ LookAfterOpen(c)
    BY <2>2 DEF Withdraw, Create, LookAfterUnlink, LookAfterOpen, LookAgain
  <2>3. CASE Learn(c) \/ (\E k \in Keys : LookAt(c, k)) \/ Reconciled(c) \/ Settle(c)
    BY <2>3 DEF Learn, LookAt, Reconciled, Settle, inboxVars
  <2>4. CASE \/ \E k \in Keys : NotEligible(c, k) \/ Blocked(c, k) \/ Intend(c, k)
             \/ RecordOutcome(c) \/ EndPass(c)
    BY <2>4 DEF NotEligible, Blocked, Intend, RecordOutcome, EndPass, inboxVars
  <2> QED BY <1>5, <2>1, <2>2, <2>3, <2>4 DEF Work
<1> QED BY <1>1, <1>2, <1>3, <1>4, <1>5 DEF Next

\* What a step puts into pxx's inbox of dx's is what a command has in hand, in the
\* lock or as a stray.
LEMMA WhatIsWritten ==
  ASSUME Inv, [Next]_vars, NEW e \in OurEntry, pending' = e, pending # e
  PROVE  \E c \in Commands :
           /\ cmd[c].pc = "write" /\ cmd[c].hand = e /\ Each(c)
           /\ stray' = (mutex # c)
<1> PICK c \in Commands : Write(c)
  BY WhoWrites, OursAreApart DEF Unlink
<1> QED BY DEF Write, At, Inv

\* Every reachable state of the queue, of pxx's inbox and of the dx commands has the
\* types declared for it (learn_forward.py, learn_bridge.py).
THEOREM ForwardTypesHold == Spec => []TypeOK
<1>1. Inv => TypeOK
  BY DEF Inv
<1> QED BY <1>1, InvHolds, PTL

\* A command that has the lock puts only a recommendation that is PROPOSED at that
\* moment into pxx's inbox, however many commands and decisions are under way,
\* whatever dies and whoever loses his session (forward_proposals, write_pending,
\* mutation_lock).
THEOREM ProposedAloneIsSent == Spec => OnlyProposedIsSent
<1>1. ASSUME Inv, [Next]_vars
      PROVE  [\A e \in OurEntry :
                pending' = e /\ pending # e /\ ~stray' => status[e.key] = "PROPOSED"]_vars
  <2>1. ASSUME NEW e \in OurEntry, pending' = e, pending # e, ~stray'
        PROVE  status[e.key] = "PROPOSED"
    <3>1. PICK c \in Commands :
            /\ cmd[c].pc = "write" /\ cmd[c].hand = e /\ Each(c)
            /\ stray' = (mutex # c)
      BY <1>1, <2>1, WhatIsWritten
    <3>2. mutex = c
      BY <2>1, <3>1, Zenon
    <3> QED BY <3>1, <3>2 DEF Each, InLock, Forwarding
  <2> QED BY <2>1
<1> QED BY <1>1, InvHolds, PTL DEF Spec, OnlyProposedIsSent

\* With the file store, whose lock is the process's, the sentence of
\* learn_forward.py:3-4 holds without any exception: whatever a dx command puts into
\* pxx's inbox is of a recommendation that is PROPOSED at that moment.
THEOREM FileLockSendsProposed ==
  ~Sql => (Spec => [][\A e \in OurEntry :
                        pending' = e /\ pending # e => status[e.key] = "PROPOSED"]_vars)
<1> SUFFICES ASSUME ~Sql
             PROVE  Spec => [][\A e \in OurEntry :
                        pending' = e /\ pending # e => status[e.key] = "PROPOSED"]_vars
  OBVIOUS
<1>1. ASSUME Inv, [Next]_vars
      PROVE  [\A e \in OurEntry :
                pending' = e /\ pending # e => status[e.key] = "PROPOSED"]_vars
  <2>1. ASSUME NEW e \in OurEntry, pending' = e, pending # e
        PROVE  status[e.key] = "PROPOSED"
    <3>1. PICK c \in Commands : cmd[c].pc = "write" /\ cmd[c].hand = e /\ Each(c)
      BY <1>1, <2>1, WhatIsWritten
    <3> QED BY <3>1 DEF Each, Alone, InLock, Forwarding
  <2> QED BY <2>1
<1> QED BY <1>1, InvHolds, PTL DEF Spec

\* dx unlinks nothing in pxx's inbox but an entry of the recommendation it withdraws,
\* though pxx's triage takes no lock and all entries share one name
\* (withdraw_if_ours).
THEOREM OwnAloneIsRemoved == Spec => RemovesOnlyItsOwn
<1>1. ASSUME Inv, [Next]_vars
      PROVE  [\A c \in Commands :
                cmd'[c] # cmd[c] /\ pending' = NoEntry /\ pending # NoEntry =>
                  pending \in OurEntry /\ pending.key = cmd[c].hand.key]_vars
  <2>1. ASSUME NEW c \in Commands, cmd'[c] # cmd[c], pending' = NoEntry, pending # NoEntry
        PROVE  pending \in OurEntry /\ pending.key = cmd[c].hand.key
    <3>1. ASSUME NEW d \in Commands, Write(d)
          PROVE  FALSE
      <4>1. cmd[d].pc = "write" /\ Each(d)
        BY <1>1, <3>1 DEF Write, At, Inv
      <4>2. cmd[d].hand \in OurEntry
        BY <4>1 DEF Each, Alone, OnAKey, Forwarding
      <4> QED BY <2>1, <3>1, <4>2, OursAreApart DEF Write
    <3>2. PICK d \in Commands : Unlink(d)
      BY <1>1, <2>1, <3>1, WhoWrites, ForwardAssumption
    <3>3. d = c
      BY <1>1, <2>1, <3>2 DEF Unlink, Goto, Inv, TypeOK
    <3>4. Each(c) /\ cmd[c].pc = "unlink"
      BY <1>1, <3>2, <3>3 DEF Unlink, At, Inv
    <3>5. pending = cmd[c].hand /\ cmd[c].hand \in OurEntry
      BY <2>1, <3>4 DEF Each, Alone, OnAKey, Reconciling
    <3> QED BY <3>5
  <2> QED BY <2>1
<1> QED BY <1>1, InvHolds, PTL DEF Spec, RemovesOnlyItsOwn

\* A whole entry of dx's that waits in pxx's inbox, and that no command without its
\* session left there, is the one its forward record names, as intended or written,
\* after any death between any two writes, that of open("x") and that of the text
\* among them (reconcile_forwards, forward_proposals, write_pending).
THEOREM PendingStaysTracked == Spec => []PendingIsTracked
<1>1. Inv => PendingIsTracked
  BY DEF Inv
<1> QED BY <1>1, InvHolds, PTL
===============================================================================
