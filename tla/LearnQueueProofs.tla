-------------------------- MODULE LearnQueueProofs --------------------------
(***************************************************************************)
(* Proofs about LearnQueue: its type invariant, and what makes a decision    *)
(* stand, for all recommendations, adoptions, findings, passes and bounds.   *)
(***************************************************************************)
EXTENDS LearnQueue, FiniteSetTheorems, WellFoundedInduction, TLAPS

\* What a pass makes of a record, for any weight of the evidence: a record like the
\* one before, or a new revision; an accepted one is left alone, and no other becomes
\* accepted; a refused one only comes back on grown evidence.
Weighed(rec) == rec.then = 0 \/ rec.then = rec.weight
Refusals == {"REJECTED", "RETIRED"}

LEMMA ReconciledRec ==
  ASSUME NEW rec \in Rec, NEW weight \in Nat
  PROVE  /\ Reconciled(rec, weight) \in Rec
         /\ Reconciled(rec, weight) = rec \/ Reconciled(rec, weight).rev = rec.rev + 1
         /\ Weighed(rec) => Weighed(Reconciled(rec, weight))
         /\ rec.status = "ACCEPTED" => Reconciled(rec, weight) = rec
         /\ Reconciled(rec, weight).status = "ACCEPTED" => rec.status = "ACCEPTED"
         /\ Reconciled(rec, weight) # rec /\ Reconciled(rec, weight).status = "PROPOSED"
              => weight # 0
         /\ rec.status \in Refusals /\ Weighed(rec) =>
              \/ Reconciled(rec, weight) = rec
              \/ /\ Reconciled(rec, weight).status = "PROPOSED"
                 /\ Reconciled(rec, weight).weight >= Growth * rec.weight
  <1>1. CASE LeftAlone(rec, weight)
    BY <1>1 DEF Reconciled
  <1>2. CASE ~LeftAlone(rec, weight) /\ weight = 0
    <2>1. rec.status = "PROPOSED"
      BY <1>2 DEF LeftAlone
    <2>2. Reconciled(rec, weight) =
            [status |-> "STALE", weight |-> rec.weight, then |-> rec.then, rev |-> rec.rev + 1]
      BY <1>2 DEF Reconciled
    <2>3. /\ Reconciled(rec, weight) \in Rec
          /\ Reconciled(rec, weight).status = "STALE"
          /\ Reconciled(rec, weight).weight = rec.weight
          /\ Reconciled(rec, weight).then = rec.then
          /\ Reconciled(rec, weight).rev = rec.rev + 1
      BY <2>2 DEF Rec, Statuses
    <2> QED
      BY <1>2, <2>1, <2>3 DEF Weighed, Refusals
  <1>3. CASE ~LeftAlone(rec, weight) /\ weight # 0
    <2>1. rec.status # "ACCEPTED" /\ ~StaysDown(rec, weight)
      BY <1>3 DEF LeftAlone
    <2>2. Reconciled(rec, weight) =
            [status |-> "PROPOSED", weight |-> weight, then |-> 0, rev |-> rec.rev + 1]
      BY <1>3 DEF Reconciled
    <2>3. rec.status \in Refusals /\ Weighed(rec) => weight >= Growth * rec.weight
      BY <2>1 DEF StaysDown, Weighed, Refusals, Growth, Rec
    <2>4. /\ Reconciled(rec, weight) \in Rec
          /\ Reconciled(rec, weight).status = "PROPOSED"
          /\ Reconciled(rec, weight).weight = weight
          /\ Reconciled(rec, weight).then = 0
          /\ Reconciled(rec, weight).rev = rec.rev + 1
      BY <2>2 DEF Rec, Statuses
    <2> QED
      BY <1>3, <2>1, <2>3, <2>4 DEF Weighed, Refusals
  <1> QED
    BY <1>1, <1>2, <1>3

----------------------------------------------------------------------------

LEMMA FreshIsNat ==
  ASSUME TypeOK, NEW p \in Passes, corpus[p] # NotRunning, NEW k \in Keys
  PROVE  Fresh(corpus[p], k) \in Nat
  <1>1. corpus[p].found \in [Keys -> Nat]
    BY DEF TypeOK, Corpus
  <1> QED
    BY <1>1 DEF Fresh

LEMMA PolicyIsNat ==
  ASSUME TypeOK, NEW k \in Keys
  PROVE  CurrentPolicy(ViewOf[k]) \in Nat
  <1>1. seams[ViewOf[k]] \subseteq 0..MaxTime
    BY QueueAssumption DEF TypeOK, Time
  <1>2. IsFiniteSet(0..MaxTime)
    BY QueueAssumption, FS_Interval
  <1> QED
    BY QueueAssumption, <1>1, <1>2, FS_Subset, FS_CardinalityType DEF CurrentPolicy

LEMMA InitTypes == Init => TypeOK
  <1> SUFFICES ASSUME Init PROVE TypeOK
    OBVIOUS
  <1>1. 0 \in Time
    BY QueueAssumption DEF Time
  <1>2. NoRec \in Rec
    BY DEF NoRec, Rec, Statuses
  <1>3. NoAdoption \in Adoption
    BY <1>1 DEF NoAdoption, Adoption
  <1>4. shown \in [key : Keys \cup {"none"}, rec : Rec, adoption : Adoption, whole : BOOLEAN]
    BY <1>2, <1>3 DEF Init, NotShown
  <1>5. begun \in 0..MaxPasses /\ decided \in 0..MaxDecisions
    BY QueueAssumption DEF Init
  <1> QED
    BY <1>1, <1>2, <1>3, <1>4, <1>5 DEF Init, TypeOK

LEMMA WorldTypes == TypeOK /\ World => TypeOK'
  <1> SUFFICES ASSUME TypeOK, World PROVE TypeOK'
    OBVIOUS
  <1>1. CASE Tick
    BY <1>1, QueueAssumption DEF Tick, TypeOK, Time, storeVars
  <1>2. ASSUME NEW t \in Tasks, Merge(t) PROVE TypeOK'
    BY <1>2 DEF Merge, TypeOK, storeVars
  <1>3. ASSUME NEW v \in ViewsUsed, LandSeam(v) PROVE TypeOK'
    BY <1>3 DEF LandSeam, TypeOK, storeVars
  <1> QED
    BY <1>1, <1>2, <1>3 DEF World

LEMMA PassTypes == TypeOK /\ Pass => TypeOK'
  <1> SUFFICES ASSUME TypeOK, NEW p \in Passes, Gather(p) \/ Learn(p) PROVE TypeOK'
    BY DEF Pass
  <1>1. CASE Gather(p)
    <2>1. PICK read \in ReadSets, there \in Findings :
            corpus' = [corpus EXCEPT ![p] =
              [read |-> read,
               found |-> [k \in Keys |-> IF SourceOf[MetricOf[k]] \in read THEN there[k]
                                                                          ELSE 0],
               merged |-> merged, seams |-> seams]]
      BY <1>1 DEF Gather
    <2>2. [k \in Keys |-> IF SourceOf[MetricOf[k]] \in read THEN there[k] ELSE 0]
            \in [Keys -> Nat]
      BY QueueAssumption
    <2>3. read \subseteq Sources
      BY QueueAssumption
    <2>4. corpus' \in [Passes -> Corpus \cup {NotRunning}]
      BY <2>1, <2>2, <2>3 DEF TypeOK, Corpus
    <2>5. begun' \in 0..MaxPasses
      BY <1>1, QueueAssumption DEF Gather, TypeOK
    <2> QED
      BY <1>1, <2>4, <2>5 DEF Gather, worldVars, storeVars, TypeOK
  <1>2. CASE Learn(p)
    <2>1. \A k \in Keys : Reconciled(recs[k], Fresh(corpus[p], k)) \in Rec
      BY <1>2, FreshIsNat, ReconciledRec DEF Learn, TypeOK
    <2> QED
      BY <1>2, <2>1 DEF Learn, worldVars, TypeOK
  <1> QED
    BY <1>1, <1>2

LEMMA HumanTypes == TypeOK /\ Human => TypeOK'
  <1> SUFFICES ASSUME TypeOK, Human PROVE TypeOK'
    OBVIOUS
  <1>1. CASE ShowAdoption
    BY <1>1 DEF ShowAdoption, worldVars, storeVars, TypeOK
  <1>2. ASSUME NEW k \in Watched, Show(k) PROVE TypeOK'
    <2>1. k \in Keys /\ NoAdoption \in Adoption
      BY QueueAssumption DEF NoAdoption, Adoption, Time
    <2>2. shown' \in [key : Keys \cup {"none"}, rec : Rec, adoption : Adoption,
                      whole : BOOLEAN]
      BY <1>2, <2>1 DEF Show, TypeOK
    <2> QED
      BY <1>2, <2>2 DEF Show, worldVars, storeVars, TypeOK
  <1>3. ASSUME NEW k \in Keys, NEW careful \in BOOLEAN, Decide(k, careful)
        PROVE  /\ decided' \in 0..MaxDecisions /\ misled' \in BOOLEAN
               /\ UNCHANGED <<now, merged, seams, corpus, shown, begun>>
    BY <1>3, QueueAssumption DEF Decide, TypeOK, worldVars
  <1>4. ASSUME NEW k \in Keys, NEW status \in Statuses, BecomeDecided(k, status)
        PROVE  recs' \in [Keys -> Rec]
    BY <1>4 DEF BecomeDecided, TypeOK, Rec
  <1>5. ASSUME NEW k \in Keys, NEW careful \in BOOLEAN, Reject(k, careful) PROVE TypeOK'
    <2>1. recs' \in [Keys -> Rec]
      BY <1>4, <1>5 DEF Reject, Statuses
    <2> QED
      BY <1>3, <1>5, <2>1 DEF Reject, TypeOK
  <1>6. ASSUME NEW k \in Keys, NEW careful \in BOOLEAN, Retire(k, careful) PROVE TypeOK'
    <2>1. recs' \in [Keys -> Rec]
      BY <1>6 DEF Retire, Become, TypeOK, Rec, Statuses
    <2>2. adoptions' \in [Keys -> Adoption]
      BY <1>6 DEF Retire, TypeOK, Adoption
    <2> QED
      BY <1>3, <1>6, <2>1, <2>2 DEF Retire, TypeOK
  <1>7. ASSUME NEW k \in Keys, NEW careful \in BOOLEAN, NEW task \in Tasks,
               Link(k, careful, task)
        PROVE  TypeOK'
    <2>1. adoptions' \in [Keys -> Adoption]
      BY <1>7 DEF Link, TypeOK, Adoption
    <2> QED
      BY <1>3, <1>7, <2>1 DEF Link, TypeOK
  <1>8. ASSUME NEW k \in Keys, NEW careful \in BOOLEAN, NEW task \in Tasks \cup {NoTask},
               NEW since \in Time, Accept(k, careful, task, since)
        PROVE  TypeOK'
    <2>1. recs' \in [Keys -> Rec]
      BY <1>4, <1>8 DEF Accept, Statuses
    <2>2. adoptions' \in [Keys -> Adoption]
      BY <1>8, PolicyIsNat DEF Accept, TypeOK, Adoption
    <2> QED
      BY <1>3, <1>8, <2>1, <2>2 DEF Accept, TypeOK
  <1> QED
    BY <1>1, <1>2, <1>5, <1>6, <1>7, <1>8 DEF Human

\* Every variable has its type.
THEOREM TypeCorrect == Spec => []TypeOK
  <1>1. TypeOK /\ UNCHANGED vars => TypeOK'
    BY DEF vars, worldVars, storeVars, TypeOK
  <1>2. TypeOK /\ [Next]_vars => TypeOK'
    BY <1>1, WorldTypes, PassTypes, HumanTypes DEF Next
  <1> QED
    BY InitTypes, <1>2, PTL DEF Spec

----------------------------------------------------------------------------
\* The inductive invariant: beside what is to be shown, a record remembers the weight
\* it was decided on, an adoption nobody made has no task, and what a human was shown
\* is the past of what is there.

AllWeighed == \A k \in Keys : Weighed(recs[k])

UntakenIsUnlinked == \A k \in Keys : adoptions[k].rev = 0 => adoptions[k].task = NoTask

\* `old` is `new`, or an earlier revision of it.
PastOf(old, new) == old.rev < new.rev \/ old = new

ShownIsPast ==
  \A k \in Keys : shown.key = k =>
    /\ PastOf(shown.rec, recs[k])
    /\ shown.whole => PastOf(shown.adoption, adoptions[k])

IInv ==
  /\ TypeOK
  /\ AdoptedIsAccepted
  /\ AllWeighed
  /\ UntakenIsUnlinked
  /\ ShownIsPast
  /\ SeenIsDecided

\* What one step makes of the records of k: nothing, a pass's work or a decision.
\* The lemma splits Next once for all the theorems.
PassedOver(k) ==
  /\ \E p \in Passes : /\ Learn(p)
                       /\ corpus[p] # NotRunning
                       /\ recs'[k] = Reconciled(recs[k], Fresh(corpus[p], k))
  /\ UNCHANGED <<adoptions, shown, misled>>
Decided(k) ==
  \/ /\ recs[k].status \in {"PROPOSED", "STALE"}
     /\ recs'[k].status \in {"ACCEPTED", "REJECTED"}
     /\ recs'[k].weight = recs[k].weight /\ recs'[k].then = recs[k].weight
     /\ recs'[k].rev = recs[k].rev + 1
     /\ IF recs'[k].status = "ACCEPTED"
        THEN adoptions'[k].active /\ adoptions'[k].rev = adoptions[k].rev + 1
        ELSE adoptions'[k] = adoptions[k]
  \/ /\ adoptions[k].active /\ adoptions'[k].active
     /\ recs'[k] = recs[k] /\ adoptions'[k].rev = adoptions[k].rev + 1
  \/ /\ adoptions[k].active /\ ~adoptions'[k].active
     /\ recs'[k].status = "RETIRED"
     /\ recs'[k].weight = recs[k].weight /\ recs'[k].then = recs[k].then
     /\ recs'[k].rev = recs[k].rev + 1
     /\ adoptions'[k].rev = adoptions[k].rev + 1

Untouched(k) == recs'[k] = recs[k] /\ adoptions'[k] = adoptions[k]

LEMMA StepOfARecord ==
  ASSUME TypeOK, [Next]_vars, NEW k \in Keys
  PROVE  PassedOver(k) \/ Decided(k) \/ Untouched(k)
  <1>1. CASE World \/ UNCHANGED vars
    BY <1>1 DEF World, Tick, Merge, LandSeam, vars, storeVars, Untouched
  <1>2. ASSUME NEW p \in Passes, Gather(p) \/ Learn(p) PROVE PassedOver(k) \/ Untouched(k)
    BY <1>2 DEF Gather, Learn, storeVars, PassedOver, Untouched
  <1>3. CASE ShowAdoption \/ \E j \in Watched : Show(j)
    BY <1>3 DEF ShowAdoption, Show, storeVars, Untouched
  <1>4. ASSUME NEW j \in Keys, NEW careful \in BOOLEAN, Reject(j, careful)
        PROVE  Decided(k) \/ Untouched(k)
    BY <1>4 DEF Reject, Open, BecomeDecided, Decided, Untouched, TypeOK, Rec
  <1>5. ASSUME NEW j \in Keys, NEW careful \in BOOLEAN, Retire(j, careful)
        PROVE  Decided(k) \/ Untouched(k)
    BY <1>5 DEF Retire, Become, Decided, Untouched, TypeOK, Rec, Adoption
  <1>6. ASSUME NEW j \in Keys, NEW careful \in BOOLEAN, NEW task \in Tasks,
               Link(j, careful, task)
        PROVE  Decided(k) \/ Untouched(k)
    BY <1>6 DEF Link, Decided, Untouched, TypeOK, Adoption
  <1>7. ASSUME NEW j \in Keys, NEW careful \in BOOLEAN, NEW task \in Tasks \cup {NoTask},
               NEW since \in Time, Accept(j, careful, task, since)
        PROVE  Decided(k) \/ Untouched(k)
    BY <1>7 DEF Accept, Open, BecomeDecided, Decided, Untouched, TypeOK, Rec, Adoption
  <1> QED
    BY <1>1, <1>2, <1>3, <1>4, <1>5, <1>6, <1>7 DEF Next, Pass, Human

----------------------------------------------------------------------------
\* Each part of the invariant is preserved by every step

LEMMA AdoptedPreserved ==
  ASSUME TypeOK, AdoptedIsAccepted, [Next]_vars
  PROVE  AdoptedIsAccepted'
  <1> SUFFICES ASSUME NEW k \in Keys
               PROVE  adoptions'[k].active <=> recs'[k].status = "ACCEPTED"
    BY DEF AdoptedIsAccepted
  <1>1. adoptions[k].active <=> recs[k].status = "ACCEPTED"
    BY DEF AdoptedIsAccepted
  <1>2. CASE PassedOver(k)
    <2>1. PICK p \in Passes : /\ corpus[p] # NotRunning
                              /\ recs'[k] = Reconciled(recs[k], Fresh(corpus[p], k))
      BY <1>2 DEF PassedOver
    <2>2. recs[k] \in Rec /\ Fresh(corpus[p], k) \in Nat
      BY <2>1, FreshIsNat DEF TypeOK
    <2>3. recs'[k].status = "ACCEPTED" <=> recs[k].status = "ACCEPTED"
      BY <2>1, <2>2, ReconciledRec
    <2> QED
      BY <1>1, <1>2, <2>3 DEF PassedOver
  <1>3. CASE Decided(k)
    BY <1>1, <1>3 DEF Decided
  <1>4. CASE Untouched(k)
    BY <1>1, <1>4 DEF Untouched
  <1> QED
    BY <1>2, <1>3, <1>4, StepOfARecord

LEMMA WeighedPreserved ==
  ASSUME TypeOK, AllWeighed, [Next]_vars
  PROVE  AllWeighed'
  <1> SUFFICES ASSUME NEW k \in Keys PROVE Weighed(recs'[k])
    BY DEF AllWeighed, Weighed
  <1>1. Weighed(recs[k])
    BY DEF AllWeighed
  <1>2. CASE PassedOver(k)
    BY <1>1, <1>2, FreshIsNat, ReconciledRec DEF PassedOver, TypeOK
  <1>3. CASE Decided(k)
    BY <1>1, <1>3 DEF Decided, Weighed
  <1>4. CASE Untouched(k)
    BY <1>1, <1>4 DEF Untouched
  <1> QED
    BY <1>2, <1>3, <1>4, StepOfARecord

LEMMA UnlinkedPreserved ==
  ASSUME TypeOK, UntakenIsUnlinked, [Next]_vars
  PROVE  UntakenIsUnlinked'
  <1> SUFFICES ASSUME NEW k \in Keys, adoptions'[k].rev = 0
               PROVE  adoptions'[k].task = NoTask
    BY DEF UntakenIsUnlinked
  <1>1. adoptions[k].rev \in Nat
    BY DEF TypeOK, Adoption
  <1>2. adoptions'[k] = adoptions[k] \/ adoptions'[k].rev = adoptions[k].rev + 1
    BY StepOfARecord DEF PassedOver, Decided, Untouched
  <1> QED
    BY <1>1, <1>2 DEF UntakenIsUnlinked

\* A record that is past stays past, whatever a step does.
LEMMA PastStaysPast ==
  ASSUME TypeOK, [Next]_vars, NEW k \in Keys
  PROVE  /\ \A old \in Rec : PastOf(old, recs[k]) => PastOf(old, recs'[k])
         /\ \A old \in Adoption : PastOf(old, adoptions[k]) => PastOf(old, adoptions'[k])
  <1>1. recs[k] \in Rec /\ adoptions[k] \in Adoption
    BY DEF TypeOK
  <1>2. /\ recs'[k] = recs[k] \/ recs'[k].rev = recs[k].rev + 1
        /\ adoptions'[k] = adoptions[k] \/ adoptions'[k].rev = adoptions[k].rev + 1
    <2>1. CASE PassedOver(k)
      BY <1>1, <2>1, FreshIsNat, ReconciledRec DEF PassedOver
    <2>2. CASE Decided(k)
      BY <2>2 DEF Decided
    <2>3. CASE Untouched(k)
      BY <2>3 DEF Untouched
    <2> QED
      BY <2>1, <2>2, <2>3, StepOfARecord
  <1>3. recs[k].rev \in Nat /\ adoptions[k].rev \in Nat
    BY <1>1 DEF Rec, Adoption
  <1> QED
    BY <1>2, <1>3 DEF PastOf, Rec, Adoption

LEMMA ShownPreserved ==
  ASSUME TypeOK, ShownIsPast, [Next]_vars
  PROVE  ShownIsPast'
  <1>1. CASE ShowAdoption
    BY <1>1 DEF ShowAdoption, ShownIsPast, PastOf, storeVars, TypeOK
  <1>2. CASE \E j \in Watched : Show(j)
    BY <1>2 DEF Show, ShownIsPast, PastOf, storeVars
  <1>3. CASE UNCHANGED shown
    <2> SUFFICES ASSUME NEW k \in Keys, shown.key = k
                 PROVE  /\ PastOf(shown.rec, recs'[k])
                        /\ shown.whole => PastOf(shown.adoption, adoptions'[k])
      BY <1>3 DEF ShownIsPast, PastOf
    <2>1. shown.rec \in Rec /\ shown.adoption \in Adoption
      BY DEF TypeOK
    <2> QED
      BY <2>1, PastStaysPast DEF ShownIsPast
  <1>4. ShowAdoption \/ (\E j \in Watched : Show(j)) \/ UNCHANGED shown
    BY DEF Next, World, Tick, Merge, LandSeam, Pass, Gather, Learn, Human, Reject, Retire,
           Link, Accept, Decide, vars
  <1> QED
    BY <1>1, <1>2, <1>3, <1>4

LEMMA SeenPreserved ==
  ASSUME TypeOK, ShownIsPast, SeenIsDecided, [Next]_vars
  PROVE  SeenIsDecided'
  <1>1. ASSUME NEW k \in Keys, NEW careful \in BOOLEAN, Decide(k, careful)
        PROVE  ~misled'
    <2>1. CASE careful
      <3>1. /\ shown.key = k /\ shown.whole
            /\ shown.rec.rev = recs[k].rev /\ shown.adoption.rev = adoptions[k].rev
        BY <1>1, <2>1 DEF Decide, Token
      <3>2. recs[k].rev \in Nat /\ adoptions[k].rev \in Nat
        BY DEF TypeOK, Rec, Adoption
      <3>3. shown.rec = recs[k] /\ shown.adoption = adoptions[k]
        BY <3>1, <3>2 DEF ShownIsPast, PastOf
      <3> QED
        BY <1>1, <3>3 DEF Decide, SeenIsDecided
    <2>2. CASE ~careful
      BY <1>1, <2>2 DEF Decide, SeenIsDecided
    <2> QED
      BY <2>1, <2>2
  <1>2. \/ UNCHANGED misled
        \/ \E k \in Keys, careful \in BOOLEAN : Decide(k, careful)
    BY DEF Next, World, Tick, Merge, LandSeam, Pass, Gather, Learn, Human, Show,
           ShowAdoption, Reject, Retire, Link, Accept, vars
  <1> QED
    BY <1>1, <1>2 DEF SeenIsDecided

LEMMA QueueInvariant == Spec => []IInv
  <1>1. Init => IInv
    BY InitTypes DEF Init, IInv, AdoptedIsAccepted, AllWeighed, Weighed, UntakenIsUnlinked,
                     ShownIsPast, SeenIsDecided, NoRec, NoAdoption, NotShown, PastOf
  <1>2. IInv /\ [Next]_vars => IInv'
    <2>1. TypeOK /\ [Next]_vars => TypeOK'
      BY WorldTypes, PassTypes, HumanTypes DEF Next, vars, worldVars, storeVars, TypeOK
    <2> QED
      BY <2>1, AdoptedPreserved, WeighedPreserved, UnlinkedPreserved, ShownPreserved,
         SeenPreserved
         DEF IInv
  <1> QED
    BY <1>1, <1>2, PTL DEF Spec

----------------------------------------------------------------------------

\* What is accepted has an adoption in force and nothing else has, whatever passes run
\* between the decisions (accept, retire, reconcile).
THEOREM AdoptionsAgree == Spec => []AdoptedIsAccepted
  BY QueueInvariant, PTL DEF IInv

\* A decision with --seen is taken on exactly what its human saw.
THEOREM SeenDecides == Spec => []SeenIsDecided
  BY QueueInvariant, PTL DEF IInv

\* An accepted recommendation is only ever retired, a refused one comes back only on
\* grown evidence (reconcile).
THEOREM DecisionsAreKept == Spec => DecisionsStand
  <1>1. ASSUME IInv, [Next]_vars, NEW k \in Keys PROVE DecisionStands(k)
    <2>1. CASE PassedOver(k)
      <3>1. PICK p \in Passes : /\ corpus[p] # NotRunning
                                /\ recs'[k] = Reconciled(recs[k], Fresh(corpus[p], k))
        BY <2>1 DEF PassedOver
      <3>2. Fresh(corpus[p], k) \in Nat /\ recs[k] \in Rec /\ Weighed(recs[k])
        BY <1>1, <3>1, FreshIsNat DEF IInv, TypeOK, AllWeighed
      <3>3. /\ recs[k].status = "ACCEPTED" => recs'[k] = recs[k]
            /\ recs[k].status \in Refusals =>
                 \/ recs'[k] = recs[k]
                 \/ /\ recs'[k].status = "PROPOSED"
                    /\ recs'[k].weight >= Growth * recs[k].weight
        BY <3>1, <3>2, ReconciledRec
      <3> QED
        BY <3>3 DEF Refusals, DecisionStands
    <2>2. CASE Decided(k)
      BY <1>1, <2>2 DEF Decided, IInv, AdoptedIsAccepted, DecisionStands
    <2>3. CASE Untouched(k)
      BY <2>3 DEF Untouched, DecisionStands
    <2> QED
      BY <1>1, <2>1, <2>2, <2>3, StepOfARecord DEF IInv
  <1>2. IInv /\ [Next]_vars => [\A k \in Keys : DecisionStands(k)]_recs
    BY <1>1
  <1> QED
    BY <1>2, QueueInvariant, PTL DEF Spec, DecisionsStand

\* No pass raises a recommendation on a metric that an adopted change owns, not even one
\* that gathered its corpus before the acceptance (learn).
THEOREM MetricsAreOwned == Spec => AdoptedOwnsItsMetric
  <1>1. ASSUME IInv, [Next]_vars, NEW k \in Keys \ FollowUps, Raised(k)
        PROVE  ~Owned(k)
    <2>1. CASE PassedOver(k)
      <3>1. PICK p \in Passes : /\ corpus[p] # NotRunning
                                /\ recs'[k] = Reconciled(recs[k], Fresh(corpus[p], k))
        BY <2>1 DEF PassedOver
      <3>2. Fresh(corpus[p], k) \in Nat /\ recs[k] \in Rec
        BY <1>1, <3>1, FreshIsNat DEF IInv, TypeOK
      <3>3. Fresh(corpus[p], k) # 0
        BY <1>1, <3>1, <3>2, ReconciledRec DEF Raised
      <3> QED
        BY <3>3 DEF Fresh, Covered, Owned
    <2>2. CASE Decided(k)
      BY <1>1, <2>2 DEF Decided, Raised
    <2>3. CASE Untouched(k)
      BY <1>1, <2>3 DEF Untouched, Raised
    <2> QED
      BY <1>1, <2>1, <2>2, <2>3, StepOfARecord DEF IInv
  <1>2. IInv /\ [Next]_vars => [\A k \in Keys \ FollowUps : Raised(k) => ~Owned(k)]_recs
    BY <1>1
  <1> QED
    BY <1>2, QueueInvariant, PTL DEF Spec, AdoptedOwnsItsMetric

-----------------------------------------------------------------------------
(***************************************************************************)
(* The proof that a verdict on an adoption rests on a comparison of its own  *)
(* (LearnQueue!VerdictIsClean), for all windows, policies and confounders.   *)
(***************************************************************************)
\* The first of the times of a merge is one of them, and the least.
LEMMA FirstIsLeast ==
  ASSUME NEW times \in SUBSET Nat, times # {}
  PROVE  First(times) \in times /\ \A u \in times : First(times) <= u
  <1> DEFINE Less == {ss \in Nat \X Nat : ss[1] < ss[2]}
  <1>1. IsWellFoundedOn(Less, Nat)
    BY NatLessThanWellFounded DEF OpToRel
  <1> HIDE DEF Less
  <1>2. PICK t \in times : \A u \in times : ~(<<u, t>> \in Less)
    BY <1>1, WFMin
  <1>3. ASSUME NEW u \in times PROVE t <= u
    <2>1. <<u, t>> \in Nat \X Nat
      OBVIOUS
    <2>2. ~(<<u, t>>[1] < <<u, t>>[2])
      BY <1>2, <2>1 DEF Less
    <2> QED
      BY <2>2
  <1> QED
    BY <1>3 DEF First

\* The change an adoption stands for merged when efficacy says it did.
LEMMA StartIsMergedAt ==
  ASSUME TypeOK, NEW p \in Passes, corpus[p] # NotRunning, NEW k \in Keys,
         NEW u \in MergedAt(corpus[p].merged, adoptions[k])
  PROVE  /\ Started(corpus[p], adoptions[k])
         /\ u = Start(corpus[p], adoptions[k])
  <1>1. adoptions[k].task \in Tasks
    BY DEF TypeOK, Adoption, MergedAt
  <1>2. MergesOf(corpus[p], adoptions[k]) \in SUBSET Nat
    BY <1>1 DEF MergesOf, TypeOK, Corpus, Time
  <1>3. /\ u \in MergesOf(corpus[p], adoptions[k])
        /\ \A t \in MergesOf(corpus[p], adoptions[k]) : ~(t < u)
    BY <1>1 DEF MergedAt, MergesOf, TypeOK, Corpus, Time, Adoption
  <1> QED
    BY <1>2, <1>3, FirstIsLeast DEF Started, Start

LEMMA MergedAtStart ==
  ASSUME TypeOK, NEW p \in Passes, corpus[p] # NotRunning, NEW k \in Keys,
         Started(corpus[p], adoptions[k])
  PROVE  /\ Start(corpus[p], adoptions[k]) \in Nat
         /\ Start(corpus[p], adoptions[k]) \in MergedAt(corpus[p].merged, adoptions[k])
  <1>1. adoptions[k].task \in Tasks
    BY DEF TypeOK, Adoption, Started, MergesOf
  <1>2. MergesOf(corpus[p], adoptions[k]) \in SUBSET Nat
    BY <1>1 DEF MergesOf, TypeOK, Corpus, Time
  <1>3. /\ Start(corpus[p], adoptions[k]) \in MergesOf(corpus[p], adoptions[k])
        /\ \A t \in MergesOf(corpus[p], adoptions[k]) : Start(corpus[p], adoptions[k]) <= t
    BY <1>2, FirstIsLeast DEF Started, Start
  <1>4. \A t \in corpus[p].merged[adoptions[k].task] : t \in Nat
    BY <1>1 DEF TypeOK, Corpus, Time
  <1>5. adoptions[k].at \in Nat /\ adoptions[k].task # NoTask
    BY <1>1, QueueAssumption DEF TypeOK, Adoption, Time
  <1> QED
    BY <1>2, <1>3, <1>4, <1>5 DEF MergedAt, MergesOf

\* The same number of seams at two moments: none landed between them.
LEMMA NoSeamBetween ==
  ASSUME NEW landed \in SUBSET Time, NEW lo \in Int, NEW hi \in Int, lo <= hi,
         PolicyAt(landed, lo) = PolicyAt(landed, hi)
  PROVE  \A s \in landed : s <= lo \/ hi < s
  <1> DEFINE Till(t) == {s \in landed : s <= t}
  <1>1. IsFiniteSet(Time)
    BY QueueAssumption, FS_Interval DEF Time
  <1>2. landed \subseteq Int
    BY QueueAssumption DEF Time
  <1>3. Till(lo) \in SUBSET Till(hi) /\ Till(hi) \in SUBSET Time
    <2>1. \A s \in landed : s <= lo => s <= hi
      BY <1>2
    <2> QED
      BY <2>1
  <1>4. IsFiniteSet(Till(hi))
    BY <1>1, <1>3, FS_Subset
  <1>5. Cardinality(Till(hi)) = Cardinality(Till(lo))
    BY DEF PolicyAt
  <1>6. Till(hi) = Till(lo)
    BY <1>3, <1>4, <1>5, FS_Subset
  <1> QED
    BY <1>2, <1>6

LEMMA NoSeamUntil ==
  ASSUME NEW landed \in SUBSET Time, NEW hi \in Int, PolicyAt(landed, hi) = 0
  PROVE  \A s \in landed : hi < s
  <1> DEFINE till == {s \in landed : s <= hi}
  <1>1. IsFiniteSet(Time) /\ landed \subseteq Int
    BY QueueAssumption, FS_Interval DEF Time
  <1>2. IsFiniteSet(till)
    BY <1>1, FS_Subset
  <1>3. till = {}
    BY <1>2, FS_EmptySet DEF PolicyAt
  <1> QED
    BY <1>1, <1>3

\* What efficacy takes for comparable is a comparison of the adoption's own.
LEMMA ComparableIsOwn ==
  ASSUME IInv, NEW p \in Passes, corpus[p] # NotRunning, NEW a \in Keys,
         Comparable(corpus[p], a)
  PROVE  OwnComparison(corpus[p], a)
  <1> DEFINE c == corpus[p]
             t == Start(c, adoptions[a])
             landed == c.seams[ViewOf[a]]
  <1>1. t \in Nat /\ t \in MergedAt(c.merged, adoptions[a])
    BY MergedAtStart DEF Comparable, IInv
  <1>2. landed \in SUBSET Time /\ Window \in Nat \ {0}
    BY QueueAssumption DEF IInv, TypeOK, Corpus
  <1>3. \A s \in landed : s \in Nat
    BY <1>2, QueueAssumption DEF Time
  <1>4. \A s \in landed : s + Window <= t \/ t + Window <= s
    <2>1. PolicyAt(landed, t + Window - 1)
            = IF t < Window THEN 0 ELSE PolicyAt(landed, t - Window)
      BY DEF Comparable, SamePolicy
    <2>2. CASE t < Window
      <3>1. \A s \in landed : t + Window - 1 < s
        BY <1>1, <1>2, <2>1, <2>2, NoSeamUntil
      <3> QED
        BY <1>1, <1>2, <1>3, <3>1
    <2>3. CASE ~(t < Window)
      <3>1. \A s \in landed : s <= t - Window \/ t + Window - 1 < s
        BY <1>1, <1>2, <2>1, <2>3, NoSeamBetween
      <3> QED
        BY <1>1, <1>2, <1>3, <3>1
    <2> QED
      BY <2>2, <2>3
  <1>5. ASSUME NEW j \in Keys \ {a}, SameMetric(j, a),
               NEW u \in MergedAt(c.merged, adoptions[j])
        PROVE  u + Window < t \/ t + Window <= u
    <2>1. Started(c, adoptions[j]) /\ u = Start(c, adoptions[j])
      BY StartIsMergedAt DEF IInv
    <2>2. u \in Nat
      BY <2>1, MergedAtStart DEF IInv
    <2>3. adoptions[j].rev > 0
      BY DEF MergedAt, IInv, UntakenIsUnlinked, TypeOK, Adoption
    <2>4. ~(u < t + Window /\ t <= u + Window)
      BY <1>5, <2>1, <2>3 DEF Comparable, Confounders
    <2> QED
      BY <1>1, <1>2, <2>2, <2>4
  <1> QED
    BY <1>1, <1>4, <1>5 DEF OwnComparison, Comparable

\* An adoption is called useless only on a comparison that is its own (efficacy, learn).
THEOREM VerdictsAreClean == Spec => VerdictIsClean
  <1>1. ASSUME IInv, [Next]_vars, NEW p \in Passes, NEW k \in FollowUps,
               corpus'[p] # corpus[p], Raised(k)
        PROVE  OwnComparison(corpus[p], AdoptionOf[k])
    <2>1. k \in Keys /\ AdoptionOf[k] \in Keys
      BY QueueAssumption
    <2>2. PassedOver(k)
      <3>1. ~Decided(k) /\ ~Untouched(k)
        BY <1>1 DEF Decided, Untouched, Raised
      <3> QED
        BY <1>1, <2>1, <3>1, StepOfARecord DEF IInv
    <2>3. PICK q \in Passes : /\ Learn(q)
                              /\ corpus[q] # NotRunning
                              /\ recs'[k] = Reconciled(recs[k], Fresh(corpus[q], k))
      BY <2>2 DEF PassedOver
    <2>4. p = q
      BY <1>1, <2>3 DEF Learn, IInv, TypeOK
    <2>5. Fresh(corpus[p], k) \in Nat /\ recs[k] \in Rec
      BY <1>1, <2>1, <2>3, <2>4, FreshIsNat DEF IInv, TypeOK
    <2>6. Fresh(corpus[p], k) # 0
      BY <1>1, <2>3, <2>4, <2>5, ReconciledRec DEF Raised
    <2>7. Comparable(corpus[p], AdoptionOf[k])
      BY <2>6 DEF Fresh
    <2> QED
      BY <1>1, <2>1, <2>3, <2>4, <2>7, ComparableIsOwn
  <1>2. IInv /\ [Next]_vars =>
          [\A p \in Passes, k \in FollowUps :
             corpus'[p] # corpus[p] /\ Raised(k)
               => OwnComparison(corpus[p], AdoptionOf[k])]_vars
    BY <1>1
  <1> QED
    BY <1>2, QueueInvariant, PTL DEF Spec, VerdictIsClean

=============================================================================
