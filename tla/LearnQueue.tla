----------------------------- MODULE LearnQueue -----------------------------
(***************************************************************************)
(* The life of a recommendation of `dx learn` (cmd_learn.py), and what a     *)
(* learning pass makes of the queue (learn_engine.py): the proposals of each *)
(* view, the human decisions on them, the adoptions with the tasks that      *)
(* implement them, and the verdict on an adoption whose change did not help. *)
(*                                                                         *)
(* Every command that writes holds the store's lock from its first read to   *)
(* its commit, and a commit is one step (DecisionStore), so a command under  *)
(* the lock is one action here.  What happens before the lock is a step of   *)
(* its own: a pass gathers its corpus, a human looks at a recommendation.    *)
(*                                                                         *)
(* What the detectors compute (posterior rates, decayed weights) is data: a  *)
(* pass finds one of the given Findings in the sources it reads.  Time is    *)
(* counted in ticks.  The task spec an acceptance prints, and forwarding     *)
(* (LearnForward), are left out.                                             *)
(***************************************************************************)
EXTENDS Naturals, FiniteSets

CONSTANTS
  Keys,         \* the recommendations, by rec_key
  FollowUps,    \* those raised about an adoption that did not help
  AdoptionOf,   \* the recommendation each of these is about
  MetricOf,     \* the metric each recommendation is judged by
  SourceOf,     \* the source each metric is read from
  ViewOf,       \* the view that raises each recommendation
  Findings,     \* what a pass may find: a weight of evidence for each key, 0: none
                \* (of a follow-up: the runs since the merge, if they show no improvement)
  ReadSets,     \* the sets of sources a pass may be told to read
  Tasks,        \* dx tasks
  NoTask,       \* an adoption that is not linked
  Passes,       \* the processes that run `dx learn run`
  Watched,      \* the recommendations a human looks at before deciding
  Window,       \* efficacy_window_days
  MaxTime,      \* bound: the clock
  MaxPasses,    \* bound: passes begun
  MaxDecisions, \* bound: human decisions
  MaxMerges,    \* bound: MERGED rows
  MaxSeams      \* bound: changes of a view's exclusion policy

Views == {"all-runs", "operational-analysis", "declared-intent-filtered"}
Exploratory == "declared-intent-filtered"
ViewsUsed == {ViewOf[k] : k \in Keys}
Metrics == {MetricOf[k] : k \in Keys}
Sources == {SourceOf[m] : m \in Metrics}
Growth == 2   \* reproposal_growth

\* Two recommendations of one view that are judged by one metric.
SameMetric(j, k) == ViewOf[j] = ViewOf[k] /\ MetricOf[j] = MetricOf[k]

ASSUME QueueAssumption ==
  /\ FollowUps \subseteq Keys /\ Watched \subseteq Keys
  /\ AdoptionOf \in [FollowUps -> Keys]
  /\ ViewOf \in [Keys -> Views]
  /\ \A k \in FollowUps : /\ ViewOf[k] = ViewOf[AdoptionOf[k]]
                          /\ MetricOf[k] = MetricOf[AdoptionOf[k]]
  /\ Findings \subseteq [Keys -> Nat]
  /\ ReadSets \subseteq SUBSET Sources
  /\ NoTask \notin Tasks
  /\ Window \in Nat \ {0}
  /\ MaxTime \in Nat /\ MaxPasses \in Nat /\ MaxDecisions \in Nat
  /\ MaxMerges \in Nat /\ MaxSeams \in Nat

----------------------------------------------------------------------------
\* Data

Statuses == {"NONE", "PROPOSED", "STALE", "ACCEPTED", "REJECTED", "RETIRED"}
Time == 0..MaxTime

\* `weight` is evidence_weight, `then` weight_at_decision (0: None).
Rec == [status : Statuses, weight : Nat, then : Nat, rev : Nat]
NoRec == [status |-> "NONE", weight |-> 0, then |-> 0, rev |-> 0]

\* `policy` is the version of the view's exclusion policy the metric is bound to.
Adoption == [active : BOOLEAN, task : Tasks \cup {NoTask}, at : Time, policy : Nat,
             rev : Nat]
NoAdoption == [active |-> FALSE, task |-> NoTask, at |-> 0, policy |-> 0, rev |-> 0]

\* A corpus as a pass gathered it: the sources read, what is found in them, the
\* MERGED rows, and the policy seams of the dx that runs.
Corpus == [read : SUBSET Sources, found : [Keys -> Nat],
           merged : [Tasks -> SUBSET Time], seams : [Views -> SUBSET Time]]

VARIABLES
  now,       \* the clock
  merged,    \* the times of each task's MERGED rows on the ledger
  seams,     \* the times each view's exclusion policy changed
  recs,      \* the store's recommendations
  adoptions, \* the store's adoptions
  corpus,    \* the corpus of each pass that is under way
  shown,     \* what `dx learn show` printed to the human who looked last
  begun,     \* passes begun
  decided,   \* decisions taken
  misled     \* a decision that named what was seen was taken on something else

storeVars == <<recs, adoptions>>
worldVars == <<now, merged, seams>>
vars == <<worldVars, storeVars, corpus, shown, begun, decided, misled>>

NotRunning == [read |-> {}, found |-> <<>>, merged |-> <<>>, seams |-> <<>>]
NotShown == [key |-> "none", rec |-> NoRec, adoption |-> NoAdoption, whole |-> FALSE]

Init ==
  /\ now = 0
  /\ merged = [t \in Tasks |-> {}]
  /\ seams = [v \in Views |-> {}]
  /\ recs = [k \in Keys |-> NoRec]
  /\ adoptions = [k \in Keys |-> NoAdoption]
  /\ corpus = [p \in Passes |-> NotRunning]
  /\ shown = NotShown
  /\ begun = 0 /\ decided = 0
  /\ misled = FALSE

----------------------------------------------------------------------------
\* The world: time passes, tasks merge, a release of dx changes a view

Tick ==
  /\ now < MaxTime
  /\ now' = now + 1
  /\ UNCHANGED <<merged, seams, storeVars, corpus, shown, begun, decided, misled>>

Merges == UNION {{t} \X merged[t] : t \in Tasks}

Merge(t) ==
  /\ Cardinality(Merges) < MaxMerges
  /\ merged' = [merged EXCEPT ![t] = @ \cup {now}]
  /\ UNCHANGED <<now, seams, storeVars, corpus, shown, begun, decided, misled>>

\* A seam is landed: the version new adoptions bind goes up with it.
LandSeam(v) ==
  /\ Cardinality(UNION {{w} \X seams[w] : w \in Views}) < MaxSeams
  /\ seams' = [seams EXCEPT ![v] = @ \cup {now}]
  /\ UNCHANGED <<now, merged, storeVars, corpus, shown, begun, decided, misled>>

\* Mutant of PolicyAt: before the first seam the version that is current now holds.
PolicyCurrent(landed, t) == Cardinality(landed)

\* policy_at: the genesis version (0) before the first seam.
PolicyAt(landed, t) == Cardinality({s \in landed : s <= t})

CurrentPolicy(v) == Cardinality(seams[v])

----------------------------------------------------------------------------
\* efficacy: before and after the first MERGED row at or after the acceptance

\* Mutant of MergesOf: rows from before the acceptance count.
MergesEver(c, ad) == IF ad.task = NoTask THEN {} ELSE c.merged[ad.task]

MergesOf(c, ad) ==
  IF ad.task = NoTask THEN {} ELSE {t \in c.merged[ad.task] : t >= ad.at}

First(times) == CHOOSE t \in times : \A u \in times : t <= u

Started(c, ad) == MergesOf(c, ad) # {}
Start(c, ad) == First(MergesOf(c, ad))

\* _policy_seam: the policy in force is the adoption's at both ends of the windows.
SamePolicy(c, v, ad) ==
  LET start == Start(c, ad)
  IN  /\ ad.policy = PolicyAt(c.seams[v], start + Window - 1)
      /\ ad.policy = IF start < Window THEN 0 ELSE PolicyAt(c.seams[v], start - Window)

\* Mutant of Confounders: an adoption that was retired is out of the picture.
ActiveConfounders(c, k) ==
  {j \in Keys \ {k} : /\ adoptions[j].active
                      /\ SameMetric(j, k)
                      /\ Started(c, adoptions[j])
                      /\ Start(c, adoptions[j]) < Start(c, adoptions[k]) + Window
                      /\ Start(c, adoptions[k]) <= Start(c, adoptions[j]) + Window}

\* The view's other adoptions on this metric, active or retired, whose change
\* merged inside the windows.
Confounders(c, k) ==
  {j \in Keys \ {k} : /\ adoptions[j].rev > 0
                      /\ SameMetric(j, k)
                      /\ Started(c, adoptions[j])
                      /\ Start(c, adoptions[j]) < Start(c, adoptions[k]) + Window
                      /\ Start(c, adoptions[k]) <= Start(c, adoptions[j]) + Window}

\* Rates before and after can be compared; every status of a report but
\* "improvement-observed", "no-meaningful-improvement" and the statistical doubts
\* stands for one of these conditions failing.
Comparable(c, k) ==
  /\ adoptions[k].active
  /\ Started(c, adoptions[k])
  /\ SourceOf[MetricOf[k]] \in c.read
  /\ SamePolicy(c, ViewOf[k], adoptions[k])
  /\ Confounders(c, k) = {}

----------------------------------------------------------------------------
\* learn and reconcile

\* Mutant of Covered: an adoption owns its own recommendation only.
CoveredItself(k) == adoptions[k].active

\* An adopted change owns its metric in its view.
Covered(k) ==
  \E j \in Keys : /\ adoptions[j].active
                  /\ SameMetric(j, k)

\* The weight of the evidence for a recommendation of this pass, 0 if it makes none.
Fresh(c, k) ==
  IF IF k \in FollowUps THEN Comparable(c, AdoptionOf[k]) ELSE ~Covered(k)
  THEN c.found[k] ELSE 0

\* Mutant of StaysDown: the evidence need not have grown.
StaysDownOnce(rec, weight) == FALSE

\* A rejected or retired recommendation, until its evidence has grown.
StaysDown(rec, weight) ==
  /\ rec.status \in {"REJECTED", "RETIRED"}
  /\ weight < Growth * (IF rec.then = 0 THEN rec.weight ELSE rec.then)

\* Mutant of LeftAlone: what was not found again goes stale, whoever decided on it.
LeftUnlessMissing(rec, weight) ==
  IF weight = 0 THEN rec.status \in {"NONE", "STALE", "REJECTED", "RETIRED"}
                ELSE rec.status = "ACCEPTED" \/ StaysDown(rec, weight)

\* What a pass does not write: it found nothing of what is not proposed, an
\* accepted one belongs to efficacy, a refused one stays down.
LeftAlone(rec, weight) ==
  IF weight = 0 THEN rec.status # "PROPOSED"
                ELSE rec.status = "ACCEPTED" \/ StaysDown(rec, weight)

Reconciled(rec, weight) ==
  IF LeftAlone(rec, weight) THEN rec
  ELSE IF weight = 0
       THEN [status |-> "STALE", weight |-> rec.weight, then |-> rec.then, rev |-> rec.rev + 1]
  ELSE [status |-> "PROPOSED", weight |-> weight, then |-> 0, rev |-> rec.rev + 1]

\* _gather, before the lock is taken.
Gather(p) ==
  /\ corpus[p] = NotRunning /\ begun < MaxPasses
  /\ begun' = begun + 1
  /\ \E read \in ReadSets, there \in Findings :
       LET found == [k \in Keys |-> IF SourceOf[MetricOf[k]] \in read THEN there[k] ELSE 0]
       IN  corpus' = [corpus EXCEPT ![p] = [read |-> read, found |-> found,
                                            merged |-> merged, seams |-> seams]]
  /\ UNCHANGED <<worldVars, storeVars, shown, decided, misled>>

\* The pass under the lock: adoptions and recommendations are read there.
Learn(p) ==
  /\ corpus[p] # NotRunning
  /\ recs' = [k \in Keys |-> Reconciled(recs[k], Fresh(corpus[p], k))]
  /\ corpus' = [corpus EXCEPT ![p] = NotRunning]
  /\ UNCHANGED <<worldVars, adoptions, shown, begun, decided, misled>>

----------------------------------------------------------------------------
\* The human: looks, and decides

\* load_recs, and later load_adoptions: two holds of the lock.  Bound: one look.
Show(k) ==
  /\ shown = NotShown /\ decided < MaxDecisions
  /\ recs[k].status # "NONE"
  /\ shown' = [key |-> k, rec |-> recs[k], adoption |-> NoAdoption, whole |-> FALSE]
  /\ UNCHANGED <<worldVars, storeVars, corpus, begun, decided, misled>>

ShowAdoption ==
  /\ shown.key # "none" /\ ~shown.whole
  /\ shown' = [shown EXCEPT !.adoption = adoptions[shown.key], !.whole = TRUE]
  /\ UNCHANGED <<worldVars, storeVars, corpus, begun, decided, misled>>

\* Mutant of Token: the adoption's revision is left out.
TokenOfRec(rec, ad) == rec.rev

\* _token
Token(rec, ad) == <<rec.rev, ad.rev>>

\* A decision on k is begun; with --seen it must be on what was printed.
Decide(k, careful) ==
  /\ decided < MaxDecisions
  /\ decided' = decided + 1
  /\ careful => /\ shown.key = k /\ shown.whole
                /\ Token(shown.rec, shown.adoption) = Token(recs[k], adoptions[k])
  /\ misled' = (misled \/ (careful /\ <<shown.rec, shown.adoption>> # <<recs[k], adoptions[k]>>))
  /\ UNCHANGED <<worldVars, corpus, shown, begun>>

Open(k) == recs[k].status \in {"PROPOSED", "STALE"}

Become(k, status) == recs' = [recs EXCEPT ![k].status = status, ![k].rev = @ + 1]
BecomeDecided(k, status) ==
  recs' = [recs EXCEPT ![k] = [status |-> status, weight |-> @.weight, then |-> @.weight,
                               rev |-> @.rev + 1]]

\* The acceptance bears the time at which its command began to wait for the lock.
Accept(k, careful, task, since) ==
  /\ since <= now
  /\ Open(k) /\ ViewOf[k] # Exploratory
  /\ Decide(k, careful)
  /\ BecomeDecided(k, "ACCEPTED")
  /\ adoptions' = [adoptions EXCEPT ![k] =
                     [active |-> TRUE, task |-> task, at |-> since,
                      policy |-> CurrentPolicy(ViewOf[k]), rev |-> @.rev + 1]]

Reject(k, careful) ==
  /\ Open(k)
  /\ Decide(k, careful)
  /\ BecomeDecided(k, "REJECTED")
  /\ UNCHANGED adoptions

\* A linked adoption is linked again by naming the task it is linked to.
Link(k, careful, task) ==
  /\ adoptions[k].active /\ adoptions[k].task # task
  /\ Decide(k, careful)
  /\ adoptions' = [adoptions EXCEPT ![k].task = task, ![k].rev = @ + 1]
  /\ UNCHANGED recs

Retire(k, careful) ==
  /\ adoptions[k].active
  /\ Decide(k, careful)
  /\ adoptions' = [adoptions EXCEPT ![k].active = FALSE, ![k].rev = @ + 1]
  /\ Become(k, "RETIRED")

----------------------------------------------------------------------------

World == Tick \/ (\E t \in Tasks : Merge(t)) \/ (\E v \in ViewsUsed : LandSeam(v))
Pass == \E p \in Passes : Gather(p) \/ Learn(p)
Human ==
  \/ ShowAdoption
  \/ \E k \in Watched : Show(k)
  \/ \E k \in Keys, careful \in BOOLEAN :
       \/ Reject(k, careful) \/ Retire(k, careful)
       \/ \E task \in Tasks : Link(k, careful, task)
       \/ \E task \in Tasks \cup {NoTask}, since \in Time : Accept(k, careful, task, since)

Next == World \/ Pass \/ Human
Spec == Init /\ [][Next]_vars

----------------------------------------------------------------------------
\* Properties

TypeOK ==
  /\ now \in Time
  /\ merged \in [Tasks -> SUBSET Time]
  /\ seams \in [Views -> SUBSET Time]
  /\ recs \in [Keys -> Rec]
  /\ adoptions \in [Keys -> Adoption]
  /\ corpus \in [Passes -> Corpus \cup {NotRunning}]
  /\ shown \in [key : Keys \cup {"none"}, rec : Rec, adoption : Adoption, whole : BOOLEAN]
  /\ begun \in 0..MaxPasses /\ decided \in 0..MaxDecisions
  /\ misled \in BOOLEAN

\* The two records of a decision agree: what is accepted has an adoption in force,
\* and nothing else has, whatever passes run between (accept, retire, reconcile).
AdoptedIsAccepted ==
  \A k \in Keys : adoptions[k].active <=> recs[k].status = "ACCEPTED"

DecisionStands(k) ==
  recs[k].status \in {"ACCEPTED", "REJECTED", "RETIRED"} =>
    \/ recs'[k] = recs[k]
    \/ recs[k].status = "ACCEPTED" /\ recs'[k].status = "RETIRED"
    \/ /\ recs[k].status # "ACCEPTED" /\ recs'[k].status = "PROPOSED"
       /\ recs'[k].weight >= Growth * recs[k].weight

\* A decision stands: an accepted recommendation is only ever retired, and one that
\* was refused comes back only on twice the evidence that was refused, even from a
\* pass that gathered its corpus before the decision (reconcile: "stays down unless
\* evidence grew").
DecisionsStand == [][\A k \in Keys : DecisionStands(k)]_recs

Raised(k) == recs'[k] # recs[k] /\ recs'[k].status = "PROPOSED"
Owned(k) == \E j \in Keys : adoptions[j].active /\ SameMetric(j, k)

\* An adopted change owns its metric: no pass raises another recommendation on it,
\* not even one whose corpus is from before the acceptance (learn: "efficacy speaks
\* for it, not a fresh proposal").
AdoptedOwnsItsMetric == [][\A k \in Keys \ FollowUps : Raised(k) => ~Owned(k)]_recs

\* A decision that named what its human saw was taken on exactly that, although the
\* recommendation and its adoption were read at two moments (--seen).
SeenIsDecided == ~misled

\* The tick, if any, at which the change an adoption stands for merged.
MergedAt(rows, ad) ==
  IF ad.task = NoTask THEN {}
  ELSE {t \in rows[ad.task] : t >= ad.at /\ \A u \in rows[ad.task] : u < t => u < ad.at}

OwnComparison(c, a) ==
  /\ adoptions[a].active
  /\ \E t \in MergedAt(c.merged, adoptions[a]) :
       /\ \A s \in c.seams[ViewOf[a]] : s + Window <= t \/ t + Window <= s
       /\ \A j \in Keys \ {a} : SameMetric(j, a) =>
            \A u \in MergedAt(c.merged, adoptions[j]) : u + Window < t \/ t + Window <= u

\* An adoption is called useless only on a comparison that is its own: it is in
\* force, its task merged after the acceptance, and inside the windows around that
\* merge neither did the policy of the view change nor another adoption of the
\* metric, retired ones included, merge (efficacy's docstring).
VerdictIsClean ==
  [][\A p \in Passes, k \in FollowUps :
       corpus'[p] # corpus[p] /\ Raised(k) => OwnComparison(corpus[p], AdoptionOf[k])]_vars

=============================================================================
