---------------------------- MODULE TaskRunProofs ----------------------------
(***************************************************************************)
(* Proofs about TaskRun, for every set of tasks, both modes and every bound. *)
(***************************************************************************)
EXTENDS TaskRun, SequenceTheorems, WellFoundedInduction, TLAPS

----------------------------------------------------------------------------
(***************************************************************************)
(* The graph of commits.  A commit is numbered after its parents, so what   *)
(* it reaches is defined by recursion along the numbers: a function that     *)
(* satisfies the recursion exists, is unique, and does not change as        *)
(* commits are added.  Each is shown by the least commit that would refute  *)
(* it.                                                                     *)
(***************************************************************************)

LEMMA LeastOf ==
  ASSUME NEW S \in SUBSET Nat, S # {}
  PROVE  \E n \in S : \A m \in S : n <= m
  <1> DEFINE Less == {ss \in Nat \X Nat : ss[1] < ss[2]}
  <1>1. IsWellFoundedOn(Less, Nat)
    BY NatLessThanWellFounded DEF OpToRel
  <1> HIDE DEF Less
  <1>2. PICK n \in S : \A m \in S : ~(<<m, n>> \in Less)
    BY <1>1, WFMin
  <1>3. ASSUME NEW m \in S PROVE n <= m
    <2>1. <<m, n>> \in Nat \X Nat /\ ~(<<m, n>>[1] < <<m, n>>[2])
      BY <1>2 DEF Less
    <2> QED
      BY <2>1
  <1> QED
    BY <1>3

\* f holds, for each of the first n commits, itself and what its parents hold.
Closes(f, P, n) == f = [c \in 1..n |-> {c} \cup UNION {f[p] : p \in P[c]}]

Backward(P, n) == \A c \in 1..n : P[c] \subseteq 1..(c - 1)

LEMMA ClosureExists ==
  ASSUME NEW n \in Nat, NEW P, Backward(P, n)
  PROVE  \E f : Closes(f, P, n)
  <1> DEFINE Bad == {m \in Nat : m <= n /\ ~\E f : Closes(f, P, m)}
  <1>1. SUFFICES ASSUME Bad # {} PROVE FALSE
    OBVIOUS
  <1>2. PICK m \in Bad : \A k \in Bad : m <= k
    BY <1>1, LeastOf
  <1>3. m \in Nat /\ m <= n /\ ~\E f : Closes(f, P, m)
    BY <1>2
  <1>4. m # 0
    <2>1. Closes([c \in {} |-> c], P, 0)
      BY DEF Closes
    <2> QED
      BY <1>3, <2>1
  <1>5. m - 1 \in Nat /\ m - 1 <= n /\ m - 1 \notin Bad
    BY <1>2, <1>3, <1>4
  <1>6. PICK f : Closes(f, P, m - 1)
    BY <1>5
  <1> DEFINE g == [c \in 1..m |-> IF c = m THEN {m} \cup UNION {f[p] : p \in P[m]} ELSE f[c]]
  <1>7. \A c \in 1..m : P[c] \subseteq 1..(c - 1)
    BY <1>3 DEF Backward
  <1>8. \A c \in 1..m : \A p \in P[c] : p \in 1..m /\ p # m /\ g[p] = f[p]
    BY <1>3, <1>7
  <1>9. \A c \in 1..m : g[c] = {c} \cup UNION {g[p] : p \in P[c]}
    <2> SUFFICES ASSUME NEW c \in 1..m PROVE g[c] = {c} \cup UNION {g[p] : p \in P[c]}
      OBVIOUS
    <2>1. {g[p] : p \in P[c]} = {f[p] : p \in P[c]}
      BY <1>8
    <2>2. CASE c = m
      BY <2>1, <2>2
    <2>3. CASE c # m
      <3>1. c \in 1..(m - 1) /\ g[c] = f[c]
        BY <1>3, <2>3
      <3> HIDE DEF g
      <3>2. f[c] = {c} \cup UNION {f[p] : p \in P[c]}
        BY <1>6, <3>1 DEF Closes
      <3> QED
        BY <2>1, <3>1, <3>2
    <2> QED
      BY <2>2, <2>3
  <1>10. g = [c \in 1..m |-> g[c]]
    OBVIOUS
  <1> HIDE DEF g
  <1>11. Closes(g, P, m)
    BY <1>9, <1>10 DEF Closes
  <1> QED
    BY <1>3, <1>11

\* Longer graphs, and other solutions, agree on the commits they share.
LEMMA ClosureAgrees ==
  ASSUME NEW m \in Nat, NEW n \in Nat, m <= n, NEW P, NEW Q, NEW f, NEW g,
         Backward(P, m), \A c \in 1..m : P[c] = Q[c], Closes(f, P, m), Closes(g, Q, n)
  PROVE  \A c \in 1..m : f[c] = g[c]
  <1> DEFINE Bad == {c \in 1..m : f[c] # g[c]}
  <1>1. SUFFICES ASSUME Bad # {} PROVE FALSE
    OBVIOUS
  <1>2. PICK c \in Bad : \A d \in Bad : c <= d
    <2>1. Bad \in SUBSET Nat
      OBVIOUS
    <2> HIDE DEF Bad
    <2> QED
      BY <1>1, <2>1, LeastOf
  <1>3. c \in 1..m /\ f[c] # g[c] /\ c \in 1..n
    BY <1>2
  <1>4. \A p \in P[c] : p \in 1..m /\ p < c
    BY <1>3 DEF Backward
  <1>5. \A p \in P[c] : f[p] = g[p]
    BY <1>2, <1>4
  <1>6. {f[p] : p \in P[c]} = {g[p] : p \in Q[c]}
    BY <1>3, <1>5
  <1>7. /\ f[c] = {c} \cup UNION {f[p] : p \in P[c]}
        /\ g[c] = {c} \cup UNION {g[p] : p \in Q[c]}
    BY <1>3 DEF Closes
  <1> QED
    BY <1>3, <1>6, <1>7

\* What is reached has an earlier or the same number, and reaches no more.
LEMMA ClosureIs ==
  ASSUME NEW n \in Nat, NEW P, NEW f, Backward(P, n), Closes(f, P, n)
  PROVE  \A c \in 1..n : /\ f[c] \subseteq 1..c /\ c \in f[c]
                         /\ \A p \in P[c] : f[p] \subseteq f[c]
                         /\ \A a \in f[c] : f[a] \subseteq f[c]
  <1> DEFINE Fine(c) == f[c] \subseteq 1..c /\ \A a \in f[c] : f[a] \subseteq f[c]
             Bad == {c \in 1..n : ~Fine(c)}
  <1>1. \A c \in 1..n : f[c] = {c} \cup UNION {f[p] : p \in P[c]}
    BY DEF Closes
  <1>2. ASSUME Bad # {} PROVE FALSE
    <2>1. PICK c \in Bad : \A d \in Bad : c <= d
      <3>1. Bad \in SUBSET Nat
        OBVIOUS
      <3> HIDE DEF Bad
      <3> QED
        BY <1>2, <3>1, LeastOf
    <2>2. c \in 1..n /\ ~Fine(c)
      BY <2>1
    <2>3. ASSUME NEW p \in P[c] PROVE p \in 1..n /\ p < c /\ Fine(p)
      <3>1. p \in 1..n /\ p < c
        BY <2>2 DEF Backward
      <3> HIDE DEF Fine
      <3> QED
        BY <2>1, <3>1
    <2>4. f[c] \subseteq 1..c
      <3>1. \A p \in P[c] : f[p] \subseteq 1..c
        BY <2>2, <2>3
      <3> QED
        BY <1>1, <2>2, <3>1
    <2>5. ASSUME NEW a \in f[c] PROVE f[a] \subseteq f[c]
      <3>1. CASE a = c
        BY <3>1
      <3>2. CASE a # c
        <4>1. PICK p \in P[c] : a \in f[p]
          BY <1>1, <2>2, <3>2
        <4>2. f[a] \subseteq f[p]
          BY <2>3, <4>1
        <4>3. f[p] \subseteq f[c]
          BY <1>1, <2>2
        <4> QED
          BY <4>2, <4>3
      <3> QED
        BY <3>1, <3>2
    <2> QED
      BY <2>2, <2>4, <2>5
  <1>3. \A c \in 1..n : Fine(c)
    BY <1>2
  <1> QED
    BY <1>1, <1>3

Parents(c) == ToSet(commits[c].parents)

\* The first parent of a commit, if it has one.
First(c) == IF commits[c].parents = <<>> THEN {} ELSE {commits[c].parents[1]}

CommitRec == [parents : Seq(Nat), by : Makers, run : 0..MaxRuns]

\* The graph that TypeOK describes.
Graph ==
  /\ commits \in Seq(CommitRec)
  /\ \A c \in 1..Len(commits) : Parents(c) \subseteq 1..(c - 1)

ParentsOf == [c \in 1..Len(commits) |-> Parents(c)]
FirstOf == [c \in 1..Len(commits) |-> First(c)]

LEMMA AncestorsClose == Graph => Closes(Ancestors, ParentsOf, Len(commits)) /\ Backward(ParentsOf, Len(commits))
  <1> SUFFICES ASSUME Graph
               PROVE  Closes(Ancestors, ParentsOf, Len(commits)) /\ Backward(ParentsOf, Len(commits))
    OBVIOUS
  <1>1. Len(commits) \in Nat /\ DOMAIN commits = 1..Len(commits)
    BY DEF Graph
  <1>2. Backward(ParentsOf, Len(commits))
    BY DEF Graph, Backward, ParentsOf
  <1>3. PICK f : Closes(f, ParentsOf, Len(commits))
    BY <1>1, <1>2, ClosureExists
  <1>4. f = [c \in DOMAIN commits |-> {c} \cup UNION {f[p] : p \in ToSet(commits[c].parents)}]
    BY <1>1, <1>3 DEF Closes, ParentsOf, Parents
  <1>5. Ancestors =
          [c \in DOMAIN commits |-> {c} \cup UNION {Ancestors[p] : p \in ToSet(commits[c].parents)}]
    BY <1>4 DEF Ancestors
  <1>6. Closes(Ancestors, ParentsOf, Len(commits))
    BY <1>1, <1>5 DEF Closes, ParentsOf, Parents
  <1> QED
    BY <1>2, <1>6

LEMMA FirstIsParent ==
  Graph => \A c \in 1..Len(commits) : First(c) \subseteq Parents(c)
  <1> SUFFICES ASSUME Graph, NEW c \in 1..Len(commits), commits[c].parents # <<>>
               PROVE  commits[c].parents[1] \in Parents(c)
    BY DEF First
  <1>1. commits[c].parents \in Seq(Nat)
    <2>1. commits[c] \in CommitRec
      BY ElementOfSeq DEF Graph
    <2> QED
      BY <2>1 DEF CommitRec
  <1> QED
    BY <1>1 DEF Parents, ToSet

LEMMA MainlineCloses == Graph => Closes(Mainline, FirstOf, Len(commits)) /\ Backward(FirstOf, Len(commits))
  <1> SUFFICES ASSUME Graph
               PROVE  Closes(Mainline, FirstOf, Len(commits)) /\ Backward(FirstOf, Len(commits))
    OBVIOUS
  <1>1. Len(commits) \in Nat /\ DOMAIN commits = 1..Len(commits)
    BY DEF Graph
  <1>2. Backward(FirstOf, Len(commits))
    BY FirstIsParent DEF Graph, Backward, FirstOf
  <1>3. PICK f : Closes(f, FirstOf, Len(commits))
    BY <1>1, <1>2, ClosureExists
  <1> DEFINE Line(g, c) == {c} \cup IF commits[c].parents = <<>> THEN {}
                                    ELSE g[commits[c].parents[1]]
  <1>4. \A g : \A c \in 1..Len(commits) :
          Line(g, c) = {c} \cup UNION {g[p] : p \in FirstOf[c]}
    <2> SUFFICES ASSUME NEW g, NEW c \in 1..Len(commits)
                 PROVE  Line(g, c) = {c} \cup UNION {g[p] : p \in FirstOf[c]}
      OBVIOUS
    <2>1. CASE commits[c].parents = <<>>
      BY <2>1 DEF FirstOf, First
    <2>2. CASE commits[c].parents # <<>>
      <3>1. FirstOf[c] = {commits[c].parents[1]}
        BY <2>2 DEF FirstOf, First
      <3> QED
        BY <2>2, <3>1
    <2> QED
      BY <2>1, <2>2
  <1>5. f = [c \in DOMAIN commits |-> Line(f, c)]
    <2> HIDE DEF Line
    <2> QED
      BY <1>1, <1>3, <1>4 DEF Closes
  <1>6. Mainline = [c \in DOMAIN commits |-> Line(Mainline, c)]
    BY <1>5 DEF Mainline
  <1>7. Closes(Mainline, FirstOf, Len(commits))
    <2> HIDE DEF Line
    <2> QED
      BY <1>1, <1>4, <1>6 DEF Closes
  <1> QED
    BY <1>2, <1>7

\* A step that leaves the commits alone, or makes one on top of what is there.
MakesCommit(rec) ==
  /\ rec \in CommitRec /\ ToSet(rec.parents) \subseteq 1..Len(commits)
  /\ commits' = Append(commits, rec)

Grows == commits' = commits \/ \E rec \in CommitRec : MakesCommit(rec)

LEMMA AppendCommit ==
  ASSUME Graph, NEW rec \in CommitRec, commits' = Append(commits, rec)
  PROVE  /\ commits' \in Seq(CommitRec) /\ Len(commits) \in Nat
         /\ Len(commits') = Len(commits) + 1
         /\ \A c \in 1..Len(commits) : commits'[c] = commits[c]
         /\ commits'[Len(commits) + 1] = rec
  BY DEF Graph

LEMMA CommitsStay ==
  ASSUME Graph, Grows
  PROVE  /\ Len(commits) \in Nat /\ Len(commits') \in Nat /\ Len(commits) <= Len(commits')
         /\ DOMAIN commits = 1..Len(commits) /\ DOMAIN commits' = 1..Len(commits')
         /\ \A c \in 1..Len(commits) : commits'[c] = commits[c]
         /\ Graph'
  <1>1. CASE commits' = commits
    BY <1>1 DEF Graph, Parents
  <1>2. CASE \E rec \in CommitRec : MakesCommit(rec)
    <2>1. PICK rec \in CommitRec : MakesCommit(rec)
      BY <1>2
    <2>2. /\ commits' \in Seq(CommitRec) /\ Len(commits) \in Nat
          /\ Len(commits') = Len(commits) + 1
          /\ \A c \in 1..Len(commits) : commits'[c] = commits[c]
          /\ commits'[Len(commits) + 1] = rec
      BY <2>1, AppendCommit DEF MakesCommit
    <2>3. \A c \in 1..Len(commits') : ToSet(commits'[c].parents) \subseteq 1..(c - 1)
      BY <2>1, <2>2 DEF MakesCommit, Graph, Parents
    <2> QED
      BY <2>2, <2>3 DEF Graph, Parents
  <1> QED
    BY <1>1, <1>2 DEF Grows

\* What each commit reaches stays what it reached.
LEMMA AncestorsStay ==
  ASSUME Graph, Grows
  PROVE  \A c \in 1..Len(commits) : Ancestors'[c] = Ancestors[c] /\ Mainline'[c] = Mainline[c]
  <1>1. Graph' /\ Len(commits) \in Nat /\ Len(commits') \in Nat /\ Len(commits) <= Len(commits')
    BY CommitsStay
  <1>2. /\ \A c \in 1..Len(commits) : ParentsOf[c] = ParentsOf'[c]
        /\ \A c \in 1..Len(commits) : FirstOf[c] = FirstOf'[c]
    <2> SUFFICES ASSUME NEW c \in 1..Len(commits)
                 PROVE  ParentsOf[c] = ParentsOf'[c] /\ FirstOf[c] = FirstOf'[c]
      OBVIOUS
    <2>1. c \in 1..Len(commits') /\ commits'[c] = commits[c]
      BY CommitsStay
    <2>2. ParentsOf[c] = ToSet(commits[c].parents) /\ ParentsOf'[c] = ToSet(commits'[c].parents)
      BY <2>1 DEF ParentsOf, Parents
    <2>3. /\ FirstOf[c] = IF commits[c].parents = <<>> THEN {} ELSE {commits[c].parents[1]}
          /\ FirstOf'[c] = IF commits'[c].parents = <<>> THEN {} ELSE {commits'[c].parents[1]}
      BY <2>1 DEF FirstOf, First
    <2> QED
      BY <2>1, <2>2, <2>3
  <1>3. /\ Closes(Ancestors, ParentsOf, Len(commits)) /\ Backward(ParentsOf, Len(commits))
        /\ Closes(Mainline, FirstOf, Len(commits)) /\ Backward(FirstOf, Len(commits))
    BY AncestorsClose, MainlineCloses
  <1>4. /\ Closes(Ancestors', ParentsOf', Len(commits'))
        /\ Closes(Mainline', FirstOf', Len(commits'))
    <2>1. Closes(Ancestors, ParentsOf, Len(commits))' /\ Closes(Mainline, FirstOf, Len(commits))'
      BY <1>1, AncestorsClose, MainlineCloses, PTL
    <2> QED
      BY <2>1 DEF Closes
  <1>5. \A c \in 1..Len(commits) : Ancestors[c] = Ancestors'[c]
    BY <1>1, <1>2, <1>3, <1>4, ClosureAgrees
  <1>6. \A c \in 1..Len(commits) : Mainline[c] = Mainline'[c]
    BY <1>1, <1>2, <1>3, <1>4, ClosureAgrees
  <1> QED
    BY <1>5, <1>6

LEMMA AncestorsAre ==
  ASSUME Graph, NEW c \in 1..Len(commits)
  PROVE  /\ Ancestors[c] \subseteq 1..c /\ c \in Ancestors[c]
         /\ \A a \in Ancestors[c] : Ancestors[a] \subseteq Ancestors[c]
         /\ Ancestors[c] = {c} \cup UNION {Ancestors[p] : p \in Parents(c)}
         /\ Mainline[c] \subseteq 1..c
         /\ Mainline[c] = {c} \cup UNION {Mainline[p] : p \in First(c)}
  <1>1. /\ Closes(Ancestors, ParentsOf, Len(commits)) /\ Backward(ParentsOf, Len(commits))
        /\ Closes(Mainline, FirstOf, Len(commits)) /\ Backward(FirstOf, Len(commits))
    BY AncestorsClose, MainlineCloses
  <1>2. Len(commits) \in Nat
    BY DEF Graph
  <1>3. /\ Ancestors[c] \subseteq 1..c /\ c \in Ancestors[c]
        /\ \A a \in Ancestors[c] : Ancestors[a] \subseteq Ancestors[c]
        /\ Mainline[c] \subseteq 1..c
    BY <1>1, <1>2, ClosureIs
  <1>4. /\ Ancestors[c] = {c} \cup UNION {Ancestors[p] : p \in ParentsOf[c]}
        /\ Mainline[c] = {c} \cup UNION {Mainline[p] : p \in FirstOf[c]}
    BY <1>1 DEF Closes
  <1> QED
    BY <1>3, <1>4 DEF ParentsOf, FirstOf

\* The new commit reaches itself and what its parents reach.
LEMMA NewAncestors ==
  ASSUME Graph, NEW rec \in CommitRec, MakesCommit(rec)
  PROVE  LET new == Len(commits) + 1
         IN  /\ Ancestors'[new] = {new} \cup UNION {Ancestors[p] : p \in ToSet(rec.parents)}
             /\ rec.parents # <<>> =>
                  Mainline'[new] = {new} \cup Mainline[rec.parents[1]]
  <1> DEFINE new == Len(commits) + 1
  <1>1. /\ Graph' /\ new \in 1..Len(commits') /\ commits'[new] = rec /\ Grows
    BY CommitsStay, AppendCommit DEF Grows, MakesCommit
  <1>2. /\ Closes(Ancestors', ParentsOf', Len(commits'))
        /\ Closes(Mainline', FirstOf', Len(commits'))
    <2>1. Closes(Ancestors, ParentsOf, Len(commits))' /\ Closes(Mainline, FirstOf, Len(commits))'
      BY <1>1, AncestorsClose, MainlineCloses, PTL
    <2> QED
      BY <2>1 DEF Closes
  <1>3. /\ ParentsOf'[new] = ToSet(rec.parents)
        /\ rec.parents # <<>> => FirstOf'[new] = {rec.parents[1]}
    BY <1>1 DEF ParentsOf, FirstOf, Parents, First
  <1> HIDE DEF new
  <1>4. /\ Ancestors'[new] = {new} \cup UNION {Ancestors'[p] : p \in ToSet(rec.parents)}
        /\ rec.parents # <<>> =>
             Mainline'[new] = {new} \cup UNION {Mainline'[p] : p \in {rec.parents[1]}}
    BY <1>1, <1>2, <1>3 DEF Closes
  <1>5. ToSet(rec.parents) \subseteq 1..Len(commits)
    BY DEF MakesCommit
  <1>6. {Ancestors'[p] : p \in ToSet(rec.parents)} = {Ancestors[p] : p \in ToSet(rec.parents)}
    BY <1>1, <1>5, AncestorsStay
  <1>7. ASSUME rec.parents # <<>>
        PROVE  UNION {Mainline'[p] : p \in {rec.parents[1]}} = Mainline[rec.parents[1]]
    <2>1. rec.parents[1] \in ToSet(rec.parents)
      BY <1>7 DEF CommitRec, ToSet
    <2>2. Mainline'[rec.parents[1]] = Mainline[rec.parents[1]]
      BY <1>1, <1>5, <2>1, AncestorsStay
    <2> QED
      BY <2>2
  <1> QED
    BY <1>4, <1>6, <1>7 DEF new

----------------------------------------------------------------------------
\* The types

Cmd == [pc : Pcs, task : Tasks \cup {NoTask}, base : Nat, receipt : BOOLEAN, source : Nat,
        pre : Nat, after : Nat, made : Nat, rc : {0, 1},
        net : {"none", "restored", "kept"}, patch : {"none", "applies", "conflicts"},
        diff : BOOLEAN, changed : BOOLEAN, tag : Nat, parked : BOOLEAN, restored : BOOLEAN]

Row == [task : Tasks, sha : Nat, run : Nat, base : Nat]

\* A commit, or none.
Sha == 0..Len(commits)

RepoOK ==
  /\ Graph
  /\ branch \in [Tasks \cup {Base} -> Sha]
  /\ on \in Tasks \cup {Base} /\ branch[on] # None /\ branch[Base] # None

TreeOK ==
  /\ tracked \subseteq Editors /\ litter \in BOOLEAN

RecordsOK ==
  /\ tags \in [Tasks -> Seq(Nat)]
  /\ \A t \in Tasks : ToSet(tags[t]) \subseteq Sha \ {None}
  /\ base \in [Tasks -> Sha]
  /\ open \subseteq Tasks /\ \A t \in open : base[t] # None
  /\ executed \subseteq Row /\ \A row \in executed : {row.sha, row.base} \subseteq Sha \ {None}

CmdOK ==
  /\ cmd \in Cmd /\ (At("idle") <=> cmd = NoRun)
  /\ ~At("idle") => cmd.task \in Tasks /\ (mode = "branch" => cmd.base # None)
  /\ At("create") => mode = "branch"
  /\ {cmd.base, cmd.pre, cmd.after} \subseteq Sha
  /\ mode \in Modes /\ runs \in 0..MaxRuns

TypeInv == RepoOK /\ TreeOK /\ RecordsOK /\ CmdOK

----------------------------------------------------------------------------
\* The inductive invariant

\* In the branch mode a run is on its branch until it settles.
OnItsBranch == {"branched", "unseed", "pxx", "ended", "salvage", "tag", "settle"}
OnTask == mode = "branch" /\ cmd.pc \in OnItsBranch => on = cmd.task

\* The tag the run knows of is on its commit.
TagHolds ==
  /\ cmd.pc \in {"create"} \cup (OnItsBranch \ {"settle"}) => cmd.tag = None
  /\ cmd.tag # None => cmd.tag = cmd.after /\ cmd.after \in ToSet(tags[cmd.task])

\* What a run that says it returned the checkout relies on.
Restored ==
  cmd.restored =>
    /\ mode = "branch" /\ cmd.pc \in {"receipt", "record", "finish"}
    /\ on = Base /\ Clean
    /\ "read" \notin Faults => branch[cmd.task] = None

RunInv == OnTask /\ TagHolds /\ Restored /\ ExecutedIsPinned /\ BaseHoldsOnlyMerges

\* All that a commit adds to the run's base is the run's.
Between(b, x, run) ==
  b \in Ancestors[x] /\ \A c \in Ancestors[x] \ Ancestors[b] : commits[c].run = run

OfThisRun(x) == Between(cmd.base, x, runs)

Candidate(x) == OfThisRun(x) /\ (x = cmd.pre \/ commits[x].by = "pxx")

\* pxx started from the base, or from a seed on it.
NoWork(b, x) == \A c \in Ancestors[x] \ Ancestors[b] : commits[c].by # "pxx"

StartedClean == cmd.pre # None /\ NoWork(cmd.base, cmd.pre)

OwnWork ==
  /\ cmd.pc \in {"branched", "unseed"} => Tip = cmd.base
  /\ cmd.pc \in {"pxx", "ended"} => Candidate(Tip)
  /\ cmd.pc \in OnItsBranch \ {"branched", "unseed"} => StartedClean
  /\ cmd.pc \in {"salvage", "tag", "settle"} => cmd.after = Tip
  /\ cmd.pc \in {"salvage", "tag", "settle", "receipt", "record", "finish"} =>
       cmd.after # None /\ Candidate(cmd.after)
  /\ cmd.pc = "settle" => cmd.parked \/ cmd.tag = cmd.after \/ cmd.after = cmd.pre

\* What tasks were admitted at is still on the base branch.
BasesStay ==
  /\ \A t \in Tasks : base[t] # None => base[t] \in Ancestors[branch[Base]]
  /\ ~At("idle") => cmd.base \in Ancestors[branch[Base]]

\* The inline mode has no branches.
Inline == on = Base /\ (\A t \in Tasks : branch[t] = None)

WorkInv ==
  /\ mode = "branch" => OwnWork /\ BasesStay
  /\ mode = "inline" => Inline
  /\ CandidateIsThisRun
  /\ PxxWorkIsHeld

----------------------------------------------------------------------------
\* What a step does to the repository

LEMMA Around ==
  ASSUME TypeInv
  PROVE  /\ Graph /\ Len(commits) \in Nat /\ DOMAIN commits = 1..Len(commits)
         /\ DOMAIN branch = Tasks \cup {Base} /\ Base \notin Tasks /\ NoTask \notin Tasks
         /\ Tip \in 1..Len(commits) /\ branch[Base] \in 1..Len(commits)
         /\ \A t \in Tasks : branch[t] \in 0..Len(commits)
         /\ mode \in {"branch", "inline"}
  BY TaskRunAssumption DEF TypeInv, RepoOK, Graph, CmdOK, Sha, Tip, None

\* A commit on the checked-out branch, on top of what was there.
Commits(rec) ==
  /\ rec \in CommitRec /\ MakesCommit(rec) /\ rec.parents # <<>> /\ rec.parents[1] = Tip
  /\ branch' = [branch EXCEPT ![on] = Len(commits) + 1] /\ on' = on

LEMMA OneParent ==
  ASSUME NEW c \in Nat
  PROVE  <<c>> \in Seq(Nat) /\ ToSet(<<c>>) = {c} /\ <<c>> # <<>> /\ <<c>>[1] = c
  BY DEF ToSet

LEMMA TwoParents ==
  ASSUME NEW c \in Nat, NEW d \in Nat
  PROVE  /\ <<c, d>> \in Seq(Nat) /\ ToSet(<<c, d>>) = {c, d} /\ <<c, d>> # <<>>
         /\ <<c, d>>[1] = c /\ <<c, d>>[2] = d
  BY DEF ToSet

LEMMA Committed ==
  ASSUME TypeInv, NEW by \in Makers, NEW run \in 0..MaxRuns, Commit(<<Tip>>, by, run), on' = on
  PROVE  Commits([parents |-> <<Tip>>, by |-> by, run |-> run])
  <1>1. Tip \in Nat /\ Tip \in 1..Len(commits)
    BY Around
  <1>2. [parents |-> <<Tip>>, by |-> by, run |-> run] \in CommitRec
    BY <1>1, OneParent DEF CommitRec
  <1> QED
    BY <1>1, <1>2, OneParent DEF Commits, MakesCommit, Commit

LEMMA Merged ==
  ASSUME TypeInv, NEW sha \in 1..Len(commits), Commit(<<Tip, sha>>, "merge", 0), on' = on
  PROVE  Commits([parents |-> <<Tip, sha>>, by |-> "merge", run |-> 0])
  <1>1. Tip \in Nat /\ Tip \in 1..Len(commits) /\ sha \in Nat
    BY Around
  <1>2. [parents |-> <<Tip, sha>>, by |-> "merge", run |-> 0] \in CommitRec
    BY <1>1, TwoParents, TaskRunAssumption DEF CommitRec, Makers
  <1> QED
    BY <1>1, <1>2, TwoParents DEF Commits, MakesCommit, Commit

\* A branch whose commits are elsewhere is made, or deleted.
Creates ==
  /\ At("create") /\ branch[cmd.task] = None /\ cmd.task \in Tasks
  /\ branch' = [branch EXCEPT ![cmd.task] = cmd.base] /\ on' = cmd.task
  /\ UNCHANGED commits

Returns ==
  /\ cmd.pc \in {"unseed", "settle"} /\ mode = "branch" /\ cmd.task \in Tasks
  /\ on' \in {on, Base} /\ UNCHANGED commits
  /\ \/ UNCHANGED branch
     \/ /\ branch' = [branch EXCEPT ![cmd.task] = None] /\ on' = Base

RepoRests == UNCHANGED <<commits, branch, on>>

RepoMoves ==
  \/ RepoRests
  \/ /\ SeedCommitted \/ PxxCommits \/ Merge
     /\ \E rec \in CommitRec : Commits(rec)
  \/ Create /\ Creates
  \/ (LeaveEmptyBranch \/ Settle) /\ Returns
  \/ PersonReturns

LEMMA RepoMove == TypeInv /\ Next => RepoMoves
  <1> SUFFICES ASSUME TypeInv, Next PROVE RepoMoves
    OBVIOUS
  <1>1. ~At("idle") => cmd.task \in Tasks
    BY DEF TypeInv, CmdOK
  <1>2. runs \in 0..MaxRuns
    BY DEF TypeInv, CmdOK
  <1>3. CASE SeedCommitted
    <2>1. Commits([parents |-> <<Tip>>, by |-> "seed", run |-> runs])
      BY <1>2, <1>3, Committed DEF SeedCommitted, Makers
    <2> QED
      BY <1>3, <2>1 DEF RepoMoves, Commits
  <1>4. CASE PxxCommits
    <2>1. Commits([parents |-> <<Tip>>, by |-> "pxx", run |-> runs])
      BY <1>2, <1>4, Committed DEF PxxCommits, Makers
    <2> QED
      BY <1>4, <2>1 DEF RepoMoves, Commits
  <1>5. CASE Merge
    <2>1. PICK row \in executed : Commit(<<Tip, row.sha>>, "merge", 0) /\ on' = on
      BY <1>5 DEF Merge
    <2>2. row.sha \in 1..Len(commits)
      BY Around DEF TypeInv, RecordsOK, Sha, None
    <2>3. Commits([parents |-> <<Tip, row.sha>>, by |-> "merge", run |-> 0])
      BY <2>1, <2>2, Merged
    <2> QED
      BY <1>5, <2>3 DEF RepoMoves, Commits
  <1>6. CASE Create
    BY <1>1, <1>6 DEF Create, At, Creates, RepoMoves, RepoRests, None
  <1>7. CASE Settle
    BY <1>1, <1>7 DEF Settle, At, ReturnToBase, Returns, RepoMoves, RepoRests
  <1>8. CASE LeaveEmptyBranch
    BY <1>1, <1>8 DEF LeaveEmptyBranch, At, ReturnToBase, Returns, RepoMoves, RepoRests
  <1>9. CASE PersonReturns
    BY <1>9 DEF RepoMoves
  <1>10. CASE \E t \in Tasks : Admit(t) \/ \E receipt \in BOOLEAN : Start(t, receipt)
    BY <1>10 DEF Admit, Start, RepoMoves, RepoRests, repoVars
  <1>11. CASE NoSeed \/ SeedRefused \/ PxxCompletes \/ PxxResets \/ PxxRefusesToReset
    BY <1>11 DEF NoSeed, SeedRefused, PxxCompletes, PxxResets, PxxRefusesToReset, RepoMoves,
         RepoRests, repoVars
  <1>12. CASE ReadBack \/ Salvage \/ Tag \/ Receipt \/ Record \/ Finish \/ Kill \/ PersonEdits
    BY <1>12 DEF ReadBack, Salvage, Tag, Receipt, Record, Finish, Kill, PersonEdits, RepoMoves,
         RepoRests, repoVars
  <1> QED
    BY <1>3, <1>4, <1>5, <1>6, <1>7, <1>8, <1>9, <1>10, <1>11, <1>12 DEF Next

----------------------------------------------------------------------------
\* The types hold

LEMMA InitTyped == Init => TypeInv
  <1> SUFFICES ASSUME Init PROVE TypeInv
    OBVIOUS
  <1> USE TaskRunAssumption DEF Init, None
  <1> DEFINE first == [parents |-> <<>>, by |-> "human", run |-> 0]
  <1>1. first \in CommitRec /\ ToSet(first.parents) = {}
    BY DEF CommitRec, Makers, ToSet
  <1>2. commits = <<first>> /\ Len(commits) = 1 /\ commits[1] = first
    OBVIOUS
  <1> HIDE DEF first
  <1>3. Graph
    BY <1>1, <1>2 DEF Graph, Parents
  <1>4. RepoOK
    BY <1>2, <1>3 DEF RepoOK, Sha
  <1>5. TreeOK
    BY DEF TreeOK
  <1>6. RecordsOK
    BY DEF RecordsOK, ToSet, Sha
  <1>7. NoRun \in Cmd
    BY DEF NoRun, Cmd, Pcs
  <1>8. CmdOK
    <2>1. NoRun.pc = "idle" /\ NoRun.base = 0 /\ NoRun.pre = 0 /\ NoRun.after = 0
      BY DEF NoRun
    <2>2. cmd = NoRun /\ runs = 0 /\ mode \in Modes /\ Len(commits) = 1
      BY <1>2
    <2> QED
      BY <1>7, <2>1, <2>2 DEF CmdOK, At, Sha
  <1> QED
    BY <1>4, <1>5, <1>6, <1>8 DEF TypeInv

LEMMA RepoTyped ==
  ASSUME TypeInv, RepoMoves
  PROVE  RepoOK' /\ Grows
  <1> USE DEF RepoOK, Sha, None
  <1>1. RepoOK /\ Graph /\ Len(commits) \in Nat /\ Base \notin Tasks
    BY Around DEF TypeInv
  <1>2. CASE RepoRests
    BY <1>1, <1>2, CommitsStay DEF RepoRests, Grows
  <1>3. CASE \E rec \in CommitRec : Commits(rec)
    <2>1. PICK rec \in CommitRec : Commits(rec)
      BY <1>3
    <2>2. Grows
      BY <2>1 DEF Commits, Grows
    <2>3. Graph' /\ Len(commits') = Len(commits) + 1
      BY <1>1, <2>1, <2>2, CommitsStay, AppendCommit DEF Commits, MakesCommit
    <2>4. branch' \in [Tasks \cup {Base} -> 0..Len(commits')]
      BY <1>1, <2>1, <2>3 DEF Commits
    <2>5. on' = on /\ branch'[on] = Len(commits) + 1 /\ branch'[Base] \in {branch[Base], Len(commits) + 1}
      BY <1>1, <2>1 DEF Commits
    <2> QED
      BY <1>1, <2>2, <2>3, <2>4, <2>5
  <1>4. CASE Creates
    <2>1. cmd.base \in 1..Len(commits)
      BY <1>4 DEF TypeInv, CmdOK, At, Creates
    <2>2. Grows /\ Graph'
      BY <1>1, <1>4, CommitsStay DEF Creates, Grows
    <2> QED
      BY <1>1, <1>4, <2>1, <2>2 DEF Creates
  <1>5. CASE Returns
    <2>1. Grows /\ Graph'
      BY <1>1, <1>5, CommitsStay DEF Returns, Grows
    <2> QED
      BY <1>1, <1>5, <2>1 DEF Returns
  <1>6. CASE PersonReturns
    <2>1. Grows /\ Graph'
      BY <1>1, <1>6, CommitsStay DEF PersonReturns, Grows
    <2>2. PICK gone \in SUBSET {t \in Tasks : branch[t] # None} :
            branch' = [b \in DOMAIN branch |-> IF b \in gone THEN None ELSE branch[b]]
      BY <1>6 DEF PersonReturns
    <2>3. branch' \in [Tasks \cup {Base} -> 0..Len(commits)] /\ branch'[Base] = branch[Base]
      BY <1>1, <2>2
    <2> QED
      BY <1>1, <1>6, <2>1, <2>3 DEF PersonReturns
  <1> QED
    BY <1>2, <1>3, <1>4, <1>5, <1>6 DEF RepoMoves

LEMMA TreeTyped == TypeInv /\ Next => TreeOK'
  <1> SUFFICES ASSUME TypeInv, Next PROVE TreeOK'
    OBVIOUS
  <1> USE DEF TreeOK, Editors
  <1>1. TreeOK
    BY DEF TypeInv
  <1>2. \/ UNCHANGED <<tracked, litter>>
        \/ SeedRefused \/ PxxCompletes \/ PxxResets \/ PxxRefusesToReset \/ Salvage
        \/ PersonEdits \/ PersonReturns
    <2>1. CASE \E t \in Tasks : Admit(t) \/ \E receipt \in BOOLEAN : Start(t, receipt)
      BY <2>1 DEF Admit, Start, repoVars
    <2>2. CASE Create \/ NoSeed \/ SeedCommitted \/ LeaveEmptyBranch \/ PxxCommits \/ ReadBack
      BY <2>2 DEF Create, NoSeed, SeedCommitted, LeaveEmptyBranch, PxxCommits, ReadBack, repoVars
    <2>3. CASE Tag \/ Settle \/ Receipt \/ Record \/ Finish \/ Kill \/ Merge
      BY <2>3 DEF Tag, Settle, Receipt, Record, Finish, Kill, Merge, repoVars
    <2> QED
      BY <2>1, <2>2, <2>3 DEF Next
  <1>3. CASE UNCHANGED <<tracked, litter>>
    BY <1>1, <1>3
  <1>4. CASE SeedRefused
    BY <1>1, <1>4 DEF SeedRefused
  <1>5. CASE PxxCompletes \/ PxxResets \/ PxxRefusesToReset
    BY <1>1, <1>5 DEF PxxCompletes, PxxResets, PxxRefusesToReset, PxxLeaves
  <1>6. CASE Salvage
    BY <1>1, <1>6 DEF Salvage
  <1>7. CASE PersonEdits \/ PersonReturns
    BY <1>1, <1>7 DEF PersonEdits, PersonReturns
  <1> QED
    BY <1>2, <1>3, <1>4, <1>5, <1>6, <1>7

\* Rows and tags are only added.
TagsGrow == \A t \in Tasks : ToSet(tags[t]) \subseteq ToSet(tags'[t])

LEMMA Appended ==
  ASSUME NEW s \in Seq(Nat), NEW e \in Nat
  PROVE  Append(s, e) \in Seq(Nat) /\ ToSet(Append(s, e)) = ToSet(s) \cup {e}
  <1> DEFINE r == Append(s, e)
  <1>1. /\ r \in Seq(Nat) /\ Len(s) \in Nat /\ DOMAIN s = 1..Len(s) /\ DOMAIN r = 1..(Len(s) + 1)
        /\ r[Len(s) + 1] = e /\ \A i \in 1..Len(s) : r[i] = s[i]
    OBVIOUS
  <1> HIDE DEF r
  <1>2. ToSet(r) \subseteq ToSet(s) \cup {e}
    <2> SUFFICES ASSUME NEW i \in 1..(Len(s) + 1) PROVE r[i] \in ToSet(s) \cup {e}
      BY <1>1 DEF ToSet
    <2>1. i \in 1..Len(s) \/ i = Len(s) + 1
      BY <1>1
    <2> QED
      BY <1>1, <2>1 DEF ToSet
  <1>3. ToSet(s) \cup {e} \subseteq ToSet(r)
    <2>1. \A i \in 1..Len(s) : i \in DOMAIN r /\ s[i] = r[i]
      BY <1>1
    <2>2. Len(s) + 1 \in DOMAIN r
      BY <1>1
    <2> QED
      BY <1>1, <2>1, <2>2 DEF ToSet
  <1> QED
    BY <1>1, <1>2, <1>3 DEF r

LEMMA Tagged ==
  ASSUME TypeInv, NEW t \in Tasks, NEW sha \in 1..Len(commits), TagCandidate(t, sha)
  PROVE  /\ tags' \in [Tasks -> Seq(Nat)] /\ sha \in ToSet(tags'[t])
         /\ \A u \in Tasks : /\ ToSet(tags[u]) \subseteq ToSet(tags'[u])
                             /\ ToSet(tags'[u]) \subseteq ToSet(tags[u]) \cup {sha}
  <1>1. tags \in [Tasks -> Seq(Nat)] /\ sha \in Nat
    BY Around DEF TypeInv, RecordsOK
  <1>2. PICK new : /\ tags' = [tags EXCEPT ![t] = new]
                   /\ new = IF sha \in ToSet(tags[t]) THEN tags[t] ELSE Append(tags[t], sha)
    BY DEF TagCandidate
  <1>3. tags[t] \in Seq(Nat)
    BY <1>1
  <1>4. /\ new \in Seq(Nat) /\ sha \in ToSet(new)
        /\ ToSet(tags[t]) \subseteq ToSet(new) /\ ToSet(new) \subseteq ToSet(tags[t]) \cup {sha}
    <2>1. CASE sha \in ToSet(tags[t])
      BY <1>2, <1>3, <2>1
    <2>2. CASE sha \notin ToSet(tags[t])
      <3>1. new = Append(tags[t], sha)
        BY <1>2, <2>2
      <3> QED
        BY <1>1, <1>3, <3>1, Appended
    <2> QED
      BY <2>1, <2>2
  <1>5. \A u \in Tasks : tags'[u] = IF u = t THEN new ELSE tags[u]
    BY <1>1, <1>2
  <1>6. tags' \in [Tasks -> Seq(Nat)]
    BY <1>1, <1>2, <1>4
  <1> QED
    BY <1>4, <1>5, <1>6

\* The row of a recorded execution.
NewRow == [task |-> cmd.task, sha |-> cmd.after, run |-> runs,
           base |-> IF mode = "branch" THEN cmd.base ELSE base[cmd.task]]

Records ==
  /\ At("record") /\ HasCandidate /\ cmd.task \in open
  /\ executed' = executed \cup {NewRow} /\ open' = open \ {cmd.task}
  /\ RepoRests /\ UNCHANGED <<tags, base, tracked, litter>>

Tags ==
  /\ At("tag") /\ mode = "branch" /\ Moved /\ TagCandidate(cmd.task, cmd.after)
  /\ cmd' = [cmd EXCEPT !.pc = "settle", !.tag = cmd.after]
  /\ RepoRests /\ UNCHANGED <<base, open, executed, tracked, litter>>

RecordMoves ==
  \/ UNCHANGED <<tags, base, open, executed>>
  \/ Tags
  \/ Record /\ Records
  \/ \E t \in Tasks : Admit(t)

LEMMA RecordMove == Next => RecordMoves
  <1> SUFFICES ASSUME Next PROVE RecordMoves
    OBVIOUS
  <1>1. CASE Tag
    BY <1>1 DEF Tag, Tags, RecordMoves, ledgerVars, RepoRests
  <1>2. CASE Record
    BY <1>2 DEF Record, Records, RecordMoves, NewRow, repoVars, RepoRests
  <1>3. CASE \E t \in Tasks : Admit(t) \/ \E receipt \in BOOLEAN : Start(t, receipt)
    BY <1>3 DEF Start, RecordMoves, repoVars, ledgerVars
  <1>4. CASE Create \/ NoSeed \/ SeedCommitted \/ SeedRefused \/ LeaveEmptyBranch
    BY <1>4 DEF Create, NoSeed, SeedCommitted, SeedRefused, LeaveEmptyBranch, RecordMoves,
         repoVars, ledgerVars
  <1>5. CASE PxxCommits \/ PxxCompletes \/ PxxResets \/ PxxRefusesToReset \/ ReadBack \/ Salvage
    BY <1>5 DEF PxxCommits, PxxCompletes, PxxResets, PxxRefusesToReset, ReadBack, Salvage,
         RecordMoves, repoVars, ledgerVars
  <1>6. CASE Settle \/ Receipt \/ Finish \/ Kill \/ Merge \/ PersonEdits \/ PersonReturns
    BY <1>6 DEF Settle, Receipt, Finish, Kill, Merge, PersonEdits, PersonReturns,
         RecordMoves, repoVars, ledgerVars
  <1> QED
    BY <1>1, <1>2, <1>3, <1>4, <1>5, <1>6 DEF Next

LEMMA RecordsTyped ==
  ASSUME TypeInv, Grows, RecordMoves
  PROVE  RecordsOK' /\ TagsGrow /\ executed \subseteq executed'
  <1> USE DEF RecordsOK, Sha, None
  <1>1. /\ Len(commits) \in Nat /\ Len(commits') \in Nat /\ Len(commits) <= Len(commits')
        /\ RecordsOK
    BY CommitsStay, Around DEF TypeInv
  <1>2. CASE UNCHANGED <<tags, base, open, executed>>
    BY <1>1, <1>2 DEF TagsGrow
  <1>3. CASE Tags
    <2>1. cmd.task \in Tasks /\ cmd.after \in 1..Len(commits)
      BY <1>3 DEF TypeInv, CmdOK, Tags, Moved, At
    <2>2. TagCandidate(cmd.task, cmd.after)
      BY <1>3 DEF Tags
    <2>3. /\ tags' \in [Tasks -> Seq(Nat)] /\ TagsGrow
          /\ \A t \in Tasks : ToSet(tags'[t]) \subseteq ToSet(tags[t]) \cup {cmd.after}
      BY <2>1, <2>2, Tagged DEF TagsGrow
    <2> QED
      BY <1>1, <1>3, <2>1, <2>3 DEF Tags
  <1>4. CASE Records
    <2>1. /\ cmd.task \in Tasks /\ cmd.after \in 1..Len(commits) /\ runs \in Nat
          /\ mode = "branch" => cmd.base \in 1..Len(commits)
      BY <1>4, TaskRunAssumption DEF TypeInv, CmdOK, Records, HasCandidate, At
    <2>2. base[cmd.task] \in 1..Len(commits)
      BY <1>1, <1>4, <2>1 DEF Records
    <2>3. NewRow \in Row /\ {NewRow.sha, NewRow.base} \subseteq 1..Len(commits)
      BY <1>1, <2>1, <2>2 DEF NewRow, Row
    <2>4. executed' = executed \cup {NewRow}
      BY <1>4 DEF Records
    <2>5. executed' \subseteq Row /\ \A row \in executed' : {row.sha, row.base} \subseteq 1..Len(commits)
      BY <1>1, <2>3, <2>4
    <2> QED
      BY <1>1, <1>4, <2>4, <2>5 DEF Records, TagsGrow
  <1>5. CASE \E t \in Tasks : Admit(t)
    <2>1. PICK t \in Tasks : Admit(t)
      BY <1>5
    <2>2. branch[Base] \in 1..Len(commits)
      BY Around
    <2>3. /\ base' = [base EXCEPT ![t] = branch[Base]] /\ open' = open \cup {t}
          /\ UNCHANGED <<tags, executed, commits>>
      BY <2>1 DEF Admit, repoVars
    <2>4. base' \in [Tasks -> 0..Len(commits)] /\ \A u \in open' : base'[u] # None
      BY <1>1, <2>2, <2>3
    <2> QED
      BY <1>1, <2>3, <2>4 DEF TagsGrow
  <1> QED
    BY <1>2, <1>3, <1>4, <1>5 DEF RecordMoves

----------------------------------------------------------------------------
\* What a step does to the run in progress

Runs(from, to) ==
  /\ cmd \in Cmd /\ At(from) /\ cmd' \in Cmd /\ At(to)'
  /\ cmd'.task = cmd.task /\ cmd'.base = cmd.base

SameHeads == cmd'.pre = cmd.pre /\ cmd'.after = cmd.after
SamePosture == cmd'.tag = cmd.tag /\ cmd'.parked = cmd.parked /\ cmd'.restored = cmd.restored
Plain(from, to) == Runs(from, to) /\ SameHeads /\ SamePosture

Begins(t) ==
  /\ At("idle") /\ cmd' \in Cmd /\ RepoRests
  /\ cmd'.pc = (IF mode = "branch" THEN "create" ELSE "branched") /\ cmd'.task = t
  /\ cmd'.base = (IF mode = "branch" THEN base[t] ELSE None) /\ (mode = "branch" => base[t] # None)
  /\ cmd'.pre = None /\ cmd'.after = None /\ cmd'.tag = None /\ ~cmd'.parked /\ ~cmd'.restored

Ends == ~At("idle") /\ cmd' = NoRun

\* pxx starts, on the base or on a seed.
StartsPxx(head) ==
  /\ Runs("branched", "pxx") /\ cmd'.after = cmd.after /\ SamePosture
  /\ \E pre \in BestEffort(head) : cmd'.pre = IF mode = "branch" THEN pre ELSE None

MadeBy(by, rec) ==
  /\ Commits(rec) /\ rec.by = by /\ rec.run = runs /\ ToSet(rec.parents) = {Tip}

ReadsBack ==
  /\ Runs("ended", "salvage") /\ cmd'.pre = cmd.pre /\ SamePosture
  /\ cmd'.after \in BestEffort(Tip) \cup {None}
  /\ mode = "branch" => cmd'.after \in BestEffort(Tip)

\* The tag is on the commit, or could not be made, or is not needed.
SettlesTag ==
  /\ Runs("tag", "settle") /\ SameHeads /\ cmd'.restored = cmd.restored /\ RepoRests
  /\ \/ Tags /\ cmd'.tag = cmd.after /\ cmd'.parked = cmd.parked
     \/ cmd'.tag = cmd.tag /\ cmd'.parked
     \/ cmd'.tag = cmd.tag /\ cmd'.parked = cmd.parked /\ ~(mode = "branch" /\ Moved)

SettlesBranch ==
  /\ Runs("settle", "receipt") /\ SameHeads /\ cmd'.tag = cmd.tag
  /\ mode = "branch" /\ ~cmd.parked /\ Returns /\ UNCHANGED <<tracked, litter>>
  /\ UNCHANGED branch \/ (cmd'.restored /\ branch' = [branch EXCEPT ![cmd.task] = None])
  /\ cmd'.restored => on' = Base /\ Clean /\ ("read" \notin Faults => branch'[cmd.task] = None)

PlainSteps == {<<"branched", "unseed">>, <<"pxx", "ended">>, <<"salvage", "tag">>,
               <<"settle", "receipt">>, <<"receipt", "record">>, <<"record", "finish">>}

\* Steps of others, and ends.
Elsewhere ==
  \/ (\E t \in Tasks : Admit(t)) \/ Merge \/ PersonEdits \/ PersonReturns

CmdMoves ==
  \/ Elsewhere /\ UNCHANGED cmd
  \/ Ends /\ (RepoRests \/ (LeaveEmptyBranch /\ Returns))
  \/ \E t \in Tasks : Begins(t)
  \/ Create /\ Creates /\ Plain("create", "branched")
  \/ \E ss \in PlainSteps : Plain(ss[1], ss[2]) /\ RepoRests
  \/ RepoRests /\ StartsPxx(Tip)
  \/ (\E rec \in CommitRec : MadeBy("seed", rec)) /\ StartsPxx(Len(commits) + 1)
  \/ (\E rec \in CommitRec : MadeBy("pxx", rec)) /\ Plain("pxx", "pxx")
  \/ ReadsBack /\ RepoRests
  \/ SettlesTag
  \/ SettlesBranch

LEMMA StepsPlainly ==
  ASSUME cmd \in Cmd, NEW from, NEW to \in Pcs, At(from), Step(to)
  PROVE  Plain(from, to)
  BY DEF Cmd, At, Step, Plain, Runs, SameHeads, SamePosture

LEMMA GoesPxx ==
  ASSUME cmd \in Cmd, Len(commits) \in Nat, Tip \in Nat, NEW head \in Nat,
         At("branched"), GoPxx(head)
  PROVE  StartsPxx(head)
  <1>1. PICK source \in BestEffort(Tip), pre \in BestEffort(head) :
          cmd' = [cmd EXCEPT !.pc = "pxx",
                             !.source = IF cmd.receipt THEN source ELSE None,
                             !.pre = IF mode = "branch" THEN pre ELSE None]
    BY DEF GoPxx
  <1>2. source \in Nat /\ pre \in Nat
    BY DEF BestEffort, None
  <1>3. /\ cmd' \in Cmd /\ At("pxx")' /\ cmd'.task = cmd.task /\ cmd'.base = cmd.base
        /\ cmd'.after = cmd.after /\ SamePosture
        /\ cmd'.pre = IF mode = "branch" THEN pre ELSE None
    BY <1>1, <1>2 DEF Cmd, At, Pcs, SamePosture, None
  <1> QED
    BY <1>3 DEF StartsPxx, Runs

LEMMA CmdMove == TypeInv /\ Next => CmdMoves
  <1> SUFFICES ASSUME TypeInv, Next PROVE CmdMoves
    OBVIOUS
  <1>0. /\ cmd \in Cmd /\ Len(commits) \in Nat /\ Tip \in Nat
        /\ At("idle") <=> cmd = NoRun
        /\ ~At("idle") => cmd.task \in Tasks
        /\ runs \in 0..MaxRuns
    BY Around DEF TypeInv, CmdOK
  <1>1. CASE (\E t \in Tasks : Admit(t)) \/ Merge \/ PersonEdits \/ PersonReturns
    BY <1>1 DEF Admit, Merge, PersonEdits, PersonReturns, Elsewhere, CmdMoves
  <1>2. CASE \E t \in Tasks : \E receipt \in BOOLEAN : Start(t, receipt)
    <2>1. PICK t \in Tasks, receipt \in BOOLEAN : Start(t, receipt)
      BY <1>2
    <2>2. base[t] \in Nat /\ NoRun \in Cmd
      <3>1. base[t] \in 0..Len(commits)
        BY DEF TypeInv, RecordsOK, Sha
      <3> QED
        BY <1>0, <3>1 DEF NoRun, Cmd, Pcs, None
    <2>3. cmd' = [NoRun EXCEPT !.pc = IF mode = "branch" THEN "create" ELSE "branched",
                          !.task = t, !.receipt = receipt,
                          !.base = IF mode = "branch" THEN base[t] ELSE None]
      BY <2>1 DEF Start
    <2>4. At("idle") /\ RepoRests /\ (mode = "branch" => base[t] # None)
      BY <2>1 DEF Start, RepoRests, repoVars
    <2>5. Begins(t)
      BY <2>2, <2>3, <2>4 DEF Begins, NoRun, Cmd, Pcs, None
    <2> QED
      BY <2>5 DEF CmdMoves
  <1>3. CASE Create
    <2>1. CASE Exit("error") /\ RepoRests /\ At("create")
      BY <2>1 DEF Exit, Ends, CmdMoves, At
    <2>2. CASE ~(Exit("error") /\ RepoRests)
      <3>1. At("create") /\ Step("branched") /\ Creates
        BY <1>0, <1>3, <2>2 DEF Create, Creates, RepoRests, At
      <3>2. Plain("create", "branched")
        BY <1>0, <3>1, StepsPlainly DEF Pcs
      <3> QED
        BY <1>3, <3>1, <3>2 DEF CmdMoves
    <2> QED
      BY <1>3, <2>1, <2>2 DEF Create
  <1>4. CASE NoSeed
    <2>1. StartsPxx(Tip) /\ RepoRests
      BY <1>0, <1>4, GoesPxx DEF NoSeed, RepoRests, repoVars
    <2> QED
      BY <2>1 DEF CmdMoves
  <1>5. CASE SeedCommitted
    <2>1. StartsPxx(Len(commits) + 1)
      BY <1>0, <1>5, GoesPxx DEF SeedCommitted
    <2>2. Commits([parents |-> <<Tip>>, by |-> "seed", run |-> runs])
      BY <1>0, <1>5, Committed DEF SeedCommitted, Makers
    <2>3. MadeBy("seed", [parents |-> <<Tip>>, by |-> "seed", run |-> runs])
      BY <1>0, <2>2, OneParent DEF MadeBy
    <2> QED
      BY <2>1, <2>2, <2>3 DEF CmdMoves, Commits
  <1>6. CASE SeedRefused
    <2>1. Plain("branched", "unseed") /\ RepoRests
      BY <1>0, <1>6, StepsPlainly DEF SeedRefused, Pcs, RepoRests
    <2> QED
      BY <2>1 DEF CmdMoves, PlainSteps
  <1>7. CASE LeaveEmptyBranch
    <2>1. Ends
      BY <1>7 DEF LeaveEmptyBranch, Ends, Exit, At
    <2>2. RepoRests \/ Returns
      BY <1>0, <1>7 DEF LeaveEmptyBranch, At, ReturnToBase, Returns, RepoRests
    <2> QED
      BY <1>7, <2>1, <2>2 DEF CmdMoves
  <1>8. CASE PxxCommits
    <2>1. Commits([parents |-> <<Tip>>, by |-> "pxx", run |-> runs])
      BY <1>0, <1>8, Committed DEF PxxCommits, Makers
    <2>2. MadeBy("pxx", [parents |-> <<Tip>>, by |-> "pxx", run |-> runs])
      BY <1>0, <2>1, OneParent DEF MadeBy
    <2>3. Plain("pxx", "pxx")
      BY <1>0, <1>8 DEF PxxCommits, Plain, Runs, At, Cmd, SameHeads, SamePosture
    <2> QED
      BY <2>1, <2>2, <2>3 DEF CmdMoves, Commits
  <1>9. CASE PxxCompletes \/ PxxResets \/ PxxRefusesToReset
    <2>1. RepoRests
      BY <1>9 DEF PxxCompletes, PxxResets, PxxRefusesToReset, RepoRests
    <2>2. ASSUME PxxCompletes PROVE Plain("pxx", "ended")
      BY <1>0, <2>2, StepsPlainly DEF PxxCompletes, Pcs
    <2>3. ASSUME PxxResets PROVE Plain("pxx", "ended")
      BY <1>0, <2>3 DEF PxxResets, Plain, Runs, At, Cmd, Pcs, SameHeads, SamePosture
    <2>4. ASSUME PxxRefusesToReset PROVE Plain("pxx", "ended")
      BY <1>0, <2>4 DEF PxxRefusesToReset, Plain, Runs, At, Cmd, Pcs, SameHeads, SamePosture
    <2>5. Plain("pxx", "ended")
      BY <1>9, <2>2, <2>3, <2>4
    <2> QED
      BY <2>1, <2>5 DEF CmdMoves, PlainSteps
  <1>10. CASE ReadBack
    <2>1. PICK after \in BestEffort(Tip), reads \in BOOLEAN, diff \in BOOLEAN, changed \in BOOLEAN :
            /\ cmd' = [cmd EXCEPT !.pc = "salvage",
                                  !.after = IF reads THEN after ELSE None,
                                  !.diff = diff, !.changed = changed]
            /\ mode = "branch" => reads
      <3>1. PICK after \in BestEffort(Tip), unread \in SUBSET {"diff", "status"} :
              LET reads == mode = "branch" \/ cmd.receipt
                  diff == cmd.source # None /\ "diff" \notin unread
              IN  cmd' = [cmd EXCEPT
                    !.pc = "salvage",
                    !.after = IF reads THEN after ELSE None,
                    !.diff = diff,
                    !.changed = \/ diff /\ (Tip # cmd.source \/ tracked # {})
                                \/ reads /\ "status" \notin unread /\ ~Clean]
        BY <1>10 DEF ReadBack
      <3>2. cmd.receipt \in BOOLEAN
        BY <1>0 DEF Cmd
      <3> QED
        BY <3>1, <3>2
    <2>2. after \in Nat /\ None \in Nat
      BY <1>0 DEF BestEffort, None
    <2>3. At("ended") /\ RepoRests
      BY <1>10 DEF ReadBack, RepoRests, repoVars
    <2>4. /\ cmd' \in Cmd /\ At("salvage")' /\ cmd'.task = cmd.task /\ cmd'.base = cmd.base
          /\ cmd'.pre = cmd.pre /\ SamePosture
          /\ cmd'.after = IF reads THEN after ELSE None
      BY <1>0, <2>1, <2>2 DEF Cmd, Pcs, At, SamePosture
    <2> QED
      BY <1>0, <2>1, <2>3, <2>4 DEF CmdMoves, ReadsBack, Runs
  <1>11. CASE Salvage
    <2>1. Plain("salvage", "tag") /\ RepoRests
      BY <1>0, <1>11, StepsPlainly DEF Salvage, Pcs, RepoRests
    <2> QED
      BY <2>1 DEF CmdMoves, PlainSteps
  <1>12. CASE Tag
    <2>1. At("tag") /\ RepoRests /\ cmd.after \in Nat
      BY <1>0, <1>12 DEF Tag, RepoRests, Cmd
    <2>2. CASE Tags
      <3>1. cmd' = [cmd EXCEPT !.pc = "settle", !.tag = cmd.after]
        BY <2>2 DEF Tags
      <3>2. /\ cmd' \in Cmd /\ At("settle")' /\ cmd'.task = cmd.task /\ cmd'.base = cmd.base
            /\ SameHeads /\ cmd'.restored = cmd.restored
            /\ cmd'.tag = cmd.after /\ cmd'.parked = cmd.parked
        BY <1>0, <2>1, <3>1 DEF Cmd, Pcs, At, SameHeads
      <3> QED
        BY <1>0, <2>1, <2>2, <3>2 DEF SettlesTag, Runs, CmdMoves
    <2>3. CASE cmd' = [cmd EXCEPT !.pc = "settle", !.parked = TRUE]
      <3>1. /\ cmd' \in Cmd /\ At("settle")' /\ cmd'.task = cmd.task /\ cmd'.base = cmd.base
            /\ SameHeads /\ cmd'.restored = cmd.restored
            /\ cmd'.tag = cmd.tag /\ cmd'.parked
        BY <1>0, <2>1, <2>3 DEF Cmd, Pcs, At, SameHeads
      <3> QED
        BY <1>0, <2>1, <3>1 DEF SettlesTag, Runs, CmdMoves
    <2>4. CASE ~(mode = "branch" /\ Moved) /\ Step("settle")
      <3>1. Plain("tag", "settle")
        BY <1>0, <2>1, <2>4, StepsPlainly DEF Pcs
      <3>2. SettlesTag
        BY <2>1, <2>4, <3>1 DEF SettlesTag, Plain, SamePosture
      <3> QED
        BY <3>2 DEF CmdMoves
    <2> QED
      BY <1>12, <2>2, <2>3, <2>4 DEF Tag, Tags, RepoRests, ledgerVars
  <1>13. CASE Settle
    <2>1. CASE mode = "branch" /\ ~cmd.parked
      <3>1. PICK result \in {"returned", "failed", "dirty"} :
              /\ ReturnToBase(cmd.task, result)
              /\ cmd' = [cmd EXCEPT !.pc = "receipt", !.restored = result = "returned",
                                    !.parked = result # "returned"]
        BY <1>13, <2>1 DEF Settle
      <3>2. PICK returned \in BOOLEAN, other \in BOOLEAN :
              /\ returned <=> (result = "returned")
              /\ cmd' = [cmd EXCEPT !.pc = "receipt", !.restored = returned, !.parked = other]
        BY <3>1
      <3>3. /\ cmd' \in Cmd /\ At("receipt")' /\ cmd'.task = cmd.task /\ cmd'.base = cmd.base
            /\ SameHeads /\ cmd'.tag = cmd.tag /\ cmd'.restored = returned
        <4> HIDE <3>1
        <4> QED
          BY <1>0, <3>2 DEF Cmd, Pcs, At, SameHeads
      <3>4. At("settle") /\ UNCHANGED <<commits, tracked, litter>> /\ cmd.task \in Tasks
        BY <1>0, <1>13 DEF Settle, At
      <3>5. UNCHANGED branch \/ (result = "returned" /\ branch' = [branch EXCEPT ![cmd.task] = None])
        BY <3>1 DEF ReturnToBase
      <3>6. /\ on' \in {on, Base}
            /\ result = "returned" => on' = Base /\ Clean
        BY <3>1 DEF ReturnToBase
      <3>7. result = "returned" /\ "read" \notin Faults => branch' = [branch EXCEPT ![cmd.task] = None]
        BY <3>1 DEF ReturnToBase
      <3>8. branch' = [branch EXCEPT ![cmd.task] = None] => branch'[cmd.task] = None
        BY <3>4, Around
      <3>9. Returns
        BY <2>1, <3>1, <3>4 DEF Returns, ReturnToBase, At
      <3>10. SettlesBranch
        BY <1>0, <2>1, <3>2, <3>3, <3>4, <3>5, <3>6, <3>7, <3>8, <3>9 DEF SettlesBranch, Runs
      <3> QED
        BY <3>10 DEF CmdMoves
    <2>2. CASE ~(mode = "branch" /\ ~cmd.parked)
      <3>1. Plain("settle", "receipt") /\ RepoRests
        BY <1>0, <1>13, <2>2, StepsPlainly DEF Settle, Pcs, RepoRests
      <3> QED
        BY <3>1 DEF CmdMoves, PlainSteps
    <2> QED
      BY <2>1, <2>2
  <1>14. CASE Receipt
    <2>1. RepoRests /\ At("receipt")
      BY <1>14 DEF Receipt, RepoRests, repoVars
    <2>2. CASE cmd' = NoRun
      BY <2>1, <2>2 DEF Ends, CmdMoves, At
    <2>3. CASE cmd' # NoRun
      <3>1. PICK changed \in BOOLEAN : cmd' = [cmd EXCEPT !.pc = "record", !.changed = changed]
        <4>1. cmd.changed \in BOOLEAN /\ cmd.receipt \in BOOLEAN /\ cmd.diff \in BOOLEAN
          BY <1>0 DEF Cmd
        <4> QED
          BY <1>14, <2>3, <4>1 DEF Receipt, ExitWith, Exit
      <3>2. Plain("receipt", "record")
        BY <1>0, <2>1, <3>1 DEF Cmd, Pcs, At, Plain, Runs, SameHeads, SamePosture
      <3> QED
        BY <2>1, <3>2 DEF CmdMoves, PlainSteps
    <2> QED
      BY <2>2, <2>3
  <1>15. CASE Record
    <2>1. RepoRests /\ At("record") /\ (Step("finish") \/ cmd' = NoRun)
      BY <1>15 DEF Record, RepoRests, repoVars, Exit
    <2>2. CASE cmd' = NoRun
      BY <2>1, <2>2 DEF Ends, CmdMoves, At
    <2>3. CASE Step("finish")
      <3>1. Plain("record", "finish")
        BY <1>0, <2>1, <2>3, StepsPlainly DEF Pcs
      <3> QED
        BY <2>1, <3>1 DEF CmdMoves, PlainSteps
    <2> QED
      BY <2>1, <2>2, <2>3
  <1>16. CASE Finish \/ Kill
    <2>1. RepoRests /\ ~At("idle") /\ cmd' = NoRun
      BY <1>16 DEF Finish, Kill, RepoRests, repoVars, ExitWith, Exit, At
    <2> QED
      BY <2>1 DEF Ends, CmdMoves
  <1> QED
    BY <1>1, <1>2, <1>3, <1>4, <1>5, <1>6, <1>7, <1>8, <1>9, <1>10, <1>11, <1>12, <1>13, <1>14,
       <1>15, <1>16 DEF Next

\* The mode is the manifest's, and the count of runs moves when one starts.
ModeStays == mode' = mode /\ (runs' = runs \/ (At("idle") /\ runs < MaxRuns /\ runs' = runs + 1))

LEMMA ModeMove == Next => ModeStays
  <1> SUFFICES ASSUME Next PROVE ModeStays
    OBVIOUS
  <1>1. CASE \E t \in Tasks : Admit(t) \/ \E receipt \in BOOLEAN : Start(t, receipt)
    BY <1>1 DEF Admit, Start, ModeStays
  <1>2. CASE Create \/ NoSeed \/ SeedCommitted \/ SeedRefused \/ LeaveEmptyBranch \/ PxxCommits
    BY <1>2 DEF Create, NoSeed, SeedCommitted, SeedRefused, LeaveEmptyBranch, PxxCommits, ModeStays
  <1>3. CASE PxxCompletes \/ PxxResets \/ PxxRefusesToReset \/ ReadBack \/ Salvage \/ Tag
    BY <1>3 DEF PxxCompletes, PxxResets, PxxRefusesToReset, ReadBack, Salvage, Tag, ModeStays
  <1>4. CASE Settle \/ Receipt \/ Record \/ Finish \/ Kill
    BY <1>4 DEF Settle, Receipt, Record, Finish, Kill, ModeStays
  <1>5. CASE Merge \/ PersonEdits \/ PersonReturns
    BY <1>5 DEF Merge, PersonEdits, PersonReturns, ModeStays
  <1> QED
    BY <1>1, <1>2, <1>3, <1>4, <1>5 DEF Next

LEMMA RunTyped ==
  ASSUME TypeInv, Grows, ModeStays, NEW from \in Pcs \ {"idle"}, NEW to \in Pcs \ {"idle", "create"},
         Runs(from, to), {cmd'.pre, cmd'.after} \subseteq 0..Len(commits')
  PROVE  CmdOK'
  <1>1. /\ CmdOK /\ Len(commits) \in Nat /\ Len(commits') \in Nat /\ Len(commits) <= Len(commits')
    BY CommitsStay, Around DEF TypeInv
  <1>2. mode' \in Modes /\ runs' \in 0..MaxRuns /\ mode' = mode
    <2>1. /\ mode' = mode /\ (runs' = runs \/ (runs < MaxRuns /\ runs' = runs + 1))
          /\ runs \in 0..MaxRuns /\ mode \in Modes
      BY <1>1 DEF ModeStays, CmdOK
    <2>2. MaxRuns \in Nat
      BY TaskRunAssumption
    <2> QED
      BY <2>1, <2>2
  <1>3. cmd' \in Cmd /\ cmd'.pc = to /\ cmd.pc = from /\ cmd'.task = cmd.task /\ cmd'.base = cmd.base
    BY DEF Runs, At
  <1>4. NoRun.pc = "idle"
    BY DEF NoRun
  <1>5. cmd.task \in Tasks /\ (mode = "branch" => cmd.base # None) /\ cmd.base \in 0..Len(commits)
    BY <1>1, <1>3 DEF CmdOK, At, Sha
  <1>6. cmd'.base \in 0..Len(commits')
    BY <1>1, <1>3, <1>5
  <1> QED
    BY <1>2, <1>3, <1>4, <1>5, <1>6 DEF CmdOK, At, Sha

LEMMA CmdTyped ==
  ASSUME TypeInv, Grows, CmdMoves, ModeStays
  PROVE  CmdOK'
  <1>1. /\ CmdOK /\ Len(commits) \in Nat /\ Len(commits') \in Nat /\ Len(commits) <= Len(commits')
        /\ Tip \in 1..Len(commits) /\ NoTask \notin Tasks
        /\ cmd.pre \in 0..Len(commits) /\ cmd.after \in 0..Len(commits)
    BY CommitsStay, Around DEF TypeInv, CmdOK, Sha
  <1>2. mode' \in Modes /\ runs' \in 0..MaxRuns /\ mode' = mode
    <2>1. /\ mode' = mode /\ (runs' = runs \/ (runs < MaxRuns /\ runs' = runs + 1))
          /\ runs \in 0..MaxRuns /\ mode \in Modes
      BY <1>1 DEF ModeStays, CmdOK
    <2>2. MaxRuns \in Nat
      BY TaskRunAssumption
    <2> QED
      BY <2>1, <2>2
  <1>3. NoRun.pc = "idle" /\ NoRun.base = 0 /\ NoRun.pre = 0 /\ NoRun.after = 0 /\ NoRun \in Cmd
    BY DEF NoRun, Cmd, Pcs, None
  <1>4. CASE UNCHANGED cmd
    BY <1>1, <1>2, <1>4 DEF CmdOK, At, Sha
  <1>5. CASE Ends
    BY <1>1, <1>2, <1>3, <1>5 DEF Ends, CmdOK, At, Sha
  <1>6. CASE \E t \in Tasks : Begins(t)
    <2>1. PICK t \in Tasks : Begins(t)
      BY <1>6
    <2>2. base[t] \in 0..Len(commits)
      BY DEF TypeInv, RecordsOK, Sha
    <2>3. /\ cmd' \in Cmd /\ cmd'.task = t /\ cmd'.pre = 0 /\ cmd'.after = 0
          /\ cmd'.pc = (IF mode = "branch" THEN "create" ELSE "branched")
          /\ cmd'.base = (IF mode = "branch" THEN base[t] ELSE 0) /\ (mode = "branch" => base[t] # 0)
      BY <2>1 DEF Begins, None
    <2>4. cmd'.base \in 0..Len(commits')
      BY <1>1, <2>2, <2>3
    <2> QED
      BY <1>1, <1>2, <1>3, <2>3, <2>4 DEF CmdOK, At, Sha, None
  <1>7. \A from, to : Plain(from, to) => /\ Runs(from, to)
                                         /\ {cmd'.pre, cmd'.after} \subseteq 0..Len(commits')
    BY <1>1 DEF Plain, SameHeads
  <1> DEFINE Froms == Pcs \ {"idle"}
             Tos == Pcs \ {"idle", "create"}
             Heads == {cmd'.pre, cmd'.after} \subseteq 0..Len(commits')
  <1>8. \A from \in Froms, to \in Tos : Runs(from, to) /\ Heads => CmdOK'
    BY RunTyped
  <1>9. /\ {"create", "branched", "unseed", "pxx", "ended", "salvage", "tag",
            "settle", "receipt", "record"} \subseteq Froms
        /\ {"branched", "unseed", "pxx", "ended", "salvage", "tag",
            "settle", "receipt", "record", "finish"} \subseteq Tos
    BY DEF Pcs
  <1> HIDE DEF Froms, Tos
  <1>10. CASE Plain("create", "branched") \/ Plain("pxx", "pxx")
    BY <1>7, <1>8, <1>9, <1>10
  <1>11. CASE \E ss \in PlainSteps : Plain(ss[1], ss[2])
    <2>1. PICK ss \in PlainSteps : Plain(ss[1], ss[2])
      BY <1>11
    <2>2. ss[1] \in Froms /\ ss[2] \in Tos
      BY <1>9, <2>1 DEF PlainSteps
    <2> QED
      BY <1>7, <1>8, <2>1, <2>2
  <1>12. CASE StartsPxx(Tip)
    <2>1. Runs("branched", "pxx") /\ Heads
      BY <1>1, <1>12 DEF StartsPxx, BestEffort, None
    <2> QED
      BY <1>8, <1>9, <2>1
  <1>13. CASE (\E rec \in CommitRec : MadeBy("seed", rec)) /\ StartsPxx(Len(commits) + 1)
    <2>1. Len(commits') = Len(commits) + 1
      BY <1>13, AppendCommit DEF MadeBy, Commits, MakesCommit, TypeInv, RepoOK
    <2>2. Runs("branched", "pxx") /\ Heads
      BY <1>1, <1>13, <2>1 DEF StartsPxx, BestEffort, None
    <2> QED
      BY <1>8, <1>9, <2>2
  <1>14. CASE ReadsBack
    <2>1. Runs("ended", "salvage") /\ Heads
      BY <1>1, <1>14 DEF ReadsBack, BestEffort, None
    <2> QED
      BY <1>8, <1>9, <2>1
  <1>15. CASE SettlesTag
    <2>1. Runs("tag", "settle") /\ Heads
      BY <1>1, <1>15 DEF SettlesTag, SameHeads
    <2> QED
      BY <1>8, <1>9, <2>1
  <1>16. CASE SettlesBranch
    <2>1. Runs("settle", "receipt") /\ Heads
      BY <1>1, <1>16 DEF SettlesBranch, SameHeads
    <2> QED
      BY <1>8, <1>9, <2>1
  <1> QED
    BY <1>4, <1>5, <1>6, <1>10, <1>11, <1>12, <1>13, <1>14, <1>15, <1>16 DEF CmdMoves

LEMMA TypeStep == TypeInv /\ [Next]_vars => TypeInv'
  <1> SUFFICES ASSUME TypeInv, [Next]_vars PROVE TypeInv'
    OBVIOUS
  <1>1. CASE Next
    <2>1. RepoMoves /\ RecordMoves /\ CmdMoves /\ ModeStays /\ TreeOK'
      BY <1>1, RepoMove, RecordMove, CmdMove, ModeMove, TreeTyped
    <2>2. RepoOK' /\ Grows
      BY <2>1, RepoTyped
    <2> QED
      BY <2>1, <2>2, RecordsTyped, CmdTyped DEF TypeInv
  <1>2. CASE UNCHANGED vars
    BY <1>2 DEF TypeInv, RepoOK, TreeOK, RecordsOK, CmdOK, Graph, Parents, Sha, At, vars, repoVars,
       ledgerVars, peopleVars
  <1> QED
    BY <1>1, <1>2

LEMMA TypesHold == Spec => []TypeInv
  BY InitTyped, TypeStep, PTL DEF Spec

\* Every commit comes after its parents, the checkout is on a branch there is, and
\* every row, tag and recorded base names a commit, under all faults.
THEOREM RunTypes == Spec => []TypeOK
  <1>1. TypeInv => TypeOK
    <2> SUFFICES ASSUME TypeInv PROVE TypeOK
      OBVIOUS
    <2>1. \A c \in 1..Len(commits) : commits[c] \in CommitRec
      BY ElementOfSeq DEF TypeInv, RepoOK, Graph
    <2>2. /\ \A c \in DOMAIN commits : /\ commits[c].by \in Makers /\ commits[c].run \in 0..MaxRuns
                                       /\ \A p \in ToSet(commits[c].parents) : p \in 1..(c - 1)
          /\ DOMAIN commits \cup {None} = 0..Len(commits) /\ (0..Len(commits)) \ {None} = DOMAIN commits
      <3>1. Graph /\ Len(commits) \in Nat /\ DOMAIN commits = 1..Len(commits)
        BY Around
      <3>2. \A c \in DOMAIN commits : commits[c].by \in Makers /\ commits[c].run \in 0..MaxRuns
        BY <2>1, <3>1 DEF CommitRec
      <3>3. \A c \in DOMAIN commits : \A p \in ToSet(commits[c].parents) : p \in 1..(c - 1)
        BY <3>1 DEF Graph, Parents
      <3>4. DOMAIN commits \cup {None} = 0..Len(commits) /\ (0..Len(commits)) \ {None} = DOMAIN commits
        BY <3>1 DEF None
      <3> QED
        BY <3>2, <3>3, <3>4
    <2>3. branch \in [Tasks \cup {Base} -> DOMAIN commits \cup {None}] /\ branch[on] # None
      BY <2>2 DEF TypeInv, RepoOK, Sha
    <2>4. /\ \A t \in Tasks : ToSet(tags[t]) \subseteq DOMAIN commits
          /\ base \in [Tasks -> DOMAIN commits \cup {None}] /\ open \subseteq Tasks
          /\ \A row \in executed : {row.sha, row.base} \subseteq DOMAIN commits /\ row.task \in Tasks
      BY <2>2 DEF TypeInv, RecordsOK, Sha, Row
    <2>5. /\ mode \in Modes /\ cmd.pc \in Pcs /\ (At("idle") <=> cmd = NoRun)
          /\ tracked \subseteq Editors /\ litter \in BOOLEAN
      BY DEF TypeInv, CmdOK, TreeOK, Cmd
    <2> QED
      BY <2>2, <2>3, <2>4, <2>5 DEF TypeOK
  <1> QED
    BY <1>1, TypesHold, PTL

----------------------------------------------------------------------------
\* The posture, the tags and the base branch

\* The tree moves before the branch is settled, or with nobody running.
TreeRests == UNCHANGED <<tracked, litter>> \/ cmd.pc \in {"idle", "branched", "pxx", "salvage"}

LEMMA TreeMove == Next => TreeRests
  <1> SUFFICES ASSUME Next PROVE TreeRests
    OBVIOUS
  <1>1. CASE \E t \in Tasks : Admit(t) \/ \E receipt \in BOOLEAN : Start(t, receipt)
    BY <1>1 DEF Admit, Start, repoVars, TreeRests
  <1>2. CASE Create \/ NoSeed \/ SeedCommitted \/ LeaveEmptyBranch \/ PxxCommits \/ ReadBack
    BY <1>2 DEF Create, NoSeed, SeedCommitted, LeaveEmptyBranch, PxxCommits, ReadBack, repoVars,
         TreeRests
  <1>3. CASE Tag \/ Settle \/ Receipt \/ Record \/ Finish \/ Kill \/ Merge
    BY <1>3 DEF Tag, Settle, Receipt, Record, Finish, Kill, Merge, repoVars, TreeRests
  <1>4. CASE SeedRefused \/ PxxCompletes \/ PxxResets \/ PxxRefusesToReset \/ Salvage
    BY <1>4 DEF SeedRefused, PxxCompletes, PxxResets, PxxRefusesToReset, Salvage, At, TreeRests
  <1>5. CASE PersonEdits \/ PersonReturns
    BY <1>5 DEF PersonEdits, PersonReturns, At, TreeRests
  <1> QED
    BY <1>1, <1>2, <1>3, <1>4, <1>5 DEF Next

\* What is done by others leaves the checkout where it is while a run is in progress.
LEMMA ElsewhereIs ==
  ASSUME TypeInv, Elsewhere
  PROVE  /\ on' = on \/ At("idle")
         /\ \A t \in Tasks : branch'[t] = branch[t] \/ At("idle") \/ on = t
         /\ Merge => on' = on /\ (mode = "branch" => on = Base) /\ UNCHANGED <<tracked, litter>>
  <1>1. CASE \E t \in Tasks : Admit(t)
    BY <1>1 DEF Admit, repoVars, Merge
  <1>2. CASE Merge
    <2>1. PICK row \in executed : Commit(<<Tip, row.sha>>, "merge", 0)
      BY <1>2 DEF Merge
    <2> QED
      BY <1>2, <2>1, Around DEF Merge, Commit
  <1>3. CASE PersonEdits \/ PersonReturns
    BY <1>3 DEF PersonEdits, PersonReturns, Merge
  <1> QED
    BY <1>1, <1>2, <1>3 DEF Elsewhere

LEMMA OnTaskStep ==
  ASSUME TypeInv, RunInv, CmdMoves, ModeStays
  PROVE  OnTask'
  <1> USE DEF OnItsBranch
  <1>1. (mode = "branch" /\ cmd.pc \in OnItsBranch => on = cmd.task) /\ mode' = mode
    BY DEF RunInv, OnTask, ModeStays
  <1>2. SUFFICES ASSUME mode = "branch", cmd'.pc \in OnItsBranch PROVE on' = cmd'.task
    BY <1>1 DEF OnTask
  <1>3. CASE Elsewhere /\ UNCHANGED cmd
    BY <1>1, <1>2, <1>3, ElsewhereIs DEF At
  <1>4. ~Ends
    BY <1>2 DEF Ends, NoRun
  <1>5. \A t \in Tasks : ~Begins(t)
    BY <1>2 DEF Begins
  <1>6. CASE Creates /\ Plain("create", "branched")
    BY <1>6 DEF Creates, Plain, Runs
  <1>7. CASE \E ss \in PlainSteps : Plain(ss[1], ss[2]) /\ RepoRests
    <2>1. PICK ss \in PlainSteps : Plain(ss[1], ss[2]) /\ RepoRests
      BY <1>7
    <2>2. cmd.pc = ss[1] /\ cmd'.pc = ss[2] /\ cmd'.task = cmd.task /\ on' = on
      BY <2>1 DEF Plain, Runs, At, RepoRests
    <2>3. ss[1] \in OnItsBranch
      BY <1>2, <2>2 DEF PlainSteps
    <2> QED
      BY <1>1, <1>2, <2>2, <2>3
  <1>8. ASSUME NEW from \in OnItsBranch, NEW to, Runs(from, to), on' = on PROVE on' = cmd'.task
    BY <1>1, <1>2, <1>8 DEF Runs, At
  <1>9. CASE RepoRests /\ StartsPxx(Tip)
    BY <1>8, <1>9 DEF RepoRests, StartsPxx
  <1>10. CASE (\E rec \in CommitRec : MadeBy("seed", rec)) /\ StartsPxx(Len(commits) + 1)
    BY <1>8, <1>10 DEF MadeBy, Commits, StartsPxx
  <1>11. CASE (\E rec \in CommitRec : MadeBy("pxx", rec)) /\ Plain("pxx", "pxx")
    BY <1>8, <1>11 DEF MadeBy, Commits, Plain
  <1>12. CASE (ReadsBack /\ RepoRests) \/ SettlesTag
    BY <1>8, <1>12 DEF ReadsBack, SettlesTag, RepoRests
  <1>13. ~SettlesBranch
    BY <1>2 DEF SettlesBranch, Runs, At
  <1> QED
    BY <1>3, <1>4, <1>5, <1>6, <1>7, <1>9, <1>10, <1>11, <1>12, <1>13 DEF CmdMoves

LEMMA TagHoldsStep ==
  ASSUME TypeInv, RunInv, CmdMoves, TagsGrow
  PROVE  TagHolds'
  <1> USE DEF OnItsBranch, None
  <1>1. /\ cmd.pc \in {"create"} \cup (OnItsBranch \ {"settle"}) => cmd.tag = None
        /\ cmd.tag # None => cmd.tag = cmd.after /\ cmd.after \in ToSet(tags[cmd.task])
    BY DEF RunInv, TagHolds
  <1>2. ~At("idle") => cmd.task \in Tasks
    BY DEF TypeInv, CmdOK
  <1>3. At("idle") => cmd.tag = None
    BY DEF TypeInv, CmdOK, NoRun
  <1>4. cmd.tag # None => cmd.after \in ToSet(tags'[cmd.task])
    BY <1>1, <1>2, <1>3 DEF TagsGrow
  <1>5. CASE UNCHANGED cmd
    BY <1>1, <1>4, <1>5 DEF TagHolds
  <1>6. CASE Ends
    BY <1>6 DEF Ends, NoRun, TagHolds
  <1>7. CASE \E t \in Tasks : Begins(t)
    BY <1>7 DEF Begins, TagHolds
  <1>8. ASSUME NEW from, NEW to, Runs(from, to), cmd'.after = cmd.after, cmd'.tag = cmd.tag,
               to \in {"create"} \cup (OnItsBranch \ {"settle"}) => cmd.tag = None
        PROVE  TagHolds'
    <2>1. cmd'.pc = to /\ cmd'.task = cmd.task
      BY <1>8 DEF Runs, At
    <2> QED
      BY <1>1, <1>4, <1>8, <2>1 DEF TagHolds
  <1>9. CASE Plain("pxx", "pxx")
    BY <1>1, <1>8, <1>9 DEF Plain, SameHeads, SamePosture, Runs, At
  <1>10. CASE Plain("create", "branched")
    <2>1. cmd.pc = "create" /\ cmd.tag = None
      BY <1>1, <1>10 DEF Plain, Runs, At
    <2> QED
      BY <1>8, <1>10, <2>1 DEF Plain, SameHeads, SamePosture
  <1>11. CASE \E ss \in PlainSteps : Plain(ss[1], ss[2])
    <2>1. PICK ss \in PlainSteps : Plain(ss[1], ss[2])
      BY <1>11
    <2>2. ss[2] \in {"create"} \cup (OnItsBranch \ {"settle"}) => cmd.tag = None
      BY <1>1, <2>1 DEF PlainSteps, Plain, Runs, At
    <2> QED
      BY <1>8, <2>1, <2>2 DEF Plain, SameHeads, SamePosture
  <1>12. CASE StartsPxx(Tip) \/ StartsPxx(Len(commits) + 1)
    <2>1. Runs("branched", "pxx") /\ cmd'.after = cmd.after /\ cmd'.tag = cmd.tag
      BY <1>12 DEF StartsPxx, SamePosture
    <2> QED
      BY <1>1, <1>8, <2>1 DEF Runs, At
  <1>13. CASE ReadsBack
    <2>1. cmd.pc = "ended" /\ cmd'.tag = cmd.tag
      BY <1>13 DEF ReadsBack, Runs, At, SamePosture
    <2> QED
      BY <1>1, <2>1 DEF TagHolds
  <1>14. CASE SettlesTag
    <2>1. CASE Tags /\ cmd'.tag = cmd.after
      <3>1. cmd.task \in Tasks /\ cmd.after \in 1..Len(commits)
        BY <2>1 DEF TypeInv, CmdOK, Tags, Moved, At, Sha
      <3>2. cmd.after \in ToSet(tags'[cmd.task])
        BY <2>1, <3>1, Tagged DEF Tags
      <3>3. cmd'.pc = "settle" /\ cmd'.task = cmd.task /\ cmd'.after = cmd.after
        BY <1>14 DEF SettlesTag, Runs, At, SameHeads
      <3> QED
        BY <2>1, <3>2, <3>3 DEF TagHolds
    <2>2. CASE cmd'.tag = cmd.tag
      BY <1>8, <1>14, <2>2 DEF SettlesTag, SameHeads
    <2> QED
      BY <1>14, <2>1, <2>2 DEF SettlesTag
  <1>15. CASE SettlesBranch
    BY <1>8, <1>15 DEF SettlesBranch, SameHeads
  <1> QED
    BY <1>5, <1>6, <1>7, <1>9, <1>10, <1>11, <1>12, <1>13, <1>14, <1>15 DEF CmdMoves

LEMMA RestoredStep ==
  ASSUME TypeInv, RunInv, Next, CmdMoves, TreeRests, ModeStays
  PROVE  Restored'
  <1>1. /\ cmd.restored => /\ mode = "branch" /\ cmd.pc \in {"receipt", "record", "finish"}
                           /\ on = Base /\ Clean /\ ("read" \notin Faults => branch[cmd.task] = None)
        /\ mode' = mode
    BY DEF RunInv, Restored, ModeStays
  <1>2. SUFFICES ASSUME cmd'.restored PROVE Restored'
    BY DEF Restored
  <1>3. Base \notin Tasks /\ (~At("idle") => cmd.task \in Tasks)
    BY Around DEF TypeInv, CmdOK
  <1>4. CASE Elsewhere /\ UNCHANGED cmd
    <2>1. ~At("idle") /\ cmd.restored
      BY <1>1, <1>2, <1>4 DEF At
    <2>2. UNCHANGED <<tracked, litter>>
      BY <1>1, <2>1 DEF TreeRests
    <2>3. on' = on /\ branch'[cmd.task] = branch[cmd.task]
      BY <1>1, <1>3, <1>4, <2>1, ElsewhereIs
    <2> QED
      BY <1>1, <1>4, <2>1, <2>2, <2>3 DEF Restored, Clean
  <1>5. ~Ends /\ \A t \in Tasks : ~Begins(t)
    BY <1>2 DEF Ends, NoRun, Begins
  <1>6. ASSUME NEW from, NEW to, Plain(from, to)
        PROVE  cmd.pc = from /\ cmd'.pc = to /\ cmd.restored /\ from \in {"receipt", "record", "finish"}
    BY <1>1, <1>2, <1>6 DEF Plain, Runs, At, SamePosture
  <1>7. ~Plain("create", "branched") /\ ~Plain("pxx", "pxx")
    BY <1>6
  <1>8. CASE \E ss \in PlainSteps : Plain(ss[1], ss[2]) /\ RepoRests
    <2>1. PICK ss \in PlainSteps : Plain(ss[1], ss[2]) /\ RepoRests
      BY <1>8
    <2>2. cmd.pc = ss[1] /\ cmd'.pc = ss[2] /\ cmd.restored /\ ss[1] \in {"receipt", "record", "finish"}
      BY <1>6, <2>1
    <2>3. cmd'.pc \in {"record", "finish"}
      BY <2>1, <2>2 DEF PlainSteps
    <2>4. UNCHANGED <<tracked, litter, on, branch>> /\ cmd'.task = cmd.task
      BY <2>1, <2>2 DEF TreeRests, RepoRests, Plain, Runs
    <2> QED
      BY <1>1, <2>2, <2>3, <2>4 DEF Restored, Clean
  <1>9. ~StartsPxx(Tip) /\ ~StartsPxx(Len(commits) + 1)
    BY <1>1, <1>2 DEF StartsPxx, Runs, At, SamePosture
  <1>10. ~ReadsBack /\ ~SettlesTag
    BY <1>1, <1>2 DEF ReadsBack, SettlesTag, Runs, At, SamePosture
  <1>11. CASE SettlesBranch
    <2>1. /\ mode = "branch" /\ cmd'.pc = "receipt" /\ cmd'.task = cmd.task
          /\ on' = Base /\ Clean /\ UNCHANGED <<tracked, litter>>
          /\ "read" \notin Faults => branch'[cmd.task] = None
      BY <1>2, <1>11 DEF SettlesBranch, Runs, At
    <2> QED
      BY <1>1, <2>1 DEF Restored, Clean
  <1> QED
    BY <1>4, <1>5, <1>7, <1>8, <1>9, <1>10, <1>11 DEF CmdMoves

LEMMA PinnedStep ==
  ASSUME TypeInv, RunInv, RecordMoves, TagsGrow, ModeStays
  PROVE  ExecutedIsPinned'
  <1>1. SUFFICES ASSUME mode = "branch", NEW row \in executed'
                 PROVE  row.sha \in ToSet(tags'[row.task])
    BY DEF ExecutedIsPinned, ModeStays
  <1>2. CASE row \in executed
    <2>1. row.task \in Tasks /\ row.sha \in ToSet(tags[row.task])
      BY <1>1, <1>2 DEF TypeInv, RecordsOK, Row, RunInv, ExecutedIsPinned
    <2> QED
      BY <2>1 DEF TagsGrow
  <1>3. CASE row \notin executed
    <2>1. Records /\ row = NewRow
      BY <1>1, <1>3 DEF RecordMoves, Tags, Records, Admit
    <2>2. cmd.tag # None /\ row.sha = cmd.after /\ row.task = cmd.task
      BY <1>1, <2>1 DEF Records, HasCandidate, NewRow
    <2>3. cmd.after \in ToSet(tags[cmd.task]) /\ tags' = tags
      BY <2>1, <2>2 DEF RunInv, TagHolds, Records
    <2> QED
      BY <2>2, <2>3
  <1> QED
    BY <1>2, <1>3

LEMMA BaseStep ==
  ASSUME TypeInv, RunInv, RepoMoves, Grows, ModeStays, executed \subseteq executed'
  PROVE  BaseHoldsOnlyMerges'
  <1>1. /\ Graph /\ Len(commits) \in Nat /\ DOMAIN branch = Tasks \cup {Base} /\ Base \notin Tasks
        /\ branch[Base] \in 1..Len(commits) /\ Tip \in 1..Len(commits)
        /\ \A c \in 1..Len(commits) : commits'[c] = commits[c] /\ Mainline'[c] = Mainline[c]
        /\ Mainline[branch[Base]] \subseteq 1..Len(commits)
    BY Around, CommitsStay, AncestorsStay, AncestorsAre
  <1>2. SUFFICES ASSUME mode = "branch" PROVE BaseHoldsOnlyMerges'
    BY DEF ModeStays, BaseHoldsOnlyMerges
  <1> DEFINE Fine(c) == \/ commits'[c].by = "human"
                        \/ /\ commits'[c].by = "merge"
                           /\ \E row \in executed' : row.sha = commits'[c].parents[2]
  <1>3. \A c \in Mainline[branch[Base]] : Fine(c)
    <2>1. \A c \in Mainline[branch[Base]] : commits'[c] = commits[c]
      BY <1>1
    <2> QED
      BY <1>2, <2>1 DEF RunInv, BaseHoldsOnlyMerges
  <1>4. SUFFICES \A c \in Mainline'[branch'[Base]] : Fine(c)
    BY DEF BaseHoldsOnlyMerges
  <1>5. CASE branch'[Base] = branch[Base]
    BY <1>1, <1>3, <1>5
  <1>6. CASE branch'[Base] # branch[Base]
    <2>1. ~RepoRests
      BY <1>6 DEF RepoRests
    <2>2. ~Creates /\ ~Returns
      BY <1>1, <1>6 DEF Creates, Returns
    <2>3. ~PersonReturns
      BY <1>1, <1>6 DEF PersonReturns
    <2>4. PICK rec \in CommitRec : Commits(rec)
      BY <2>1, <2>2, <2>3 DEF RepoMoves
    <2>5. on = Base
      BY <1>1, <1>6, <2>4 DEF Commits
    <2>6. ~SeedCommitted /\ ~PxxCommits
      <3>1. ~(cmd.pc \in OnItsBranch) \/ (cmd.task \in Tasks /\ on = cmd.task)
        BY <1>2 DEF RunInv, OnTask, TypeInv, CmdOK, At, OnItsBranch
      <3> QED
        BY <1>1, <2>5, <3>1 DEF SeedCommitted, PxxCommits, At, OnItsBranch
    <2>7. Merge
      BY <2>1, <2>2, <2>3, <2>6 DEF RepoMoves
    <2>8. PICK row \in executed : Commit(<<Tip, row.sha>>, "merge", 0)
      BY <2>7 DEF Merge
    <2>9. row.sha \in 1..Len(commits)
      BY <1>1 DEF TypeInv, RecordsOK, Sha, None
    <2> DEFINE new == [parents |-> <<Tip, row.sha>>, by |-> "merge", run |-> 0]
    <2>10. Commits(new)
      BY <2>7, <2>8, <2>9, Merged DEF Merge
    <2>11. /\ new.parents # <<>> /\ new.parents[1] = Tip /\ new.parents[2] = row.sha /\ new.by = "merge"
      BY <1>1, <2>9, TwoParents
    <2> HIDE DEF new
    <2>12. /\ commits'[Len(commits) + 1] = new /\ branch'[Base] = Len(commits) + 1
           /\ Mainline'[Len(commits) + 1] = {Len(commits) + 1} \cup Mainline[Tip]
      BY <1>1, <2>5, <2>10, <2>11, AppendCommit, NewAncestors DEF Commits, MakesCommit
    <2>13. Fine(Len(commits) + 1)
      BY <2>11, <2>12
    <2> QED
      BY <1>3, <2>5, <2>12, <2>13 DEF Tip
  <1> QED
    BY <1>5, <1>6

LEMMA InitRun == Init => RunInv
  <1> SUFFICES ASSUME Init PROVE RunInv
    OBVIOUS
  <1>1. cmd.pc = "idle" /\ cmd.tag = None /\ ~cmd.restored /\ executed = {}
    BY DEF Init, NoRun
  <1>2. OnTask /\ TagHolds /\ Restored /\ ExecutedIsPinned
    BY <1>1 DEF OnTask, TagHolds, Restored, ExecutedIsPinned, OnItsBranch, None
  <1>3. BaseHoldsOnlyMerges
    <2>1. Graph /\ Len(commits) = 1 /\ branch[Base] = 1
      <3>1. Len(commits) = 1 /\ branch[Base] = 1
        BY DEF Init
      <3> QED
        BY <3>1, InitTyped DEF TypeInv, RepoOK
    <2>2. Mainline[1] \subseteq {1}
      BY <2>1, AncestorsAre
    <2>3. commits[1].by = "human"
      BY DEF Init
    <2> QED
      BY <2>1, <2>2, <2>3 DEF BaseHoldsOnlyMerges
  <1> QED
    BY <1>2, <1>3 DEF RunInv

LEMMA RunStep == TypeInv /\ RunInv /\ [Next]_vars => RunInv'
  <1> SUFFICES ASSUME TypeInv, RunInv, [Next]_vars PROVE RunInv'
    OBVIOUS
  <1>1. CASE Next
    <2>1. RepoMoves /\ RecordMoves /\ CmdMoves /\ ModeStays /\ TreeRests
      BY <1>1, RepoMove, RecordMove, CmdMove, ModeMove, TreeMove
    <2>2. Grows /\ TagsGrow /\ executed \subseteq executed'
      BY <2>1, RepoTyped, RecordsTyped
    <2> QED
      BY <1>1, <2>1, <2>2, OnTaskStep, TagHoldsStep, RestoredStep, PinnedStep, BaseStep DEF RunInv
  <1>2. CASE UNCHANGED vars
    BY <1>2 DEF RunInv, OnTask, TagHolds, Restored, Clean, ExecutedIsPinned, BaseHoldsOnlyMerges,
       Mainline, vars, repoVars, ledgerVars, peopleVars
  <1> QED
    BY <1>1, <1>2

LEMMA RunHolds == Spec => [](TypeInv /\ RunInv)
  BY InitTyped, InitRun, TypeStep, RunStep, PTL DEF Spec

\* What an EXECUTED row names has been pinned by a tag of its task before the row is
\* written, and no later candidate, re-admission or failure moves the tag.
THEOREM ExecutedStaysPinned == Spec => []ExecutedIsPinned
  <1>1. RunInv => ExecutedIsPinned
    BY DEF RunInv
  <1> QED
    BY <1>1, RunHolds, PTL

\* No fault leaves a run, its seed or its salvage on the base branch: what is added to
\* its first-parent line is the merge of a recorded candidate.
THEOREM BaseStaysClean == Spec => []BaseHoldsOnlyMerges
  <1>1. RunInv => BaseHoldsOnlyMerges
    BY DEF RunInv
  <1> QED
    BY <1>1, RunHolds, PTL

\* A run that ends well is one that says it returned the checkout.
LEMMA WellEnded ==
  ASSUME TypeInv, Next, mode = "branch", ~At("idle"), cmd'.pc = "idle", exit' \in {"ok", "failed"}
  PROVE  (Receipt \/ Finish) /\ cmd.restored
  <1>1. cmd \in Cmd /\ Len(commits) \in Nat /\ Tip \in Nat
    BY Around DEF TypeInv, CmdOK
  <1>2. ~\E t \in Tasks : Admit(t)
    BY DEF Admit, At
  <1>3. ~\E t \in Tasks : \E receipt \in BOOLEAN : Start(t, receipt)
    BY DEF Start
  <1>4. ~Merge /\ ~PersonEdits /\ ~PersonReturns
    BY DEF Merge, PersonEdits, PersonReturns, At
  <1>5. ASSUME NEW pc \in Pcs \ {"idle"}, Step(pc) PROVE FALSE
    BY <1>1, <1>5 DEF Step, Cmd
  <1>6. ~Create /\ ~LeaveEmptyBranch /\ ~Kill /\ ~Record
    BY <1>5 DEF Create, LeaveEmptyBranch, Kill, Record, Exit, Pcs
  <1>7. ~NoSeed /\ ~SeedCommitted
    <2>1. ASSUME NEW head \in Nat, At("branched"), GoPxx(head) PROVE FALSE
      BY <1>1, <2>1, GoesPxx DEF StartsPxx, Runs, At
    <2> QED
      BY <1>1, <2>1 DEF NoSeed, SeedCommitted
  <1>8. ~SeedRefused /\ ~PxxCompletes /\ ~Salvage
    BY <1>5 DEF SeedRefused, PxxCompletes, Salvage, Pcs
  <1>9. ~PxxCommits
    BY <1>1 DEF PxxCommits, Cmd, At
  <1>10. ~PxxResets
    BY <1>1 DEF PxxResets, Cmd
  <1>11. ~PxxRefusesToReset
    BY <1>1 DEF PxxRefusesToReset, Cmd
  <1>12. ~ReadBack
    BY <1>1 DEF ReadBack, Cmd
  <1>13. ~Tag
    <2>1. ~Step("settle")
      BY <1>5 DEF Pcs
    <2>2. cmd' # [cmd EXCEPT !.pc = "settle", !.tag = cmd.after]
      BY <1>1 DEF Cmd
    <2>3. cmd' # [cmd EXCEPT !.pc = "settle", !.parked = TRUE]
      BY <1>1 DEF Cmd
    <2> QED
      BY <2>1, <2>2, <2>3 DEF Tag
  <1>14. ~Settle
    <2>1. ~Step("receipt")
      BY <1>5 DEF Pcs
    <2>2. \A result : cmd' # [cmd EXCEPT !.pc = "receipt", !.restored = result = "returned",
                                        !.parked = result # "returned"]
      BY <1>1 DEF Cmd
    <2> QED
      BY <2>1, <2>2 DEF Settle
  <1>15. Receipt \/ Finish
    BY <1>2, <1>3, <1>4, <1>6, <1>7, <1>8, <1>9, <1>10, <1>11, <1>12, <1>13, <1>14 DEF Next
  <1>16. CASE Receipt
    <2>1. \A changed : cmd' # [cmd EXCEPT !.pc = "record", !.changed = changed]
      BY <1>1 DEF Cmd
    <2>2. ExitWith("failed", cmd.restored)
      BY <1>16, <2>1 DEF Receipt, ExitWith, Exit
    <2> QED
      BY <1>15, <2>2 DEF ExitWith, Exit
  <1>17. CASE Finish
    BY <1>15, <1>17 DEF Finish, ExitWith, Exit
  <1> QED
    BY <1>15, <1>16, <1>17

\* An exit code 0 or 3 is given only on top of a return that was made and that nothing
\* has undone.  A branch that cannot be read is taken not to exist, so reads must not
\* fail.
THEOREM ExitIsThePosture ==
  ASSUME "read" \notin Faults
  PROVE  Spec => ExitTellsThePosture
  <1> DEFINE Tells == mode = "branch" /\ ~At("idle") /\ cmd'.pc = "idle" /\ exit' \in {"ok", "failed"}
                        => on' = Base /\ Clean' /\ branch'[cmd.task] = None
  <1>1. ASSUME TypeInv, RunInv, Next PROVE Tells
    <2> SUFFICES ASSUME mode = "branch", ~At("idle"), cmd'.pc = "idle", exit' \in {"ok", "failed"}
                 PROVE  on' = Base /\ Clean' /\ branch'[cmd.task] = None
      OBVIOUS
    <2>1. (Receipt \/ Finish) /\ cmd.restored
      BY <1>1, WellEnded
    <2>2. on = Base /\ Clean /\ branch[cmd.task] = None
      BY <1>1, <2>1 DEF RunInv, Restored
    <2>3. UNCHANGED <<on, tracked, litter, branch>>
      BY <2>1 DEF Receipt, Finish, repoVars
    <2> QED
      BY <2>2, <2>3 DEF Clean
  <1>2. ASSUME UNCHANGED vars PROVE Tells
    BY <1>2 DEF vars, At
  <1>3. TypeInv /\ RunInv /\ [Next]_vars => [Tells]_vars
    BY <1>1, <1>2
  <1> QED
    BY <1>3, RunHolds, PTL DEF Spec, ExitTellsThePosture

----------------------------------------------------------------------------
(***************************************************************************)
(* pxx's work.  A read of HEAD that fails is taken for a run without        *)
(* commits (_git of cmd_run), so reads must not fail; every other fault may. *)
(***************************************************************************)

\* What is said of commits stays true of them.
LEMMA BetweenStays ==
  ASSUME TypeInv, Grows, NEW b \in 1..Len(commits), NEW x \in 1..Len(commits), NEW run
  PROVE  /\ Between(b, x, run) => Between(b, x, run)'
         /\ NoWork(b, x) => NoWork(b, x)'
         /\ commits'[x] = commits[x] /\ x \in 1..Len(commits') /\ x # None
  <1>1. /\ Ancestors'[x] = Ancestors[x] /\ Ancestors'[b] = Ancestors[b] /\ commits'[x] = commits[x]
        /\ \A c \in Ancestors[x] : commits'[c] = commits[c]
        /\ x \in 1..Len(commits')
    <2>1. Graph /\ Len(commits) \in Nat
      BY Around
    <2>2. Ancestors[x] \subseteq 1..x
      BY <2>1, AncestorsAre
    <2>3. \A c \in Ancestors[x] : c \in 1..Len(commits)
      BY <2>1, <2>2
    <2> QED
      BY <2>1, <2>3, AncestorsStay, CommitsStay
  <1> QED
    BY <1>1 DEF Between, NoWork, None

\* A commit on the branch's end.
LEMMA BetweenGrows ==
  ASSUME TypeInv, NEW rec \in CommitRec, MakesCommit(rec), NEW b \in 1..Len(commits),
         NEW x \in 1..Len(commits), NEW run, ToSet(rec.parents) = {x}, rec.run = run,
         NEW new, new = Len(commits) + 1, Between(b, x, run)
  PROVE  /\ Between(b, new, run)' /\ commits'[new] = rec /\ new \in 1..Len(commits')
         /\ (rec.by # "pxx" /\ x = b) => NoWork(b, new)'
  <1>1. Graph /\ Grows /\ Len(commits) \in Nat
    BY Around DEF Grows
  <1>2. Ancestors'[new] = {new} \cup UNION {Ancestors[p] : p \in ToSet(rec.parents)}
    BY <1>1, NewAncestors
  <1>3. UNION {Ancestors[p] : p \in ToSet(rec.parents)} = Ancestors[x]
    OBVIOUS
  <1>4. commits'[new] = rec /\ new \in 1..Len(commits')
    BY <1>1, AppendCommit DEF MakesCommit
  <1>5. Ancestors'[b] = Ancestors[b] /\ \A c \in Ancestors[x] : commits'[c] = commits[c]
    <2>1. \A c \in Ancestors[x] : c \in 1..Len(commits)
      BY <1>1, AncestorsAre
    <2> QED
      BY <1>1, <2>1, AncestorsStay, CommitsStay
  <1>6. Ancestors'[new] = {new} \cup Ancestors[x]
    BY <1>2, <1>3
  <1>7. Between(b, new, run)'
    BY <1>4, <1>5, <1>6 DEF Between
  <1>8. ASSUME rec.by # "pxx", x = b PROVE NoWork(b, new)'
    BY <1>4, <1>5, <1>6, <1>8 DEF NoWork
  <1> QED
    BY <1>4, <1>7, <1>8

LEMMA BetweenSelf ==
  ASSUME TypeInv, NEW b \in 1..Len(commits), NEW run
  PROVE  Between(b, b, run) /\ NoWork(b, b)
  BY Around, AncestorsAre DEF Between, NoWork

\* The commits a run deals with.
LEMMA RunAround ==
  ASSUME TypeInv, mode = "branch", ~At("idle")
  PROVE  /\ cmd.base \in 1..Len(commits) /\ cmd.pre \in 0..Len(commits)
         /\ cmd.after \in 0..Len(commits) /\ cmd.task \in Tasks
  BY DEF TypeInv, CmdOK, Sha, None

\* The part of OwnWork that a step in the middle of a run keeps.
LEMMA HeadsStay ==
  ASSUME TypeInv, RunInv, WorkInv, Grows, mode = "branch", runs' = runs,
         NEW from, NEW to, Runs(from, to), cmd'.pre = cmd.pre, from # "idle"
  PROVE  /\ StartedClean => StartedClean'
         /\ \A x \in 1..Len(commits) : Candidate(x) => x # None /\ Candidate(x)'
  <1>1. PICK b, pre : b = cmd.base /\ pre = cmd.pre
    OBVIOUS
  <1>2. ~At("idle") /\ cmd'.base = b /\ cmd'.pre = pre
    BY <1>1 DEF Runs, At
  <1>3. b \in 1..Len(commits) /\ pre \in 0..Len(commits)
    BY <1>1, <1>2, RunAround
  <1>4. ASSUME StartedClean PROVE StartedClean'
    <2>1. pre \in 1..Len(commits) /\ NoWork(b, pre)
      BY <1>1, <1>3, <1>4 DEF StartedClean, None
    <2>2. NoWork(b, pre)' /\ pre # None
      BY <1>3, <2>1, BetweenStays
    <2> QED
      BY <1>2, <2>2 DEF StartedClean, NoWork
  <1>5. ASSUME NEW x \in 1..Len(commits), Candidate(x) PROVE x # None /\ Candidate(x)'
    <2>1. Between(b, x, runs) /\ (x = pre \/ commits[x].by = "pxx")
      BY <1>1, <1>5 DEF Candidate, OfThisRun
    <2>2. PICK run : run = runs
      OBVIOUS
    <2>3. Between(b, x, run)' /\ commits'[x] = commits[x] /\ x # None
      BY <1>3, <2>1, <2>2, BetweenStays
    <2> QED
      BY <1>2, <2>1, <2>2, <2>3 DEF Candidate, OfThisRun, Between
  <1> QED
    BY <1>4, <1>5

\* What is said of a commit is said of the branch's end, and of what was read back.
LEMMA CandidateIs ==
  ASSUME NEW x, Candidate(x)'
  PROVE  /\ x = Tip' => Candidate(Tip)'
         /\ x = cmd'.after => Candidate(cmd.after)'
  BY DEF Candidate, OfThisRun, Between

LEMMA OwnWorkStep ==
  ASSUME TypeInv, RunInv, WorkInv, "read" \notin Faults, mode = "branch",
         CmdMoves, Grows, ModeStays
  PROVE  OwnWork'
  <1> DEFINE late == {"salvage", "tag", "settle", "receipt", "record", "finish"}
  <1>1. /\ cmd.pc \in {"branched", "unseed"} => Tip = cmd.base
        /\ cmd.pc \in {"pxx", "ended"} => Candidate(Tip)
        /\ cmd.pc \in OnItsBranch \ {"branched", "unseed"} => StartedClean
        /\ cmd.pc \in {"salvage", "tag", "settle"} => cmd.after = Tip
        /\ cmd.pc \in late => cmd.after # None /\ Candidate(cmd.after)
        /\ cmd.pc = "settle" => cmd.parked \/ cmd.tag = cmd.after \/ cmd.after = cmd.pre
    BY DEF WorkInv, OwnWork
  <1>2. PICK b, pre, after, tip, run :
          b = cmd.base /\ pre = cmd.pre /\ after = cmd.after /\ tip = Tip /\ run = runs
    OBVIOUS
  <1>3. /\ tip \in 1..Len(commits) /\ Len(commits) \in Nat /\ Base \notin Tasks
        /\ DOMAIN branch = Tasks \cup {Base} /\ on \in Tasks \cup {Base}
    BY <1>2, Around DEF TypeInv, RepoOK
  <1>4. CASE cmd'.pc \in {"idle", "create"}
    BY <1>4 DEF OwnWork, OnItsBranch
  <1>5. CASE Ends \/ \E t \in Tasks : Begins(t)
    BY <1>4, <1>5 DEF Ends, NoRun, Begins
  <1>6. SUFFICES ASSUME cmd'.pc \notin {"idle", "create"}, ~Ends, ~\E t \in Tasks : Begins(t)
                 PROVE  OwnWork'
    BY <1>4, <1>5
  <1>7. ~At("idle")
    BY <1>6 DEF CmdMoves, Plain, Runs, At, PlainSteps, StartsPxx, ReadsBack, SettlesTag, SettlesBranch
  <1>8. /\ b \in 1..Len(commits) /\ pre \in 0..Len(commits) /\ after \in 0..Len(commits)
        /\ cmd.task \in Tasks /\ runs' = runs
    BY <1>2, <1>7, RunAround DEF ModeStays
  <1>9. cmd.pc \in late => after \in 1..Len(commits)
    BY <1>1, <1>2, <1>8 DEF None
  <1>10. ASSUME NEW from, NEW to, Runs(from, to), cmd'.pre = cmd.pre
         PROVE  /\ cmd.pc = from /\ cmd'.pc = to
                /\ StartedClean => StartedClean'
                /\ Candidate(tip) => Candidate(tip)'
                /\ after \in 1..Len(commits) /\ Candidate(after) => Candidate(after)' /\ after # None
    BY <1>3, <1>7, <1>8, <1>10, HeadsStay DEF Runs, At
  <1>11. Candidate(Tip) => Candidate(tip)
    BY <1>2
  <1>12. Candidate(cmd.after) => Candidate(after)
    BY <1>2
  <1>13. ASSUME NEW from, NEW to, Runs(from, to), SameHeads, from \in late,
                to \in {"receipt", "record", "finish"}
         PROVE  OwnWork'
    <2>1. cmd.pc \in late /\ cmd'.pc = to /\ cmd'.after = after
      BY <1>2, <1>13 DEF Runs, At, SameHeads
    <2>2. Candidate(after)' /\ after # None
      BY <1>1, <1>9, <1>10, <1>12, <1>13, <2>1 DEF SameHeads
    <2>3. Candidate(cmd.after)'
      BY <2>1, <2>2, CandidateIs
    <2> QED
      BY <1>13, <2>1, <2>2, <2>3 DEF OwnWork, OnItsBranch
  <1>14. CASE Elsewhere /\ UNCHANGED cmd
    <2>1. CASE cmd.pc \in OnItsBranch
      <3>1. on = cmd.task
        BY <2>1 DEF RunInv, OnTask
      <3>2. RepoRests
        BY <1>3, <1>7, <1>8, <1>14, <3>1 DEF Elsewhere, Admit, Merge, PersonEdits, PersonReturns,
           RepoRests, repoVars
      <3>3. UNCHANGED <<commits, branch, on, cmd, runs>>
        BY <1>8, <1>14, <3>2 DEF RepoRests
      <3> QED
        BY <3>3 DEF WorkInv, OwnWork, Candidate, OfThisRun, Between, StartedClean, NoWork, Tip,
           Ancestors
    <2>2. CASE cmd.pc \notin OnItsBranch
      <3>1. cmd.pc \in {"receipt", "record", "finish"} /\ cmd \in Cmd
        BY <1>6, <1>14, <2>2 DEF TypeInv, CmdOK, Cmd, Pcs, OnItsBranch
      <3>2. Runs(cmd.pc, cmd.pc) /\ SameHeads
        BY <1>14, <3>1 DEF Runs, At, SameHeads
      <3> QED
        BY <1>13, <3>1, <3>2
    <2> QED
      BY <2>1, <2>2
  <1>15. CASE Creates /\ Plain("create", "branched")
    <2>1. cmd'.pc = "branched" /\ Tip' = cmd'.base
      BY <1>3, <1>8, <1>15 DEF Creates, Plain, Runs, At, Tip
    <2> QED
      BY <2>1 DEF OwnWork, OnItsBranch
  <1>16. CASE \E ss \in PlainSteps : Plain(ss[1], ss[2]) /\ RepoRests
    <2>1. PICK ss \in PlainSteps : Plain(ss[1], ss[2]) /\ RepoRests
      BY <1>16
    <2>2. PICK from, to : from = ss[1] /\ to = ss[2]
      OBVIOUS
    <2>3. Runs(from, to) /\ SameHeads /\ SamePosture /\ cmd.pc = from /\ cmd'.pc = to
      BY <2>1, <2>2 DEF Plain, Runs, At
    <2>4. /\ Tip' = tip /\ cmd'.base = b /\ cmd'.after = after /\ cmd'.pre = pre
          /\ cmd'.tag = cmd.tag /\ cmd'.parked = cmd.parked
      BY <1>2, <2>1, <2>3 DEF RepoRests, Tip, Runs, SameHeads, SamePosture
    <2>5. /\ StartedClean => StartedClean'
          /\ Candidate(tip) => Candidate(Tip)'
          /\ after \in 1..Len(commits) /\ Candidate(after) => Candidate(cmd.after)' /\ after # None
      BY <1>10, <2>3, <2>4, CandidateIs DEF SameHeads
    <2>6. CASE from = "branched" /\ to = "unseed"
      BY <1>1, <1>2, <2>3, <2>4, <2>6 DEF OwnWork, OnItsBranch
    <2>7. CASE from = "pxx" /\ to = "ended"
      BY <1>1, <1>2, <1>11, <2>3, <2>4, <2>5, <2>7 DEF OwnWork, OnItsBranch
    <2>8. CASE from = "salvage" /\ to = "tag"
      BY <1>1, <1>2, <1>9, <1>12, <2>3, <2>4, <2>5, <2>8 DEF OwnWork, OnItsBranch
    <2>9. CASE from \in late /\ to \in {"receipt", "record", "finish"}
      BY <1>13, <2>3, <2>9
    <2> QED
      BY <2>1, <2>2, <2>6, <2>7, <2>8, <2>9 DEF PlainSteps
  <1>17. ASSUME RepoRests, StartsPxx(Tip) PROVE OwnWork'
    <2>1. cmd.pc = "branched" /\ cmd'.pc = "pxx" /\ cmd'.base = b /\ Tip' = tip /\ tip = b /\ cmd'.pre = b
      BY <1>1, <1>2, <1>17 DEF StartsPxx, Runs, At, RepoRests, Tip, BestEffort
    <2>2. Between(b, b, run)' /\ NoWork(b, b)' /\ b # None
      BY <1>8, BetweenSelf, BetweenStays
    <2>3. Candidate(b)'
      BY <1>2, <1>8, <2>1, <2>2 DEF Candidate, OfThisRun, Between
    <2>4. StartedClean'
      BY <2>1, <2>2 DEF StartedClean, NoWork
    <2> QED
      BY <2>1, <2>3, <2>4, CandidateIs DEF OwnWork, OnItsBranch
  <1>18. ASSUME NEW rec \in CommitRec, MadeBy("seed", rec), StartsPxx(Len(commits) + 1) PROVE OwnWork'
    <2>1. PICK new : new = Len(commits) + 1
      OBVIOUS
    <2>2. cmd.pc = "branched" /\ cmd'.pc = "pxx" /\ cmd'.base = b /\ tip = b /\ cmd'.pre = new
      BY <1>1, <1>2, <1>18, <2>1 DEF StartsPxx, Runs, At, BestEffort
    <2>3. Tip' = new
      BY <1>3, <1>18, <2>1 DEF MadeBy, Commits, Tip
    <2>4. MakesCommit(rec) /\ ToSet(rec.parents) = {b} /\ rec.run = run /\ rec.by = "seed"
      BY <1>2, <1>18, <2>2 DEF MadeBy, Commits
    <2>5. Between(b, new, run)' /\ NoWork(b, new)' /\ new # None
      BY <1>3, <1>8, <2>1, <2>4, BetweenSelf, BetweenGrows DEF None
    <2>6. Candidate(new)'
      BY <1>2, <1>8, <2>2, <2>5 DEF Candidate, OfThisRun, Between
    <2>7. StartedClean'
      BY <2>2, <2>5 DEF StartedClean, NoWork
    <2> QED
      BY <2>2, <2>3, <2>6, <2>7, CandidateIs DEF OwnWork, OnItsBranch
  <1>19. ASSUME NEW rec \in CommitRec, MadeBy("pxx", rec), Plain("pxx", "pxx") PROVE OwnWork'
    <2>1. PICK new : new = Len(commits) + 1
      OBVIOUS
    <2>2. Runs("pxx", "pxx") /\ cmd'.pre = cmd.pre /\ cmd'.base = b /\ cmd.pc = "pxx" /\ cmd'.pc = "pxx"
      BY <1>2, <1>19 DEF Plain, SameHeads, Runs, At
    <2>3. Tip' = new
      BY <1>3, <1>19, <2>1 DEF MadeBy, Commits, Tip
    <2>4. MakesCommit(rec) /\ ToSet(rec.parents) = {tip} /\ rec.run = run /\ rec.by = "pxx"
      BY <1>2, <1>19 DEF MadeBy, Commits
    <2>5. Between(b, tip, run)
      BY <1>1, <1>2, <2>2 DEF Candidate, OfThisRun
    <2>6. Between(b, new, run)' /\ commits'[new] = rec
      BY <1>3, <1>8, <2>1, <2>4, <2>5, BetweenGrows
    <2>7. Candidate(new)'
      BY <1>2, <1>8, <2>2, <2>4, <2>6 DEF Candidate, OfThisRun, Between
    <2>8. StartedClean'
      BY <1>1, <1>10, <2>2 DEF OnItsBranch
    <2> QED
      BY <2>2, <2>3, <2>7, <2>8, CandidateIs DEF OwnWork, OnItsBranch
  <1>20. CASE ReadsBack /\ RepoRests
    <2>1. /\ Runs("ended", "salvage") /\ cmd'.pre = cmd.pre /\ cmd.pc = "ended" /\ cmd'.pc = "salvage"
          /\ cmd'.after = tip /\ Tip' = tip
      BY <1>2, <1>20 DEF ReadsBack, Runs, At, BestEffort, RepoRests, Tip
    <2>2. StartedClean' /\ Candidate(tip)' /\ tip # None
      BY <1>1, <1>2, <1>3, <1>10, <1>11, <2>1 DEF OnItsBranch, None
    <2> QED
      BY <2>1, <2>2, CandidateIs DEF OwnWork, OnItsBranch
  <1>21. CASE SettlesTag
    <2>1. /\ Runs("tag", "settle") /\ SameHeads /\ cmd.pc = "tag" /\ cmd'.pc = "settle"
          /\ cmd'.pre = cmd.pre /\ cmd'.after = after /\ after = tip /\ Tip' = tip
      BY <1>1, <1>2, <1>21 DEF SettlesTag, Runs, At, SameHeads, RepoRests, Tip
    <2>2. StartedClean' /\ Candidate(after)' /\ after # None
      BY <1>1, <1>9, <1>10, <1>12, <2>1 DEF OnItsBranch
    <2>3. cmd'.parked \/ cmd'.tag = cmd'.after \/ cmd'.after = cmd'.pre
      BY <1>2, <1>21, <2>1, <2>2 DEF SettlesTag, Moved
    <2> QED
      BY <2>1, <2>2, <2>3, CandidateIs DEF OwnWork, OnItsBranch
  <1>22. CASE SettlesBranch
    BY <1>13, <1>22 DEF SettlesBranch
  <1> QED
    BY <1>6, <1>14, <1>15, <1>16, <1>17, <1>18, <1>19, <1>20, <1>21, <1>22 DEF CmdMoves

\* The base branch only moves to commits on top of it.
LEMMA BaseGrows ==
  ASSUME TypeInv, RepoMoves, Grows
  PROVE  Ancestors[branch[Base]] \subseteq Ancestors'[branch'[Base]]
  <1>1. /\ Graph /\ branch[Base] \in 1..Len(commits) /\ Tip \in 1..Len(commits)
        /\ DOMAIN branch = Tasks \cup {Base} /\ Base \notin Tasks
        /\ Ancestors'[branch[Base]] = Ancestors[branch[Base]]
    BY Around, AncestorsStay
  <1>2. CASE branch'[Base] = branch[Base]
    BY <1>1, <1>2
  <1>3. CASE branch'[Base] # branch[Base]
    <2>1. ~RepoRests /\ ~Creates /\ ~Returns /\ ~PersonReturns
      BY <1>1, <1>3 DEF RepoRests, Creates, Returns, PersonReturns
    <2>2. PICK rec \in CommitRec : Commits(rec)
      BY <2>1 DEF RepoMoves
    <2>3. on = Base /\ branch'[Base] = Len(commits) + 1
      BY <1>1, <1>3, <2>2 DEF Commits
    <2>4. Ancestors'[Len(commits) + 1] =
            {Len(commits) + 1} \cup UNION {Ancestors[p] : p \in ToSet(rec.parents)}
      BY <1>1, <2>2, NewAncestors DEF Commits
    <2>5. Tip \in ToSet(rec.parents)
      <3>1. rec.parents \in Seq(Nat) /\ rec.parents # <<>> /\ rec.parents[1] = Tip
        BY <2>2 DEF Commits, CommitRec
      <3> QED
        BY <3>1 DEF ToSet
    <2> QED
      BY <2>3, <2>4, <2>5 DEF Tip
  <1> QED
    BY <1>2, <1>3

LEMMA BasesStayStep ==
  ASSUME TypeInv, WorkInv, mode = "branch", RepoMoves, RecordMoves, CmdMoves, Grows
  PROVE  BasesStay'
  <1>1. /\ \A t \in Tasks : base[t] # None => base[t] \in Ancestors[branch[Base]]
        /\ ~At("idle") => cmd.base \in Ancestors[branch[Base]]
    BY DEF WorkInv, BasesStay
  <1>2. Ancestors[branch[Base]] \subseteq Ancestors'[branch'[Base]]
    BY BaseGrows
  <1>3. ASSUME NEW t \in Tasks, base'[t] # None PROVE base'[t] \in Ancestors'[branch'[Base]]
    <2>1. CASE base'[t] = base[t]
      BY <1>1, <1>2, <1>3, <2>1
    <2>2. CASE base'[t] # base[t]
      <3>1. \E u \in Tasks : Admit(u)
        BY <2>2 DEF RecordMoves, Tags, Records
      <3>2. base'[t] = branch[Base]
        BY <2>2, <3>1 DEF Admit, TypeInv, RecordsOK
      <3>3. branch[Base] \in Ancestors[branch[Base]]
        BY Around, AncestorsAre
      <3> QED
        BY <1>2, <3>2, <3>3
    <2> QED
      BY <2>1, <2>2
  <1>4. ASSUME cmd'.pc # "idle" PROVE cmd'.base \in Ancestors'[branch'[Base]]
    <2>1. CASE \E t \in Tasks : Begins(t)
      BY <1>1, <1>2, <2>1 DEF Begins
    <2>2. ~Ends
      BY <1>4 DEF Ends, NoRun
    <2>3. CASE ~\E t \in Tasks : Begins(t)
      <3>1. UNCHANGED cmd \/ \E from, to : Runs(from, to) /\ from # "idle"
        <4>1. CASE \E ss \in PlainSteps : Plain(ss[1], ss[2]) /\ RepoRests
          BY <4>1 DEF PlainSteps, Plain
        <4> QED
          BY <2>2, <2>3, <4>1 DEF CmdMoves, Plain, StartsPxx, ReadsBack, SettlesTag, SettlesBranch
      <3>2. ~At("idle") /\ cmd'.base = cmd.base
        BY <1>4, <3>1 DEF Runs, At
      <3> QED
        BY <1>1, <1>2, <3>2
    <2> QED
      BY <2>1, <2>3
  <1> QED
    BY <1>3, <1>4 DEF BasesStay, At

LEMMA InlineStep ==
  ASSUME TypeInv, WorkInv, mode = "inline", RepoMoves
  PROVE  Inline'
  <1>1. on = Base /\ (\A t \in Tasks : branch[t] = None) /\ ~At("create")
    BY DEF WorkInv, Inline, TypeInv, CmdOK
  <1>2. Base \notin Tasks /\ DOMAIN branch = Tasks \cup {Base}
    BY Around
  <1>3. CASE RepoRests
    BY <1>1, <1>3 DEF RepoRests, Inline
  <1>4. CASE \E rec \in CommitRec : Commits(rec)
    BY <1>1, <1>2, <1>4 DEF Commits, Inline
  <1>5. ~Creates /\ ~Returns
    BY <1>1 DEF Creates, Returns
  <1>6. CASE PersonReturns
    BY <1>1, <1>2, <1>6 DEF PersonReturns, Inline
  <1> QED
    BY <1>3, <1>4, <1>5, <1>6 DEF RepoMoves

LEMMA CandidateStep ==
  ASSUME TypeInv, WorkInv, RecordMoves, Grows, ModeStays
  PROVE  CandidateIsThisRun'
  <1>1. SUFFICES ASSUME mode = "branch", NEW row \in executed'
                 PROVE  /\ commits'[row.sha].by = "pxx" /\ row.base \in Ancestors'[row.sha]
                        /\ \A c \in Ancestors'[row.sha] \ Ancestors'[row.base] :
                             commits'[c].run = row.run
    BY DEF CandidateIsThisRun, ModeStays
  <1>2. SUFFICES /\ row.sha \in 1..Len(commits) /\ row.base \in 1..Len(commits)
                 /\ commits[row.sha].by = "pxx" /\ Between(row.base, row.sha, row.run)
    <2>1. PICK from, sha, run : from = row.base /\ sha = row.sha /\ run = row.run
      OBVIOUS
    <2>2. sha \in 1..Len(commits) /\ from \in 1..Len(commits) /\ Between(from, sha, run)
      BY <1>2, <2>1
    <2>3. Between(from, sha, run)' /\ commits'[sha] = commits[sha]
      BY <2>2, BetweenStays
    <2> QED
      BY <1>2, <2>1, <2>3 DEF Between
  <1>3. CASE row \in executed
    <2>1. row.sha \in 1..Len(commits) /\ row.base \in 1..Len(commits)
      BY <1>3 DEF TypeInv, RecordsOK, Sha, None
    <2> QED
      BY <1>1, <1>3, <2>1 DEF WorkInv, CandidateIsThisRun, Between
  <1>4. CASE row \notin executed
    <2>1. Records /\ row = NewRow
      BY <1>1, <1>4 DEF RecordMoves, Tags, Records, Admit
    <2>2. /\ row.sha = cmd.after /\ row.base = cmd.base /\ row.run = runs /\ cmd.pc = "record"
          /\ cmd.after # cmd.pre
      BY <1>1, <2>1 DEF NewRow, Records, HasCandidate, At
    <2>3. cmd.after # None /\ Candidate(cmd.after)
      BY <1>1, <2>2 DEF WorkInv, OwnWork
    <2>4. row.sha \in 1..Len(commits) /\ row.base \in 1..Len(commits)
      BY <1>1, <2>2, <2>3, RunAround DEF At, None
    <2> QED
      BY <2>2, <2>3, <2>4 DEF Candidate, OfThisRun
  <1> QED
    BY <1>3, <1>4

\* A commit is held by a tag or by a branch.
HeldOnly ==
  \A d : d \in Held <=> \/ \E t \in Tasks : \E r \in ToSet(tags[t]) : d \in Ancestors[r]
                        \/ \E x \in Tasks \cup {Base} :
                             branch[x] # None /\ d \in Ancestors[branch[x]]

LEMMA HeldBy == TypeInv => HeldOnly
  <1> SUFFICES ASSUME TypeInv, NEW c
               PROVE  c \in Held <=>
                        \/ \E t \in Tasks : \E r \in ToSet(tags[t]) : c \in Ancestors[r]
                        \/ \E x \in Tasks \cup {Base} :
                             branch[x] # None /\ c \in Ancestors[branch[x]]
    BY DEF HeldOnly
  <1>1. DOMAIN branch = Tasks \cup {Base} /\ \A t \in Tasks : \A r \in ToSet(tags[t]) : r # None
    BY Around DEF TypeInv, RecordsOK
  <1> QED
    BY <1>1 DEF Held, Pinned, HeldOnly

LEMMA DroppedGrows == Next => dropped \subseteq dropped'
  <1> SUFFICES ASSUME Next PROVE dropped \subseteq dropped'
    OBVIOUS
  <1>1. CASE PersonReturns
    BY <1>1 DEF PersonReturns
  <1>2. CASE \E t \in Tasks : Admit(t) \/ \E receipt \in BOOLEAN : Start(t, receipt)
    BY <1>2 DEF Admit, Start, peopleVars
  <1>3. CASE Create \/ NoSeed \/ SeedCommitted \/ SeedRefused \/ LeaveEmptyBranch \/ PxxCommits
    BY <1>3 DEF Create, NoSeed, SeedCommitted, SeedRefused, LeaveEmptyBranch, PxxCommits, peopleVars
  <1>4. CASE PxxCompletes \/ PxxResets \/ PxxRefusesToReset \/ ReadBack \/ Salvage \/ Tag
    BY <1>4 DEF PxxCompletes, PxxResets, PxxRefusesToReset, ReadBack, Salvage, Tag, peopleVars
  <1>5. CASE Settle \/ Receipt \/ Record \/ Finish \/ Kill \/ Merge \/ PersonEdits
    BY <1>5 DEF Settle, Receipt, Record, Finish, Kill, Merge, PersonEdits, peopleVars
  <1> QED
    BY <1>1, <1>2, <1>3, <1>4, <1>5 DEF Next

\* What a branch that is deleted at the end of a run held is under a tag, or was
\* there before pxx, on the base branch.
LEMMA ReturnLosesNothing ==
  ASSUME TypeInv, RunInv, WorkInv, Returns, LeaveEmptyBranch \/ Settle, ~UNCHANGED branch,
         NEW c \in Ancestors[branch[cmd.task]], commits[c].by = "pxx"
  PROVE  \/ \E r \in ToSet(tags[cmd.task]) : c \in Ancestors[r]
         \/ c \in Ancestors[branch[Base]]
  <1>1. mode = "branch" /\ cmd.pc \in {"unseed", "settle"} /\ cmd.task \in Tasks /\ Graph
    BY Around DEF Returns
  <1>2. on = cmd.task /\ Tip = branch[cmd.task]
    BY <1>1 DEF RunInv, OnTask, OnItsBranch, Tip
  <1>3. OwnWork /\ cmd.base \in Ancestors[branch[Base]] /\ branch[Base] \in 1..Len(commits)
    BY <1>1, Around DEF WorkInv, BasesStay, At
  <1>4. Ancestors[cmd.base] \subseteq Ancestors[branch[Base]]
    BY <1>1, <1>3, AncestorsAre
  <1>5. CASE cmd.pc = "unseed"
    BY <1>2, <1>3, <1>4, <1>5 DEF OwnWork
  <1>6. CASE cmd.pc = "settle"
    <2>1. ~cmd.parked
      BY <1>6 DEF LeaveEmptyBranch, Settle, At
    <2>2. /\ cmd.after = Tip /\ cmd.after # None /\ StartedClean
          /\ cmd.tag = cmd.after \/ cmd.after = cmd.pre
      BY <1>3, <1>6, <2>1 DEF OwnWork, OnItsBranch
    <2>3. CASE cmd.tag = cmd.after
      <3>1. cmd.after \in ToSet(tags[cmd.task])
        BY <2>2, <2>3 DEF RunInv, TagHolds
      <3> QED
        BY <1>2, <2>2, <3>1
    <2>4. CASE cmd.after = cmd.pre
      <3>1. c \in Ancestors[cmd.base]
        BY <1>2, <2>2, <2>4 DEF StartedClean, NoWork
      <3> QED
        BY <1>4, <3>1
    <2> QED
      BY <2>2, <2>3, <2>4
  <1> QED
    BY <1>1, <1>5, <1>6

LEMMA HeldStep ==
  ASSUME TypeInv, TypeInv', RunInv, WorkInv, Next, RepoMoves, Grows, TagsGrow
  PROVE  PxxWorkIsHeld'
  <1>1. /\ Graph /\ Len(commits) \in Nat /\ Len(commits') \in Nat
        /\ DOMAIN commits = 1..Len(commits) /\ DOMAIN commits' = 1..Len(commits')
        /\ \A c \in 1..Len(commits) : commits'[c] = commits[c] /\ Ancestors'[c] = Ancestors[c]
        /\ DOMAIN branch = Tasks \cup {Base} /\ Base \notin Tasks /\ Tip \in 1..Len(commits)
        /\ on \in Tasks \cup {Base}
        /\ \A x \in Tasks \cup {Base} : branch[x] \in 0..Len(commits)
    BY Around, CommitsStay, AncestorsStay DEF TypeInv, RepoOK, Sha
  <1>2. SUFFICES ASSUME NEW c \in 1..Len(commits'), commits'[c].by = "pxx"
                 PROVE  c \in Held' \/ c \in dropped'
    BY <1>1 DEF PxxWorkIsHeld
  <1>3. HeldOnly'
    <2>1. TypeInv'
      OBVIOUS
    <2> QED
      BY <2>1, HeldBy, PTL
  <1>4. /\ \A t \in Tasks : \A r \in ToSet(tags'[t]) : c \in Ancestors'[r] => c \in Held'
        /\ \A x \in Tasks \cup {Base} : branch'[x] # None /\ c \in Ancestors'[branch'[x]] => c \in Held'
    BY <1>3 DEF HeldOnly
  <1>5. dropped \subseteq dropped'
    BY DroppedGrows
  <1>6. ASSUME NEW t \in Tasks, NEW r \in ToSet(tags[t]), c \in Ancestors[r] PROVE c \in Held'
    <2>1. r \in ToSet(tags'[t]) /\ r \in 1..Len(commits)
      BY <1>1, <1>6 DEF TagsGrow, TypeInv, RecordsOK, Sha, None
    <2> QED
      BY <1>1, <1>4, <1>6, <2>1
  <1>7. ASSUME NEW x \in Tasks \cup {Base}, branch[x] # None, c \in Ancestors[branch[x]],
               branch'[x] = branch[x]
        PROVE  c \in Held'
    BY <1>1, <1>4, <1>7 DEF None
  <1>8. CASE c \in 1..Len(commits)
    <2>1. commits[c].by = "pxx" /\ c \in Held \cup dropped
      BY <1>1, <1>2, <1>8 DEF WorkInv, PxxWorkIsHeld
    <2>2. SUFFICES ASSUME c \in Held PROVE c \in Held' \/ c \in dropped'
      BY <1>5, <2>1
    <2>3. SUFFICES ASSUME NEW x \in Tasks \cup {Base}, branch[x] # None, c \in Ancestors[branch[x]],
                          branch'[x] # branch[x]
                   PROVE  c \in Held' \/ c \in dropped'
      BY <1>6, <1>7, <2>2, HeldBy DEF HeldOnly
    <2>4. ~RepoRests
      BY <2>3 DEF RepoRests
    <2>5. ASSUME NEW rec \in CommitRec, Commits(rec) PROVE c \in Held'
      <3>1. x = on /\ branch'[x] = Len(commits) + 1
        BY <1>1, <2>3, <2>5 DEF Commits
      <3>2. Tip \in ToSet(rec.parents)
        <4>1. rec.parents \in Seq(Nat) /\ rec.parents # <<>> /\ rec.parents[1] = Tip
          BY <2>5 DEF Commits, CommitRec
        <4> QED
          BY <4>1 DEF ToSet
      <3>3. Ancestors'[Len(commits) + 1] =
              {Len(commits) + 1} \cup UNION {Ancestors[p] : p \in ToSet(rec.parents)}
        BY <1>1, <2>5, NewAncestors DEF Commits
      <3>4. c \in Ancestors'[branch'[x]] /\ branch'[x] # None
        BY <1>1, <2>3, <3>1, <3>2, <3>3 DEF Tip, None
      <3> QED
        BY <1>4, <3>4
    <2>6. ~Creates
      BY <1>1, <2>3 DEF Creates
    <2>7. ASSUME LeaveEmptyBranch \/ Settle, Returns PROVE c \in Held'
      <3>1. x = cmd.task /\ x # Base /\ ~UNCHANGED branch /\ branch'[Base] = branch[Base]
            /\ branch[Base] # None
        BY <1>1, <2>3, <2>7 DEF Returns, TypeInv, RepoOK
      <3>2. \/ \E r \in ToSet(tags[cmd.task]) : c \in Ancestors[r]
            \/ c \in Ancestors[branch[Base]]
        BY <2>1, <2>3, <2>7, <3>1, ReturnLosesNothing
      <3>3. cmd.task \in Tasks
        BY <2>7 DEF Returns
      <3> QED
        BY <1>6, <1>7, <3>1, <3>2, <3>3
    <2>8. ASSUME PersonReturns PROVE c \in dropped'
      <3>1. PICK gone \in SUBSET {t \in Tasks : branch[t] # None} :
              /\ branch' = [b \in DOMAIN branch |-> IF b \in gone THEN None ELSE branch[b]]
              /\ dropped' = dropped \cup UNION {Ancestors[branch[t]] : t \in gone}
        BY <2>8 DEF PersonReturns
      <3>2. x \in gone
        BY <1>1, <2>3, <3>1
      <3> QED
        BY <2>3, <3>1, <3>2
    <2> QED
      BY <2>4, <2>5, <2>6, <2>7, <2>8 DEF RepoMoves
  <1>9. CASE c \notin 1..Len(commits)
    <2>1. commits' # commits
      BY <1>2, <1>9
    <2>2. PICK rec \in CommitRec : Commits(rec)
      BY <2>1 DEF RepoMoves, RepoRests, Creates, Returns, PersonReturns
    <2>3. /\ Len(commits') = Len(commits) + 1 /\ branch'[on] = Len(commits) + 1
          /\ Ancestors'[Len(commits) + 1] =
               {Len(commits) + 1} \cup UNION {Ancestors[p] : p \in ToSet(rec.parents)}
      BY <1>1, <2>2, AppendCommit, NewAncestors DEF Commits, MakesCommit
    <2>4. c = Len(commits) + 1
      BY <1>1, <1>2, <1>9, <2>3
    <2>5. branch'[on] # None /\ c \in Ancestors'[branch'[on]]
      BY <1>1, <2>3, <2>4 DEF None
    <2> QED
      BY <1>1, <1>4, <2>5
  <1> QED
    BY <1>8, <1>9

LEMMA InitWork == Init => WorkInv
  <1> SUFFICES ASSUME Init PROVE WorkInv
    OBVIOUS
  <1>1. cmd.pc = "idle" /\ executed = {} /\ commits[1].by = "human" /\ DOMAIN commits = {1}
    BY DEF Init, NoRun
  <1>2. OwnWork /\ CandidateIsThisRun /\ PxxWorkIsHeld
    BY <1>1 DEF OwnWork, OnItsBranch, CandidateIsThisRun, PxxWorkIsHeld
  <1>3. BasesStay /\ Inline
    BY <1>1, TaskRunAssumption DEF Init, BasesStay, Inline, At
  <1> QED
    BY <1>2, <1>3 DEF WorkInv

LEMMA WorkStep ==
  ASSUME "read" \notin Faults
  PROVE  TypeInv /\ RunInv /\ WorkInv /\ [Next]_vars => WorkInv'
  <1> SUFFICES ASSUME TypeInv, RunInv, WorkInv, [Next]_vars PROVE WorkInv'
    OBVIOUS
  <1>1. CASE Next
    <2>1. /\ RepoMoves /\ RecordMoves /\ CmdMoves /\ ModeStays /\ TypeInv'
          /\ mode \in {"branch", "inline"} /\ mode' = mode
      BY <1>1, RepoMove, RecordMove, CmdMove, ModeMove, TypeStep, Around DEF ModeStays
    <2>2. Grows /\ TagsGrow
      BY <2>1, RepoTyped, RecordsTyped
    <2>3. mode = "branch" => OwnWork' /\ BasesStay'
      BY <2>1, <2>2, OwnWorkStep, BasesStayStep
    <2>4. mode = "inline" => Inline'
      BY <2>1, InlineStep
    <2>5. CandidateIsThisRun' /\ PxxWorkIsHeld'
      BY <1>1, <2>1, <2>2, CandidateStep, HeldStep
    <2> QED
      BY <2>1, <2>3, <2>4, <2>5 DEF WorkInv
  <1>2. CASE UNCHANGED vars
    <2>1. /\ UNCHANGED <<mode, commits, branch, on, tags, base, executed, cmd, runs, dropped>>
          /\ Ancestors' = Ancestors /\ Tip' = Tip /\ Pinned' = Pinned
      BY <1>2 DEF vars, repoVars, ledgerVars, peopleVars, Ancestors, Tip, Pinned
    <2>2. Held' = Held
      BY <2>1 DEF Held
    <2>3. OwnWork' = OwnWork
      BY <2>1 DEF OwnWork, Candidate, OfThisRun, Between, StartedClean, NoWork
    <2>4. BasesStay' = BasesStay /\ Inline' = Inline
      BY <2>1 DEF BasesStay, Inline, At
    <2>5. CandidateIsThisRun' = CandidateIsThisRun /\ PxxWorkIsHeld' = PxxWorkIsHeld
      BY <2>1, <2>2 DEF CandidateIsThisRun, PxxWorkIsHeld
    <2> QED
      BY <2>1, <2>3, <2>4, <2>5 DEF WorkInv
  <1> QED
    BY <1>1, <1>2

LEMMA WorkHolds ==
  ASSUME "read" \notin Faults
  PROVE  Spec => []WorkInv
  <1>1. TypeInv /\ RunInv /\ WorkInv /\ [Next]_vars => WorkInv'
    BY WorkStep
  <1> QED
    BY <1>1, InitWork, RunHolds, PTL DEF Spec

\* While HEAD can be read, what an EXECUTED row names is pxx's, and all that it adds to
\* the admission's base was made in the run behind the row: through seeds,
\* re-admissions, parked runs and failures of everything else.
THEOREM CandidatesAreOfTheirRun ==
  ASSUME "read" \notin Faults
  PROVE  Spec => []CandidateIsThisRun
  <1>1. WorkInv => CandidateIsThisRun
    BY DEF WorkInv
  <1> QED
    BY <1>1, WorkHolds, PTL

\* While HEAD can be read, a commit of pxx that no person deleted is under a tag or on a
\* branch, whatever failed or was killed on the way back to the base.
THEOREM NoWorkIsLost ==
  ASSUME "read" \notin Faults
  PROVE  Spec => []PxxWorkIsHeld
  <1>1. WorkInv => PxxWorkIsHeld
    BY DEF WorkInv
  <1> QED
    BY <1>1, WorkHolds, PTL

=============================================================================
