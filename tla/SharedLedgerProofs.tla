------------------------- MODULE SharedLedgerProofs -------------------------
(***************************************************************************)
(* Proofs about SharedLedger, for every set of writers, clones, tasks and   *)
(* faults: its types; that the hub implements AppendOnlyLedger; what        *)
(* becomes of the commit of an operation whose caller was told a fate; and   *)
(* that a merge section has the hub's lock.                                 *)
(***************************************************************************)
EXTENDS SharedLedger, SequenceTheorems, TLAPS

-----------------------------------------------------------------------------
(***************************************************************************)
(* Facts about prefixes of sequences: a git history is the sequence of its  *)
(* commits and "is an ancestor of" is IsPrefix.                             *)
(***************************************************************************)
LEMMA PrefixCharacterization ==
  ASSUME NEW S, NEW s \in Seq(S), NEW t \in Seq(S)
  PROVE  IsPrefix(s, t) <=> /\ Len(s) <= Len(t)
                            /\ \A i \in 1..Len(s) : s[i] = t[i]
  BY DEF IsPrefix

LEMMA PrefixReflexive ==
  ASSUME NEW S, NEW s \in Seq(S)
  PROVE  IsPrefix(s, s)
  BY PrefixCharacterization

LEMMA PrefixTransitive ==
  ASSUME NEW S, NEW s \in Seq(S), NEW t \in Seq(S), NEW u \in Seq(S),
         IsPrefix(s, t), IsPrefix(t, u)
  PROVE  IsPrefix(s, u)
  <1>1. /\ Len(s) <= Len(t) /\ \A i \in 1..Len(s) : s[i] = t[i]
        /\ Len(t) <= Len(u) /\ \A i \in 1..Len(t) : t[i] = u[i]
    BY PrefixCharacterization
  <1>2. Len(s) <= Len(u) /\ \A i \in 1..Len(s) : s[i] = u[i]
    BY <1>1
  <1>3. QED
    BY <1>2, PrefixCharacterization

LEMMA PrefixOfAppend ==
  ASSUME NEW S, NEW s \in Seq(S), NEW e \in S
  PROVE  IsPrefix(s, Append(s, e))
  <1>1. Append(s, e) \in Seq(S) /\ Len(s) <= Len(Append(s, e))
    OBVIOUS
  <1>2. \A i \in 1..Len(s) : s[i] = Append(s, e)[i]
    OBVIOUS
  <1>3. QED
    BY <1>1, <1>2, PrefixCharacterization

LEMMA FrontProperties ==
  ASSUME NEW S, NEW h \in Seq(S), h # <<>>
  PROVE  /\ Front(h) \in Seq(S)
         /\ Len(Front(h)) = Len(h) - 1
         /\ \A i \in 1..(Len(h) - 1) : Front(h)[i] = h[i]
  <1>1. Len(h) \in Nat \ {0}
    BY EmptySeq
  <1> DEFINE n == Len(h) - 1
  <1>2. n \in Nat
    BY <1>1
  <1>3. \A i \in 1..n : i \in 1..Len(h)
    BY <1>1
  <1>4. \A i \in 1..n : h[i] \in S
    BY <1>3, ElementOfSeq
  <1> HIDE DEF n
  <1>5. (IF 1 <= n THEN n - 1 + 1 ELSE 0) = n
    BY <1>2
  <1>6. /\ SubSeq(h, 1, n) \in Seq(S)
        /\ Len(SubSeq(h, 1, n)) = n
        /\ \A i \in 1..n : SubSeq(h, 1, n)[i] = h[i]
    BY <1>2, <1>4, <1>5, SubSeqProperties
  <1>7. QED
    BY <1>6 DEF Front, n

\* Only two histories lie between a history and its extension by one commit.
LEMMA PrefixBetween ==
  ASSUME NEW S, NEW s \in Seq(S), NEW h \in Seq(S), h # <<>>,
         IsPrefix(Front(h), s), IsPrefix(s, h)
  PROVE  s = Front(h) \/ s = h
  <1>1. /\ Front(h) \in Seq(S)
        /\ Len(Front(h)) = Len(h) - 1
        /\ \A i \in 1..(Len(h) - 1) : Front(h)[i] = h[i]
    BY FrontProperties
  <1>2. /\ Len(h) - 1 <= Len(s) /\ Len(s) <= Len(h)
        /\ \A i \in 1..Len(s) : s[i] = h[i]
    BY <1>1, PrefixCharacterization
  <1>3. CASE Len(s) = Len(h)
    BY <1>2, <1>3, SeqEqual
  <1>4. CASE Len(s) = Len(h) - 1
    <2>1. \A i \in 1..Len(s) : s[i] = Front(h)[i]
      BY <1>1, <1>2, <1>4
    <2>2. QED
      BY <1>1, <1>4, <2>1, SeqEqual
  <1>5. QED
    BY <1>2, <1>3, <1>4

LEMMA FrontOfAppend ==
  ASSUME NEW S, NEW s \in Seq(S), NEW e \in S
  PROVE  /\ Front(Append(s, e)) = s
         /\ Append(s, e) \in Seq(S) /\ Append(s, e) # <<>>
         /\ Len(Append(s, e)) = Len(s) + 1
         /\ Append(s, e)[Len(s) + 1] = e
         /\ \A i \in 1..Len(s) : Append(s, e)[i] = s[i]
  <1>1. /\ Append(s, e) \in Seq(S) /\ Append(s, e) # <<>>
        /\ Len(Append(s, e)) = Len(s) + 1
        /\ Append(s, e)[Len(s) + 1] = e
        /\ \A i \in 1..Len(s) : Append(s, e)[i] = s[i]
    OBVIOUS
  <1>2. /\ Front(Append(s, e)) \in Seq(S)
        /\ Len(Front(Append(s, e))) = Len(s)
        /\ \A i \in 1..Len(s) : Front(Append(s, e))[i] = s[i]
    BY <1>1 DEF Front
  <1>3. Front(Append(s, e)) = s
    BY <1>2, SeqEqual
  <1>4. QED
    BY <1>1, <1>3

\* Typing.  A history is never empty, which every "last commit" relies on.

NonEmpty ==
  /\ hub # <<>>
  /\ \A c \in Clones : branch[c] # <<>>
  /\ \A w \in Writers : pc[w] \in {"push", "readback"} => op[w].before # <<>>
  /\ \A h \in inflight : h # <<>>

TypeInv == TypeOK /\ NonEmpty

LEMMA Typed ==
  /\ RootTree \in Tree /\ RootCommit \in Commit /\ NoOp \in Op
  /\ \A w \in Writers : CloneOf[w] \in Clones /\ MayMerge[w] \subseteq Tasks
  BY LedgerAssumption
  DEF RootTree, RootCommit, NoOp, NewOp, Tree, Commit, Op, Row, RowId, GenesisRow, Kinds

LEMMA LastCommitTyped ==
  ASSUME NEW h \in Seq(Commit), h # <<>>
  PROVE  h[Len(h)] \in Commit /\ h[Len(h)].tree \in Tree
  <1>1. Len(h) \in 1..Len(h)
    BY EmptySeq
  <1>2. h[Len(h)] \in Commit
    BY <1>1, ElementOfSeq
  <1>3. QED
    BY <1>2 DEF Commit

\* What an operation that ends does to the variables of its writer.
LEMMA FinishTyped ==
  ASSUME TypeInv, NEW w \in Writers, NEW ok \in BOOLEAN, Finish(w, ok)
  PROVE  /\ pc' \in [Writers -> Steps]
         /\ op' \in [Writers -> Op]
         /\ held' \in [Writers -> Tasks \cup {Free}]
         /\ count' \in [Writers -> Nat]
         /\ \A v \in Writers : pc'[v] \in {"push", "readback"} =>
                                 pc[v] = pc'[v] /\ op'[v] = op[v]
  <1>1. Section(w, ok) \in Tasks \cup {Free}
    BY DEF Section, TypeInv, TypeOK, Op, Kinds
  <1>2. NoOp \in Op
    BY Typed
  <1>3. QED
    BY <1>1, <1>2 DEF Finish, Goto, TypeInv, TypeOK, Steps

LEMMA MoveTyped ==
  ASSUME TypeInv, NEW c \in Clones, NEW h \in Seq(Commit), h # <<>>, MoveTo(c, h)
  PROVE  /\ branch' \in [Clones -> Seq(Commit)]
         /\ index' \in [Clones -> Tree]
         /\ tree' \in [Clones -> Tree]
         /\ \A d \in Clones : branch'[d] # <<>>
  <1>1. h[Len(h)].tree \in Tree
    BY LastCommitTyped
  <1> DEFINE target == h[Len(h)].tree
  <1>2. /\ target \in Tree /\ tree[c] \in Tree
    BY <1>1 DEF TypeInv, TypeOK
  <1> DEFINE moved == [rows |-> IF target.rows = HeadTree(c).rows
                                THEN tree[c].rows ELSE target.rows,
                       lock |-> IF target.lock = HeadTree(c).lock
                                THEN tree[c].lock ELSE target.lock]
  <1>3. moved \in Tree
    BY <1>2 DEF Tree
  <1>4. /\ branch' = [branch EXCEPT ![c] = h]
        /\ index' = [index EXCEPT ![c] = target]
        /\ tree' = [tree EXCEPT ![c] = moved]
    BY DEF MoveTo
  <1> HIDE DEF moved, target
  <1>5. QED
    BY <1>2, <1>3, <1>4 DEF TypeInv, TypeOK, NonEmpty

LEMMA QuarantineTyped ==
  ASSUME TypeInv, NEW c \in Clones, NEW h \in Seq(Commit), h # <<>>, Quarantine(c, h)
  PROVE  /\ branch' \in [Clones -> Seq(Commit)]
         /\ index' \in [Clones -> Tree]
         /\ tree' \in [Clones -> Tree]
         /\ unpublished' \in [Clones -> SUBSET Commit]
         /\ \A d \in Clones : branch'[d] # <<>>
  <1>1. branch[c] \in Seq(Commit) /\ Len(h) \in Nat
    BY DEF TypeInv, TypeOK
  <1>2. \A i \in (Len(h)+1)..Len(branch[c]) : i \in 1..Len(branch[c])
    BY <1>1
  <1>3. {branch[c][i] : i \in (Len(h)+1)..Len(branch[c])} \in SUBSET Commit
    BY <1>1, <1>2, ElementOfSeq
  <1>4. unpublished' \in [Clones -> SUBSET Commit]
    BY <1>3 DEF Quarantine, Keep, TypeInv, TypeOK
  <1>5. CASE MoveTo(c, h)
    BY <1>4, <1>5, MoveTyped
  <1>6. CASE UNCHANGED <<branch, index, tree>>
    BY <1>4, <1>6 DEF TypeInv, TypeOK, NonEmpty
  <1>7. QED
    BY <1>5, <1>6 DEF Quarantine

LEMMA HistoryUpdate ==
  ASSUME NEW h \in History, NEW ids \in SUBSET RowId, NEW m \in SUBSET Commit
  PROVE  /\ [h EXCEPT !.made = m] \in History
         /\ [h EXCEPT !.pushed = ids] \in History
         /\ [h EXCEPT !.recorded = ids] \in History
         /\ [h EXCEPT !.denied = ids] \in History
  BY DEF History

LEMMA HistTyped ==
  ASSUME TypeInv, NEW w \in Writers
  PROVE  /\ op[w].id \in RowId
         /\ Succeed(w) \/ Deny(w) => hist' \in History
         /\ StartedPush(w) \in History
  <1>1. op[w].id \in RowId
    BY DEF TypeInv, TypeOK, Op
  <1>2. /\ hist \in History
        /\ hist.pushed \cup {op[w].id} \in SUBSET RowId
        /\ hist.recorded \cup {op[w].id} \in SUBSET RowId
        /\ hist.denied \cup {op[w].id} \in SUBSET RowId
    BY <1>1 DEF TypeInv, TypeOK, History
  <1>3. /\ Succeed(w) => hist' = [hist EXCEPT !.recorded = hist.recorded \cup {op[w].id}]
        /\ Deny(w) => hist' = [hist EXCEPT !.denied = hist.denied \cup {op[w].id}]
        /\ StartedPush(w) = [hist EXCEPT !.pushed = hist.pushed \cup {op[w].id}]
    BY DEF Succeed, Deny, StartedPush
  <1>4. QED
    BY <1>1, <1>2, <1>3, HistoryUpdate

LEMMA InitTyped == Init => TypeInv
  <1> SUFFICES ASSUME Init PROVE TypeInv
    OBVIOUS
  <1>1. /\ RootTree \in Tree /\ NoOp \in Op
        /\ <<RootCommit>> \in Seq(Commit) /\ <<RootCommit>> # <<>>
    BY Typed
  <1>2. hist \in History
    BY DEF Init, History
  <1>3. TypeOK
    BY <1>1, <1>2 DEF Init, TypeOK, Steps
  <1>4. NonEmpty
    BY <1>1 DEF Init, NonEmpty
  <1>5. QED
    BY <1>3, <1>4 DEF TypeInv

LEMMA BeginTyped ==
  ASSUME TypeInv, NEW w \in Writers, NEW kind \in Kinds,
         NEW task \in Tasks \cup {Free}, NEW prev \in RowId,
         Begin(w, kind, task, prev)
  PROVE  TypeInv'
  <1> DEFINE new == NewOp(kind, task, <<w, count[w] + 1>>, prev)
  <1>1. new \in Op
    <2>1. <<w, count[w] + 1>> \in RowId
      BY DEF TypeInv, TypeOK, RowId, OpId
    <2>2. <<>> \in Seq(Commit)
      OBVIOUS
    <2>3. QED
      BY <2>1, <2>2 DEF Op, NewOp
  <1> HIDE DEF new
  <1>2. /\ pc' = [pc EXCEPT ![w] = "pull"]
        /\ op' = [op EXCEPT ![w] = new]
        /\ count' = [count EXCEPT ![w] = count[w] + 1]
        /\ UNCHANGED <<hub, inflight, branch, index, tree, unpublished, held, hist>>
    BY DEF Begin, Goto, netVars, cloneVars, new
  <1>3. TypeOK'
    BY <1>1, <1>2 DEF TypeInv, TypeOK, Steps
  <1>4. NonEmpty'
    BY <1>1, <1>2 DEF TypeInv, TypeOK, NonEmpty
  <1>5. QED
    BY <1>3, <1>4 DEF TypeInv

LEMMA PullTyped ==
  ASSUME TypeInv, NEW w \in Writers, Pull(w)
  PROVE  TypeInv'
  <1> DEFINE c == CloneOf[w]
  <1>1. c \in Clones /\ hub \in Seq(Commit) /\ hub # <<>>
    BY Typed DEF TypeInv, TypeOK, NonEmpty
  <1>2. Deny(w) => Finish(w, FALSE) /\ hist' \in History
    BY HistTyped DEF Deny
  <1>3. ASSUME Deny(w), UNCHANGED <<netVars, cloneVars>>
        PROVE  TypeInv'
    BY <1>2, <1>3, FinishTyped
    DEF netVars, cloneVars, TypeInv, TypeOK, NonEmpty
  <1>4. CASE PullRefused(w) \/ PullDiverged(w)
    BY <1>3, <1>4 DEF PullRefused, PullDiverged
  <1>5. CASE PullForward(w)
    <2>1. CASE /\ MoveTo(c, hub) /\ Goto(w, "check")
               /\ UNCHANGED <<unpublished, op, held, count, hist, netVars>>
      <3>1. /\ branch' \in [Clones -> Seq(Commit)]
            /\ index' \in [Clones -> Tree]
            /\ tree' \in [Clones -> Tree]
            /\ \A d \in Clones : branch'[d] # <<>>
        BY <1>1, <2>1, MoveTyped
      <3>2. QED
        BY <2>1, <3>1 DEF Goto, netVars, TypeInv, TypeOK, NonEmpty, Steps
    <2>2. CASE Deny(w) /\ UNCHANGED <<netVars, cloneVars>>
      BY <1>3, <2>2
    <2>3. QED
      BY <1>5, <2>1, <2>2 DEF PullForward
  <1>6. CASE PullQuarantines(w)
    <2>1. Quarantine(c, hub) /\ Deny(w) /\ UNCHANGED netVars
      BY <1>6 DEF PullQuarantines
    <2>2. /\ branch' \in [Clones -> Seq(Commit)]
          /\ index' \in [Clones -> Tree]
          /\ tree' \in [Clones -> Tree]
          /\ unpublished' \in [Clones -> SUBSET Commit]
          /\ \A d \in Clones : branch'[d] # <<>>
      BY <1>1, <2>1, QuarantineTyped
    <2>3. QED
      BY <1>2, <2>1, <2>2, FinishTyped DEF netVars, TypeInv, TypeOK, NonEmpty
  <1>7. QED
    BY <1>4, <1>5, <1>6 DEF Pull

LEMMA CheckTyped ==
  ASSUME TypeInv, NEW w \in Writers,
         CheckHead(w) \/ CheckAcquire(w) \/ CheckRelease(w)
  PROVE  TypeInv'
  <1>1. UNCHANGED <<netVars, cloneVars>>
    BY DEF CheckHead, CheckAcquire, CheckRelease
  <1>2. ASSUME Goto(w, "write"), UNCHANGED <<op, held, count, hist>>
        PROVE  TypeInv'
    BY <1>1, <1>2
    DEF Goto, netVars, cloneVars, TypeInv, TypeOK, NonEmpty, Steps
  <1>3. ASSUME NEW ok \in BOOLEAN, Finish(w, ok), hist' \in History
        PROVE  TypeInv'
    BY <1>1, <1>3, FinishTyped DEF netVars, cloneVars, TypeInv, TypeOK, NonEmpty
  <1>4. Deny(w) => Finish(w, FALSE) /\ hist' \in History
    BY HistTyped DEF Deny
  <1>5. UNCHANGED hist => hist' \in History
    BY DEF TypeInv, TypeOK
  <1>6. QED
    BY <1>2, <1>3, <1>4, <1>5 DEF CheckHead, CheckAcquire, CheckRelease

LEMMA WriteTyped ==
  ASSUME TypeInv, NEW w \in Writers, Write(w)
  PROVE  TypeInv'
  <1> DEFINE c == CloneOf[w]
  <1>1. /\ c \in Clones /\ tree[c] \in Tree /\ op[w] \in Op
    BY Typed DEF TypeInv, TypeOK
  <1>2. NewRow(w) \in Row
    BY <1>1 DEF NewRow, Row, Op
  <1>3. Append(tree[c].rows, NewRow(w)) \in Seq(Row)
    BY <1>1, <1>2 DEF Tree
  <1>4. Written(w, tree[c]) \in Tree
    <2>1. CASE op[w].kind = "ROW"
      <3>1. Written(w, tree[c]) =
              [tree[c] EXCEPT !.rows = Append(tree[c].rows, NewRow(w))]
        BY <2>1 DEF Written
      <3>2. QED
        BY <1>1, <1>3, <3>1 DEF Tree
    <2>2. CASE op[w].kind = "LOCK"
      <3>1. Written(w, tree[c]) = [tree[c] EXCEPT !.lock = op[w].task]
        BY <2>2 DEF Written
      <3>2. QED
        BY <1>1, <3>1 DEF Tree, Op
    <2>3. CASE op[w].kind = "UNLOCK"
      <3>1. Written(w, tree[c]) = [tree[c] EXCEPT !.lock = Free]
        BY <2>3 DEF Written
      <3>2. QED
        BY <1>1, <3>1 DEF Tree
    <2>4. QED
      BY <1>1, <2>1, <2>2, <2>3 DEF Op, Kinds
  <1>5. /\ tree' = [tree EXCEPT ![c] = Written(w, tree[c])]
        /\ pc' = [pc EXCEPT ![w] = "commit"]
        /\ UNCHANGED <<hub, inflight, branch, index, unpublished, op, held, count, hist>>
    BY DEF Write, Goto, netVars
  <1>6. QED
    BY <1>4, <1>5 DEF TypeInv, TypeOK, NonEmpty, Steps

LEMMA StagedTyped ==
  ASSUME TypeInv, NEW w \in Writers
  PROVE  Staged(w) \in Tree /\ NewCommit(w) \in Commit
  <1> DEFINE c == CloneOf[w]
  <1>1. /\ c \in Clones /\ tree[c] \in Tree /\ index[c] \in Tree /\ op[w] \in Op
    BY Typed DEF TypeInv, TypeOK
  <1>2. /\ [index[c] EXCEPT !.rows = tree[c].rows] \in Tree
        /\ [index[c] EXCEPT !.lock = tree[c].lock] \in Tree
    BY <1>1 DEF Tree
  <1>3. QED
    BY <1>1, <1>2 DEF Staged, NewCommit, Commit, Op

LEMMA CommitTyped ==
  ASSUME TypeInv, NEW w \in Writers, MakeCommit(w) \/ CommitFails(w)
  PROVE  TypeInv'
  <1> DEFINE c == CloneOf[w]
  <1>1. /\ c \in Clones /\ branch[c] \in Seq(Commit) /\ branch[c] # <<>>
        /\ op[w] \in Op
    BY Typed DEF TypeInv, TypeOK, NonEmpty
  <1>2. Staged(w) \in Tree /\ NewCommit(w) \in Commit
    BY StagedTyped
  <1>3. CASE MakeCommit(w)
    <2>1. [op[w] EXCEPT !.before = branch[c]] \in Op
      BY <1>1 DEF Op
    <2>2. /\ index' = [index EXCEPT ![c] = Staged(w)]
          /\ branch' = [branch EXCEPT ![c] = Append(branch[c], NewCommit(w))]
          /\ op' = [op EXCEPT ![w] = [op[w] EXCEPT !.before = branch[c]]]
          /\ hist' = [hist EXCEPT !.made = hist.made \cup {NewCommit(w)}]
          /\ pc' = [pc EXCEPT ![w] = "push"]
          /\ UNCHANGED <<hub, inflight, tree, unpublished, held, count>>
      BY <1>3 DEF MakeCommit, Goto, netVars
    <2>3. hist' \in History
      BY <1>2, <2>2, HistoryUpdate DEF TypeInv, TypeOK, History
    <2>4. Append(branch[c], NewCommit(w)) \in Seq(Commit) \ {<<>>}
      BY <1>1, <1>2, FrontOfAppend
    <2>5. TypeOK'
      BY <1>2, <2>1, <2>2, <2>3, <2>4 DEF TypeInv, TypeOK, Steps
    <2>6. [op[w] EXCEPT !.before = branch[c]].before = branch[c]
      BY <1>1 DEF Op
    <2>7. NonEmpty'
      BY <1>1, <2>2, <2>4, <2>6 DEF TypeInv, TypeOK, NonEmpty
    <2>8. QED
      BY <2>5, <2>7 DEF TypeInv
  <1>4. CASE CommitFails(w)
    <2>1. /\ index' = [index EXCEPT ![c] = Staged(w)]
          /\ Finish(w, FALSE)
          /\ UNCHANGED <<hub, inflight, branch, tree, unpublished, hist>>
      BY <1>4 DEF CommitFails, Raise, netVars
    <2>2. QED
      BY <1>2, <2>1, FinishTyped DEF TypeInv, TypeOK, NonEmpty
  <1>5. QED
    BY <1>3, <1>4

LEMMA PushTyped ==
  ASSUME TypeInv, NEW w \in Writers, Push(w)
  PROVE  TypeInv'
  <1> DEFINE c == CloneOf[w]
  <1>1. /\ c \in Clones /\ branch[c] \in Seq(Commit) /\ branch[c] # <<>>
        /\ op[w] \in Op
    BY Typed DEF TypeInv, TypeOK, NonEmpty
  <1>2. pc[w] = "push"
    BY DEF Push, PushAccepted, PushRejected, PushReplyLost, PushKilled, PushNotConfirmed
  <1>3. op[w].before # <<>> /\ op[w].before \in Seq(Commit)
    BY <1>1, <1>2 DEF TypeInv, NonEmpty, Op
  <1>4. CASE PushAccepted(w)
    <2>1. /\ hub' = branch[c] /\ Finish(w, TRUE)
          /\ hist' = [StartedPush(w) EXCEPT !.recorded =
                        StartedPush(w).recorded \cup {op[w].id}]
          /\ UNCHANGED <<inflight, branch, index, tree, unpublished>>
      BY <1>4 DEF PushAccepted, cloneVars
    <2>2. StartedPush(w) \in History /\ op[w].id \in RowId
      BY HistTyped
    <2>3. hist' \in History
      BY <2>1, <2>2, HistoryUpdate DEF History
    <2>4. QED
      BY <1>1, <2>1, <2>3, FinishTyped DEF TypeInv, TypeOK, NonEmpty
  <1>5. ASSUME NEW finished \in BOOLEAN, PushNotConfirmed(w, finished),
               \/ hub' = branch[c] /\ UNCHANGED inflight
               \/ inflight' = inflight \cup {branch[c]} /\ UNCHANGED hub
               \/ UNCHANGED netVars
        PROVE  TypeInv'
    <2> DEFINE o == [op[w] EXCEPT !.head = branch[c], !.finished = finished]
    <2>1. o \in Op /\ o.before = op[w].before
      BY <1>1 DEF Op
    <2>2. /\ op' = [op EXCEPT ![w] = o]
          /\ pc' = [pc EXCEPT ![w] = "readback"]
          /\ hist' \in History
          /\ UNCHANGED <<branch, index, tree, unpublished, held, count>>
      BY <1>5, HistTyped DEF PushNotConfirmed, Goto, cloneVars, TypeInv, TypeOK
    <2> HIDE DEF o
    <2>3. /\ hub' \in Seq(Commit) /\ hub' # <<>>
          /\ inflight' \in SUBSET Seq(Commit) /\ \A h \in inflight' : h # <<>>
      BY <1>1, <1>5 DEF netVars, TypeInv, TypeOK, NonEmpty
    <2>4. TypeOK'
      BY <2>1, <2>2, <2>3 DEF TypeInv, TypeOK, Steps
    <2>5. NonEmpty'
      BY <1>3, <2>1, <2>2, <2>3 DEF TypeInv, TypeOK, NonEmpty
    <2>6. QED
      BY <2>4, <2>5 DEF TypeInv
  <1>6. QED
    BY <1>4, <1>5 DEF Push, PushRejected, PushReplyLost, PushKilled

LEMMA ReadBackTyped ==
  ASSUME TypeInv, NEW w \in Writers, ReadBack(w)
  PROVE  TypeInv'
  <1> DEFINE c == CloneOf[w]
  <1>1. /\ c \in Clones /\ op[w] \in Op /\ pc[w] = "readback"
    BY Typed DEF TypeInv, TypeOK, ReadBack, ReadBackAccepted, ReadBackAbsent,
                 ReadBackUnreadable
  <1>2. op[w].before # <<>> /\ op[w].before \in Seq(Commit)
    BY <1>1 DEF TypeInv, NonEmpty, Op
  <1>3. /\ Succeed(w) => Finish(w, TRUE) /\ hist' \in History
        /\ Deny(w) => Finish(w, FALSE) /\ hist' \in History
        /\ Raise(w) => Finish(w, FALSE) /\ hist' \in History
    BY HistTyped DEF Succeed, Deny, Raise, TypeInv, TypeOK
  <1>4. CASE ReadBackAccepted(w)
    BY <1>3, <1>4, FinishTyped
    DEF ReadBackAccepted, netVars, cloneVars, TypeInv, TypeOK, NonEmpty
  <1>5. CASE ReadBackAbsent(w) \/ ReadBackUnreadable(w)
    <2>1. /\ Quarantine(c, op[w].before) /\ UNCHANGED netVars
          /\ Deny(w) \/ Raise(w)
      BY <1>5 DEF ReadBackAbsent, ReadBackUnreadable
    <2>2. /\ branch' \in [Clones -> Seq(Commit)]
          /\ index' \in [Clones -> Tree]
          /\ tree' \in [Clones -> Tree]
          /\ unpublished' \in [Clones -> SUBSET Commit]
          /\ \A d \in Clones : branch'[d] # <<>>
      BY <1>1, <1>2, <2>1, QuarantineTyped
    <2>3. QED
      BY <1>3, <2>1, <2>2, FinishTyped DEF netVars, TypeInv, TypeOK, NonEmpty
  <1>6. QED
    BY <1>4, <1>5 DEF ReadBack

LEMMA CrashTyped ==
  ASSUME TypeInv, NEW w \in Writers, Crash(w)
  PROVE  TypeInv'
  <1>1. /\ CloneOf[w] \in Clones /\ NoOp \in Op
        /\ branch[CloneOf[w]] \in Seq(Commit) /\ branch[CloneOf[w]] # <<>>
    BY Typed DEF TypeInv, TypeOK, NonEmpty
  <1>2. hist' \in History
    BY HistTyped DEF Crash, TypeInv, TypeOK
  <1>3. /\ inflight' \in SUBSET Seq(Commit) /\ \A h \in inflight' : h # <<>>
    BY <1>1 DEF Crash, TypeInv, TypeOK, NonEmpty
  <1>4. /\ pc' = [pc EXCEPT ![w] = "idle"] /\ op' = [op EXCEPT ![w] = NoOp]
        /\ held' = [held EXCEPT ![w] = Free]
        /\ UNCHANGED <<hub, branch, index, tree, unpublished, count>>
    BY DEF Crash, Goto, cloneVars
  <1>5. TypeOK'
    BY <1>1, <1>2, <1>3, <1>4 DEF TypeInv, TypeOK, Steps
  <1>6. NonEmpty'
    BY <1>3, <1>4 DEF TypeInv, TypeOK, NonEmpty
  <1>7. QED
    BY <1>5, <1>6 DEF TypeInv

LEMMA BeginsTyped ==
  ASSUME TypeInv, NEW w \in Writers,
         BeginAppend(w) \/ BeginAcquire(w) \/ BeginRelease(w)
  PROVE  TypeInv'
  <1>1. CASE BeginAppend(w)
    <2>1. PICK i \in DOMAIN tree[CloneOf[w]].rows :
            Begin(w, "ROW", Free, tree[CloneOf[w]].rows[i].id)
      BY <1>1 DEF BeginAppend
    <2>2. tree[CloneOf[w]].rows \in Seq(Row)
      BY Typed DEF TypeInv, TypeOK, Tree
    <2>3. i \in 1..Len(tree[CloneOf[w]].rows)
      BY <2>2, LenProperties
    <2>4. tree[CloneOf[w]].rows[i] \in Row
      BY <2>2, <2>3, ElementOfSeq
    <2>5. tree[CloneOf[w]].rows[i].id \in RowId
      BY <2>4 DEF Row
    <2>6. QED
      BY <2>1, <2>5, BeginTyped DEF Kinds
  <1>2. CASE BeginAcquire(w)
    <2>1. PICK t \in MayMerge[w] : Begin(w, "LOCK", t, Genesis)
      BY <1>2 DEF BeginAcquire
    <2>2. QED
      BY <2>1, Typed, BeginTyped DEF Kinds, RowId
  <1>3. CASE BeginRelease(w)
    <2>1. held[w] \in Tasks \cup {Free} /\ Begin(w, "UNLOCK", held[w], Genesis)
      BY <1>3 DEF BeginRelease, TypeInv, TypeOK
    <2>2. QED
      BY <2>1, BeginTyped DEF Kinds, RowId
  <1>4. QED
    BY <1>1, <1>2, <1>3

LEMMA NextTyped == TypeInv /\ [Next]_vars => TypeInv'
  <1> SUFFICES ASSUME TypeInv, [Next]_vars PROVE TypeInv'
    OBVIOUS
  <1>1. CASE UNCHANGED vars
    BY <1>1 DEF vars, netVars, cloneVars, TypeInv, TypeOK, NonEmpty
  <1>2. CASE Land
    <2>1. PICK h \in inflight : hub' = h /\ inflight' = inflight \ {h}
      BY <1>2 DEF Land
    <2>2. h \in Seq(Commit) /\ h # <<>>
      BY DEF TypeInv, TypeOK, NonEmpty
    <2>3. QED
      BY <1>2, <2>1, <2>2 DEF Land, cloneVars, TypeInv, TypeOK, NonEmpty
  <1>3. ASSUME NEW w \in Writers,
               BeginAppend(w) \/ BeginAcquire(w) \/ BeginRelease(w) \/ Step(w) \/ Crash(w)
        PROVE  TypeInv'
    BY <1>3, BeginsTyped, PullTyped, CheckTyped, WriteTyped, CommitTyped, PushTyped,
       ReadBackTyped, CrashTyped DEF Step
  <1>4. QED
    BY <1>1, <1>2, <1>3 DEF Next

\* The state has its types in every reachable state, whatever fails and however
\* the writers share clones.
THEOREM TypeCorrect == Spec => []TypeOK
  <1>1. TypeInv => TypeOK
    BY DEF TypeInv
  <1>2. QED
    BY <1>1, InitTyped, NextTyped, PTL DEF Spec

-----------------------------------------------------------------------------
(***************************************************************************)
(* When each writer has a clone of its own, the hub implements              *)
(* AppendOnlyLedger for every number of writers, every fault and every       *)
(* interleaving, and what was reported recorded is on it.                    *)
(*                                                                         *)
(* The argument: between the pull and the push a writer's clone holds a      *)
(* prefix of the hub plus exactly the change the abstract ledger allows, so  *)
(* whatever history the hub accepts (now, or late from a killed push) is     *)
(* either the one it has or one abstract step ahead of it.                   *)
(***************************************************************************)
\* The inductive invariant

LastTree(h) == h[Len(h)].tree

\* What one commit may change: one chained row, or the lock.
LedgerStep(s, t) ==
  \/ /\ \E r \in Row : r.prev = HeadRow(s) /\ t.rows = Append(s.rows, r)
     /\ t.lock = s.lock
  \/ s.lock = Free /\ t.lock \in Tasks /\ t.rows = s.rows
  \/ s.lock # Free /\ t.lock = Free /\ t.rows = s.rows

\* A history one commit ahead of some earlier or present state of the hub.
OneAhead(h) ==
  /\ h # <<>> /\ Front(h) # <<>>
  /\ IsPrefix(Front(h), hub)
  /\ LedgerStep(LastTree(Front(h)), LastTree(h))

\* A clone that pulled: a prefix of the hub, with clean synced files.
Aligned(c) == IsPrefix(branch[c], hub) /\ ~Dirty(c)

WrittenNotCommitted(w) ==
  LET c == CloneOf[w]
  IN  /\ IsPrefix(branch[c], hub)
      /\ index[c] = HeadTree(c)
      /\ op[w].kind = "ROW" => /\ op[w].prev = HeadRow(HeadTree(c))
                               /\ tree[c].rows = Append(HeadTree(c).rows, NewRow(w))
      /\ op[w].kind = "LOCK" => HeadTree(c).lock = Free /\ tree[c].lock = op[w].task
      /\ op[w].kind = "UNLOCK" => tree[c].lock = Free

Proper(w) ==
  LET c == CloneOf[w]
  IN  /\ op[w].kind = "LOCK" => op[w].task \in Tasks
      /\ pc[w] \in {"check", "write"} => Aligned(c)
      /\ pc[w] = "write" =>
           /\ op[w].kind = "ROW" => op[w].prev = HeadRow(tree[c])
           /\ op[w].kind = "LOCK" => tree[c].lock = Free
      /\ pc[w] = "commit" => WrittenNotCommitted(w)
      /\ pc[w] = "push" => OneAhead(branch[c]) /\ branch[c][Len(branch[c])].id = op[w].id
      /\ pc[w] = "readback" =>
           op[w].head # <<>> /\ op[w].head[Len(op[w].head)].id = op[w].id

IInv ==
  /\ TypeInv
  /\ \A w \in Writers : Proper(w)
  /\ \A h \in inflight : OneAhead(h)
  /\ RecordedIsOnHub

----------------------------------------------------------------------------
\* How the hub moves

LEMMA OneAheadMonotonic ==
  ASSUME TypeInv, TypeInv', NEW h \in Seq(Commit), OneAhead(h), IsPrefix(hub, hub')
  PROVE  OneAhead(h)'
  <1>1. /\ hub \in Seq(Commit) /\ hub' \in Seq(Commit) /\ Front(h) \in Seq(Commit)
    BY FrontProperties DEF OneAhead, TypeInv, TypeOK
  <1>2. IsPrefix(Front(h), hub')
    BY <1>1, PrefixTransitive DEF OneAhead
  <1>3. QED
    BY <1>2 DEF OneAhead

\* A history the hub accepts is the one it has or one ledger step ahead of it.
LEMMA AcceptedIsOneStep ==
  ASSUME TypeInv, NEW h \in Seq(Commit), OneAhead(h), IsPrefix(hub, h)
  PROVE  h = hub \/ LedgerStep(HubTree, LastTree(h))
  <1>1. hub \in Seq(Commit)
    BY DEF TypeInv, TypeOK
  <1>2. hub = Front(h) \/ hub = h
    BY <1>1, PrefixBetween DEF OneAhead
  <1>3. QED
    BY <1>2 DEF OneAhead, HubTree, LastTree

LEMMA PrefixKeepsIds ==
  ASSUME NEW s \in Seq(Commit), NEW t \in Seq(Commit), IsPrefix(s, t)
  PROVE  {s[i].id : i \in DOMAIN s} \subseteq {t[i].id : i \in DOMAIN t}
  <1>1. /\ DOMAIN s = 1..Len(s) /\ DOMAIN t = 1..Len(t)
        /\ Len(s) \in Nat /\ Len(t) \in Nat
    BY LenProperties
  <1>2. Len(s) <= Len(t) /\ \A i \in 1..Len(s) : s[i] = t[i]
    BY PrefixCharacterization
  <1>3. \A i \in 1..Len(s) : i \in 1..Len(t)
    BY <1>1, <1>2
  <1>4. QED
    BY <1>1, <1>2, <1>3

\* The part of the invariant that concerns a writer which does not move.
LEMMA Frame ==
  ASSUME TypeInv, TypeInv', NEW v \in Writers, Proper(v),
         pc'[v] = pc[v], op'[v] = op[v], IsPrefix(hub, hub'),
         branch'[CloneOf[v]] = branch[CloneOf[v]],
         index'[CloneOf[v]] = index[CloneOf[v]],
         tree'[CloneOf[v]] = tree[CloneOf[v]]
  PROVE  Proper(v)'
  <1> DEFINE c == CloneOf[v]
  <1>1. /\ c \in Clones
        /\ branch[c] \in Seq(Commit) /\ branch'[c] \in Seq(Commit)
        /\ hub \in Seq(Commit) /\ hub' \in Seq(Commit)
    BY Typed DEF TypeInv, TypeOK
  <1>2. IsPrefix(branch[c], hub) => IsPrefix(branch'[c], hub')
    BY <1>1, PrefixTransitive
  <1>3. /\ HeadTree(c)' = HeadTree(c)
        /\ Dirty(c)' = Dirty(c)
        /\ NewRow(v)' = NewRow(v)
    BY DEF HeadTree, Dirty, NewRow
  <1>4. OneAhead(branch[c]) => OneAhead(branch[c])'
    <2>1. OneAhead(branch[c]) =>
            /\ branch'[c] # <<>> /\ Front(branch'[c]) # <<>>
            /\ IsPrefix(Front(branch'[c]), hub')
            /\ LedgerStep(LastTree(Front(branch'[c])), LastTree(branch'[c]))
      <3>1. ASSUME OneAhead(branch[c])
            PROVE IsPrefix(Front(branch[c]), hub')
        <4>1. Front(branch[c]) \in Seq(Commit) /\ IsPrefix(Front(branch[c]), hub)
          BY <1>1, <3>1, FrontProperties DEF OneAhead
        <4>2. QED
          BY <1>1, <4>1, PrefixTransitive
      <3>2. QED
        BY <3>1 DEF OneAhead
    <2>2. QED
      BY <2>1 DEF OneAhead
  <1>5. Aligned(c) => Aligned(c)'
    BY <1>2, <1>3 DEF Aligned
  <1>6. WrittenNotCommitted(v) => WrittenNotCommitted(v)'
    BY <1>2, <1>3 DEF WrittenNotCommitted
  <1>7. HeadRow(tree[c])' = HeadRow(tree[c])
    BY DEF HeadRow
  <1>8. QED
    BY <1>4, <1>5, <1>6, <1>7 DEF Proper

\* A step of w touches no clone but w's own, and the hub only grows.
LEMMA StepKeeps ==
  ASSUME OneWriterPerClone, IInv, TypeInv', NEW w \in Writers,
         IsPrefix(hub, hub'),
         \A v \in Writers \ {w} : pc'[v] = pc[v] /\ op'[v] = op[v],
         \A c \in Clones \ {CloneOf[w]} :
           branch'[c] = branch[c] /\ index'[c] = index[c] /\ tree'[c] = tree[c],
         Proper(w)',
         \A h \in inflight' \ inflight : OneAhead(h),
         hist'.recorded \subseteq hist.recorded \cup HubIds'
  PROVE  IInv'
  <1>1. hub \in Seq(Commit) /\ hub' \in Seq(Commit)
    BY DEF IInv, TypeInv, TypeOK
  <1>2. ASSUME NEW v \in Writers PROVE Proper(v)'
    <2>1. CASE v = w
      BY <2>1
    <2>2. CASE v # w
      <3>1. CloneOf[v] \in Clones \ {CloneOf[w]}
        BY <2>2, Typed DEF OneWriterPerClone
      <3>2. QED
        BY <2>2, <3>1, Frame DEF IInv
    <2>3. QED
      BY <2>1, <2>2
  <1>3. ASSUME NEW h \in inflight' PROVE OneAhead(h)'
    <2>1. h \in Seq(Commit)
      BY DEF IInv, TypeInv, TypeOK
    <2>2. OneAhead(h)
      BY DEF IInv
    <2>3. QED
      BY <2>1, <2>2, OneAheadMonotonic DEF IInv
  <1>4. RecordedIsOnHub'
    <2>1. HubIds \subseteq HubIds'
      BY <1>1, PrefixKeepsIds DEF HubIds
    <2>2. QED
      BY <2>1 DEF IInv, RecordedIsOnHub
  <1>5. QED
    BY <1>2, <1>3, <1>4 DEF IInv

\* A step of w that leaves the hub and the pushes in flight alone.
LEMMA LocalStep ==
  ASSUME OneWriterPerClone, IInv, TypeInv', NEW w \in Writers,
         UNCHANGED netVars,
         \A v \in Writers \ {w} : pc'[v] = pc[v] /\ op'[v] = op[v],
         \A c \in Clones \ {CloneOf[w]} :
           branch'[c] = branch[c] /\ index'[c] = index[c] /\ tree'[c] = tree[c],
         hist'.recorded = hist.recorded,
         Proper(w)'
  PROVE  IInv'
  <1>1. hub \in Seq(Commit) /\ hub' = hub /\ inflight' = inflight
    BY DEF IInv, TypeInv, TypeOK, netVars
  <1>2. IsPrefix(hub, hub')
    BY <1>1, PrefixReflexive
  <1>3. QED
    BY <1>1, <1>2, StepKeeps

\* What an operation that ends leaves behind for its own writer.
LEMMA FinishProper ==
  ASSUME IInv, NEW w \in Writers, NEW ok \in BOOLEAN, Finish(w, ok)
  PROVE  /\ Proper(w)'
         /\ \A v \in Writers \ {w} : pc'[v] = pc[v] /\ op'[v] = op[v]
  <1>1. pc'[w] = "idle" /\ op'[w] = NoOp
    BY DEF Finish, Goto, IInv, TypeInv, TypeOK
  <1>2. \A v \in Writers \ {w} : pc'[v] = pc[v] /\ op'[v] = op[v]
    BY DEF Finish, Goto, IInv, TypeInv, TypeOK
  <1>3. QED
    BY <1>1, <1>2 DEF Proper, NoOp, NewOp

LEMMA BeginKeeps ==
  ASSUME OneWriterPerClone, IInv, TypeInv', NEW w \in Writers,
         BeginAppend(w) \/ BeginAcquire(w) \/ BeginRelease(w)
  PROVE  IInv'
  <1>1. \E kind \in Kinds, task \in Tasks \cup {Free}, prev \in RowId :
          Begin(w, kind, task, prev) /\ (kind = "LOCK" => task \in Tasks)
    <2>1. BeginAppend(w) => \E prev \in RowId : Begin(w, "ROW", Free, prev)
      <3>1. tree[CloneOf[w]].rows \in Seq(Row)
        BY Typed DEF IInv, TypeInv, TypeOK, Tree
      <3>2. ASSUME NEW rows \in Seq(Row), NEW i \in DOMAIN rows
            PROVE  rows[i].id \in RowId
        <4>1. rows[i] \in Row
          OBVIOUS
        <4>2. QED
          BY <4>1 DEF Row
      <3>3. ASSUME NEW i \in DOMAIN tree[CloneOf[w]].rows,
                   Begin(w, "ROW", Free, tree[CloneOf[w]].rows[i].id)
            PROVE  \E prev \in RowId : Begin(w, "ROW", Free, prev)
        <4>1. tree[CloneOf[w]].rows[i].id \in RowId
          BY <3>1, <3>2
        <4>2. QED
          BY <3>3, <4>1
      <3>4. QED
        BY <3>3 DEF BeginAppend
    <2>2. BeginAcquire(w) => \E t \in Tasks : Begin(w, "LOCK", t, Genesis)
      BY Typed DEF BeginAcquire
    <2>3. BeginRelease(w) => \E t \in Tasks \cup {Free} : Begin(w, "UNLOCK", t, Genesis)
      BY DEF BeginRelease, IInv, TypeInv, TypeOK
    <2>4. QED
      BY <2>1, <2>2, <2>3 DEF Kinds, RowId
  <1>2. PICK kind \in Kinds, task \in Tasks \cup {Free}, prev \in RowId :
          Begin(w, kind, task, prev) /\ (kind = "LOCK" => task \in Tasks)
    BY <1>1
  <1>3. /\ pc'[w] = "pull" /\ op'[w].kind = kind /\ op'[w].task = task
        /\ \A v \in Writers \ {w} : pc'[v] = pc[v] /\ op'[v] = op[v]
        /\ UNCHANGED <<netVars, cloneVars, hist>>
    BY <1>2 DEF Begin, Goto, NewOp, IInv, TypeInv, TypeOK
  <1>4. Proper(w)'
    BY <1>2, <1>3 DEF Proper
  <1>5. QED
    BY <1>3, <1>4, LocalStep DEF cloneVars

\* After a move of the clone to h the synced files are clean.
LEMMA MoveAligns ==
  ASSUME TypeInv, NEW c \in Clones, NEW h \in Seq(Commit), h # <<>>,
         MoveTo(c, h), ~Dirty(c), CanMove(c, LastTree(h))
  PROVE  /\ branch'[c] = h /\ ~Dirty(c)'
         /\ \A d \in Clones \ {c} :
              branch'[d] = branch[d] /\ index'[d] = index[d] /\ tree'[d] = tree[d]
  <1> DEFINE target == h[Len(h)].tree
  <1>1. /\ tree[c] \in Tree /\ index[c] \in Tree /\ target \in Tree
        /\ index[c] = HeadTree(c)
        /\ tree[c].rows = index[c].rows
        /\ tree[c].lock = index[c].lock \/ index[c].lock = Free
    BY LastCommitTyped DEF Dirty, TypeInv, TypeOK
  <1>2. /\ branch'[c] = h
        /\ index'[c] = target
        /\ tree'[c] = [rows |-> IF target.rows = HeadTree(c).rows
                                THEN tree[c].rows ELSE target.rows,
                       lock |-> IF target.lock = HeadTree(c).lock
                                THEN tree[c].lock ELSE target.lock]
        /\ \A d \in Clones \ {c} :
             branch'[d] = branch[d] /\ index'[d] = index[d] /\ tree'[d] = tree[d]
    BY DEF MoveTo, TypeInv, TypeOK
  <1>3. HeadTree(c)' = target
    BY <1>2 DEF HeadTree
  <1>4. /\ tree'[c].rows = target.rows
        /\ tree'[c].lock = target.lock \/ target.lock = Free
    BY <1>1, <1>2
  <1>5. QED
    BY <1>2, <1>3, <1>4 DEF Dirty

----------------------------------------------------------------------------
\* Each step keeps the invariant

\* No clone but c moves.
OthersKept(c) ==
  \A d \in Clones \ {c} :
    branch'[d] = branch[d] /\ index'[d] = index[d] /\ tree'[d] = tree[d]

LEMMA QuarantineLocal ==
  ASSUME TypeInv, NEW c \in Clones, NEW h, Quarantine(c, h)
  PROVE  OthersKept(c)
  BY DEF Quarantine, MoveTo, OthersKept, TypeInv, TypeOK

\* An operation ends with a refusal or an error, or enters a lock it already has.
LEMMA EndKeeps ==
  ASSUME OneWriterPerClone, IInv, TypeInv', NEW w \in Writers,
         Deny(w) \/ \E ok \in BOOLEAN : Finish(w, ok) /\ UNCHANGED hist,
         UNCHANGED netVars, OthersKept(CloneOf[w])
  PROVE  IInv'
  <1>1. PICK ok \in BOOLEAN : Finish(w, ok)
    BY DEF Deny
  <1>2. hist'.recorded = hist.recorded
    BY DEF Deny, IInv, TypeInv, TypeOK, History
  <1>3. QED
    BY <1>1, <1>2, FinishProper, LocalStep DEF OthersKept

LEMMA PullKeeps ==
  ASSUME OneWriterPerClone, IInv, TypeInv', NEW w \in Writers, Pull(w)
  PROVE  IInv'
  <1> DEFINE c == CloneOf[w]
  <1>1. /\ TypeInv /\ c \in Clones /\ hub \in Seq(Commit) /\ hub # <<>>
        /\ IsPrefix(hub, hub)
    BY Typed, PrefixReflexive DEF IInv, TypeInv, TypeOK, NonEmpty
  <1>2. UNCHANGED cloneVars => OthersKept(c)
    BY DEF cloneVars, OthersKept
  <1>3. CASE PullRefused(w) \/ PullDiverged(w)
    BY <1>2, <1>3, EndKeeps DEF PullRefused, PullDiverged
  <1>4. CASE PullForward(w)
    <2>1. CASE /\ CanMove(c, HubTree) /\ MoveTo(c, hub) /\ Goto(w, "check")
               /\ UNCHANGED <<op, hist, netVars>> /\ ~Dirty(c)
      <3>1. branch'[c] = hub /\ ~Dirty(c)' /\ OthersKept(c)
        BY <1>1, <2>1, MoveAligns DEF HubTree, LastTree, OthersKept
      <3>2. /\ pc'[w] = "check" /\ op' = op /\ hub' = hub
            /\ \A v \in Writers \ {w} : pc'[v] = pc[v] /\ op'[v] = op[v]
        BY <2>1 DEF Goto, netVars, IInv, TypeInv, TypeOK
      <3>3. Proper(w)'
        BY <1>1, <3>1, <3>2 DEF Proper, Aligned, IInv
      <3>4. QED
        BY <2>1, <3>1, <3>2, <3>3, LocalStep DEF OthersKept
    <2>2. CASE Deny(w) /\ UNCHANGED cloneVars /\ UNCHANGED netVars
      BY <1>2, <2>2, EndKeeps
    <2>3. QED
      BY <1>4, <2>1, <2>2 DEF PullForward
  <1>5. CASE PullQuarantines(w)
    BY <1>1, <1>5, QuarantineLocal, EndKeeps DEF PullQuarantines
  <1>6. QED
    BY <1>3, <1>4, <1>5 DEF Pull, PullRefused, PullDiverged, PullForward, PullQuarantines

LEMMA CheckKeeps ==
  ASSUME OneWriterPerClone, IInv, TypeInv', NEW w \in Writers,
         CheckHead(w) \/ CheckAcquire(w) \/ CheckRelease(w)
  PROVE  IInv'
  <1> DEFINE c == CloneOf[w]
  <1>1. /\ pc[w] = "check" /\ UNCHANGED netVars /\ UNCHANGED cloneVars
        /\ OthersKept(c) /\ c \in Clones /\ Proper(w)
    BY Typed DEF CheckHead, CheckAcquire, CheckRelease, cloneVars, OthersKept, IInv
  <1>2. ASSUME Goto(w, "write"), UNCHANGED <<op, held, count, hist>>,
               op[w].kind = "ROW" => op[w].prev = HeadRow(tree[c]),
               op[w].kind = "LOCK" => tree[c].lock = Free
        PROVE  IInv'
    <2>1. /\ pc'[w] = "write" /\ op' = op
          /\ \A v \in Writers \ {w} : pc'[v] = pc[v] /\ op'[v] = op[v]
      BY <1>2 DEF Goto, IInv, TypeInv, TypeOK
    <2>2. /\ Aligned(c)' = Aligned(c)
          /\ tree' = tree /\ HeadRow(tree[c])' = HeadRow(tree[c])
      BY <1>1 DEF Aligned, Dirty, HeadTree, HeadRow, netVars, cloneVars
    <2>3. Proper(w)'
      BY <1>1, <1>2, <2>1, <2>2 DEF Proper
    <2>4. QED
      BY <1>1, <1>2, <2>1, <2>3, LocalStep DEF OthersKept
  <1>3. CASE CheckHead(w)
    BY <1>1, <1>2, <1>3, EndKeeps DEF CheckHead
  <1>4. CASE CheckAcquire(w)
    BY <1>1, <1>2, <1>4, EndKeeps DEF CheckAcquire
  <1>5. CASE CheckRelease(w)
    BY <1>1, <1>2, <1>5, EndKeeps DEF CheckRelease
  <1>6. QED
    BY <1>3, <1>4, <1>5

LEMMA WriteKeeps ==
  ASSUME OneWriterPerClone, IInv, TypeInv', NEW w \in Writers, Write(w)
  PROVE  IInv'
  <1> DEFINE c == CloneOf[w]
  <1>1. /\ c \in Clones /\ tree[c] \in Tree /\ op[w] \in Op /\ pc[w] = "write"
        /\ Proper(w)
    BY Typed DEF IInv, TypeInv, TypeOK, Write
  <1>2. /\ tree' = [tree EXCEPT ![c] = Written(w, tree[c])]
        /\ pc' = [pc EXCEPT ![w] = "commit"]
        /\ UNCHANGED <<hub, inflight, branch, index, op, hist>>
    BY DEF Write, Goto, netVars
  <1>3. /\ tree'[c] = Written(w, tree[c]) /\ pc'[w] = "commit"
        /\ OthersKept(c)
        /\ \A v \in Writers \ {w} : pc'[v] = pc[v] /\ op'[v] = op[v]
    BY <1>1, <1>2 DEF IInv, TypeInv, TypeOK, OthersKept
  <1>4. /\ HeadTree(c)' = HeadTree(c) /\ NewRow(w)' = NewRow(w)
        /\ branch' = branch /\ index' = index /\ hub' = hub /\ op' = op
    BY <1>2 DEF HeadTree, NewRow
  <1>5. /\ IsPrefix(branch[c], hub) /\ index[c] = HeadTree(c)
        /\ tree[c].rows = HeadTree(c).rows
        /\ tree[c].lock = HeadTree(c).lock \/ HeadTree(c).lock = Free
    BY <1>1 DEF Proper, Aligned, Dirty
  <1>6. op[w].kind = "ROW" => /\ op[w].prev = HeadRow(HeadTree(c))
                              /\ tree'[c].rows = Append(HeadTree(c).rows, NewRow(w))
    BY <1>1, <1>3, <1>5 DEF Written, Tree, Proper, HeadRow
  <1>7. op[w].kind = "LOCK" => HeadTree(c).lock = Free /\ tree'[c].lock = op[w].task
    BY <1>1, <1>3, <1>5 DEF Written, Tree, Proper
  <1>8. op[w].kind = "UNLOCK" => tree'[c].lock = Free
    BY <1>1, <1>3 DEF Written, Tree
  <1>9. HeadRow(HeadTree(c))' = HeadRow(HeadTree(c))
    BY <1>4 DEF HeadRow
  <1>10. WrittenNotCommitted(w)'
    BY <1>4, <1>5, <1>6, <1>7, <1>8, <1>9 DEF WrittenNotCommitted
  <1>11. Proper(w)'
    BY <1>1, <1>3, <1>4, <1>10 DEF Proper
  <1>12. QED
    BY <1>2, <1>3, <1>11, LocalStep DEF OthersKept, netVars

\* The commit an operation makes changes what the abstract ledger may change.
LEMMA StagedIsOneStep ==
  ASSUME IInv, NEW w \in Writers, pc[w] = "commit",
         Staged(w) # HeadTree(CloneOf[w])
  PROVE  LedgerStep(HeadTree(CloneOf[w]), Staged(w))
  <1> DEFINE c == CloneOf[w]
  <1>1. /\ c \in Clones /\ tree[c] \in Tree /\ index[c] \in Tree /\ op[w] \in Op
        /\ WrittenNotCommitted(w)
        /\ op[w].kind = "LOCK" => op[w].task \in Tasks
    BY Typed DEF IInv, TypeInv, TypeOK, Proper
  <1>2. CASE op[w].kind = "ROW"
    <2>1. /\ Staged(w).rows = Append(HeadTree(c).rows, NewRow(w))
          /\ Staged(w).lock = HeadTree(c).lock
      BY <1>1, <1>2 DEF Staged, WrittenNotCommitted, Tree
    <2>2. NewRow(w) \in Row /\ NewRow(w).prev = HeadRow(HeadTree(c))
      BY <1>1, <1>2 DEF NewRow, Row, Op, WrittenNotCommitted
    <2>3. QED
      BY <2>1, <2>2 DEF LedgerStep
  <1>3. CASE op[w].kind \in {"LOCK", "UNLOCK"}
    <2>1. /\ Staged(w) = [HeadTree(c) EXCEPT !.lock = tree[c].lock]
          /\ HeadTree(c) \in Tree
      BY <1>1, <1>3 DEF Staged, WrittenNotCommitted
    <2>2. Staged(w).lock = tree[c].lock /\ Staged(w).rows = HeadTree(c).rows
      BY <2>1 DEF Tree
    <2>3. tree[c].lock # HeadTree(c).lock
      BY <2>1 DEF Tree
    <2>4. QED
      BY <1>1, <1>3, <2>2, <2>3 DEF LedgerStep, WrittenNotCommitted
  <1>4. QED
    BY <1>1, <1>2, <1>3 DEF Op, Kinds

LEMMA CommitKeeps ==
  ASSUME OneWriterPerClone, IInv, TypeInv', NEW w \in Writers,
         MakeCommit(w) \/ CommitFails(w)
  PROVE  IInv'
  <1> DEFINE c == CloneOf[w]
  <1>1. /\ c \in Clones /\ branch[c] \in Seq(Commit) /\ branch[c] # <<>>
        /\ op[w] \in Op /\ pc[w] = "commit" /\ Proper(w) /\ Len(branch[c]) \in Nat
    BY Typed DEF IInv, TypeInv, TypeOK, NonEmpty, MakeCommit, CommitFails
  <1>2. CASE MakeCommit(w)
    <2> DEFINE h == Append(branch[c], NewCommit(w))
    <2>1. NewCommit(w) \in Commit
      BY StagedTyped DEF IInv
    <2>2. /\ Front(h) = branch[c] /\ h \in Seq(Commit) /\ h # <<>>
          /\ h[Len(h)] = NewCommit(w)
      BY <1>1, <2>1, FrontOfAppend
    <2>3. /\ branch' = [branch EXCEPT ![c] = h]
          /\ index' = [index EXCEPT ![c] = Staged(w)]
          /\ op' = [op EXCEPT ![w] = [op[w] EXCEPT !.before = branch[c]]]
          /\ pc' = [pc EXCEPT ![w] = "push"]
          /\ hist' = [hist EXCEPT !.made = hist.made \cup {NewCommit(w)}]
          /\ UNCHANGED <<hub, inflight, tree>>
      BY <1>2 DEF MakeCommit, Goto, netVars
    <2> HIDE DEF h
    <2>4. [op[w] EXCEPT !.before = branch[c]].id = op[w].id
          /\ [op[w] EXCEPT !.before = branch[c]].kind = op[w].kind
          /\ [op[w] EXCEPT !.before = branch[c]].task = op[w].task
      BY <1>1 DEF Op
    <2>5. /\ branch'[c] = h /\ pc'[w] = "push" /\ hub' = hub
          /\ op'[w].id = op[w].id /\ op'[w].kind = op[w].kind
          /\ op'[w].task = op[w].task
          /\ OthersKept(c)
          /\ \A v \in Writers \ {w} : pc'[v] = pc[v] /\ op'[v] = op[v]
          /\ hist'.recorded = hist.recorded
      BY <1>1, <2>3, <2>4 DEF IInv, TypeInv, TypeOK, OthersKept, History
    <2>6. OneAhead(h)
      <3>1. IsPrefix(branch[c], hub)
        BY <1>1 DEF Proper, WrittenNotCommitted
      <3>2. LastTree(h) = Staged(w) /\ LastTree(Front(h)) = HeadTree(c)
        BY <2>2 DEF LastTree, NewCommit, HeadTree
      <3>3. LedgerStep(HeadTree(c), Staged(w))
        BY <1>1, <1>2, StagedIsOneStep DEF MakeCommit
      <3>4. QED
        BY <1>1, <2>2, <3>1, <3>2, <3>3 DEF OneAhead
    <2>7. OneAhead(branch[c])'
      BY <2>5, <2>6 DEF OneAhead
    <2>8. branch'[c][Len(branch'[c])].id = op'[w].id
      BY <2>2, <2>5 DEF NewCommit
    <2>9. Proper(w)'
      BY <1>1, <2>5, <2>7, <2>8 DEF Proper
    <2>10. QED
      BY <2>3, <2>5, <2>9, LocalStep DEF OthersKept, netVars
  <1>3. CASE CommitFails(w)
    <2>1. Finish(w, FALSE) /\ UNCHANGED hist /\ UNCHANGED netVars /\ OthersKept(c)
      BY <1>1, <1>3 DEF CommitFails, Raise, OthersKept, IInv, TypeInv, TypeOK
    <2>2. QED
      BY <2>1, EndKeeps
  <1>4. QED
    BY <1>2, <1>3

\* The push has an answer, or none: the hub keeps what it has, takes the
\* writer's history, or may take it later.
LEMMA PushMoves ==
  ASSUME IInv, NEW w \in Writers, Push(w)
  PROVE  /\ pc[w] = "push"
         /\ \/ hub' = hub
            \/ hub' = branch[CloneOf[w]] /\ IsPrefix(hub, branch[CloneOf[w]])
         /\ inflight' \subseteq inflight \cup {branch[CloneOf[w]]}
         /\ UNCHANGED cloneVars
         /\ \/ /\ Finish(w, TRUE)
               /\ hist'.recorded = hist.recorded \cup {op[w].id}
               /\ hub' = branch[CloneOf[w]]
            \/ \E finished \in BOOLEAN :
                 /\ PushNotConfirmed(w, finished)
                 /\ hist'.recorded = hist.recorded
  <1>1. /\ hist \in History /\ StartedPush(w) \in History
        /\ StartedPush(w).recorded = hist.recorded
    BY HistTyped DEF IInv, TypeInv, TypeOK, StartedPush, History
  <1>2. CASE PushAccepted(w)
    <2>1. hist' = [StartedPush(w) EXCEPT !.recorded =
                     StartedPush(w).recorded \cup {op[w].id}]
      BY <1>2 DEF PushAccepted
    <2>2. hist'.recorded = hist.recorded \cup {op[w].id}
      BY <1>1, <2>1 DEF History
    <2>3. QED
      BY <1>2, <2>2 DEF PushAccepted
  <1>3. ASSUME NEW finished \in BOOLEAN, PushNotConfirmed(w, finished)
        PROVE  pc[w] = "push" /\ hist'.recorded = hist.recorded /\ UNCHANGED cloneVars
    BY <1>1, <1>3 DEF PushNotConfirmed
  <1>4. CASE PushRejected(w)
    BY <1>3, <1>4 DEF PushRejected, netVars
  <1>5. CASE PushReplyLost(w)
    BY <1>3, <1>5 DEF PushReplyLost
  <1>6. CASE PushKilled(w)
    BY <1>3, <1>6 DEF PushKilled
  <1>7. QED
    BY <1>2, <1>4, <1>5, <1>6 DEF Push

LEMMA PushKeeps ==
  ASSUME OneWriterPerClone, IInv, TypeInv', NEW w \in Writers, Push(w)
  PROVE  IInv'
  <1> DEFINE c == CloneOf[w]
  <1>1. /\ pc[w] = "push" /\ UNCHANGED cloneVars /\ OthersKept(c)
        /\ c \in Clones /\ branch[c] \in Seq(Commit) /\ branch[c] # <<>>
        /\ hub \in Seq(Commit) /\ op[w] \in Op
    BY Typed, PushMoves DEF OthersKept, cloneVars, IInv, TypeInv, TypeOK, NonEmpty
  <1>2. OneAhead(branch[c]) /\ branch[c][Len(branch[c])].id = op[w].id
    BY <1>1 DEF IInv, Proper
  <1>3. IsPrefix(hub, hub')
    BY <1>1, PushMoves, PrefixReflexive
  <1>4. \A h \in inflight' \ inflight : OneAhead(h)
    BY <1>2, PushMoves
  <1>5. CASE /\ Finish(w, TRUE) /\ hub' = branch[c]
             /\ hist'.recorded = hist.recorded \cup {op[w].id}
    <2>1. Len(branch[c]) \in DOMAIN branch[c]
      BY <1>1, EmptySeq, LenProperties
    <2>2. op[w].id \in HubIds'
      BY <1>2, <1>5, <2>1 DEF HubIds
    <2>3. Proper(w)' /\ \A v \in Writers \ {w} : pc'[v] = pc[v] /\ op'[v] = op[v]
      BY <1>5, FinishProper
    <2>4. QED
      BY <1>1, <1>3, <1>4, <1>5, <2>2, <2>3, StepKeeps DEF OthersKept
  <1>6. ASSUME NEW finished \in BOOLEAN, PushNotConfirmed(w, finished),
               hist'.recorded = hist.recorded
        PROVE  IInv'
    <2> DEFINE o == [op[w] EXCEPT !.head = branch[c], !.finished = finished]
    <2>1. /\ o.head = branch[c] /\ o.id = op[w].id
          /\ o.kind = op[w].kind /\ o.task = op[w].task
      BY <1>1 DEF Op
    <2>2. op' = [op EXCEPT ![w] = o] /\ pc' = [pc EXCEPT ![w] = "readback"]
      BY <1>6 DEF PushNotConfirmed, Goto
    <2> HIDE DEF o
    <2>3. /\ pc'[w] = "readback" /\ op'[w] = o
          /\ \A v \in Writers \ {w} : pc'[v] = pc[v] /\ op'[v] = op[v]
      BY <2>2 DEF IInv, TypeInv, TypeOK
    <2>4. Proper(w)'
      BY <1>1, <1>2, <2>1, <2>3 DEF Proper, IInv
    <2>5. QED
      BY <1>1, <1>3, <1>4, <1>6, <2>3, <2>4, StepKeeps DEF OthersKept
  <1>7. QED
    BY <1>5, <1>6, PushMoves

LEMMA ReadBackKeeps ==
  ASSUME OneWriterPerClone, IInv, TypeInv', NEW w \in Writers, ReadBack(w)
  PROVE  IInv'
  <1> DEFINE c == CloneOf[w]
  <1>1. /\ c \in Clones /\ hub \in Seq(Commit) /\ IsPrefix(hub, hub)
        /\ op[w] \in Op /\ op[w].head \in Seq(Commit) /\ TypeInv
    BY Typed, PrefixReflexive DEF IInv, TypeInv, TypeOK, Op
  <1>2. CASE ReadBackAccepted(w)
    <2>1. /\ pc[w] = "readback" /\ IsPrefix(op[w].head, hub)
          /\ Finish(w, TRUE) /\ UNCHANGED netVars /\ UNCHANGED cloneVars
          /\ hist'.recorded = hist.recorded \cup {op[w].id}
      BY <1>2 DEF ReadBackAccepted, Succeed, IInv, TypeInv, TypeOK, History
    <2> DEFINE h == op[w].head
    <2>2. h # <<>> /\ h[Len(h)].id = op[w].id
      BY <2>1 DEF IInv, Proper
    <2>3. Len(h) \in DOMAIN h
      BY <1>1, <2>2, EmptySeq, LenProperties
    <2>4. op[w].id \in HubIds
      <3>1. {h[i].id : i \in DOMAIN h} \subseteq {hub[i].id : i \in DOMAIN hub}
        BY <1>1, <2>1, PrefixKeepsIds
      <3>2. op[w].id \in {h[i].id : i \in DOMAIN h}
        BY <2>2, <2>3
      <3>3. QED
        BY <3>1, <3>2 DEF HubIds
    <2>5. HubIds' = HubIds /\ hub' = hub /\ inflight' = inflight /\ OthersKept(c)
      BY <2>1 DEF HubIds, netVars, cloneVars, OthersKept
    <2>6. Proper(w)' /\ \A v \in Writers \ {w} : pc'[v] = pc[v] /\ op'[v] = op[v]
      BY <2>1, FinishProper
    <2>7. QED
      BY <1>1, <2>1, <2>4, <2>5, <2>6, StepKeeps DEF OthersKept
  <1>3. CASE ReadBackAbsent(w) \/ ReadBackUnreadable(w)
    <2>1. /\ Quarantine(c, op[w].before) /\ UNCHANGED netVars
          /\ Deny(w) \/ Raise(w)
      BY <1>3 DEF ReadBackAbsent, ReadBackUnreadable
    <2>2. OthersKept(c)
      BY <1>1, <2>1, QuarantineLocal
    <2>3. QED
      BY <2>1, <2>2, EndKeeps DEF Raise
  <1>4. QED
    BY <1>2, <1>3 DEF ReadBack

LEMMA CrashKeeps ==
  ASSUME OneWriterPerClone, IInv, TypeInv', NEW w \in Writers, Crash(w)
  PROVE  IInv'
  <1> DEFINE c == CloneOf[w]
  <1>1. /\ hub \in Seq(Commit) /\ hub' = hub /\ IsPrefix(hub, hub')
        /\ UNCHANGED cloneVars /\ OthersKept(c)
    BY PrefixReflexive DEF Crash, cloneVars, OthersKept, IInv, TypeInv, TypeOK
  <1>2. /\ pc'[w] = "idle" /\ op'[w] = NoOp
        /\ \A v \in Writers \ {w} : pc'[v] = pc[v] /\ op'[v] = op[v]
    BY DEF Crash, Goto, IInv, TypeInv, TypeOK
  <1>3. Proper(w)'
    BY <1>2 DEF Proper, NoOp, NewOp
  <1>4. hist'.recorded = hist.recorded
    BY DEF Crash, StartedPush, IInv, TypeInv, TypeOK, History
  <1>5. \A h \in inflight' \ inflight : OneAhead(h)
    BY DEF Crash, IInv, Proper
  <1>6. QED
    BY <1>1, <1>2, <1>3, <1>4, <1>5, StepKeeps DEF OthersKept

LEMMA LandKeeps ==
  ASSUME IInv, TypeInv', Land
  PROVE  IInv'
  <1>1. PICK h \in inflight : IsStrictPrefix(hub, h) /\ hub' = h /\ inflight' = inflight \ {h}
    BY DEF Land
  <1>2. /\ UNCHANGED <<cloneVars, pc, op, hist>> /\ TypeInv
        /\ hub \in Seq(Commit) /\ hub' \in Seq(Commit)
    BY DEF Land, IInv, TypeInv, TypeOK
  <1>3. IsPrefix(hub, hub')
    BY <1>1 DEF IsStrictPrefix
  <1>4. ASSUME NEW v \in Writers PROVE Proper(v)'
    BY <1>2, <1>3, Frame DEF cloneVars, IInv
  <1>5. ASSUME NEW g \in inflight' PROVE OneAhead(g)'
    <2>1. OneAhead(g) /\ g \in Seq(Commit)
      BY <1>1 DEF IInv, TypeInv, TypeOK
    <2>2. QED
      BY <1>2, <1>3, <2>1, OneAheadMonotonic
  <1>6. RecordedIsOnHub'
    BY <1>2, <1>3, PrefixKeepsIds DEF IInv, RecordedIsOnHub, HubIds
  <1>7. QED
    BY <1>4, <1>5, <1>6 DEF IInv

LEMMA InitEstablishes == Init => IInv
  <1> SUFFICES ASSUME Init PROVE IInv
    OBVIOUS
  <1>1. TypeInv
    BY InitTyped
  <1>2. \A w \in Writers : Proper(w)
    BY DEF Init, Proper, NoOp, NewOp
  <1>3. RecordedIsOnHub /\ inflight = {}
    BY DEF Init, RecordedIsOnHub
  <1>4. QED
    BY <1>1, <1>2, <1>3 DEF IInv

LEMMA NextKeeps ==
  ASSUME OneWriterPerClone, IInv, [Next]_vars
  PROVE  IInv'
  <1>1. TypeInv'
    BY NextTyped DEF IInv
  <1>2. CASE UNCHANGED vars
    <2>1. /\ hub' = hub /\ inflight' = inflight /\ hist' = hist
          /\ hub \in Seq(Commit)
          /\ UNCHANGED <<cloneVars, pc, op>>
      BY <1>2 DEF vars, netVars, IInv, TypeInv, TypeOK
    <2>2. IsPrefix(hub, hub') /\ TypeInv
      BY <2>1, PrefixReflexive DEF IInv
    <2>3. \A v \in Writers : Proper(v)'
      BY <1>1, <2>1, <2>2, Frame DEF cloneVars, IInv
    <2>4. \A h \in inflight' : OneAhead(h)'
      BY <2>1 DEF IInv, OneAhead
    <2>5. RecordedIsOnHub'
      BY <2>1 DEF IInv, RecordedIsOnHub, HubIds
    <2>6. QED
      BY <1>1, <2>3, <2>4, <2>5 DEF IInv
  <1>3. CASE Land
    BY <1>1, <1>3, LandKeeps
  <1>4. ASSUME NEW w \in Writers,
               BeginAppend(w) \/ BeginAcquire(w) \/ BeginRelease(w) \/ Step(w) \/ Crash(w)
        PROVE  IInv'
    BY <1>1, <1>4, BeginKeeps, PullKeeps, CheckKeeps, WriteKeeps, CommitKeeps,
       PushKeeps, ReadBackKeeps, CrashKeeps DEF Step
  <1>5. QED
    BY <1>2, <1>3, <1>4 DEF Next

----------------------------------------------------------------------------
\* The theorems

\* An operation that reported success is on the hub and stays there, for every
\* number of writers with clones of their own, whatever fails.
THEOREM RecordedStays == OneWriterPerClone /\ Spec => []RecordedIsOnHub
  <1>1. SUFFICES ASSUME OneWriterPerClone PROVE Spec => []RecordedIsOnHub
    OBVIOUS
  <1>2. IInv /\ [Next]_vars => IInv'
    BY <1>1, NextKeeps
  <1>3. IInv => RecordedIsOnHub
    BY DEF IInv
  <1>4. QED
    BY <1>2, <1>3, InitEstablishes, PTL DEF Spec

\* One ledger step between the hub's states is one step of the abstract ledger.
LEMMA LedgerStepIsAbstract ==
  ASSUME TypeInv, TypeInv', LedgerStep(HubTree, HubTree')
  PROVE  Ledger!LedgerNext
  <1> DEFINE rows == HubTree.rows
  <1>1. HubTree \in Tree /\ HubTree' \in Tree
    BY LastCommitTyped DEF HubTree, TypeInv, TypeOK, NonEmpty
  <1>2. rows \in Seq(Row) /\ Len(rows) \in Nat
    BY <1>1 DEF Tree
  <1>3. ASSUME NEW r \in Row, r.prev = HeadRow(HubTree), rows' = Append(rows, r),
               HubTree'.lock = HubTree.lock
        PROVE  Ledger!AppendRow
    <2>1. /\ Len(rows') = Len(rows) + 1
          /\ rows'[Len(rows')] = r
          /\ \A i \in 1..Len(rows) : rows'[i] = rows[i]
      BY <1>2, <1>3
    <2>2. SubSeq(rows', 1, Len(rows)) = rows
      BY <1>2, <1>3
    <2>3. QED
      BY <1>3, <2>1, <2>2 DEF Ledger!AppendRow, Ledger!Row, Ledger!HeadOf, HeadRow, Row
  <1>4. CASE HubTree.lock = Free /\ HubTree'.lock \in Tasks /\ rows' = rows
    BY <1>4 DEF Ledger!TakeLock, Ledger!LedgerNext
  <1>5. CASE HubTree.lock # Free /\ HubTree'.lock = Free /\ rows' = rows
    BY <1>5 DEF Ledger!ReleaseLock, Ledger!LedgerNext
  <1>6. QED
    BY <1>3, <1>4, <1>5 DEF LedgerStep, Ledger!LedgerNext

LEMMA InitialHub == Init => HubTree = RootTree
  <1>1. ASSUME NEW x PROVE <<x>>[Len(<<x>>)] = x
    OBVIOUS
  <1>2. Init => hub[Len(hub)] = RootCommit
    BY <1>1 DEF Init
  <1>3. QED
    BY <1>2 DEF HubTree, RootCommit

\* What a step does to the hub: nothing, or one accepted history.
LEMMA HubMoves ==
  ASSUME IInv, [Next]_vars
  PROVE  \/ hub' = hub
         \/ \E h \in Seq(Commit) : OneAhead(h) /\ IsPrefix(hub, h) /\ hub' = h
  <1>1. CASE UNCHANGED vars
    BY <1>1 DEF vars, netVars
  <1>2. CASE Land
    BY <1>2 DEF Land, IsStrictPrefix, IInv, TypeInv, TypeOK
  <1>3. ASSUME NEW w \in Writers, Push(w)
        PROVE  \/ hub' = hub
               \/ \E h \in Seq(Commit) : OneAhead(h) /\ IsPrefix(hub, h) /\ hub' = h
    <2>1. branch[CloneOf[w]] \in Seq(Commit)
      BY Typed DEF IInv, TypeInv, TypeOK
    <2>2. OneAhead(branch[CloneOf[w]])
      BY <1>3, PushMoves DEF IInv, Proper
    <2>3. QED
      BY <1>3, <2>1, <2>2, PushMoves
  <1>4. ASSUME NEW w \in Writers,
               \/ BeginAppend(w) \/ BeginAcquire(w) \/ BeginRelease(w) \/ Crash(w)
               \/ Pull(w) \/ CheckHead(w) \/ CheckAcquire(w) \/ CheckRelease(w)
               \/ Write(w) \/ MakeCommit(w) \/ CommitFails(w) \/ ReadBack(w)
        PROVE  hub' = hub
    BY <1>4 DEF BeginAppend, BeginAcquire, BeginRelease, Begin, Crash, Pull,
      PullRefused, PullForward, PullQuarantines, PullDiverged, CheckHead,
      CheckAcquire, CheckRelease, Write, MakeCommit, CommitFails, ReadBack,
      ReadBackAccepted, ReadBackAbsent, ReadBackUnreadable, netVars
  <1>5. QED
    BY <1>1, <1>2, <1>3, <1>4 DEF Next, Step

LEMMA StepRefines ==
  ASSUME IInv, IInv', [Next]_vars
  PROVE  [Ledger!LedgerNext]_(Ledger!ledgerVars)
  <1>1. CASE hub' = hub
    BY <1>1 DEF Ledger!ledgerVars, HubTree
  <1>2. ASSUME NEW h \in Seq(Commit), OneAhead(h), IsPrefix(hub, h), hub' = h, hub' # hub
        PROVE  Ledger!LedgerNext
    <2>1. LedgerStep(HubTree, LastTree(h)) /\ LastTree(h) = HubTree'
      BY <1>2, AcceptedIsOneStep DEF IInv, LastTree, HubTree
    <2>2. QED
      BY <2>1, LedgerStepIsAbstract DEF IInv
  <1>3. QED
    BY <1>1, <1>2, HubMoves

\* The hub is the append-only ledger: one chain that only grows, each new row on
\* the row that was last, and a lock taken only while free.
THEOREM HubImplementsLedger == OneWriterPerClone /\ Spec => RefinesLedger
  <1>1. SUFFICES ASSUME OneWriterPerClone PROVE Spec => RefinesLedger
    OBVIOUS
  <1>2. Init => Ledger!LedgerInit
    BY InitialHub DEF Ledger!LedgerInit, Ledger!GenesisRow, GenesisRow, RootTree
  <1>3. IInv /\ [Next]_vars => IInv'
    BY <1>1, NextKeeps
  <1>4. IInv /\ IInv' /\ [Next]_vars => [Ledger!LedgerNext]_(Ledger!ledgerVars)
    BY StepRefines
  <1>5. QED
    BY <1>2, <1>3, <1>4, InitEstablishes, PTL DEF Spec, RefinesLedger, Ledger!LedgerSpec

LEMMA LedgerStepKeepsChain ==
  ASSUME TypeInv, TypeInv', HubChain, LedgerStep(HubTree, HubTree'),
         HubTree.rows # <<>>
  PROVE  HubChain' /\ HubTree'.rows # <<>>
  <1> DEFINE rows == HubTree.rows
  <1>1. HubTree \in Tree /\ HubTree' \in Tree
    BY LastCommitTyped DEF HubTree, TypeInv, TypeOK, NonEmpty
  <1>2. rows \in Seq(Row) /\ Len(rows) \in Nat
    BY <1>1 DEF Tree
  <1>3. CASE rows' = rows
    BY <1>3 DEF HubChain
  <1>4. ASSUME NEW r \in Row, r.prev = HeadRow(HubTree), rows' = Append(rows, r)
        PROVE  HubChain' /\ rows' # <<>>
    <2>1. /\ Len(rows') = Len(rows) + 1
          /\ rows'[Len(rows')] = r
          /\ \A i \in 1..Len(rows) : rows'[i] = rows[i]
          /\ rows' # <<>>
      BY <1>2, <1>4
    <2>2. ASSUME NEW i \in 2..Len(rows')
          PROVE  rows'[i].prev = rows'[i-1].id
      <3>1. CASE i \in 2..Len(rows)
        <4>1. i \in 1..Len(rows) /\ i-1 \in 1..Len(rows)
          BY <1>2, <3>1
        <4>2. QED
          BY <2>1, <3>1, <4>1 DEF HubChain
      <3>2. CASE i = Len(rows')
        <4>1. rows'[i] = r /\ i-1 = Len(rows) /\ i-1 \in 1..Len(rows)
          BY <1>2, <2>1, <2>2, <3>2
        <4>2. rows'[i-1] = rows[Len(rows)]
          BY <2>1, <4>1
        <4>3. QED
          BY <1>4, <4>1, <4>2 DEF HeadRow
      <3>3. QED
        BY <1>2, <2>1, <2>2, <3>1, <3>2
    <2>3. QED
      BY <2>1, <2>2 DEF HubChain
  <1>5. QED
    BY <1>3, <1>4 DEF LedgerStep

LEMMA StepKeepsChain ==
  ASSUME IInv, IInv', [Next]_vars, HubChain, HubTree.rows # <<>>
  PROVE  HubChain' /\ HubTree'.rows # <<>>
  <1>1. CASE hub' = hub
    BY <1>1 DEF HubChain, HubTree
  <1>2. ASSUME NEW h \in Seq(Commit), OneAhead(h), IsPrefix(hub, h), hub' = h, hub' # hub
        PROVE  HubChain' /\ HubTree'.rows # <<>>
    <2>1. LedgerStep(HubTree, LastTree(h)) /\ LastTree(h) = HubTree'
      BY <1>2, AcceptedIsOneStep DEF IInv, LastTree, HubTree
    <2>2. QED
      BY <2>1, LedgerStepKeepsChain DEF IInv
  <1>3. QED
    BY <1>1, <1>2, HubMoves

\* Every row on the hub names the row before it, when no two writers share a
\* clone: two processes in one clone can check the same head and both write.
THEOREM HubIsAChain == OneWriterPerClone /\ Spec => []HubChain
  <1> DEFINE Chained == HubChain /\ HubTree.rows # <<>>
  <1>1. SUFFICES ASSUME OneWriterPerClone PROVE Spec => []HubChain
    OBVIOUS
  <1>2. Init => Chained
    <2>1. SUFFICES ASSUME Init PROVE Chained
      OBVIOUS
    <2>2. HubTree.rows = <<GenesisRow>>
      BY <2>1, InitialHub DEF RootTree
    <2>3. Len(<<GenesisRow>>) = 1
      OBVIOUS
    <2>4. HubChain /\ HubTree.rows # <<>>
      BY <2>2, <2>3 DEF HubChain
    <2>5. QED
      BY <2>4
  <1>3. IInv /\ [Next]_vars => IInv'
    BY <1>1, NextKeeps
  <1>4. IInv /\ IInv' /\ [Next]_vars /\ Chained => Chained'
    BY StepKeepsChain
  <1>5. QED
    BY <1>2, <1>3, <1>4, InitEstablishes, PTL DEF Spec

-----------------------------------------------------------------------------
(***************************************************************************)
(* What becomes of an operation, when each writer has a clone of its own:    *)
(* its commit reaches the hub only by its own push, never after its caller   *)
(* was told that nothing was recorded, and is nowhere thrown away.           *)
(*                                                                         *)
(* The argument: an operation's identity is new when it begins, starts its   *)
(* push once, and is denied either before that or once git said that the     *)
(* push is over and the hub that it has no such commit.                      *)
(***************************************************************************)
\* The inductive invariant

LastId(h) == h[Len(h)].id

\* Identities of operations that have begun.
Counted ==
  /\ hist.pushed \subseteq OpId /\ hist.denied \subseteq OpId
  /\ \A v \in Writers, n \in Nat :
       <<v, n>> \in hist.pushed \cup hist.denied => n <= count[v]

Unpushed == {"pull", "check", "write", "commit", "push"}

\* A push that git finished is not under way, and if the hub holds its commit, the
\* read-back will say so.
Settled(w) ==
  /\ \A h \in inflight : LastId(h) # op[w].id
  /\ op[w].id \in HubIds => IsPrefix(op[w].head, hub)

Fated(w) ==
  /\ pc[w] # "idle" => op[w].id = <<w, count[w]>> /\ op[w].id \notin hist.denied
  /\ pc[w] \in Unpushed => op[w].id \notin hist.pushed
  /\ pc[w] = "readback" /\ op[w].finished => Settled(w)

Fate ==
  /\ Counted
  /\ \A w \in Writers : Fated(w)
  /\ PublishedByItsOwnPush
  /\ DeniedNeverOnHub
  /\ \A h \in inflight : LastId(h) \in hist.pushed /\ LastId(h) \notin hist.denied

----------------------------------------------------------------------------
\* What a step does to operations, pushes and reports

\* Nobody is told anything, and nothing is pushed.
Quiet == UNCHANGED netVars /\ hist'.pushed = hist.pushed /\ hist'.denied = hist.denied

Begins(w) ==
  /\ pc'[w] = "pull" /\ op'[w].id = <<w, count[w] + 1>> /\ count'[w] = count[w] + 1
  /\ Quiet

GoesOn(w) ==
  /\ pc[w] \in Unpushed /\ pc'[w] \in Unpushed
  /\ op'[w].id = op[w].id /\ count' = count
  /\ Quiet

Ends(w) == pc'[w] = "idle" /\ count' = count /\ Quiet

Denies(w) ==
  /\ \/ pc[w] \in {"pull", "check"}
     \/ pc[w] = "readback" /\ op[w].finished /\ ~IsPrefix(op[w].head, hub)
  /\ pc'[w] = "idle" /\ count' = count
  /\ hist'.denied = hist.denied \cup {op[w].id} /\ hist'.pushed = hist.pushed
  /\ UNCHANGED netVars

Pushes(w) ==
  LET h == branch[CloneOf[w]]
  IN  /\ pc[w] = "push" /\ count' = count
      /\ hist'.pushed = hist.pushed \cup {op[w].id} /\ hist'.denied = hist.denied
      /\ hub' = hub \/ (hub' = h /\ IsPrefix(hub, h))
      /\ inflight' \subseteq inflight \cup {h}
      /\ \/ pc'[w] = "idle"
         \/ /\ pc'[w] = "readback" /\ op'[w].id = op[w].id /\ op'[w].head = h
            /\ op'[w].finished => inflight' = inflight

OthersStay(w) ==
  \A v \in Writers \ {w} : pc'[v] = pc[v] /\ op'[v] = op[v] /\ count'[v] = count[v]

LEMMA FinishEffect ==
  ASSUME TypeInv, NEW w \in Writers, NEW ok \in BOOLEAN, Finish(w, ok)
  PROVE  pc'[w] = "idle" /\ count' = count /\ OthersStay(w)
  BY DEF Finish, Goto, OthersStay, TypeInv, TypeOK

LEMMA GotoEffect ==
  ASSUME TypeInv, NEW w \in Writers, NEW step, Goto(w, step), UNCHANGED <<op, count>>
  PROVE  pc'[w] = step /\ op' = op /\ count' = count /\ OthersStay(w)
  BY DEF Goto, OthersStay, TypeInv, TypeOK

LEMMA DenyEffect ==
  ASSUME TypeInv, NEW w \in Writers, Deny(w), UNCHANGED netVars,
         \/ pc[w] \in {"pull", "check"}
         \/ pc[w] = "readback" /\ op[w].finished /\ ~IsPrefix(op[w].head, hub)
  PROVE  OthersStay(w) /\ Denies(w)
  <1>1. Finish(w, FALSE) /\ hist' = [hist EXCEPT !.denied = hist.denied \cup {op[w].id}]
    BY DEF Deny
  <1>2. hist'.denied = hist.denied \cup {op[w].id} /\ hist'.pushed = hist.pushed
    BY <1>1 DEF TypeInv, TypeOK, History
  <1>3. QED
    BY <1>1, <1>2, FinishEffect DEF Denies

LEMMA RaiseEffect ==
  ASSUME TypeInv, NEW w \in Writers, NEW ok \in BOOLEAN, Finish(w, ok), UNCHANGED hist,
         UNCHANGED netVars
  PROVE  OthersStay(w) /\ Ends(w)
  BY FinishEffect DEF Ends, Quiet

LEMMA BeginEffect ==
  ASSUME TypeInv, NEW w \in Writers,
         BeginAppend(w) \/ BeginAcquire(w) \/ BeginRelease(w)
  PROVE  OthersStay(w) /\ Begins(w)
  <1>1. \E kind, task, prev : Begin(w, kind, task, prev)
    BY DEF BeginAppend, BeginAcquire, BeginRelease
  <1>2. QED
    BY <1>1 DEF Begin, Goto, NewOp, OthersStay, Begins, Quiet, TypeInv, TypeOK

LEMMA PullEffect ==
  ASSUME TypeInv, NEW w \in Writers, Pull(w)
  PROVE  OthersStay(w) /\ (GoesOn(w) \/ Denies(w))
  <1>1. CASE Deny(w) /\ UNCHANGED netVars /\ pc[w] = "pull"
    BY <1>1, DenyEffect
  <1>2. CASE Goto(w, "check") /\ UNCHANGED <<op, count, hist>> /\ UNCHANGED netVars
             /\ pc[w] = "pull"
    BY <1>2, GotoEffect DEF GoesOn, Quiet, Unpushed
  <1>3. QED
    BY <1>1, <1>2 DEF Pull, PullRefused, PullForward, PullQuarantines, PullDiverged, netVars

LEMMA CheckEffect ==
  ASSUME TypeInv, NEW w \in Writers,
         CheckHead(w) \/ CheckAcquire(w) \/ CheckRelease(w)
  PROVE  OthersStay(w) /\ (GoesOn(w) \/ Ends(w) \/ Denies(w))
  <1>1. pc[w] = "check" /\ UNCHANGED netVars
    BY DEF CheckHead, CheckAcquire, CheckRelease, netVars
  <1>2. CASE Deny(w)
    BY <1>1, <1>2, DenyEffect
  <1>3. CASE Goto(w, "write") /\ UNCHANGED <<op, count, hist>>
    BY <1>1, <1>3, GotoEffect DEF GoesOn, Quiet, Unpushed
  <1>4. CASE Finish(w, TRUE) /\ UNCHANGED hist
    BY <1>1, <1>4, RaiseEffect
  <1>5. QED
    BY <1>2, <1>3, <1>4 DEF CheckHead, CheckAcquire, CheckRelease

LEMMA WriteEffect ==
  ASSUME TypeInv, NEW w \in Writers, Write(w)
  PROVE  OthersStay(w) /\ GoesOn(w)
  BY GotoEffect DEF Write, GoesOn, Quiet, Unpushed, netVars

LEMMA CommitEffect ==
  ASSUME TypeInv, NEW w \in Writers, MakeCommit(w) \/ CommitFails(w)
  PROVE  OthersStay(w) /\ (GoesOn(w) \/ Ends(w))
  <1>1. CASE MakeCommit(w)
    <2>1. /\ op' = [op EXCEPT ![w] = [op[w] EXCEPT !.before = branch[CloneOf[w]]]]
          /\ hist' = [hist EXCEPT !.made = hist.made \cup {NewCommit(w)}]
          /\ pc' = [pc EXCEPT ![w] = "push"]
          /\ pc[w] = "commit" /\ UNCHANGED netVars /\ count' = count
      BY <1>1 DEF MakeCommit, Goto, netVars
    <2>2. [op[w] EXCEPT !.before = branch[CloneOf[w]]].id = op[w].id
      BY DEF TypeInv, TypeOK, Op
    <2>3. pc'[w] = "push" /\ op'[w].id = op[w].id /\ OthersStay(w)
      BY <2>1, <2>2 DEF OthersStay, TypeInv, TypeOK
    <2>4. hist'.pushed = hist.pushed /\ hist'.denied = hist.denied
      BY <2>1 DEF TypeInv, TypeOK, History
    <2>5. QED
      BY <2>1, <2>3, <2>4 DEF GoesOn, Quiet, Unpushed
  <1>2. CASE CommitFails(w)
    BY <1>2, RaiseEffect DEF CommitFails, Raise, netVars
  <1>3. QED
    BY <1>1, <1>2

\* What starting a push leaves in the history variable.
LEMMA StartedPushEffect ==
  ASSUME TypeInv, NEW w \in Writers
  PROVE  /\ StartedPush(w).pushed = hist.pushed \cup {op[w].id}
         /\ StartedPush(w).denied = hist.denied /\ StartedPush(w).made = hist.made
         /\ StartedPush(w) \in History
  BY HistTyped DEF StartedPush, TypeInv, TypeOK, History

LEMMA PushEffect ==
  ASSUME IInv, NEW w \in Writers, Push(w)
  PROVE  OthersStay(w) /\ Pushes(w)
  <1> DEFINE h == branch[CloneOf[w]]
  <1>0. TypeInv /\ op[w] \in Op /\ op \in [Writers -> Op]
    BY DEF IInv, TypeInv, TypeOK
  <1>1. /\ pc[w] = "push" /\ inflight' \subseteq inflight \cup {h}
        /\ hub' = hub \/ (hub' = h /\ IsPrefix(hub, h))
    BY PushMoves
  <1>2. CASE PushAccepted(w)
    <2>1. /\ Finish(w, TRUE)
          /\ hist' = [StartedPush(w) EXCEPT !.recorded =
                        StartedPush(w).recorded \cup {op[w].id}]
      BY <1>2 DEF PushAccepted
    <2>2. /\ hist'.pushed = hist.pushed \cup {op[w].id}
          /\ hist'.denied = hist.denied
      BY <1>0, <2>1, StartedPushEffect DEF History
    <2>3. QED
      BY <1>0, <1>1, <2>1, <2>2, FinishEffect DEF Pushes
  <1>3. ASSUME NEW finished \in BOOLEAN, PushNotConfirmed(w, finished),
               finished => inflight' = inflight
        PROVE  OthersStay(w) /\ Pushes(w)
    <2> DEFINE o == [op[w] EXCEPT !.head = h, !.finished = finished]
    <2>1. o.head = h /\ o.id = op[w].id /\ o.finished = finished
      BY <1>0 DEF Op
    <2>2. op' = [op EXCEPT ![w] = o] /\ pc' = [pc EXCEPT ![w] = "readback"]
      BY <1>3 DEF PushNotConfirmed, Goto
    <2> HIDE DEF o
    <2>3. /\ pc'[w] = "readback" /\ op'[w] = o /\ count' = count
          /\ OthersStay(w)
      BY <1>0, <1>3, <2>2 DEF PushNotConfirmed, OthersStay, TypeInv, TypeOK
    <2>4. hist'.pushed = hist.pushed \cup {op[w].id} /\ hist'.denied = hist.denied
      BY <1>0, <1>3, StartedPushEffect DEF PushNotConfirmed
    <2>5. op'[w].id = op[w].id /\ op'[w].head = h /\ (op'[w].finished => inflight' = inflight)
      BY <1>3, <2>1, <2>3
    <2>6. QED
      BY <1>1, <2>3, <2>4, <2>5 DEF Pushes
  <1>4. QED
    BY <1>2, <1>3 DEF Push, PushRejected, PushReplyLost, PushKilled, netVars

LEMMA ReadBackEffect ==
  ASSUME TypeInv, NEW w \in Writers, ReadBack(w)
  PROVE  OthersStay(w) /\ (Ends(w) \/ Denies(w))
  <1>1. CASE ReadBackAccepted(w)
    <2>1. /\ Finish(w, TRUE) /\ UNCHANGED netVars
          /\ hist'.pushed = hist.pushed /\ hist'.denied = hist.denied
      BY <1>1 DEF ReadBackAccepted, Succeed, TypeInv, TypeOK, History
    <2>2. QED
      BY <2>1, FinishEffect DEF Ends, Quiet
  <1>2. CASE ReadBackAbsent(w)
    BY <1>2, DenyEffect, RaiseEffect DEF ReadBackAbsent, Raise
  <1>3. CASE ReadBackUnreadable(w)
    BY <1>3, RaiseEffect DEF ReadBackUnreadable, Raise
  <1>4. QED
    BY <1>1, <1>2, <1>3 DEF ReadBack

LEMMA CrashEffect ==
  ASSUME TypeInv, NEW w \in Writers, Crash(w)
  PROVE  OthersStay(w) /\ (Ends(w) \/ Pushes(w))
  <1>1. pc'[w] = "idle" /\ count' = count /\ hub' = hub /\ OthersStay(w)
    BY DEF Crash, Goto, OthersStay, TypeInv, TypeOK
  <1>2. CASE UNCHANGED <<inflight, hist>>
    BY <1>1, <1>2 DEF Ends, Quiet, netVars
  <1>3. CASE /\ pc[w] = "push" /\ hist' = StartedPush(w)
             /\ inflight' = inflight \cup {branch[CloneOf[w]]}
    BY <1>1, <1>3, StartedPushEffect DEF Pushes
  <1>4. QED
    BY <1>2, <1>3 DEF Crash

\* Every step of a writer is one of these.
LEMMA StepEffect ==
  ASSUME IInv, NEW w \in Writers,
         BeginAppend(w) \/ BeginAcquire(w) \/ BeginRelease(w) \/ Step(w) \/ Crash(w)
  PROVE  OthersStay(w) /\ (Begins(w) \/ GoesOn(w) \/ Ends(w) \/ Denies(w) \/ Pushes(w))
  BY BeginEffect, PullEffect, CheckEffect, WriteEffect, CommitEffect, PushEffect,
     ReadBackEffect, CrashEffect DEF Step, IInv

----------------------------------------------------------------------------
\* Each of them keeps the invariant

\* An accepted history brings one identity to the hub, that of its last commit.
LEMMA AcceptedIds ==
  ASSUME TypeInv, NEW h \in Seq(Commit), OneAhead(h), IsPrefix(hub, h), hub' = h
  PROVE  HubIds' \subseteq HubIds \cup {LastId(h)}
  <1>1. /\ Front(h) \in Seq(Commit) /\ hub \in Seq(Commit)
        /\ Len(Front(h)) = Len(h) - 1 /\ Len(h) \in Nat /\ DOMAIN h = 1..Len(h)
        /\ \A i \in 1..(Len(h) - 1) : Front(h)[i] = h[i]
    BY FrontProperties, LenProperties DEF OneAhead, TypeInv, TypeOK
  <1>2. /\ Len(Front(h)) <= Len(hub) /\ Len(hub) \in Nat /\ DOMAIN hub = 1..Len(hub)
        /\ \A i \in 1..Len(Front(h)) : Front(h)[i] = hub[i]
    <2>1. IsPrefix(Front(h), hub)
      BY DEF OneAhead
    <2>2. Len(hub) \in Nat /\ DOMAIN hub = 1..Len(hub)
      BY <1>1, LenProperties
    <2>3. QED
      BY <1>1, <2>1, <2>2, PrefixCharacterization
  <1>3. ASSUME NEW i \in DOMAIN h
        PROVE  h[i].id \in HubIds \cup {LastId(h)}
    <2>1. CASE i = Len(h)
      BY <2>1 DEF LastId
    <2>2. CASE i # Len(h)
      <3>1. i \in 1..(Len(h) - 1) /\ i \in DOMAIN hub
        BY <1>1, <1>2, <2>2
      <3>2. h[i] = hub[i]
        BY <1>1, <1>2, <3>1
      <3>3. QED
        BY <3>1, <3>2 DEF HubIds
    <2>3. QED
      BY <2>1, <2>2
  <1>4. QED
    BY <1>3 DEF HubIds

\* Operations that run have identities of their own.
LEMMA RunningIds ==
  ASSUME TypeInv, Fate, NEW w \in Writers, pc[w] # "idle"
  PROVE  /\ op[w].id = <<w, count[w]>> /\ count[w] \in Nat
         /\ op[w].id \in OpId /\ op[w].id # Genesis
         /\ \A v \in Writers \ {w} : pc[v] # "idle" => op[v].id # op[w].id
  <1>1. \A v \in Writers : pc[v] # "idle" => op[v].id = <<v, count[v]>>
    BY DEF Fate, Fated
  <1>2. \A v \in Writers : count[v] \in Nat
    BY DEF TypeInv, TypeOK
  <1>3. op[w].id = <<w, count[w]>> /\ op[w].id \in OpId
    <2>1. op[w].id = <<w, count[w]>>
      BY <1>1
    <2>2. count[w] \in Nat
      BY <1>2
    <2>3. <<w, count[w]>> \in OpId
      BY <2>2 DEF OpId
    <2>4. QED
      BY <2>1, <2>3
  <1>4. op[w].id # Genesis
    BY <1>3, LedgerAssumption DEF OpId
  <1>5. QED
    BY <1>1, <1>2, <1>3, <1>4

\* What was not pushed is neither on the hub nor on its way.
LEMMA UnpushedIsNowhere ==
  ASSUME TypeInv, Fate, NEW w \in Writers, pc[w] \in Unpushed
  PROVE  op[w].id \notin HubIds /\ \A h \in inflight : LastId(h) # op[w].id
  <1>1. op[w].id \notin hist.pushed /\ op[w].id # Genesis
    BY RunningIds DEF Fate, Fated, Unpushed
  <1>2. QED
    BY <1>1 DEF Fate, PublishedByItsOwnPush

LEMMA QuietKeeps ==
  ASSUME TypeInv, TypeInv', Fate, NEW w \in Writers, OthersStay(w),
         Begins(w) \/ GoesOn(w) \/ Ends(w)
  PROVE  Fate'
  <1>1. /\ hub' = hub /\ inflight' = inflight /\ HubIds' = HubIds
        /\ hist'.pushed = hist.pushed /\ hist'.denied = hist.denied
    BY DEF Begins, GoesOn, Ends, Quiet, netVars, HubIds
  <1>2. count \in [Writers -> Nat] /\ count' \in [Writers -> Nat]
    BY DEF TypeInv, TypeOK
  <1>3. \A v \in Writers : count[v] <= count'[v]
    <2>1. count'[w] = count[w] + 1 \/ count' = count
      BY DEF Begins, GoesOn, Ends
    <2>2. QED
      BY <1>2, <2>1 DEF OthersStay
  <1>4. Counted'
    <2>1. ASSUME NEW v \in Writers, NEW n \in Nat,
                 <<v, n>> \in hist'.pushed \cup hist'.denied
          PROVE  n <= count'[v]
      <3>1. n <= count[v]
        BY <1>1, <2>1 DEF Fate, Counted
      <3>2. QED
        BY <1>2, <1>3, <3>1
    <2>2. QED
      BY <1>1, <2>1 DEF Fate, Counted
  <1>5. ASSUME NEW v \in Writers PROVE Fated(v)'
    <2>1. CASE v # w
      BY <1>1, <2>1 DEF OthersStay, Fate, Fated, Settled
    <2>2. CASE v = w /\ Begins(w)
      <3>1. /\ pc'[w] = "pull" /\ op'[w].id = <<w, count[w] + 1>>
            /\ count'[w] = count[w] + 1 /\ count[w] + 1 \in Nat
        BY <1>2, <2>2 DEF Begins
      <3>2. <<w, count[w] + 1>> \notin hist.pushed \cup hist.denied
        <4>1. ~(count[w] + 1 <= count[w])
          BY <1>2
        <4>2. QED
          BY <3>1, <4>1 DEF Fate, Counted
      <3>3. QED
        BY <1>1, <2>2, <3>1, <3>2 DEF Fated
    <2>3. CASE v = w /\ GoesOn(w)
      <3>1. /\ pc[w] \in Unpushed /\ pc'[w] \in Unpushed
            /\ op'[w].id = op[w].id /\ count' = count
        BY <2>3 DEF GoesOn
      <3>2. pc[w] # "idle" /\ pc'[w] # "readback"
        BY <3>1 DEF Unpushed
      <3>3. QED
        BY <1>1, <2>3, <3>1, <3>2 DEF Fate, Fated
    <2>4. CASE v = w /\ Ends(w)
      BY <2>4 DEF Ends, Fated, Unpushed
    <2>5. QED
      BY <2>1, <2>2, <2>3, <2>4
  <1>6. QED
    BY <1>1, <1>4, <1>5 DEF Fate, PublishedByItsOwnPush, DeniedNeverOnHub

LEMMA DeniesKeeps ==
  ASSUME TypeInv, TypeInv', Fate, NEW w \in Writers, OthersStay(w), Denies(w)
  PROVE  Fate'
  <1>1. /\ hub' = hub /\ inflight' = inflight /\ HubIds' = HubIds /\ count' = count
        /\ hist'.pushed = hist.pushed /\ hist'.denied = hist.denied \cup {op[w].id}
        /\ pc[w] # "idle" /\ pc'[w] = "idle"
    BY DEF Denies, netVars, HubIds
  <1>2. op[w].id \notin HubIds /\ \A h \in inflight : LastId(h) # op[w].id
    <2>1. CASE pc[w] \in {"pull", "check"}
      BY <2>1, UnpushedIsNowhere DEF Unpushed
    <2>2. CASE pc[w] = "readback" /\ op[w].finished /\ ~IsPrefix(op[w].head, hub)
      BY <2>2 DEF Fate, Fated, Settled
    <2>3. QED
      BY <2>1, <2>2 DEF Denies
  <1>3. Counted'
    <2>1. op[w].id \in OpId /\ op[w].id = <<w, count[w]>> /\ count[w] \in Nat
      BY <1>1, RunningIds
    <2>2. ASSUME NEW v \in Writers, NEW n \in Nat,
                 <<v, n>> \in hist'.pushed \cup hist'.denied
          PROVE  n <= count'[v]
      <3>1. CASE <<v, n>> = <<w, count[w]>>
        <4>1. v = w /\ n = count[w]
          BY <3>1
        <4>2. QED
          BY <1>1, <2>1, <4>1
      <3>2. CASE <<v, n>> \in hist.pushed \cup hist.denied
        BY <1>1, <3>2 DEF Fate, Counted
      <3>3. QED
        BY <1>1, <2>1, <2>2, <3>1, <3>2
    <2>3. QED
      BY <1>1, <2>1, <2>2 DEF Fate, Counted
  <1>4. ASSUME NEW v \in Writers PROVE Fated(v)'
    <2>1. CASE v = w
      BY <1>1, <2>1 DEF Fated, Unpushed
    <2>2. CASE v # w
      <3>1. /\ pc'[v] = pc[v] /\ op'[v] = op[v] /\ Fated(v)
            /\ pc[v] # "idle" => op[v].id # op[w].id
        BY <1>1, <2>2, RunningIds DEF OthersStay, Fate
      <3>2. QED
        BY <1>1, <3>1 DEF Fated, Settled
    <2>3. QED
      BY <2>1, <2>2
  <1>5. QED
    BY <1>1, <1>2, <1>3, <1>4 DEF Fate, PublishedByItsOwnPush, DeniedNeverOnHub

\* An identity that starts its push is counted.
LEMMA CountedWithPush ==
  ASSUME TypeInv, Fate, NEW w \in Writers, pc[w] # "idle", count' = count,
         hist'.pushed = hist.pushed \cup {op[w].id}, hist'.denied = hist.denied
  PROVE  Counted'
  <1>1. op[w].id \in OpId /\ op[w].id = <<w, count[w]>> /\ count[w] \in Nat
    BY RunningIds
  <1>2. ASSUME NEW v \in Writers, NEW n \in Nat,
               <<v, n>> \in hist'.pushed \cup hist'.denied
        PROVE  n <= count'[v]
    <2>1. CASE <<v, n>> = <<w, count[w]>>
      <3>1. v = w /\ n = count[w]
        BY <2>1
      <3>2. QED
        BY <1>1, <3>1
    <2>2. CASE <<v, n>> \in hist.pushed \cup hist.denied
      BY <2>2 DEF Fate, Counted
    <2>3. QED
      BY <1>1, <1>2, <2>1, <2>2
  <1>3. QED
    BY <1>1, <1>2 DEF Fate, Counted

LEMMA PushesKeeps ==
  ASSUME IInv, TypeInv', Fate, NEW w \in Writers, OthersStay(w), Pushes(w)
  PROVE  Fate'
  <1> DEFINE h == branch[CloneOf[w]]
             id == op[w].id
  <1>1. /\ pc[w] = "push" /\ count' = count
        /\ hist'.pushed = hist.pushed \cup {id} /\ hist'.denied = hist.denied
        /\ hub' = hub \/ (hub' = h /\ IsPrefix(hub, h))
        /\ inflight' \subseteq inflight \cup {h}
    BY DEF Pushes
  <1>2. /\ TypeInv /\ hub \in Seq(Commit) /\ hub' \in Seq(Commit) /\ h \in Seq(Commit)
    BY Typed DEF IInv, TypeInv, TypeOK
  <1>3. OneAhead(h) /\ LastId(h) = id
    BY <1>1 DEF IInv, Proper, LastId
  <1>4. /\ id \notin hist.pushed /\ id \notin hist.denied
        /\ id \notin HubIds /\ \A g \in inflight : LastId(g) # id
    BY <1>1, <1>2, UnpushedIsNowhere DEF Fate, Fated, Unpushed
  <1>5. HubIds' \subseteq HubIds \cup {id}
    <2>1. CASE hub' = hub
      BY <2>1 DEF HubIds
    <2>2. CASE hub' = h /\ IsPrefix(hub, h)
      BY <1>2, <1>3, <2>2, AcceptedIds
    <2>3. QED
      BY <1>1, <2>1, <2>2
  <1>6. IsPrefix(hub, hub')
    BY <1>1, <1>2, PrefixReflexive
  <1>7. Counted'
    BY <1>1, <1>2, CountedWithPush
  <1>8. ASSUME NEW v \in Writers PROVE Fated(v)'
    <2>1. CASE v # w
      <3>1. /\ pc'[v] = pc[v] /\ op'[v] = op[v] /\ Fated(v)
            /\ pc[v] # "idle" => op[v].id # id
        BY <1>1, <1>2, <2>1, RunningIds DEF OthersStay, Fate
      <3>2. ASSUME pc[v] = "readback", op[v].finished PROVE Settled(v)'
        <4>1. Settled(v) /\ op[v].id # id
          BY <3>1, <3>2 DEF Fated
        <4>2. \A g \in inflight' : LastId(g) # op[v].id
          BY <1>1, <1>3, <4>1 DEF Settled
        <4>3. op[v].head \in Seq(Commit)
          BY <1>2 DEF TypeInv, TypeOK, Op
        <4>4. ASSUME op[v].id \in HubIds' PROVE IsPrefix(op[v].head, hub')
          <5>1. IsPrefix(op[v].head, hub)
            BY <1>5, <4>1, <4>4 DEF Settled
          <5>2. QED
            BY <1>2, <1>6, <4>3, <5>1, PrefixTransitive
        <4>5. QED
          BY <3>1, <4>2, <4>4 DEF Settled
      <3>3. op[v].id \notin hist.pushed => op[v].id \notin hist'.pushed \/ op[v].id = id
        BY <1>1
      <3>4. pc[v] \in Unpushed => pc[v] # "idle"
        BY DEF Unpushed
      <3>5. QED
        BY <1>1, <3>1, <3>2, <3>3, <3>4 DEF Fated
    <2>2. CASE v = w /\ pc'[w] = "idle"
      BY <2>2 DEF Fated, Unpushed
    <2>3. CASE /\ v = w /\ pc'[w] = "readback" /\ op'[w].id = id /\ op'[w].head = h
               /\ op'[w].finished => inflight' = inflight
      <3>1. id \in HubIds' => IsPrefix(h, hub')
        <4>1. CASE hub' = hub
          BY <1>4, <4>1 DEF HubIds
        <4>2. CASE hub' = h
          BY <1>2, <4>2, PrefixReflexive
        <4>3. QED
          BY <1>1, <4>1, <4>2
      <3>2. op'[w].finished => Settled(w)'
        BY <1>4, <2>3, <3>1 DEF Settled
      <3>3. id = <<w, count[w]>>
        BY <1>1, <1>2, RunningIds
      <3>4. QED
        BY <1>1, <1>4, <2>3, <3>2, <3>3 DEF Fated, Unpushed
    <2>4. QED
      BY <2>1, <2>2, <2>3 DEF Pushes
  <1>9. PublishedByItsOwnPush' /\ DeniedNeverOnHub'
    BY <1>1, <1>4, <1>5 DEF Fate, PublishedByItsOwnPush, DeniedNeverOnHub
  <1>10. \A g \in inflight' : LastId(g) \in hist'.pushed /\ LastId(g) \notin hist'.denied
    BY <1>1, <1>3, <1>4 DEF Fate
  <1>11. QED
    BY <1>7, <1>8, <1>9, <1>10 DEF Fate

LEMMA LandKeepsFate ==
  ASSUME IInv, TypeInv', Fate, Land
  PROVE  Fate'
  <1>1. PICK h \in inflight : IsStrictPrefix(hub, h) /\ hub' = h /\ inflight' = inflight \ {h}
    BY DEF Land
  <1>2. /\ UNCHANGED <<pc, op, count, hist>> /\ TypeInv /\ IsPrefix(hub, h)
        /\ hub \in Seq(Commit) /\ h \in Seq(Commit) /\ OneAhead(h)
    BY <1>1 DEF Land, IsStrictPrefix, IInv, TypeInv, TypeOK
  <1>3. HubIds' \subseteq HubIds \cup {LastId(h)}
    BY <1>1, <1>2, AcceptedIds
  <1>4. LastId(h) \in hist.pushed /\ LastId(h) \notin hist.denied
    BY DEF Fate
  <1>5. ASSUME NEW v \in Writers PROVE Fated(v)'
    <2>1. ASSUME Settled(v) PROVE Settled(v)'
      <3>1. op[v].head \in Seq(Commit)
        BY <1>2 DEF TypeInv, TypeOK, Op
      <3>2. op[v].id \in HubIds' => IsPrefix(op[v].head, hub)
        BY <1>3, <2>1 DEF Settled
      <3>3. IsPrefix(op[v].head, hub) => IsPrefix(op[v].head, hub')
        BY <1>1, <1>2, <3>1, PrefixTransitive
      <3>4. QED
        BY <1>1, <1>2, <2>1, <3>2, <3>3 DEF Settled
    <2>2. QED
      BY <1>2, <2>1 DEF Fate, Fated
  <1>6. Counted'
    BY <1>2 DEF Fate, Counted
  <1>7. PublishedByItsOwnPush' /\ DeniedNeverOnHub'
    BY <1>2, <1>3, <1>4 DEF Fate, PublishedByItsOwnPush, DeniedNeverOnHub
  <1>8. QED
    BY <1>1, <1>2, <1>5, <1>6, <1>7 DEF Fate

LEMMA FateInvariant == OneWriterPerClone /\ Spec => []Fate
  <1>1. SUFFICES ASSUME OneWriterPerClone PROVE Spec => []Fate
    OBVIOUS
  <1>2. Init => Fate
    <2> SUFFICES ASSUME Init PROVE Fate
      OBVIOUS
    <2>1. HubIds = {Genesis}
      <3>1. hub = <<RootCommit>> /\ DOMAIN hub = {1} /\ hub[1] = RootCommit
        BY DEF Init
      <3>2. QED
        BY <3>1 DEF HubIds, RootCommit
    <2>2. QED
      BY <2>1 DEF Init, Fate, Counted, Fated, Unpushed, PublishedByItsOwnPush,
        DeniedNeverOnHub
  <1>3. IInv /\ [Next]_vars => IInv'
    BY <1>1, NextKeeps
  <1>4. IInv /\ IInv' /\ Fate /\ [Next]_vars => Fate'
    <2> SUFFICES ASSUME IInv, IInv', Fate, [Next]_vars PROVE Fate'
      OBVIOUS
    <2>0. TypeInv /\ TypeInv'
      BY DEF IInv
    <2>1. CASE UNCHANGED vars
      BY <2>1 DEF vars, netVars, Fate, Counted, Fated, Settled, PublishedByItsOwnPush,
        DeniedNeverOnHub, HubIds
    <2>2. CASE Land
      BY <2>0, <2>2, LandKeepsFate
    <2>3. ASSUME NEW w \in Writers,
                 BeginAppend(w) \/ BeginAcquire(w) \/ BeginRelease(w) \/ Step(w) \/ Crash(w)
          PROVE  Fate'
      BY <2>0, <2>3, StepEffect, QuietKeeps, DeniesKeeps, PushesKeeps
    <2>4. QED
      BY <2>1, <2>2, <2>3 DEF Next
  <1>5. QED
    BY <1>2, <1>3, <1>4, InitEstablishes, PTL DEF Spec

\* Whoever was told that nothing was recorded finds nothing on the hub, however late
\* a push is delivered, for all writers with clones of their own.
THEOREM DeniedStaysAway == OneWriterPerClone /\ Spec => []DeniedNeverOnHub
  <1>1. Fate => DeniedNeverOnHub
    BY DEF Fate
  <1>2. QED
    BY <1>1, FateInvariant, PTL

\* Nothing reaches the hub but by its own push: what a dead command left in a clone
\* is never carried along by the next one.
THEOREM NothingIsCarriedAlong == OneWriterPerClone /\ Spec => []PublishedByItsOwnPush
  <1>1. Fate => PublishedByItsOwnPush
    BY DEF Fate
  <1>2. QED
    BY <1>1, FateInvariant, PTL

----------------------------------------------------------------------------
\* No commit is thrown away

\* What is put back after a push is what the branch was before its commit.
Behind(w) ==
  pc[w] \in {"push", "readback"} => IsPrefix(op[w].before, branch[CloneOf[w]])

Kept == NothingLost /\ \A w \in Writers : Behind(w)

\* What a step leaves behind is kept in its clone or is on the hub.
LeavesNothing ==
  /\ \A d \in Clones : unpublished[d] \subseteq unpublished'[d]
  /\ \A d \in Clones : ToSet(branch[d]) \subseteq
                         unpublished'[d] \cup ToSet(branch'[d]) \cup ToSet(hub)
  /\ \A m \in hist'.made : m \in hist.made \/ \E d \in Clones : m \in ToSet(branch'[d])

LEMMA PrefixMembers ==
  ASSUME NEW S, NEW s \in Seq(S), NEW t \in Seq(S), IsPrefix(s, t)
  PROVE  ToSet(s) \subseteq ToSet(t)
  <1>1. /\ DOMAIN s = 1..Len(s) /\ DOMAIN t = 1..Len(t)
        /\ Len(s) \in Nat /\ Len(t) \in Nat
    BY LenProperties
  <1>2. Len(s) <= Len(t) /\ \A i \in 1..Len(s) : s[i] = t[i]
    BY PrefixCharacterization
  <1>3. \A i \in DOMAIN s : i \in DOMAIN t /\ s[i] = t[i]
    BY <1>1, <1>2
  <1>4. QED
    BY <1>3 DEF ToSet

LEMMA NothingLostKept ==
  ASSUME TypeInv, TypeInv', NothingLost, LeavesNothing, IsPrefix(hub, hub')
  PROVE  NothingLost'
  <1>1. ToSet(hub) \subseteq ToSet(hub')
    BY PrefixMembers DEF TypeInv, TypeOK
  <1> SUFFICES ASSUME NEW m \in hist'.made
               PROVE  \/ m \in ToSet(hub')
                      \/ \E c \in Clones : m \in unpublished'[c] \cup ToSet(branch'[c])
    BY DEF NothingLost, ToSet
  <1>2. CASE m \in hist.made
    <2>1. \/ m \in ToSet(hub)
          \/ \E c \in Clones : m \in unpublished[c] \cup ToSet(branch[c])
      BY <1>2 DEF NothingLost, ToSet
    <2>2. QED
      BY <1>1, <2>1 DEF LeavesNothing
  <1>3. CASE \E d \in Clones : m \in ToSet(branch'[d])
    BY <1>3
  <1>4. QED
    BY <1>2, <1>3 DEF LeavesNothing

\* A clone put back to a history that its branch extends keeps the rest.
LEMMA QuarantineLeavesNothing ==
  ASSUME TypeInv, NEW c \in Clones, NEW h \in Seq(Commit), IsPrefix(h, branch[c]),
         Quarantine(c, h), hist'.made = hist.made
  PROVE  LeavesNothing
  <1> DEFINE rest == {branch[c][i] : i \in (Len(h)+1)..Len(branch[c])}
  <1>1. /\ branch[c] \in Seq(Commit) /\ branch \in [Clones -> Seq(Commit)]
        /\ unpublished \in [Clones -> SUBSET Commit]
    BY DEF TypeInv, TypeOK
  <1>2. unpublished' = [unpublished EXCEPT ![c] = unpublished[c] \cup rest]
    BY DEF Quarantine, Keep
  <1>3. branch' = branch \/ branch' = [branch EXCEPT ![c] = h]
    BY DEF Quarantine, MoveTo
  <1>4. ToSet(branch[c]) \subseteq rest \cup ToSet(h)
    <2>1. /\ Len(h) \in Nat /\ Len(branch[c]) \in Nat
          /\ DOMAIN h = 1..Len(h) /\ DOMAIN branch[c] = 1..Len(branch[c])
      BY <1>1, LenProperties
    <2>2. Len(h) <= Len(branch[c]) /\ \A i \in 1..Len(h) : h[i] = branch[c][i]
      BY <1>1, PrefixCharacterization
    <2>3. ASSUME NEW i \in DOMAIN branch[c]
          PROVE  branch[c][i] \in rest \cup ToSet(h)
      <3>1. CASE i \in 1..Len(h)
        BY <2>1, <2>2, <3>1 DEF ToSet
      <3>2. CASE i \in (Len(h)+1)..Len(branch[c])
        BY <3>2
      <3>3. QED
        BY <2>1, <3>1, <3>2
    <2>4. QED
      BY <2>3 DEF ToSet
  <1> HIDE DEF rest
  <1>5. \A d \in Clones : unpublished[d] \subseteq unpublished'[d]
    BY <1>1, <1>2
  <1>6. rest \subseteq unpublished'[c]
    BY <1>1, <1>2
  <1>7. ASSUME NEW d \in Clones
        PROVE  ToSet(branch[d]) \subseteq unpublished'[d] \cup ToSet(branch'[d])
    <2>1. CASE branch'[d] = branch[d]
      BY <2>1
    <2>2. CASE d = c /\ branch'[d] = h
      BY <1>4, <1>6, <2>2
    <2>3. QED
      BY <1>1, <1>3, <2>1, <2>2
  <1>8. QED
    BY <1>5, <1>7 DEF LeavesNothing

LEMMA StillLeavesNothing ==
  ASSUME UNCHANGED <<branch, unpublished>>, hist'.made = hist.made
  PROVE  LeavesNothing
  BY DEF LeavesNothing

\* A step of a writer throws no commit away, and moves no clone but its own.
KeepsCommits(w) == LeavesNothing /\ OthersKept(CloneOf[w]) /\ Behind(w)'

\* An operation that ends is behind nothing.
LEMMA EndedIsBehind ==
  ASSUME TypeInv, NEW w \in Writers,
         Deny(w) \/ \E ok \in BOOLEAN : Finish(w, ok) /\ UNCHANGED hist
  PROVE  Behind(w)' /\ hist'.made = hist.made
  <1>1. PICK ok \in BOOLEAN : Finish(w, ok)
    BY DEF Deny
  <1>2. hist'.made = hist.made
    BY DEF Deny, TypeInv, TypeOK, History
  <1>3. QED
    BY <1>1, <1>2, FinishEffect DEF Behind

LEMMA PullKeepsCommits ==
  ASSUME IInv, NEW w \in Writers, Pull(w)
  PROVE  KeepsCommits(w)
  <1> DEFINE c == CloneOf[w]
  <1>1. /\ TypeInv /\ c \in Clones /\ hub \in Seq(Commit) /\ hub # <<>>
        /\ branch[c] \in Seq(Commit)
    BY Typed DEF IInv, TypeInv, TypeOK, NonEmpty
  <1>2. CASE Deny(w) /\ UNCHANGED cloneVars
    BY <1>1, <1>2, EndedIsBehind, StillLeavesNothing DEF KeepsCommits, OthersKept, cloneVars
  <1>3. CASE /\ MoveTo(c, hub) /\ Goto(w, "check") /\ UNCHANGED <<unpublished, hist>>
             /\ IsPrefix(branch[c], hub)
    <2>1. branch' = [branch EXCEPT ![c] = hub] /\ OthersKept(c)
      BY <1>3 DEF MoveTo, OthersKept, IInv, TypeInv, TypeOK
    <2>2. ToSet(branch[c]) \subseteq ToSet(hub)
      BY <1>1, <1>3, PrefixMembers
    <2>3. \A d \in Clones : branch'[d] = branch[d] \/ d = c
      BY <2>1 DEF OthersKept
    <2>4. LeavesNothing
      BY <1>3, <2>2, <2>3 DEF LeavesNothing
    <2>5. pc'[w] = "check"
      BY <1>3 DEF Goto, IInv, TypeInv, TypeOK
    <2>6. QED
      BY <2>1, <2>4, <2>5 DEF KeepsCommits, Behind
  <1>4. CASE PullQuarantines(w)
    <2>1. Quarantine(c, hub) /\ Deny(w) /\ IsPrefix(hub, branch[c])
      BY <1>4 DEF PullQuarantines, IsStrictPrefix
    <2>2. QED
      BY <1>1, <2>1, EndedIsBehind, QuarantineLeavesNothing, QuarantineLocal
      DEF KeepsCommits
  <1>5. QED
    BY <1>2, <1>3, <1>4 DEF Pull, PullRefused, PullForward, PullDiverged, cloneVars

LEMMA CommitKeepsCommits ==
  ASSUME IInv, NEW w \in Writers, MakeCommit(w) \/ CommitFails(w)
  PROVE  KeepsCommits(w)
  <1> DEFINE c == CloneOf[w]
             h == Append(branch[c], NewCommit(w))
  <1>1. /\ TypeInv /\ c \in Clones /\ branch[c] \in Seq(Commit)
        /\ NewCommit(w) \in Commit /\ Len(branch[c]) \in Nat
    BY Typed, StagedTyped DEF IInv, TypeInv, TypeOK
  <1>2. CASE MakeCommit(w)
    <2>1. /\ branch' = [branch EXCEPT ![c] = h] /\ UNCHANGED <<tree, unpublished>>
          /\ index' = [index EXCEPT ![c] = Staged(w)]
          /\ op' = [op EXCEPT ![w] = [op[w] EXCEPT !.before = branch[c]]]
          /\ hist' = [hist EXCEPT !.made = hist.made \cup {NewCommit(w)}]
      BY <1>2 DEF MakeCommit
    <2>2. /\ h \in Seq(Commit) /\ IsPrefix(branch[c], h)
          /\ Len(h) = Len(branch[c]) + 1 /\ h[Len(h)] = NewCommit(w)
      BY <1>1, FrontOfAppend, PrefixOfAppend
    <2> HIDE DEF h
    <2>3. ToSet(branch[c]) \subseteq ToSet(h)
      BY <1>1, <2>2, PrefixMembers
    <2>4. NewCommit(w) \in ToSet(h)
      <3>1. Len(h) \in DOMAIN h
        BY <1>1, <2>2, LenProperties
      <3>2. QED
        BY <2>2, <3>1 DEF ToSet
    <2>5. branch'[c] = h /\ OthersKept(c)
      BY <1>1, <2>1 DEF OthersKept, IInv, TypeInv, TypeOK
    <2>6. hist'.made = hist.made \cup {NewCommit(w)}
      BY <2>1 DEF IInv, TypeInv, TypeOK, History
    <2>7. LeavesNothing
      BY <1>1, <2>1, <2>3, <2>4, <2>5, <2>6 DEF LeavesNothing, OthersKept
    <2>8. op'[w].before = branch[c]
      BY <2>1 DEF IInv, TypeInv, TypeOK, Op
    <2>9. QED
      BY <2>2, <2>5, <2>7, <2>8 DEF KeepsCommits, Behind
  <1>3. CASE CommitFails(w)
    <2>1. /\ Finish(w, FALSE) /\ UNCHANGED hist /\ UNCHANGED <<branch, unpublished>>
          /\ OthersKept(c)
      BY <1>3 DEF CommitFails, Raise, OthersKept, IInv, TypeInv, TypeOK
    <2>2. QED
      BY <1>1, <2>1, EndedIsBehind, StillLeavesNothing DEF KeepsCommits
  <1>4. QED
    BY <1>2, <1>3

LEMMA PushKeepsCommits ==
  ASSUME IInv, NEW w \in Writers, Push(w), Behind(w)
  PROVE  KeepsCommits(w)
  <1>1. /\ pc[w] = "push" /\ UNCHANGED cloneVars /\ TypeInv
    BY PushMoves DEF IInv
  <1>2. hist'.made = hist.made
    BY <1>1, StartedPushEffect DEF Push, PushAccepted, PushRejected, PushReplyLost,
      PushKilled, PushNotConfirmed, History
  <1>3. ASSUME Finish(w, TRUE) PROVE Behind(w)'
    <2>1. pc'[w] = "idle"
      BY <1>1, <1>3, FinishEffect
    <2>2. QED
      BY <2>1 DEF Behind
  <1>4. ASSUME NEW finished \in BOOLEAN, PushNotConfirmed(w, finished)
        PROVE  Behind(w)'
    <2>1. op'[w] = [op[w] EXCEPT !.head = branch[CloneOf[w]], !.finished = finished]
      BY <1>4 DEF PushNotConfirmed, IInv, TypeInv, TypeOK
    <2>2. op[w] \in Op
      BY <1>1 DEF TypeInv, TypeOK
    <2>3. op'[w].before = op[w].before
      BY <2>1, <2>2 DEF Op
    <2>4. IsPrefix(op[w].before, branch[CloneOf[w]]) /\ branch' = branch
      BY <1>1 DEF Behind, cloneVars
    <2>5. QED
      BY <2>3, <2>4 DEF Behind
  <1>5. Behind(w)'
    BY <1>3, <1>4, PushMoves
  <1>6. LeavesNothing
    BY <1>1, <1>2, StillLeavesNothing DEF cloneVars
  <1>7. OthersKept(CloneOf[w])
    BY <1>1 DEF OthersKept, cloneVars
  <1>8. QED
    BY <1>5, <1>6, <1>7 DEF KeepsCommits

LEMMA ReadBackKeepsCommits ==
  ASSUME IInv, NEW w \in Writers, ReadBack(w), Behind(w)
  PROVE  KeepsCommits(w)
  <1> DEFINE c == CloneOf[w]
  <1>1. TypeInv /\ c \in Clones /\ op[w].before \in Seq(Commit)
    BY Typed DEF IInv, TypeInv, TypeOK, Op
  <1>2. CASE ReadBackAccepted(w)
    <2>1. /\ Finish(w, TRUE) /\ UNCHANGED cloneVars /\ hist'.made = hist.made
      BY <1>1, <1>2 DEF ReadBackAccepted, Succeed, TypeInv, TypeOK, History
    <2>2. QED
      BY <1>1, <2>1, FinishEffect, StillLeavesNothing
      DEF KeepsCommits, Behind, OthersKept, cloneVars
  <1>3. CASE ReadBackAbsent(w) \/ ReadBackUnreadable(w)
    <2>1. /\ Quarantine(c, op[w].before) /\ IsPrefix(op[w].before, branch[c])
          /\ Deny(w) \/ \E ok \in BOOLEAN : Finish(w, ok) /\ UNCHANGED hist
      BY <1>3 DEF ReadBackAbsent, ReadBackUnreadable, Raise, Behind
    <2>2. QED
      BY <1>1, <2>1, EndedIsBehind, QuarantineLeavesNothing, QuarantineLocal
      DEF KeepsCommits
  <1>4. QED
    BY <1>2, <1>3 DEF ReadBack

LEMMA OtherStepsKeepCommits ==
  ASSUME IInv, NEW w \in Writers,
         \/ BeginAppend(w) \/ BeginAcquire(w) \/ BeginRelease(w) \/ Crash(w)
         \/ CheckHead(w) \/ CheckAcquire(w) \/ CheckRelease(w) \/ Write(w)
  PROVE  KeepsCommits(w)
  <1>1. UNCHANGED <<branch, unpublished>> /\ OthersKept(CloneOf[w])
    BY DEF BeginAppend, BeginAcquire, BeginRelease, Begin, Crash, CheckHead,
      CheckAcquire, CheckRelease, Write, cloneVars, OthersKept, IInv, TypeInv, TypeOK
  <1>2. hist'.made = hist.made
    BY StartedPushEffect DEF BeginAppend, BeginAcquire, BeginRelease, Begin, Crash,
      CheckHead, CheckAcquire, CheckRelease, Write, Deny, IInv, TypeInv, TypeOK, History
  <1>3. pc'[w] \notin {"push", "readback"}
    <2>1. TypeInv
      BY DEF IInv
    <2>2. CASE BeginAppend(w) \/ BeginAcquire(w) \/ BeginRelease(w)
      BY <2>1, <2>2, BeginEffect DEF Begins
    <2>3. CASE Crash(w) \/ Write(w)
      BY <2>1, <2>3 DEF Crash, Write, Goto, TypeInv, TypeOK
    <2>4. CASE CheckHead(w) \/ CheckAcquire(w) \/ CheckRelease(w)
      BY <2>1, <2>4 DEF CheckHead, CheckAcquire, CheckRelease, Deny, Finish, Goto,
        TypeInv, TypeOK
    <2>5. QED
      BY <2>2, <2>3, <2>4
  <1>4. QED
    BY <1>1, <1>2, <1>3, StillLeavesNothing DEF KeepsCommits, Behind

LEMMA KeptInvariant ==
  ASSUME OneWriterPerClone, IInv, IInv', Kept, [Next]_vars
  PROVE  Kept'
  <1>1. TypeInv /\ TypeInv' /\ hub \in Seq(Commit)
    BY DEF IInv, TypeInv, TypeOK
  <1>2. IsPrefix(hub, hub')
    BY <1>1, HubMoves, PrefixReflexive
  <1>3. CASE UNCHANGED <<cloneVars, pc, op, hist>>
    <2>1. LeavesNothing
      BY <1>3, StillLeavesNothing DEF cloneVars
    <2>2. QED
      BY <1>1, <1>2, <1>3, <2>1, NothingLostKept DEF Kept, Behind, cloneVars
  <1>4. ASSUME NEW w \in Writers,
               BeginAppend(w) \/ BeginAcquire(w) \/ BeginRelease(w) \/ Step(w) \/ Crash(w)
        PROVE  Kept'
    <2>1. KeepsCommits(w)
      BY <1>4, PullKeepsCommits, CommitKeepsCommits, PushKeepsCommits,
         ReadBackKeepsCommits, OtherStepsKeepCommits DEF Step, Kept
    <2>2. OthersStay(w)
      BY <1>4, StepEffect
    <2>3. ASSUME NEW v \in Writers PROVE Behind(v)'
      <3>1. CASE v = w
        BY <2>1, <3>1 DEF KeepsCommits
      <3>2. CASE v # w
        <4>1. CloneOf[v] \in Clones \ {CloneOf[w]}
          BY <3>2, Typed DEF OneWriterPerClone
        <4>2. QED
          BY <2>1, <2>2, <3>2, <4>1 DEF KeepsCommits, OthersKept, OthersStay, Kept, Behind
      <3>3. QED
        BY <3>1, <3>2
    <2>4. QED
      BY <1>1, <1>2, <2>1, <2>3, NothingLostKept DEF KeepsCommits, Kept
  <1>5. QED
    BY <1>3, <1>4 DEF Next, Land, vars

\* Every commit that was ever made is on the hub, on its clone's branch or under
\* refs/dx/unpublished/, for all writers with clones of their own.
THEOREM CommitsAreKept == OneWriterPerClone /\ Spec => []NothingLost
  <1>1. SUFFICES ASSUME OneWriterPerClone PROVE Spec => []NothingLost
    OBVIOUS
  <1>2. Init => Kept
    BY DEF Init, Kept, NothingLost, Behind
  <1>3. IInv /\ [Next]_vars => IInv'
    BY <1>1, NextKeeps
  <1>4. IInv /\ IInv' /\ Kept /\ [Next]_vars => Kept'
    BY <1>1, KeptInvariant
  <1>5. Kept => NothingLost
    BY DEF Kept
  <1>6. QED
    BY <1>2, <1>3, <1>4, <1>5, InitEstablishes, PTL DEF Spec

-----------------------------------------------------------------------------
(***************************************************************************)
(* Whoever is inside a merge section, the hub's lock names that task, but   *)
(* for the ways out that SectionIsLocked names, when each writer has a       *)
(* clone and tasks of its own.                                               *)
(*                                                                         *)
(* The argument: the lock of a task is written by its own writer only, so    *)
(* the history a writer last agreed on with the hub tells of its own lock    *)
(* what the hub says, until the writer itself takes it away; another writer  *)
(* takes it away only if its own lock was lost to a late release before.     *)
(***************************************************************************)
\* The inductive invariant

AtPush(w) == pc[w] \in {"push", "readback"}

\* The history a writer goes back to if its operation fails.
Base(w) == IF AtPush(w) THEN op[w].before ELSE branch[CloneOf[w]]

\* A commit that waits for the hub, by the kind of its operation.
Waiting(w) ==
  LET c == CloneOf[w]
      h == branch[c]
      b == op[w].before
  IN  /\ Front(h) = b /\ IsPrefix(b, hub) /\ LastId(h) = op[w].id
      /\ op[w].kind = "ROW" => /\ LastTree(h).lock = LastTree(b).lock
                               /\ tree[c].rows = LastTree(h).rows
      /\ op[w].kind = "LOCK" => LastTree(b).lock = Free /\ LastTree(h).lock = op[w].task
      /\ op[w].kind = "UNLOCK" => /\ LastTree(b).lock # Free
                                  /\ LastTree(h).lock = Free /\ tree[c].lock = Free
      /\ pc[w] = "readback" => op[w].head = h

Role(w) ==
  /\ held[w] # Free => held[w] \in MayMerge[w]
  /\ pc[w] # "idle" =>
       /\ op[w].kind = "LOCK" => held[w] = Free /\ op[w].task \in MayMerge[w]
       /\ op[w].kind = "UNLOCK" => held[w] # Free
       /\ op[w].id \notin hist.recorded
  /\ AtPush(w) => Waiting(w)

\* The hub has the release that the writer is reading back.
Gone(w) ==
  pc[w] = "readback" /\ op[w].kind = "UNLOCK" /\ IsPrefix(op[w].head, hub)

\* A lock of its own that a writer saw on the hub is there still.
Stays(w, g) ==
  IsPrefix(g, hub) /\ LastTree(g).lock \in MayMerge[w] =>
    HubTree.lock = LastTree(g).lock \/ ReleasedLate \/ Gone(w)

Inside(w) ==
  held[w] # Free =>
    \/ ReleasedLate
    \/ /\ IsPrefix(Base(w), hub)
       /\ EnteredOnLeftover(w) \/ LastTree(Base(w)).lock = held[w]

Guarded(w) ==
  Role(w) /\ Stays(w, Base(w)) /\ Stays(w, branch[CloneOf[w]]) /\ Inside(w)

\* A push in flight is unanswered, or the hub has it.
Unanswered ==
  /\ \A h \in inflight : LastId(h) \in hist.recorded => IsPrefix(h, hub)
  /\ \A w \in Writers : pc[w] = "readback" =>
       \A h \in inflight : LastId(h) = op[w].id => h = op[w].head

Sections == (\A w \in Writers : Guarded(w)) /\ Unanswered

LockInv == IInv /\ Fate /\ Sections

----------------------------------------------------------------------------
\* Histories

LEMMA BaseTyped ==
  ASSUME TypeInv, NEW w \in Writers
  PROVE  /\ Base(w) \in Seq(Commit) /\ Base(w) # <<>>
         /\ branch[CloneOf[w]] \in Seq(Commit) /\ branch[CloneOf[w]] # <<>>
         /\ CloneOf[w] \in Clones
  BY Typed DEF Base, AtPush, TypeInv, TypeOK, NonEmpty, Op

\* A history on the hub brings the identity of its last commit.
LEMMA LastIdOnHub ==
  ASSUME TypeInv, NEW h \in Seq(Commit), h # <<>>, IsPrefix(h, hub)
  PROVE  LastId(h) \in HubIds
  <1>1. Len(h) \in DOMAIN h
    BY EmptySeq, LenProperties
  <1>2. LastId(h) \in {h[i].id : i \in DOMAIN h}
    BY <1>1 DEF LastId
  <1>3. hub \in Seq(Commit)
    BY DEF TypeInv, TypeOK
  <1>4. QED
    BY <1>2, <1>3, PrefixKeepsIds DEF HubIds

\* Two histories that are prefixes of each other are one.
LEMMA PrefixAntisymmetric ==
  ASSUME NEW S, NEW s \in Seq(S), NEW t \in Seq(S), IsPrefix(s, t), IsPrefix(t, s)
  PROVE  s = t
  <1>1. /\ Len(s) <= Len(t) /\ Len(t) <= Len(s)
        /\ \A i \in 1..Len(s) : s[i] = t[i]
    BY PrefixCharacterization
  <1>2. Len(s) = Len(t)
    BY <1>1
  <1>3. QED
    BY <1>1, <1>2, SeqEqual

\* What lies before a proper extension by one commit lies before the original.
LEMMA PrefixOfFront ==
  ASSUME NEW S, NEW g \in Seq(S), NEW h \in Seq(S), h # <<>>, IsPrefix(g, h), g # h
  PROVE  IsPrefix(g, Front(h))
  <1>1. /\ Front(h) \in Seq(S) /\ Len(Front(h)) = Len(h) - 1
        /\ \A i \in 1..(Len(h) - 1) : Front(h)[i] = h[i]
    BY FrontProperties
  <1>2. Len(g) <= Len(h) /\ \A i \in 1..Len(g) : g[i] = h[i]
    BY PrefixCharacterization
  <1>3. Len(g) \in Nat /\ Len(h) \in Nat
    OBVIOUS
  <1>4. Len(g) # Len(h)
    BY <1>2, SeqEqual
  <1>5. Len(g) <= Len(Front(h)) /\ \A i \in 1..Len(g) : g[i] = Front(h)[i]
    BY <1>1, <1>2, <1>3, <1>4
  <1>6. QED
    BY <1>1, <1>5, PrefixCharacterization

\* A history the hub newly accepts is the hub and one commit more.
LEMMA AcceptedExtendsHub ==
  ASSUME TypeInv, NEW h \in Seq(Commit), OneAhead(h), IsPrefix(hub, h), h # hub
  PROVE  Front(h) = hub /\ LedgerStep(HubTree, LastTree(h))
  <1>1. hub \in Seq(Commit)
    BY DEF TypeInv, TypeOK
  <1>2. hub = Front(h)
    BY <1>1, PrefixBetween DEF OneAhead
  <1>3. QED
    BY <1>2, AcceptedIsOneStep

----------------------------------------------------------------------------
\* Releases that landed late

\* What a step does to the identities that run and to the reports.
Reports(w) ==
  /\ \A v \in Writers \ {w} : pc'[v] = pc[v] /\ op'[v] = op[v]
  /\ \/ pc'[w] = "idle"
     \/ pc'[w] # "idle" /\ pc[w] # "idle" /\ op'[w].id = op[w].id
     \/ op'[w].id = <<w, count[w] + 1>>
  /\ \/ hist'.recorded = hist.recorded
     \/ pc[w] # "idle" /\ hist'.recorded = hist.recorded \cup {op[w].id}

\* The identity of the next operation is new.
LEMMA NextIdIsNew ==
  ASSUME TypeInv, Fate, NEW w \in Writers
  PROVE  <<w, count[w] + 1>> \notin HubIds
  <1>1. count[w] \in Nat
    BY DEF TypeInv, TypeOK
  <1>2. <<w, count[w] + 1>> \notin hist.pushed
    <2>1. <<w, count[w] + 1>> \in hist.pushed => count[w] + 1 <= count[w]
      BY <1>1 DEF Fate, Counted
    <2>2. QED
      BY <1>1, <2>1
  <1>3. <<w, count[w] + 1>> # Genesis
    BY <1>1, LedgerAssumption
  <1>4. QED
    BY <1>2, <1>3 DEF Fate, PublishedByItsOwnPush

LEMMA LateStaysLate ==
  ASSUME TypeInv, TypeInv', Fate, NEW w \in Writers, Reports(w), IsPrefix(hub, hub'),
         ReleasedLate
  PROVE  ReleasedLate'
  <1>1. PICK i \in 2..Len(hub) :
          /\ hub[i-1].tree.lock # Free /\ hub[i].tree.lock = Free
          /\ hub[i].id \notin hist.recorded
          /\ \A v \in Writers : pc[v] # "idle" => op[v].id # hub[i].id
    BY DEF ReleasedLate
  <1>2. /\ hub \in Seq(Commit) /\ hub' \in Seq(Commit)
        /\ Len(hub) \in Nat /\ Len(hub') \in Nat
        /\ DOMAIN hub = 1..Len(hub)
    BY LenProperties DEF TypeInv, TypeOK
  <1>3. Len(hub) <= Len(hub') /\ \A j \in 1..Len(hub) : hub[j] = hub'[j]
    BY <1>2, PrefixCharacterization
  <1>4. /\ i \in 2..Len(hub') /\ i \in 1..Len(hub) /\ i - 1 \in 1..Len(hub)
    BY <1>2, <1>3
  <1>5. hub'[i] = hub[i] /\ hub'[i-1] = hub[i-1]
    BY <1>3, <1>4
  <1>6. hub[i].id \in HubIds
    BY <1>2, <1>4 DEF HubIds
  <1>7. hub[i].id # <<w, count[w] + 1>>
    BY <1>6, NextIdIsNew
  <1>8. hub[i].id \notin hist'.recorded
    BY <1>1 DEF Reports
  <1>9. \A v \in Writers : pc'[v] # "idle" => op'[v].id # hub[i].id
    BY <1>1, <1>7 DEF Reports
  <1>10. QED
    BY <1>1, <1>4, <1>5, <1>8, <1>9 DEF ReleasedLate

\* A release on the hub that nobody was or will be told about is late.
LEMMA BecomesLate ==
  ASSUME TypeInv', NEW h \in Seq(Commit), h # <<>>, Front(h) # <<>>, IsPrefix(h, hub'),
         LastTree(Front(h)).lock # Free, LastTree(h).lock = Free,
         LastId(h) \notin hist'.recorded,
         \A v \in Writers : pc'[v] # "idle" => op'[v].id # LastId(h)
  PROVE  ReleasedLate'
  <1> DEFINE n == Len(h)
  <1>1. /\ Front(h) \in Seq(Commit) /\ Len(Front(h)) = n - 1
        /\ \A i \in 1..(n - 1) : Front(h)[i] = h[i]
        /\ n \in Nat /\ hub' \in Seq(Commit) /\ Len(hub') \in Nat
    BY FrontProperties DEF TypeInv, TypeOK
  <1>2. n - 1 # 0
    BY <1>1, EmptySeq
  <1>3. n <= Len(hub') /\ \A i \in 1..n : h[i] = hub'[i]
    BY <1>1, PrefixCharacterization
  <1>4. n \in 2..Len(hub') /\ n \in 1..n /\ n - 1 \in 1..n /\ n - 1 \in 1..(n - 1)
    BY <1>1, <1>2, <1>3, EmptySeq
  <1>5. hub'[n] = h[n] /\ hub'[n-1] = Front(h)[n-1]
    BY <1>1, <1>3, <1>4
  <1>6. /\ LastTree(h) = hub'[n].tree /\ LastId(h) = hub'[n].id
        /\ LastTree(Front(h)) = hub'[n-1].tree
    BY <1>1, <1>5 DEF LastTree, LastId
  <1>7. QED
    BY <1>4, <1>6 DEF ReleasedLate

----------------------------------------------------------------------------
\* Writers that do not move

\* A step takes the lock of one of v's tasks from the hub only in v's own release,
\* or in one that is late.
KeepsLockOf(v) ==
  HubTree.lock \in MayMerge[v] =>
    HubTree'.lock = HubTree.lock \/ ReleasedLate' \/ Gone(v)'

\* The hub stays, or takes one commit.
HubGrows == hub' = hub \/ (hub' # <<>> /\ Front(hub') = hub)

LEMMA GrowingHub ==
  ASSUME TypeInv, TypeInv', HubGrows
  PROVE  /\ hub \in Seq(Commit) /\ hub' \in Seq(Commit) /\ IsPrefix(hub, hub')
         /\ \A g \in Seq(Commit) : IsPrefix(g, hub) => IsPrefix(g, hub')
         /\ \A g \in Seq(Commit) : IsPrefix(g, hub') => IsPrefix(g, hub) \/ g = hub'
  <1>1. hub \in Seq(Commit) /\ hub' \in Seq(Commit)
    BY DEF TypeInv, TypeOK
  <1>2. CASE hub' = hub
    BY <1>1, <1>2, PrefixReflexive
  <1>3. CASE hub' # <<>> /\ Front(hub') = hub
    <2>1. /\ Len(hub) = Len(hub') - 1 /\ Len(hub) \in Nat /\ Len(hub') \in Nat
          /\ \A i \in 1..(Len(hub') - 1) : hub[i] = hub'[i]
      BY <1>1, <1>3, FrontProperties
    <2>2. Len(hub) <= Len(hub') /\ \A i \in 1..Len(hub) : hub[i] = hub'[i]
      BY <2>1
    <2>3. IsPrefix(hub, hub')
      BY <1>1, <2>2, PrefixCharacterization
    <2>4. ASSUME NEW g \in Seq(Commit), IsPrefix(g, hub) PROVE IsPrefix(g, hub')
      BY <1>1, <2>3, <2>4, PrefixTransitive
    <2>5. ASSUME NEW g \in Seq(Commit), IsPrefix(g, hub')
          PROVE  IsPrefix(g, hub) \/ g = hub'
      BY <1>1, <1>3, <2>5, PrefixOfFront
    <2>6. QED
      BY <1>1, <2>3, <2>4, <2>5
  <1>4. QED
    BY <1>2, <1>3 DEF HubGrows

LEMMA StaysMeanwhile ==
  ASSUME TypeInv, TypeInv', HubGrows, NEW v \in Writers, NEW g \in Seq(Commit),
         Stays(v, g), KeepsLockOf(v), ReleasedLate => ReleasedLate',
         pc'[v] = pc[v], op'[v] = op[v], op[v] \in Op
  PROVE  Stays(v, g)'
  <1> SUFFICES ASSUME IsPrefix(g, hub'), LastTree(g).lock \in MayMerge[v]
               PROVE  HubTree'.lock = LastTree(g).lock \/ ReleasedLate' \/ Gone(v)'
    BY DEF Stays, LastTree
  <1>1. CASE g = hub'
    BY <1>1 DEF LastTree, HubTree
  <1>2. CASE IsPrefix(g, hub)
    <2>1. HubTree.lock = LastTree(g).lock \/ ReleasedLate \/ Gone(v)
      BY <1>2 DEF Stays
    <2>2. CASE Gone(v)
      <3>1. op[v].head \in Seq(Commit)
        BY DEF Op
      <3>2. IsPrefix(op[v].head, hub')
        BY <2>2, <3>1, GrowingHub DEF Gone
      <3>3. QED
        BY <2>2, <3>2 DEF Gone
    <2>3. QED
      BY <2>1, <2>2 DEF KeepsLockOf
  <1>3. QED
    BY <1>1, <1>2, GrowingHub

LEMMA OtherGuarded ==
  ASSUME TypeInv, TypeInv', HubGrows, NEW v \in Writers, Guarded(v),
         KeepsLockOf(v), ReleasedLate => ReleasedLate',
         pc'[v] = pc[v], op'[v] = op[v], held'[v] = held[v],
         branch'[CloneOf[v]] = branch[CloneOf[v]],
         tree'[CloneOf[v]] = tree[CloneOf[v]],
         pc[v] # "idle" /\ op[v].id \in hist'.recorded => op[v].id \in hist.recorded
  PROVE  Guarded(v)'
  <1> DEFINE c == CloneOf[v]
  <1>1. /\ Base(v) \in Seq(Commit) /\ branch[c] \in Seq(Commit) /\ op[v] \in Op
        /\ op[v].before \in Seq(Commit)
    BY BaseTyped DEF TypeInv, TypeOK, Op
  <1>2. /\ Base(v)' = Base(v) /\ AtPush(v)' = AtPush(v)
        /\ EnteredOnLeftover(v)' = EnteredOnLeftover(v)
    BY DEF Base, AtPush, EnteredOnLeftover, HeadTree
  <1>3. Stays(v, Base(v))'
    <2>1. Stays(v, Base(v))
      BY DEF Guarded
    <2> DEFINE g == Base(v)
    <2>2. g \in Seq(Commit) /\ Stays(v, g)
      BY <1>1, <2>1
    <2> HIDE DEF g
    <2>3. ASSUME NEW f \in Seq(Commit), Stays(v, f)
          PROVE  /\ IsPrefix(f, hub') /\ LastTree(f).lock \in MayMerge[v] =>
                      HubTree'.lock = LastTree(f).lock \/ ReleasedLate' \/ Gone(v)'
      <3>1. Stays(v, f)'
        BY <1>1, <2>3, StaysMeanwhile
      <3>2. QED
        BY <3>1 DEF Stays, LastTree
    <2>4. IsPrefix(g, hub') /\ LastTree(g).lock \in MayMerge[v] =>
            HubTree'.lock = LastTree(g).lock \/ ReleasedLate' \/ Gone(v)'
      BY <2>2, <2>3
    <2>5. Base(v)' = g
      BY <1>2 DEF g
    <2>6. QED
      BY <2>4, <2>5 DEF Stays, LastTree
  <1>4. Stays(v, branch[c])'
    <2> DEFINE g == branch[c]
    <2>1. g \in Seq(Commit) /\ Stays(v, g)
      BY <1>1 DEF Guarded
    <2> HIDE DEF g
    <2>2. Stays(v, g)'
      BY <1>1, <2>1, StaysMeanwhile DEF g
    <2>3. QED
      BY <2>2 DEF Stays, LastTree, g
  <1>5. Role(v)'
    <2>1. Role(v)
      BY DEF Guarded
    <2>2. AtPush(v) => Waiting(v)'
      <3>1. IsPrefix(op[v].before, hub) => IsPrefix(op[v].before, hub')
        BY <1>1, GrowingHub
      <3>2. QED
        BY <2>1, <3>1 DEF Role, Waiting, LastTree, LastId
    <2>3. QED
      BY <1>2, <2>1, <2>2 DEF Role
  <1>6. Inside(v)'
    <2>1. IsPrefix(Base(v), hub) => IsPrefix(Base(v), hub')
      BY <1>1, GrowingHub
    <2>2. LastTree(Base(v))' = LastTree(Base(v))
      BY <1>2 DEF LastTree
    <2>3. QED
      BY <1>2, <2>1, <2>2 DEF Inside, Guarded
  <1>7. QED
    BY <1>3, <1>4, <1>5, <1>6 DEF Guarded

----------------------------------------------------------------------------
\* Who takes a lock away

\* A writer that waits with a release holds the lock it releases, unless it lost it
\* to a late release.
LEMMA ReleasesItsOwn ==
  ASSUME TypeInv, NEW w \in Writers, Guarded(w), AtPush(w),
         LastTree(op[w].before).lock # Free,
         LastTree(branch[CloneOf[w]]).lock = Free
  PROVE  /\ op[w].kind = "UNLOCK"
         /\ ReleasedLate \/ LastTree(op[w].before).lock \in MayMerge[w]
  <1>1. /\ op[w].kind \in Kinds /\ pc[w] # "idle" /\ pc[w] # "commit"
        /\ Waiting(w) /\ Base(w) = op[w].before
    BY DEF TypeInv, TypeOK, Op, AtPush, Guarded, Role, Base
  <1>2. op[w].kind = "UNLOCK"
    BY <1>1 DEF Waiting, Kinds
  <1>3. held[w] # Free /\ held[w] \in MayMerge[w] /\ tree[CloneOf[w]].lock = Free
    BY <1>1, <1>2 DEF Guarded, Role, Waiting
  <1>4. ~EnteredOnLeftover(w)
    BY <1>1, <1>3 DEF EnteredOnLeftover
  <1>5. QED
    BY <1>1, <1>2, <1>3, <1>4 DEF Guarded, Inside

----------------------------------------------------------------------------
\* Steps of one writer

\* What a step of w leaves alone.
Elsewhere(w) ==
  /\ Reports(w) /\ OthersKept(CloneOf[w])
  /\ \A v \in Writers \ {w} : held'[v] = held[v]

LEMMA UnansweredStays ==
  ASSUME TypeInv, TypeInv', Fate, NEW w \in Writers, Unanswered, HubGrows, Reports(w),
         inflight' = inflight, pc'[w] # "readback",
         \/ hist'.recorded = hist.recorded
         \/ \A h \in inflight : LastId(h) = op[w].id => IsPrefix(h, hub')
  PROVE  Unanswered'
  <1>1. ASSUME NEW h \in inflight', LastId(h) \in hist'.recorded
        PROVE  IsPrefix(h, hub')
    <2>1. h \in inflight /\ h \in Seq(Commit)
      BY DEF TypeInv, TypeOK
    <2>2. CASE LastId(h) \in hist.recorded
      BY <2>1, <2>2, GrowingHub DEF Unanswered
    <2>3. CASE LastId(h) = op[w].id /\ hist'.recorded # hist.recorded
      BY <2>1, <2>3
    <2>4. QED
      BY <1>1, <2>2, <2>3 DEF Reports
  <1>2. ASSUME NEW v \in Writers, pc'[v] = "readback", NEW h \in inflight',
               LastId(h) = op'[v].id
        PROVE  h = op'[v].head
    BY <1>2 DEF Unanswered, Reports
  <1>3. QED
    BY <1>1, <1>2 DEF Unanswered, LastId

LEMMA StepGuards ==
  ASSUME OneWriterPerClone, LockInv, TypeInv', NEW w \in Writers,
         HubGrows, Elsewhere(w), \A v \in Writers \ {w} : KeepsLockOf(v),
         Guarded(w)', Unanswered'
  PROVE  Sections'
  <1>1. TypeInv /\ Fate /\ Reports(w)
    BY DEF LockInv, IInv, Elsewhere
  <1>2. ReleasedLate => ReleasedLate'
    BY <1>1, LateStaysLate, GrowingHub
  <1>3. ASSUME NEW v \in Writers PROVE Guarded(v)'
    <2>1. CASE v = w
      BY <2>1
    <2>2. CASE v # w
      <3>1. CloneOf[v] \in Clones \ {CloneOf[w]}
        BY <2>2, Typed DEF OneWriterPerClone
      <3>2. /\ pc'[v] = pc[v] /\ op'[v] = op[v] /\ held'[v] = held[v]
            /\ branch'[CloneOf[v]] = branch[CloneOf[v]]
            /\ tree'[CloneOf[v]] = tree[CloneOf[v]]
        BY <2>2, <3>1 DEF Elsewhere, Reports, OthersKept
      <3>3. pc[v] # "idle" /\ op[v].id \in hist'.recorded => op[v].id \in hist.recorded
        BY <1>1, <2>2, RunningIds DEF Reports
      <3>4. Guarded(v) /\ KeepsLockOf(v)
        BY <2>2 DEF LockInv, Sections
      <3>5. QED
        BY <1>1, <1>2, <3>2, <3>3, <3>4, OtherGuarded
    <2>3. QED
      BY <2>1, <2>2
  <1>4. QED
    BY <1>3 DEF Sections

\* A step of w that leaves the hub and the pushes in flight alone and is no report
\* of success.
LEMMA LocalStepGuards ==
  ASSUME OneWriterPerClone, LockInv, TypeInv', NEW w \in Writers, UNCHANGED netVars,
         Elsewhere(w), Guarded(w)', pc'[w] # "readback",
         hist'.recorded = hist.recorded
  PROVE  Sections'
  <1>1. hub' = hub /\ inflight' = inflight /\ HubGrows
    BY DEF netVars, HubGrows
  <1>2. \A v \in Writers : KeepsLockOf(v)
    BY <1>1 DEF KeepsLockOf, HubTree
  <1>3. Unanswered'
    BY <1>1, UnansweredStays DEF LockInv, Sections, IInv, Elsewhere
  <1>4. QED
    BY <1>1, <1>2, <1>3, StepGuards

\* The same for a writer whose branch stays and whose commit is not made.
LEMMA StillGuarded ==
  ASSUME LockInv, TypeInv', NEW w \in Writers, Reports(w), ~AtPush(w), ~AtPush(w)',
         hub' = hub, branch'[CloneOf[w]] = branch[CloneOf[w]],
         Role(w)',
         held'[w] # Free =>
           \/ ReleasedLate
           \/ /\ IsPrefix(branch[CloneOf[w]], hub)
              /\ EnteredOnLeftover(w)' \/ HeadTree(CloneOf[w]).lock = held'[w]
  PROVE  Guarded(w)'
  <1> DEFINE g == branch[CloneOf[w]]
  <1>1. /\ Base(w) = g /\ Base(w)' = branch'[CloneOf[w]] /\ branch'[CloneOf[w]] = g
    BY DEF Base
  <1>2. TypeInv /\ Fate /\ HubGrows /\ g \in Seq(Commit)
    BY BaseTyped DEF LockInv, IInv, HubGrows
  <1>3. ReleasedLate => ReleasedLate'
    BY <1>2, LateStaysLate, GrowingHub
  <1>4. Stays(w, g) /\ ~Gone(w)
    BY DEF LockInv, Sections, Guarded, Gone, AtPush
  <1> HIDE DEF g
  <1>5. IsPrefix(g, hub') /\ LastTree(g).lock \in MayMerge[w] =>
          HubTree'.lock = LastTree(g).lock \/ ReleasedLate'
    BY <1>3, <1>4 DEF Stays, HubTree
  <1>6. Stays(w, Base(w))' /\ Stays(w, branch[CloneOf[w]])'
    BY <1>1, <1>5 DEF Stays, LastTree
  <1>7. Inside(w)'
    <2>1. LastTree(g) = HeadTree(CloneOf[w])
      BY DEF LastTree, HeadTree, g
    <2>2. LastTree(Base(w))' = LastTree(g)
      BY <1>1 DEF LastTree
    <2>3. IsPrefix(Base(w), hub)' <=> IsPrefix(g, hub)
      BY <1>1
    <2>4. QED
      BY <1>3, <2>1, <2>2, <2>3 DEF Inside, g
  <1>8. QED
    BY <1>6, <1>7 DEF Guarded

LEMMA BeginGuards ==
  ASSUME OneWriterPerClone, LockInv, TypeInv', NEW w \in Writers,
         BeginAppend(w) \/ BeginAcquire(w) \/ BeginRelease(w)
  PROVE  Sections'
  <1> DEFINE c == CloneOf[w]
  <1>1. /\ TypeInv /\ Fate /\ Guarded(w) /\ c \in Clones
    BY Typed DEF LockInv, IInv, Sections
  <1>2. PICK kind, task, prev :
          /\ Begin(w, kind, task, prev)
          /\ kind = "LOCK" => held[w] = Free /\ task \in MayMerge[w]
          /\ kind = "UNLOCK" => held[w] # Free
    BY DEF BeginAppend, BeginAcquire, BeginRelease
  <1>3. /\ pc[w] = "idle" /\ pc'[w] = "pull"
        /\ op'[w] = NewOp(kind, task, <<w, count[w] + 1>>, prev)
        /\ \A v \in Writers \ {w} : pc'[v] = pc[v] /\ op'[v] = op[v]
        /\ UNCHANGED <<netVars, cloneVars, held, hist>>
    BY <1>1, <1>2 DEF Begin, Goto, TypeInv, TypeOK
  <1>4. op'[w].kind = kind /\ op'[w].task = task /\ op'[w].id = <<w, count[w] + 1>>
    BY <1>3 DEF NewOp
  <1>5. Elsewhere(w) /\ Reports(w)
    BY <1>3, <1>4 DEF Elsewhere, Reports, OthersKept, cloneVars
  <1>6. <<w, count[w] + 1>> \notin hist.recorded
    BY <1>1, NextIdIsNew DEF LockInv, IInv, RecordedIsOnHub
  <1>7. Role(w)'
    BY <1>1, <1>2, <1>3, <1>4, <1>6 DEF Role, AtPush, Guarded
  <1>8. /\ hub' = hub /\ branch' = branch /\ tree' = tree /\ held' = held
        /\ ~AtPush(w) /\ ~AtPush(w)' /\ Base(w) = branch[c]
    BY <1>3 DEF netVars, cloneVars, AtPush, Base
  <1>9. EnteredOnLeftover(w) => EnteredOnLeftover(w)'
    BY <1>3, <1>8 DEF EnteredOnLeftover, HeadTree
  <1>10. Guarded(w)'
    BY <1>1, <1>5, <1>7, <1>8, <1>9, StillGuarded DEF Guarded, Inside, LastTree, HeadTree
  <1>11. QED
    BY <1>3, <1>5, <1>10, LocalStepGuards

\* What every end of an operation is to the others.
LEMMA EndElsewhere ==
  ASSUME LockInv, NEW w \in Writers, NEW ok \in BOOLEAN, Finish(w, ok), OthersKept(CloneOf[w]),
         \/ hist'.recorded = hist.recorded
         \/ pc[w] # "idle" /\ hist'.recorded = hist.recorded \cup {op[w].id}
  PROVE  /\ Elsewhere(w) /\ Reports(w)
         /\ pc'[w] = "idle" /\ op'[w] = NoOp /\ held'[w] = Section(w, ok)
  BY DEF Finish, Goto, Elsewhere, Reports, LockInv, IInv, TypeInv, TypeOK

LEMMA DenyReports ==
  ASSUME LockInv, NEW w \in Writers, Deny(w) \/ Raise(w)
  PROVE  Finish(w, FALSE) /\ hist'.recorded = hist.recorded
  BY DEF Deny, Raise, LockInv, IInv, TypeInv, TypeOK, History

\* An operation ends before its commit, and its writer stays inside its section or
\* leaves it.
LEMMA EarlyEndGuards ==
  ASSUME OneWriterPerClone, LockInv, TypeInv', NEW w \in Writers, Deny(w) \/ Raise(w),
         ~AtPush(w), pc[w] # "idle", UNCHANGED netVars, OthersKept(CloneOf[w]),
         branch'[CloneOf[w]] = branch[CloneOf[w]],
         tree'[CloneOf[w]] = tree[CloneOf[w]]
  PROVE  Sections'
  <1> DEFINE c == CloneOf[w]
  <1>1. TypeInv /\ Fate /\ Guarded(w) /\ op[w].kind \in Kinds /\ hub' = hub
    BY DEF LockInv, IInv, Sections, TypeInv, TypeOK, Op, netVars
  <1>2. /\ Elsewhere(w) /\ Reports(w) /\ pc'[w] = "idle" /\ op'[w] = NoOp
        /\ held'[w] = Section(w, FALSE) /\ hist'.recorded = hist.recorded
    BY DenyReports, EndElsewhere
  <1>3. held'[w] # Free => held'[w] = held[w] /\ op[w].kind = "ROW"
    BY <1>1, <1>2 DEF Section, Kinds
  <1>4. Role(w)' /\ ~AtPush(w)'
    BY <1>1, <1>2, <1>3 DEF Role, AtPush, Guarded
  <1>5. EnteredOnLeftover(w) /\ held'[w] # Free => EnteredOnLeftover(w)'
    BY <1>2, <1>3 DEF EnteredOnLeftover, HeadTree
  <1>6. Base(w) = branch[c]
    BY DEF Base
  <1>7. Guarded(w)'
    BY <1>1, <1>2, <1>3, <1>4, <1>5, <1>6, StillGuarded
    DEF Guarded, Inside, LastTree, HeadTree
  <1>8. QED
    BY <1>2, <1>7, LocalStepGuards

LEMMA PullGuards ==
  ASSUME OneWriterPerClone, LockInv, TypeInv', NEW w \in Writers, Pull(w)
  PROVE  Sections'
  <1> DEFINE c == CloneOf[w]
  <1>1. /\ TypeInv /\ Fate /\ Guarded(w) /\ op[w].kind \in Kinds
        /\ c \in Clones /\ hub \in Seq(Commit) /\ hub # <<>>
        /\ branch[c] \in Seq(Commit) /\ tree[c] \in Tree
    BY Typed DEF LockInv, IInv, Sections, TypeInv, TypeOK, Op, NonEmpty
  <1>2. pc[w] = "pull" /\ UNCHANGED netVars /\ hub' = hub /\ ~AtPush(w)
    BY DEF Pull, PullRefused, PullForward, PullQuarantines, PullDiverged, AtPush, netVars
  <1>3. Base(w) = branch[c] /\ ~Gone(w)
    BY <1>2 DEF Base, Gone
  <1>4. CASE Deny(w) /\ UNCHANGED cloneVars
    BY <1>2, <1>4, EarlyEndGuards DEF cloneVars, OthersKept
  <1>5. CASE /\ MoveTo(c, hub) /\ CanMove(c, HubTree) /\ Goto(w, "check") /\ ~Dirty(c)
             /\ IsPrefix(branch[c], hub)
             /\ UNCHANGED <<unpublished, op, held, count, hist>>
    <2> DEFINE target == hub[Len(hub)].tree
    <2>1. /\ branch'[c] = hub /\ OthersKept(c)
          /\ tree'[c].lock = IF target.lock = HeadTree(c).lock
                             THEN tree[c].lock ELSE target.lock
      <3>1. /\ branch' = [branch EXCEPT ![c] = hub]
            /\ tree' = [tree EXCEPT ![c] =
                          [rows |-> IF target.rows = HeadTree(c).rows
                                    THEN tree[c].rows ELSE target.rows,
                           lock |-> IF target.lock = HeadTree(c).lock
                                    THEN tree[c].lock ELSE target.lock]]
            /\ index' = [index EXCEPT ![c] = target]
        BY <1>5 DEF MoveTo
      <3> HIDE DEF target
      <3>2. QED
        BY <1>1, <3>1 DEF OthersKept, TypeInv, TypeOK
    <2>2. /\ pc'[w] = "check" /\ op' = op /\ held' = held
          /\ Elsewhere(w) /\ Reports(w) /\ hist' = hist
      BY <1>1, <1>2, <1>5, <2>1 DEF Goto, Elsewhere, Reports, TypeInv, TypeOK
    <2>3. ReleasedLate => ReleasedLate'
      BY <1>1, <1>2, <2>2, LateStaysLate, PrefixReflexive
    <2>4. target = HubTree /\ HeadTree(c)' = HubTree /\ HubTree' = HubTree
      BY <1>2, <2>1 DEF HubTree, HeadTree
    <2>5. /\ ~AtPush(w)' /\ Base(w)' = hub /\ IsPrefix(hub, hub')
          /\ LastTree(Base(w))' = HubTree /\ LastTree(branch[c])' = HubTree
      BY <1>1, <1>2, <2>1, <2>2, PrefixReflexive DEF AtPush, Base, HubTree, LastTree
    <2>6. Stays(w, Base(w))' /\ Stays(w, branch[c])'
      BY <2>4, <2>5 DEF Stays
    <2>7. Role(w)'
      BY <1>1, <1>2, <2>2, <2>5 DEF Role, Guarded
    <2>8. Inside(w)'
      <3>1. SUFFICES ASSUME held[w] # Free, ~ReleasedLate
                     PROVE  EnteredOnLeftover(w)' \/ HubTree.lock = held[w]
        BY <2>2, <2>3, <2>5 DEF Inside
      <3>2. EnteredOnLeftover(w) \/ LastTree(branch[c]).lock = held[w]
        BY <1>1, <1>3, <3>1 DEF Guarded, Inside
      <3>3. CASE EnteredOnLeftover(w)
        <4>1. HeadTree(c).lock = Free /\ tree[c].lock = held[w]
          BY <1>2, <3>3 DEF EnteredOnLeftover
        <4>2. HubTree.lock = Free
          BY <1>5, <3>1, <4>1 DEF CanMove
        <4>3. tree'[c].lock = held[w]
          BY <2>1, <2>4, <4>1, <4>2
        <4>4. QED
          BY <2>2, <2>4, <4>2, <4>3 DEF EnteredOnLeftover
      <3>4. CASE LastTree(branch[c]).lock = held[w]
        BY <1>1, <1>3, <1>5, <3>1, <3>4 DEF Guarded, Role, Stays
      <3>5. QED
        BY <3>2, <3>3, <3>4
    <2>9. QED
      BY <1>2, <2>2, <2>6, <2>7, <2>8, LocalStepGuards DEF Guarded
  <1>6. CASE PullQuarantines(w)
    <2>1. /\ Quarantine(c, hub) /\ Deny(w) /\ IsPrefix(hub, branch[c]) /\ hub # branch[c]
      BY <1>6 DEF PullQuarantines, IsStrictPrefix
    <2>2. ~IsPrefix(branch[c], hub)
      BY <1>1, <2>1, PrefixAntisymmetric
    <2>3. OthersKept(c)
      BY <1>1, <2>1, QuarantineLocal
    <2>4. /\ Elsewhere(w) /\ Reports(w) /\ pc'[w] = "idle" /\ op'[w] = NoOp
          /\ held'[w] = Section(w, FALSE) /\ hist'.recorded = hist.recorded
      BY <2>1, <2>3, DenyReports, EndElsewhere
    <2>5. held'[w] # Free => held'[w] = held[w]
      BY <1>1, <2>4 DEF Section, Kinds
    <2>6. ReleasedLate => ReleasedLate'
      BY <1>1, <1>2, <2>4, LateStaysLate, PrefixReflexive
    <2>7. branch'[c] = hub \/ branch'[c] = branch[c]
      BY <1>1, <2>1 DEF Quarantine, MoveTo, TypeInv, TypeOK
    <2>8. ~AtPush(w)' /\ Base(w)' = branch'[c]
      BY <2>4 DEF AtPush, Base
    <2>9. Stays(w, branch[c])'
      BY <1>2, <2>2, <2>7 DEF Stays, LastTree, HubTree
    <2>10. Stays(w, Base(w))'
      BY <2>8, <2>9 DEF Stays, LastTree
    <2>11. Role(w)'
      BY <1>1, <2>4, <2>5, <2>8 DEF Role, Guarded
    <2>12. Inside(w)'
      BY <1>1, <1>3, <2>2, <2>5, <2>6 DEF Inside, Guarded
    <2>13. QED
      BY <1>2, <2>4, <2>9, <2>10, <2>11, <2>12, LocalStepGuards DEF Guarded
  <1>7. QED
    BY <1>4, <1>5, <1>6 DEF Pull, PullRefused, PullForward, PullDiverged, cloneVars

LEMMA CheckGuards ==
  ASSUME OneWriterPerClone, LockInv, TypeInv', NEW w \in Writers,
         CheckHead(w) \/ CheckAcquire(w) \/ CheckRelease(w)
  PROVE  Sections'
  <1> DEFINE c == CloneOf[w]
  <1>1. /\ TypeInv /\ Fate /\ Guarded(w) /\ op[w].kind \in Kinds /\ Proper(w)
        /\ c \in Clones /\ pc[w] = "check"
    BY Typed DEF LockInv, IInv, Sections, TypeInv, TypeOK, Op, CheckHead, CheckAcquire,
      CheckRelease
  <1>2. /\ UNCHANGED netVars /\ UNCHANGED cloneVars /\ OthersKept(c)
        /\ hub' = hub /\ branch' = branch /\ tree' = tree
        /\ ~AtPush(w) /\ Base(w) = branch[c]
    BY <1>1 DEF CheckHead, CheckAcquire, CheckRelease, cloneVars, netVars, OthersKept,
      AtPush, Base
  <1>3. CASE Deny(w)
    BY <1>1, <1>2, <1>3, EarlyEndGuards
  <1>4. CASE Goto(w, "write") /\ UNCHANGED <<op, held, count, hist>>
    <2>1. /\ pc'[w] = "write" /\ op' = op /\ held' = held /\ hist' = hist
          /\ Elsewhere(w) /\ Reports(w)
      BY <1>1, <1>2, <1>4 DEF Goto, Elsewhere, Reports, TypeInv, TypeOK
    <2>2. Role(w)' /\ ~AtPush(w)'
      BY <1>1, <1>2, <2>1 DEF Role, AtPush, Guarded
    <2>3. EnteredOnLeftover(w) => EnteredOnLeftover(w)'
      BY <1>1, <1>2, <2>1 DEF EnteredOnLeftover, HeadTree
    <2>4. Guarded(w)'
      BY <1>1, <1>2, <2>1, <2>2, <2>3, StillGuarded
      DEF Guarded, Inside, LastTree, HeadTree
    <2>5. QED
      BY <1>2, <2>1, <2>4, LocalStepGuards
  <1>5. CASE Finish(w, TRUE) /\ UNCHANGED hist
    <2>1. /\ Elsewhere(w) /\ Reports(w) /\ pc'[w] = "idle" /\ op'[w] = NoOp
          /\ held'[w] = Section(w, TRUE)
      BY <1>2, <1>5, EndElsewhere
    <2>2. CASE op[w].kind = "UNLOCK"
      <3>1. held'[w] = Free
        BY <2>1, <2>2 DEF Section
      <3>2. Role(w)' /\ ~AtPush(w)'
        BY <1>1, <2>1, <3>1 DEF Role, AtPush
      <3>3. Guarded(w)'
        BY <1>2, <2>1, <3>1, <3>2, StillGuarded
      <3>4. QED
        BY <1>2, <1>5, <2>1, <3>3, LocalStepGuards
    <2>3. CASE op[w].kind = "LOCK" /\ tree[c].lock = op[w].task
      <3>1. held'[w] = op[w].task /\ op[w].task \in MayMerge[w]
        BY <1>1, <2>1, <2>3 DEF Section, Guarded, Role
      <3>2. Role(w)' /\ ~AtPush(w)'
        BY <1>1, <2>1, <3>1 DEF Role, AtPush
      <3>3. IsPrefix(branch[c], hub) /\ (HeadTree(c).lock = tree[c].lock \/ HeadTree(c).lock = Free)
        BY <1>1 DEF Proper, Aligned, Dirty
      <3>4. HeadTree(c).lock = Free => EnteredOnLeftover(w)'
        BY <1>2, <2>3, <3>1 DEF EnteredOnLeftover, HeadTree
      <3>5. Guarded(w)'
        BY <1>2, <2>1, <2>3, <3>1, <3>2, <3>3, <3>4, StillGuarded
      <3>6. QED
        BY <1>2, <1>5, <2>1, <3>5, LocalStepGuards
    <2>4. QED
      <3>1. CASE CheckHead(w)
        <4>1. pc'[w] = "write" \/ Deny(w)
          BY <1>1, <3>1 DEF CheckHead, Goto, TypeInv, TypeOK
        <4>2. QED
          BY <1>3, <2>1, <4>1
      <3>2. CASE CheckRelease(w)
        BY <2>2, <3>2 DEF CheckRelease
      <3>3. CASE CheckAcquire(w)
        <4>1. pc'[w] = "write" \/ Deny(w) \/ tree[c].lock = op[w].task
          BY <1>1, <3>3 DEF CheckAcquire, Goto, TypeInv, TypeOK
        <4>2. QED
          BY <1>3, <2>1, <2>3, <3>3, <4>1 DEF CheckAcquire
      <3>4. QED
        BY <3>1, <3>2, <3>3
  <1>6. QED
    BY <1>3, <1>4, <1>5 DEF CheckHead, CheckAcquire, CheckRelease

LEMMA WriteGuards ==
  ASSUME OneWriterPerClone, LockInv, TypeInv', NEW w \in Writers, Write(w)
  PROVE  Sections'
  <1> DEFINE c == CloneOf[w]
  <1>1. /\ TypeInv /\ Fate /\ Guarded(w) /\ op[w].kind \in Kinds /\ pc[w] = "write"
        /\ c \in Clones /\ tree[c] \in Tree
    BY Typed DEF LockInv, IInv, Sections, TypeInv, TypeOK, Op, Write
  <1>2. /\ tree' = [tree EXCEPT ![c] = Written(w, tree[c])]
        /\ pc' = [pc EXCEPT ![w] = "commit"]
        /\ UNCHANGED <<netVars, branch, index, op, held, hist>>
    BY DEF Write, Goto
  <1>3. /\ tree'[c] = Written(w, tree[c]) /\ pc'[w] = "commit" /\ OthersKept(c)
        /\ hub' = hub /\ branch' = branch /\ op' = op /\ held' = held
        /\ Elsewhere(w) /\ Reports(w)
        /\ ~AtPush(w) /\ ~AtPush(w)' /\ Base(w) = branch[c]
    BY <1>1, <1>2 DEF OthersKept, Elsewhere, Reports, netVars, AtPush, Base,
      TypeInv, TypeOK
  <1>4. Role(w)'
    BY <1>1, <1>2, <1>3 DEF Role, Guarded
  <1>5. EnteredOnLeftover(w) /\ held[w] # Free => EnteredOnLeftover(w)'
    <2>1. CASE op[w].kind = "ROW"
      <3>1. tree'[c].lock = tree[c].lock
        BY <1>1, <1>3, <2>1 DEF Written, Tree
      <3>2. QED
        BY <1>1, <1>3, <2>1, <3>1 DEF EnteredOnLeftover, HeadTree
    <2>2. CASE op[w].kind = "UNLOCK"
      BY <1>3, <2>2 DEF EnteredOnLeftover, HeadTree
    <2>3. CASE op[w].kind = "LOCK"
      BY <1>1, <2>3 DEF Guarded, Role
    <2>4. QED
      BY <1>1, <2>1, <2>2, <2>3 DEF Kinds
  <1>6. Guarded(w)'
    BY <1>1, <1>3, <1>4, <1>5, StillGuarded DEF Guarded, Inside, LastTree, HeadTree
  <1>7. QED
    BY <1>2, <1>3, <1>6, LocalStepGuards

\* What is pushed is what the operation wrote, by its kind.
LEMMA CommitWaits ==
  ASSUME LockInv, TypeInv', NEW w \in Writers, MakeCommit(w)
  PROVE  /\ Waiting(w)' /\ AtPush(w)' /\ Base(w)' = branch[CloneOf[w]]
         /\ pc'[w] = "push" /\ hub' = hub /\ tree' = tree /\ held' = held
         /\ op'[w].kind = op[w].kind /\ op'[w].task = op[w].task
         /\ op'[w].id = op[w].id
         /\ Elsewhere(w) /\ Reports(w) /\ hist'.recorded = hist.recorded
         /\ branch'[CloneOf[w]] \in Seq(Commit) /\ branch'[CloneOf[w]] # <<>>
         /\ LastTree(branch'[CloneOf[w]]) = Staged(w)
  <1> DEFINE c == CloneOf[w]
             h == Append(branch[c], NewCommit(w))
             o == [op[w] EXCEPT !.before = branch[c]]
  <1>1. /\ TypeInv /\ c \in Clones /\ branch[c] \in Seq(Commit) /\ branch[c] # <<>>
        /\ NewCommit(w) \in Commit /\ op[w] \in Op /\ pc[w] = "commit"
        /\ tree[c] \in Tree /\ index[c] \in Tree /\ op[w].kind \in Kinds
        /\ WrittenNotCommitted(w) /\ Staged(w) # HeadTree(c)
    BY Typed, StagedTyped DEF LockInv, IInv, TypeInv, TypeOK, NonEmpty, MakeCommit, Op, Proper
  <1>2. /\ Front(h) = branch[c] /\ h \in Seq(Commit) /\ h # <<>>
        /\ h[Len(h)] = NewCommit(w)
    BY <1>1, FrontOfAppend
  <1>3. /\ branch' = [branch EXCEPT ![c] = h]
        /\ index' = [index EXCEPT ![c] = Staged(w)]
        /\ op' = [op EXCEPT ![w] = o]
        /\ pc' = [pc EXCEPT ![w] = "push"]
        /\ hist' = [hist EXCEPT !.made = hist.made \cup {NewCommit(w)}]
        /\ UNCHANGED <<hub, inflight, tree, held>>
    BY DEF MakeCommit, Goto, netVars
  <1>4. /\ o.id = op[w].id /\ o.kind = op[w].kind /\ o.task = op[w].task
        /\ o.before = branch[c]
    BY <1>1 DEF Op
  <1> HIDE DEF h, o
  <1>5. /\ branch'[c] = h /\ pc'[w] = "push" /\ hub' = hub /\ tree' = tree
        /\ op'[w] = o /\ held' = held
        /\ OthersKept(c)
        /\ \A v \in Writers \ {w} : pc'[v] = pc[v] /\ op'[v] = op[v]
        /\ hist'.recorded = hist.recorded
    BY <1>1, <1>3 DEF TypeInv, TypeOK, OthersKept, History
  <1>6. Elsewhere(w) /\ Reports(w)
    BY <1>1, <1>4, <1>5 DEF Elsewhere, Reports
  <1>7. LastTree(h) = Staged(w) /\ LastId(h) = op[w].id /\ LastTree(branch[c]) = HeadTree(c)
    BY <1>2 DEF LastTree, LastId, NewCommit, HeadTree
  <1>8. IsPrefix(branch[c], hub) /\ index[c] = HeadTree(c)
    BY <1>1 DEF WrittenNotCommitted
  <1>9. op[w].kind = "ROW" =>
          Staged(w).lock = HeadTree(c).lock /\ tree[c].rows = Staged(w).rows
    BY <1>1, <1>8 DEF Staged, Tree
  <1>10. op[w].kind = "LOCK" => HeadTree(c).lock = Free /\ Staged(w).lock = op[w].task
    BY <1>1, <1>8 DEF Staged, Tree, WrittenNotCommitted
  <1>11. op[w].kind = "UNLOCK" =>
           HeadTree(c).lock # Free /\ Staged(w).lock = Free /\ tree[c].lock = Free
    <2>1. ASSUME op[w].kind = "UNLOCK"
          PROVE  /\ Staged(w) = [HeadTree(c) EXCEPT !.lock = Free]
                 /\ tree[c].lock = Free /\ HeadTree(c) \in Tree
      BY <1>1, <1>8, <2>1 DEF Staged, WrittenNotCommitted
    <2>2. QED
      BY <1>1, <2>1 DEF Tree
  <1>12. Waiting(w)'
    BY <1>2, <1>4, <1>5, <1>7, <1>8, <1>9, <1>10, <1>11 DEF Waiting, LastTree, LastId
  <1>13. AtPush(w)' /\ Base(w)' = branch[c]
    BY <1>4, <1>5 DEF AtPush, Base
  <1>14. QED
    BY <1>2, <1>4, <1>5, <1>6, <1>7, <1>12, <1>13

LEMMA CommitGuards ==
  ASSUME OneWriterPerClone, LockInv, TypeInv', NEW w \in Writers,
         MakeCommit(w) \/ CommitFails(w)
  PROVE  Sections'
  <1> DEFINE c == CloneOf[w]
  <1>1. /\ TypeInv /\ Fate /\ Guarded(w) /\ op[w].kind \in Kinds /\ pc[w] = "commit"
        /\ c \in Clones /\ ~AtPush(w) /\ Base(w) = branch[c]
        /\ WrittenNotCommitted(w) /\ UNCHANGED netVars /\ hub' = hub
        /\ branch[c] \in Seq(Commit)
    BY Typed DEF LockInv, IInv, Sections, TypeInv, TypeOK, Op, MakeCommit, CommitFails,
      AtPush, Base, Proper, netVars
  <1>2. CASE MakeCommit(w)
    <2> DEFINE h == branch'[c]
    <2>1. /\ Waiting(w)' /\ AtPush(w)' /\ Base(w)' = branch[c]
          /\ pc'[w] = "push" /\ tree' = tree /\ held' = held
          /\ op'[w].kind = op[w].kind /\ op'[w].task = op[w].task
          /\ op'[w].id = op[w].id
          /\ Elsewhere(w) /\ Reports(w) /\ hist'.recorded = hist.recorded
          /\ h \in Seq(Commit) /\ h # <<>> /\ LastTree(h) = Staged(w)
      BY <1>2, CommitWaits
    <2>2. ReleasedLate => ReleasedLate'
      BY <1>1, <2>1, LateStaysLate, PrefixReflexive DEF TypeInv, TypeOK
    <2>3. Role(w)'
      BY <1>1, <2>1 DEF Role, Guarded
    <2>4. Stays(w, Base(w))'
      <3>1. Stays(w, branch[c]) /\ ~Gone(w)
        BY <1>1 DEF Guarded, Gone
      <3>2. LastTree(Base(w))' = LastTree(branch[c]) /\ HubTree' = HubTree
        BY <1>1, <2>1 DEF LastTree, HubTree
      <3>3. IsPrefix(Base(w), hub)' <=> IsPrefix(branch[c], hub)
        BY <1>1, <2>1
      <3>4. QED
        BY <2>2, <3>1, <3>2, <3>3 DEF Stays
    <2>5. Stays(w, branch[c])'
      <3>1. LastId(h) = op[w].id
        BY <2>1 DEF Waiting, LastId
      <3>2. op[w].id \notin HubIds
        BY <1>1, UnpushedIsNowhere DEF Unpushed
      <3>3. ~IsPrefix(h, hub)
        BY <1>1, <2>1, <3>1, <3>2, LastIdOnHub
      <3>4. QED
        BY <1>1, <3>3 DEF Stays
    <2>6. Inside(w)'
      <3>1. SUFFICES ASSUME held[w] # Free, ~ReleasedLate
                     PROVE  /\ IsPrefix(branch[c], hub)
                            /\ EnteredOnLeftover(w)' \/ LastTree(branch[c]).lock = held[w]
        <4>1. LastTree(Base(w))' = LastTree(branch[c])
          BY <2>1 DEF LastTree
        <4>2. QED
          BY <1>1, <2>1, <2>2, <3>1, <4>1 DEF Inside
      <3>2. /\ IsPrefix(branch[c], hub)
            /\ EnteredOnLeftover(w) \/ LastTree(branch[c]).lock = held[w]
        BY <1>1, <3>1 DEF Guarded, Inside
      <3>3. ASSUME EnteredOnLeftover(w) PROVE EnteredOnLeftover(w)'
        <4>1. HeadTree(c).lock = Free /\ HeadTree(c) = LastTree(branch[c])
          BY <3>3 DEF EnteredOnLeftover, HeadTree, LastTree
        <4>2. op[w].kind = "ROW"
          BY <1>1, <2>1, <3>1, <4>1 DEF Waiting, Kinds, Guarded, Role, AtPush, LastTree, Base
        <4>3. tree[c].lock = held[w]
          BY <3>3, <4>2 DEF EnteredOnLeftover
        <4>4. HeadTree(c)'.lock = Free
          <5>1. HeadTree(c)' = LastTree(h)
            BY DEF HeadTree, LastTree
          <5>2. LastTree(h).lock = LastTree(branch[c]).lock
            BY <2>1, <4>2 DEF Waiting, LastTree, Base
          <5>3. QED
            BY <4>1, <5>1, <5>2
        <4>5. QED
          BY <2>1, <4>3, <4>4 DEF EnteredOnLeftover
      <3>4. QED
        BY <3>2, <3>3
    <2>7. QED
      BY <1>1, <2>1, <2>3, <2>4, <2>5, <2>6, LocalStepGuards DEF Guarded
  <1>3. CASE CommitFails(w)
    <2>1. Raise(w) /\ UNCHANGED <<branch, tree>> /\ OthersKept(c)
      BY <1>1, <1>3 DEF CommitFails, OthersKept, TypeInv, TypeOK
    <2>2. QED
      BY <1>1, <2>1, EarlyEndGuards
  <1>4. QED
    BY <1>2, <1>3

\* A push takes away no lock but the writer's own.
LEMMA PushTakesItsOwn ==
  ASSUME OneMergerPerTask, LockInv, NEW w \in Writers, Guarded(w), AtPush(w),
         hub' = branch[CloneOf[w]], op[w].before = hub,
         ReleasedLate => ReleasedLate', NEW v \in Writers, v # w
  PROVE  KeepsLockOf(v)
  <1> DEFINE h == branch[CloneOf[w]]
  <1>1. /\ TypeInv /\ Waiting(w) /\ op[w].kind \in Kinds
        /\ MayMerge[v] \subseteq Tasks
    BY Typed DEF LockInv, IInv, TypeInv, TypeOK, Op, Guarded, Role
  <1>2. HubTree = LastTree(op[w].before) /\ HubTree' = LastTree(h)
    BY DEF HubTree, LastTree
  <1>3. SUFFICES ASSUME HubTree.lock \in MayMerge[v], HubTree'.lock # HubTree.lock
                 PROVE  ReleasedLate'
    BY DEF KeepsLockOf
  <1>4. HubTree.lock # Free
    BY <1>1, <1>3, LedgerAssumption
  <1>5. LastTree(h).lock = Free
    BY <1>1, <1>2, <1>3, <1>4 DEF Waiting, Kinds
  <1>6. ReleasedLate \/ HubTree.lock \in MayMerge[w]
    BY <1>1, <1>2, <1>4, <1>5, ReleasesItsOwn
  <1>7. QED
    BY <1>3, <1>6 DEF OneMergerPerTask

\* What every push does, whatever its answer.
LEMMA PushBasics ==
  ASSUME OneMergerPerTask, LockInv, TypeInv', NEW w \in Writers, Push(w)
  PROVE  /\ pc[w] = "push" /\ AtPush(w) /\ Base(w) = op[w].before
         /\ HubGrows /\ Reports(w) /\ OthersKept(CloneOf[w])
         /\ branch' = branch /\ tree' = tree
         /\ hub' = hub \/ (hub' = branch[CloneOf[w]] /\ op[w].before = hub)
         /\ ReleasedLate => ReleasedLate'
         /\ \A v \in Writers \ {w} : KeepsLockOf(v)
  <1> DEFINE c == CloneOf[w]
             h == branch[c]
  <1>1. /\ IInv /\ TypeInv /\ Fate /\ Guarded(w) /\ hub \in Seq(Commit)
        /\ h \in Seq(Commit) /\ h # <<>> /\ op[w] \in Op
    BY BaseTyped DEF LockInv, IInv, Sections, TypeInv, TypeOK
  <1>2. /\ pc[w] = "push" /\ UNCHANGED cloneVars
        /\ hub' = hub \/ (hub' = h /\ IsPrefix(hub, h))
    BY <1>1, PushMoves
  <1>3. AtPush(w) /\ Base(w) = op[w].before /\ Waiting(w)
    BY <1>1, <1>2 DEF AtPush, Base, Guarded, Role
  <1>4. hub' = hub \/ (hub' = h /\ op[w].before = hub)
    <2>1. IsPrefix(Front(h), hub) /\ Front(h) = op[w].before
      BY <1>3 DEF Waiting
    <2>2. IsPrefix(hub, h) => hub = Front(h) \/ hub = h
      BY <1>1, <2>1, PrefixBetween
    <2>3. QED
      BY <1>2, <2>1, <2>2
  <1>5. HubGrows
    BY <1>1, <1>3, <1>4 DEF HubGrows, Waiting
  <1>6. Reports(w)
    <2>1. CASE Finish(w, TRUE) /\ hist'.recorded = hist.recorded \cup {op[w].id}
      BY <1>1, <1>2, <2>1 DEF Finish, Goto, Reports, TypeInv, TypeOK
    <2>2. ASSUME NEW finished \in BOOLEAN, PushNotConfirmed(w, finished),
                 hist'.recorded = hist.recorded
          PROVE  Reports(w)
      <3> DEFINE o == [op[w] EXCEPT !.head = h, !.finished = finished]
      <3>1. o.id = op[w].id
        BY <1>1 DEF Op
      <3>2. op' = [op EXCEPT ![w] = o] /\ pc' = [pc EXCEPT ![w] = "readback"]
        BY <2>2 DEF PushNotConfirmed, Goto
      <3> HIDE DEF o
      <3>3. QED
        BY <1>1, <1>2, <2>2, <3>1, <3>2 DEF Reports, TypeInv, TypeOK
    <2>3. QED
      BY <1>1, <2>1, <2>2, PushMoves
  <1>7. ReleasedLate => ReleasedLate'
    BY <1>1, <1>5, <1>6, LateStaysLate, GrowingHub
  <1>8. ASSUME NEW v \in Writers \ {w} PROVE KeepsLockOf(v)
    <2>1. CASE hub' = hub
      BY <2>1 DEF KeepsLockOf, HubTree
    <2>2. CASE hub' = h /\ op[w].before = hub
      BY <1>1, <1>3, <1>7, <2>2, PushTakesItsOwn
    <2>3. QED
      BY <1>4, <2>1, <2>2
  <1>9. branch' = branch /\ tree' = tree /\ OthersKept(c)
    BY <1>2 DEF cloneVars, OthersKept
  <1>10. QED
    BY <1>2, <1>3, <1>4, <1>5, <1>6, <1>7, <1>8, <1>9

\* The branch of a writer that reports success is on the hub, and so is its lock.
LEMMA SuccessGuards ==
  ASSUME LockInv, TypeInv', NEW w \in Writers, AtPush(w), Finish(w, TRUE), Reports(w),
         branch' = branch, tree' = tree, HubGrows, IsPrefix(branch[CloneOf[w]], hub'),
         Stays(w, branch[CloneOf[w]])'
  PROVE  Guarded(w)'
  <1> DEFINE c == CloneOf[w]
             h == branch[c]
  <1>1. /\ TypeInv /\ Fate /\ Guarded(w) /\ Waiting(w) /\ op[w].kind \in Kinds
        /\ pc[w] # "idle" /\ pc[w] # "commit" /\ Base(w) = op[w].before
    BY DEF LockInv, IInv, Sections, TypeInv, TypeOK, Op, Guarded, Role, AtPush, Base
  <1>2. /\ pc'[w] = "idle" /\ op'[w] = NoOp /\ held'[w] = Section(w, TRUE)
    BY <1>1 DEF Finish, Goto, TypeInv, TypeOK
  <1>3. ~AtPush(w)' /\ Base(w)' = h
    BY <1>2 DEF AtPush, Base
  <1>4. Stays(w, Base(w))' /\ Stays(w, branch[c])'
    BY <1>3 DEF Stays, LastTree
  <1>5. ReleasedLate => ReleasedLate'
    BY <1>1, LateStaysLate, GrowingHub
  <1>6. LastTree(Base(w))' = LastTree(h) /\ LastTree(h) = HeadTree(c)
    BY <1>3 DEF LastTree, HeadTree
  <1>7. CASE op[w].kind = "ROW"
    <2>1. held'[w] = held[w]
      BY <1>2, <1>7 DEF Section
    <2>2. EnteredOnLeftover(w) => EnteredOnLeftover(w)'
      BY <1>2, <1>7, <2>1 DEF EnteredOnLeftover, HeadTree
    <2>3. LastTree(op[w].before).lock = LastTree(h).lock
      BY <1>1, <1>7 DEF Waiting
    <2>4. Inside(w)'
      BY <1>1, <1>3, <1>5, <1>6, <2>1, <2>2, <2>3 DEF Inside, Guarded
    <2>5. Role(w)'
      BY <1>1, <1>2, <1>3, <2>1 DEF Role, Guarded
    <2>6. QED
      BY <1>4, <2>4, <2>5 DEF Guarded
  <1>8. CASE op[w].kind = "LOCK"
    <2>1. held'[w] = op[w].task /\ op[w].task \in MayMerge[w]
      BY <1>1, <1>2, <1>8 DEF Section, Guarded, Role
    <2>2. LastTree(h).lock = op[w].task
      BY <1>1, <1>8 DEF Waiting
    <2>3. Inside(w)'
      BY <1>3, <1>6, <2>1, <2>2 DEF Inside
    <2>4. Role(w)'
      BY <1>2, <1>3, <2>1 DEF Role
    <2>5. QED
      BY <1>4, <2>3, <2>4 DEF Guarded
  <1>9. CASE op[w].kind = "UNLOCK"
    <2>1. held'[w] = Free
      BY <1>2, <1>9 DEF Section
    <2>2. Inside(w)' /\ Role(w)'
      BY <1>2, <1>3, <2>1 DEF Inside, Role
    <2>3. QED
      BY <1>4, <2>2 DEF Guarded
  <1>10. QED
    BY <1>1, <1>7, <1>8, <1>9 DEF Kinds

LEMMA AcceptedGuards ==
  ASSUME OneWriterPerClone, OneMergerPerTask, LockInv, TypeInv', NEW w \in Writers,
         PushAccepted(w)
  PROVE  Sections'
  <1> DEFINE c == CloneOf[w]
             h == branch[c]
  <1>1. /\ Push(w) /\ Finish(w, TRUE) /\ hub' = h /\ inflight' = inflight
    BY DEF PushAccepted, Push
  <1>2. /\ pc[w] = "push" /\ AtPush(w) /\ HubGrows /\ Reports(w) /\ OthersKept(c)
        /\ branch' = branch /\ tree' = tree
        /\ \A v \in Writers \ {w} : KeepsLockOf(v)
    BY <1>1, PushBasics
  <1>3. TypeInv /\ Fate /\ Unanswered /\ hub' \in Seq(Commit) /\ IsPrefix(h, hub')
    BY <1>1, PrefixReflexive DEF LockInv, IInv, Sections, TypeInv, TypeOK
  <1>4. Stays(w, h)'
    BY <1>1, <1>2 DEF Stays, HubTree, LastTree
  <1>5. Guarded(w)'
    BY <1>1, <1>2, <1>3, <1>4, SuccessGuards
  <1>6. Elsewhere(w) /\ pc'[w] = "idle"
    BY <1>1, <1>2, <1>3 DEF Elsewhere, Finish, Goto, TypeInv, TypeOK
  <1>7. \A g \in inflight : LastId(g) # op[w].id
    BY <1>2, <1>3, UnpushedIsNowhere DEF Unpushed
  <1>8. Unanswered'
    BY <1>1, <1>2, <1>3, <1>6, <1>7, UnansweredStays
  <1>9. QED
    BY <1>2, <1>5, <1>6, <1>8, StepGuards

\* A push in flight is unanswered: the new one is the writer's own, and was not
\* reported.
LEMMA PushesUnanswered ==
  ASSUME TypeInv, TypeInv', Fate, NEW w \in Writers, Guarded(w), Unanswered, HubGrows,
         pc[w] = "push", inflight' \subseteq inflight \cup {branch[CloneOf[w]]},
         \A v \in Writers \ {w} : pc'[v] = pc[v] /\ op'[v] = op[v],
         hist'.recorded = hist.recorded,
         pc'[w] = "readback" =>
           op'[w].head = branch[CloneOf[w]] /\ op'[w].id = op[w].id
  PROVE  Unanswered'
  <1> DEFINE h == branch[CloneOf[w]]
  <1>1. LastId(h) = op[w].id /\ op[w].id \notin hist.recorded
    BY DEF Guarded, Role, Waiting, AtPush
  <1>2. \A g \in inflight : LastId(g) # op[w].id
    BY UnpushedIsNowhere DEF Unpushed
  <1> HIDE DEF h
  <1>3. inflight' \subseteq inflight \cup {h}
    BY DEF h
  <1>4. ASSUME NEW g \in inflight', LastId(g) \in hist'.recorded
        PROVE  IsPrefix(g, hub')
    <2>1. g \in inflight /\ g \in Seq(Commit)
      BY <1>1, <1>3, <1>4 DEF TypeInv, TypeOK
    <2>2. QED
      BY <1>4, <2>1, GrowingHub DEF Unanswered
  <1>5. ASSUME NEW v \in Writers, pc'[v] = "readback", NEW g \in inflight',
               LastId(g) = op'[v].id
        PROVE  g = op'[v].head
    <2>1. CASE v = w
      BY <1>2, <1>3, <1>5, <2>1 DEF h
    <2>2. CASE v # w
      <3>1. op[v].id # op[w].id
        BY <1>5, <2>2, RunningIds
      <3>2. g \in inflight
        BY <1>1, <1>3, <1>5, <2>2, <3>1
      <3>3. QED
        BY <1>5, <2>2, <3>2 DEF Unanswered
    <2>3. QED
      BY <2>1, <2>2
  <1>6. QED
    BY <1>4, <1>5 DEF Unanswered, LastId

LEMMA NotConfirmedGuards ==
  ASSUME OneWriterPerClone, OneMergerPerTask, LockInv, TypeInv', NEW w \in Writers,
         Push(w), NEW finished \in BOOLEAN, PushNotConfirmed(w, finished)
  PROVE  Sections'
  <1> DEFINE c == CloneOf[w]
             h == branch[c]
             b == op[w].before
             o == [op[w] EXCEPT !.head = h, !.finished = finished]
  <1>1. /\ pc[w] = "push" /\ AtPush(w) /\ Base(w) = b
        /\ HubGrows /\ Reports(w) /\ OthersKept(c)
        /\ branch' = branch /\ tree' = tree
        /\ hub' = hub \/ (hub' = h /\ b = hub)
        /\ ReleasedLate => ReleasedLate'
        /\ \A v \in Writers \ {w} : KeepsLockOf(v)
    BY PushBasics
  <1>2. /\ IInv /\ TypeInv /\ Fate /\ Guarded(w) /\ Waiting(w) /\ Unanswered
        /\ op[w] \in Op /\ op[w].kind \in Kinds /\ b \in Seq(Commit)
        /\ h \in Seq(Commit) /\ h # <<>> /\ Free \notin Tasks /\ MayMerge[w] \subseteq Tasks
    BY <1>1, BaseTyped, Typed, LedgerAssumption
    DEF LockInv, IInv, Sections, TypeInv, TypeOK, Op, Guarded, Role
  <1>3. /\ o.id = op[w].id /\ o.kind = op[w].kind /\ o.task = op[w].task
        /\ o.before = b /\ o.head = h
    BY <1>2 DEF Op
  <1>4. op' = [op EXCEPT ![w] = o] /\ pc' = [pc EXCEPT ![w] = "readback"]
        /\ held' = held /\ hist' = StartedPush(w)
    BY DEF PushNotConfirmed, Goto
  <1> HIDE DEF o
  <1>5. /\ pc'[w] = "readback" /\ op'[w] = o /\ held' = held
        /\ hist'.recorded = hist.recorded
        /\ inflight' \subseteq inflight \cup {h}
    <2>1. inflight' \subseteq inflight \cup {h}
      BY <1>2, PushMoves
    <2>2. StartedPush(w).recorded = hist.recorded
      BY <1>2 DEF StartedPush, TypeInv, TypeOK, History
    <2>3. QED
      BY <1>2, <1>4, <2>1, <2>2 DEF TypeInv, TypeOK
  <1>6. /\ AtPush(w)' /\ Base(w)' = b /\ branch'[c] = h
        /\ LastTree(Base(w))' = LastTree(b) /\ LastTree(branch[c])' = LastTree(h)
    BY <1>1, <1>3, <1>5 DEF AtPush, Base, LastTree
  <1>7. IsPrefix(b, hub) => IsPrefix(b, hub')
    BY <1>1, <1>2, GrowingHub
  <1>8. Role(w)'
    <2>1. Waiting(w)'
      BY <1>1, <1>2, <1>3, <1>5, <1>7 DEF Waiting, LastTree, LastId
    <2>2. QED
      BY <1>1, <1>2, <1>3, <1>5, <2>1 DEF Role, Guarded
  <1>9. Stays(w, branch[c])'
    <2>1. CASE hub' = h
      BY <1>1, <2>1 DEF Stays, LastTree, HubTree
    <2>2. CASE hub' = hub
      <3>1. LastId(h) = op[w].id /\ op[w].id \notin HubIds
        BY <1>1, <1>2, UnpushedIsNowhere DEF Waiting, Unpushed
      <3>2. ~IsPrefix(h, hub)
        BY <1>2, <3>1, LastIdOnHub
      <3>3. QED
        BY <1>1, <2>2, <3>2 DEF Stays
    <2>3. QED
      BY <1>1, <2>1, <2>2
  <1>10. Stays(w, Base(w))'
    <2>1. SUFFICES ASSUME IsPrefix(b, hub'), LastTree(b).lock \in MayMerge[w],
                          HubTree'.lock # LastTree(b).lock
                   PROVE  ReleasedLate' \/ Gone(w)'
      BY <1>6 DEF Stays
    <2>2. CASE hub' = hub
      <3>1. Stays(w, b) /\ HubTree' = HubTree /\ ~Gone(w)
        BY <1>1, <1>2, <2>2 DEF Guarded, HubTree, Gone
      <3>2. QED
        BY <1>1, <2>1, <2>2, <3>1 DEF Stays
    <2>3. CASE hub' = h
      <3>1. HubTree' = LastTree(h) /\ LastTree(b).lock # Free
        BY <1>2, <2>1, <2>3 DEF HubTree, LastTree
      <3>2. op[w].kind = "UNLOCK"
        BY <1>2, <2>1, <3>1 DEF Waiting, Kinds
      <3>3. IsPrefix(h, hub')
        BY <1>2, <2>3, PrefixReflexive
      <3>4. QED
        BY <1>3, <1>5, <3>2, <3>3 DEF Gone
    <2>4. QED
      BY <1>1, <2>2, <2>3
  <1>11. Inside(w)'
    <2>1. EnteredOnLeftover(w) => EnteredOnLeftover(w)'
      BY <1>1, <1>3, <1>5 DEF EnteredOnLeftover, HeadTree
    <2>2. QED
      BY <1>1, <1>2, <1>5, <1>6, <1>7, <2>1 DEF Inside, Guarded
  <1>12. Elsewhere(w)
    BY <1>1, <1>5 DEF Elsewhere
  <1>13. Unanswered'
    BY <1>1, <1>2, <1>3, <1>5, PushesUnanswered DEF Reports
  <1>14. Guarded(w)'
    BY <1>8, <1>9, <1>10, <1>11 DEF Guarded
  <1>15. QED
    BY <1>1, <1>12, <1>13, <1>14, StepGuards

LEMMA PushGuards ==
  ASSUME OneWriterPerClone, OneMergerPerTask, LockInv, TypeInv', NEW w \in Writers, Push(w)
  PROVE  Sections'
  <1>1. PushAccepted(w) \/ \E finished \in BOOLEAN : PushNotConfirmed(w, finished)
    BY DEF Push, PushRejected, PushReplyLost, PushKilled
  <1>2. QED
    BY <1>1, AcceptedGuards, NotConfirmedGuards

LEMMA ReadBackAcceptedGuards ==
  ASSUME OneWriterPerClone, LockInv, TypeInv', NEW w \in Writers, ReadBackAccepted(w)
  PROVE  Sections'
  <1> DEFINE c == CloneOf[w]
             h == branch[c]
  <1>1. /\ pc[w] = "readback" /\ IsPrefix(op[w].head, hub) /\ Finish(w, TRUE)
        /\ UNCHANGED <<netVars, cloneVars>>
        /\ hist' = [hist EXCEPT !.recorded = hist.recorded \cup {op[w].id}]
    BY DEF ReadBackAccepted, Succeed
  <1>2. /\ TypeInv /\ Fate /\ Unanswered /\ Guarded(w) /\ Waiting(w) /\ AtPush(w)
        /\ op[w].kind \in Kinds /\ Free \notin MayMerge[w]
    BY <1>1, Typed, LedgerAssumption
    DEF LockInv, IInv, Sections, TypeInv, TypeOK, Op, Guarded, Role, AtPush
  <1>3. /\ hub' = hub /\ inflight' = inflight /\ branch' = branch /\ tree' = tree
        /\ OthersKept(c) /\ HubGrows
        /\ hist'.recorded = hist.recorded \cup {op[w].id}
        /\ op[w].head = h /\ IsPrefix(h, hub)
    BY <1>1, <1>2 DEF netVars, cloneVars, OthersKept, HubGrows, TypeInv, TypeOK,
      History, Waiting
  <1>4. Elsewhere(w) /\ Reports(w) /\ pc'[w] = "idle"
    BY <1>1, <1>3, EndElsewhere
  <1>5. ReleasedLate => ReleasedLate'
    BY <1>2, <1>3, <1>4, LateStaysLate, GrowingHub
  <1>6. Stays(w, h)'
    <2>1. Stays(w, h)
      BY <1>2 DEF Guarded
    <2>2. Gone(w) => LastTree(h).lock = Free
      BY <1>2 DEF Gone, Waiting
    <2>3. IsPrefix(h, hub') /\ LastTree(h).lock \in MayMerge[w] =>
            HubTree'.lock = LastTree(h).lock \/ ReleasedLate'
      BY <1>2, <1>3, <1>5, <2>1, <2>2 DEF Stays, HubTree
    <2>4. LastTree(h)' = LastTree(h) /\ IsPrefix(h, hub)' = IsPrefix(h, hub')
      BY <1>3 DEF LastTree
    <2>5. QED
      BY <1>3, <2>3, <2>4 DEF Stays
  <1>7. Guarded(w)'
    BY <1>1, <1>2, <1>3, <1>4, <1>6, SuccessGuards
  <1>8. \A g \in inflight : LastId(g) = op[w].id => IsPrefix(g, hub')
    BY <1>1, <1>2, <1>3 DEF Unanswered
  <1>9. Unanswered'
    BY <1>2, <1>3, <1>4, <1>8, UnansweredStays
  <1>10. \A v \in Writers : KeepsLockOf(v)
    BY <1>3 DEF KeepsLockOf, HubTree
  <1>11. QED
    BY <1>3, <1>4, <1>7, <1>9, <1>10, StepGuards

\* A release that the hub has, and whose writer stops asking, is late.
LEMMA GoneBecomesLate ==
  ASSUME LockInv, TypeInv', NEW w \in Writers, Guarded(w), Gone(w), hub' = hub,
         hist'.recorded = hist.recorded, pc'[w] = "idle", Reports(w)
  PROVE  ReleasedLate'
  <1> DEFINE h == branch[CloneOf[w]]
  <1>1. /\ TypeInv /\ Fate /\ Waiting(w) /\ op[w].id \notin hist.recorded
        /\ h \in Seq(Commit) /\ h # <<>> /\ pc[w] # "idle"
        /\ op[w].head = h /\ op[w].kind = "UNLOCK" /\ op[w].before # <<>>
    BY BaseTyped DEF LockInv, IInv, Guarded, Role, Gone, AtPush, Waiting, TypeInv, NonEmpty
  <1>2. /\ Front(h) = op[w].before /\ LastId(h) = op[w].id
        /\ LastTree(op[w].before).lock # Free /\ LastTree(h).lock = Free
        /\ IsPrefix(h, hub')
    BY <1>1 DEF Waiting, Gone
  <1>3. \A v \in Writers : pc'[v] # "idle" => op'[v].id # op[w].id
    BY <1>1, RunningIds DEF Reports
  <1>4. QED
    BY <1>1, <1>2, <1>3, BecomesLate

LEMMA ReadBackFailsGuards ==
  ASSUME OneWriterPerClone, LockInv, TypeInv', NEW w \in Writers,
         ReadBackAbsent(w) \/ ReadBackUnreadable(w)
  PROVE  Sections'
  <1> DEFINE c == CloneOf[w]
             h == branch[c]
             b == op[w].before
             target == b[Len(b)].tree
  <1>1. /\ pc[w] = "readback" /\ Quarantine(c, b) /\ UNCHANGED netVars
        /\ Deny(w) \/ Raise(w)
    BY DEF ReadBackAbsent, ReadBackUnreadable
  <1>2. /\ TypeInv /\ Fate /\ Guarded(w) /\ Waiting(w) /\ AtPush(w) /\ Base(w) = b
        /\ op[w].kind \in Kinds /\ Free \notin MayMerge[w] /\ c \in Clones
        /\ b \in Seq(Commit) /\ h \in Seq(Commit) /\ hub' = hub /\ tree[c] \in Tree
    BY <1>1, Typed, LedgerAssumption
    DEF LockInv, IInv, Sections, TypeInv, TypeOK, Op, Guarded, Role, AtPush, Base, netVars
  <1>3. OthersKept(c)
    BY <1>1, <1>2, QuarantineLocal
  <1>4. /\ Elsewhere(w) /\ Reports(w) /\ pc'[w] = "idle" /\ op'[w] = NoOp
        /\ held'[w] = Section(w, FALSE) /\ hist'.recorded = hist.recorded
    BY <1>1, <1>3, DenyReports, EndElsewhere
  <1>5. held'[w] # Free => held'[w] = held[w] /\ op[w].kind = "ROW"
    BY <1>2, <1>4 DEF Section, Kinds
  <1>6. ReleasedLate => ReleasedLate'
    BY <1>2, <1>4, LateStaysLate, PrefixReflexive DEF TypeInv, TypeOK
  <1>7. ~AtPush(w)' /\ Base(w)' = branch'[c]
    BY <1>4 DEF AtPush, Base
  <1>8. CanMove(c, target) => branch'[c] = b /\ tree'[c].lock =
          IF target.lock = HeadTree(c).lock THEN tree[c].lock ELSE target.lock
    <2>1. CanMove(c, target) => MoveTo(c, b)
      BY <1>1 DEF Quarantine
    <2>2. MoveTo(c, b) =>
            /\ branch' = [branch EXCEPT ![c] = b]
            /\ tree' = [tree EXCEPT ![c] =
                          [rows |-> IF target.rows = HeadTree(c).rows
                                    THEN tree[c].rows ELSE target.rows,
                           lock |-> IF target.lock = HeadTree(c).lock
                                    THEN tree[c].lock ELSE target.lock]]
      BY DEF MoveTo
    <2> HIDE DEF target
    <2>3. QED
      BY <1>2, <2>1, <2>2 DEF TypeInv, TypeOK
  <1>9. ~CanMove(c, target) => branch'[c] = h
    BY <1>1 DEF Quarantine
  <1> HIDE DEF target
  <1>10. ASSUME NEW g \in {b, h}, IsPrefix(g, hub'), LastTree(g).lock \in MayMerge[w]
         PROVE  HubTree'.lock = LastTree(g).lock \/ ReleasedLate'
    <2>1. Stays(w, g) /\ HubTree' = HubTree
      BY <1>2 DEF Guarded, HubTree
    <2>2. Gone(w) => ReleasedLate'
      BY <1>2, <1>4, GoneBecomesLate
    <2>3. QED
      BY <1>2, <1>6, <1>10, <2>1, <2>2 DEF Stays
  <1>11. branch'[c] \in {b, h}
    BY <1>8, <1>9
  <1>12. Stays(w, branch[c])'
    BY <1>10, <1>11 DEF Stays, LastTree
  <1>13. Stays(w, Base(w))'
    BY <1>7, <1>12 DEF Stays, LastTree
  <1>14. Role(w)'
    BY <1>2, <1>4, <1>5, <1>7 DEF Role, Guarded
  <1>15. Inside(w)'
    <2>1. SUFFICES ASSUME held'[w] # Free, ~ReleasedLate
                   PROVE  /\ IsPrefix(branch'[c], hub)
                          /\ EnteredOnLeftover(w)' \/ LastTree(branch'[c]).lock = held'[w]
      BY <1>2, <1>6, <1>7 DEF Inside, LastTree
    <2>2. op[w].kind = "ROW" /\ held'[w] = held[w]
      BY <1>5, <2>1
    <2>3. /\ LastTree(h).lock = LastTree(b).lock /\ tree[c].rows = LastTree(h).rows
          /\ target = LastTree(b) /\ HeadTree(c) = LastTree(h) /\ IsPrefix(b, hub)
      BY <1>2, <2>2 DEF Waiting, LastTree, HeadTree, target
    <2>4. CanMove(c, target)
      BY <2>3 DEF CanMove
    <2>5. branch'[c] = b /\ tree'[c].lock = tree[c].lock
      BY <1>8, <2>3, <2>4
    <2>6. EnteredOnLeftover(w) \/ LastTree(b).lock = held[w]
      BY <1>2, <2>1, <2>2 DEF Guarded, Inside
    <2>7. CASE EnteredOnLeftover(w)
      <3>1. HeadTree(c).lock = Free /\ tree[c].lock = held[w]
        BY <1>1, <2>7 DEF EnteredOnLeftover
      <3>2. HeadTree(c)'.lock = Free
        BY <2>3, <2>5, <3>1 DEF HeadTree, LastTree
      <3>3. EnteredOnLeftover(w)'
        BY <2>2, <2>5, <3>1, <3>2 DEF EnteredOnLeftover
      <3>4. QED
        BY <2>3, <2>5, <3>3
    <2>8. CASE LastTree(b).lock = held[w]
      BY <2>2, <2>3, <2>5, <2>8
    <2>9. QED
      BY <2>6, <2>7, <2>8
  <1>16. QED
    BY <1>1, <1>4, <1>12, <1>13, <1>14, <1>15, LocalStepGuards DEF Guarded

LEMMA CrashGuards ==
  ASSUME OneWriterPerClone, LockInv, TypeInv', NEW w \in Writers, Crash(w)
  PROVE  Sections'
  <1> DEFINE c == CloneOf[w]
             h == branch[c]
  <1>1. /\ TypeInv /\ Fate /\ Guarded(w) /\ Unanswered /\ h \in Seq(Commit)
        /\ Free \notin MayMerge[w] /\ hub \in Seq(Commit)
    BY BaseTyped, Typed, LedgerAssumption DEF LockInv, IInv, Sections, TypeInv, TypeOK
  <1>2. /\ pc'[w] = "idle" /\ op'[w] = NoOp /\ held'[w] = Free
        /\ \A v \in Writers \ {w} : pc'[v] = pc[v] /\ op'[v] = op[v] /\ held'[v] = held[v]
        /\ hub' = hub /\ branch' = branch /\ OthersKept(c)
    BY <1>1 DEF Crash, Goto, cloneVars, OthersKept, TypeInv, TypeOK
  <1>3. hist'.recorded = hist.recorded
    BY <1>1 DEF Crash, StartedPush, TypeInv, TypeOK, History
  <1>4. Reports(w) /\ Elsewhere(w) /\ HubGrows
    BY <1>2, <1>3 DEF Reports, Elsewhere, HubGrows
  <1>5. ReleasedLate => ReleasedLate'
    BY <1>1, <1>2, <1>4, LateStaysLate, PrefixReflexive
  <1>6. ~AtPush(w)' /\ Base(w)' = h /\ branch'[c] = h
    BY <1>2 DEF AtPush, Base
  <1>7. Stays(w, branch[c])'
    <2>1. Stays(w, h)
      BY <1>1 DEF Guarded
    <2>2. Gone(w) => LastTree(h).lock = Free
      BY <1>1 DEF Gone, Guarded, Role, AtPush, Waiting
    <2>3. QED
      BY <1>1, <1>2, <1>5, <2>1, <2>2 DEF Stays, HubTree, LastTree
  <1>8. Stays(w, Base(w))'
    BY <1>6, <1>7 DEF Stays, LastTree
  <1>9. Role(w)' /\ Inside(w)'
    BY <1>2, <1>6 DEF Role, Inside
  <1>10. Guarded(w)'
    BY <1>7, <1>8, <1>9 DEF Guarded
  <1>11. \A v \in Writers : KeepsLockOf(v)
    BY <1>2 DEF KeepsLockOf, HubTree
  <1>12. Unanswered'
    <2>1. CASE inflight' = inflight
      BY <1>1, <1>2, <1>3, <1>4, <2>1, UnansweredStays
    <2>2. CASE pc[w] = "push" /\ inflight' = inflight \cup {h}
      BY <1>1, <1>2, <1>3, <1>4, <2>2, PushesUnanswered
    <2>3. QED
      BY <2>1, <2>2 DEF Crash
  <1>13. QED
    BY <1>4, <1>10, <1>11, <1>12, StepGuards

\* A killed push that lands takes away a lock only as its writer's own release.
LEMMA LandGuards ==
  ASSUME OneMergerPerTask, LockInv, TypeInv', Land
  PROVE  Sections'
  <1>1. PICK h \in inflight :
          IsStrictPrefix(hub, h) /\ hub' = h /\ inflight' = inflight \ {h}
    BY DEF Land
  <1>2. /\ TypeInv /\ Fate /\ Unanswered /\ h \in Seq(Commit) /\ h # <<>>
        /\ OneAhead(h) /\ IsPrefix(hub, h) /\ hub # h /\ hub \in Seq(Commit)
        /\ \A v \in Writers : Guarded(v)
        /\ UNCHANGED <<cloneVars, pc, op, held, hist>>
    BY <1>1 DEF Land, LockInv, IInv, Sections, TypeInv, TypeOK, NonEmpty, IsStrictPrefix
  <1>3. Front(h) = hub /\ HubGrows
    BY <1>1, <1>2, AcceptedExtendsHub DEF HubGrows
  <1>4. LedgerStep(HubTree, LastTree(h)) /\ HubTree' = LastTree(h)
    BY <1>1, <1>2, AcceptedExtendsHub DEF HubTree, LastTree
  <1>5. ~IsPrefix(h, hub)
    BY <1>2, PrefixAntisymmetric
  <1>6. LastId(h) \notin hist.recorded
    BY <1>2, <1>5 DEF Unanswered
  <1>7. ASSUME ReleasedLate PROVE ReleasedLate'
    <2>1. LastId(h) \in OpId
      BY <1>2 DEF Fate, Counted
    <2>2. PICK w \in Writers : TRUE
      BY <2>1 DEF OpId
    <2>3. Reports(w)
      BY <1>2 DEF Reports
    <2>4. QED
      BY <1>2, <1>3, <1>7, <2>3, LateStaysLate, GrowingHub
  <1>8. ASSUME NEW v \in Writers PROVE KeepsLockOf(v)
    <2>1. SUFFICES ASSUME HubTree.lock \in MayMerge[v], HubTree'.lock # HubTree.lock
                   PROVE  ReleasedLate' \/ Gone(v)'
      BY DEF KeepsLockOf
    <2>2. HubTree.lock # Free
      BY <2>1, Typed, LedgerAssumption
    <2>3. LastTree(h).lock = Free /\ LastTree(Front(h)) = HubTree
      BY <1>3, <1>4, <2>1, <2>2 DEF LedgerStep, LastTree, HubTree
    <2>4. CASE \E w \in Writers : pc[w] # "idle" /\ op[w].id = LastId(h)
      <3>1. PICK w \in Writers : pc[w] # "idle" /\ op[w].id = LastId(h)
        BY <2>4
      <3>2. pc[w] = "readback"
        BY <1>2, <3>1, UnpushedIsNowhere DEF Unpushed, TypeInv, TypeOK, Steps
      <3>3. h = op[w].head
        BY <1>2, <3>1, <3>2 DEF Unanswered
      <3>4. AtPush(w) /\ branch[CloneOf[w]] = h /\ op[w].before = hub
        BY <1>2, <1>3, <3>2, <3>3 DEF AtPush, Guarded, Role, Waiting
      <3>5. /\ op[w].kind = "UNLOCK"
            /\ ReleasedLate \/ HubTree.lock \in MayMerge[w]
        BY <1>2, <1>3, <2>2, <2>3, <3>4, ReleasesItsOwn
      <3>6. HubTree.lock \in MayMerge[w] => v = w
        BY <2>1 DEF OneMergerPerTask
      <3>7. IsPrefix(h, hub')
        BY <1>1, <1>2, PrefixReflexive
      <3>8. Gone(w)'
        BY <1>2, <3>2, <3>3, <3>5, <3>7 DEF Gone
      <3>9. QED
        BY <1>7, <3>5, <3>6, <3>8
    <2>5. CASE \A w \in Writers : pc[w] # "idle" => op[w].id # LastId(h)
      <3>1. IsPrefix(h, hub') /\ Front(h) # <<>>
        BY <1>1, <1>2, PrefixReflexive DEF OneAhead
      <3>2. QED
        BY <1>2, <1>6, <2>2, <2>3, <2>5, <3>1, BecomesLate
    <2>6. QED
      BY <2>4, <2>5
  <1>9. ASSUME NEW v \in Writers PROVE Guarded(v)'
    BY <1>2, <1>3, <1>7, <1>8, OtherGuarded DEF cloneVars
  <1>10. Unanswered'
    <2>1. ASSUME NEW g \in inflight', LastId(g) \in hist'.recorded
          PROVE  IsPrefix(g, hub')
      <3>1. g \in inflight /\ g \in Seq(Commit)
        BY <1>1 DEF LockInv, IInv, TypeInv, TypeOK
      <3>2. QED
        BY <1>2, <1>3, <2>1, <3>1, GrowingHub DEF Unanswered
    <2>2. ASSUME NEW v \in Writers, pc'[v] = "readback", NEW g \in inflight',
                 LastId(g) = op'[v].id
          PROVE  g = op'[v].head
      BY <1>1, <1>2, <2>2 DEF Unanswered
    <2>3. QED
      BY <2>1, <2>2 DEF Unanswered, LastId
  <1>11. QED
    BY <1>9, <1>10 DEF Sections

----------------------------------------------------------------------------
\* The theorem

LEMMA InitGuards == Init => Sections
  <1> SUFFICES ASSUME Init PROVE Sections
    OBVIOUS
  <1>1. /\ inflight = {} /\ hub = <<RootCommit>>
        /\ \A w \in Writers : pc[w] = "idle" /\ held[w] = Free /\ CloneOf[w] \in Clones
        /\ \A c \in Clones : branch[c] = <<RootCommit>>
    BY Typed DEF Init
  <1>2. ASSUME NEW w \in Writers PROVE Guarded(w)
    <2>1. Base(w) = hub /\ branch[CloneOf[w]] = hub /\ ~AtPush(w)
      BY <1>1 DEF Base, AtPush
    <2>2. Stays(w, Base(w)) /\ Stays(w, branch[CloneOf[w]])
      BY <2>1 DEF Stays, HubTree, LastTree
    <2>3. Role(w) /\ Inside(w)
      BY <1>1, <2>1 DEF Role, Inside
    <2>4. QED
      BY <2>2, <2>3 DEF Guarded
  <1>3. Unanswered
    BY <1>1 DEF Unanswered
  <1>4. QED
    BY <1>2, <1>3 DEF Sections

LEMMA NextGuards ==
  ASSUME OneWriterPerClone, OneMergerPerTask, LockInv, IInv', [Next]_vars
  PROVE  Sections'
  <1>1. TypeInv'
    BY DEF IInv
  <1>2. CASE UNCHANGED vars
    <2>1. /\ UNCHANGED <<hub, inflight, branch, tree, pc, op, held, hist>>
          /\ TypeInv /\ HubGrows /\ Unanswered
          /\ \A v \in Writers : Guarded(v)
      BY <1>2 DEF vars, netVars, cloneVars, HubGrows, LockInv, IInv, Sections
    <2>2. ReleasedLate => ReleasedLate'
      BY <2>1 DEF ReleasedLate
    <2>3. \A v \in Writers : KeepsLockOf(v)
      BY <2>1 DEF KeepsLockOf, HubTree
    <2>4. \A v \in Writers : Guarded(v)'
      BY <1>1, <2>1, <2>2, <2>3, OtherGuarded
    <2>5. Unanswered'
      BY <2>1 DEF Unanswered
    <2>6. QED
      BY <2>4, <2>5 DEF Sections
  <1>3. CASE Land
    BY <1>1, <1>3, LandGuards
  <1>4. ASSUME NEW w \in Writers,
               BeginAppend(w) \/ BeginAcquire(w) \/ BeginRelease(w) \/ Step(w) \/ Crash(w)
        PROVE  Sections'
    BY <1>1, <1>4, BeginGuards, PullGuards, CheckGuards, WriteGuards, CommitGuards,
       PushGuards, ReadBackAcceptedGuards, ReadBackFailsGuards, CrashGuards
    DEF Step, ReadBack
  <1>5. QED
    BY <1>2, <1>3, <1>4 DEF Next

\* Whoever is inside a merge section, the hub's lock names that task, but for a section
\* entered on a file a crash left behind, the read-back of one's own release and a
\* release that landed late, for all writers with clones and tasks of their own.
THEOREM SectionsAreLocked ==
  OneWriterPerClone /\ OneMergerPerTask /\ Spec => []SectionIsLocked
  <1>1. SUFFICES ASSUME OneWriterPerClone, OneMergerPerTask
                 PROVE  Spec => []SectionIsLocked
    OBVIOUS
  <1>2. IInv /\ [Next]_vars => IInv'
    BY <1>1, NextKeeps
  <1>3. IInv /\ IInv' /\ Fate /\ Sections /\ [Next]_vars => Sections'
    BY <1>1, NextGuards DEF LockInv
  <1>4. Sections => SectionIsLocked
    <2> SUFFICES ASSUME Sections, NEW w \in Writers, held[w] # Free
                 PROVE  \/ HubTree.lock = held[w]
                        \/ EnteredOnLeftover(w) \/ Releasing(w) \/ ReleasedLate
      BY DEF SectionIsLocked
    <2>1. Guarded(w)
      BY DEF Sections
    <2>2. held[w] \in MayMerge[w]
      BY <2>1 DEF Guarded, Role
    <2>3. QED
      BY <2>1, <2>2 DEF Guarded, Inside, Stays, Gone, Releasing
  <1>5. Spec => []Fate
    BY <1>1, FateInvariant
  <1>6. QED
    BY <1>2, <1>3, <1>4, <1>5, InitEstablishes, InitGuards, PTL DEF Spec

=============================================================================
