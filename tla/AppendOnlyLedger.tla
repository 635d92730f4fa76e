-------------------------- MODULE AppendOnlyLedger --------------------------
(***************************************************************************)
(* What the shared devswarm-ledger promises, whoever writes it and whatever *)
(* fails: one chain of rows that only grows, each new row naming the row    *)
(* that was last when it landed (RL-009 and the prev_hash rule), and one    *)
(* merge lock that is taken only while free.                                *)
(*                                                                         *)
(* A row is abstracted to its identity (its hash) and to the identity it    *)
(* names as its predecessor.                                                *)
(***************************************************************************)
EXTENDS Naturals, Sequences

CONSTANTS RowId,    \* the identities (hashes) rows can have
          Genesis,  \* the identity of the genesis row
          Tasks,    \* the tasks a merge lock can be taken for
          Free      \* the lock's value when nobody holds it

Row == [id : RowId, prev : RowId]

GenesisRow == [id |-> Genesis, prev |-> Genesis]

\* The value approvals bind to: the hash of the last row.
HeadOf(rs) == rs[Len(rs)].id

VARIABLES rows, lock

ledgerVars == <<rows, lock>>

LedgerInit == /\ rows = <<GenesisRow>>
              /\ lock = Free

AppendRow == /\ Len(rows') = Len(rows) + 1
             /\ SubSeq(rows', 1, Len(rows)) = rows
             /\ rows'[Len(rows')] \in Row
             /\ rows'[Len(rows')].prev = HeadOf(rows)
             /\ UNCHANGED lock

TakeLock == /\ lock = Free
            /\ \E t \in Tasks : lock' = t
            /\ UNCHANGED rows

ReleaseLock == /\ lock # Free
               /\ lock' = Free
               /\ UNCHANGED rows

LedgerNext == AppendRow \/ TakeLock \/ ReleaseLock

LedgerSpec == LedgerInit /\ [][LedgerNext]_ledgerVars

=============================================================================
