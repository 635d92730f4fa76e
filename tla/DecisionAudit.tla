--------------------------- MODULE DecisionAudit ---------------------------
(***************************************************************************)
(* What the store of `dx learn` promises (learn_store.py: one Tx is atomic,  *)
(* accepted only at the revisions it was read at, and recorded exactly       *)
(* once): a transaction extends every record it writes and, if it is         *)
(* audited, the audit chain, in one step, and never a second time.           *)
(*                                                                         *)
(* A record is the sequence of the transactions that wrote it: its revision *)
(* is its length, and an update that got lost is a transaction missing.      *)
(***************************************************************************)
EXTENDS Naturals, Sequences

CONSTANTS Records,  \* the recommendations, adoptions and forward records
          TxIds     \* the identities of transactions

VARIABLES records,  \* each record's transactions, oldest first
          audit     \* the audited transactions, oldest first

storeVars == <<records, audit>>

StoreInit ==
  /\ records = [r \in Records |-> <<>>]
  /\ audit = <<>>

Occurs(tx, s) == \E i \in DOMAIN s : s[i] = tx

IsNew(tx) == ~Occurs(tx, audit) /\ \A r \in Records : ~Occurs(tx, records[r])

Commit(tx, writes, audited) ==
  /\ IsNew(tx)
  /\ records' = [r \in Records |-> IF r \in writes THEN Append(records[r], tx)
                                                   ELSE records[r]]
  /\ audit' = IF audited THEN Append(audit, tx) ELSE audit

StoreNext ==
  \E tx \in TxIds, writes \in (SUBSET Records) \ {{}}, audited \in BOOLEAN :
    Commit(tx, writes, audited)

StoreSpec == StoreInit /\ [][StoreNext]_storeVars

=============================================================================
