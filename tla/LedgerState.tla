----------------------------- MODULE LedgerState -----------------------------
(***************************************************************************)
(* One reading of a task's ledger rows (ledger_state.py): rows are read in  *)
(* order, the latest status-bearing action is the task's state, and the     *)
(* candidate, the recorded execution and the signature belong to the latest *)
(* admission.                                                               *)
(***************************************************************************)
EXTENDS Naturals, SequencesExt

CONSTANT NoSha  \* a row or a queue file that names no commit

StatusActions == {"ADMITTED", "EXECUTED", "REVIEWED", "REDLINE", "INCOMPLETE",
                  "ESCALATED", "SIGNED", "MERGED", "ABANDONED"}
RecordOnlyActions == {"GENESIS", "EVIDENCE", "CORRECTION"}
WithholdingActions == {"REDLINE", "INCOMPLETE", "ESCALATED"}
TerminalActions == {"MERGED", "ABANDONED"}

\* A task with no status-bearing row has the action "".
NoState == [action |-> "", candidate |-> NoSha, recorded |-> FALSE, signed |-> FALSE]

\* A REVIEWED row on merged work is a sample of it, not a status.
BearsStatus(state, row) ==
  /\ row.action \in StatusActions
  /\ ~(row.action = "REVIEWED" /\ state.action = "MERGED")

\* An admission opens fresh; EXECUTED names the candidate; SIGNED signs it.
ReadRow(state, row) ==
  LET admitted == row.action = "ADMITTED"
  IN  IF ~BearsStatus(state, row) THEN state ELSE
        [action    |-> row.action,
         candidate |-> CASE admitted                -> NoSha
                         [] row.action = "EXECUTED" -> row.sha
                         [] OTHER                   -> state.candidate,
         recorded  |-> ~admitted /\ (row.action = "EXECUTED" \/ state.recorded),
         signed    |-> ~admitted /\ (row.action = "SIGNED" \/ state.signed)]

TaskRows(rows, task) == SelectSeq(rows, LAMBDA row : row.task = task)

CurrentState(rows, task) == FoldLeft(ReadRow, NoState, TaskRows(rows, task))

Terminal(state) == state.action \in TerminalActions
Withheld(state) == state.action \in WithholdingActions

\* why_not_signable returns None.
Signable(state) ==
  /\ state.action # ""
  /\ ~Terminal(state) /\ ~Withheld(state)
  /\ ~state.signed
  /\ state.candidate # NoSha

\* record_executed refuses: an execution, a signature or an end is recorded.
Closed(state) == state.recorded \/ state.signed \/ Terminal(state)

=============================================================================
