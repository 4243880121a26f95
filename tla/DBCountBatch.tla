---------------------------- MODULE DBCountBatch ----------------------------
(***************************************************************************)
(* What getBackupDBCountMetrics promises its caller: the backups of the    *)
(* list get their pgbackrest_backup_databases series one at a time, in any *)
(* order, each once; the call returns when all have theirs and then the    *)
(* series stay as they are.                                                *)
(***************************************************************************)
EXTENDS Integers

CONSTANTS NumBackups, DatabaseRef
VARIABLES series, returned

batchVars == <<series, returned>>

NoValue == -1

Init == /\ series = [b \in 1..NumBackups |-> NoValue]
        /\ returned = FALSE

\* A failed fetch exports 0.
Report(b) ==
  /\ ~returned /\ series[b] = NoValue
  /\ \E v \in {0, DatabaseRef[b]} : series' = [series EXCEPT ![b] = v]
  /\ UNCHANGED returned

Return ==
  /\ ~returned /\ \A b \in 1..NumBackups : series[b] # NoValue
  /\ returned' = TRUE
  /\ UNCHANGED series

Next == Return \/ \E b \in 1..NumBackups : Report(b)

SafeSpec == Init /\ [][Next]_batchVars
Spec     == SafeSpec /\ WF_batchVars(Next)
=============================================================================
