-------------------------- MODULE MC_LatestDBCount --------------------------
(* Two cycles.  In the first the last backups are a full, optionally a        *)
(* differential and optionally an incremental one; before the second either   *)
(* a new full backup was taken, so that all three types move to it, or a      *)
(* differential one became (or, the incremental one expired, stayed) the last.*)
EXTENDS LatestDBCount

CONSTANTS f1, d1, i1, f2

F1 == [label |-> f1, blockIncr |-> "n"]
D1 == [label |-> d1, blockIncr |-> "y"]
I1 == [label |-> i1, blockIncr |-> "y"]
F2 == [label |-> f2, blockIncr |-> "n"]

\* The slots as compareLastBackups leaves them: a type without a newer backup of
\* its own shares the slot before it.
First  == {[full |-> F1, diff |-> d, incr |-> i] : d \in {F1, D1}, i \in {I1}}
          \cup {[full |-> F1, diff |-> d, incr |-> d] : d \in {F1, D1}}
Second == {[full |-> F2, diff |-> F2, incr |-> F2],
           [full |-> F1, diff |-> D1, incr |-> D1]}

MCLastBackups == <<First, Second>>
MCDatabaseRef == [b \in {f1, d1, i1, f2} |->
                    CASE b = f1 -> 1 [] b = d1 -> 2 [] b = i1 -> 3 [] b = f2 -> 4]
=============================================================================
