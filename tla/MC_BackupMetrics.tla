-------------------------- MODULE MC_BackupMetrics --------------------------
(* Lists of up to three backups at fixed labels and repositories: the second  *)
(* lives in the second repository, under the label the first has in the first *)
(* one.  Types, block maps and stop times are free: 0..2 gives ties and the   *)
(* absent timestamp, and the times rise and fall along the list (pgBackRest   *)
(* sorts it by label, not by stop time).                                      *)
EXTENDS BackupMetrics

CONSTANTS b1, b2, p1, p2, p3, MaxStop

MCLabel == {b1, b2}
MCInfo  == {p1, p2, p3}
MCClock == {1, 3}

References == [full |-> << >>, diff |-> <<"F">>, incr |-> <<"D", "invalid", "I">>]

BackupAt(label, info, repo) ==
  {[label |-> label, type |-> type, repo |-> repo, stop |-> stop,
    sizeMap |-> block, deltaMap |-> block, info |-> info,
    reference |-> References[type]] :
   type \in Types, stop \in 0..MaxStop, block \in BOOLEAN}

\* An unfiltered list starts a chain with a full backup; a list filtered with
\* backup-type has one type only.
Reported(list) ==
  \/ \E j \in DOMAIN list : /\ list[j].type = "full"
                            /\ \A k \in DOMAIN list : list[j].stop <= list[k].stop
  \/ \A j, k \in DOMAIN list : list[j].type = list[k].type

MCBackupData ==
  {list \in {<< >>}
      \cup {<<x>> : x \in BackupAt(b1, p1, 1)}
      \cup {<<x, y>> : x \in BackupAt(b1, p1, 1), y \in BackupAt(b1, p2, 2)}
      \cup {<<x, y, z>> : x \in BackupAt(b1, p1, 1), y \in BackupAt(b1, p2, 2),
                         z \in BackupAt(b2, p3, 1)} : Reported(list)}
=============================================================================
