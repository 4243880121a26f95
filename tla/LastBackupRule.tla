--------------------------- MODULE LastBackupRule ---------------------------
(***************************************************************************)
(* The promise of README.md ("Additional description of metrics") on the   *)
(* pgbackrest_backup_last_* series of one stanza, without the slots and    *)
(* the single walk over the list that compute them:                        *)
(*   - diff takes the full backup's value if the last backup was full;     *)
(*   - incr takes the full or differential value if that came last;        *)
(*   - with no full backup listed (backup-type incr or diff) there are no  *)
(*     `last' series.                                                      *)
(***************************************************************************)
EXTENDS Integers, Sequences

VARIABLES backups, currentUnixTime, published

ruleVars == <<backups, currentUnixTime, published>>

\* The positions of the last backups of one type (at most one): the latest
\* stop time, and the first of those the list names.
LastOf(type) ==
  {j \in DOMAIN backups :
     /\ backups[j].type = type
     /\ \A k \in DOMAIN backups :
          backups[k].type = type =>
            \/ backups[k].stop < backups[j].stop
            \/ backups[k].stop = backups[j].stop /\ j <= k}

\* Of the positions of two selections, those no other one is later than.
Later(S, T) ==
  {j \in S \cup T : \A k \in S \cup T :
     \/ backups[k].stop < backups[j].stop
     \/ backups[k].stop = backups[j].stop /\ j <= k}

Selected ==
  LET Full == LastOf("full")
      Diff == Later(Full, LastOf("diff"))
  IN  [full |-> Full, diff |-> Diff, incr |-> Later(Diff, LastOf("incr"))]

\* Whatever the list and the clock.
Init == published = {}

Publish(type) ==
  /\ LastOf("full") # {}
  /\ \E j \in Selected[type] :
       published' = published \cup
         {[type |-> type, info |-> backups[j].info,
           since |-> currentUnixTime - backups[j].stop]}
  /\ UNCHANGED <<backups, currentUnixTime>>

Next == \E type \in {"full", "diff", "incr"} : Publish(type)

\* Every type's series is published in the end.
SafeSpec == Init /\ [][Next]_ruleVars
Spec == /\ SafeSpec
        /\ \A type \in {"full", "diff", "incr"} : WF_ruleVars(Publish(type))
=============================================================================
