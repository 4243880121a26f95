---------------------------- MODULE BackupMetrics ----------------------------
(***************************************************************************)
(* What one stanza's backup list turns into (getBackupMetrics,             *)
(* compareLastBackups, getBackupLastMetrics).  The exporter walks the list *)
(* once: every backup gets its own series, and on the way three slots pick *)
(* the last full, differential and incremental backup.  If a full backup   *)
(* was seen, each slot is then published as the `last' series of its type. *)
(*                                                                         *)
(* The payload of a backup (sizes, duration, error, annotations) is one    *)
(* opaque value `info': the code copies those fields together, always from *)
(* the same backup, and the properties only ask from which one they came.  *)
(***************************************************************************)
EXTENDS Integers, Sequences, FiniteSets

CONSTANTS
  Label,       \* backup labels
  Info,        \* payloads of a backup
  NoInfo,      \* the payload of a slot nothing was stored in
  BackupData,  \* the backup lists pgBackRest may report for the stanza
  Clock        \* the values time.Now().Unix() may have at the cycle's start

Types == {"full", "diff", "incr"}

\* time.Time{} lies before every Unix time, so a backup whose timestamp is
\* absent (stop = 0) is still After it.
NoTime == -1

\* What a name in a backup's reference list ends with.
BackupKind == {"F", "D", "I", "invalid"}

Backup == [label: Label, type: Types, repo: Nat, stop: Nat,
           sizeMap: BOOLEAN, deltaMap: BOOLEAN, info: Info,
           reference: Seq(BackupKind)]

ASSUME BackupDataAssumption == BackupData \subseteq Seq(Backup)
\* pgBackRest gives a backup a label no other backup of its repository has.
ASSUME LabelsAssumption ==
  \A list \in BackupData : \A j, k \in DOMAIN list :
    list[j].label = list[k].label /\ list[j].repo = list[k].repo => j = k
ASSUME ClockAssumption      == Clock \subseteq Nat

VARIABLES
  backups,          \* the list pgBackRest returned, and the rest of the call's
  currentUnixTime,  \*   arguments: the cycle's clock and
  backupRefCount,   \*   the flag reference-count
  pc,
  next,             \* loop index: the next backup of the list
  lastBackups,      \* the slots full, diff and incr
  backupSeries,     \* pgbackrest_backup_*       (one element per label set)
  lastSeries        \* pgbackrest_backup_last_*  (one element per label set)

vars == <<backups, currentUnixTime, backupRefCount, pc, next, lastBackups,
          backupSeries, lastSeries>>
input == <<backups, currentUnixTime, backupRefCount>>

-----------------------------------------------------------------------------
\* Block incremental is used iff both maps are present.
checkBackupIncremental(b) == IF b.sizeMap /\ b.deltaMap THEN "y" ELSE "n"

\* References by kind; counting stops at the first name it does not know, and
\* what was counted until then is what the caller exports.
getBackupReferencesTotal(ref) ==
  LET Total(kind) == Cardinality({j \in DOMAIN ref :
                       ref[j] = kind /\ \A k \in 1..j : ref[k] # "invalid"})
  IN  [full |-> Total("F"), diff |-> Total("D"), incr |-> Total("I")]

NotExported == "not exported"

\* The backup types a slot listens to.
Feeds == [full |-> {"full"}, diff |-> {"full", "diff"}, incr |-> Types]

EmptySlot == [label |-> "", time |-> NoTime, blockIncr |-> "",
              info |-> NoInfo, reference |-> << >>]

SlotOf(b) == [label |-> b.label, time |-> b.stop,
              blockIncr |-> checkBackupIncremental(b),
              info |-> b.info, reference |-> b.reference]

Slot == [label: Label \cup {""}, time: Nat \cup {NoTime},
         blockIncr: {"", "y", "n"}, info: Info \cup {NoInfo},
         reference: Seq(BackupKind)]

initLastBackupStruct == [slot \in Types |-> EmptySlot]

\* Defect: of backups that stopped in the same second the last of the list wins.
CompareNotBefore(last, b) ==
  [slot \in Types |->
     IF b.type \in Feeds[slot] /\ b.stop >= last[slot].time
       THEN SlotOf(b) ELSE last[slot]]

\* Defect: a filled slot keeps its block_incr when it moves to a later backup.
CompareKeepsBlockIncr(last, b) ==
  [slot \in Types |->
     IF b.type \in Feeds[slot] /\ b.stop > last[slot].time
       THEN IF last[slot] = EmptySlot THEN SlotOf(b)
            ELSE [SlotOf(b) EXCEPT !.blockIncr = last[slot].blockIncr]
       ELSE last[slot]]

compareLastBackups(last, b) ==
  [slot \in Types |->
     IF b.type \in Feeds[slot] /\ b.stop > last[slot].time
       THEN SlotOf(b) ELSE last[slot]]

\* GaugeVec: setting a label set again replaces its value.
setUpMetric(series, labels, value) ==
  {s \in series : s.labels # labels} \cup {[labels |-> labels, value |-> value]}

\* Defect: the label repo_key is missing.
BackupLabelsWithoutRepo(b) ==
  [label |-> b.label, type |-> b.type, blockIncr |-> checkBackupIncremental(b),
   repo |-> 0]

\* The label set and the values of the per-backup families.
BackupLabels(b) == [label |-> b.label, type |-> b.type,
                    blockIncr |-> checkBackupIncremental(b), repo |-> b.repo]
BackupValue(b) ==
  [info |-> b.info,
   references |-> IF backupRefCount THEN getBackupReferencesTotal(b.reference)
                                    ELSE NotExported]

\* The label set and the values of the last-backup families.
LastLabels(slot) == [type |-> slot, blockIncr |-> lastBackups[slot].blockIncr]
\* Defect: every type counts the seconds since the full backup.
LastValueSinceFull(slot) ==
  [info       |-> lastBackups[slot].info,
   since      |-> currentUnixTime - lastBackups["full"].time,
   references |-> getBackupReferencesTotal(lastBackups[slot].reference)]

LastValue(slot) ==
  [info       |-> lastBackups[slot].info,
   since      |-> currentUnixTime - lastBackups[slot].time,
   references |-> getBackupReferencesTotal(lastBackups[slot].reference)]

-----------------------------------------------------------------------------
Init == /\ backups \in BackupData
        /\ currentUnixTime \in Clock
        /\ backupRefCount \in BOOLEAN
        /\ pc = "loop"
        /\ next = 1
        /\ lastBackups = initLastBackupStruct
        /\ backupSeries = {}
        /\ lastSeries = {}

\* Defect: the index is advanced twice.
ProcessEveryOtherBackup ==
  /\ pc = "loop" /\ next <= Len(backups)
  /\ backupSeries' = setUpMetric(backupSeries, BackupLabels(backups[next]),
                                 BackupValue(backups[next]))
  /\ lastBackups' = compareLastBackups(lastBackups, backups[next])
  /\ next' = next + 2
  /\ UNCHANGED <<input, pc, lastSeries>>

\* One iteration of getBackupMetrics.
ProcessBackup ==
  /\ pc = "loop" /\ next <= Len(backups)
  /\ backupSeries' = setUpMetric(backupSeries, BackupLabels(backups[next]),
                                 BackupValue(backups[next]))
  /\ lastBackups' = compareLastBackups(lastBackups, backups[next])
  /\ next' = next + 1
  /\ UNCHANGED <<input, pc, lastSeries>>

\* Defect: the caller does not test for a full backup.
ReturnWithoutFullGate ==
  /\ pc = "loop" /\ next > Len(backups)
  /\ pc' = "full"
  /\ UNCHANGED <<input, next, lastBackups, backupSeries, lastSeries>>

\* The end of the list: the caller goes on only if a full backup was stored.
ReturnLastBackups ==
  /\ pc = "loop" /\ next > Len(backups)
  /\ pc' = IF lastBackups["full"].time = NoTime THEN "done" ELSE "full"
  /\ UNCHANGED <<input, next, lastBackups, backupSeries, lastSeries>>

\* One iteration of getBackupLastMetrics.
SetLast(slot, then) ==
  /\ pc = slot
  /\ lastSeries' = setUpMetric(lastSeries, LastLabels(slot), LastValue(slot))
  /\ pc' = then
  /\ UNCHANGED <<input, next, lastBackups, backupSeries>>

getBackupLastMetrics == \/ SetLast("full", "diff")
                        \/ SetLast("diff", "incr")
                        \/ SetLast("incr", "done")

Terminated == pc = "done" /\ UNCHANGED vars

Next == ProcessBackup \/ ReturnLastBackups \/ getBackupLastMetrics \/ Terminated

\* The loop runs on the collector's own goroutine and calls nothing that blocks.
Spec == Init /\ [][Next]_vars /\ WF_vars(Next)

-----------------------------------------------------------------------------
TypeOK ==
  /\ backups \in Seq(Backup) /\ currentUnixTime \in Nat
  /\ backupRefCount \in BOOLEAN
  /\ pc \in {"loop", "full", "diff", "incr", "done"}
  /\ next \in 1..Len(backups) + 1
  /\ lastBackups \in [Types -> Slot]

Eligible(slot, n) == {j \in 1..n : backups[j].type \in Feeds[slot]}

\* Backup j is the last of the first n backups the slot listens to; of several
\* that stopped in the same second it is the first in the list.
IsLatest(j, slot, n) ==
  /\ j \in Eligible(slot, n)
  /\ \A k \in Eligible(slot, n) :
       \/ backups[k].stop < backups[j].stop
       \/ backups[k].stop = backups[j].stop /\ j <= k

\* compareLastBackups: whatever the order of the list, a slot holds the last
\* eligible backup walked so far, all its fields taken from that one backup, and
\* it is empty only if there was none (a stop time of 0 still counts).
SlotsHoldLatest ==
  \A slot \in Types :
    \/ /\ Eligible(slot, next - 1) = {}
       /\ lastBackups[slot] = EmptySlot
    \/ \E j \in 1..(next - 1) :
         /\ IsLatest(j, slot, next - 1)
         /\ lastBackups[slot] = SlotOf(backups[j])

\* The slots are never older than the ones they fall back to; in particular a
\* full backup fills all three, which is why GetPgBackRestInfo tests only full.
SlotsOrdered ==
  /\ lastBackups["full"].time <= lastBackups["diff"].time
  /\ lastBackups["diff"].time <= lastBackups["incr"].time

SeriesOf(j) == [labels |-> BackupLabels(backups[j]), value |-> BackupValue(backups[j])]

\* getBackupMetrics: each backup walked so far has a series with its own value.
\* None overwrites another's, although backups of two repositories may have the
\* same label, and there are no other series.
OneSeriesPerBackup == backupSeries = {SeriesOf(j) : j \in 1..(next - 1)}

\* getBackupLastMetrics: when the stanza is finished and the list had a full
\* backup, each type has exactly one `last' series (two block_incr values never
\* coexist); without a full backup there are none.
LastSeriesAllOrNone ==
  pc = "done" =>
    IF \E j \in 1..Len(backups) : backups[j].type = "full"
    THEN \A type \in Types : Cardinality({s \in lastSeries : s.labels.type = type}) = 1
    ELSE lastSeries = {}

\* A `last' series repeats what the per-backup series of some backup says: the
\* same payload under the same block_incr label, so the two sets of metrics can
\* be joined.
LastAgreesWithBackupSeries ==
  \A s \in lastSeries : \E b \in backupSeries :
    /\ b.value.info = s.value.info
    /\ b.labels.blockIncr = s.labels.blockIncr
    /\ b.labels.type \in Feeds[s.labels.type]

-----------------------------------------------------------------------------
\* What the README promises of the published series.
Rule == INSTANCE LastBackupRule WITH
          published <- {[type |-> s.labels.type, info |-> s.value.info,
                         since |-> s.value.since] : s \in lastSeries}

ImplementsRule == Rule!Spec
=============================================================================
