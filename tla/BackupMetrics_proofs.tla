------------------------- MODULE BackupMetrics_proofs -------------------------
(***************************************************************************)
(* For every backup list, of any length and in any order: the walk of      *)
(* getBackupMetrics finds the last backups, and what getBackupLastMetrics  *)
(* publishes is what the README's rule selects.                            *)
(***************************************************************************)
EXTENDS BackupMetrics, FiniteSetTheorems, TLAPS

USE DEF Types

\* The published slots, by where the walk is.
Published == CASE pc = "diff" -> {"full"}
               [] pc = "incr" -> {"full", "diff"}
               [] pc = "done" -> IF lastBackups["full"].time = NoTime
                                 THEN {} ELSE Types
               [] OTHER -> {}

\* After the walk all backups were seen, the slots are published in order, and only
\* if there is a full backup.
PublicationInOrder ==
  /\ pc # "loop" => next = Len(backups) + 1
  /\ pc \in Types => lastBackups["full"].time # NoTime
  /\ lastSeries = {[labels |-> LastLabels(slot), value |-> LastValue(slot)] :
                   slot \in Published}

IInv == /\ TypeOK
        /\ backups \in BackupData
        /\ SlotsHoldLatest
        /\ PublicationInOrder

-----------------------------------------------------------------------------
\* What the code stores in a slot is a slot.
LEMMA SlotOfType == \A b \in Backup : SlotOf(b) \in Slot /\ SlotOf(b).time = b.stop
  BY DEF Backup, SlotOf, Slot, checkBackupIncremental, NoTime

\* An empty slot is one too, older than any backup.
LEMMA EmptySlotType == EmptySlot \in Slot /\ EmptySlot.time = NoTime
<1>1. << >> \in Seq(BackupKind)
  OBVIOUS
<1>2. QED
  BY <1>1 DEF EmptySlot, Slot

\* The slots keep their type.
LEMMA compareLastBackupsType ==
  ASSUME NEW last \in [Types -> Slot], NEW b \in Backup
  PROVE  compareLastBackups(last, b) \in [Types -> Slot]
  BY SlotOfType DEF compareLastBackups

\* Every step keeps the types.
LEMMA TypeStep ==
  ASSUME TypeOK, [Next]_vars
  PROVE  TypeOK'
<1>1. CASE ProcessBackup
  <2>1. backups[next] \in Backup
    BY <1>1 DEF ProcessBackup, TypeOK
  <2>2. lastBackups' \in [Types -> Slot]
    BY <1>1, <2>1, compareLastBackupsType DEF ProcessBackup, TypeOK
  <2>3. next' \in 1..Len(backups) + 1
    BY <1>1 DEF ProcessBackup, TypeOK
  <2>4. QED
    BY <1>1, <2>2, <2>3 DEF ProcessBackup, TypeOK, input
<1>2. CASE ReturnLastBackups
  BY <1>2 DEF ReturnLastBackups, TypeOK, input
<1>3. CASE getBackupLastMetrics
  BY <1>3 DEF getBackupLastMetrics, SetLast, TypeOK, input
<1>4. CASE UNCHANGED vars
  BY <1>4 DEF vars, TypeOK
<1>5. QED
  BY <1>1, <1>2, <1>3, <1>4 DEF Next, Terminated
\* One more backup is eligible if it is of a type the slot listens to.
LEMMA EligibleExtends ==
  ASSUME NEW slot \in Types, NEW n \in Nat
  PROVE  Eligible(slot, n + 1) =
           IF backups[n + 1].type \in Feeds[slot]
           THEN Eligible(slot, n) \cup {n + 1} ELSE Eligible(slot, n)
  BY DEF Eligible

\* The comparison of one loop iteration keeps a slot at its latest backup.
LEMMA CompareKeepsLatest ==
  ASSUME TypeOK, SlotsHoldLatest, ProcessBackup, NEW slot \in Types
  PROVE  \/ Eligible(slot, next) = {} /\ lastBackups'[slot] = EmptySlot
         \/ \E j \in 1..next : IsLatest(j, slot, next)
                            /\ lastBackups'[slot] = SlotOf(backups[j])
<1> DEFINE n == next - 1
           b == backups[next]
<1>1. /\ n \in Nat /\ n + 1 = next /\ next \in 1..Len(backups)
      /\ b \in Backup /\ b.stop \in Nat
      /\ \A j \in 1..next : backups[j] \in Backup /\ backups[j].stop \in Nat
  <2>1. n \in Nat /\ n + 1 = next /\ next \in 1..Len(backups)
    BY DEF ProcessBackup, TypeOK
  <2>2. \A j \in 1..next : backups[j] \in Backup
    BY <2>1 DEF TypeOK
  <2>3. \A x \in Backup : x.stop \in Nat
    BY DEF Backup
  <2>4. QED
    BY <2>1, <2>2, <2>3
<1>2. lastBackups'[slot] = IF b.type \in Feeds[slot] /\ b.stop > lastBackups[slot].time
                           THEN SlotOf(b) ELSE lastBackups[slot]
  BY DEF ProcessBackup, compareLastBackups
<1>3. Eligible(slot, next) = IF b.type \in Feeds[slot]
                             THEN Eligible(slot, n) \cup {next} ELSE Eligible(slot, n)
  BY <1>1, EligibleExtends
<1>4. CASE b.type \notin Feeds[slot]
  BY <1>1, <1>2, <1>3, <1>4 DEF SlotsHoldLatest, IsLatest
<1>5. CASE b.type \in Feeds[slot] /\ Eligible(slot, n) = {}
  <2>1. lastBackups[slot] = EmptySlot
    BY <1>5 DEF SlotsHoldLatest, IsLatest
  <2>2. lastBackups'[slot] = SlotOf(b)
    BY <1>1, <1>2, <1>5, <2>1, EmptySlotType DEF NoTime
  <2>3. IsLatest(next, slot, next)
    BY <1>1, <1>3, <1>5 DEF IsLatest
  <2>4. QED
    BY <1>1, <2>2, <2>3
<1>6. CASE b.type \in Feeds[slot] /\ Eligible(slot, n) # {}
  <2>1. PICK j \in 1..n : IsLatest(j, slot, n) /\ lastBackups[slot] = SlotOf(backups[j])
    BY <1>6 DEF SlotsHoldLatest
  <2>2. lastBackups[slot].time = backups[j].stop
    BY <1>1, <2>1, SlotOfType
  <2>3. CASE b.stop > backups[j].stop
    <3>1. IsLatest(next, slot, next)
      BY <1>1, <1>3, <1>6, <2>1, <2>3 DEF IsLatest, Eligible
    <3>2. QED
      BY <1>1, <1>2, <1>6, <2>2, <2>3, <3>1
  <2>4. CASE ~(b.stop > backups[j].stop)
    <3>1. IsLatest(j, slot, next)
      BY <1>1, <1>3, <1>6, <2>1, <2>4 DEF IsLatest, Eligible
    <3>2. QED
      BY <1>1, <1>2, <2>1, <2>2, <2>4, <3>1
  <2>5. QED
    BY <2>3, <2>4
<1>7. QED
  BY <1>4, <1>5, <1>6

\* The rest of the call leaves the slots alone.
LEMMA SlotsStep ==
  ASSUME TypeOK, SlotsHoldLatest, [Next]_vars
  PROVE  SlotsHoldLatest'
<1>1. CASE ProcessBackup
  <2>1. next' - 1 = next /\ backups' = backups
    BY <1>1 DEF ProcessBackup, TypeOK, input
  <2>2. QED
    BY <1>1, <2>1, CompareKeepsLatest DEF SlotsHoldLatest, IsLatest, Eligible
<1>2. CASE ReturnLastBackups \/ getBackupLastMetrics \/ UNCHANGED vars
  BY <1>2 DEF ReturnLastBackups, getBackupLastMetrics, SetLast, vars, input,
              SlotsHoldLatest, IsLatest, Eligible
<1>3. QED
  BY <1>1, <1>2 DEF Next, Terminated

\* The slots are filled in, and published, in the order full, diff, incr.
LEMMA PublicationStep ==
  ASSUME TypeOK, PublicationInOrder, [Next]_vars
  PROVE  PublicationInOrder'
<1>1. CASE ProcessBackup
  BY <1>1 DEF ProcessBackup, PublicationInOrder, Published
<1>2. CASE ReturnLastBackups
  <2>1. next = Len(backups) + 1
    BY <1>2 DEF ReturnLastBackups, TypeOK
  <2>2. Published = {} /\ Published' = {}
    BY <1>2 DEF ReturnLastBackups, Published
  <2>3. QED
    BY <1>2, <2>1, <2>2 DEF ReturnLastBackups, PublicationInOrder, input
<1>3. ASSUME NEW slot \in Types, NEW then \in {"diff", "incr", "done"}, SetLast(slot, then),
             <<slot, then>> \in {<<"full", "diff">>, <<"diff", "incr">>, <<"incr", "done">>}
      PROVE  PublicationInOrder'
  <2>1. pc = slot /\ pc' = then /\ lastBackups' = lastBackups /\ next' = next
        /\ backups' = backups /\ currentUnixTime' = currentUnixTime
    BY <1>3 DEF SetLast, input
  <2>2. Published' = Published \cup {slot} /\ slot \notin Published
    BY <1>3, <2>1 DEF Published, PublicationInOrder
  <2>3. \A t \in Types : LastLabels(t)' = LastLabels(t) /\ LastValue(t)' = LastValue(t)
    BY <2>1 DEF LastLabels, LastValue
  <2>4. \A s \in lastSeries : s.labels # LastLabels(slot)
    BY <2>2 DEF PublicationInOrder, LastLabels
  <2>5. lastSeries' = lastSeries \cup {[labels |-> LastLabels(slot), value |-> LastValue(slot)]}
    BY <1>3, <2>4 DEF SetLast, setUpMetric
  <2>6. lastSeries' = {[labels |-> LastLabels(t)', value |-> LastValue(t)'] :
                       t \in Published'}
    <3>1. Published' \subseteq Types
      BY DEF Published
    <3>2. QED
      BY <2>2, <2>3, <2>5, <3>1 DEF PublicationInOrder
  <2>7. QED
    BY <1>3, <2>1, <2>6 DEF PublicationInOrder
<1>4. CASE UNCHANGED vars
  BY <1>4 DEF vars, PublicationInOrder, Published, LastLabels, LastValue
<1>5. QED
  BY <1>1, <1>2, <1>3, <1>4 DEF Next, Terminated, getBackupLastMetrics

\* The inductive invariant.
THEOREM Invariance == Spec => []IInv
<1>1. Init => IInv
  <2> SUFFICES ASSUME Init PROVE IInv
    OBVIOUS
  <2>1. backups \in Seq(Backup)
    BY BackupDataAssumption DEF Init
  <2>2. lastBackups \in [Types -> Slot]
    BY EmptySlotType DEF Init, initLastBackupStruct
  <2>3. TypeOK
    BY <2>1, <2>2, ClockAssumption DEF Init, TypeOK
  <2>4. SlotsHoldLatest
    BY DEF Init, SlotsHoldLatest, Eligible, initLastBackupStruct
  <2>5. PublicationInOrder
    BY DEF Init, PublicationInOrder, Published
  <2>6. QED
    BY <2>3, <2>4, <2>5 DEF Init, IInv
<1>2. IInv /\ [Next]_vars => IInv'
  <2> SUFFICES ASSUME IInv, [Next]_vars PROVE IInv'
    OBVIOUS
  <2>1. (backups \in BackupData)'
    BY DEF IInv, Next, vars, input, ProcessBackup, ReturnLastBackups,
           getBackupLastMetrics, SetLast, Terminated
  <2>2. QED
    BY <2>1, TypeStep, SlotsStep, PublicationStep DEF IInv
<1>3. QED
  BY <1>1, <1>2, PTL DEF Spec

-----------------------------------------------------------------------------
\* Type correctness of the walk.
THEOREM TypeCorrect == Spec => []TypeOK
<1>1. IInv => TypeOK
  BY DEF IInv
<1>2. QED
  BY <1>1, Invariance, PTL

\* compareLastBackups finds the last backup of every slot, in a list of any length
\* and order, and takes all the slot's fields from it.
THEOREM Latest == Spec => []SlotsHoldLatest
<1>1. IInv => SlotsHoldLatest
  BY DEF IInv
<1>2. QED
  BY <1>1, Invariance, PTL

\* A slot is never older than another that listens to fewer types.
LEMMA FallbackNotOlder ==
  ASSUME TypeOK, SlotsHoldLatest, NEW s \in Types, NEW t \in Types,
         Feeds[s] \subseteq Feeds[t]
  PROVE  lastBackups[s].time <= lastBackups[t].time
<1>1. /\ next - 1 \in 0..Len(backups)
      /\ \A j \in 1..(next - 1) : backups[j] \in Backup /\ backups[j].stop \in Nat
  <2>1. \A x \in Backup : x.stop \in Nat
    BY DEF Backup
  <2>2. QED
    BY <2>1 DEF TypeOK
<1>2. \A slot \in Types : lastBackups[slot].time \in Nat \cup {NoTime}
  BY DEF TypeOK, Slot
<1>3. Eligible(s, next - 1) \subseteq Eligible(t, next - 1)
  BY DEF Eligible
<1>4. CASE Eligible(s, next - 1) = {}
  <2>1. lastBackups[s] = EmptySlot
    BY <1>4 DEF SlotsHoldLatest, IsLatest
  <2>2. QED
    BY <1>2, <2>1, EmptySlotType DEF NoTime
<1>5. CASE Eligible(s, next - 1) # {}
  <2>1. PICK j \in 1..(next - 1) : IsLatest(j, s, next - 1)
                                /\ lastBackups[s] = SlotOf(backups[j])
    BY <1>5 DEF SlotsHoldLatest
  <2>2. PICK k \in 1..(next - 1) : IsLatest(k, t, next - 1)
                                /\ lastBackups[t] = SlotOf(backups[k])
    BY <1>3, <1>5 DEF SlotsHoldLatest
  <2>3. backups[j].stop <= backups[k].stop
    BY <1>1, <1>3, <2>1, <2>2 DEF IsLatest
  <2>4. QED
    BY <1>1, <2>1, <2>2, <2>3, SlotOfType
<1>6. QED
  BY <1>4, <1>5

\* The slots are ordered full, diff, incr; in particular a full backup fills all
\* three, which is why the caller tests only the full one.
THEOREM Ordered == Spec => []SlotsOrdered
<1>1. IInv => SlotsOrdered
  <2> SUFFICES ASSUME IInv PROVE SlotsOrdered
    OBVIOUS
  <2>1. Feeds["full"] \subseteq Feeds["diff"] /\ Feeds["diff"] \subseteq Feeds["incr"]
    BY DEF Feeds
  <2>2. QED
    BY <2>1, FallbackNotOlder DEF IInv, SlotsOrdered
<1>2. QED
  BY <1>1, Invariance, PTL

\* A finished stanza has one `last' series per type, or none for want of a full
\* backup.
THEOREM AllOrNone == Spec => []LastSeriesAllOrNone
<1>1. IInv => LastSeriesAllOrNone
  <2> SUFFICES ASSUME IInv, pc = "done" PROVE LastSeriesAllOrNone
    BY DEF LastSeriesAllOrNone
  <2>1. next - 1 = Len(backups)
    BY DEF IInv, PublicationInOrder, TypeOK
  <2>2. CASE lastBackups["full"].time = NoTime
    <3>1. lastSeries = {}
      BY <2>2 DEF IInv, PublicationInOrder, Published
    <3>2. Eligible("full", Len(backups)) = {}
      <4>1. \A j \in 1..Len(backups) : SlotOf(backups[j]).time # NoTime
        <5>1. \A x \in Backup : SlotOf(x).time \in Nat
          BY SlotOfType DEF Backup
        <5>2. QED
          BY <5>1 DEF IInv, TypeOK, NoTime
      <4>2. QED
        BY <2>1, <2>2, <4>1 DEF IInv, SlotsHoldLatest
    <3>3. QED
      BY <3>1, <3>2 DEF Eligible, Feeds, LastSeriesAllOrNone
  <2>3. CASE lastBackups["full"].time # NoTime
    <3>1. lastSeries = {[labels |-> LastLabels(t), value |-> LastValue(t)] : t \in Types}
      BY <2>3 DEF IInv, PublicationInOrder, Published
    <3>2. ASSUME NEW type \in Types
          PROVE  Cardinality({s \in lastSeries : s.labels.type = type}) = 1
      <4>1. {s \in lastSeries : s.labels.type = type}
              = {[labels |-> LastLabels(type), value |-> LastValue(type)]}
        BY <3>1 DEF LastLabels
      <4>2. QED
        BY <4>1, FS_Singleton
    <3>3. \E j \in 1..Len(backups) : backups[j].type = "full"
      <4>1. lastBackups["full"] # EmptySlot
        BY <2>3, EmptySlotType
      <4>2. QED
        BY <2>1, <4>1 DEF IInv, SlotsHoldLatest, IsLatest, Eligible, Feeds, Types
    <3>4. QED
      BY <3>2, <3>3 DEF LastSeriesAllOrNone
  <2>4. QED
    BY <2>2, <2>3
<1>2. QED
  BY <1>1, Invariance, PTL

-----------------------------------------------------------------------------
\* The label sets of different backups of a list differ.
LEMMA DistinctLabels ==
  ASSUME backups \in BackupData, TypeOK,
         NEW j \in 1..Len(backups), NEW k \in 1..Len(backups),
         BackupLabels(backups[j]) = BackupLabels(backups[k])
  PROVE  j = k
<1>1. j \in DOMAIN backups /\ k \in DOMAIN backups
  BY DEF TypeOK
<1>2. backups[j].label = backups[k].label /\ backups[j].repo = backups[k].repo
  BY DEF BackupLabels
<1>3. QED
  BY <1>1, <1>2, LabelsAssumption

\* Each backup has a series of its own holding its own values: no two backups of a
\* list share a label set, so none overwrites another.
THEOREM OwnSeries == Spec => []OneSeriesPerBackup
<1>1. Init => OneSeriesPerBackup
  BY DEF Init, OneSeriesPerBackup
<1>2. IInv /\ OneSeriesPerBackup /\ [Next]_vars => OneSeriesPerBackup'
  <2> SUFFICES ASSUME IInv, OneSeriesPerBackup, [Next]_vars PROVE OneSeriesPerBackup'
    OBVIOUS
  <2>1. CASE ProcessBackup
    <3>1. /\ next \in 1..Len(backups) /\ next' - 1 = next
          /\ backups' = backups /\ backupRefCount' = backupRefCount
      BY <2>1 DEF ProcessBackup, IInv, TypeOK, input
    <3>2. ASSUME NEW s \in backupSeries PROVE s.labels # BackupLabels(backups[next])
      <4>1. PICK j \in 1..(next - 1) : s = SeriesOf(j)
        BY DEF OneSeriesPerBackup
      <4>2. s.labels = BackupLabels(backups[j])
        BY <4>1 DEF SeriesOf
      <4>3. j \in 1..Len(backups) /\ j # next
        BY <3>1
      <4>4. QED
        BY <3>1, <4>2, <4>3, DistinctLabels DEF IInv
    <3>3. backupSeries' = backupSeries \cup {SeriesOf(next)}
      BY <2>1, <3>2 DEF ProcessBackup, setUpMetric, SeriesOf
    <3>4. 1..next = (1..(next - 1)) \cup {next}
      BY <3>1
    <3>5. backupSeries' = {SeriesOf(j) : j \in 1..next}
      BY <3>3, <3>4 DEF OneSeriesPerBackup
    <3>6. \A j : SeriesOf(j)' = SeriesOf(j)
      BY <3>1 DEF SeriesOf, BackupLabels, BackupValue, checkBackupIncremental
    <3>7. QED
      BY <3>1, <3>5, <3>6 DEF OneSeriesPerBackup
  <2>2. CASE ReturnLastBackups \/ getBackupLastMetrics \/ UNCHANGED vars
    <3>1. /\ next' = next /\ backups' = backups /\ backupSeries' = backupSeries
          /\ backupRefCount' = backupRefCount
      BY <2>2 DEF ReturnLastBackups, getBackupLastMetrics, SetLast, vars, input
    <3>2. \A j : SeriesOf(j)' = SeriesOf(j)
      BY <3>1 DEF SeriesOf, BackupLabels, BackupValue, checkBackupIncremental
    <3>3. QED
      BY <3>1, <3>2 DEF OneSeriesPerBackup
  <2>3. QED
    BY <2>1, <2>2 DEF Next, Terminated
<1>3. QED
  BY <1>1, <1>2, Invariance, PTL DEF Spec

\* Once a full backup was stored no slot is empty.
LEMMA FullFillsAll ==
  ASSUME IInv, lastBackups["full"].time # NoTime, NEW t \in Types
  PROVE  lastBackups[t] # EmptySlot
<1>1. \A slot \in Types : lastBackups[slot].time \in Nat \cup {NoTime}
  BY DEF IInv, TypeOK, Slot
<1>2. lastBackups["full"].time <= lastBackups[t].time
  BY FallbackNotOlder DEF IInv, Feeds, Types
<1>3. lastBackups["full"].time \in Nat
  BY <1>1 DEF Types
<1>4. lastBackups[t].time # NoTime
  BY <1>1, <1>2, <1>3 DEF NoTime
<1>5. QED
  BY <1>4, EmptySlotType

\* Each published last series belongs to a backup whose own series is there, with
\* the same payload and block_incr label.
THEOREM LastAgrees == Spec => []LastAgreesWithBackupSeries
<1>1. IInv /\ OneSeriesPerBackup => LastAgreesWithBackupSeries
  <2> SUFFICES ASSUME IInv, OneSeriesPerBackup, NEW s \in lastSeries
               PROVE  \E b \in backupSeries :
                        /\ b.value.info = s.value.info
                        /\ b.labels.blockIncr = s.labels.blockIncr
                        /\ b.labels.type \in Feeds[s.labels.type]
    BY DEF LastAgreesWithBackupSeries
  <2>1. PICK t \in Types : s = [labels |-> LastLabels(t), value |-> LastValue(t)]
                          /\ t \in Published
    BY DEF IInv, PublicationInOrder, Published
  <2>2. lastBackups["full"].time # NoTime
    BY <2>1 DEF Published, IInv, PublicationInOrder
  <2>4. lastBackups[t] # EmptySlot
    BY <2>1, <2>2, FullFillsAll
  <2>5. PICK j \in 1..(next - 1) : IsLatest(j, t, next - 1)
                                /\ lastBackups[t] = SlotOf(backups[j])
    BY <2>4 DEF IInv, SlotsHoldLatest
  <2>6. SeriesOf(j) \in backupSeries
    BY DEF OneSeriesPerBackup
  <2>7. backups[j].type \in Feeds[t]
    BY <2>5 DEF IsLatest, Eligible
  <2>8. /\ SeriesOf(j).value.info = s.value.info
        /\ SeriesOf(j).labels.blockIncr = s.labels.blockIncr
        /\ SeriesOf(j).labels.type \in Feeds[s.labels.type]
    BY <2>1, <2>5, <2>7 DEF SeriesOf, BackupValue, BackupLabels, LastValue, LastLabels, SlotOf
  <2>9. QED
    BY <2>6, <2>8
<1>2. QED
  BY <1>1, Invariance, OwnSeries, PTL

-----------------------------------------------------------------------------
\* The slot's backup is the one the rule selects.
LEMMA LatestIsSelected ==
  ASSUME TypeOK, NEW slot \in Types, NEW j \in 1..Len(backups),
         IsLatest(j, slot, Len(backups))
  PROVE  j \in Rule!Selected[slot]
<1> USE DEF IsLatest, Eligible, Feeds
<1>0. \A x \in Backup : x.type \in Types /\ x.stop \in Nat
  BY DEF Backup
<1>1. /\ DOMAIN backups = 1..Len(backups)
      /\ \A k \in 1..Len(backups) : backups[k].type \in Types /\ backups[k].stop \in Nat
  BY <1>0 DEF TypeOK
<1>2. ASSUME NEW type \in Types, type \in Feeds[slot], backups[j].type = type
      PROVE  j \in Rule!LastOf(type)
  BY <1>1, <1>2 DEF Rule!LastOf
<1>3. ASSUME NEW type \in Types PROVE Rule!LastOf(type) \subseteq
               {k \in 1..Len(backups) : backups[k].type = type}
  BY <1>1 DEF Rule!LastOf
<1>4. CASE slot = "full"
  BY <1>2, <1>4 DEF Rule!Selected
<1>5. ASSUME slot \in {"diff", "incr"}, backups[j].type \in {"full", "diff"}
      PROVE  j \in Rule!Later(Rule!LastOf("full"), Rule!LastOf("diff"))
  BY <1>1, <1>2, <1>3, <1>5 DEF Rule!Later
<1>6. CASE slot = "diff"
  BY <1>5, <1>6 DEF Rule!Selected
<1>7. CASE slot = "incr"
  <2> DEFINE Diff == Rule!Later(Rule!LastOf("full"), Rule!LastOf("diff"))
  <2>1. Diff \cup Rule!LastOf("incr") \subseteq 1..Len(backups)
    BY <1>3 DEF Rule!Later
  <2>2. j \in Diff \cup Rule!LastOf("incr")
    BY <1>1, <1>2, <1>5, <1>7
  <2>3. \A k \in 1..Len(backups) :
          \/ backups[k].stop < backups[j].stop
          \/ backups[k].stop = backups[j].stop /\ j <= k
    BY <1>1, <1>7
  <2> HIDE DEF Diff
  <2>4. j \in Rule!Later(Diff, Rule!LastOf("incr"))
    BY <2>1, <2>2, <2>3 DEF Rule!Later
  <2>5. QED
    BY <1>7, <2>4 DEF Rule!Selected, Diff
<1>8. QED
  BY <1>4, <1>6, <1>7

\* What is published is what the README's rule selects: every step of the walk is a
\* publication by the rule, or invisible.
THEOREM WalkImplementsRule == Spec => Rule!SafeSpec
<1> DEFINE shown(series) == {[type |-> s.labels.type, info |-> s.value.info,
                              since |-> s.value.since] : s \in series}
<1>1. Init => Rule!Init
  BY DEF Init, Rule!Init
<1>2. IInv /\ [Next]_vars => [Rule!Next]_(Rule!ruleVars)
  <2> SUFFICES ASSUME IInv, [Next]_vars PROVE [Rule!Next]_(Rule!ruleVars)
    OBVIOUS
  <2>1. CASE ProcessBackup \/ ReturnLastBackups \/ UNCHANGED vars
    BY <2>1 DEF ProcessBackup, ReturnLastBackups, vars, input, Rule!ruleVars
  <2>2. ASSUME NEW slot \in Types, NEW then \in {"diff", "incr", "done"}, SetLast(slot, then)
        PROVE  Rule!Publish(slot)
    <3>1. /\ pc = slot /\ backups' = backups /\ currentUnixTime' = currentUnixTime
          /\ next - 1 = Len(backups) /\ lastBackups["full"].time # NoTime
      BY <2>2 DEF SetLast, input, IInv, PublicationInOrder, TypeOK
    <3>2. \A t \in Types : lastBackups[t] # EmptySlot
      BY <3>1, FullFillsAll
    <3>3. ASSUME NEW t \in Types
          PROVE  \E j \in 1..Len(backups) : /\ j \in Rule!Selected[t]
                                            /\ lastBackups[t] = SlotOf(backups[j])
      BY <3>1, <3>2, LatestIsSelected DEF IInv, SlotsHoldLatest
    <3>4. PICK j \in 1..Len(backups) : /\ j \in Rule!Selected[slot]
                                      /\ lastBackups[slot] = SlotOf(backups[j])
      BY <3>3
    <3>5. Rule!LastOf("full") # {}
      BY <3>3 DEF Rule!Selected
    <3>6. \A s \in lastSeries : s.labels # LastLabels(slot)
      BY <3>1 DEF IInv, PublicationInOrder, Published, LastLabels
    <3>7. lastSeries' = lastSeries \cup
            {[labels |-> LastLabels(slot), value |-> LastValue(slot)]}
      BY <2>2, <3>6 DEF SetLast, setUpMetric
    <3>8. shown(lastSeries') = shown(lastSeries) \cup
            {[type |-> slot, info |-> backups[j].info,
              since |-> currentUnixTime - backups[j].stop]}
      <4>1. /\ lastBackups[slot].info = backups[j].info
            /\ lastBackups[slot].time = backups[j].stop
        BY <3>4 DEF SlotOf
      <4>2. /\ LastLabels(slot).type = slot
            /\ LastValue(slot).info = backups[j].info
            /\ LastValue(slot).since = currentUnixTime - backups[j].stop
        BY <4>1 DEF LastLabels, LastValue
      <4> DEFINE new == [labels |-> LastLabels(slot), value |-> LastValue(slot)]
      <4>3. [type |-> new.labels.type, info |-> new.value.info, since |-> new.value.since]
              = [type |-> slot, info |-> backups[j].info,
                 since |-> currentUnixTime - backups[j].stop]
        BY <4>2
      <4>4. lastSeries' = lastSeries \cup {new}
        BY <3>7
      <4> HIDE DEF new
      <4>5. QED
        BY <4>3, <4>4
    <3>9. QED
      BY <3>1, <3>4, <3>5, <3>8 DEF Rule!Publish
  <2>3. QED
    BY <2>1, <2>2 DEF Next, Terminated, getBackupLastMetrics, Rule!Next
<1>3. QED
  BY <1>1, <1>2, Invariance, PTL DEF Spec, Rule!SafeSpec

-----------------------------------------------------------------------------
\* pgBackRest spells a backup's type in its label (...F, ...F_...D, ...F_...I), so
\* two backups with one label, in different repositories, are of one type.
LabelsTellType ==
  \A list \in BackupData : \A j, k \in DOMAIN list :
    list[j].label = list[k].label => list[j].type = list[k].type

\* What module LatestDBCount assumes of the slots it is handed: if the last backup of
\* all is the full one, it is the last one for diff too.
SlotsHandedOver ==
  pc # "loop" /\ lastBackups["full"].time # NoTime
    /\ lastBackups["incr"].label = lastBackups["full"].label
    => lastBackups["diff"].label = lastBackups["full"].label

\* A slot has one latest backup.
LEMMA LatestUnique ==
  ASSUME TypeOK, NEW slot \in Types, NEW n \in 0..Len(backups),
         NEW j \in 1..n, NEW k \in 1..n, IsLatest(j, slot, n), IsLatest(k, slot, n)
  PROVE  j = k
<1>1. \A x \in Backup : x.stop \in Nat
  BY DEF Backup
<1>2. backups[j].stop \in Nat /\ backups[k].stop \in Nat
  BY <1>1 DEF TypeOK
<1>3. QED
  BY <1>2 DEF IsLatest

\* getBackupLastDBCountMetrics compares labels to see whether two slots hold one
\* backup: when the incremental slot holds the full backup, the differential one
\* holds it too, so a call that finds incr = full has no goroutine for diff either.
\* This is the assumption of LatestDBCount, for what BackupMetrics hands over.
THEOREM HandedOver ==
  ASSUME LabelsTellType
  PROVE  Spec => []SlotsHandedOver
<1>1. IInv => SlotsHandedOver
  <2> SUFFICES ASSUME IInv, lastBackups["full"].time # NoTime,
                      lastBackups["incr"].label = lastBackups["full"].label
               PROVE  lastBackups["diff"].label = lastBackups["full"].label
    BY DEF SlotsHandedOver
  <2> DEFINE n == next - 1
  <2>0. n \in 0..Len(backups)
    BY DEF IInv, TypeOK
  <2>1. ASSUME NEW t \in Types
        PROVE  \E j \in 1..n : IsLatest(j, t, n) /\ lastBackups[t] = SlotOf(backups[j])
    BY FullFillsAll DEF IInv, SlotsHoldLatest
  <2>2. PICK f \in 1..n : IsLatest(f, "full", n)
                        /\ lastBackups["full"] = SlotOf(backups[f])
    BY <2>1
  <2>3. PICK d \in 1..n : IsLatest(d, "diff", n)
                        /\ lastBackups["diff"] = SlotOf(backups[d])
    BY <2>1
  <2>4. PICK i \in 1..n : IsLatest(i, "incr", n)
                        /\ lastBackups["incr"] = SlotOf(backups[i])
    BY <2>1
  <2>5. backups[i].label = backups[f].label
    BY <2>2, <2>4 DEF SlotOf
  <2>6. i \in DOMAIN backups /\ f \in DOMAIN backups
    BY <2>0 DEF IInv, TypeOK
  <2>7. backups[i].type = "full"
    <3>1. backups[f].type = "full"
      BY <2>2 DEF IsLatest, Eligible, Feeds
    <3>2. QED
      BY <2>5, <2>6, <3>1 DEF LabelsTellType, IInv
  <2>8. IsLatest(i, "diff", n)
    <3>1. Eligible("diff", n) \subseteq Eligible("incr", n)
      BY DEF Eligible, Feeds
    <3>2. i \in Eligible("diff", n)
      BY <2>7 DEF Eligible, Feeds
    <3>3. QED
      BY <2>4, <3>1, <3>2 DEF IsLatest
  <2>9. i = d
    BY <2>0, <2>3, <2>8, LatestUnique DEF IInv
  <2>10. QED
    BY <2>2, <2>3, <2>5, <2>9 DEF SlotOf
<1>2. QED
  BY <1>1, Invariance, PTL
=============================================================================
