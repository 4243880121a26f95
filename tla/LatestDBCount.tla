---------------------------- MODULE LatestDBCount ----------------------------
(***************************************************************************)
(* getBackupLastDBCountMetrics over several collection cycles, on the one  *)
(* metric it writes, pgbackrest_backup_last_databases.  The call fetches   *)
(* the full backup itself and leaves the differential and the incremental  *)
(* one, when they are other backups, to goroutines.  It declares a         *)
(* WaitGroup but never waits on it, so those goroutines outlive the call   *)
(* and may meet the next cycle's resetMetrics.                             *)
(*                                                                         *)
(* setUpMetricValue looks a child gauge up (creating it with value 0) and  *)
(* then stores into it: two steps.  Reset drops the children, so a store   *)
(* through a child looked up before it reaches nobody.  `generation'       *)
(* counts the resets; a child belongs to the generation it was made in.    *)
(***************************************************************************)
EXTENDS Integers, FiniteSets

CONSTANTS
  MaxCycle,     \* bound: the cycles the model runs
  FetchMayFail, \* whether `pgbackrest info --set' may fail
  LastBackups,  \* LastBackups[c] = the slots getBackupMetrics may hand over in cycle c
  DatabaseRef   \* DatabaseRef[label] = databases pgBackRest reports for the backup

Types == {"full", "diff", "incr"}
Cycle == 1..MaxCycle

ASSUME CycleAssumption == MaxCycle \in Nat \ {0}
ASSUME FetchAssumption == FetchMayFail \in BOOLEAN
ASSUME CountsAssumption == \A label \in DOMAIN DatabaseRef : DatabaseRef[label] \in Nat

\* What compareLastBackups keeps of a type's last backup.  Diff listens to full and
\* differential backups, incr to all: the latest of all, when it is a full one, is
\* also the latest for diff.
Slot == [label: DOMAIN DatabaseRef, blockIncr: {"y", "n"}]
ASSUME SlotsAssumption ==
  \A c \in Cycle : \A slots \in LastBackups[c] :
    /\ slots \in [Types -> Slot]
    /\ slots["incr"].label = slots["full"].label => slots["diff"].label = slots["full"].label

VARIABLES
  pc,          \* the collector's goroutine: what it does next, and for which type
  cycle,       \* the cycle it is in
  generation,  \* resets of the metric so far
  last,        \* lastBackups, the argument of the current call
  count,       \* metricValue: the full backup's count, as fetched
  child,       \* the generation of the child the collector has looked up
  worker,      \* worker[<<c, t>>] = the goroutine cycle c started for type t
  series,      \* the metric: label set [type, blockIncr] and value
  clean        \* history: no goroutine of an earlier cycle was alive at the reset

vars == <<pc, cycle, generation, last, count, child, worker, series,
          clean>>

Workers == Cycle \X {"diff", "incr"}

NoWorker == [at |-> "none", label |-> "", blockIncr |-> "", value |-> 0, child |-> 0]
Idle == {"none", "exited"}
Returned == <<"returned", "">>

-----------------------------------------------------------------------------
\* Defect: the positional label values are in the wrong order.
LabelsSwapped(type, blockIncr) == [type |-> blockIncr, blockIncr |-> type]

Labels(type, blockIncr) == [type |-> type, blockIncr |-> blockIncr]

\* GetMetricWithLabelValues: a label set not in the vector gets a child of value 0.
GetMetric(labels) ==
  IF \E s \in series : s.labels = labels THEN series
  ELSE series \cup {[labels |-> labels, value |-> 0]}

\* Gauge.Set on a child of generation g.
SetChild(g, labels, v) ==
  IF g # generation THEN series
  ELSE {s \in series : s.labels # labels} \cup {[labels |-> labels, value |-> v]}

\* A fetch gives the backup's count, or 0 when pgBackRest or its reply fails.
Counts(label) == {DatabaseRef[label]} \cup (IF FetchMayFail THEN {0} ELSE {})

-----------------------------------------------------------------------------
Init == /\ pc = <<"reset", "">> /\ cycle = 1 /\ generation = 0
        /\ last \in LastBackups[1]
        /\ count = 0 /\ child = 0
        /\ worker = [w \in Workers |-> NoWorker]
        /\ series = {}
        /\ clean = TRUE

\* Defect: the metric is missing from resetLastBackupMetrics.
ResetLastForgotten ==
  /\ pc = <<"reset", "">>
  /\ clean' = \A w \in Workers : worker[w].at \in Idle
  /\ pc' = <<"spawn", "diff">>
  /\ UNCHANGED <<cycle, generation, last, count, child, worker, series>>

\* resetLastBackupMetrics, at the start of the cycle's publication.
ResetLast ==
  /\ pc = <<"reset", "">>
  /\ series' = {}
  /\ generation' = generation + 1
  /\ clean' = \A w \in Workers : worker[w].at \in Idle
  /\ pc' = <<"spawn", "diff">>
  /\ UNCHANGED <<cycle, last, count, child, worker>>

\* `go processSpecificBackupData' with the arguments of the backup in a slot.
GoroutineFor(slot) == [at |-> "exec", label |-> slot.label, blockIncr |-> slot.blockIncr,
                       value |-> 0, child |-> 0]

\* A type whose slot holds another backup than the type before it gets a
\* goroutine of its own.
SpawnUnlessSame(type, before, then) ==
  /\ pc = <<"spawn", type>>
  /\ worker' = IF last[type].label = last[before].label THEN worker
               ELSE [worker EXCEPT ![<<cycle, type>>] = GoroutineFor(last[type])]
  /\ pc' = then
  /\ UNCHANGED <<cycle, generation, last, count, child, series, clean>>

\* Defect: the goroutine is given the label of the full backup.
SpawnDiffWithFullLabel ==
  /\ pc = <<"spawn", "diff">>
  /\ worker' = IF last["diff"].label = last["full"].label THEN worker
               ELSE [worker EXCEPT ![<<cycle, "diff">>] =
                       GoroutineFor([last["diff"] EXCEPT !.label = last["full"].label])]
  /\ pc' = <<"spawn", "incr">>
  /\ UNCHANGED <<cycle, generation, last, count, child, series, clean>>

SpawnDiff == SpawnUnlessSame("diff", "full", <<"spawn", "incr">>)
\* Defect: the incremental backup is compared with the full one.
SpawnIncrUnlessFull == SpawnUnlessSame("incr", "full", <<"fetch", "full">>)

SpawnIncr == SpawnUnlessSame("incr", "diff", <<"fetch", "full">>)

\* Defect: the call asks for the incremental backup.
FetchIncr ==
  /\ pc = <<"fetch", "full">>
  /\ count' \in Counts(last["incr"].label)
  /\ pc' = <<"get", "full">>
  /\ UNCHANGED <<cycle, generation, last, child, worker, series, clean>>

\* The collector's own pgBackRest call, for the full backup.
FetchFull ==
  /\ pc = <<"fetch", "full">>
  /\ count' \in Counts(last["full"].label)
  /\ pc' = <<"get", "full">>
  /\ UNCHANGED <<cycle, generation, last, child, worker, series, clean>>

Get(type, then) ==
  /\ pc = <<"get", type>>
  /\ series' = GetMetric(Labels(type, last[type].blockIncr))
  /\ child' = generation
  /\ pc' = then
  /\ UNCHANGED <<cycle, generation, last, count, worker, clean>>

Set(type, then) ==
  /\ pc = <<"set", type>>
  /\ series' = SetChild(child, Labels(type, last[type].blockIncr), count)
  /\ pc' = then
  /\ UNCHANGED <<cycle, generation, last, count, child, worker, clean>>

\* The types that share their backup with the type before them get the count
\* that was fetched for the full backup; the others are skipped here.
Skip(type, before, then) ==
  /\ pc = <<"get", type>> /\ last[type].label # last[before].label
  /\ pc' = then
  /\ UNCHANGED <<cycle, generation, last, count, child, worker, series, clean>>

SetFull == Get("full", <<"set", "full">>) \/ Set("full", <<"get", "diff">>)
SetDiff == \/ last["diff"].label = last["full"].label /\ Get("diff", <<"set", "diff">>)
           \/ Set("diff", <<"get", "incr">>)
           \/ Skip("diff", "full", <<"get", "incr">>)
\* Defect: wg.Wait at the end of the call, but no goroutine calls wg.Done.
SetIncrAndWait ==
  /\ \A t \in {"diff", "incr"} : worker[<<cycle, t>>].at = "none"
  /\ \/ last["incr"].label = last["diff"].label /\ Get("incr", <<"set", "incr">>)
     \/ Set("incr", Returned)
     \/ Skip("incr", "diff", Returned)

SetIncr == \/ last["incr"].label = last["diff"].label /\ Get("incr", <<"set", "incr">>)
           \/ Set("incr", Returned)
           \/ Skip("incr", "diff", Returned)

\* The call has returned; after the sleep the next cycle fetches a new list.
NextCycle ==
  /\ pc = Returned /\ cycle < MaxCycle
  /\ cycle' = cycle + 1
  /\ last' \in LastBackups[cycle + 1]
  /\ pc' = <<"reset", "">>
  /\ UNCHANGED <<generation, count, child, worker, series, clean>>

\* processSpecificBackupData in a goroutine: pgBackRest exits, ...
WorkerFetch(w) ==
  /\ worker[w].at = "exec"
  /\ \E v \in Counts(worker[w].label) :
       worker' = [worker EXCEPT ![w].at = "get", ![w].value = v]
  /\ UNCHANGED <<pc, cycle, generation, last, count, child, series, clean>>

\* ... the child is looked up, ...
WorkerGet(w) ==
  /\ worker[w].at = "get"
  /\ series' = GetMetric(Labels(w[2], worker[w].blockIncr))
  /\ worker' = [worker EXCEPT ![w].at = "set", ![w].child = generation]
  /\ UNCHANGED <<pc, cycle, generation, last, count, child, clean>>

\* Defect: the result goes to the collector, which has left the call.
WorkerSendsResult(w) ==
  /\ worker[w].at = "set" /\ pc # Returned
  /\ series' = SetChild(worker[w].child, Labels(w[2], worker[w].blockIncr),
                        worker[w].value)
  /\ worker' = [worker EXCEPT ![w] = [NoWorker EXCEPT !.at = "exited"]]
  /\ UNCHANGED <<pc, cycle, generation, last, count, child, clean>>

\* ... and set.  The deferred wg.Done has nobody waiting for it.
WorkerSet(w) ==
  /\ worker[w].at = "set"
  /\ series' = SetChild(worker[w].child, Labels(w[2], worker[w].blockIncr),
                        worker[w].value)
  /\ worker' = [worker EXCEPT ![w] = [NoWorker EXCEPT !.at = "exited"]]
  /\ UNCHANGED <<pc, cycle, generation, last, count, child, clean>>

Worker(w) == WorkerFetch(w) \/ WorkerGet(w) \/ WorkerSet(w)
Call      == \/ ResetLast \/ SpawnDiff \/ SpawnIncr \/ FetchFull
             \/ SetFull \/ SetDiff \/ SetIncr

\* The last cycle of the bounded run.
Terminated ==
  /\ pc = Returned /\ cycle = MaxCycle
  /\ \A w \in Workers : worker[w].at \in Idle
  /\ UNCHANGED vars

Next == Call \/ NextCycle \/ (\E w \in Workers : Worker(w)) \/ Terminated

\* Goroutines that can run do run and every pgBackRest process exits.
Spec == /\ Init /\ [][Next]_vars /\ WF_vars(Call) /\ WF_vars(NextCycle)
        /\ \A w \in Workers : WF_vars(Worker(w))

-----------------------------------------------------------------------------
TypeOK ==
  /\ pc \in {<<"reset", "">>, <<"fetch", "full">>, Returned,
             <<"spawn", "diff">>, <<"spawn", "incr">>}
          \cup ({"get", "set"} \X Types)
  /\ cycle \in Cycle /\ generation \in Nat /\ child \in Nat
  /\ last \in [Types -> Slot]
  /\ count \in Nat
  /\ worker \in [Workers -> [at: Idle \cup {"exec", "get", "set"},
                            label: {""} \cup DOMAIN DatabaseRef,
                            blockIncr: {"", "y", "n"},
                            value: Nat, child: Nat]]
  /\ \A s \in series : s.labels \in [type: Types, blockIncr: {"y", "n"}]
                     /\ s.value \in Nat
  /\ clean \in BOOLEAN

AllExited == \A w \in Workers : worker[w].at \in Idle
SlotLabels == {Labels(type, last[type].blockIncr) : type \in Types}
Shown(type) == {s \in series : s.labels.type = type}

\* What the call sets itself is there when it returns, whatever goroutines of
\* earlier cycles do meanwhile: they never write the full backup's series.
FullShownOnReturn ==
  pc = Returned => \E v \in Counts(last["full"].label) :
    Shown("full") = {[labels |-> Labels("full", last["full"].blockIncr), value |-> v]}

\* "If name for diff backup is equal to full, there is no point in re-receiving
\* data": one cycle asks pgBackRest about a backup once.
NoRefetch ==
  \A t \in {"diff", "incr"} : worker[<<cycle, t>>].at \notin Idle =>
    /\ worker[<<cycle, t>>].label # last["full"].label
    /\ \A u \in {"diff", "incr"} \ {t} :
         worker[<<cycle, u>>].at \notin Idle => worker[<<cycle, u>>].label # worker[<<cycle, t>>].label

\* A cycle whose reset met no goroutine of an earlier one never shows anything
\* but its own three slots.
CleanCycleShowsItsSlots ==
  clean /\ pc # <<"reset", "">> => \A s \in series : s.labels \in SlotLabels

\* ... and once its goroutines are done it shows all three, a type with a backup
\* of its own with that backup's count.
CleanCycleCompletes ==
  clean /\ pc = Returned /\ AllExited =>
    /\ {s.labels : s \in series} = SlotLabels
    /\ \A type \in {"diff", "incr"} : worker[<<cycle, type>>].at = "exited" =>
         \A s \in Shown(type) : s.value \in Counts(last[type].label)

\* The call comes back although nothing waits for its goroutines, and each of
\* them ends: the WaitGroup nobody waits on does not hold them.
CallReturns   == pc = <<"spawn", "diff">> ~> pc = Returned
WorkersExit   == \A w \in Workers : worker[w].at = "exec" ~> worker[w].at = "exited"

-----------------------------------------------------------------------------
\* Claims of the documentation the code does not keep.

\* README.md, "Last backup metrics": pgbackrest_backup_last_databases is the
\* number of databases in the last backup of a type, so a type has one series.
OneSeriesPerType ==
  pc = Returned /\ AllExited => \A type \in Types : Cardinality(Shown(type)) = 1

\* README.md, "Additional description of metrics": if the last backup was a
\* differential one, the incremental metric takes the differential value.
IncrTakesDiffValue ==
  pc = Returned /\ AllExited /\ cycle = 1
    /\ last["incr"].label = last["diff"].label =>
      {s.value : s \in Shown("incr")} = {s.value : s \in Shown("diff")}
=============================================================================
