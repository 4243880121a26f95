------------------------- MODULE LatestDBCount_proofs -------------------------
(***************************************************************************)
(* For every number of cycles, all slots compareLastBackups may hand over  *)
(* and every order of the goroutines: what survives the missing wait.      *)
(***************************************************************************)
EXTENDS LatestDBCount, TLAPS

USE CycleAssumption

Late   == {"diff", "incr"}
Before == [t \in Late |-> IF t = "diff" THEN "full" ELSE "diff"]

\* The type's last backup is not that of the type before it.
Own(t) == last[t].label # last[Before[t]].label

\* How far the call is, per type: past the spawn, past its own store.
Spawned(t) ==
  pc \notin {<<"reset", "">>, <<"spawn", "diff">>}
            \cup (IF t = "incr" THEN {<<"spawn", "incr">>} ELSE {})
StoredAt(p, t) ==
  \/ p = Returned
  \/ t \in {"full", "diff"} /\ (p = <<"get", "incr">> \/ p = <<"set", "incr">>)
  \/ t = "full" /\ (p = <<"get", "diff">> \/ p = <<"set", "diff">>)
Stored(t) == StoredAt(pc, t)

OwnLabels(t) == Labels(t, last[t].blockIncr)
HasSeries(t) == \E s \in series : s.labels = OwnLabels(t)

-----------------------------------------------------------------------------
\* The parts of the inductive invariant.

\* Slots, and goroutines at work, are of backups pgBackRest has listed.
SlotsKept ==
  /\ last \in LastBackups[cycle]
  /\ \A w \in Workers : worker[w].at \notin Idle =>
       worker[w].label \in DOMAIN DatabaseRef /\ worker[w].blockIncr \in {"y", "n"}

\* A cycle starts a goroutine for exactly the types that have a backup of their own,
\* and the goroutine works on that backup.
Started ==
  /\ \A c \in Cycle, t \in Late : c > cycle => worker[<<c, t>>].at = "none"
  /\ \A t \in Late :
       /\ worker[<<cycle, t>>].at # "none" <=> Spawned(t) /\ Own(t)
       /\ worker[<<cycle, t>>].at \notin Idle =>
            /\ worker[<<cycle, t>>].label = last[t].label
            /\ worker[<<cycle, t>>].blockIncr = last[t].blockIncr

\* Who has looked a child up, or has stored, finds the series in the metric.
ChildrenLive ==
  /\ \A t \in Types : pc = <<"set", t>> =>
       child = generation /\ HasSeries(t) /\ (t # "full" => ~Own(t))
  /\ \A t \in Late :
       /\ worker[<<cycle, t>>].at = "set" => worker[<<cycle, t>>].child = generation
       /\ worker[<<cycle, t>>].at \in {"set", "exited"} => HasSeries(t)
       /\ ~Own(t) /\ Stored(t) => HasSeries(t)

\* Only the call itself writes the full backup's series.
FullOnlyByCall ==
  /\ pc = <<"get", "full">> \/ pc = <<"set", "full">> \/ Stored("full") =>
       count \in Counts(last["full"].label)
  /\ pc # <<"reset", "">> /\ pc # <<"set", "full">> /\ ~Stored("full") =>
       Shown("full") = {}
  /\ pc = <<"set", "full">> =>
       Shown("full") = {[labels |-> OwnLabels("full"), value |-> 0]}
  /\ Stored("full") =>
       Shown("full") = {[labels |-> OwnLabels("full"), value |-> count]}

\* No goroutine of an earlier cycle is alive in a clean one.
CleanMeansAlone ==
  clean /\ pc # <<"reset", "">> =>
    \A c \in Cycle, t \in Late : c < cycle => worker[<<c, t>>].at \in Idle

\* What the goroutines of a cycle have fetched, and what of it is shown.
CountsFetched ==
  \A t \in Late :
    /\ worker[<<cycle, t>>].at \in {"get", "set"} =>
         worker[<<cycle, t>>].value \in Counts(last[t].label)
    /\ clean /\ worker[<<cycle, t>>].at = "exited" =>
         \A s \in Shown(t) : s.value \in Counts(last[t].label)

IInv == /\ TypeOK /\ SlotsKept /\ Started /\ ChildrenLive /\ FullOnlyByCall
        /\ CleanMeansAlone /\ CleanCycleShowsItsSlots /\ CountsFetched
-----------------------------------------------------------------------------
LEMMA CountsTyped ==
  ASSUME NEW l \in DOMAIN DatabaseRef
  PROVE  \A v \in Counts(l) : v \in Nat
BY CountsAssumption DEF Counts

LEMMA SlotsTyped ==
  ASSUME TypeOK, SlotsKept
  PROVE  /\ \A t \in Types : last[t].label \in DOMAIN DatabaseRef /\ last[t].blockIncr \in {"y", "n"}
         /\ Own("diff") => last["incr"].label # last["full"].label
BY SlotsAssumption DEF TypeOK, SlotsKept, Slot, Types, Own, Before, Late

\* What the two steps of setUpMetricValue do to the metric.
LEMMA GetMetricFacts ==
  ASSUME NEW labels
  PROVE  /\ series \subseteq GetMetric(labels)
         /\ \E s \in GetMetric(labels) : s.labels = labels
         /\ \A s \in GetMetric(labels) \ series : s = [labels |-> labels, value |-> 0]
         /\ (\A s \in series : s.labels # labels) =>
              [labels |-> labels, value |-> 0] \in GetMetric(labels)
<1>1. [labels |-> labels, value |-> 0].labels = labels
  OBVIOUS
<1>2. QED
  BY <1>1 DEF GetMetric

LEMMA SetChildFacts ==
  ASSUME NEW g, NEW labels, NEW v
  PROVE  /\ g # generation => SetChild(g, labels, v) = series
         /\ \A s \in SetChild(g, labels, v) \ series : s = [labels |-> labels, value |-> v]
         /\ \A s \in series : s.labels # labels => s \in SetChild(g, labels, v)
         /\ g = generation =>
              /\ [labels |-> labels, value |-> v] \in SetChild(g, labels, v)
              /\ \A s \in SetChild(g, labels, v) :
                   s.labels = labels => s = [labels |-> labels, value |-> v]
<1>1. [labels |-> labels, value |-> v].labels = labels
  OBVIOUS
<1>2. QED
  BY <1>1 DEF SetChild

LEMMA TypeStep ==
  ASSUME TypeOK, SlotsKept, [Next]_vars
  PROVE  TypeOK'
<1> DEFINE WorkerType == [at: Idle \cup {"exec", "get", "set"},
                          label: {""} \cup DOMAIN DatabaseRef,
                          blockIncr: {"", "y", "n"}, value: Nat, child: Nat]
<1>a. /\ \A t \in Types : last[t].label \in DOMAIN DatabaseRef /\ last[t].blockIncr \in {"y", "n"}
      /\ \A t \in Types : \A v \in Counts(last[t].label) : v \in Nat
  BY SlotsTyped, CountsTyped
<1>b. \A s \in series : s.labels \in [type: Types, blockIncr: {"y", "n"}] /\ s.value \in Nat
  BY DEF TypeOK
<1>1. CASE ResetLast
  <2>1. generation' \in Nat
    <3>1. generation \in Nat /\ generation' = generation + 1
      BY <1>1 DEF ResetLast, TypeOK
    <3>2. QED
      BY <3>1
  <2>2. /\ clean' \in BOOLEAN /\ series' = {} /\ pc' = <<"spawn", "diff">>
        /\ UNCHANGED <<cycle, last, count, child, worker>>
    BY <1>1 DEF ResetLast
  <2>3. QED
    BY <2>1, <2>2 DEF TypeOK
<1>2. ASSUME NEW t \in {"diff", "incr"}, NEW b \in Types, NEW then,
             then \in {<<"spawn", "incr">>, <<"fetch", "full">>},
             SpawnUnlessSame(t, b, then)
      PROVE  TypeOK'
  <2>1. worker' \in [Workers -> WorkerType]
    BY <1>2, <1>a DEF SpawnUnlessSame, GoroutineFor, TypeOK, Idle, Types, Workers
  <2>2. QED
    BY <1>2, <2>1 DEF SpawnUnlessSame, TypeOK
<1>3. CASE FetchFull
  BY <1>3, <1>a DEF FetchFull, TypeOK, Types
<1>4. ASSUME NEW t \in Types, NEW then,
             then \in ({"set", "get"} \X Types) \cup {Returned},
             Get(t, then) \/ Set(t, then)
      PROVE  TypeOK'
  <2>1. OwnLabels(t) \in [type: Types, blockIncr: {"y", "n"}]
    BY <1>a DEF OwnLabels, Labels
  <2>2. \A s \in series' \ series : s = [labels |-> OwnLabels(t), value |-> 0]
                                 \/ s = [labels |-> OwnLabels(t), value |-> count]
    <3>1. CASE Get(t, then)
      BY <3>1, GetMetricFacts DEF Get, OwnLabels
    <3>2. CASE Set(t, then)
      BY <3>2 DEF Set, OwnLabels, SetChild
    <3>3. QED
      BY <1>4, <3>1, <3>2
  <2>3. count \in Nat
    BY DEF TypeOK
  <2>4. \A s \in series' : s.labels \in [type: Types, blockIncr: {"y", "n"}] /\ s.value \in Nat
    BY <1>b, <2>1, <2>2, <2>3
  <2>5. QED
    BY <1>4, <2>4 DEF Get, Set, TypeOK
<1>5. ASSUME NEW t \in Late, NEW b \in Types, NEW then \in ({"get"} \X Types) \cup {Returned},
             Skip(t, b, then)
      PROVE  TypeOK'
  BY <1>5 DEF Skip, TypeOK
<1>6. CASE NextCycle
  <2>1. cycle' \in Cycle
    <3>1. cycle \in Cycle
      BY DEF TypeOK
    <3>2. cycle < MaxCycle /\ cycle' = cycle + 1
      BY <1>6 DEF NextCycle
    <3>3. QED
      BY <3>1, <3>2 DEF Cycle
  <2>2. last' \in [Types -> Slot]
    BY <1>6, <2>1, SlotsAssumption DEF NextCycle
  <2>3. QED
    BY <1>6, <2>1, <2>2 DEF NextCycle, TypeOK
<1>7. ASSUME NEW w \in Workers, Worker(w)
      PROVE  TypeOK'
  <2>a. worker \in [Workers -> WorkerType] /\ w[2] \in Types
    BY DEF TypeOK, Workers, Types
  <2>b. /\ worker[w].label \in DOMAIN DatabaseRef /\ worker[w].blockIncr \in {"y", "n"}
        /\ worker[w].value \in Nat
    BY <1>7, <2>a DEF SlotsKept, Worker, WorkerFetch, WorkerGet, WorkerSet, Idle
  <2>c. Labels(w[2], worker[w].blockIncr) \in [type: Types, blockIncr: {"y", "n"}]
    BY <2>a, <2>b DEF Labels
  <2>1. CASE WorkerFetch(w)
    <3>1. \A v \in Counts(worker[w].label) : v \in Nat
      BY <2>b, CountsTyped
    <3>2. worker' \in [Workers -> WorkerType]
      <4>1. PICK v \in Counts(worker[w].label) :
              worker' = [worker EXCEPT ![w].at = "get", ![w].value = v]
        BY <2>1 DEF WorkerFetch
      <4>2. [worker[w] EXCEPT !.at = "get", !.value = v] \in WorkerType
        BY <2>a, <3>1
      <4>3. worker' = [worker EXCEPT ![w] = [worker[w] EXCEPT !.at = "get", !.value = v]]
        BY <2>a, <4>1
      <4>4. QED
        BY <2>a, <4>2, <4>3
    <3>3. QED
      BY <2>1, <3>2 DEF WorkerFetch, TypeOK
  <2>2. CASE WorkerGet(w)
    <3>1. worker' \in [Workers -> WorkerType]
      <4>1. generation \in Nat
        BY DEF TypeOK
      <4>2. worker' = [worker EXCEPT ![w].at = "set", ![w].child = generation]
        BY <2>2 DEF WorkerGet
      <4>3. [worker[w] EXCEPT !.at = "set", !.child = generation] \in WorkerType
        BY <2>a, <4>1
      <4>4. worker' = [worker EXCEPT ![w] = [worker[w] EXCEPT !.at = "set", !.child = generation]]
        BY <2>a, <4>2
      <4>5. QED
        BY <2>a, <4>3, <4>4
    <3>2. \A s \in series' \ series :
            s = [labels |-> Labels(w[2], worker[w].blockIncr), value |-> 0]
      BY <2>2, GetMetricFacts DEF WorkerGet
    <3>3. \A s \in series' : s.labels \in [type: Types, blockIncr: {"y", "n"}] /\ s.value \in Nat
      BY <1>b, <2>c, <3>2
    <3>4. QED
      BY <2>2, <3>1, <3>3 DEF WorkerGet, TypeOK
  <2>3. CASE WorkerSet(w)
    <3>1. worker' \in [Workers -> WorkerType]
      BY <2>a, <2>3 DEF WorkerSet, NoWorker, Idle
    <3>2. \A s \in series' \ series :
            s = [labels |-> Labels(w[2], worker[w].blockIncr), value |-> worker[w].value]
      BY <2>3 DEF WorkerSet, SetChild
    <3>3. \A s \in series' : s.labels \in [type: Types, blockIncr: {"y", "n"}] /\ s.value \in Nat
      BY <1>b, <2>b, <2>c, <3>2
    <3>4. QED
      BY <2>3, <3>1, <3>3 DEF WorkerSet, TypeOK
  <2>4. QED
    BY <1>7, <2>1, <2>2, <2>3 DEF Worker
<1>8. CASE UNCHANGED vars
  BY <1>8 DEF vars, TypeOK
<1>9. QED
  BY <1>1, <1>2, <1>3, <1>4, <1>5, <1>6, <1>7, <1>8
     DEF Next, Call, SpawnDiff, SpawnIncr, SetFull, SetDiff, SetIncr, Terminated, Types, Late

-----------------------------------------------------------------------------
\* What a goroutine's step does to the goroutines.
LEMMA WorkerFacts ==
  ASSUME TypeOK, SlotsKept, NEW w \in Workers, Worker(w)
  PROVE  /\ worker[w].at \notin Idle /\ worker'[w].at # "none"
         /\ worker' = [worker EXCEPT ![w] = worker'[w]]
         /\ worker'[w].at \notin Idle =>
              worker'[w].label = worker[w].label /\ worker'[w].blockIncr = worker[w].blockIncr
         /\ UNCHANGED <<pc, cycle, generation, last, count, child, clean>>
<1>1. worker \in [Workers -> [at: Idle \cup {"exec", "get", "set"},
                              label: {""} \cup DOMAIN DatabaseRef,
                              blockIncr: {"", "y", "n"}, value: Nat, child: Nat]]
  BY DEF TypeOK
<1>2. CASE WorkerFetch(w)
  <2>1. PICK v \in Counts(worker[w].label) :
          worker' = [worker EXCEPT ![w].at = "get", ![w].value = v]
    BY <1>2 DEF WorkerFetch
  <2>2. worker'[w] = [worker[w] EXCEPT !.at = "get", !.value = v]
    BY <1>1, <2>1
  <2>3. /\ worker'[w].at = "get" /\ worker'[w].label = worker[w].label
        /\ worker'[w].blockIncr = worker[w].blockIncr
    <3>1. DOMAIN worker[w] = {"at", "label", "blockIncr", "value", "child"}
      BY <1>1
    <3>2. QED
      BY <2>2, <3>1
  <2>4. worker' = [worker EXCEPT ![w] = worker'[w]]
    BY <1>1, <2>1
  <2>5. QED
    BY <1>2, <2>3, <2>4 DEF WorkerFetch, Idle
<1>3. CASE WorkerGet(w)
  <2>1. worker' = [worker EXCEPT ![w].at = "set", ![w].child = generation]
    BY <1>3 DEF WorkerGet
  <2>2. worker'[w] = [worker[w] EXCEPT !.at = "set", !.child = generation]
    BY <1>1, <2>1
  <2>3. /\ worker'[w].at = "set" /\ worker'[w].label = worker[w].label
        /\ worker'[w].blockIncr = worker[w].blockIncr
    BY <1>1, <2>2
  <2>4. worker' = [worker EXCEPT ![w] = worker'[w]]
    BY <1>1, <2>1
  <2>5. QED
    BY <1>3, <2>3, <2>4 DEF WorkerGet, Idle
<1>4. CASE WorkerSet(w)
  BY <1>1, <1>4 DEF WorkerSet, NoWorker, Idle
<1>5. QED
  BY <1>2, <1>3, <1>4 DEF Worker

\* What the other steps do to them.
LEMMA SpawnFacts ==
  ASSUME TypeOK, NEW t \in Late, SpawnUnlessSame(t, Before[t], pc')
  PROVE  /\ pc = <<"spawn", t>> /\ UNCHANGED <<cycle, generation, last, count, child, series, clean>>
         /\ ~Own(t) => UNCHANGED worker
         /\ Own(t) =>
              /\ worker' = [worker EXCEPT ![<<cycle, t>>] = worker'[<<cycle, t>>]]
              /\ worker'[<<cycle, t>>].at = "exec"
              /\ worker'[<<cycle, t>>].label = last[t].label
              /\ worker'[<<cycle, t>>].blockIncr = last[t].blockIncr
<1>1. <<cycle, t>> \in Workers /\ worker = [w \in Workers |-> worker[w]]
  BY DEF TypeOK, Workers, Late
<1>2. CASE Own(t)
  <2>1. worker' = [worker EXCEPT ![<<cycle, t>>] = GoroutineFor(last[t])]
    BY <1>2 DEF SpawnUnlessSame, Own
  <2>2. worker'[<<cycle, t>>] = GoroutineFor(last[t])
    BY <1>1, <2>1
  <2>3. /\ GoroutineFor(last[t]).at = "exec" /\ GoroutineFor(last[t]).label = last[t].label
        /\ GoroutineFor(last[t]).blockIncr = last[t].blockIncr
    BY DEF GoroutineFor
  <2>4. QED
    BY <1>2, <2>1, <2>2, <2>3 DEF SpawnUnlessSame
<1>3. CASE ~Own(t)
  BY <1>3 DEF SpawnUnlessSame, Own
<1>4. QED
  BY <1>2, <1>3

LEMMA GetSetPc ==
  ASSUME NEW t \in Types, NEW then, Get(t, then) \/ Set(t, then) \/ (\E b \in Types : Skip(t, b, then))
  PROVE  /\ pc \in {<<"get", t>>, <<"set", t>>} /\ pc' = then
         /\ UNCHANGED <<cycle, last, worker>>
BY DEF Get, Set, Skip

LEMMA CallFacts ==
  ASSUME ResetLast \/ FetchFull \/ SetFull \/ SetDiff \/ SetIncr \/ UNCHANGED vars
  PROVE  /\ UNCHANGED <<cycle, last, worker>>
         /\ \A t \in Late : Spawned(t)' <=> Spawned(t)
<1>1. UNCHANGED <<cycle, last, worker>>
  BY DEF ResetLast, FetchFull, SetFull, SetDiff, SetIncr, Get, Set, Skip, vars
<1>2. \/ UNCHANGED pc
      \/ pc = <<"reset", "">> /\ pc' = <<"spawn", "diff">>
      \/ /\ pc \in {<<"fetch", "full">>} \cup ({"get", "set"} \X Types)
         /\ pc' \in {Returned} \cup ({"get", "set"} \X Types)
  <2>1. CASE ResetLast
    BY <2>1 DEF ResetLast
  <2>2. CASE FetchFull
    BY <2>2 DEF FetchFull, Types
  <2>3. CASE UNCHANGED vars
    BY <2>3 DEF vars
  <2>4. ASSUME NEW t \in Types, NEW then \in {Returned} \cup ({"get", "set"} \X Types),
               Get(t, then) \/ Set(t, then) \/ (\E b \in Types : Skip(t, b, then))
        PROVE  /\ pc \in {"get", "set"} \X Types
               /\ pc' \in {Returned} \cup ({"get", "set"} \X Types)
    <3>1. pc \in {<<"get", t>>, <<"set", t>>} /\ pc' = then
      BY <2>4, GetSetPc
    <3>2. QED
      BY <3>1
  <2>5. /\ {<<"set", "full">>, <<"get", "diff">>, <<"set", "diff">>, <<"get", "incr">>,
            <<"set", "incr">>, Returned} \subseteq {Returned} \cup ({"get", "set"} \X Types)
        /\ {"full", "diff", "incr"} \subseteq Types
    BY DEF Types
  <2>6. QED
    BY <2>1, <2>2, <2>3, <2>4, <2>5 DEF SetFull, SetDiff, SetIncr
<1>3. CASE UNCHANGED pc
  BY <1>1, <1>3 DEF Spawned
<1>4. CASE pc = <<"reset", "">> /\ pc' = <<"spawn", "diff">>
  BY <1>1, <1>4 DEF Spawned, Late
<1>5. CASE /\ pc \in {<<"fetch", "full">>} \cup ({"get", "set"} \X Types)
           /\ pc' \in {Returned} \cup ({"get", "set"} \X Types)
  <2>1. ASSUME NEW p, p \in {<<"fetch", "full">>, Returned} \cup ({"get", "set"} \X Types)
        PROVE  p # <<"reset", "">> /\ p # <<"spawn", "diff">> /\ p # <<"spawn", "incr">>
    <3>1. p[1] \in {"fetch", "returned", "get", "set"}
      <4>1. CASE p = <<"fetch", "full">>
        BY <4>1
      <4>2. CASE p = Returned
        BY <4>2 DEF Returned
      <4>3. CASE p \in {"get", "set"} \X Types
        BY <4>3
      <4>4. QED
        BY <2>1, <4>1, <4>2, <4>3
    <3>2. <<"reset", "">>[1] = "reset"
      OBVIOUS
    <3>3. <<"spawn", "diff">>[1] = "spawn" /\ <<"spawn", "incr">>[1] = "spawn"
      OBVIOUS
    <3>4. QED
      BY <3>1, <3>2, <3>3
  <2>2. QED
    BY <1>1, <1>5, <2>1 DEF Spawned, Late
<1>6. QED
  BY <1>2, <1>3, <1>4, <1>5

LEMMA NextCases ==
  ASSUME [Next]_vars
  PROVE  \/ ResetLast \/ FetchFull \/ SetFull \/ SetDiff \/ SetIncr \/ UNCHANGED vars
         \/ \E t \in Late : /\ SpawnUnlessSame(t, Before[t], pc')
                            /\ pc' = IF t = "diff" THEN <<"spawn", "incr">> ELSE <<"fetch", "full">>
         \/ NextCycle
         \/ \E w \in Workers : Worker(w)
<1>1. Before["diff"] = "full" /\ Before["incr"] = "diff"
  BY DEF Before, Late
<1>2. SpawnDiff => SpawnUnlessSame("diff", "full", pc') /\ pc' = <<"spawn", "incr">>
  BY DEF SpawnDiff, SpawnUnlessSame
<1>3. SpawnIncr => SpawnUnlessSame("incr", "diff", pc') /\ pc' = <<"fetch", "full">>
  BY DEF SpawnIncr, SpawnUnlessSame
<1>4. QED
  BY <1>1, <1>2, <1>3 DEF Next, Call, Terminated, Late

-----------------------------------------------------------------------------
LEMMA WorkersTyped ==
  ASSUME TypeOK
  PROVE  /\ cycle \in Cycle /\ \A t \in Late : <<cycle, t>> \in Workers
         /\ DOMAIN worker = Workers
         /\ \A w \in Workers : w[1] \in Cycle /\ w[2] \in Late /\ w = <<w[1], w[2]>>
         /\ \A c \in Cycle, t \in Late : <<c, t>> \in Workers
<1>1. cycle \in Cycle /\ DOMAIN worker = Workers
  BY DEF TypeOK
<1>2. \A c \in Cycle, t \in Late : <<c, t>> \in Workers
  BY DEF Workers, Late
<1>3. \A w \in Workers : w[1] \in Cycle /\ w[2] \in Late /\ w = <<w[1], w[2]>>
  BY DEF Workers, Late
<1>4. QED
  BY <1>1, <1>2, <1>3

LEMMA CyclesOrdered ==
  \A c, d \in Cycle : c < d \/ c > d \/ c = d
BY DEF Cycle

LEMMA NextCycleTyped ==
  ASSUME TypeOK, NextCycle
  PROVE  cycle' = cycle + 1 /\ cycle' \in Cycle /\ cycle \in Nat
<1>1. cycle \in Cycle
  BY DEF TypeOK
<1>2. cycle < MaxCycle /\ cycle' = cycle + 1
  BY DEF NextCycle
<1>3. QED
  BY <1>1, <1>2 DEF Cycle

LEMMA SlotsStep ==
  ASSUME TypeOK, SlotsKept, [Next]_vars
  PROVE  SlotsKept'
<1>1. CASE ResetLast \/ FetchFull \/ SetFull \/ SetDiff \/ SetIncr \/ UNCHANGED vars
  BY <1>1, CallFacts DEF SlotsKept
<1>2. ASSUME NEW t \in Late, SpawnUnlessSame(t, Before[t], pc')
      PROVE  SlotsKept'
  <2>1. last[t].label \in DOMAIN DatabaseRef /\ last[t].blockIncr \in {"y", "n"}
    BY SlotsTyped DEF Types, Late
  <2>2. QED
    BY <1>2, <2>1, SpawnFacts, WorkersTyped DEF SlotsKept
<1>3. CASE NextCycle
  BY <1>3 DEF NextCycle, SlotsKept
<1>4. ASSUME NEW w \in Workers, Worker(w)
      PROVE  SlotsKept'
  BY <1>4, WorkerFacts, WorkersTyped DEF SlotsKept
<1>5. QED
  BY <1>1, <1>2, <1>3, <1>4, NextCases

LEMMA StartedStep ==
  ASSUME TypeOK, SlotsKept, Started, [Next]_vars
  PROVE  Started'
<1>1. CASE ResetLast \/ FetchFull \/ SetFull \/ SetDiff \/ SetIncr \/ UNCHANGED vars
  BY <1>1, CallFacts DEF Started, Own
<1>2. ASSUME NEW t \in Late, SpawnUnlessSame(t, Before[t], pc'),
             pc' = IF t = "diff" THEN <<"spawn", "incr">> ELSE <<"fetch", "full">>
      PROVE  Started'
  <2>1. ~Spawned(t) /\ Spawned(t)' /\ \A u \in Late \ {t} : Spawned(u)' <=> Spawned(u)
    <3>1. pc = <<"spawn", t>>
      BY <1>2, SpawnFacts
    <3>2. CASE t = "diff"
      BY <1>2, <3>1, <3>2 DEF Spawned, Late
    <3>3. CASE t = "incr"
      BY <1>2, <3>1, <3>3 DEF Spawned, Late
    <3>4. QED
      BY <3>2, <3>3 DEF Late
  <2>2. UNCHANGED <<cycle, last>> /\ \A u \in Late : Own(u)' <=> Own(u)
    BY <1>2, SpawnFacts DEF Own
  <2>3. \A w \in Workers : w # <<cycle, t>> => worker'[w] = worker[w]
    BY <1>2, SpawnFacts, WorkersTyped
  <2>4. \A u \in Late \ {t} : worker'[<<cycle, u>>] = worker[<<cycle, u>>]
    BY <2>3, WorkersTyped
  <2>5. \A c \in Cycle, u \in Late : c > cycle => worker'[<<c, u>>].at = "none"
    BY <2>3, WorkersTyped DEF Started, Cycle
  <2>6. CASE Own(t)
    BY <1>2, <2>1, <2>2, <2>4, <2>5, <2>6, SpawnFacts DEF Started, Idle
  <2>7. CASE ~Own(t)
    BY <1>2, <2>1, <2>2, <2>4, <2>5, <2>7, SpawnFacts DEF Started, Idle
  <2>8. QED
    BY <2>6, <2>7
<1>3. CASE NextCycle
  <2>1. cycle' = cycle + 1 /\ cycle' \in Cycle /\ cycle \in Nat
    BY <1>3, NextCycleTyped
  <2>2. UNCHANGED worker /\ \A t \in Late : ~Spawned(t)'
    BY <1>3 DEF NextCycle, Spawned
  <2>3. \A c \in Cycle, t \in Late : c > cycle' => worker[<<c, t>>].at = "none"
    BY <2>1 DEF Started, Cycle
  <2>4. \A t \in Late : worker[<<cycle', t>>].at = "none"
    BY <2>1 DEF Started
  <2>5. QED
    BY <2>2, <2>3, <2>4 DEF Started, Idle
<1>4. ASSUME NEW w \in Workers, Worker(w)
      PROVE  Started'
  <2>1. UNCHANGED <<pc, cycle, last>> /\ \A t \in Late : (Spawned(t)' <=> Spawned(t)) /\ (Own(t)' <=> Own(t))
    BY <1>4, WorkerFacts DEF Spawned, Own
  <2>2. \A v \in Workers : v # w => worker'[v] = worker[v]
    BY <1>4, WorkerFacts, WorkersTyped
  <2>3. \A v \in Workers : worker'[v].at = "none" <=> worker[v].at = "none"
    BY <1>4, <2>2, WorkerFacts DEF Idle
  <2>4. \A v \in Workers : worker'[v].at \notin Idle =>
          /\ worker[v].at \notin Idle /\ worker'[v].label = worker[v].label
          /\ worker'[v].blockIncr = worker[v].blockIncr
    BY <1>4, <2>2, WorkerFacts
  <2>5. QED
    BY <2>1, <2>3, <2>4, WorkersTyped DEF Started
<1>5. QED
  BY <1>1, <1>2, <1>3, <1>4, NextCases

-----------------------------------------------------------------------------
\* The steps of the call that store, type by type.
After == [t \in Types |-> CASE t = "full" -> <<"get", "diff">>
                            [] t = "diff" -> <<"get", "incr">>
                            [] t = "incr" -> Returned]

LEMMA StoreCases ==
  ASSUME SetFull \/ SetDiff \/ SetIncr
  PROVE  \E t \in Types :
           \/ Get(t, <<"set", t>>) /\ (t \in Late => ~Own(t))
           \/ Set(t, After[t])
           \/ t \in Late /\ Own(t) /\ Skip(t, Before[t], After[t])
<1>1. /\ After["full"] = <<"get", "diff">> /\ After["diff"] = <<"get", "incr">>
      /\ After["incr"] = Returned
  BY DEF After, Types
<1>2. Before["diff"] = "full" /\ Before["incr"] = "diff" /\ "full" \notin Late
      /\ Late = {"diff", "incr"}
  BY DEF Before, Late
<1>3. CASE SetFull
  BY <1>1, <1>2, <1>3 DEF SetFull, Types
<1>4. CASE SetDiff
  BY <1>1, <1>2, <1>4 DEF SetDiff, Types, Own, Skip
<1>5. CASE SetIncr
  BY <1>1, <1>2, <1>5 DEF SetIncr, Types, Own, Skip
<1>6. QED
  BY <1>3, <1>4, <1>5

LEMMA StoredTable ==
  ASSUME NEW p
  PROVE  /\ p = <<"get", "full">> => \A t \in Types : ~StoredAt(p, t)
         /\ p = <<"set", "full">> => \A t \in Types : ~StoredAt(p, t)
         /\ p = <<"get", "diff">> => \A t \in Types : StoredAt(p, t) <=> t = "full"
         /\ p = <<"set", "diff">> => \A t \in Types : StoredAt(p, t) <=> t = "full"
         /\ p = <<"get", "incr">> => \A t \in Types : StoredAt(p, t) <=> t # "incr"
         /\ p = <<"set", "incr">> => \A t \in Types : StoredAt(p, t) <=> t # "incr"
         /\ p = Returned => \A t \in Types : StoredAt(p, t)
<1> USE DEF StoredAt, Returned, Types
<1>1. p = <<"get", "full">> => \A t \in Types : ~StoredAt(p, t)
  OBVIOUS
<1>2. p = <<"set", "full">> => \A t \in Types : ~StoredAt(p, t)
  OBVIOUS
<1>3. p = <<"get", "diff">> => \A t \in Types : StoredAt(p, t) <=> t = "full"
  OBVIOUS
<1>4. p = <<"set", "diff">> => \A t \in Types : StoredAt(p, t) <=> t = "full"
  OBVIOUS
<1>5. p = <<"get", "incr">> => \A t \in Types : StoredAt(p, t) <=> t # "incr"
  OBVIOUS
<1>6. p = <<"set", "incr">> => \A t \in Types : StoredAt(p, t) <=> t # "incr"
  OBVIOUS
<1>7. QED
  BY <1>1, <1>2, <1>3, <1>4, <1>5, <1>6

LEMMA StoredFacts ==
  ASSUME NEW t \in Types
  PROVE  /\ pc = <<"get", t>> /\ pc' = <<"set", t>> =>
              \A u \in Types : Stored(u)' <=> Stored(u)
         /\ pc \in {<<"get", t>>, <<"set", t>>} /\ pc' = After[t] =>
              /\ ~Stored(t)
              /\ \A u \in Types : Stored(u)' <=> Stored(u) \/ u = t
              /\ \A u \in Types : pc' # <<"set", u>>
<1>1. /\ After["full"] = <<"get", "diff">> /\ After["diff"] = <<"get", "incr">>
      /\ After["incr"] = Returned
  BY DEF After, Types
<1>2. \A u \in Types : After[t] # <<"set", u>>
  <2>1. \A u \in Types : <<"get", "diff">> # <<"set", u>>
    OBVIOUS
  <2>2. \A u \in Types : <<"get", "incr">> # <<"set", u>>
    OBVIOUS
  <2>3. \A u \in Types : Returned # <<"set", u>>
    BY DEF Returned
  <2>4. QED
    BY <1>1, <2>1, <2>2, <2>3 DEF Types
<1>3. CASE t = "full"
  BY <1>1, <1>2, <1>3, StoredTable DEF Stored, Types
<1>4. CASE t = "diff"
  BY <1>1, <1>2, <1>4, StoredTable DEF Stored, Types
<1>5. CASE t = "incr"
  BY <1>1, <1>2, <1>5, StoredTable DEF Stored, Types
<1>6. QED
  BY <1>3, <1>4, <1>5 DEF Types

\* Only the reset takes a series out of the metric.
LEMMA LabelsKept ==
  ASSUME [Next]_vars, ~ResetLast, NEW labels, \E s \in series : s.labels = labels
  PROVE  \E s \in series' : s.labels = labels
<1>1. \/ UNCHANGED series
      \/ \E l : series' = GetMetric(l)
      \/ \E g, l, v : series' = SetChild(g, l, v)
  BY Zenon DEF Next, Call, NextCycle, SpawnDiff, SpawnIncr, SpawnUnlessSame, FetchFull,
     SetFull, SetDiff, SetIncr, Get, Set, Skip, Worker, WorkerFetch, WorkerGet, WorkerSet,
     Terminated, vars
<1>2. ASSUME NEW l, series' = GetMetric(l)
      PROVE  \E s \in series' : s.labels = labels
  BY <1>2, GetMetricFacts
<1>3. ASSUME NEW g, NEW l, NEW v, series' = SetChild(g, l, v)
      PROVE  \E s \in series' : s.labels = labels
  <2>1. PICK s \in series : s.labels = labels
    OBVIOUS
  <2>2. CASE s \in series'
    BY <2>1, <2>2
  <2>3. CASE s \notin series'
    <3>1. g = generation /\ labels = l
      BY <1>3, <2>1, <2>3, SetChildFacts
    <3>2. [labels |-> l, value |-> v] \in series'
      BY <1>3, <3>1, SetChildFacts
    <3>3. [labels |-> l, value |-> v].labels = labels
      BY <3>1
    <3>4. QED
      BY <3>2, <3>3
  <2>4. QED
    BY <2>2, <2>3
<1>4. QED
  BY <1>1, <1>2, <1>3

\* How the rest of the steps leave the phases of the call.
LEMMA OtherPhases ==
  ASSUME [Next]_vars
  PROVE  /\ ResetLast => pc = <<"reset", "">> /\ pc' = <<"spawn", "diff">>
         /\ FetchFull => pc = <<"fetch", "full">> /\ pc' = <<"get", "full">>
         /\ NextCycle => pc = Returned /\ pc' = <<"reset", "">>
BY DEF ResetLast, FetchFull, NextCycle

\* No store is under way and nothing is stored before the call stores.
LEMMA EarlyPhases ==
  ASSUME NEW p,
         \/ p = <<"reset", "">> \/ p = <<"spawn", "diff">> \/ p = <<"spawn", "incr">>
         \/ p = <<"fetch", "full">> \/ p = <<"get", "full">>
  PROVE  \A t \in Types : ~StoredAt(p, t) /\ p # <<"set", t>>
<1>1. CASE p = <<"reset", "">>
  BY <1>1 DEF StoredAt, Returned, Types
<1>2. CASE p = <<"spawn", "diff">>
  BY <1>2 DEF StoredAt, Returned, Types
<1>3. CASE p = <<"spawn", "incr">>
  BY <1>3 DEF StoredAt, Returned, Types
<1>4. CASE p = <<"fetch", "full">>
  BY <1>4 DEF StoredAt, Returned, Types
<1>5. CASE p = <<"get", "full">>
  BY <1>5 DEF StoredAt, Returned, Types
<1>6. QED
  BY <1>1, <1>2, <1>3, <1>4, <1>5

LEMMA ChildrenStep ==
  ASSUME TypeOK, SlotsKept, Started, ChildrenLive, [Next]_vars
  PROVE  ChildrenLive'
<1>a. Late \subseteq Types
  BY DEF Late, Types
<1>b. ~ResetLast => \A l : (\E s \in series : s.labels = l) => \E s \in series' : s.labels = l
  BY LabelsKept
<1>1. CASE ResetLast
  <2>1. /\ UNCHANGED <<cycle, worker>> /\ pc' = <<"spawn", "diff">>
        /\ \A t \in Late : worker[<<cycle, t>>].at = "none"
    BY <1>1, CallFacts, OtherPhases DEF Started, Spawned
  <2>2. \A t \in Types : ~Stored(t)' /\ pc' # <<"set", t>>
    BY <2>1, EarlyPhases DEF Stored
  <2>3. QED
    BY <1>a, <2>1, <2>2 DEF ChildrenLive
<1>2. CASE FetchFull
  <2>1. UNCHANGED <<cycle, worker, series, generation, last>> /\ pc' = <<"get", "full">>
    BY <1>2 DEF FetchFull
  <2>2. \A t \in Types : ~Stored(t)' /\ pc' # <<"set", t>>
    BY <2>1, EarlyPhases DEF Stored
  <2>3. QED
    BY <1>a, <2>1, <2>2 DEF ChildrenLive, HasSeries, OwnLabels
<1>3. CASE UNCHANGED vars
  BY <1>3 DEF vars, ChildrenLive, HasSeries, OwnLabels, Own, Stored
<1>4. ASSUME NEW t \in Types, Get(t, <<"set", t>>), t \in Late => ~Own(t), ~ResetLast
      PROVE  ChildrenLive'
  <2>1. /\ UNCHANGED <<cycle, worker, generation, last>> /\ child' = generation
        /\ pc = <<"get", t>> /\ pc' = <<"set", t>>
    BY <1>4 DEF Get
  <2>2. \A u \in Types : HasSeries(u) => HasSeries(u)'
    BY <1>4, <1>b, <2>1 DEF HasSeries, OwnLabels
  <2>3. HasSeries(t)'
    BY <1>4, <2>1, GetMetricFacts DEF Get, HasSeries, OwnLabels
  <2>4. \A u \in Types : pc' = <<"set", u>> => u = t
    BY <2>1
  <2>5. \A u \in Types : (Own(u)' <=> Own(u)) /\ (Stored(u)' <=> Stored(u))
    BY <2>1, StoredFacts DEF Own
  <2>6. "full" \notin Late
    BY DEF Late
  <2>7. QED
    BY <1>4, <1>a, <2>1, <2>2, <2>3, <2>4, <2>5, <2>6 DEF ChildrenLive, Types, Late
<1>5. ASSUME NEW t \in Types, Set(t, After[t]), ~ResetLast
      PROVE  ChildrenLive'
  <2>1. /\ UNCHANGED <<cycle, worker, generation, last>>
        /\ pc = <<"set", t>> /\ pc' = After[t]
    BY <1>5 DEF Set
  <2>2. \A u \in Types : HasSeries(u) => HasSeries(u)'
    BY <1>5, <1>b, <2>1 DEF HasSeries, OwnLabels
  <2>3. HasSeries(t)'
    BY <2>1, <2>2 DEF ChildrenLive
  <2>4. \A u \in Types : (Own(u)' <=> Own(u)) /\ (Stored(u)' <=> Stored(u) \/ u = t)
                         /\ pc' # <<"set", u>>
    BY <2>1, StoredFacts DEF Own
  <2>5. QED
    BY <1>a, <2>1, <2>2, <2>3, <2>4 DEF ChildrenLive
<1>6. ASSUME NEW t \in Late, Own(t), Skip(t, Before[t], After[t])
      PROVE  ChildrenLive'
  <2>1. /\ UNCHANGED <<cycle, worker, generation, last, series>>
        /\ pc = <<"get", t>> /\ pc' = After[t]
    BY <1>6 DEF Skip
  <2>2. \A u \in Types : (Own(u)' <=> Own(u)) /\ (Stored(u)' <=> Stored(u) \/ u = t)
                         /\ pc' # <<"set", u>> /\ (HasSeries(u)' <=> HasSeries(u))
    BY <1>a, <2>1, StoredFacts DEF Own, HasSeries, OwnLabels
  <2>3. QED
    BY <1>6, <1>a, <2>1, <2>2 DEF ChildrenLive
<1>7. ASSUME NEW t \in Late, SpawnUnlessSame(t, Before[t], pc'),
             pc' = IF t = "diff" THEN <<"spawn", "incr">> ELSE <<"fetch", "full">>
      PROVE  ChildrenLive'
  <2>1. \A u \in Types : ~Stored(u)' /\ pc' # <<"set", u>>
    BY <1>7, EarlyPhases DEF Stored
  <2>2. UNCHANGED <<cycle, generation, last, series>>
    BY <1>7, SpawnFacts
  <2>3. \A u \in Late : \/ worker'[<<cycle, u>>] = worker[<<cycle, u>>]
                        \/ worker'[<<cycle, u>>].at = "exec"
    BY <1>7, SpawnFacts, WorkersTyped
  <2>4. QED
    BY <1>a, <2>1, <2>2, <2>3 DEF ChildrenLive, HasSeries, OwnLabels
<1>8. CASE NextCycle
  <2>1. \A u \in Types : ~Stored(u)' /\ pc' # <<"set", u>>
    BY <1>8, EarlyPhases, OtherPhases DEF Stored
  <2>2. \A t \in Late : worker'[<<cycle', t>>].at = "none"
    <3>1. UNCHANGED worker /\ cycle' = cycle + 1 /\ cycle' \in Cycle /\ cycle \in Nat
      BY <1>8, NextCycleTyped DEF NextCycle
    <3>2. QED
      BY <3>1 DEF Started
  <2>3. QED
    BY <1>a, <2>1, <2>2 DEF ChildrenLive
<1>9. ASSUME NEW w \in Workers, Worker(w), ~ResetLast
      PROVE  ChildrenLive'
  <2>1. UNCHANGED <<pc, cycle, generation, last, child>>
    BY <1>9, WorkerFacts
  <2>2. \A u \in Types : HasSeries(u) => HasSeries(u)'
    BY <1>9, <1>b, <2>1 DEF HasSeries, OwnLabels
  <2>3. \A v \in Workers : v # w => worker'[v] = worker[v]
    BY <1>9, WorkerFacts, WorkersTyped
  <2>4. ASSUME NEW t \in Late, w = <<cycle, t>>
        PROVE  /\ worker'[w].at = "set" => worker'[w].child = generation
               /\ worker'[w].at \in {"set", "exited"} => HasSeries(t)'
    <3>1. worker[w].blockIncr = last[t].blockIncr /\ w[2] = t
      BY <1>9, <2>4, WorkerFacts DEF Started
    <3>2. CASE WorkerFetch(w)
      <4>1. worker'[w].at = "get"
        <5>1. PICK v \in Counts(worker[w].label) :
                worker' = [worker EXCEPT ![w].at = "get", ![w].value = v]
          BY <3>2 DEF WorkerFetch
        <5>2. worker'[w] = [worker[w] EXCEPT !.at = "get", !.value = v]
          BY <5>1, WorkersTyped
        <5>3. "at" \in DOMAIN worker[w]
          BY DEF TypeOK
        <5>4. QED
          BY <5>2, <5>3
      <4>2. QED
        BY <4>1
    <3>3. CASE WorkerGet(w)
      <4>1. worker'[w].at = "set" /\ worker'[w].child = generation
        BY <3>3 DEF WorkerGet, TypeOK
      <4>2. HasSeries(t)'
        BY <2>1, <3>1, <3>3, GetMetricFacts DEF WorkerGet, HasSeries, OwnLabels
      <4>3. QED
        BY <4>1, <4>2
    <3>4. CASE WorkerSet(w)
      <4>1. worker'[w].at = "exited" /\ worker[w].at = "set"
        BY <3>4 DEF WorkerSet, TypeOK, NoWorker
      <4>2. QED
        BY <1>a, <2>2, <2>4, <4>1 DEF ChildrenLive
    <3>5. QED
      BY <1>9, <3>2, <3>3, <3>4 DEF Worker
  <2>5. \A u \in Types : (Own(u)' <=> Own(u)) /\ (Stored(u)' <=> Stored(u))
    BY <2>1 DEF Own, Stored
  <2>6. QED
    BY <1>a, <2>1, <2>2, <2>3, <2>4, <2>5, WorkersTyped DEF ChildrenLive
<1>10. QED
  <2>1. ResetLast => pc = <<"reset", "">>
    BY OtherPhases
  <2>2. (SetFull \/ SetDiff \/ SetIncr) => ~ResetLast
    <3>1. ASSUME NEW t \in Types, pc \in {<<"get", t>>, <<"set", t>>}
          PROVE  pc # <<"reset", "">>
      <4>1. pc[1] \in {"get", "set"}
        BY <3>1
      <4>2. <<"reset", "">>[1] = "reset"
        OBVIOUS
      <4>3. QED
        BY <4>1, <4>2
    <3>2. Late \subseteq Types /\ \A t \in Late : Before[t] \in Types
      BY DEF Late, Types, Before
    <3>3. QED
      BY <2>1, <3>1, <3>2, GetSetPc, StoreCases
  <2>3. \A w \in Workers : Worker(w) => ~ResetLast
    <3>1. <<"reset", "">> # <<"spawn", "diff">>
      OBVIOUS
    <3>2. QED
      BY <3>1, WorkerFacts, OtherPhases
  <2>4. QED
    BY <1>1, <1>2, <1>3, <1>4, <1>5, <1>6, <1>7, <1>8, <1>9, <2>2, <2>3,
       NextCases, StoreCases

-----------------------------------------------------------------------------
\* A store for one type leaves the series of the others alone.
LEMMA OtherTypesKept ==
  ASSUME NEW t, NEW labels, labels.type # t, NEW g, NEW v
  PROVE  /\ {s \in GetMetric(labels) : s.labels.type = t} = Shown(t)
         /\ {s \in SetChild(g, labels, v) : s.labels.type = t} = Shown(t)
<1>1. \A x : [labels |-> labels, value |-> x].labels.type # t
  OBVIOUS
<1>2. {s \in GetMetric(labels) : s.labels.type = t} = Shown(t)
  <2>1. \A s \in GetMetric(labels) \ series : s.labels.type # t
    BY <1>1, GetMetricFacts
  <2>2. series \subseteq GetMetric(labels)
    BY GetMetricFacts
  <2>3. QED
    BY <2>1, <2>2 DEF Shown
<1>3. {s \in SetChild(g, labels, v) : s.labels.type = t} = Shown(t)
  <2>1. \A s \in SetChild(g, labels, v) \ series : s.labels.type # t
    BY <1>1, SetChildFacts
  <2>2. \A s \in series : s.labels.type = t => s \in SetChild(g, labels, v)
    BY SetChildFacts
  <2>3. QED
    BY <2>1, <2>2 DEF Shown
<1>4. QED
  BY <1>2, <1>3

LEMMA WorkerShown ==
  ASSUME TypeOK, SlotsKept, NEW w \in Workers, Worker(w), NEW t, t # w[2]
  PROVE  Shown(t)' = Shown(t)
<1>1. Labels(w[2], worker[w].blockIncr).type # t
  BY DEF Labels
<1>2. \/ UNCHANGED series
      \/ series' = GetMetric(Labels(w[2], worker[w].blockIncr))
      \/ series' = SetChild(worker[w].child, Labels(w[2], worker[w].blockIncr), worker[w].value)
  BY DEF Worker, WorkerFetch, WorkerGet, WorkerSet
<1>3. CASE UNCHANGED series
  BY <1>3 DEF Shown
<1>4. CASE series' = GetMetric(Labels(w[2], worker[w].blockIncr))
  BY <1>1, <1>4, OtherTypesKept DEF Shown
<1>5. CASE series' = SetChild(worker[w].child, Labels(w[2], worker[w].blockIncr), worker[w].value)
  <2>1. {s \in SetChild(worker[w].child, Labels(w[2], worker[w].blockIncr), worker[w].value) :
           s.labels.type = t} = Shown(t)
    BY <1>1, OtherTypesKept
  <2>2. Shown(t)' = {s \in series' : s.labels.type = t}
    BY DEF Shown
  <2>3. QED
    BY <1>5, <2>1, <2>2
<1>6. QED
  BY <1>2, <1>3, <1>4, <1>5

LEMMA StoreShown ==
  ASSUME NEW t \in Types, NEW then, Get(t, then) \/ Set(t, then), NEW u, u # t
  PROVE  Shown(u)' = Shown(u)
<1>1. OwnLabels(t).type # u
  BY DEF OwnLabels, Labels
<1>2. series' = GetMetric(OwnLabels(t)) \/ series' = SetChild(child, OwnLabels(t), count)
  BY DEF Get, Set, OwnLabels
<1>3. QED
  BY <1>1, <1>2, OtherTypesKept DEF Shown

LEMMA FullStep ==
  ASSUME TypeOK, SlotsKept, Started, ChildrenLive, FullOnlyByCall, [Next]_vars
  PROVE  FullOnlyByCall'
<1>a. "full" \in Types /\ Late \subseteq Types /\ "full" \notin Late
  BY DEF Late, Types
<1>1. CASE ResetLast
  <2>1. series' = {} /\ pc' = <<"spawn", "diff">>
    BY <1>1 DEF ResetLast
  <2>2. ~Stored("full")' /\ pc' # <<"set", "full">> /\ pc' # <<"get", "full">>
    BY <1>a, <2>1, EarlyPhases DEF Stored
  <2>3. QED
    BY <2>1, <2>2 DEF FullOnlyByCall, Shown
<1>2. CASE FetchFull
  <2>1. /\ UNCHANGED <<series, last>> /\ pc = <<"fetch", "full">> /\ pc' = <<"get", "full">>
        /\ count' \in Counts(last["full"].label)
    BY <1>2 DEF FetchFull
  <2>2. /\ ~Stored("full") /\ pc # <<"set", "full">> /\ pc # <<"reset", "">>
        /\ ~Stored("full")' /\ pc' # <<"set", "full">>
    BY <1>a, <2>1, EarlyPhases DEF Stored
  <2>3. QED
    BY <2>1, <2>2 DEF FullOnlyByCall, Shown
<1>3. CASE UNCHANGED vars
  BY <1>3 DEF vars, FullOnlyByCall, Shown, Stored, OwnLabels
<1>4. CASE Get("full", <<"set", "full">>)
  <2>1. /\ UNCHANGED <<last, count>> /\ pc = <<"get", "full">> /\ pc' = <<"set", "full">>
        /\ series' = GetMetric(OwnLabels("full"))
    BY <1>4 DEF Get, OwnLabels
  <2>2. ~Stored("full") /\ ~Stored("full")' /\ pc # <<"set", "full">> /\ pc # <<"reset", "">>
    BY <1>a, <2>1, StoredTable DEF Stored
  <2>3. Shown("full") = {}
    BY <2>2 DEF FullOnlyByCall
  <2>4. OwnLabels("full").type = "full"
    BY DEF OwnLabels, Labels
  <2>5. \A s \in series : s.labels # OwnLabels("full")
    BY <2>3, <2>4 DEF Shown
  <2>6. [labels |-> OwnLabels("full"), value |-> 0].labels.type = "full"
    BY <2>4
  <2>7. Shown("full")' = {[labels |-> OwnLabels("full"), value |-> 0]}
    <3>1. [labels |-> OwnLabels("full"), value |-> 0] \in series'
      BY <2>1, <2>5, GetMetricFacts
    <3>2. \A s \in series' : s \in series \/ s = [labels |-> OwnLabels("full"), value |-> 0]
      BY <2>1, GetMetricFacts
    <3>3. QED
      BY <2>3, <2>6, <3>1, <3>2 DEF Shown
  <2>8. QED
    BY <2>1, <2>2, <2>7 DEF FullOnlyByCall, OwnLabels
<1>5. CASE Set("full", After["full"])
  <2>1. /\ UNCHANGED <<last, count>> /\ pc = <<"set", "full">> /\ pc' = After["full"]
        /\ series' = SetChild(generation, OwnLabels("full"), count)
    BY <1>a, <1>5 DEF Set, OwnLabels, ChildrenLive
  <2>2. Stored("full")' /\ pc' # <<"set", "full">> /\ pc' # <<"get", "full">>
    <3>1. Stored("full")' /\ pc' # <<"set", "full">> /\ After["full"] = <<"get", "diff">>
      BY <1>a, <2>1, StoredFacts DEF After
    <3>2. QED
      BY <2>1, <3>1
  <2>3. OwnLabels("full").type = "full"
    BY DEF OwnLabels, Labels
  <2>4. Shown("full") = {[labels |-> OwnLabels("full"), value |-> 0]}
    BY <2>1 DEF FullOnlyByCall
  <2>5. [labels |-> OwnLabels("full"), value |-> count].labels = OwnLabels("full")
        /\ [labels |-> OwnLabels("full"), value |-> 0].labels = OwnLabels("full")
    OBVIOUS
  <2>6. \A s \in series' : s.labels.type = "full" =>
          s = [labels |-> OwnLabels("full"), value |-> count]
    <3>1. ASSUME NEW s \in series', s \notin series
          PROVE  s = [labels |-> OwnLabels("full"), value |-> count]
      BY <2>1, <3>1, SetChildFacts
    <3>2. ASSUME NEW s \in series', s \in series, s.labels.type = "full"
          PROVE  s = [labels |-> OwnLabels("full"), value |-> count]
      <4>1. s.labels = OwnLabels("full")
        BY <2>4, <2>5, <3>2 DEF Shown
      <4>2. QED
        BY <2>1, <4>1, SetChildFacts
    <3>3. QED
      BY <3>1, <3>2
  <2>7. Shown("full")' = {[labels |-> OwnLabels("full"), value |-> count]}
    BY <2>1, <2>3, <2>5, <2>6, SetChildFacts DEF Shown
  <2>8. QED
    BY <2>1, <2>2, <2>7 DEF FullOnlyByCall, OwnLabels
<1>6. ASSUME NEW t \in Late,
             Get(t, <<"set", t>>) \/ Set(t, After[t]) \/ Skip(t, Before[t], After[t])
      PROVE  FullOnlyByCall'
  <2>1. /\ UNCHANGED <<last, count>> /\ pc \in {<<"get", t>>, <<"set", t>>}
        /\ pc' \in {<<"set", t>>, After[t]} /\ Shown("full")' = Shown("full")
    <3>1. CASE Skip(t, Before[t], After[t])
      BY <3>1 DEF Skip, Shown
    <3>2. CASE Get(t, <<"set", t>>) \/ Set(t, After[t])
      BY <1>a, <3>2, StoreShown DEF Get, Set
    <3>3. QED
      BY <1>6, <3>1, <3>2
  <2>2. Stored("full")
    BY <1>a, <2>1, StoredTable DEF Stored, Late
  <2>3. Stored("full")'
    <3>1. After["diff"] = <<"get", "incr">> /\ After["incr"] = Returned
      BY DEF After, Types
    <3>2. QED
      BY <1>a, <2>1, <3>1, StoredTable DEF Stored, Late
  <2>4. pc' # <<"set", "full">>
    BY <1>a, <2>3, StoredTable DEF Stored
  <2>5. QED
    BY <2>1, <2>2, <2>3, <2>4 DEF FullOnlyByCall, OwnLabels
<1>7. ASSUME NEW t \in Late, SpawnUnlessSame(t, Before[t], pc'),
             pc' = IF t = "diff" THEN <<"spawn", "incr">> ELSE <<"fetch", "full">>
      PROVE  FullOnlyByCall'
  <2>1. UNCHANGED <<series, last>> /\ pc = <<"spawn", t>>
    BY <1>7, SpawnFacts
  <2>2. /\ ~Stored("full") /\ pc # <<"set", "full">> /\ pc # <<"reset", "">>
        /\ ~Stored("full")' /\ pc' # <<"set", "full">>
    BY <1>a, <1>7, <2>1, EarlyPhases DEF Stored, Late
  <2>3. pc' # <<"get", "full">>
    BY <1>7
  <2>4. QED
    BY <2>1, <2>2, <2>3 DEF FullOnlyByCall, Shown
<1>8. CASE NextCycle
  <2>1. pc' = <<"reset", "">>
    BY <1>8, OtherPhases
  <2>2. ~Stored("full")' /\ pc' # <<"set", "full">> /\ pc' # <<"get", "full">>
    BY <1>a, <2>1, EarlyPhases DEF Stored
  <2>3. QED
    BY <2>1, <2>2 DEF FullOnlyByCall
<1>9. ASSUME NEW w \in Workers, Worker(w)
      PROVE  FullOnlyByCall'
  <2>1. UNCHANGED <<pc, last, count>>
    BY <1>9, WorkerFacts
  <2>2. w[2] # "full"
    BY <1>a, WorkersTyped
  <2>3. Shown("full")' = Shown("full")
    BY <1>9, <2>2, WorkerShown
  <2>4. QED
    BY <2>1, <2>3 DEF FullOnlyByCall, Stored, OwnLabels
<1>10. QED
  BY <1>1, <1>2, <1>3, <1>4, <1>5, <1>6, <1>7, <1>8, <1>9, NextCases, StoreCases
     DEF Types, Late

-----------------------------------------------------------------------------
LEMMA AloneStep ==
  ASSUME TypeOK, SlotsKept, Started, CleanMeansAlone, [Next]_vars
  PROVE  CleanMeansAlone'
<1>1. CASE ResetLast
  <2>1. clean' => \A w \in Workers : worker'[w].at \in Idle
    BY <1>1 DEF ResetLast
  <2>2. QED
    BY <2>1, WorkersTyped DEF CleanMeansAlone
<1>2. CASE FetchFull \/ SetFull \/ SetDiff \/ SetIncr \/ UNCHANGED vars
  <2>1. UNCHANGED <<clean, cycle, worker>>
    BY <1>2 DEF FetchFull, SetFull, SetDiff, SetIncr, Get, Set, Skip, vars
  <2>2. pc' # <<"reset", "">> => pc # <<"reset", "">>
    <3>1. ASSUME NEW t \in Types, pc \in {<<"get", t>>, <<"set", t>>}
          PROVE  pc # <<"reset", "">>
      <4>1. pc[1] \in {"get", "set"}
        BY <3>1
      <4>2. <<"reset", "">>[1] = "reset"
        OBVIOUS
      <4>3. QED
        BY <4>1, <4>2
    <3>2. Late \subseteq Types /\ \A t \in Late : Before[t] \in Types
      BY DEF Late, Types, Before
    <3>3. FetchFull => pc # <<"reset", "">>
      BY DEF FetchFull
    <3>4. UNCHANGED vars => pc' = pc
      BY DEF vars
    <3>5. QED
      BY <1>2, <3>1, <3>2, <3>3, <3>4, GetSetPc, StoreCases
  <2>3. QED
    BY <2>1, <2>2 DEF CleanMeansAlone
<1>3. ASSUME NEW t \in Late, SpawnUnlessSame(t, Before[t], pc')
      PROVE  CleanMeansAlone'
  <2>1. UNCHANGED <<clean, cycle>> /\ pc = <<"spawn", t>>
    BY <1>3, SpawnFacts
  <2>2. pc # <<"reset", "">>
    BY <2>1
  <2>3. \A c \in Cycle, u \in Late : c < cycle => worker'[<<c, u>>] = worker[<<c, u>>]
    <3>1. \A w \in Workers : w # <<cycle, t>> => worker'[w] = worker[w]
      BY <1>3, SpawnFacts, WorkersTyped
    <3>2. \A c \in Cycle, u \in Late : c < cycle => <<c, u>> # <<cycle, t>>
      BY WorkersTyped DEF Cycle
    <3>3. QED
      BY <3>1, <3>2, WorkersTyped
  <2>4. QED
    BY <2>1, <2>2, <2>3 DEF CleanMeansAlone
<1>4. CASE NextCycle
  BY <1>4, OtherPhases DEF CleanMeansAlone
<1>5. ASSUME NEW w \in Workers, Worker(w)
      PROVE  CleanMeansAlone'
  <2>1. UNCHANGED <<pc, clean, cycle>> /\ worker[w].at \notin Idle
    BY <1>5, WorkerFacts
  <2>2. \A v \in Workers : v # w => worker'[v] = worker[v]
    BY <1>5, WorkerFacts, WorkersTyped
  <2>3. QED
    BY <2>1, <2>2, WorkersTyped DEF CleanMeansAlone
<1>6. QED
  BY <1>1, <1>2, <1>3, <1>4, <1>5, NextCases

\* A goroutine at work in a clean cycle is one of that cycle.
LEMMA CleanWorkers ==
  ASSUME TypeOK, Started, CleanMeansAlone, clean, pc # <<"reset", "">>,
         NEW w \in Workers, worker[w].at \notin Idle
  PROVE  w = <<cycle, w[2]>> /\ w[2] \in Late /\ worker[w].blockIncr = last[w[2]].blockIncr
<1>1. PICK c \in Cycle, t \in Late : w = <<c, t>>
  BY WorkersTyped
<1>2. cycle \in Cycle
  BY WorkersTyped
<1>3. ~(c < cycle)
  BY <1>1 DEF CleanMeansAlone
<1>4. ~(c > cycle)
  BY <1>1 DEF Started, Idle
<1>5. c = cycle
  BY <1>2, <1>3, <1>4, CyclesOrdered
<1>6. QED
  BY <1>1, <1>5 DEF Started

\* A store adds series of the labels it is for.
LEMMA StoreLabels ==
  ASSUME NEW l, series' = GetMetric(l) \/ \E g, v : series' = SetChild(g, l, v)
  PROVE  \A s \in series' \ series : s.labels = l
<1>1. \A x : [labels |-> l, value |-> x].labels = l
  OBVIOUS
<1>2. CASE series' = GetMetric(l)
  BY <1>1, <1>2, GetMetricFacts
<1>3. ASSUME NEW g, NEW v, series' = SetChild(g, l, v)
      PROVE  \A s \in series' \ series : s.labels = l
  BY <1>1, <1>3, SetChildFacts
<1>4. QED
  BY <1>2, <1>3

LEMMA ShowsItsSlotsStep ==
  ASSUME TypeOK, SlotsKept, Started, CleanMeansAlone, CleanCycleShowsItsSlots, [Next]_vars
  PROVE  CleanCycleShowsItsSlots'
<1>a. \A t \in Types : OwnLabels(t) \in SlotLabels
  BY DEF OwnLabels, SlotLabels
<1>b. Late \subseteq Types
  BY DEF Late, Types
<1>1. CASE ResetLast
  BY <1>1 DEF ResetLast, CleanCycleShowsItsSlots
<1>2. CASE FetchFull \/ UNCHANGED vars
  <2>1. UNCHANGED <<clean, last, series>> /\ SlotLabels' = SlotLabels
    BY <1>2 DEF FetchFull, vars, SlotLabels
  <2>2. UNCHANGED pc \/ pc # <<"reset", "">>
    <3>1. FetchFull => pc # <<"reset", "">>
      BY DEF FetchFull
    <3>2. UNCHANGED vars => pc' = pc
      BY DEF vars
    <3>3. QED
      BY <1>2, <3>1, <3>2
  <2>3. QED
    BY <2>1, <2>2 DEF CleanCycleShowsItsSlots
<1>3. ASSUME NEW t \in Types, NEW then, Get(t, then) \/ Set(t, then)
      PROVE  CleanCycleShowsItsSlots'
  <2>1. UNCHANGED <<clean, last>> /\ SlotLabels' = SlotLabels
    BY <1>3 DEF Get, Set, SlotLabels
  <2>2. pc # <<"reset", "">>
    <3>1. pc[1] \in {"get", "set"}
      BY <1>3, GetSetPc
    <3>2. <<"reset", "">>[1] = "reset"
      OBVIOUS
    <3>3. QED
      BY <3>1, <3>2
  <2>3. series' = GetMetric(OwnLabels(t)) \/ series' = SetChild(child, OwnLabels(t), count)
    BY <1>3 DEF Get, Set, OwnLabels
  <2>4. \A s \in series' \ series : s.labels = OwnLabels(t)
    BY <2>3, StoreLabels
  <2>5. QED
    BY <1>a, <2>1, <2>2, <2>4 DEF CleanCycleShowsItsSlots
<1>4. ASSUME NEW t \in Late, Skip(t, Before[t], After[t])
      PROVE  CleanCycleShowsItsSlots'
  <2>1. UNCHANGED <<clean, last, series>> /\ SlotLabels' = SlotLabels /\ pc = <<"get", t>>
    BY <1>4 DEF Skip, SlotLabels
  <2>2. pc # <<"reset", "">>
    BY <2>1
  <2>3. QED
    BY <2>1, <2>2 DEF CleanCycleShowsItsSlots
<1>5. ASSUME NEW t \in Late, SpawnUnlessSame(t, Before[t], pc')
      PROVE  CleanCycleShowsItsSlots'
  <2>1. UNCHANGED <<clean, last, series>> /\ SlotLabels' = SlotLabels /\ pc = <<"spawn", t>>
    BY <1>5, SpawnFacts DEF SlotLabels
  <2>2. pc # <<"reset", "">>
    BY <2>1
  <2>3. QED
    BY <2>1, <2>2 DEF CleanCycleShowsItsSlots
<1>6. CASE NextCycle
  BY <1>6, OtherPhases DEF CleanCycleShowsItsSlots
<1>7. ASSUME NEW w \in Workers, Worker(w)
      PROVE  CleanCycleShowsItsSlots'
  <2>1. UNCHANGED <<pc, clean, last>> /\ SlotLabels' = SlotLabels /\ worker[w].at \notin Idle
    BY <1>7, WorkerFacts DEF SlotLabels
  <2>2. clean /\ pc # <<"reset", "">> =>
          Labels(w[2], worker[w].blockIncr) \in SlotLabels
    BY <1>a, <1>b, <2>1, CleanWorkers DEF OwnLabels
  <2>3. \/ UNCHANGED series
        \/ series' = GetMetric(Labels(w[2], worker[w].blockIncr))
        \/ series' = SetChild(worker[w].child, Labels(w[2], worker[w].blockIncr), worker[w].value)
    BY <1>7 DEF Worker, WorkerFetch, WorkerGet, WorkerSet
  <2>4. \A s \in series' \ series : s.labels = Labels(w[2], worker[w].blockIncr)
    BY <2>3, StoreLabels
  <2>5. QED
    BY <2>1, <2>2, <2>4 DEF CleanCycleShowsItsSlots
<1>8. QED
  BY <1>1, <1>2, <1>3, <1>4, <1>5, <1>6, <1>7, NextCases, StoreCases

LEMMA CountsStep ==
  ASSUME TypeOK, SlotsKept, Started, ChildrenLive, CleanMeansAlone,
         CleanCycleShowsItsSlots, CountsFetched, [Next]_vars
  PROVE  CountsFetched'
<1>a. Late \subseteq Types
  BY DEF Late, Types
<1>1. CASE ResetLast
  <2>1. /\ UNCHANGED <<cycle, worker>>
        /\ \A t \in Late : worker[<<cycle, t>>].at = "none"
    BY <1>1, CallFacts, OtherPhases DEF Started, Spawned
  <2>2. QED
    BY <2>1 DEF CountsFetched
<1>2. CASE FetchFull \/ UNCHANGED vars
  BY <1>2 DEF FetchFull, vars, CountsFetched, Shown
<1>3. ASSUME NEW t \in Types, NEW then, Get(t, then) \/ Set(t, then), t \in Late => ~Own(t)
      PROVE  CountsFetched'
  <2>1. UNCHANGED <<cycle, worker, last, clean>>
    BY <1>3 DEF Get, Set
  <2>2. t \in Late => worker[<<cycle, t>>].at = "none"
    BY <1>3 DEF Started
  <2>3. \A u \in Late : u # t => Shown(u)' = Shown(u)
    BY <1>3, StoreShown
  <2>4. QED
    BY <2>1, <2>2, <2>3 DEF CountsFetched
<1>4. ASSUME NEW t \in Late, Skip(t, Before[t], After[t])
      PROVE  CountsFetched'
  BY <1>4 DEF Skip, CountsFetched, Shown
<1>5. ASSUME NEW t \in Late, SpawnUnlessSame(t, Before[t], pc')
      PROVE  CountsFetched'
  <2>1. UNCHANGED <<cycle, last, clean, series>>
    BY <1>5, SpawnFacts
  <2>2. \A u \in Late : \/ worker'[<<cycle, u>>] = worker[<<cycle, u>>]
                        \/ worker'[<<cycle, u>>].at = "exec"
    BY <1>5, SpawnFacts, WorkersTyped
  <2>3. QED
    BY <2>1, <2>2 DEF CountsFetched, Shown
<1>6. CASE NextCycle
  <2>1. UNCHANGED worker /\ cycle' = cycle + 1 /\ cycle' \in Cycle /\ cycle \in Nat
    BY <1>6, NextCycleTyped DEF NextCycle
  <2>2. \A t \in Late : worker'[<<cycle', t>>].at = "none"
    BY <2>1 DEF Started
  <2>3. QED
    BY <2>2 DEF CountsFetched
<1>7. ASSUME NEW w \in Workers, Worker(w)
      PROVE  CountsFetched'
  <2>1. UNCHANGED <<pc, cycle, generation, last, clean>> /\ worker[w].at \notin Idle
    BY <1>7, WorkerFacts
  <2>2. \A v \in Workers : v # w => worker'[v] = worker[v]
    BY <1>7, WorkerFacts, WorkersTyped
  <2>3. \A t \in Late : t # w[2] => Shown(t)' = Shown(t)
    BY <1>7, WorkerShown
  <2>4. ASSUME NEW t \in Late, w # <<cycle, t>>, t = w[2]
        PROVE  ~(clean' /\ worker'[<<cycle, t>>].at = "exited")
    <3>1. CASE pc = <<"reset", "">>
      BY <2>1, <2>2, <2>4, <3>1, WorkersTyped DEF Started, Spawned
    <3>2. CASE pc # <<"reset", "">>
      BY <2>1, <2>4, <3>2, CleanWorkers
    <3>3. QED
      BY <3>1, <3>2
  <2>5. ASSUME NEW t \in Late, w = <<cycle, t>>
        PROVE  /\ worker'[w].at \in {"get", "set"} => worker'[w].value \in Counts(last[t].label)
               /\ clean /\ worker'[w].at = "exited" =>
                    \A s \in Shown(t)' : s.value \in Counts(last[t].label)
    <3>a. /\ worker[w].label = last[t].label /\ worker[w].blockIncr = last[t].blockIncr
          /\ w[2] = t /\ pc # <<"reset", "">>
      BY <2>1, <2>5 DEF Started, Spawned, Idle
    <3>b. worker \in [Workers -> [at: Idle \cup {"exec", "get", "set"},
                                  label: {""} \cup DOMAIN DatabaseRef,
                                  blockIncr: {"", "y", "n"}, value: Nat, child: Nat]]
      BY DEF TypeOK
    <3>1. CASE WorkerFetch(w)
      <4>1. PICK v \in Counts(worker[w].label) :
              worker' = [worker EXCEPT ![w].at = "get", ![w].value = v]
        BY <3>1 DEF WorkerFetch
      <4>2. worker'[w] = [worker[w] EXCEPT !.at = "get", !.value = v]
        BY <4>1, WorkersTyped
      <4>3. DOMAIN worker[w] = {"at", "label", "blockIncr", "value", "child"}
        BY <3>b
      <4>4. worker'[w].at = "get" /\ worker'[w].value = v
        BY <4>2, <4>3
      <4>5. QED
        BY <3>a, <4>1, <4>4
    <3>2. CASE WorkerGet(w)
      <4>1. worker' = [worker EXCEPT ![w].at = "set", ![w].child = generation]
        BY <3>2 DEF WorkerGet
      <4>2. worker'[w] = [worker[w] EXCEPT !.at = "set", !.child = generation]
        BY <4>1, WorkersTyped
      <4>3. DOMAIN worker[w] = {"at", "label", "blockIncr", "value", "child"}
        BY <3>b
      <4>4. worker'[w].at = "set" /\ worker'[w].value = worker[w].value /\ worker[w].at = "get"
        <5>1. worker[w].at = "get"
          BY <3>2 DEF WorkerGet
        <5>2. worker'[w].at = "set" /\ worker'[w].value = worker[w].value
          BY <4>2, <4>3
        <5>3. QED
          BY <5>1, <5>2
      <4>5. QED
        BY <2>5, <4>4 DEF CountsFetched
    <3>3. CASE WorkerSet(w)
      <4>1. worker[w].at = "set" /\ worker'[w].at = "exited"
        BY <3>3, <3>b DEF WorkerSet, NoWorker
      <4>2. worker[w].child = generation /\ worker[w].value \in Counts(last[t].label)
        BY <2>5, <4>1 DEF ChildrenLive, CountsFetched
      <4>3. series' = SetChild(generation, OwnLabels(t), worker[w].value)
        BY <3>3, <3>a, <4>2 DEF WorkerSet, OwnLabels
      <4>4. ASSUME clean, NEW s \in series', s.labels.type = t
            PROVE  s.labels = OwnLabels(t)
        <5>1. CleanCycleShowsItsSlots'
          BY ShowsItsSlotsStep
        <5>2. s.labels \in SlotLabels
          BY <2>1, <3>a, <4>4, <5>1 DEF CleanCycleShowsItsSlots, SlotLabels
        <5>3. PICK u \in Types : s.labels = OwnLabels(u)
          BY <5>2 DEF SlotLabels, OwnLabels
        <5>4. OwnLabels(u).type = u
          BY DEF OwnLabels, Labels
        <5>5. QED
          BY <4>4, <5>3, <5>4
      <4>5. [labels |-> OwnLabels(t), value |-> worker[w].value].value = worker[w].value
        OBVIOUS
      <4>6. ASSUME clean, NEW s \in series', s.labels.type = t
            PROVE  s.value \in Counts(last[t].label)
        <5>1. s = [labels |-> OwnLabels(t), value |-> worker[w].value]
          <6>1. \A r \in SetChild(generation, OwnLabels(t), worker[w].value) :
                  r.labels = OwnLabels(t) =>
                    r = [labels |-> OwnLabels(t), value |-> worker[w].value]
            BY DEF SetChild
          <6>2. QED
            BY <4>3, <4>4, <4>6, <6>1
        <5>2. QED
          BY <4>2, <4>5, <5>1
      <4>7. QED
        BY <4>1, <4>6 DEF Shown
    <3>4. QED
      BY <1>7, <3>1, <3>2, <3>3 DEF Worker
  <2>6. QED
    BY <2>1, <2>2, <2>3, <2>4, <2>5, WorkersTyped DEF CountsFetched
<1>8. QED
  <2>1. \A t \in Types : Set(t, After[t]) => (t \in Late => ~Own(t))
    BY DEF Set, ChildrenLive, Late
  <2>2. QED
    BY <1>1, <1>2, <1>3, <1>4, <1>5, <1>6, <1>7, <2>1, NextCases, StoreCases

-----------------------------------------------------------------------------
LEMMA Inductive == Spec => []IInv
<1>1. Init => IInv
  <2>1. SUFFICES ASSUME Init PROVE IInv
    OBVIOUS
  <2>2. /\ pc = <<"reset", "">> /\ cycle = 1 /\ generation = 0 /\ last \in LastBackups[1]
        /\ count = 0 /\ child = 0 /\ worker = [w \in Workers |-> NoWorker]
        /\ series = {} /\ clean = TRUE
    BY <2>1 DEF Init
  <2>3. 1 \in Cycle
    BY DEF Cycle
  <2>4. last \in [Types -> Slot]
    BY <2>2, <2>3, SlotsAssumption
  <2>5. worker \in [Workers -> [at: Idle \cup {"exec", "get", "set"},
                                label: {""} \cup DOMAIN DatabaseRef,
                                blockIncr: {"", "y", "n"}, value: Nat, child: Nat]]
    BY <2>2 DEF NoWorker, Idle
  <2>6. \A w \in Workers : worker[w].at = "none"
    BY <2>2 DEF NoWorker
  <2>7. \A c \in Cycle, t \in Late : <<c, t>> \in Workers
    BY DEF Workers, Late
  <2>8. TypeOK
    BY <2>2, <2>3, <2>4, <2>5 DEF TypeOK
  <2>9. SlotsKept
    BY <2>2, <2>6 DEF SlotsKept, Idle
  <2>10. \A t \in Types : ~Stored(t) /\ pc # <<"set", t>>
    BY <2>2, EarlyPhases DEF Stored
  <2>11. Started
    BY <2>2, <2>3, <2>6, <2>7 DEF Started, Spawned, Idle
  <2>12. ChildrenLive
    BY <2>2, <2>3, <2>6, <2>7, <2>10 DEF ChildrenLive, Late, Types
  <2>13. FullOnlyByCall
    BY <2>2, <2>10 DEF FullOnlyByCall, Types
  <2>14. CleanMeansAlone /\ CleanCycleShowsItsSlots
    BY <2>2 DEF CleanMeansAlone, CleanCycleShowsItsSlots
  <2>15. CountsFetched
    BY <2>2, <2>3, <2>6, <2>7 DEF CountsFetched
  <2>16. QED
    BY <2>8, <2>9, <2>11, <2>12, <2>13, <2>14, <2>15 DEF IInv
<1>2. IInv /\ [Next]_vars => IInv'
  BY TypeStep, SlotsStep, StartedStep, ChildrenStep, FullStep, AloneStep,
     ShowsItsSlotsStep, CountsStep DEF IInv
<1>3. QED
  BY <1>1, <1>2, PTL DEF Spec

\* The types of the call's and the goroutines' variables, for any number of cycles:
\* a goroutine works on a label pgBackRest has listed, or on none.
THEOREM TypeCorrect == Spec => []TypeOK
<1>1. IInv => TypeOK
  BY DEF IInv
<1>2. QED
  BY <1>1, Inductive, PTL

\* getBackupLastDBCountMetrics returns with exactly one series of the full backup,
\* its own, whatever goroutines of earlier cycles are still alive.
THEOREM FullShown == Spec => []FullShownOnReturn
<1>1. IInv => FullShownOnReturn
  BY StoredTable DEF IInv, FullOnlyByCall, FullShownOnReturn, Stored, OwnLabels, Types
<1>2. QED
  BY <1>1, Inductive, PTL

\* One cycle never asks pgBackRest twice about the same backup.
THEOREM FetchedOnce == Spec => []NoRefetch
<1>1. IInv => NoRefetch
  <2>1. SUFFICES ASSUME IInv PROVE NoRefetch
    OBVIOUS
  <2>2. TypeOK /\ SlotsKept /\ Started
    BY <2>1 DEF IInv
  <2>3. ASSUME NEW t \in Late, worker[<<cycle, t>>].at \notin Idle
        PROVE  worker[<<cycle, t>>].label = last[t].label /\ Own(t)
    BY <2>2, <2>3 DEF Started, Idle
  <2>4. Own("diff") => last["diff"].label # last["full"].label
    BY DEF Own, Before, Late
  <2>5. Own("incr") => last["incr"].label # last["diff"].label
    BY DEF Own, Before, Late
  <2>6. last["incr"].label = last["full"].label => last["diff"].label = last["full"].label
    BY <2>2, SlotsAssumption DEF SlotsKept, TypeOK
  <2>7. QED
    BY <2>3, <2>4, <2>5, <2>6 DEF NoRefetch, Late
<1>2. QED
  BY <1>1, Inductive, PTL

\* Nothing but the cycle's own three slots is shown in a cycle whose reset met no
\* goroutine of an earlier one.
THEOREM CleanCycleShows == Spec => []CleanCycleShowsItsSlots
<1>1. IInv => CleanCycleShowsItsSlots
  BY DEF IInv
<1>2. QED
  BY <1>1, Inductive, PTL

\* ... and all three are shown when its goroutines are done, with the counts that
\* were fetched for them.
THEOREM CleanCycleEnds == Spec => []CleanCycleCompletes
<1>1. IInv => CleanCycleCompletes
  <2>1. SUFFICES ASSUME IInv, clean, pc = Returned, AllExited
                 PROVE  /\ {s.labels : s \in series} = SlotLabels
                        /\ \A t \in Late : worker[<<cycle, t>>].at = "exited" =>
                             \A s \in Shown(t) : s.value \in Counts(last[t].label)
    BY DEF CleanCycleCompletes, Late
  <2>2. pc # <<"reset", "">> /\ pc # <<"spawn", "diff">> /\ pc # <<"spawn", "incr">>
    BY <2>1 DEF Returned
  <2>3. \A t \in Types : Stored(t)
    BY <2>1, StoredTable DEF Stored
  <2>4. HasSeries("full")
    <3>1. Shown("full") = {[labels |-> OwnLabels("full"), value |-> count]}
      BY <2>1, <2>3 DEF IInv, FullOnlyByCall, Types
    <3>2. [labels |-> OwnLabels("full"), value |-> count].labels = OwnLabels("full")
      OBVIOUS
    <3>3. QED
      BY <3>1, <3>2 DEF HasSeries, Shown
  <2>5. ASSUME NEW t \in Late
        PROVE  HasSeries(t)
    <3>1. CASE ~Own(t)
      BY <2>1, <2>3, <2>5, <3>1 DEF IInv, ChildrenLive, Late, Types
    <3>2. CASE Own(t)
      <4>1. worker[<<cycle, t>>].at # "none"
        BY <2>1, <2>2, <3>2 DEF IInv, Started, Spawned
      <4>2. worker[<<cycle, t>>].at \in Idle
        BY <2>1, WorkersTyped DEF IInv, AllExited
      <4>3. QED
        BY <2>1, <4>1, <4>2 DEF IInv, ChildrenLive, Idle
    <3>3. QED
      BY <3>1, <3>2
  <2>6. SlotLabels = {OwnLabels(t) : t \in Types}
    BY DEF SlotLabels, OwnLabels
  <2>7. \A t \in Types : HasSeries(t)
    BY <2>4, <2>5 DEF Types, Late
  <2>8. \A s \in series : s.labels \in SlotLabels
    BY <2>1, <2>2 DEF IInv, CleanCycleShowsItsSlots
  <2>9. QED
    BY <2>1, <2>6, <2>7, <2>8 DEF IInv, CountsFetched, HasSeries
<1>2. QED
  BY <1>1, Inductive, PTL
=============================================================================
