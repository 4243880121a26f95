-------------------------- MODULE Publication_proofs --------------------------
(***************************************************************************)
(* What the collector publishes, for every command line that names each    *)
(* stanza once, every repository and any number of changes, failures and   *)
(* restarts: the metrics and the status between two cycles are exactly     *)
(* those of the last fetches, and at no moment do two reports of a stanza  *)
(* stand side by side.                                                     *)
(***************************************************************************)
EXTENDS Collector_proofs

\* No entry is repeated, and the empty one, which stands for all stanzas, is alone.
EachNamedOnce ==
  \A i, j \in DOMAIN cfg.include :
    i # j => cfg.include[i] # cfg.include[j] /\ cfg.include[i] # NoStanza

-----------------------------------------------------------------------------
\* Where the loops are.
ResetAlready(family) == \E k \in 1..(step - 1) : family \in ResetBy(ResetOrder[k])
SetAlready(family)   == \E k \in 1..(step - 1) : family = SetOrder[k]
Left                 == {todo[k] : k \in DOMAIN todo}
LateReset            == pc = "reset" /\ resetMetricsAfterFetch
EarlyReset           == pc = "reset" /\ ~resetMetricsAfterFetch

Places ==
  /\ pc \notin {"reset", "families"} => step = 1
  /\ EarlyReset => at = 1
  /\ pc \notin {"version reset", "version exec", "sleep"} => cfg.collector

\* Until the current entry is published all its stanzas are still to do; then a
\* stanza is to do, being published, or done.
TodoExact ==
  /\ \A j, k \in DOMAIN todo : todo[j] = todo[k] => j = k
  /\ pc \in {"get status", "set status"} \/ LateReset =>
       DOMAIN fetched[at].reports \subseteq Left
  /\ pc = "families" => current \notin Left

ExcludedNotFetched ==
  /\ pc = "info exec" => ~stanzaInExclude(cfg.include[at])
  /\ \A i \in DOMAIN cfg.include : stanzaInExclude(cfg.include[i]) =>
       fetched[i].result = "none" /\ DOMAIN fetched[i].reports = {}

ResetSoFar == pc = "reset" => \A x \in registry : ~ResetAlready(x.family)

StatusStands ==
  pc \in {"set status", "stanza", "families"} =>
    \E t \in status : t.label = StatusLabel(cfg.include[at])

SuccessSays ==
  /\ pc = "info exec" => success
  /\ pc \in {"get status", "set status"} \/ LateReset =>
       (success <=> fetched[at].result = "ok")

\* Holds for every command line.
Loop == Places /\ TodoExact /\ ExcludedNotFetched /\ SuccessSays

-----------------------------------------------------------------------------
\* A series of the report for entry i.
Fits(i, family, stanza, revision) ==
  /\ stanza \in DOMAIN fetched[i].reports /\ ~stanzaInExclude(stanza)
  /\ revision = fetched[i].reports[stanza].revision
  /\ family \in FamiliesOf(fetched[i].reports[stanza])

On(family, stanza, revision) ==
  \E x \in registry : x.family = family /\ x.stanza = stanza /\ x.revision = revision

\* The series of entry i that should be there now: all between two cycles, those
\* not yet reset, those published so far.
Due(i, family, stanza) ==
  \/ pc \in BetweenCycles
  \/ EarlyReset /\ ~ResetAlready(family)
  \/ pc \in {"include", "info exec"} /\ resetMetricsAfterFetch
  \/ pc \in InEntry \cup {"include"} /\ i < at
  \/ /\ pc \in InEntry \ {"info exec"} /\ i = at /\ stanza \notin Left
     /\ pc = "families" /\ stanza = current => SetAlready(family)

\* A late reset removes what an earlier fetch brought.
Published ==
  ~LateReset =>
    \A family \in Families, stanza \in Stanza, revision \in Revision :
      On(family, stanza, revision) <=>
        \E i \in DOMAIN cfg.include :
          Fits(i, family, stanza, revision) /\ Due(i, family, stanza)

StatusOf(i) == [label |-> StatusLabel(cfg.include[i]),
                value |-> IF fetched[i].result = "ok" THEN 1 ELSE 0]
Label == StatusLabel(cfg.include[at])
StatusBefore  == {StatusOf(i) : i \in {j \in DOMAIN cfg.include : j < at}}
StatusThrough == {StatusOf(i) : i \in {j \in DOMAIN cfg.include : j <= at}}
NotYet == status = {} /\ fetched = NoFetches

\* The status of the entries before the current one, then of this one too.
StatusSoFar ==
  /\ pc \in {"include", "info exec"} /\ resetMetricsAfterFetch =>
       status = ExpectedStatus \/ NotYet
  /\ pc \in {"include", "info exec"} /\ ~resetMetricsAfterFetch => status = StatusBefore
  /\ pc \in {"get status", "set status"} =>
       {t \in status : t.label # Label} = StatusBefore
  /\ pc \in {"stanza", "families"} => status = StatusThrough

Base == TypeOK /\ Progress /\ Replied

-----------------------------------------------------------------------------
LEMMA SameCommandLine ==
  ASSUME cfg' = cfg
  PROVE  /\ resetMetricsAfterFetch' <=> resetMetricsAfterFetch
         /\ \A s : stanzaInExclude(s)' <=> stanzaInExclude(s)
         /\ \A s : StatusLabel(s)' = StatusLabel(s)
         /\ \A r : FamiliesOf(r)' = FamiliesOf(r)
BY DEF resetMetricsAfterFetch, stanzaInExclude, StatusLabel, FamiliesOf, NonEmpty,
       excludeSpecified

LEMMA IncludeTyped ==
  ASSUME TypeOK
  PROVE  /\ DOMAIN cfg.include = 1..Len(cfg.include) /\ Len(cfg.include) \in Nat
         /\ \A i \in DOMAIN cfg.include : cfg.include[i] \in Entry
         /\ at \in 1..(Len(cfg.include) + 1) /\ at \in Nat /\ step \in 1..6
         /\ todo \in Seq(Stanza)
<1>1. cfg.include \in Seq(Entry) /\ Len(cfg.include) \in Nat
      /\ DOMAIN cfg.include = 1..Len(cfg.include)
  BY ConfigTyped
<1>2. at \in 1..(Len(cfg.include) + 1) /\ step \in 1..6 /\ todo \in Seq(Stanza)
  BY OrdersTyped DEF TypeOK
<1>3. \A i \in DOMAIN cfg.include : cfg.include[i] \in Entry
  BY <1>1
<1>4. QED
  BY <1>1, <1>2, <1>3

\* The orders in which the functions are called.
LEMMA OrderFacts ==
  /\ \A j, k \in 1..6 : SetOrder[j] = SetOrder[k] => j = k
  /\ \A family \in Families : \E k \in 1..6 : family = SetOrder[k]
  /\ \A family \in Families : \E k \in 1..5 : family \in ResetBy(ResetOrder[k])
  /\ \A k \in 1..6 : ResetOrder[k] = "status" <=> k = 6
  /\ SetOrder[1] = "stanza"
  /\ \A k \in 1..6 : SetOrder[k] \in Families
<1>1. /\ SetOrder[1] = "stanza" /\ SetOrder[2] = "repo" /\ SetOrder[3] = "wal"
      /\ SetOrder[4] = "backup" /\ SetOrder[5] = "last" /\ SetOrder[6] = "databases"
      /\ DOMAIN SetOrder = 1..6
  BY DEF SetOrder
<1>2. /\ ResetOrder[1] = "stanza" /\ ResetOrder[2] = "repo" /\ ResetOrder[3] = "backup"
      /\ ResetOrder[4] = "last" /\ ResetOrder[5] = "wal" /\ ResetOrder[6] = "status"
  BY DEF ResetOrder
<1>3. \A k \in 1..6 : k = 1 \/ k = 2 \/ k = 3 \/ k = 4 \/ k = 5 \/ k = 6
  OBVIOUS
<1>4. Families = {"stanza", "repo", "wal", "backup", "last", "databases"}
  BY <1>1, <1>3 DEF Families
<1>5. /\ ResetBy("stanza") = {"stanza"} /\ ResetBy("repo") = {"repo"}
      /\ ResetBy("backup") = {"backup", "databases"}
      /\ ResetBy("last") = {"last"} /\ ResetBy("wal") = {"wal"}
  BY DEF ResetBy
<1>6. \A family \in Families : \E k \in 1..5 : family \in ResetBy(ResetOrder[k])
  <2>1. 1 \in 1..5 /\ 2 \in 1..5 /\ 3 \in 1..5 /\ 4 \in 1..5 /\ 5 \in 1..5
    OBVIOUS
  <2>2. QED
    BY <1>2, <1>4, <1>5, <2>1
<1>7. \A j, k \in 1..6 : SetOrder[j] = SetOrder[k] => j = k
  BY <1>1, <1>3
<1>8. \A family \in Families : \E k \in 1..6 : family = SetOrder[k]
  BY <1>1 DEF Families
<1>9. \A k \in 1..6 : ResetOrder[k] = "status" <=> k = 6
  BY <1>2, <1>3
<1>10. QED
  BY <1>1, <1>6, <1>7, <1>8, <1>9 DEF Families

LEMMA FamiliesOfTyped ==
  ASSUME NEW report
  PROVE  FamiliesOf(report) \subseteq Families
<1>1. /\ SetOrder[1] = "stanza" /\ SetOrder[2] = "repo" /\ SetOrder[3] = "wal"
      /\ SetOrder[4] = "backup" /\ SetOrder[5] = "last" /\ SetOrder[6] = "databases"
  BY DEF SetOrder
<1>2. {"stanza", "repo", "wal", "backup", "last", "databases"} \subseteq Families
  BY <1>1, OrderFacts
<1>3. QED
  BY <1>2 DEF FamiliesOf

\* An order that reaches every stanza of a reply reaches it once.
LEMMA OrderOnce ==
  ASSUME NEW S, IsFiniteSet(S), NEW order \in [1..Cardinality(S) -> S],
         {order[i] : i \in DOMAIN order} = S
  PROVE  \A j, k \in 1..Cardinality(S) : order[j] = order[k] => j = k
<1>1. Cardinality(S) \in Nat
  BY FS_CardinalityType
<1>2. IsFiniteSet(1..Cardinality(S)) /\ Cardinality(1..Cardinality(S)) = Cardinality(S)
  <2>1. 1 \in Int /\ Cardinality(S) \in Int
    BY <1>1
  <2>2. QED
    BY <1>1, <2>1, FS_Interval
<1>3. order \in Surjection(1..Cardinality(S), S)
  BY DEF Surjection
<1>4. order \in Injection(1..Cardinality(S), S)
  BY <1>2, <1>3, FS_SurjSameCardinalityImpliesInj
<1>5. QED
  BY <1>4 DEF Injection, IsInjective

\* What a call of pgbackrest info changes.
LEMMA InfoFacts ==
  ASSUME Base, Info
  PROVE  /\ at \in DOMAIN cfg.include /\ pc = "info exec"
         /\ pc' = IF resetMetricsAfterFetch THEN "reset" ELSE "get status"
         /\ UNCHANGED <<cfg, at, step, current, registry, status>>
         /\ \A i \in DOMAIN cfg.include : i # at => fetched'[i] = fetched[i]
         /\ success' = (success /\ fetched'[at].result = "ok")
         /\ \A j, k \in DOMAIN todo' : todo'[j] = todo'[k] => j = k
         /\ {todo'[k] : k \in DOMAIN todo'} = DOMAIN fetched'[at].reports
<1> DEFINE reports == Reports(cfg.include[at])
           Gets(result, stanzas) ==
             /\ fetched' = [fetched EXCEPT ![at] =
                  [result |-> result, reports |-> [s \in stanzas |-> reports[s]]]]
             /\ success' = (success /\ result = "ok")
             /\ \E order \in [1..Cardinality(stanzas) -> stanzas] :
                  /\ {order[i] : i \in DOMAIN order} = stanzas
                  /\ todo' = order
<1>1. \/ Gets("ok", DOMAIN reports)
      \/ Gets("failed", {})
      \/ Gets("mistyped", DOMAIN reports)
  BY DEF Info
<1>2. at \in DOMAIN cfg.include /\ pc = "info exec"
  BY DEF Info, Base, Progress, InEntry
<1>3. DOMAIN reports \subseteq Stanza /\ IsFiniteSet(Stanza)
  <2>1. TypeOK
    BY DEF Base
  <2>2. cfg.include[at] \in Entry
    BY <1>2, <2>1, IncludeTyped
  <2>3. QED
    BY <2>1, <2>2, ReportsTyped, StanzaAssumption
<1>4. ASSUME NEW result, NEW stanzas \in SUBSET DOMAIN reports, Gets(result, stanzas)
      PROVE  /\ \A i \in DOMAIN cfg.include : i # at => fetched'[i] = fetched[i]
             /\ success' = (success /\ fetched'[at].result = "ok")
             /\ \A j, k \in DOMAIN todo' : todo'[j] = todo'[k] => j = k
             /\ {todo'[k] : k \in DOMAIN todo'} = DOMAIN fetched'[at].reports
  <2>1. IsFiniteSet(stanzas)
    BY <1>3, FS_Subset
  <2>2. PICK order \in [1..Cardinality(stanzas) -> stanzas] :
          {order[i] : i \in DOMAIN order} = stanzas /\ todo' = order
    BY <1>4
  <2>3. \A j, k \in DOMAIN todo' : todo'[j] = todo'[k] => j = k
    <3>1. \A j, k \in 1..Cardinality(stanzas) : order[j] = order[k] => j = k
      BY <2>1, <2>2, OrderOnce
    <3>2. QED
      BY <2>2, <3>1
  <2>4. DOMAIN fetched = DOMAIN cfg.include
    BY DEF Base, Replied
  <2>5. fetched'[at] = [result |-> result, reports |-> [s \in stanzas |-> reports[s]]]
    BY <1>2, <1>4, <2>4
  <2>6. \A i \in DOMAIN cfg.include : i # at => fetched'[i] = fetched[i]
    BY <1>4, <2>4
  <2>7. DOMAIN fetched'[at].reports = stanzas /\ fetched'[at].result = result
    BY <2>5
  <2>8. success' = (success /\ fetched'[at].result = "ok")
    BY <1>4, <2>7
  <2>9. {todo'[k] : k \in DOMAIN todo'} = DOMAIN fetched'[at].reports
    BY <2>2, <2>7
  <2>10. QED
    BY <2>3, <2>6, <2>8, <2>9
<1>5. /\ pc' = IF resetMetricsAfterFetch THEN "reset" ELSE "get status"
      /\ UNCHANGED <<cfg, at, step, current, registry, status>>
  BY DEF Info
<1>6. /\ \A i \in DOMAIN cfg.include : i # at => fetched'[i] = fetched[i]
      /\ success' = (success /\ fetched'[at].result = "ok")
      /\ \A j, k \in DOMAIN todo' : todo'[j] = todo'[k] => j = k
      /\ {todo'[k] : k \in DOMAIN todo'} = DOMAIN fetched'[at].reports
  BY <1>1, <1>4
<1>7. QED
  BY <1>2, <1>5, <1>6

\* After a restart no fetch has brought anything.
LEMMA RestartFacts ==
  ASSUME Restart
  PROVE  /\ pc' = "version reset" /\ at' = 1 /\ step' = 1 /\ todo' = << >>
         /\ current' = NoStanza /\ registry' = {} /\ status' = {} /\ cfg' = cfg
         /\ \A i \in DOMAIN cfg.include :
              fetched'[i].result = "none" /\ DOMAIN fetched'[i].reports = {}
         /\ fetched' = NoFetches'
<1>1. fetched' = NoFetches /\ cfg' = cfg
  BY DEF Restart
<1>2. \A i \in DOMAIN cfg.include : fetched'[i] = [result |-> "none", reports |-> << >>]
  BY <1>1 DEF NoFetches
<1>3. DOMAIN << >> = {}
  OBVIOUS
<1>4. NoFetches' = NoFetches
  BY <1>1 DEF NoFetches
<1>5. \A i \in DOMAIN cfg.include :
        fetched'[i].result = "none" /\ DOMAIN fetched'[i].reports = {}
  BY <1>2, <1>3
<1>6. /\ pc' = "version reset" /\ at' = 1 /\ step' = 1 /\ todo' = << >>
      /\ current' = NoStanza /\ registry' = {} /\ status' = {}
  BY DEF Restart
<1>7. QED
  BY <1>1, <1>4, <1>5, <1>6

\* The head of the loop over the list puts nothing on the list of stanzas.
LEMMA NextEntryFacts ==
  ASSUME Base, NextEntry
  PROVE  /\ pc = "include" /\ todo = << >>
         /\ UNCHANGED <<cfg, at, step, todo, current, registry, status, fetched>>
         /\ \/ ~(at \in DOMAIN cfg.include) /\ at > Len(cfg.include) /\ pc' = "sleep"
            \/ /\ at \in DOMAIN cfg.include /\ stanzaInExclude(cfg.include[at])
               /\ pc' = "get status" /\ success' = FALSE
            \/ /\ at \in DOMAIN cfg.include /\ ~stanzaInExclude(cfg.include[at])
               /\ pc' = "info exec" /\ success' = TRUE
<1>1. /\ at \in 1..(Len(cfg.include) + 1) /\ Len(cfg.include) \in Nat
      /\ DOMAIN cfg.include = 1..Len(cfg.include)
  BY IncludeTyped DEF Base
<1>2. at > Len(cfg.include) <=> ~(at \in DOMAIN cfg.include)
  BY <1>1
<1>3. todo = << >>
  BY DEF Base, NextEntry, Progress, InEntry
<1>4. QED
  BY <1>2, <1>3 DEF NextEntry

-----------------------------------------------------------------------------
LEMMA PlacesStep ==
  ASSUME Base, Places, [Next]_vars
  PROVE  Places'
<1>1. cfg' = cfg /\ (resetMetricsAfterFetch' <=> resetMetricsAfterFetch)
  BY CommandLineStep, SameCommandLine
<1>2. CASE ResetVersion \/ GetVersion \/ Wake
  BY <1>1, <1>2 DEF ResetVersion, GetVersion, Wake, Places, EarlyReset
<1>3. CASE StartCycle
  BY <1>1, <1>3 DEF StartCycle, Places, EarlyReset
<1>4. CASE Reset
  BY <1>1, <1>4 DEF Reset, Places, EarlyReset
<1>5. CASE NextEntry
  BY <1>1, <1>5 DEF NextEntry, Places, EarlyReset
<1>6. CASE Info
  BY <1>1, <1>6 DEF Info, Places, EarlyReset
<1>7. CASE GetStatus \/ SetStatus
  BY <1>1, <1>7 DEF GetStatus, SetStatus, Places, EarlyReset
<1>8. CASE NextStanza
  BY <1>1, <1>8 DEF NextStanza, Places, EarlyReset
<1>9. CASE SetFamilies
  BY <1>1, <1>9 DEF SetFamilies, Places, EarlyReset
<1>10. CASE Restart
  BY <1>10, RestartFacts DEF Places, EarlyReset
<1>11. CASE (\E s \in Stanza : Change(s)) \/ UNCHANGED vars
  <2>1. UNCHANGED <<pc, step, at>>
    BY <1>11 DEF Change, vars
  <2>2. QED
    BY <1>1, <2>1 DEF Places, EarlyReset
<1>12. QED
  BY <1>2, <1>3, <1>4, <1>5, <1>6, <1>7, <1>8, <1>9, <1>10, <1>11 DEF Next, Collect

LEMMA TodoStep ==
  ASSUME Base, TodoExact, ExcludedNotFetched, [Next]_vars
  PROVE  TodoExact'
<1>1. cfg' = cfg /\ (resetMetricsAfterFetch' <=> resetMetricsAfterFetch)
  BY CommandLineStep, SameCommandLine
<1> DEFINE Once(list) == \A j, k \in DOMAIN list : list[j] = list[k] => j = k
<1>2. ASSUME UNCHANGED todo,
             pc' \notin {"get status", "set status", "reset", "families"}
      PROVE  TodoExact'
  BY <1>2 DEF TodoExact, LateReset
<1>3. CASE ResetVersion \/ GetVersion \/ Wake
  BY <1>2, <1>3 DEF ResetVersion, GetVersion, Wake
<1>4. CASE StartCycle
  <2>1. UNCHANGED todo /\ ~LateReset'
        /\ pc' \notin {"get status", "set status", "families"}
    BY <1>1, <1>4 DEF StartCycle, LateReset
  <2>2. QED
    BY <2>1 DEF TodoExact
<1>5. CASE Reset
  <2>1. /\ UNCHANGED <<at, todo, fetched>>
        /\ pc' \in {"get status", "set status"} \/ LateReset' => LateReset
        /\ pc' # "families"
    BY <1>1, <1>5 DEF Reset, LateReset
  <2>2. QED
    BY <2>1 DEF TodoExact, Left
<1>6. CASE NextEntry
  <2>1. UNCHANGED <<at, todo, fetched>> /\ ~LateReset' /\ pc' \notin {"set status", "families"}
    BY <1>6, NextEntryFacts DEF LateReset
  <2>2. pc' = "get status" => DOMAIN fetched[at].reports = {}
    BY <1>6, NextEntryFacts DEF ExcludedNotFetched
  <2>3. QED
    BY <2>1, <2>2 DEF TodoExact
<1>7. CASE Info
  <2>1. /\ pc' \in {"reset", "get status"} /\ at' = at /\ Once(todo')
        /\ Left' = DOMAIN fetched'[at].reports
    BY <1>7, InfoFacts DEF Left
  <2>2. QED
    BY <2>1 DEF TodoExact
<1>8. CASE GetStatus
  <2>1. UNCHANGED <<at, todo, fetched>> /\ pc = "get status" /\ pc' = "set status"
    BY <1>8 DEF GetStatus
  <2>2. QED
    BY <2>1 DEF TodoExact, Left
<1>9. CASE SetStatus
  BY <1>2, <1>9 DEF SetStatus
<1>10. CASE NextStanza
  <2>1. CASE todo = << >>
    BY <1>2, <1>10, <2>1 DEF NextStanza
  <2>2. CASE todo # << >>
    <3>1. /\ todo' = Tail(todo) /\ pc' \in {"stanza", "families"}
          /\ pc' = "families" => current' = Head(todo)
      BY <1>10, <2>2 DEF NextStanza
    <3>2. todo \in Seq(Stanza) /\ Once(todo)
      BY IncludeTyped DEF Base, TodoExact
    <3>3. /\ 1 \in DOMAIN todo /\ Head(todo) = todo[1]
          /\ \A k \in DOMAIN Tail(todo) :
               k + 1 \in DOMAIN todo /\ k + 1 # 1 /\ Tail(todo)[k] = todo[k + 1] /\ k \in Nat
      BY <2>2, <3>2
    <3>4. \A j, k \in DOMAIN Tail(todo) : Tail(todo)[j] = Tail(todo)[k] => j = k
      <4>1. \A j, k \in DOMAIN Tail(todo) : Tail(todo)[j] = Tail(todo)[k] => j + 1 = k + 1
        BY <3>2, <3>3
      <4>2. QED
        BY <3>3, <4>1
    <3>5. \A k \in DOMAIN Tail(todo) : Tail(todo)[k] # Head(todo)
      BY <3>2, <3>3
    <3>6. pc' = "families" => current' \notin Left'
      BY <3>1, <3>5 DEF Left
    <3>7. pc' \notin {"get status", "set status"} /\ ~LateReset'
      BY <3>1 DEF LateReset
    <3>8. QED
      BY <3>1, <3>4, <3>6, <3>7 DEF TodoExact
  <2>3. QED
    BY <2>1, <2>2
<1>11. CASE SetFamilies
  <2>1. /\ UNCHANGED todo /\ pc = "families"
        /\ \/ pc' = "stanza"
           \/ pc' = "families" /\ UNCHANGED current
    BY <1>11 DEF SetFamilies
  <2>2. Left' = Left
    BY <2>1 DEF Left
  <2>3. pc' \notin {"get status", "set status"} /\ ~LateReset'
    BY <2>1 DEF LateReset
  <2>4. QED
    BY <2>1, <2>2, <2>3 DEF TodoExact
<1>12. CASE Restart
  <2>1. todo' = << >> /\ pc' = "version reset"
    BY <1>12, RestartFacts
  <2>2. DOMAIN << >> = {}
    OBVIOUS
  <2>3. QED
    BY <2>1, <2>2 DEF TodoExact, LateReset
<1>13. CASE (\E s \in Stanza : Change(s)) \/ UNCHANGED vars
  <2>1. UNCHANGED <<pc, at, todo, current, fetched>>
    BY <1>13 DEF Change, vars
  <2>2. QED
    BY <1>1, <2>1 DEF TodoExact, Left, LateReset
<1>14. QED
  BY <1>3, <1>4, <1>5, <1>6, <1>7, <1>8, <1>9, <1>10, <1>11, <1>12, <1>13 DEF Next, Collect

LEMMA ExcludedStep ==
  ASSUME Base, ExcludedNotFetched, [Next]_vars
  PROVE  ExcludedNotFetched'
<1>1. cfg' = cfg /\ \A s : stanzaInExclude(s)' <=> stanzaInExclude(s)
  BY CommandLineStep, SameCommandLine
<1>2. pc' = "info exec" => ~stanzaInExclude(cfg.include[at'])
  <2>1. pc' = "info exec" => NextEntry \/ UNCHANGED <<pc, at>>
    BY DEF Next, Collect, vars, ResetVersion, GetVersion, StartCycle, Reset, Info,
           GetStatus, SetStatus, NextStanza, SetFamilies, Wake, Change, Restart
  <2>2. CASE NextEntry
    BY <2>2, NextEntryFacts
  <2>3. CASE UNCHANGED <<pc, at>>
    BY <2>3 DEF ExcludedNotFetched
  <2>4. QED
    BY <2>1, <2>2, <2>3
<1>3. \A i \in DOMAIN cfg.include : stanzaInExclude(cfg.include[i]) =>
        fetched'[i].result = "none" /\ DOMAIN fetched'[i].reports = {}
  <2>1. CASE UNCHANGED fetched
    BY <2>1 DEF ExcludedNotFetched
  <2>2. CASE Restart
    BY <2>2, RestartFacts
  <2>3. CASE Info
    <3>1. pc = "info exec" /\ \A i \in DOMAIN cfg.include : i # at => fetched'[i] = fetched[i]
      BY <2>3, InfoFacts
    <3>2. QED
      BY <3>1 DEF ExcludedNotFetched
  <2>4. QED
    BY <2>1, <2>2, <2>3, RepliesStep
<1>4. QED
  BY <1>1, <1>2, <1>3 DEF ExcludedNotFetched

LEMMA SuccessStep ==
  ASSUME Base, ExcludedNotFetched, SuccessSays, [Next]_vars
  PROVE  SuccessSays'
<1>1. cfg' = cfg /\ (resetMetricsAfterFetch' <=> resetMetricsAfterFetch)
  BY CommandLineStep, SameCommandLine
<1>2. ASSUME pc' \notin {"info exec", "get status", "set status", "reset"}
      PROVE  SuccessSays'
  BY <1>2 DEF SuccessSays, LateReset
<1>3. ASSUME pc' # "info exec", UNCHANGED <<at, success, fetched>>,
             pc' \in {"get status", "set status"} \/ LateReset' =>
               pc \in {"get status", "set status"} \/ LateReset
      PROVE  SuccessSays'
  BY <1>3 DEF SuccessSays
<1>4. CASE ResetVersion \/ GetVersion \/ SetStatus \/ SetFamilies \/ Wake \/ Restart
  BY <1>2, <1>4 DEF ResetVersion, GetVersion, SetStatus, SetFamilies, Wake, Restart
<1>5. CASE StartCycle
  <2>1. pc' \notin {"info exec", "get status", "set status"} /\ ~LateReset'
    BY <1>1, <1>5 DEF StartCycle, LateReset
  <2>2. QED
    BY <2>1 DEF SuccessSays
<1>6. CASE Reset
  BY <1>1, <1>3, <1>6 DEF Reset, LateReset
<1>7. CASE NextEntry
  <2>1. /\ pc' \notin {"set status", "reset"} /\ UNCHANGED <<at, fetched>>
        /\ pc' = "info exec" => success' = TRUE
        /\ pc' = "get status" => success' = FALSE /\ fetched[at].result = "none"
    BY <1>7, NextEntryFacts DEF ExcludedNotFetched
  <2>2. QED
    BY <2>1 DEF SuccessSays, LateReset
<1>8. CASE Info
  <2>1. /\ pc = "info exec" /\ pc' \in {"reset", "get status"} /\ at' = at
        /\ success' = (success /\ fetched'[at].result = "ok")
    BY <1>8, InfoFacts
  <2>2. success
    BY <2>1 DEF SuccessSays
  <2>3. success' <=> fetched'[at'].result = "ok"
    BY <2>1, <2>2
  <2>4. QED
    BY <2>1, <2>3 DEF SuccessSays
<1>9. CASE GetStatus
  BY <1>3, <1>9 DEF GetStatus
<1>10. CASE NextStanza
  BY <1>2, <1>10 DEF NextStanza
<1>11. CASE (\E s \in Stanza : Change(s)) \/ UNCHANGED vars
  <2>1. UNCHANGED <<pc, at, success, fetched>>
    BY <1>11 DEF Change, vars
  <2>2. QED
    BY <1>1, <2>1 DEF SuccessSays, LateReset
<1>12. QED
  BY <1>4, <1>5, <1>6, <1>7, <1>8, <1>9, <1>10, <1>11 DEF Next, Collect

-----------------------------------------------------------------------------
LEMMA ResetSoFarStep ==
  ASSUME Base, Places, ResetSoFar, [Next]_vars
  PROVE  ResetSoFar'
<1>1. CASE Reset
  <2>1. CASE pc' = "reset"
    <3>1. /\ pc = "reset" /\ step \in 1..6 /\ step' = step + 1
          /\ registry' = {x \in registry : x.family \notin ResetBy(ResetOrder[step])}
      BY <1>1, <2>1, IncludeTyped DEF Reset, Base
    <3>2. ASSUME NEW x \in registry', NEW k \in 1..(step' - 1)
          PROVE  x.family \notin ResetBy(ResetOrder[k])
      <4>1. k \in 1..(step - 1) \/ k = step
        BY <3>1
      <4>2. QED
        BY <3>1, <4>1 DEF ResetSoFar, ResetAlready
    <3>3. QED
      BY <3>2 DEF ResetSoFar, ResetAlready
  <2>2. QED
    BY <2>1 DEF ResetSoFar
<1>2. ASSUME step' = 1
      PROVE  ResetSoFar'
  <2>1. 1..(step' - 1) = {}
    BY <1>2
  <2>2. QED
    BY <2>1 DEF ResetSoFar, ResetAlready
<1>3. CASE StartCycle \/ Restart
  BY <1>2, <1>3 DEF StartCycle, Restart
<1>4. CASE Info
  <2>1. pc = "info exec" /\ step' = step
    BY <1>4, InfoFacts
  <2>2. QED
    BY <1>2, <2>1 DEF Places
<1>5. CASE ResetVersion \/ GetVersion \/ NextEntry \/ GetStatus \/ SetStatus
           \/ NextStanza \/ SetFamilies \/ Wake
  <2>1. pc' # "reset"
    BY <1>5 DEF ResetVersion, GetVersion, NextEntry, GetStatus, SetStatus, NextStanza,
                SetFamilies, Wake
  <2>2. QED
    BY <2>1 DEF ResetSoFar
<1>6. CASE (\E s \in Stanza : Change(s)) \/ UNCHANGED vars
  <2>1. UNCHANGED <<pc, step, registry>>
    BY <1>6 DEF Change, vars
  <2>2. QED
    BY <2>1 DEF ResetSoFar, ResetAlready
<1>7. QED
  BY <1>1, <1>3, <1>4, <1>5, <1>6 DEF Next, Collect

\* Once the six functions have run there is nothing left.
LEMMA AllReset ==
  ASSUME Base, ResetSoFar, Reset, pc' # "reset"
  PROVE  /\ registry' = {} /\ status' = {} /\ step' = 1
         /\ pc' = IF resetMetricsAfterFetch THEN "get status" ELSE "include"
<1>1. /\ step \in 1..6 /\ ~(step < 6) /\ pc = "reset" /\ step' = 1
      /\ pc' = IF resetMetricsAfterFetch THEN "get status" ELSE "include"
  BY OrdersTyped, IncludeTyped DEF Reset, Base
<1>2. step = 6 /\ ResetOrder[step] = "status"
  <2>1. step \in 1..6 /\ ~(step < 6)
    BY <1>1
  <2>2. step = 6
    BY <2>1
  <2>3. QED
    BY <2>2 DEF ResetOrder
<1>3. status' = {} /\ registry' \subseteq registry
  BY <1>2 DEF Reset
<1>4. registry = {}
  <2>1. SUFFICES ASSUME NEW x \in registry PROVE FALSE
    OBVIOUS
  <2>2. x.family \in Families
    BY DEF Base, TypeOK, Series
  <2>3. PICK k \in 1..5 : x.family \in ResetBy(ResetOrder[k])
    BY <2>2, OrderFacts
  <2>4. k \in 1..(step - 1)
    BY <1>2
  <2>5. QED
    BY <1>1, <2>3, <2>4 DEF ResetSoFar, ResetAlready
<1>5. QED
  BY <1>1, <1>3, <1>4

-----------------------------------------------------------------------------
LEMMA VectorFacts ==
  ASSUME NEW vec, NEW label, NEW value
  PROVE  /\ \E t \in GetMetric(vec, label) : t.label = label
         /\ vec \subseteq GetMetric(vec, label)
         /\ \A t \in GetMetric(vec, label) : t \in vec \/ t.label = label
         /\ \E t \in SetMetric(vec, label, value) : t.label = label
         /\ \A t \in vec : t.label # label => t \in SetMetric(vec, label, value)
<1>1. [label |-> label, value |-> value].label = label
      /\ [label |-> label, value |-> 0].label = label
  OBVIOUS
<1>2. CASE \E t \in vec : t.label = label
  BY <1>1, <1>2 DEF GetMetric, SetMetric
<1>3. CASE ~\E t \in vec : t.label = label
  BY <1>1, <1>3 DEF GetMetric, SetMetric
<1>4. QED
  BY <1>2, <1>3

LEMMA StatusStandsStep ==
  ASSUME Base, StatusStands, [Next]_vars
  PROVE  StatusStands'
<1>1. cfg' = cfg /\ \A s : StatusLabel(s)' = StatusLabel(s)
  BY CommandLineStep, SameCommandLine
<1>2. ASSUME at' = at, \E t \in status' : t.label = StatusLabel(cfg.include[at])
      PROVE  StatusStands'
  <2>1. StatusLabel(cfg.include[at])' = StatusLabel(cfg.include[at])
    BY <1>1, <1>2 DEF StatusLabel, excludeSpecified, NonEmpty
  <2>2. QED
    BY <1>2, <2>1 DEF StatusStands
<1>3. CASE GetStatus
  BY <1>2, <1>3, VectorFacts DEF GetStatus
<1>4. CASE SetStatus
  <2>1. PICK v : status' = SetMetric(status, StatusLabel(cfg.include[at]), v)
    BY <1>4 DEF SetStatus
  <2>2. at' = at
    BY <1>4 DEF SetStatus
  <2>3. QED
    BY <1>2, <2>1, <2>2, VectorFacts
<1>5. CASE NextStanza \/ SetFamilies
  <2>1. /\ pc \in {"stanza", "families"} /\ UNCHANGED status
        /\ pc' = "include" \/ UNCHANGED at
    BY <1>5 DEF NextStanza, SetFamilies
  <2>2. QED
    BY <1>2, <2>1 DEF StatusStands
<1>6. CASE ResetVersion \/ GetVersion \/ StartCycle \/ Reset \/ NextEntry \/ Info \/ Wake
           \/ Restart
  <2>1. pc' \notin {"set status", "stanza", "families"}
    BY <1>6 DEF ResetVersion, GetVersion, StartCycle, Reset, NextEntry, Info, Wake, Restart
  <2>2. QED
    BY <2>1 DEF StatusStands
<1>7. CASE (\E s \in Stanza : Change(s)) \/ UNCHANGED vars
  <2>1. UNCHANGED <<pc, at, status>>
    BY <1>7 DEF Change, vars
  <2>2. QED
    BY <1>2, <2>1 DEF StatusStands
<1>8. QED
  BY <1>3, <1>4, <1>5, <1>6, <1>7 DEF Next, Collect

LEMMA DataHasStatusStep ==
  ASSUME Base, ResetSoFar, StatusStands, DataHasStatus, [Next]_vars
  PROVE  DataHasStatus'
<1>1. cfg' = cfg /\ StatusLabel(NoStanza)' = StatusLabel(NoStanza)
  BY CommandLineStep, SameCommandLine
<1>2. ASSUME registry' \subseteq registry,
             \A t \in status : \E u \in status' : u.label = t.label
      PROVE  DataHasStatus'
  BY <1>1, <1>2 DEF DataHasStatus
<1>3. CASE UNCHANGED <<registry, status>>
  BY <1>2, <1>3
<1>4. CASE Reset
  <2>1. CASE pc' = "reset"
    <3>1. /\ step \in 1..6 /\ step < 6
          /\ registry' \subseteq registry
      BY <1>4, <2>1, OrdersTyped, IncludeTyped DEF Reset, Base
    <3>2. ResetOrder[step] # "status"
      <4>1. step # 6
        BY <3>1
      <4>2. QED
        BY <3>1, <4>1, OrderFacts
    <3>3. status' = status
      BY <1>4, <3>2 DEF Reset
    <3>4. QED
      BY <1>2, <3>1, <3>3
  <2>2. CASE pc' # "reset"
    BY <1>4, <2>2, AllReset DEF DataHasStatus
  <2>3. QED
    BY <2>1, <2>2
<1>5. CASE GetStatus
  BY <1>2, <1>5, VectorFacts DEF GetStatus
<1>6. CASE SetStatus
  <2>1. PICK v : status' = SetMetric(status, StatusLabel(cfg.include[at]), v)
    BY <1>6 DEF SetStatus
  <2>2. \A t \in status : \E u \in status' : u.label = t.label
    BY <2>1, VectorFacts
  <2>3. registry' = registry
    BY <1>6 DEF SetStatus
  <2>4. QED
    BY <1>2, <2>2, <2>3
<1>7. CASE SetFamilies
  <2>1. pc = "families" /\ UNCHANGED status
    BY <1>7 DEF SetFamilies
  <2>2. /\ at \in DOMAIN cfg.include /\ current \in DOMAIN fetched[at].reports
        /\ cfg.include[at] \in {NoStanza, current}
    BY <2>1 DEF Base, Progress, Replied, InEntry
  <2>3. PICK t \in status : t.label = StatusLabel(cfg.include[at])
    BY <2>1 DEF StatusStands
  <2>4. t.label \in {current, StatusLabel(NoStanza)}
    BY <2>2, <2>3 DEF StatusLabel
  <2>5. \A x \in registry' \ registry : x.stanza = current
    BY <1>7, SetFamiliesTyped DEF Base
  <2>6. QED
    BY <1>1, <2>1, <2>4, <2>5 DEF DataHasStatus
<1>8. CASE Restart
  BY <1>8, RestartFacts DEF DataHasStatus
<1>9. QED
  <2>1. \/ UNCHANGED <<registry, status>>
        \/ Reset \/ GetStatus \/ SetStatus \/ SetFamilies \/ Restart
    BY DEF Next, Collect, vars, ResetVersion, GetVersion, StartCycle, NextEntry, Info,
           NextStanza, Wake, Change
  <2>2. QED
    BY <1>3, <1>4, <1>5, <1>6, <1>7, <1>8, <2>1

-----------------------------------------------------------------------------
\* Without a named stanza the list has one entry at most.
LEMMA SoleEntry ==
  ASSUME TypeOK, EachNamedOnce, resetMetricsAfterFetch, NEW i \in DOMAIN cfg.include
  PROVE  i = 1
<1>1. 1 \in DOMAIN cfg.include
  BY IncludeTyped
<1>2. cfg.include[i] = NoStanza
  BY DEF resetMetricsAfterFetch, NonEmpty
<1>3. QED
  BY <1>1, <1>2 DEF EachNamedOnce

\* A stanza is in the reply for one entry only.
LEMMA OwnEntry ==
  ASSUME Replied, EachNamedOnce, NEW i \in DOMAIN cfg.include, NEW j \in DOMAIN cfg.include,
         NEW s, s \in DOMAIN fetched[i].reports, s \in DOMAIN fetched[j].reports
  PROVE  i = j
<1>1. cfg.include[i] \in {NoStanza, s} /\ cfg.include[j] \in {NoStanza, s}
  BY DEF Replied
<1>2. QED
  BY <1>1 DEF EachNamedOnce

LEMMA FitsTyped ==
  ASSUME Base, NEW i \in DOMAIN cfg.include, NEW f, NEW s, NEW r, Fits(i, f, s, r)
  PROVE  f \in Families /\ s \in Stanza /\ r \in Revision
<1>1. s \in Stanza
  BY DEF Base, TypeOK, Fits
<1>2. fetched[i].reports[s] \in Report
  BY DEF Base, Replied, Fits
<1>3. f \in Families
  BY FamiliesOfTyped DEF Fits
<1>4. QED
  BY <1>1, <1>2, <1>3 DEF Fits, Report

LEMMA NothingPastStart ==
  ASSUME step = 1
  PROVE  \A f : ~ResetAlready(f) /\ ~SetAlready(f)
<1>1. 1..(step - 1) = {}
  OBVIOUS
<1>2. QED
  BY <1>1 DEF ResetAlready, SetAlready

\* A step that touches neither series nor replies keeps Published if it moves no
\* series of a reply into or out of what is due.
LEMMA KeepPublished ==
  ASSUME Published, ~LateReset, cfg' = cfg, UNCHANGED <<registry, fetched>>,
         \A i \in DOMAIN cfg.include, f \in Families, s \in Stanza, r \in Revision :
           Fits(i, f, s, r) => (Due(i, f, s)' <=> Due(i, f, s))
  PROVE  Published'
<1>1. \A i, f, s, r : Fits(i, f, s, r)' <=> Fits(i, f, s, r)
  BY SameCommandLine DEF Fits
<1>2. \A f, s, r : On(f, s, r)' <=> On(f, s, r)
  BY DEF On
<1>3. QED
  BY <1>1, <1>2 DEF Published

\* ... and so does one after which no series is left and none is due.
LEMMA EmptyPublished ==
  ASSUME registry' = {}, cfg' = cfg,
         \A i \in DOMAIN cfg.include, f \in Families, s \in Stanza, r \in Revision :
           ~(Fits(i, f, s, r)' /\ Due(i, f, s)')
  PROVE  Published'
<1>1. \A f, s, r : ~On(f, s, r)'
  BY DEF On
<1>2. QED
  BY <1>1 DEF Published

\* After the last reset nothing is due until it is published anew.
LEMMA NothingDueAfterReset ==
  ASSUME Base, Loop, ResetSoFar, EachNamedOnce, Reset, pc' # "reset",
         NEW i \in DOMAIN cfg.include, NEW f, NEW s, s \in DOMAIN fetched[i].reports
  PROVE  ~Due(i, f, s)'
<1>1. /\ cfg' = cfg /\ (resetMetricsAfterFetch' <=> resetMetricsAfterFetch)
      /\ UNCHANGED <<at, todo, current, fetched>> /\ pc = "reset"
  <2>1. /\ cfg' = cfg /\ UNCHANGED <<at, todo, current, fetched>> /\ pc = "reset"
    BY DEF Reset
  <2>2. QED
    BY <2>1, SameCommandLine
<1>2. CASE resetMetricsAfterFetch
  <2>1. pc' = "get status"
    BY <1>2, AllReset DEF Loop
  <2>2. at \in DOMAIN cfg.include
    BY <1>1, <1>2 DEF Base, Progress
  <2>3. i = at
    BY <1>2, <2>2, SoleEntry DEF Base
  <2>4. ~(i < at)
    BY <2>2, <2>3, IncludeTyped DEF Base
  <2>5. DOMAIN fetched[at].reports \subseteq Left'
    BY <1>1, <1>2 DEF Loop, TodoExact, LateReset, Left
  <2>6. s \in Left'
    BY <2>3, <2>5
  <2>7. QED
    BY <1>1, <2>1, <2>4, <2>6 DEF Due, EarlyReset, BetweenCycles
<1>3. CASE ~resetMetricsAfterFetch
  <2>1. pc' = "include" /\ at = 1
    BY <1>1, <1>3, AllReset DEF Loop, Places, EarlyReset
  <2>2. ~(i < at')
    BY <1>1, <2>1, IncludeTyped DEF Base
  <2>3. QED
    BY <1>1, <1>3, <2>1, <2>2 DEF Due, EarlyReset, BetweenCycles, InEntry
<1>4. QED
  BY <1>2, <1>3

LEMMA PublishedInReset ==
  ASSUME Base, Loop, ResetSoFar, EachNamedOnce, Published, Reset
  PROVE  Published'
<1>1. /\ cfg' = cfg /\ (resetMetricsAfterFetch' <=> resetMetricsAfterFetch)
      /\ UNCHANGED <<at, todo, current, fetched>> /\ pc = "reset"
      /\ \A i, f, s, r : Fits(i, f, s, r)' <=> Fits(i, f, s, r)
  <2>1. /\ cfg' = cfg /\ UNCHANGED <<at, todo, current, fetched>> /\ pc = "reset"
    BY DEF Reset
  <2>2. QED
    BY <2>1, SameCommandLine DEF Fits
<1>2. CASE pc' # "reset"
  <2>1. registry' = {}
    BY <1>2, AllReset DEF Loop
  <2>2. ASSUME NEW i \in DOMAIN cfg.include, NEW f, NEW s, NEW r, Fits(i, f, s, r)
        PROVE  ~Due(i, f, s)'
    BY <1>2, <2>2, NothingDueAfterReset DEF Fits
  <2>3. QED
    BY <1>1, <2>1, <2>2, EmptyPublished
<1>4. CASE pc' = "reset" /\ resetMetricsAfterFetch
  BY <1>1, <1>4 DEF Published, LateReset
<1>5. CASE pc' = "reset" /\ ~resetMetricsAfterFetch
  <2>1. /\ step \in 1..6 /\ step' = step + 1
        /\ registry' = {x \in registry : x.family \notin ResetBy(ResetOrder[step])}
    BY <1>5, IncludeTyped DEF Base, Reset
  <2>2. \A f : ResetAlready(f)' <=> ResetAlready(f) \/ f \in ResetBy(ResetOrder[step])
    <3>1. 1..(step' - 1) = 1..(step - 1) \cup {step}
      BY <2>1
    <3>2. QED
      BY <3>1 DEF ResetAlready
  <2>3. \A f, s, r : On(f, s, r)' <=> On(f, s, r) /\ f \notin ResetBy(ResetOrder[step])
    BY <2>1 DEF On
  <2>4. \A i, f, s : Due(i, f, s)' <=> Due(i, f, s) /\ f \notin ResetBy(ResetOrder[step])
    <3>1. \A i, f, s : Due(i, f, s) <=> ~ResetAlready(f)
      BY <1>1, <1>5 DEF Due, EarlyReset, BetweenCycles, InEntry
    <3>2. \A i, f, s : Due(i, f, s)' <=> ~ResetAlready(f)'
      BY <1>1, <1>5 DEF Due, EarlyReset, BetweenCycles, InEntry
    <3>3. QED
      BY <2>2, <3>1, <3>2
  <2>5. ~LateReset
    BY <1>5 DEF LateReset
  <2>6. QED
    BY <1>1, <2>3, <2>4, <2>5 DEF Published
<1>6. QED
  BY <1>2, <1>4, <1>5

\* The head of the loop over the list neither publishes nor withdraws a report.
LEMMA DueInNextEntry ==
  ASSUME Base, Loop, EachNamedOnce, NextEntry,
         NEW i \in DOMAIN cfg.include, NEW f, NEW s, s \in DOMAIN fetched[i].reports
  PROVE  Due(i, f, s)' <=> Due(i, f, s)
<1>1. /\ cfg' = cfg /\ (resetMetricsAfterFetch' <=> resetMetricsAfterFetch)
      /\ UNCHANGED <<at, todo, current, registry, fetched>> /\ pc = "include"
  BY NextEntryFacts, SameCommandLine
<1>2. /\ at \in 1..(Len(cfg.include) + 1) /\ Len(cfg.include) \in Nat
      /\ DOMAIN cfg.include = 1..Len(cfg.include)
  BY IncludeTyped DEF Base
<1>3. Due(i, f, s) <=> resetMetricsAfterFetch \/ i < at
  BY <1>1 DEF Due, EarlyReset, BetweenCycles, InEntry
<1>4. CASE pc' = "sleep"
  <2>1. i < at
    BY <1>1, <1>2, <1>4, NextEntryFacts
  <2>2. QED
    BY <1>3, <1>4, <2>1 DEF Due, BetweenCycles
<1>5. CASE pc' = "info exec"
  BY <1>1, <1>3, <1>5 DEF Due, EarlyReset, BetweenCycles, InEntry
<1>6. CASE pc' = "get status"
  <2>1. at \in DOMAIN cfg.include /\ DOMAIN fetched[at].reports = {}
    BY <1>6, NextEntryFacts DEF Loop, ExcludedNotFetched
  <2>2. i # at
    BY <2>1
  <2>3. ~resetMetricsAfterFetch
    BY <2>1, <2>2, SoleEntry DEF Base
  <2>4. QED
    BY <1>1, <1>3, <1>6, <2>2, <2>3 DEF Due, EarlyReset, BetweenCycles, InEntry
<1>7. QED
  BY <1>4, <1>5, <1>6, NextEntryFacts

\* A fetch with stanzas named replaces a reply of which nothing is due.
LEMMA DueInInfo ==
  ASSUME Base, Info, ~resetMetricsAfterFetch,
         NEW i \in DOMAIN cfg.include, NEW f, NEW s
  PROVE  /\ Due(i, f, s) <=> i < at
         /\ s \in DOMAIN fetched'[i].reports => (Due(i, f, s)' <=> i < at)
         /\ i < at => fetched'[i] = fetched[i]
<1>1. /\ cfg' = cfg /\ (resetMetricsAfterFetch' <=> resetMetricsAfterFetch)
      /\ UNCHANGED <<at, registry>> /\ pc = "info exec" /\ at \in DOMAIN cfg.include
      /\ pc' = IF resetMetricsAfterFetch THEN "reset" ELSE "get status"
  BY InfoFacts, SameCommandLine
<1>2. /\ i # at => fetched'[i] = fetched[i]
      /\ Left' = DOMAIN fetched'[at].reports
  BY InfoFacts DEF Left
<1>3. Due(i, f, s) <=> i < at
  BY <1>1 DEF Due, EarlyReset, BetweenCycles, InEntry
<1>4. Due(i, f, s)' <=> i < at \/ (i = at /\ s \notin Left')
  BY <1>1 DEF Due, EarlyReset, BetweenCycles, InEntry
<1>5. i < at => i # at
  <2>1. at \in Nat
    BY IncludeTyped DEF Base
  <2>2. QED
    BY <2>1
<1>6. s \in DOMAIN fetched'[i].reports => (Due(i, f, s)' <=> i < at)
  BY <1>2, <1>4
<1>7. QED
  BY <1>2, <1>3, <1>5, <1>6

LEMMA PublishedInInfo ==
  ASSUME Base, Loop, EachNamedOnce, Published, Info
  PROVE  Published'
<1>1. /\ cfg' = cfg /\ (resetMetricsAfterFetch' <=> resetMetricsAfterFetch)
      /\ UNCHANGED <<at, registry>> /\ pc = "info exec"
      /\ pc' = IF resetMetricsAfterFetch THEN "reset" ELSE "get status"
  BY InfoFacts, SameCommandLine
<1>2. CASE resetMetricsAfterFetch
  BY <1>1, <1>2 DEF Published, LateReset
<1>3. CASE ~resetMetricsAfterFetch
  <2>1. ASSUME NEW i \in DOMAIN cfg.include, NEW f, NEW s, NEW r
        PROVE  Fits(i, f, s, r)' /\ Due(i, f, s)' <=> Fits(i, f, s, r) /\ Due(i, f, s)
    <3>1. CASE i < at
      <4>1. Fits(i, f, s, r)' <=> Fits(i, f, s, r)
        <5>1. fetched'[i] = fetched[i]
          BY <1>3, <3>1, DueInInfo
        <5>2. QED
          BY <1>1, <5>1, SameCommandLine DEF Fits
      <4>2. Fits(i, f, s, r)' => s \in DOMAIN fetched'[i].reports
        BY DEF Fits
      <4>3. QED
        BY <1>3, <3>1, <4>1, <4>2, DueInInfo
    <3>2. CASE ~(i < at)
      <4>1. Fits(i, f, s, r)' => s \in DOMAIN fetched'[i].reports
        BY DEF Fits
      <4>2. QED
        BY <1>3, <3>2, <4>1, DueInInfo
    <3>3. QED
      BY <3>1, <3>2
  <2>2. \A f, s, r : On(f, s, r)' <=> On(f, s, r)
    BY <1>1 DEF On
  <2>3. ~LateReset
    BY <1>3 DEF LateReset
  <2>4. QED
    BY <1>1, <2>1, <2>2, <2>3 DEF Published
<1>4. QED
  BY <1>2, <1>3

\* Nor does that of the loop over the parsed stanzas.
LEMMA DueInNextStanza ==
  ASSUME Base, Loop, EachNamedOnce, NextStanza,
         NEW i \in DOMAIN cfg.include, NEW f, NEW s, ~stanzaInExclude(s)
  PROVE  Due(i, f, s)' <=> Due(i, f, s)
<1>1. /\ cfg' = cfg /\ (resetMetricsAfterFetch' <=> resetMetricsAfterFetch)
      /\ UNCHANGED <<step, registry, fetched>> /\ pc = "stanza"
  <2>1. cfg' = cfg /\ UNCHANGED <<step, registry, fetched>> /\ pc = "stanza"
    BY DEF NextStanza
  <2>2. QED
    BY <2>1, SameCommandLine
<1>2. at \in DOMAIN cfg.include /\ at \in Nat /\ i \in Nat
  <2>1. at \in DOMAIN cfg.include
    BY <1>1 DEF Base, Progress, InEntry
  <2>2. QED
    BY <2>1, IncludeTyped DEF Base
<1>3. Due(i, f, s) <=> i < at \/ (i = at /\ s \notin Left)
  BY <1>1 DEF Due, EarlyReset, BetweenCycles, InEntry
<1>4. CASE todo = << >>
  <2>1. pc' = "include" /\ at' = at + 1
    BY <1>4 DEF NextStanza
  <2>2. Left = {}
    BY <1>4 DEF Left
  <2>3. Due(i, f, s)' <=> resetMetricsAfterFetch \/ i < at'
    BY <1>1, <2>1 DEF Due, EarlyReset, BetweenCycles, InEntry
  <2>4. resetMetricsAfterFetch => i = 1 /\ at = 1
    BY <1>2, SoleEntry DEF Base
  <2>5. i < at' <=> i < at \/ i = at
    BY <1>2, <2>1
  <2>6. QED
    BY <1>3, <2>2, <2>3, <2>4, <2>5
<1>5. CASE todo # << >>
  <2>1. /\ todo' = Tail(todo) /\ UNCHANGED at
        /\ \/ stanzaInExclude(Head(todo)) /\ pc' = "stanza"
           \/ pc' = "families" /\ current' = Head(todo)
    BY <1>1, <1>5 DEF NextStanza
  <2>2. Left = {Head(todo)} \cup Left'
    <3>1. todo \in Seq(Stanza)
      BY IncludeTyped DEF Base
    <3>2. /\ Head(todo) = todo[1] /\ DOMAIN todo = 1..Len(todo) /\ Len(todo) \in Nat
          /\ Len(todo) # 0 /\ DOMAIN Tail(todo) = 1..(Len(todo) - 1)
          /\ \A k \in DOMAIN Tail(todo) : Tail(todo)[k] = todo[k + 1]
      BY <1>5, <3>1
    <3>3. \A k \in DOMAIN todo : k = 1 \/ (k - 1 \in DOMAIN Tail(todo) /\ k = (k - 1) + 1)
      BY <3>2
    <3>4. \A k \in DOMAIN Tail(todo) : k + 1 \in DOMAIN todo
      BY <3>2
    <3>5. 1 \in DOMAIN todo
      BY <3>2
    <3>6. Left \subseteq {Head(todo)} \cup Left'
      BY <2>1, <3>2, <3>3 DEF Left
    <3>7. {Head(todo)} \cup Left' \subseteq Left
      BY <2>1, <3>2, <3>4, <3>5 DEF Left
    <3>8. QED
      BY <3>6, <3>7
  <2>3. CASE stanzaInExclude(Head(todo)) /\ pc' = "stanza"
    <3>1. s # Head(todo)
      BY <2>3
    <3>2. s \in Left <=> s \in Left'
      BY <2>2, <3>1
    <3>3. Due(i, f, s)' <=> i < at \/ (i = at /\ s \notin Left')
      BY <1>1, <2>1, <2>3 DEF Due, EarlyReset, BetweenCycles, InEntry
    <3>4. QED
      BY <1>3, <3>2, <3>3
  <2>4. CASE pc' = "families" /\ current' = Head(todo)
    <3>1. \A g : ~SetAlready(g)'
      <4>1. step = 1
        BY <1>1 DEF Loop, Places
      <4>2. \A g : SetAlready(g)' <=> SetAlready(g)
        BY <1>1 DEF SetAlready
      <4>3. QED
        BY <4>1, <4>2, NothingPastStart
    <3>2. Due(i, f, s)' <=> i < at \/ (i = at /\ s \notin Left' /\ s # Head(todo))
      BY <1>1, <2>1, <2>4, <3>1 DEF Due, EarlyReset, BetweenCycles, InEntry
    <3>3. QED
      BY <1>3, <2>2, <3>2
  <2>5. QED
    BY <2>1, <2>3, <2>4
<1>6. QED
  BY <1>4, <1>5

\* What only these actions may change: the resets, a fetch, the setters, a restart.
LEMMA DueKept ==
  ASSUME Base, Loop, EachNamedOnce, [Next]_vars,
         ~Reset, ~Info, ~SetFamilies, ~Restart,
         NEW i \in DOMAIN cfg.include, NEW f, NEW s,
         s \in DOMAIN fetched[i].reports, ~stanzaInExclude(s)
  PROVE  Due(i, f, s)' <=> Due(i, f, s)
<1>1. cfg' = cfg /\ (resetMetricsAfterFetch' <=> resetMetricsAfterFetch)
  BY CommandLineStep, SameCommandLine
<1>2. CASE ResetVersion \/ GetVersion \/ Wake
  <2>1. pc \in BetweenCycles /\ pc' \in BetweenCycles
    BY <1>2 DEF ResetVersion, GetVersion, Wake, BetweenCycles
  <2>2. QED
    BY <2>1 DEF Due
<1>3. CASE StartCycle
  <2>1. /\ pc = "start" /\ step' = 1
        /\ pc' = IF resetMetricsAfterFetch THEN "include" ELSE "reset"
    BY <1>3 DEF StartCycle
  <2>2. ~ResetAlready(f)'
    <3>1. 1..(step' - 1) = {}
      BY <2>1
    <3>2. QED
      BY <3>1 DEF ResetAlready
  <2>3. QED
    BY <1>1, <2>1, <2>2 DEF Due, BetweenCycles, EarlyReset
<1>4. CASE NextEntry
  BY <1>4, DueInNextEntry
<1>5. CASE GetStatus \/ SetStatus
  <2>1. /\ UNCHANGED <<at, todo>>
        /\ pc \in {"get status", "set status"} /\ pc' \in {"set status", "stanza"}
    BY <1>5 DEF GetStatus, SetStatus
  <2>2. Left' = Left
    BY <2>1 DEF Left
  <2>3. QED
    BY <2>1, <2>2 DEF Due, EarlyReset, BetweenCycles, InEntry
<1>6. CASE NextStanza
  BY <1>6, DueInNextStanza
<1>7. CASE (\E t \in Stanza : Change(t)) \/ UNCHANGED vars
  <2>1. UNCHANGED <<pc, at, step, todo, current>>
    BY <1>7 DEF Change, vars
  <2>2. /\ SetAlready(f)' <=> SetAlready(f)
        /\ ResetAlready(f)' <=> ResetAlready(f)
    BY <2>1 DEF SetAlready, ResetAlready
  <2>3. Left' = Left /\ (EarlyReset' <=> EarlyReset)
    BY <1>1, <2>1 DEF Left, EarlyReset
  <2>4. QED
    BY <1>1, <2>1, <2>2, <2>3 DEF Due
<1>8. QED
  BY <1>2, <1>3, <1>4, <1>5, <1>6, <1>7 DEF Next, Collect

\* Of the stanza being published the families set so far are there, all of the
\* report in hand, and no others.
LEMMA CurrentSeries ==
  ASSUME Base, Loop, EachNamedOnce, Published, pc = "families",
         NEW x \in registry, x.stanza = current
  PROVE  /\ x.revision = fetched[at].reports[current].revision
         /\ SetAlready(x.family)
<1>1. x.family \in Families /\ x.stanza \in Stanza /\ x.revision \in Revision
  BY DEF Base, TypeOK, Series
<1>2. ~LateReset /\ On(x.family, x.stanza, x.revision)
  BY DEF LateReset, On
<1>3. PICK i \in DOMAIN cfg.include :
        Fits(i, x.family, x.stanza, x.revision) /\ Due(i, x.family, x.stanza)
  BY <1>1, <1>2 DEF Published
<1>4. at \in DOMAIN cfg.include /\ current \in DOMAIN fetched[at].reports
  BY DEF Base, Progress, InEntry
<1>5. i = at
  BY <1>3, <1>4, OwnEntry DEF Base, Fits
<1>6. ~(i < at)
  <2>1. at \in Nat
    BY IncludeTyped DEF Base
  <2>2. QED
    BY <1>5, <2>1
<1>7. SetAlready(x.family)
  BY <1>3, <1>6 DEF Due, EarlyReset, BetweenCycles, InEntry
<1>8. QED
  BY <1>3, <1>5, <1>7 DEF Fits

\* So a call of one of the functions adds its series and replaces none.
LEMMA SetFamiliesAdds ==
  ASSUME Base, Loop, EachNamedOnce, Published, SetFamilies
  PROVE  LET report == fetched[at].reports[current]
             family == SetOrder[step]
         IN  \A f, s, r : On(f, s, r)' <=>
               \/ On(f, s, r)
               \/ /\ f = family /\ s = current /\ r = report.revision
                  /\ family \in FamiliesOf(report)
<1> DEFINE report == fetched[at].reports[current]
           family == SetOrder[step]
<1>1. pc = "families" /\ step \in 1..6
  BY IncludeTyped DEF SetFamilies, Base
<1>2. \A x \in registry : ~(x.family = family /\ x.stanza = current)
  <2>1. SUFFICES ASSUME NEW x \in registry, x.family = family, x.stanza = current PROVE FALSE
    OBVIOUS
  <2>2. SetAlready(family)
    BY <1>1, <2>1, CurrentSeries
  <2>3. PICK k \in 1..(step - 1) : SetOrder[step] = SetOrder[k]
    BY <2>2 DEF SetAlready
  <2>4. k \in 1..6 /\ k # step
    BY <1>1, <2>3
  <2>5. QED
    BY <1>1, <2>3, <2>4, OrderFacts
<1>3. CASE family \notin FamiliesOf(report)
  <2>1. registry' = registry
    BY <1>3 DEF SetFamilies
  <2>2. QED
    BY <1>3, <2>1 DEF On
<1>4. CASE family \in FamiliesOf(report)
  <2>1. PICK value : registry' = SetFamily(family, current, report.revision, value)
    BY <1>4 DEF SetFamilies
  <2>2. registry' = registry \cup {[family |-> family, stanza |-> current,
                                    revision |-> report.revision, value |-> value]}
    BY <1>2, <2>1 DEF SetFamily
  <2>3. [family |-> family, stanza |-> current, revision |-> report.revision,
         value |-> value].family = family
    OBVIOUS
  <2>4. [family |-> family, stanza |-> current, revision |-> report.revision,
         value |-> value].stanza = current
    OBVIOUS
  <2>5. [family |-> family, stanza |-> current, revision |-> report.revision,
         value |-> value].revision = report.revision
    OBVIOUS
  <2>6. \A f, s, r : On(f, s, r)' <=>
          On(f, s, r) \/ (f = family /\ s = current /\ r = report.revision)
    BY <2>2, <2>3, <2>4, <2>5 DEF On
  <2>7. QED
    BY <1>4, <2>6
<1>5. QED
  BY <1>3, <1>4

\* With it one more family of the current stanza is due.
LEMMA DueInSetFamilies ==
  ASSUME Base, Loop, SetFamilies,
         NEW i \in DOMAIN cfg.include, NEW f \in Families, NEW s
  PROVE  Due(i, f, s)' <=> Due(i, f, s) \/ (i = at /\ f = SetOrder[step] /\ s = current)
<1>1. /\ UNCHANGED <<at, todo>> /\ pc = "families" /\ step \in 1..6
      /\ \/ step < 6 /\ step' = step + 1 /\ pc' = "families" /\ current' = current
         \/ step = 6 /\ step' = 1 /\ pc' = "stanza"
  <2>1. /\ UNCHANGED <<at, todo>> /\ pc = "families"
        /\ \/ step < 6 /\ step' = step + 1 /\ pc' = "families" /\ current' = current
           \/ ~(step < 6) /\ step' = 1 /\ pc' = "stanza"
    BY OrdersTyped DEF SetFamilies
  <2>2. step \in 1..6
    BY IncludeTyped DEF Base
  <2>3. ~(step < 6) => step = 6
    BY <2>2
  <2>4. QED
    BY <2>1, <2>2, <2>3
<1>2. current \notin Left /\ Left' = Left
  BY <1>1 DEF Loop, TodoExact, Left
<1>3. Due(i, f, s) <=>
        i < at \/ (i = at /\ s \notin Left /\ (s = current => SetAlready(f)))
  BY <1>1 DEF Due, EarlyReset, BetweenCycles, InEntry
<1>4. CASE step < 6 /\ step' = step + 1 /\ pc' = "families" /\ current' = current
  <2>1. SetAlready(f)' <=> SetAlready(f) \/ f = SetOrder[step]
    <3>1. 1..(step' - 1) = 1..(step - 1) \cup {step}
      BY <1>1, <1>4
    <3>2. QED
      BY <3>1 DEF SetAlready
  <2>2. Due(i, f, s)' <=>
          i < at \/ (i = at /\ s \notin Left /\ (s = current => SetAlready(f)'))
    BY <1>1, <1>2, <1>4 DEF Due, EarlyReset, BetweenCycles, InEntry
  <2>3. QED
    BY <1>2, <1>3, <2>1, <2>2
<1>5. CASE step = 6 /\ step' = 1 /\ pc' = "stanza"
  <2>1. PICK k \in 1..6 : f = SetOrder[k]
    BY OrderFacts
  <2>2. k \in 1..(step - 1) \/ k = step
    BY <1>5
  <2>3. SetAlready(f) \/ f = SetOrder[step]
    BY <2>1, <2>2 DEF SetAlready
  <2>4. Due(i, f, s)' <=> i < at \/ (i = at /\ s \notin Left)
    BY <1>1, <1>2, <1>5 DEF Due, EarlyReset, BetweenCycles, InEntry
  <2>5. QED
    BY <1>2, <1>3, <2>3, <2>4
<1>6. QED
  BY <1>1, <1>4, <1>5

LEMMA PublishedInSetFamilies ==
  ASSUME Base, Loop, EachNamedOnce, Published, SetFamilies
  PROVE  Published'
<1> DEFINE report == fetched[at].reports[current]
           family == SetOrder[step]
<1>1. cfg' = cfg /\ UNCHANGED fetched /\ pc = "families"
  BY DEF SetFamilies
<1>2. /\ at \in DOMAIN cfg.include
      /\ current \in DOMAIN fetched[at].reports /\ ~stanzaInExclude(current)
  BY <1>1 DEF Base, Progress, InEntry
<1>3. \A i, f, s, r : Fits(i, f, s, r)' <=> Fits(i, f, s, r)
  BY <1>1, SameCommandLine DEF Fits
<1>4. \A f, s, r : Fits(at, f, s, r) /\ f = family /\ s = current <=>
        f = family /\ s = current /\ r = report.revision /\ family \in FamiliesOf(report)
  BY <1>2 DEF Fits
<1>5. ASSUME NEW f \in Families, NEW s \in Stanza, NEW r \in Revision
      PROVE  On(f, s, r)' <=>
               \E i \in DOMAIN cfg.include : Fits(i, f, s, r)' /\ Due(i, f, s)'
  <2>1. (\E i \in DOMAIN cfg.include : Fits(i, f, s, r)' /\ Due(i, f, s)') <=>
          \/ \E i \in DOMAIN cfg.include : Fits(i, f, s, r) /\ Due(i, f, s)
          \/ Fits(at, f, s, r) /\ f = family /\ s = current
    BY <1>2, <1>3, DueInSetFamilies
  <2>2. On(f, s, r) <=> \E i \in DOMAIN cfg.include : Fits(i, f, s, r) /\ Due(i, f, s)
    BY <1>1 DEF Published, LateReset
  <2>3. On(f, s, r)' <=>
          \/ On(f, s, r)
          \/ f = family /\ s = current /\ r = report.revision /\ family \in FamiliesOf(report)
    BY SetFamiliesAdds
  <2>4. QED
    BY <1>4, <2>1, <2>2, <2>3
<1>6. QED
  BY <1>1, <1>5 DEF Published

LEMMA PublishedStep ==
  ASSUME Base, Loop, ResetSoFar, EachNamedOnce, Published, [Next]_vars
  PROVE  Published'
<1>1. cfg' = cfg /\ (resetMetricsAfterFetch' <=> resetMetricsAfterFetch)
  BY CommandLineStep, SameCommandLine
<1>2. CASE Reset
  BY <1>2, PublishedInReset
<1>3. CASE Info
  BY <1>3, PublishedInInfo
<1>4. CASE SetFamilies
  BY <1>4, PublishedInSetFamilies
<1>5. CASE Restart
  <2>1. registry' = {} /\ \A i \in DOMAIN cfg.include : DOMAIN fetched'[i].reports = {}
    BY <1>5, RestartFacts
  <2>2. \A i \in DOMAIN cfg.include : \A f, s, r : ~Fits(i, f, s, r)'
    BY <2>1 DEF Fits
  <2>3. QED
    BY <1>1, <2>1, <2>2, EmptyPublished
<1>6. CASE ~Reset /\ ~Info /\ ~SetFamilies /\ ~Restart
  <2>1. UNCHANGED <<registry, fetched>>
    BY <1>6 DEF Next, Collect, vars, ResetVersion, GetVersion, StartCycle, NextEntry,
                GetStatus, SetStatus, NextStanza, Wake, Change
  <2>2. CASE LateReset
    <3>1. LateReset'
      <4>1. pc' = pc
        BY <1>6, <2>2 DEF LateReset, Next, Collect, vars, ResetVersion, GetVersion,
             StartCycle, NextEntry, GetStatus, SetStatus, NextStanza, Wake, Change
      <4>2. QED
        BY <1>1, <2>2, <4>1 DEF LateReset
    <3>2. QED
      BY <3>1 DEF Published
  <2>3. CASE ~LateReset
    <3>1. ASSUME NEW i \in DOMAIN cfg.include, NEW f, NEW s, NEW r, Fits(i, f, s, r)
          PROVE  Due(i, f, s)' <=> Due(i, f, s)
      BY <1>6, <3>1, DueKept DEF Fits
    <3>2. QED
      BY <1>1, <2>1, <2>3, <3>1, KeepPublished
  <2>4. QED
    BY <2>2, <2>3
<1>7. QED
  BY <1>2, <1>3, <1>4, <1>5, <1>6

LEMMA OneReportStep ==
  ASSUME Base, Loop, EachNamedOnce, Published, OneReportPerStanza, [Next]_vars
  PROVE  OneReportPerStanza'
<1>1. CASE registry' \subseteq registry
  BY <1>1 DEF OneReportPerStanza
<1>2. CASE SetFamilies
  <2>1. pc = "families"
    BY <1>2 DEF SetFamilies
  <2>2. \A x \in registry' \ registry :
          x.stanza = current /\ x.revision = fetched[at].reports[current].revision
    BY <1>2, SetFamiliesTyped DEF Base
  <2>3. \A x \in registry : x.stanza = current =>
          x.revision = fetched[at].reports[current].revision
    BY <2>1, CurrentSeries
  <2>4. QED
    BY <2>2, <2>3 DEF OneReportPerStanza
<1>3. QED
  BY <1>1, <1>2, SeriesStep

-----------------------------------------------------------------------------
LEMMA LabelsDiffer ==
  ASSUME EachNamedOnce, NEW i \in DOMAIN cfg.include, NEW j \in DOMAIN cfg.include, i # j
  PROVE  StatusLabel(cfg.include[i]) # StatusLabel(cfg.include[j])
BY DEF EachNamedOnce, StatusLabel

\* The status of the entries before the current one has none with its label.
LEMMA BeforeIsOther ==
  ASSUME TypeOK, EachNamedOnce, at \in DOMAIN cfg.include
  PROVE  \A t \in StatusBefore : t.label # Label
<1>1. SUFFICES ASSUME NEW t \in StatusBefore PROVE t.label # Label
  OBVIOUS
<1>2. PICK i \in DOMAIN cfg.include : i < at /\ t = StatusOf(i)
  BY <1>1 DEF StatusBefore
<1>3. i # at
  BY <1>2, IncludeTyped
<1>4. t.label = StatusLabel(cfg.include[i])
  BY <1>2 DEF StatusOf
<1>5. QED
  BY <1>3, <1>4, LabelsDiffer DEF Label

\* If the loop is at the first entry, nothing came before, ...
LEMMA NothingBefore ==
  ASSUME TypeOK, at = 1
  PROVE  StatusBefore = {}
<1>1. \A i \in DOMAIN cfg.include : ~(i < 1)
  BY IncludeTyped
<1>2. QED
  BY <1>1 DEF StatusBefore

\* ... and when it is past the last one, all have been done.
LEMMA AllBefore ==
  ASSUME TypeOK, at \notin DOMAIN cfg.include
  PROVE  StatusBefore = ExpectedStatus
<1>1. \A i \in DOMAIN cfg.include : i < at
  BY IncludeTyped
<1>2. QED
  BY <1>1 DEF StatusBefore, ExpectedStatus, StatusOf

LEMMA KeepStatus ==
  ASSUME UNCHANGED <<cfg, status, fetched>>
  PROVE  /\ ExpectedStatus' = ExpectedStatus
         /\ NotYet' <=> NotYet
         /\ at' = at => StatusBefore' = StatusBefore /\ StatusThrough' = StatusThrough
                        /\ Label' = Label
<1>1. NoFetches' = NoFetches
  BY DEF NoFetches
<1>2. \A s : StatusLabel(s)' = StatusLabel(s)
  BY SameCommandLine
<1>3. \A i : StatusOf(i)' = StatusOf(i)
  BY <1>2 DEF StatusOf
<1>4. ExpectedStatus' = ExpectedStatus
  BY <1>2 DEF ExpectedStatus
<1>5. ASSUME at' = at
      PROVE  StatusBefore' = StatusBefore /\ StatusThrough' = StatusThrough /\ Label' = Label
  <2>1. Label' = Label
    BY <1>5 DEF Label, StatusLabel, excludeSpecified, NonEmpty
  <2>2. QED
    BY <1>3, <1>5, <2>1 DEF StatusBefore, StatusThrough
<1>6. QED
  BY <1>1, <1>4, <1>5 DEF NotYet

LEMMA StatusInReset ==
  ASSUME Base, Loop, ResetSoFar, EachNamedOnce, Reset
  PROVE  StatusSoFar' /\ StatusExact'
<1>1. CASE pc' = "reset"
  BY <1>1 DEF StatusSoFar, StatusExact, BetweenCycles
<1>2. CASE pc' # "reset"
  <2>1. /\ cfg' = cfg /\ UNCHANGED <<at, fetched>> /\ pc = "reset"
        /\ (resetMetricsAfterFetch' <=> resetMetricsAfterFetch)
    <3>1. cfg' = cfg /\ UNCHANGED <<at, fetched>> /\ pc = "reset"
      BY DEF Reset
    <3>2. QED
      BY <3>1, SameCommandLine
  <2>2. /\ status' = {}
        /\ pc' = IF resetMetricsAfterFetch THEN "get status" ELSE "include"
    BY <1>2, AllReset
  <2>3. at = 1
    <3>1. CASE resetMetricsAfterFetch
      <4>1. at \in DOMAIN cfg.include
        BY <2>1, <3>1 DEF Base, Progress
      <4>2. QED
        BY <3>1, <4>1, SoleEntry DEF Base
    <3>2. CASE ~resetMetricsAfterFetch
      BY <2>1, <3>2 DEF Loop, Places, EarlyReset
    <3>3. QED
      BY <3>1, <3>2
  <2>4. StatusBefore' = {}
    <3>1. \A i \in DOMAIN cfg.include : ~(i < at')
      BY <2>1, <2>3, IncludeTyped DEF Base
    <3>2. QED
      BY <2>1, <3>1 DEF StatusBefore
  <2>5. {t \in status' : t.label # Label'} = {}
    BY <2>2
  <2>6. QED
    BY <2>1, <2>2, <2>4, <2>5 DEF StatusSoFar, StatusExact, BetweenCycles
<1>3. QED
  BY <1>1, <1>2

LEMMA StatusInNextEntry ==
  ASSUME Base, Loop, EachNamedOnce, StatusSoFar, NextEntry
  PROVE  StatusSoFar' /\ StatusExact'
<1>1. /\ cfg' = cfg /\ (resetMetricsAfterFetch' <=> resetMetricsAfterFetch)
      /\ UNCHANGED <<at, status, fetched>> /\ pc = "include"
  BY NextEntryFacts, SameCommandLine
<1>2. /\ ExpectedStatus' = ExpectedStatus /\ (NotYet' <=> NotYet)
      /\ StatusBefore' = StatusBefore /\ Label' = Label
  BY <1>1, KeepStatus
<1>3. IF resetMetricsAfterFetch THEN status = ExpectedStatus \/ NotYet
                                ELSE status = StatusBefore
  BY <1>1 DEF StatusSoFar
<1>4. CASE pc' = "sleep"
  <2>1. at \notin DOMAIN cfg.include
    BY <1>4, NextEntryFacts
  <2>2. status = ExpectedStatus \/ NotYet
    BY <1>3, <2>1, AllBefore DEF Base
  <2>3. cfg.collector
    BY <1>1 DEF Loop, Places
  <2>4. (status' = ExpectedStatus' /\ cfg'.collector) \/ NotYet'
    BY <1>1, <1>2, <2>2, <2>3
  <2>5. QED
    BY <1>4, <2>4 DEF StatusSoFar, StatusExact, NotYet
<1>5. CASE pc' = "info exec"
  BY <1>1, <1>2, <1>3, <1>5 DEF StatusSoFar, StatusExact, BetweenCycles
<1>6. CASE pc' = "get status"
  <2>1. at \in DOMAIN cfg.include
    BY <1>6, NextEntryFacts
  <2>2. {t \in status : t.label # Label} = StatusBefore
    <3>1. CASE ~resetMetricsAfterFetch
      BY <1>3, <2>1, <3>1, BeforeIsOther DEF Base
    <3>2. CASE resetMetricsAfterFetch
      <4>1. at = 1 /\ \A i \in DOMAIN cfg.include : i = at
        BY <2>1, <3>2, SoleEntry DEF Base
      <4>2. \A t \in ExpectedStatus : t.label = Label
        BY <4>1 DEF ExpectedStatus, Label
      <4>3. StatusBefore = {}
        BY <4>1, NothingBefore DEF Base
      <4>4. QED
        BY <1>3, <3>2, <4>2, <4>3 DEF NotYet
    <3>3. QED
      BY <3>1, <3>2
  <2>3. {t \in status' : t.label # Label'} = StatusBefore'
    BY <1>1, <1>2, <2>2
  <2>4. QED
    BY <1>6, <2>3 DEF StatusSoFar, StatusExact, BetweenCycles
<1>7. QED
  BY <1>4, <1>5, <1>6, NextEntryFacts

LEMMA StatusInInfo ==
  ASSUME Base, EachNamedOnce, StatusSoFar, Info
  PROVE  StatusSoFar' /\ StatusExact'
<1>1. /\ cfg' = cfg /\ (resetMetricsAfterFetch' <=> resetMetricsAfterFetch)
      /\ UNCHANGED <<at, status>> /\ pc = "info exec" /\ at \in DOMAIN cfg.include
      /\ pc' = IF resetMetricsAfterFetch THEN "reset" ELSE "get status"
      /\ \A i \in DOMAIN cfg.include : i # at => fetched'[i] = fetched[i]
  BY InfoFacts, SameCommandLine
<1>2. CASE resetMetricsAfterFetch
  BY <1>1, <1>2 DEF StatusSoFar, StatusExact, BetweenCycles
<1>3. CASE ~resetMetricsAfterFetch
  <2>1. status = StatusBefore
    BY <1>1, <1>3 DEF StatusSoFar
  <2>2. StatusBefore' = StatusBefore
    <3>1. ASSUME NEW i \in DOMAIN cfg.include, i < at PROVE fetched'[i] = fetched[i]
      <4>1. i # at
        BY <3>1, IncludeTyped DEF Base
      <4>2. QED
        BY <1>1, <4>1
    <3>2. \A i \in DOMAIN cfg.include : i < at => StatusOf(i)' = StatusOf(i)
      BY <1>1, <3>1, SameCommandLine DEF StatusOf
    <3>3. QED
      BY <1>1, <3>2 DEF StatusBefore
  <2>3. Label' = Label
    BY <1>1 DEF Label, StatusLabel, excludeSpecified, NonEmpty
  <2>4. \A t \in StatusBefore : t.label # Label
    BY <1>1, BeforeIsOther DEF Base
  <2>5. {t \in status' : t.label # Label'} = StatusBefore'
    BY <1>1, <2>1, <2>2, <2>3, <2>4
  <2>6. QED
    BY <1>1, <1>3, <2>5 DEF StatusSoFar, StatusExact, BetweenCycles
<1>4. QED
  BY <1>2, <1>3

LEMMA StatusInGetStatus ==
  ASSUME Base, StatusSoFar, GetStatus
  PROVE  StatusSoFar' /\ StatusExact'
<1>1. /\ UNCHANGED <<cfg, at, fetched>> /\ pc = "get status" /\ pc' = "set status"
      /\ status' = GetMetric(status, Label)
  BY DEF GetStatus, Label
<1>2. StatusBefore' = StatusBefore /\ Label' = Label
  <2>1. Label' = Label
    BY <1>1 DEF Label, StatusLabel, excludeSpecified, NonEmpty
  <2>2. \A i : StatusOf(i)' = StatusOf(i)
    BY <1>1, SameCommandLine DEF StatusOf
  <2>3. QED
    BY <1>1, <2>1, <2>2 DEF StatusBefore
<1>3. {t \in status : t.label # Label} = StatusBefore
  BY <1>1 DEF StatusSoFar
<1>4. {t \in status' : t.label # Label'} = StatusBefore'
  BY <1>1, <1>2, <1>3, VectorFacts
<1>5. QED
  BY <1>1, <1>4 DEF StatusSoFar, StatusExact, BetweenCycles

LEMMA StatusInSetStatus ==
  ASSUME Base, Loop, StatusSoFar, SetStatus
  PROVE  StatusSoFar' /\ StatusExact'
<1>1. /\ UNCHANGED <<cfg, at, fetched>> /\ pc = "set status" /\ pc' = "stanza"
      /\ status' = SetMetric(status, Label, IF success THEN 1 ELSE 0)
  BY DEF SetStatus, Label
<1>2. at \in DOMAIN cfg.include /\ at \in Nat /\ \A i \in DOMAIN cfg.include : i \in Nat
  <2>1. at \in DOMAIN cfg.include
    BY <1>1 DEF Base, Progress, InEntry
  <2>2. QED
    BY <2>1, IncludeTyped DEF Base
<1>3. success <=> fetched[at].result = "ok"
  BY <1>1 DEF Loop, SuccessSays
<1>4. StatusOf(at) = [label |-> Label, value |-> IF success THEN 1 ELSE 0]
  BY <1>3 DEF StatusOf, Label
<1>5. {t \in status : t.label # Label} = StatusBefore
  BY <1>1 DEF StatusSoFar
<1>6. status' = StatusBefore \cup {StatusOf(at)}
  BY <1>1, <1>4, <1>5 DEF SetMetric
<1>7. StatusThrough = StatusBefore \cup {StatusOf(at)}
  <2>1. \A i \in DOMAIN cfg.include : i <= at <=> i < at \/ i = at
    BY <1>2
  <2>2. QED
    BY <1>2, <2>1 DEF StatusThrough, StatusBefore
<1>8. StatusThrough' = StatusThrough
  <2>1. \A i : StatusOf(i)' = StatusOf(i)
    BY <1>1, SameCommandLine DEF StatusOf
  <2>2. QED
    BY <1>1, <2>1 DEF StatusThrough
<1>9. QED
  BY <1>1, <1>6, <1>7, <1>8 DEF StatusSoFar, StatusExact, BetweenCycles

LEMMA StatusInNextStanza ==
  ASSUME Base, EachNamedOnce, StatusSoFar, NextStanza
  PROVE  StatusSoFar' /\ StatusExact'
<1>1. /\ cfg' = cfg /\ (resetMetricsAfterFetch' <=> resetMetricsAfterFetch)
      /\ UNCHANGED <<status, fetched>> /\ pc = "stanza"
      /\ \/ pc' \in {"stanza", "families"} /\ at' = at
         \/ pc' = "include" /\ at' = at + 1
  <2>1. cfg' = cfg
    BY DEF NextStanza
  <2>2. QED
    BY <2>1, SameCommandLine DEF NextStanza
<1>2. status = StatusThrough
  BY <1>1 DEF StatusSoFar
<1>3. CASE pc' \in {"stanza", "families"} /\ at' = at
  BY <1>1, <1>2, <1>3, KeepStatus DEF StatusSoFar, StatusExact, BetweenCycles
<1>4. CASE pc' = "include" /\ at' = at + 1
  <2>1. at \in DOMAIN cfg.include /\ at \in Nat /\ \A i \in DOMAIN cfg.include : i \in Nat
    <3>1. at \in DOMAIN cfg.include
      BY <1>1 DEF Base, Progress, InEntry
    <3>2. QED
      BY <3>1, IncludeTyped DEF Base
  <2>2. StatusBefore' = StatusThrough
    <3>1. \A i \in DOMAIN cfg.include : i < at' <=> i <= at
      BY <1>4, <2>1
    <3>2. \A i : StatusOf(i)' = StatusOf(i)
      BY <1>1, SameCommandLine DEF StatusOf
    <3>3. QED
      BY <1>1, <3>1, <3>2 DEF StatusThrough, StatusBefore
  <2>3. resetMetricsAfterFetch => StatusThrough = ExpectedStatus
    <3>1. ASSUME resetMetricsAfterFetch, NEW i \in DOMAIN cfg.include PROVE i <= at
      BY <2>1, <3>1, SoleEntry DEF Base
    <3>2. QED
      BY <3>1 DEF StatusThrough, ExpectedStatus, StatusOf
  <2>4. ExpectedStatus' = ExpectedStatus
    BY <1>1, KeepStatus
  <2>5. QED
    BY <1>1, <1>2, <1>4, <2>2, <2>3, <2>4 DEF StatusSoFar, StatusExact, BetweenCycles
<1>5. QED
  BY <1>1, <1>3, <1>4

LEMMA StatusStep ==
  ASSUME Base, Loop, ResetSoFar, EachNamedOnce, StatusSoFar, StatusExact, [Next]_vars
  PROVE  StatusSoFar' /\ StatusExact'
<1>1. cfg' = cfg /\ (resetMetricsAfterFetch' <=> resetMetricsAfterFetch)
  BY CommandLineStep, SameCommandLine
<1>2. CASE ResetVersion \/ GetVersion \/ Wake
  <2>1. /\ UNCHANGED <<status, fetched>>
        /\ pc \in BetweenCycles /\ pc' \in BetweenCycles
    BY <1>2 DEF ResetVersion, GetVersion, Wake, BetweenCycles
  <2>2. ExpectedStatus' = ExpectedStatus /\ (NotYet' <=> NotYet)
    BY <1>1, <2>1, KeepStatus
  <2>3. (status = ExpectedStatus /\ cfg.collector) \/ NotYet
    BY <2>1 DEF StatusExact, NotYet
  <2>4. (status' = ExpectedStatus' /\ cfg'.collector) \/ NotYet'
    BY <1>1, <2>1, <2>2, <2>3
  <2>5. pc' \notin {"include", "info exec", "get status", "set status", "stanza", "families"}
    BY <2>1 DEF BetweenCycles
  <2>6. QED
    BY <2>4, <2>5 DEF StatusSoFar, StatusExact, NotYet
<1>3. CASE StartCycle
  <2>1. /\ UNCHANGED <<status, fetched>> /\ pc = "start"
        /\ pc' = IF resetMetricsAfterFetch THEN "include" ELSE "reset"
    BY <1>3 DEF StartCycle
  <2>2. ExpectedStatus' = ExpectedStatus /\ (NotYet' <=> NotYet)
    BY <1>1, <2>1, KeepStatus
  <2>3. status = ExpectedStatus \/ NotYet
    BY <2>1 DEF StatusExact, NotYet, BetweenCycles
  <2>4. QED
    BY <1>1, <2>1, <2>2, <2>3 DEF StatusSoFar, StatusExact, BetweenCycles
<1>4. CASE Reset
  BY <1>4, StatusInReset
<1>5. CASE NextEntry
  BY <1>5, StatusInNextEntry
<1>6. CASE Info
  BY <1>6, StatusInInfo
<1>7. CASE GetStatus
  BY <1>7, StatusInGetStatus
<1>8. CASE SetStatus
  BY <1>8, StatusInSetStatus
<1>9. CASE NextStanza
  BY <1>9, StatusInNextStanza
<1>10. CASE SetFamilies
  <2>1. /\ UNCHANGED <<at, status, fetched>> /\ pc = "families"
        /\ pc' \in {"stanza", "families"}
    BY <1>10 DEF SetFamilies
  <2>2. QED
    BY <1>1, <2>1, KeepStatus DEF StatusSoFar, StatusExact, BetweenCycles
<1>11. CASE Restart
  <2>1. pc' = "version reset" /\ NotYet'
    BY <1>11, RestartFacts DEF NotYet
  <2>2. QED
    BY <2>1 DEF StatusSoFar, StatusExact, NotYet
<1>12. CASE (\E s \in Stanza : Change(s)) \/ UNCHANGED vars
  <2>1. UNCHANGED <<pc, at, status, fetched>>
    BY <1>12 DEF Change, vars
  <2>2. /\ ExpectedStatus' = ExpectedStatus /\ (NotYet' <=> NotYet)
        /\ StatusBefore' = StatusBefore /\ StatusThrough' = StatusThrough /\ Label' = Label
    BY <1>1, <2>1, KeepStatus
  <2>3. StatusSoFar'
    BY <1>1, <2>1, <2>2 DEF StatusSoFar
  <2>4. StatusExact'
    <3>1. pc \in BetweenCycles => (status = ExpectedStatus /\ cfg.collector) \/ NotYet
      BY DEF StatusExact, NotYet
    <3>2. pc' \in BetweenCycles => (status' = ExpectedStatus' /\ cfg'.collector) \/ NotYet'
      BY <1>1, <2>1, <2>2, <3>1 DEF BetweenCycles
    <3>3. QED
      BY <3>2 DEF StatusExact, NotYet
  <2>5. QED
    BY <2>3, <2>4
<1>13. QED
  BY <1>2, <1>3, <1>4, <1>5, <1>6, <1>7, <1>8, <1>9, <1>10, <1>11, <1>12 DEF Next, Collect

-----------------------------------------------------------------------------
\* Between two cycles all is due, and with an early fetch nothing has gone yet.
LEMMA AllDue ==
  ASSUME Base, Published,
         pc \in BetweenCycles \/ (resetMetricsAfterFetch /\ pc \in {"include", "info exec"})
  PROVE  Shown = Expected
<1>1. \A i, f, s : Due(i, f, s)
  BY DEF Due
<1>2. ~LateReset
  BY DEF LateReset, BetweenCycles
<1>3. \A f \in Families, s \in Stanza, r \in Revision :
        On(f, s, r) <=> \E i \in DOMAIN cfg.include : Fits(i, f, s, r)
  BY <1>1, <1>2 DEF Published
<1>4. ASSUME NEW f, NEW s, NEW r
      PROVE  <<f, s, r>> \in Shown <=> On(f, s, r)
  BY DEF Shown, On
<1> DEFINE Selected(i) == {s \in DOMAIN fetched[i].reports : ~stanzaInExclude(s)}
           Of(i, s) == {<<f, s, fetched[i].reports[s].revision>> :
                          f \in FamiliesOf(fetched[i].reports[s])}
           OfEntry(i) == UNION {Of(i, s) : s \in Selected(i)}
<1>5. Expected = UNION {OfEntry(i) : i \in DOMAIN cfg.include}
  BY DEF Expected
<1>6. \A x : x \in Expected <=>
        \E i \in DOMAIN cfg.include : \E s \in Selected(i) : x \in Of(i, s)
  <2>1. \A i, x : x \in OfEntry(i) <=> \E s \in Selected(i) : x \in Of(i, s)
    OBVIOUS
  <2> HIDE DEF OfEntry, Selected, Of
  <2>2. \A x : x \in Expected <=> \E i \in DOMAIN cfg.include : x \in OfEntry(i)
    BY <1>5
  <2>3. QED
    BY <2>1, <2>2
<1>7. \A i, s, x : x \in Of(i, s) <=>
        \E f \in FamiliesOf(fetched[i].reports[s]) : x = <<f, s, fetched[i].reports[s].revision>>
  OBVIOUS
<1>8. ASSUME NEW f, NEW s, NEW r
      PROVE  <<f, s, r>> \in Expected <=> \E i \in DOMAIN cfg.include : Fits(i, f, s, r)
  <2>1. \A i, t : <<f, s, r>> \in Of(i, t) <=>
          /\ f \in FamiliesOf(fetched[i].reports[t]) /\ s = t
          /\ r = fetched[i].reports[t].revision
    BY <1>7
  <2>2. \A i : (\E t \in Selected(i) : <<f, s, r>> \in Of(i, t)) <=> Fits(i, f, s, r)
    BY <2>1 DEF Fits
  <2>3. QED
    BY <1>6, <2>2
<1>9. \A f, s, r : On(f, s, r) => f \in Families /\ s \in Stanza /\ r \in Revision
  BY DEF On, Base, TypeOK, Series
<1>10. \A f, s, r : (\E i \in DOMAIN cfg.include : Fits(i, f, s, r)) =>
        f \in Families /\ s \in Stanza /\ r \in Revision
  BY FitsTyped
<1>11. \A f, s, r : <<f, s, r>> \in Shown <=> <<f, s, r>> \in Expected
  BY <1>3, <1>4, <1>8, <1>9, <1>10
<1>12. \A x \in Shown : \E f, s, r : x = <<f, s, r>>
  BY DEF Shown
<1>13. ASSUME NEW x \in Expected PROVE \E f, s, r : x = <<f, s, r>>
  <2>1. PICK i \in DOMAIN cfg.include : \E s \in Selected(i) : x \in Of(i, s)
    BY <1>6
  <2>2. PICK s \in Selected(i) : x \in Of(i, s)
    BY <2>1
  <2>3. PICK f : x = <<f, s, fetched[i].reports[s].revision>>
    BY <1>7, <2>2
  <2>4. QED
    BY <2>3
<1>14. Shown \subseteq Expected
  <2>1. SUFFICES ASSUME NEW x \in Shown PROVE x \in Expected
    OBVIOUS
  <2>2. PICK f, s, r : x = <<f, s, r>>
    BY <1>12
  <2>3. QED
    BY <1>11, <2>2
<1>15. Expected \subseteq Shown
  <2>1. SUFFICES ASSUME NEW x \in Expected PROVE x \in Shown
    OBVIOUS
  <2>2. PICK f, s, r : x = <<f, s, r>>
    BY <1>13
  <2>3. QED
    BY <1>11, <2>2
<1>16. QED
  BY <1>14, <1>15

\* The invariant of every command line, ...
LInv == IInv /\ Loop /\ ResetSoFar /\ StatusStands /\ DataHasStatus

\* ... and of one that names each stanza once.
PInv == LInv /\ EachNamedOnce /\ Published /\ OneReportPerStanza /\ StatusSoFar /\ StatusExact

LEMMA LoopInitially ==
  ASSUME Init
  PROVE  LInv
<1>1. IInv
  BY InvariantInitially
<1>2. /\ pc = "version reset" /\ at = 1 /\ step = 1 /\ todo = << >> /\ registry = {}
      /\ fetched = [i \in DOMAIN cfg.include |-> [result |-> "none", reports |-> << >>]]
  BY DEF Init, NoFetches
<1>3. DOMAIN << >> = {}
  OBVIOUS
<1>4. Places /\ TodoExact /\ SuccessSays
  BY <1>2, <1>3 DEF Places, TodoExact, SuccessSays, EarlyReset, LateReset
<1>5. ExcludedNotFetched
  BY <1>2, <1>3 DEF ExcludedNotFetched
<1>6. ResetSoFar /\ StatusStands /\ DataHasStatus
  BY <1>2 DEF ResetSoFar, StatusStands, DataHasStatus
<1>7. QED
  BY <1>1, <1>4, <1>5, <1>6 DEF LInv, Loop

LEMMA LoopStep ==
  ASSUME LInv, [Next]_vars
  PROVE  LInv'
<1>1. IInv /\ Base
  BY DEF LInv, IInv, Base
<1>2. IInv'
  BY <1>1, InvariantStep
<1>3. Loop'
  BY <1>1, PlacesStep, TodoStep, ExcludedStep, SuccessStep DEF LInv, Loop
<1>4. ResetSoFar' /\ StatusStands' /\ DataHasStatus'
  BY <1>1, ResetSoFarStep, StatusStandsStep, DataHasStatusStep DEF LInv, Loop
<1>5. QED
  BY <1>2, <1>3, <1>4 DEF LInv

LEMMA PublicationInitially ==
  ASSUME Init, EachNamedOnce
  PROVE  PInv
<1>1. /\ pc = "version reset" /\ registry = {} /\ status = {} /\ fetched = NoFetches
      /\ fetched = [i \in DOMAIN cfg.include |-> [result |-> "none", reports |-> << >>]]
  BY DEF Init, NoFetches
<1>2. DOMAIN << >> = {}
  OBVIOUS
<1>3. \A i \in DOMAIN cfg.include : \A f, s, r : ~Fits(i, f, s, r)
  <2>1. \A i \in DOMAIN cfg.include : fetched[i] = [result |-> "none", reports |-> << >>]
    BY DEF Init, NoFetches
  <2>2. \A i \in DOMAIN cfg.include : DOMAIN fetched[i].reports = {}
    BY <1>2, <2>1
  <2>3. QED
    BY <2>2 DEF Fits
<1>4. \A f, s, r : ~On(f, s, r)
  BY <1>1 DEF On
<1>5. Published /\ OneReportPerStanza
  BY <1>1, <1>3, <1>4 DEF Published, OneReportPerStanza
<1>6. StatusSoFar /\ StatusExact
  BY <1>1 DEF StatusSoFar, StatusExact
<1>7. QED
  BY <1>5, <1>6, LoopInitially DEF PInv

LEMMA PublicationStep ==
  ASSUME PInv, [Next]_vars
  PROVE  PInv'
<1>1. LInv /\ Base /\ Loop /\ ResetSoFar
  BY DEF PInv, LInv, IInv, Base
<1>2. LInv'
  BY <1>1, LoopStep
<1>3. EachNamedOnce'
  BY CommandLineStep DEF PInv, EachNamedOnce
<1>4. Published' /\ OneReportPerStanza'
  BY <1>1, PublishedStep, OneReportStep DEF PInv
<1>5. StatusSoFar' /\ StatusExact'
  BY <1>1, StatusStep DEF PInv
<1>6. QED
  BY <1>2, <1>3, <1>4, <1>5 DEF PInv

LEMMA LoopHolds == Spec => []LInv
BY LoopInitially, LoopStep, PTL DEF Spec

LEMMA PublicationHolds == Spec /\ EachNamedOnce => []PInv
<1>1. Init /\ EachNamedOnce => PInv
  BY PublicationInitially
<1>2. PInv /\ [Next]_vars => PInv'
  BY PublicationStep
<1>3. QED
  BY <1>1, <1>2, PTL DEF Spec

-----------------------------------------------------------------------------
\* resetMetrics empties the exporter status last and GetPgBackRestInfo sets it
\* first: for every command line, no state has a series of a stanza in one of the
\* families of the registry without a status of its entry.  It says nothing of the
\* last databases, which goroutines set (module Exporter).
THEOREM DataHaveStatus == Spec => []DataHasStatus
<1>1. LInv => DataHasStatus
  BY DEF LInv
<1>2. QED
  BY <1>1, LoopHolds, PTL

\* Resets and setters interleave with everything else, but a stanza's series are
\* at no moment of two reports.
THEOREM OneReport == Spec /\ EachNamedOnce => []OneReportPerStanza
<1>1. PInv => OneReportPerStanza
  BY DEF PInv
<1>2. QED
  BY <1>1, PublicationHolds, PTL

\* What GetPgBackRestInfo leaves when it returns is its fetches' reports, all of
\* them and nothing else.
THEOREM Publication == Spec /\ EachNamedOnce => []PublicationExact
<1>1. PInv => PublicationExact
  BY AllDue DEF PInv, LInv, IInv, Base, PublicationExact
<1>2. QED
  BY <1>1, PublicationHolds, PTL

\* The late reset of GetPgBackRestInfo: the last publication is served in full
\* while pgbackrest info runs for all stanzas.
THEOREM Served == Spec /\ EachNamedOnce => []ServedWhileFetching
<1>1. PInv => ServedWhileFetching
  BY AllDue DEF PInv, LInv, IInv, Base, ServedWhileFetching, resetMetricsAfterFetch
<1>2. QED
  BY <1>1, PublicationHolds, PTL

\* getExporterStatusMetrics: between two cycles each entry's status is the result
\* of its own call, and of no other entry's.
THEOREM Status == Spec /\ EachNamedOnce => []StatusExact
<1>1. PInv => StatusExact
  BY DEF PInv
<1>2. QED
  BY <1>1, PublicationHolds, PTL
=============================================================================
