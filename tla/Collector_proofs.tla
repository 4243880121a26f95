--------------------------- MODULE Collector_proofs ---------------------------
(***************************************************************************)
(* For every command line, repository and number of changes, failures and  *)
(* restarts: the types are kept, and no scrape ever sees a stanza that the *)
(* command line does not select.                                           *)
(***************************************************************************)
EXTENDS Collector, FiniteSetTheorems, TLAPS

USE ConfigsAssumption, StanzaAssumption, BoundsAssumption

\* Where an entry of the include list is being worked on.
InEntry == {"info exec", "get status", "set status", "stanza", "families"}

\* The loop's indices and lists belong together: what is still to do, and the
\* stanza being published, are of the reply for the entry `at'.
Progress ==
  /\ pc \in InEntry \/ (pc = "reset" /\ resetMetricsAfterFetch) =>
       at \in DOMAIN cfg.include
  /\ pc \notin InEntry /\ ~(pc = "reset" /\ resetMetricsAfterFetch) => todo = << >>
  /\ pc = "info exec" => todo = << >>
  /\ \A k \in DOMAIN todo : todo[k] \in DOMAIN fetched[at].reports
  /\ pc = "families" =>
       current \in DOMAIN fetched[at].reports /\ ~stanzaInExclude(current)

\* A reply for a named stanza is of no other stanza.
Replied ==
  /\ DOMAIN fetched = DOMAIN cfg.include
  /\ \A i \in DOMAIN cfg.include :
       /\ \A s \in DOMAIN fetched[i].reports : fetched[i].reports[s] \in Report
       /\ cfg.include[i] = NoStanza \/ DOMAIN fetched[i].reports \subseteq {cfg.include[i]}

\* Changes, failures and restarts left.
Budget == [changes: 0..MaxRevision, failures: 0..MaxFailures, restarts: 0..MaxRestarts]

IInv == TypeOK /\ Progress /\ Replied /\ OnlySelectedStanzasShown

-----------------------------------------------------------------------------
LEMMA ConfigTyped ==
  ASSUME TypeOK
  PROVE  /\ cfg.include \in Seq(Entry) /\ cfg.exclude \in Seq(Entry)
         /\ DOMAIN cfg.include = 1..Len(cfg.include) /\ Len(cfg.include) \in Nat
<1>1. cfg \in Config
  BY ConfigsAssumption DEF TypeOK
<1>2. cfg.include \in Seq(Entry) /\ cfg.exclude \in Seq(Entry)
  BY <1>1 DEF Config
<1>3. QED
  BY <1>2

LEMMA OrdersTyped ==
  /\ Len(SetOrder) = 6 /\ DOMAIN SetOrder = 1..6 /\ Len(ResetOrder) = 6
BY DEF SetOrder, ResetOrder

LEMMA BudgetStep ==
  ASSUME TypeOK,
         \/ UNCHANGED budget
         \/ Fail
         \/ budget.restarts > 0 /\ budget' = [budget EXCEPT !.restarts = @ - 1]
         \/ budget.changes > 0 /\ budget' = [budget EXCEPT !.changes = @ - 1]
  PROVE  budget' \in Budget
<1>1. budget \in Budget
  BY DEF TypeOK, Budget
<1>2. QED
  BY <1>1 DEF Budget, Fail

\* A reply names stanzas of the repository, each with a report.
LEMMA ReportsTyped ==
  ASSUME TypeOK, NEW entry \in Entry
  PROVE  /\ DOMAIN Reports(entry) \subseteq Stanza
         /\ \A s \in DOMAIN Reports(entry) : Reports(entry)[s] \in Report
         /\ entry = NoStanza \/ DOMAIN Reports(entry) \subseteq {entry}
<1>1. repository \in [Stanza -> Report]
  BY DEF TypeOK
<1>2. CASE entry = NoStanza
  BY <1>1, <1>2 DEF Reports
<1>3. CASE entry # NoStanza
  <2>1. entry \in Stanza
    BY <1>3 DEF Entry
  <2>2. Reports(entry) = [s \in {entry} |-> repository[s]]
    BY <1>3 DEF Reports
  <2>3. QED
    BY <1>1, <2>1, <2>2
<1>4. QED
  BY <1>2, <1>3

\* What a call of pgbackrest info brings: some of the stanzas of the entry's
\* reply, in any order.
LEMMA InfoReceives ==
  ASSUME TypeOK, Progress, Info
  PROVE  \E result \in {"ok", "failed", "mistyped"},
            stanzas \in SUBSET DOMAIN Reports(cfg.include[at]) :
           /\ fetched' = [fetched EXCEPT ![at] =
                [result |-> result,
                 reports |-> [s \in stanzas |-> Reports(cfg.include[at])[s]]]]
           /\ todo' \in Seq(stanzas)
           /\ success' \in BOOLEAN
<1> DEFINE reports == Reports(cfg.include[at])
           Gets(result, stanzas) ==
             /\ fetched' = [fetched EXCEPT ![at] =
                  [result |-> result, reports |-> [s \in stanzas |-> reports[s]]]]
             /\ success' = (success /\ result = "ok")
             /\ \E order \in [1..Cardinality(stanzas) -> stanzas] :
                  /\ {order[i] : i \in DOMAIN order} = stanzas
                  /\ todo' = order
<1>1. \/ Gets("ok", DOMAIN reports)
      \/ Gets("failed", {})
      \/ Gets("mistyped", DOMAIN reports)
  BY DEF Info
<1>2. cfg.include[at] \in Entry
  <2>1. at \in DOMAIN cfg.include
    BY DEF Info, Progress, InEntry
  <2>2. cfg.include \in Seq(Entry)
    BY ConfigTyped
  <2>3. QED
    BY <2>1, <2>2
<1>3. \A stanzas \in SUBSET DOMAIN reports : Cardinality(stanzas) \in Nat
  <2>1. DOMAIN reports \subseteq Stanza
    BY <1>2, ReportsTyped
  <2>2. QED
    BY <2>1, FS_Subset, FS_CardinalityType
<1>4. ASSUME NEW result \in {"ok", "failed", "mistyped"},
             NEW stanzas \in SUBSET DOMAIN reports, Gets(result, stanzas)
      PROVE  todo' \in Seq(stanzas) /\ success' \in BOOLEAN
  <2>1. PICK order \in [1..Cardinality(stanzas) -> stanzas] : todo' = order
    BY <1>4
  <2>2. todo' \in Seq(stanzas)
    BY <1>3, <2>1
  <2>3. QED
    BY <1>4, <2>2
<1>5. QED
  BY <1>1, <1>4

-----------------------------------------------------------------------------
\* What is published comes from the reply for the entry `at'.
LEMMA SetFamiliesTyped ==
  ASSUME TypeOK, Progress, Replied, SetFamilies
  PROVE  \A s \in registry' \ registry :
           /\ s \in Series /\ s.stanza = current
           /\ s.revision = fetched[at].reports[current].revision
<1> DEFINE report == fetched[at].reports[current]
           family == SetOrder[step]
<1>1. at \in DOMAIN cfg.include /\ current \in DOMAIN fetched[at].reports
  BY DEF Progress, InEntry, SetFamilies
<1>2. report.revision \in Revision /\ current \in Stanza
  BY <1>1 DEF Replied, Report, TypeOK
<1>3. family \in Families
  <2>1. step \in 1..Len(SetOrder)
    BY DEF TypeOK
  <2>2. DOMAIN SetOrder = 1..Len(SetOrder)
    BY DEF SetOrder
  <2>3. QED
    BY <2>1, <2>2 DEF Families
<1>4. \/ UNCHANGED registry
      \/ \E value \in {"reported", "zero"} :
           registry' = SetFamily(family, current, report.revision, value)
  BY DEF SetFamilies
<1>5. ASSUME NEW value \in {"reported", "zero"},
             registry' = SetFamily(family, current, report.revision, value),
             NEW s \in registry' \ registry
      PROVE  s \in Series /\ s.stanza = current /\ s.revision = report.revision
  <2>1. s = [family |-> family, stanza |-> current, revision |-> report.revision,
             value |-> value]
    BY <1>5 DEF SetFamily
  <2>2. QED
    BY <1>2, <1>3, <2>1 DEF Series
<1>6. QED
  BY <1>4, <1>5

LEMMA MetricsTyped ==
  ASSUME NEW vec, \A s \in vec : s.value \in {0, 1}, NEW l, NEW v \in {0, 1}
  PROVE  /\ \A s \in GetMetric(vec, l) : s.value \in {0, 1}
         /\ \A s \in SetMetric(vec, l, v) : s.value \in {0, 1}
<1>1. [label |-> l, value |-> v].value = v /\ [label |-> l, value |-> 0].value = 0
  OBVIOUS
<1>2. \A s \in GetMetric(vec, l) : s \in vec \/ s = [label |-> l, value |-> 0]
  BY Zenon DEF GetMetric
<1>3. \A s \in SetMetric(vec, l, v) : s \in vec \/ s = [label |-> l, value |-> v]
  BY Zenon DEF SetMetric
<1>4. QED
  BY <1>1, <1>2, <1>3

\* Every action keeps the types.
LEMMA TypeStep ==
  ASSUME TypeOK, Progress, Replied, [Next]_vars
  PROVE  TypeOK'
<1>a. /\ step \in 1..6 /\ at \in 1..(Len(cfg.include) + 1)
      /\ todo \in Seq(Stanza) /\ current \in Entry
  BY OrdersTyped DEF TypeOK
<1>b. registry \subseteq Series /\ \A s \in status : s.value \in {0, 1}
  BY DEF TypeOK
<1>c. /\ Len(cfg.include) \in Nat /\ DOMAIN cfg.include = 1..Len(cfg.include)
      /\ \A i \in DOMAIN cfg.include : cfg.include[i] \in Entry
  BY ConfigTyped
<1>d. NoStanza \in Entry /\ << >> \in Seq(Stanza)
  BY DEF Entry
<1>1. CASE ResetVersion
  BY <1>1 DEF ResetVersion, TypeOK
<1>2. CASE GetVersion
  <2>1. budget' \in Budget
    BY <1>2, BudgetStep DEF GetVersion, Work
  <2>2. QED
    BY <1>2, <2>1 DEF GetVersion, Budget, TypeOK
<1>3. CASE StartCycle
  <2>1. 1 \in 1..(Len(cfg.include) + 1) /\ 1 \in 1..Len(SetOrder)
    BY <1>c, OrdersTyped
  <2>2. QED
    BY <1>3, <2>1 DEF StartCycle, TypeOK
<1>4. CASE Reset
  <2>1. step' \in 1..Len(SetOrder)
    <3>1. (step < 6 /\ step' = step + 1) \/ step' = 1
      BY <1>4, OrdersTyped DEF Reset
    <3>2. QED
      BY <1>a, <3>1, OrdersTyped
  <2>2. pc' \in {"reset", "get status", "include"}
    BY <1>4 DEF Reset
  <2>3. registry' \subseteq Series /\ \A s \in status' : s.value \in {0, 1}
    BY <1>b, <1>4 DEF Reset
  <2>4. UNCHANGED <<cfg, repository, at, todo, current, success, versionInfo,
                    fetched, budget>>
    BY <1>4 DEF Reset
  <2>5. QED
    BY <2>1, <2>2, <2>3, <2>4 DEF TypeOK
<1>5. CASE NextEntry
  BY <1>5 DEF NextEntry, TypeOK
<1>6. CASE Info
  <2>1. at \in DOMAIN cfg.include /\ cfg.include[at] \in Entry
    <3>1. at \in DOMAIN cfg.include
      BY <1>6 DEF Info, Progress, InEntry
    <3>2. QED
      BY <1>c, <3>1
  <2>2. PICK result \in {"ok", "failed", "mistyped"},
             stanzas \in SUBSET DOMAIN Reports(cfg.include[at]) :
           /\ fetched' = [fetched EXCEPT ![at] =
                [result |-> result,
                 reports |-> [s \in stanzas |-> Reports(cfg.include[at])[s]]]]
           /\ todo' \in Seq(stanzas)
           /\ success' \in BOOLEAN
    BY <1>6, InfoReceives
  <2>3. stanzas \subseteq Stanza
    BY <2>1, ReportsTyped
  <2>4. todo' \in Seq(Stanza)
    BY <2>2, <2>3
  <2>5. \A i \in DOMAIN cfg.include :
          /\ fetched'[i].result \in {"none", "ok", "failed", "mistyped"}
          /\ DOMAIN fetched'[i].reports \subseteq Stanza
    <3>1. \A i \in DOMAIN cfg.include :
            /\ fetched[i].result \in {"none", "ok", "failed", "mistyped"}
            /\ DOMAIN fetched[i].reports \subseteq Stanza
      BY DEF TypeOK
    <3>2. QED
      BY <2>2, <2>3, <3>1 DEF Replied
  <2>6. budget' \in Budget
    BY <1>6, BudgetStep DEF Info, Work
  <2>7. /\ pc' \in {"reset", "get status"}
        /\ UNCHANGED <<cfg, repository, at, step, current, registry, status, versionInfo>>
    BY <1>6 DEF Info
  <2>8. QED
    BY <2>2, <2>4, <2>5, <2>6, <2>7 DEF Budget, TypeOK
<1>7. CASE GetStatus
  <2>1. \E l : status' = GetMetric(status, l)
    BY <1>7 DEF GetStatus
  <2>2. \A s \in status' : s.value \in {0, 1}
    BY <1>b, <2>1, MetricsTyped
  <2>3. QED
    BY <1>7, <2>2 DEF GetStatus, TypeOK
<1>8. CASE SetStatus
  <2>1. \E l, v : v \in {0, 1} /\ status' = SetMetric(status, l, v)
    BY <1>8 DEF SetStatus
  <2>2. \A s \in status' : s.value \in {0, 1}
    BY <1>b, <2>1, MetricsTyped
  <2>3. QED
    BY <1>8, <2>2 DEF SetStatus, TypeOK
<1>9. CASE NextStanza
  <2>1. at' \in 1..(Len(cfg.include) + 1)
    <3>1. at \in DOMAIN cfg.include
      BY <1>9 DEF NextStanza, Progress, InEntry
    <3>2. at' = at \/ at' = at + 1
      BY <1>9 DEF NextStanza
    <3>3. QED
      BY <1>c, <3>1, <3>2
  <2>2. todo' \in Seq(Stanza) /\ current' \in Entry
    BY <1>a, <1>9 DEF NextStanza, Entry
  <2>3. /\ pc' \in {"include", "stanza", "families"}
        /\ UNCHANGED <<cfg, repository, step, success, registry, status, versionInfo,
                       fetched, budget>>
    BY <1>9 DEF NextStanza
  <2>4. QED
    BY <2>1, <2>2, <2>3 DEF TypeOK
<1>10. CASE SetFamilies
  <2>1. registry' \subseteq Series
    BY <1>b, <1>10, SetFamiliesTyped
  <2>2. step' \in 1..Len(SetOrder)
    <3>1. (step < 6 /\ step' = step + 1) \/ step' = 1
      BY <1>10, OrdersTyped DEF SetFamilies
    <3>2. QED
      BY <1>a, <3>1, OrdersTyped
  <2>3. pc' \in {"families", "stanza"} /\ current' \in Entry
    BY <1>a, <1>d, <1>10 DEF SetFamilies
  <2>4. budget' \in Budget
    BY <1>10, BudgetStep DEF SetFamilies, Work
  <2>5. UNCHANGED <<cfg, repository, at, todo, success, status, versionInfo, fetched>>
    BY <1>10 DEF SetFamilies
  <2>6. QED
    BY <2>1, <2>2, <2>3, <2>4, <2>5 DEF Budget, TypeOK
<1>11. CASE Wake
  BY <1>11 DEF Wake, TypeOK
<1>12. ASSUME NEW s \in Stanza, Change(s) PROVE TypeOK'
  <2>1. budget' \in Budget
    BY <1>12, BudgetStep DEF Change
  <2>2. repository' \in [Stanza -> Report]
    <3>1. repository \in [Stanza -> Report] /\ budget \in Budget
      BY DEF TypeOK, Budget
    <3>2. MaxRevision - budget.changes + 1 \in Revision
      BY <1>12, <3>1 DEF Change, Budget, Revision
    <3>3. QED
      BY <1>12, <3>1, <3>2 DEF Change, Contents, Report
  <2>3. UNCHANGED <<cfg, pc, at, step, todo, current, success, registry, status,
                    versionInfo, fetched>>
    BY <1>12 DEF Change
  <2>4. QED
    BY <2>1, <2>2, <2>3 DEF Budget, TypeOK
<1>13. CASE Restart
  <2>1. 1 \in 1..(Len(cfg.include) + 1) /\ 1 \in 1..Len(SetOrder)
    BY <1>c, OrdersTyped
  <2>2. budget' \in Budget
    BY <1>13, BudgetStep DEF Restart
  <2>3. \A i \in DOMAIN cfg.include : fetched'[i].result = "none"
                                    /\ DOMAIN fetched'[i].reports = {}
    <3>1. \A i \in DOMAIN cfg.include :
            fetched'[i] = [result |-> "none", reports |-> << >>]
      BY <1>13 DEF Restart, NoFetches
    <3>2. DOMAIN << >> = {}
      OBVIOUS
    <3>3. QED
      BY <3>1, <3>2
  <2>4. /\ pc' = "version reset" /\ at' = 1 /\ step' = 1
        /\ todo' = << >> /\ current' = NoStanza /\ success' = TRUE
        /\ registry' = {} /\ status' = {} /\ versionInfo' = {}
        /\ UNCHANGED <<cfg, repository>>
    BY <1>13 DEF Restart
  <2>5. QED
    BY <1>d, <2>1, <2>2, <2>3, <2>4 DEF Budget, TypeOK
<1>14. CASE UNCHANGED vars
  BY <1>14 DEF vars, TypeOK
<1>15. QED
  BY <1>1, <1>2, <1>3, <1>4, <1>5, <1>6, <1>7, <1>8, <1>9, <1>10, <1>11, <1>12,
     <1>13, <1>14 DEF Next, Collect

-----------------------------------------------------------------------------
LEMMA CommandLineStep ==
  ASSUME [Next]_vars
  PROVE  cfg' = cfg
BY DEF Next, Collect, vars, ResetVersion, GetVersion, StartCycle, Reset, NextEntry,
       Info, GetStatus, SetStatus, NextStanza, SetFamilies, Wake, Change, Restart

\* Only a call of pgbackrest info and a restart touch the replies.
LEMMA RepliesStep ==
  ASSUME [Next]_vars
  PROVE  UNCHANGED fetched \/ Info \/ Restart
BY DEF Next, Collect, vars, ResetVersion, GetVersion, StartCycle, Reset, NextEntry,
       GetStatus, SetStatus, NextStanza, SetFamilies, Wake, Change

LEMMA RepliedStep ==
  ASSUME TypeOK, Progress, Replied, [Next]_vars
  PROVE  Replied'
<1>1. cfg' = cfg
  BY CommandLineStep
<1>2. CASE UNCHANGED fetched
  BY <1>1, <1>2 DEF Replied
<1>3. CASE Info
  <2>1. at \in DOMAIN cfg.include
    BY <1>3 DEF Info, Progress, InEntry
  <2>2. PICK result \in {"ok", "failed", "mistyped"},
             stanzas \in SUBSET DOMAIN Reports(cfg.include[at]) :
          fetched' = [fetched EXCEPT ![at] =
            [result |-> result,
             reports |-> [s \in stanzas |-> Reports(cfg.include[at])[s]]]]
    BY <1>3, InfoReceives
  <2>3. /\ \A s \in DOMAIN Reports(cfg.include[at]) : Reports(cfg.include[at])[s] \in Report
        /\ cfg.include[at] = NoStanza \/ DOMAIN Reports(cfg.include[at]) \subseteq {cfg.include[at]}
    BY <2>1, ConfigTyped, ReportsTyped
  <2>4. DOMAIN fetched' = DOMAIN cfg.include
    BY <2>2 DEF Replied
  <2>5. fetched'[at].reports = [s \in stanzas |-> Reports(cfg.include[at])[s]]
    BY <2>1, <2>2 DEF Replied
  <2>6. \A i \in DOMAIN cfg.include : i # at => fetched'[i] = fetched[i]
    BY <2>2 DEF Replied
  <2>7. QED
    BY <1>1, <2>3, <2>4, <2>5, <2>6 DEF Replied
<1>4. CASE Restart
  <2>1. fetched' = [i \in DOMAIN cfg.include |-> [result |-> "none", reports |-> << >>]]
    BY <1>4 DEF Restart, NoFetches
  <2>2. DOMAIN << >> = {}
    OBVIOUS
  <2>3. \A i \in DOMAIN cfg.include : DOMAIN fetched'[i].reports = {}
    BY <2>1, <2>2
  <2>4. QED
    BY <1>1, <2>1, <2>3 DEF Replied
<1>5. QED
  BY <1>2, <1>3, <1>4, RepliesStep

\* Every action leaves the loop where its lists belong to its entry.
LEMMA ProgressStep ==
  ASSUME TypeOK, Progress, Replied, [Next]_vars
  PROVE  Progress'
<1>1. cfg' = cfg
  BY CommandLineStep
<1>2. (resetMetricsAfterFetch <=> resetMetricsAfterFetch')
      /\ \A s : stanzaInExclude(s) <=> stanzaInExclude(s)'
  BY <1>1 DEF resetMetricsAfterFetch, stanzaInExclude, NonEmpty
<1>3. /\ at \in 1..(Len(cfg.include) + 1) /\ todo \in Seq(Stanza)
      /\ Len(cfg.include) \in Nat /\ DOMAIN cfg.include = 1..Len(cfg.include)
  BY ConfigTyped DEF TypeOK
<1>4. DOMAIN << >> = {}
  OBVIOUS
<1>5. CASE ResetVersion \/ GetVersion \/ Wake
  <2>1. /\ pc \notin InEntry \cup {"reset"} /\ pc' \notin InEntry \cup {"reset"}
        /\ UNCHANGED todo
    BY <1>5 DEF ResetVersion, GetVersion, Wake, InEntry
  <2>2. QED
    BY <1>4, <2>1 DEF Progress, InEntry
<1>6. CASE StartCycle
  <2>1. /\ todo' = << >> /\ pc' = IF resetMetricsAfterFetch THEN "include" ELSE "reset"
    BY <1>6 DEF StartCycle, Progress, InEntry
  <2>2. QED
    BY <1>2, <1>4, <2>1 DEF Progress, InEntry
<1>7. CASE Reset
  <2>1. /\ pc = "reset" /\ UNCHANGED <<at, todo, fetched>>
        /\ pc' \in {"reset", IF resetMetricsAfterFetch THEN "get status" ELSE "include"}
    BY <1>7 DEF Reset
  <2>2. QED
    BY <1>1, <1>2, <2>1 DEF Progress, InEntry
<1>8. CASE NextEntry
  <2>1. /\ todo' = << >> /\ UNCHANGED at
        /\ \/ pc' = "sleep"
           \/ pc' \in {"get status", "info exec"} /\ ~(at > Len(cfg.include))
    BY <1>8 DEF NextEntry, Progress, InEntry
  <2>2. ~(at > Len(cfg.include)) => at \in DOMAIN cfg.include
    BY <1>3
  <2>3. QED
    BY <1>1, <1>4, <2>1, <2>2 DEF Progress, InEntry
<1>9. CASE Info
  <2>1. /\ at \in DOMAIN cfg.include /\ UNCHANGED at
        /\ pc' = IF resetMetricsAfterFetch THEN "reset" ELSE "get status"
    BY <1>9 DEF Info, Progress, InEntry
  <2>2. PICK result \in {"ok", "failed", "mistyped"},
             stanzas \in SUBSET DOMAIN Reports(cfg.include[at]) :
           /\ fetched' = [fetched EXCEPT ![at] =
                [result |-> result,
                 reports |-> [s \in stanzas |-> Reports(cfg.include[at])[s]]]]
           /\ todo' \in Seq(stanzas)
    BY <1>9, InfoReceives
  <2>3. DOMAIN fetched'[at].reports = stanzas
    BY <2>1, <2>2 DEF Replied
  <2>4. \A k \in DOMAIN todo' : todo'[k] \in DOMAIN fetched'[at].reports
    BY <2>2, <2>3
  <2>5. QED
    BY <1>1, <1>2, <2>1, <2>4 DEF Progress, InEntry
<1>10. CASE GetStatus \/ SetStatus
  <2>1. /\ pc \in InEntry /\ pc' \in {"set status", "stanza"}
        /\ UNCHANGED <<at, todo, fetched>>
    BY <1>10 DEF GetStatus, SetStatus, InEntry
  <2>2. QED
    BY <1>1, <2>1 DEF Progress, InEntry
<1>11. CASE NextStanza
  <2>1. pc = "stanza" /\ UNCHANGED fetched
    BY <1>11 DEF NextStanza
  <2>2. CASE todo = << >>
    <3>1. pc' = "include" /\ todo' = << >>
      BY <1>11, <2>2 DEF NextStanza
    <3>2. QED
      BY <1>4, <3>1 DEF Progress, InEntry
  <2>3. CASE todo # << >>
    <3>1. /\ todo' = Tail(todo) /\ UNCHANGED at /\ pc' \in {"stanza", "families"}
          /\ pc' = "families" => current' = Head(todo) /\ ~stanzaInExclude(Head(todo))
      BY <1>11, <2>3 DEF NextStanza
    <3>2. \A k \in DOMAIN todo' : todo'[k] \in DOMAIN fetched[at].reports
      <4>1. \A k \in DOMAIN Tail(todo) : k + 1 \in DOMAIN todo /\ Tail(todo)[k] = todo[k + 1]
        BY <1>3, <2>3
      <4>2. QED
        BY <3>1, <4>1 DEF Progress
    <3>3. Head(todo) \in DOMAIN fetched[at].reports
      <4>1. 1 \in DOMAIN todo /\ Head(todo) = todo[1]
        BY <1>3, <2>3
      <4>2. QED
        BY <4>1 DEF Progress
    <3>4. at \in DOMAIN cfg.include
      BY <2>1 DEF Progress, InEntry
    <3>5. QED
      BY <1>1, <1>2, <2>1, <3>1, <3>2, <3>3, <3>4 DEF Progress, InEntry
  <2>4. QED
    BY <2>2, <2>3
<1>12. CASE SetFamilies
  <2>1. /\ pc = "families" /\ UNCHANGED <<at, todo, fetched>>
        /\ \/ pc' = "families" /\ UNCHANGED current
           \/ pc' = "stanza"
    BY <1>12 DEF SetFamilies
  <2>2. QED
    BY <1>1, <1>2, <2>1 DEF Progress, InEntry
<1>13. CASE Restart
  <2>1. pc' = "version reset" /\ todo' = << >>
    BY <1>13 DEF Restart
  <2>2. QED
    BY <1>4, <2>1 DEF Progress, InEntry
<1>14. CASE (\E s \in Stanza : Change(s)) \/ UNCHANGED vars
  <2>1. UNCHANGED <<pc, at, todo, current, fetched>>
    BY <1>14 DEF Change, vars
  <2>2. QED
    BY <1>1, <1>2, <2>1 DEF Progress, InEntry
<1>15. QED
  BY <1>5, <1>6, <1>7, <1>8, <1>9, <1>10, <1>11, <1>12, <1>13, <1>14
     DEF Next, Collect

\* Only SetFamilies adds series.
LEMMA SeriesStep ==
  ASSUME [Next]_vars
  PROVE  registry' \subseteq registry \/ SetFamilies
BY DEF Next, Collect, vars, ResetVersion, GetVersion, StartCycle, Reset, NextEntry,
       Info, GetStatus, SetStatus, NextStanza, Wake, Change, Restart

LEMMA SelectedStep ==
  ASSUME TypeOK, Progress, Replied, OnlySelectedStanzasShown, [Next]_vars
  PROVE  OnlySelectedStanzasShown'
<1>1. cfg' = cfg
  BY CommandLineStep
<1>2. CASE registry' \subseteq registry
  BY <1>1, <1>2 DEF OnlySelectedStanzasShown
<1>3. CASE SetFamilies
  <2>1. /\ at \in DOMAIN cfg.include /\ current \in DOMAIN fetched[at].reports
        /\ ~stanzaInExclude(current)
    BY <1>3 DEF SetFamilies, Progress, InEntry
  <2>2. current # NoStanza
    BY <2>1 DEF TypeOK
  <2>3. \A i \in DOMAIN cfg.exclude : cfg.exclude[i] # current
    BY <2>1, <2>2 DEF stanzaInExclude, NonEmpty
  <2>4. cfg.include[at] \in {NoStanza, current}
    BY <2>1 DEF Replied
  <2>5. \A s \in registry' \ registry : s.stanza = current
    BY <1>3, SetFamiliesTyped
  <2>6. QED
    BY <1>1, <2>1, <2>3, <2>4, <2>5 DEF OnlySelectedStanzasShown
<1>4. QED
  BY <1>2, <1>3, SeriesStep

-----------------------------------------------------------------------------
LEMMA InvariantInitially ==
  ASSUME Init
  PROVE  IInv
<1>2. cfg \in Config /\ cfg \in Configs
  BY ConfigsAssumption DEF Init
<1>3. Len(cfg.include) \in Nat /\ 1 \in 1..(Len(cfg.include) + 1)
  BY <1>2 DEF Config
<1>4. repository \in [Stanza -> Report]
  <2>1. 0 \in Revision
    BY DEF Revision
  <2>2. repository \in [Stanza -> {Contents(0, "absent"), Contents(0, "none"),
                                   Contents(0, "full")}]
    BY DEF Init
  <2>3. \A backups \in Listing : Contents(0, backups) \in Report
    BY <2>1 DEF Contents, Report
  <2>4. {"absent", "none", "full"} \subseteq Listing
    BY DEF Listing
  <2>5. {Contents(0, "absent"), Contents(0, "none"), Contents(0, "full")} \subseteq Report
    BY <2>3, <2>4
  <2>6. QED
    BY <2>2, <2>5
<1>5. DOMAIN << >> = {}
  OBVIOUS
<1>6. DOMAIN fetched = DOMAIN cfg.include /\ \A i \in DOMAIN cfg.include :
        fetched[i].result = "none" /\ DOMAIN fetched[i].reports = {}
  <2>1. fetched = [i \in DOMAIN cfg.include |-> [result |-> "none", reports |-> << >>]]
    BY DEF Init, NoFetches
  <2>2. QED
    BY <1>5, <2>1
<1>7. budget \in Budget
  <2>1. budget = [changes |-> MaxRevision, failures |-> MaxFailures,
                  restarts |-> MaxRestarts]
    BY DEF Init
  <2>2. QED
    BY <2>1 DEF Budget
<1>8. 1 \in 1..Len(SetOrder) /\ NoStanza \in Entry /\ << >> \in Seq(Stanza)
  BY OrdersTyped DEF Entry
<1>9. /\ pc = "version reset" /\ at = 1 /\ step = 1 /\ todo = << >>
      /\ current = NoStanza /\ success = TRUE
      /\ registry = {} /\ status = {} /\ versionInfo = {}
  BY DEF Init
<1>10. TypeOK
  BY <1>2, <1>3, <1>4, <1>6, <1>7, <1>8, <1>9 DEF TypeOK, Budget
<1>11. Progress
  BY <1>5, <1>9 DEF Progress, InEntry
<1>12. Replied
  BY <1>6 DEF Replied
<1>13. OnlySelectedStanzasShown
  BY <1>9 DEF OnlySelectedStanzasShown
<1>14. QED
  BY <1>10, <1>11, <1>12, <1>13 DEF IInv

LEMMA InvariantStep ==
  ASSUME IInv, [Next]_vars
  PROVE  IInv'
BY TypeStep, ProgressStep, RepliedStep, SelectedStep DEF IInv

LEMMA InvariantHolds == Spec => []IInv
<1>1. Init => IInv
  BY InvariantInitially
<1>2. IInv /\ [Next]_vars => IInv'
  BY InvariantStep
<1>3. QED
  BY <1>1, <1>2, PTL DEF Spec

\* The collector's state keeps its types: the indices of its loops stay inside
\* their lists, and the replies name stanzas.
THEOREM TypeCorrect == Spec => []TypeOK
<1>1. IInv => TypeOK
  BY DEF IInv
<1>2. QED
  BY <1>1, InvariantHolds, PTL

\* GetPgBackRestInfo: whatever the include and exclude lists, however the calls
\* fail and the repository changes, no scrape reads metrics of a stanza that is
\* excluded or not included.
THEOREM OnlySelected == Spec => []OnlySelectedStanzasShown
<1>1. IInv => OnlySelectedStanzasShown
  BY DEF IInv
<1>2. QED
  BY <1>1, InvariantHolds, PTL

=============================================================================
