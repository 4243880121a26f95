---------------------------- MODULE Exporter_proofs ----------------------------
(***************************************************************************)
(* The whole process, for every command line, repository, number of        *)
(* goroutines, changes, failures and restarts: the types are kept; and if  *)
(* the command line names each stanza once, scrapes only go forward, and   *)
(* the database counts of the last backups have a status and are complete, *)
(* but for what an overtaken goroutine does to them.                       *)
(*                                                                         *)
(* A step of the process is a step of the main loop, of the repository or  *)
(* a restart, as far as module Collector's variables go, so what holds of  *)
(* the collector alone holds here.                                         *)
(***************************************************************************)
EXTENDS Exporter, Publication_proofs, WellFoundedInduction

LEMMA ExporterStepIsStep ==
  ASSUME [ExporterNext]_allVars
  PROVE  [Next]_vars
<1>1. CASE MainStep
  BY <1>1 DEF MainStep, Next
<1>2. CASE getBackupLastDBCountMetrics
  BY <1>2 DEF getBackupLastDBCountMetrics, Spawn, SetLatest
<1>3. CASE (\E w \in Workers : WorkerSets(w)) \/ Start \/ Listen
           \/ \E vector \in Vectors : Scrape(vector)
  BY <1>3 DEF WorkerSets, Start, Listen, Scrape
<1>4. CASE Exit
  BY <1>4 DEF Exit, Next
<1>5. CASE RepositoryChanges
  BY <1>5 DEF RepositoryChanges, Next
<1>6. CASE UNCHANGED allVars
  BY <1>6 DEF allVars
<1>7. QED
  BY <1>1, <1>2, <1>3, <1>4, <1>5, <1>6 DEF ExporterNext, MainGoroutine

\* The whole process implements the collector, goroutines, web server and scrapes
\* being invisible to it: all that is proved of the main loop holds of the process.
THEOREM ExporterImplementsCollector == ExporterSpec => Init /\ [][Next]_vars
<1>1. StartedUp => Init
  BY DEF StartedUp
<1>2. [ExporterNext]_allVars => [Next]_vars
  BY ExporterStepIsStep
<1>3. QED
  BY <1>1, <1>2, PTL DEF ExporterSpec

\* Logical time is a natural number that stands still but for the repository's changes.
LEMMA Clock ==
  ASSUME TypeOK
  PROVE  /\ now \in 0..MaxRevision
         /\ UNCHANGED budget => now' = now
         /\ Collect => now' = now
         /\ Restart => now' = now
         /\ (\E s \in Stanza : Change(s)) => now' = now + 1
<1>1. budget \in [changes: 0..MaxRevision, failures: 0..MaxFailures, restarts: 0..MaxRestarts]
  BY DEF TypeOK
<1>2. budget.changes \in 0..MaxRevision /\ MaxRevision \in Nat
  BY <1>1, BoundsAssumption
<1>3. Fail => budget'.changes = budget.changes
  BY <1>1 DEF Fail
<1>4. Collect => budget'.changes = budget.changes
  <2>1. Collect => UNCHANGED budget \/ Fail
    BY DEF Collect, ResetVersion, GetVersion, StartCycle, Reset, NextEntry, Info,
           GetStatus, SetStatus, NextStanza, SetFamilies, Wake, Work
  <2>2. QED
    BY <1>3, <2>1
<1>5. Restart => budget'.changes = budget.changes
  BY <1>1 DEF Restart
<1>6. (\E s \in Stanza : Change(s)) => budget'.changes = budget.changes - 1
  BY <1>1 DEF Change
<1>7. QED
  BY <1>2, <1>4, <1>5, <1>6 DEF now

LEMMA MaxExists ==
  ASSUME NEW S, S \subseteq Revision, S # {}
  PROVE  \E r \in S : \A q \in S : q <= r
<1> DEFINE T == {MaxRevision - r : r \in S}
<1>1. \A r \in S : r \in Nat /\ r <= MaxRevision /\ MaxRevision \in Nat
  BY BoundsAssumption DEF Revision
<1>2. T \subseteq Nat /\ T # {}
  BY <1>1
<1>3. PICK x \in T : \A y \in T : ~(<<y, x>> \in OpToRel(<, Nat))
  BY <1>2, NatLessThanWellFounded, WFMin
<1>4. \A y \in T : ~(y < x)
  BY <1>2, <1>3 DEF OpToRel
<1>5. PICK r \in S : x = MaxRevision - r
  BY <1>3
<1>6. ASSUME NEW q \in S PROVE q <= r
  <2>1. ~(MaxRevision - q < x)
    BY <1>4
  <2>2. QED
    BY <1>1, <1>5, <2>1
<1>7. QED
  BY <1>6

-----------------------------------------------------------------------------
\* The types again, with all fields of the call and of the goroutines.
CallTyped ==
  /\ call \in [at: {"none", "diff", "incr", "full"}, stanza: Entry, revision: Revision]
  /\ call = NoCall \/ (call.at # "none" /\ pc = "stanza" /\ call.stanza \in Stanza)

WorkersTyped ==
  /\ worker \in [Workers -> LateSeries \cup {Idle}] /\ lastDatabases \subseteq LateSeries
  /\ \A w \in Workers : worker[w] # Idle => worker[w].type # "full"

BesideTyped ==
  /\ process \in {"down", "starting", "listening"}
  /\ currentUnixTime \in 0..now
  /\ clean \in BOOLEAN
  /\ newest \in [Stanza -> Revision]

LEMMA ProcessFacts ==
  /\ NoStanza \in Entry /\ NoStanza \notin Stanza /\ 0 \in Revision
  /\ Types = {"full", "diff", "incr"}
  /\ NoCall.at = "none"
  /\ NoCall \in [at: {"none", "diff", "incr", "full"}, stanza: Entry, revision: Revision]
<1>1. NoStanza \in Entry /\ NoStanza \notin Stanza /\ 0 \in Revision
  BY StanzaAssumption, BoundsAssumption DEF Entry, Revision
<1>2. QED
  BY <1>1 DEF NoCall, Types

\* A series is made of a stanza, a type and a revision.
LEMMA LateFacts ==
  /\ \A s, t, r : /\ LatestSeries(s, t, r).stanza = s
                  /\ LatestSeries(s, t, r).type = t
                  /\ LatestSeries(s, t, r).revision = r
  /\ \A s \in Stanza, t \in Types, r \in Revision : LatestSeries(s, t, r) \in LateSeries
  /\ \A x \in LateSeries :
       /\ x.stanza \in Stanza /\ x.type \in Types /\ x.revision \in Revision
       /\ x = LatestSeries(x.stanza, x.type, x.revision)
       /\ x # Idle
<1>1. \A s, t, r : /\ LatestSeries(s, t, r).stanza = s
                  /\ LatestSeries(s, t, r).type = t
                  /\ LatestSeries(s, t, r).revision = r
  BY DEF LatestSeries
<1>2. \A s \in Stanza, t \in Types, r \in Revision : LatestSeries(s, t, r) \in LateSeries
  BY DEF LateSeries
<1>3. ASSUME NEW x \in LateSeries
      PROVE  /\ x.stanza \in Stanza /\ x.type \in Types /\ x.revision \in Revision
             /\ x = LatestSeries(x.stanza, x.type, x.revision)
             /\ x # Idle
  <2>1. PICK s \in Stanza, t \in Types, r \in Revision : x = LatestSeries(s, t, r)
    BY DEF LateSeries
  <2>2. x.stanza = s /\ x.type = t /\ x.revision = r
    BY <1>1, <2>1
  <2>3. Idle.stanza = NoStanza
    BY DEF Idle
  <2>4. QED
    BY <2>1, <2>2, <2>3, ProcessFacts
<1>4. QED
  BY <1>1, <1>2, <1>3

\* A store brings its series; of the others it keeps all labels, and all values
\* but those of its own labels.
LEMMA StoredFacts ==
  ASSUME NEW new
  PROVE  /\ new \subseteq Stored(new)
         /\ \A x \in Stored(new) : x \in lastDatabases \/ x \in new
         /\ \A x \in lastDatabases : x \in Stored(new) \/
              \E y \in new : LabelsOf(y) = LabelsOf(x)
         /\ \A x \in lastDatabases : \E y \in Stored(new) : LabelsOf(y) = LabelsOf(x)
<1>1. new \subseteq Stored(new) /\ \A x \in Stored(new) : x \in lastDatabases \/ x \in new
  BY DEF Stored
<1>2. \A x \in lastDatabases : x \in Stored(new) \/
        \E y \in new : LabelsOf(y) = LabelsOf(x)
  BY DEF Stored
<1>3. QED
  BY <1>1, <1>2

LEMMA SameLabels ==
  ASSUME NEW x, NEW y, LabelsOf(x) = LabelsOf(y)
  PROVE  x.stanza = y.stanza /\ x.type = y.type
<1>1. /\ LabelsOf(x).stanza = x.stanza /\ LabelsOf(x).type = x.type
      /\ LabelsOf(y).stanza = y.stanza /\ LabelsOf(y).type = y.type
  BY DEF LabelsOf
<1>2. QED
  BY <1>1

\* getBackupLastDBCountMetrics is called as the last function for a stanza, and the
\* stanza is one of the reply in hand.
LEMMA CallFacts ==
  ASSUME IInv, MainStep, call' # NoCall
  PROVE  /\ SetFamilies /\ step = 6 /\ pc' = "stanza" /\ cfg.backupDBCountLatest
         /\ at \in DOMAIN cfg.include /\ current \in DOMAIN fetched[at].reports
         /\ current \in Stanza /\ ~stanzaInExclude(current)
         /\ fetched[at].reports[current].revision \in Revision
         /\ fetched[at].reports[current].backups = "full"
         /\ call' = [at |-> "diff", stanza |-> current,
                     revision |-> fetched[at].reports[current].revision]
<1>1. /\ pc = "families" /\ step = 6 /\ cfg.backupDBCountLatest
      /\ fetched[at].reports[current].backups = "full"
      /\ call' = [at |-> "diff", stanza |-> current,
                  revision |-> fetched[at].reports[current].revision]
  BY OrdersTyped DEF MainStep, CallLatest
<1>2. SetFamilies
  BY <1>1 DEF MainStep, Collect, ResetVersion, GetVersion, StartCycle, Reset, NextEntry,
              Info, GetStatus, SetStatus, NextStanza, Wake
<1>3. pc' = "stanza"
  <2>1. ~(step < Len(SetOrder))
    BY <1>1, OrdersTyped
  <2>2. QED
    BY <1>2, <2>1 DEF SetFamilies
<1>4. /\ at \in DOMAIN cfg.include /\ current \in DOMAIN fetched[at].reports
      /\ ~stanzaInExclude(current)
  BY <1>1 DEF IInv, Progress, InEntry
<1>5. current \in Stanza /\ fetched[at].reports[current] \in Report
  BY <1>4 DEF IInv, TypeOK, Replied
<1>6. QED
  BY <1>1, <1>2, <1>3, <1>4, <1>5 DEF Report

LEMMA CallStep ==
  ASSUME IInv, CallTyped, [ExporterNext]_allVars
  PROVE  CallTyped'
<1>1. ASSUME call' = NoCall PROVE CallTyped'
  BY <1>1, ProcessFacts DEF CallTyped
<1>2. ASSUME UNCHANGED <<call, pc>> PROVE CallTyped'
  BY <1>2 DEF CallTyped
<1>3. CASE MainStep
  <2>1. CASE call' = NoCall
    BY <1>1, <2>1
  <2>2. CASE call' # NoCall
    <3>1. /\ pc' = "stanza" /\ current \in Stanza
          /\ fetched[at].reports[current].revision \in Revision
          /\ call' = [at |-> "diff", stanza |-> current,
                      revision |-> fetched[at].reports[current].revision]
      BY <1>3, <2>2, CallFacts
    <3>2. current \in Entry
      BY <3>1 DEF Entry
    <3>3. QED
      BY <3>1, <3>2 DEF CallTyped
  <2>3. QED
    BY <2>1, <2>2
<1>4. ASSUME NEW type, NEW then \in {"incr", "full"}, type # "none", Spawn(type, then)
      PROVE  CallTyped'
  <2>1. call.at = type /\ call # NoCall /\ pc = "stanza" /\ call.stanza \in Stanza
    BY <1>4, ProcessFacts DEF Spawn, CallTyped
  <2>2. call' = [call EXCEPT !.at = then] /\ pc' = pc
    BY <1>4 DEF Spawn, vars
  <2>3. call \in [at: {"none", "diff", "incr", "full"}, stanza: Entry, revision: Revision]
    BY DEF CallTyped
  <2>4. /\ call' \in [at: {"none", "diff", "incr", "full"}, stanza: Entry,
                      revision: Revision]
        /\ call'.stanza = call.stanza /\ call'.at = then
    BY <2>2, <2>3
  <2>5. QED
    BY <1>4, <2>1, <2>2, <2>4 DEF CallTyped
<1>5. CASE SetLatest \/ Exit
  BY <1>1, <1>5 DEF SetLatest, Exit
<1>6. CASE \/ \E w \in Workers : WorkerSets(w)
           \/ Start \/ Listen
           \/ \E vector \in Vectors : Scrape(vector)
           \/ UNCHANGED allVars
  <2>1. UNCHANGED <<call, pc>>
    BY <1>6 DEF WorkerSets, Start, Listen, Scrape, allVars, vars, beside
  <2>2. QED
    BY <1>2, <2>1
<1>7. CASE RepositoryChanges
  BY <1>2, <1>7 DEF RepositoryChanges, Change, beside
<1>8. QED
  BY <1>3, <1>4, <1>5, <1>6, <1>7 DEF ExporterNext, MainGoroutine, getBackupLastDBCountMetrics

\* What the call does for diff, and then for incr.
InOrder(type, then) ==
  \/ type = "diff" /\ then = "incr"
  \/ type = "incr" /\ then = "full"

LEMMA SpawnFacts ==
  ASSUME CallTyped, WorkersTyped, NEW type, NEW then, InOrder(type, then),
         Spawn(type, then)
  PROVE  /\ call # NoCall /\ call.stanza \in Stanza /\ call.revision \in Revision
         /\ call.at = type /\ call'.at = then
         /\ call' # NoCall /\ call'.stanza = call.stanza /\ call'.revision = call.revision
         /\ UNCHANGED <<vars, process, currentUnixTime, lastDatabases, clean, newest>>
         /\ \/ worker' = worker /\ type \notin Own(call.stanza, call.revision)
            \/ \E w \in Workers :
                 /\ worker[w] = Idle
                 /\ worker' = [worker EXCEPT ![w] =
                                 LatestSeries(call.stanza, type, call.revision)]
<1>1. /\ call.at = type /\ call # NoCall
      /\ call.stanza \in Stanza /\ call.revision \in Revision
  BY ProcessFacts DEF Spawn, CallTyped, InOrder
<1>2. call \in [at: {"none", "diff", "incr", "full"}, stanza: Entry, revision: Revision]
  BY DEF CallTyped
<1>3. call' = [call EXCEPT !.at = then]
  BY DEF Spawn
<1>4. call'.at = then /\ call'.stanza = call.stanza /\ call'.revision = call.revision
  BY <1>2, <1>3
<1>5. call' # NoCall
  BY <1>4, ProcessFacts DEF InOrder
<1>6. \/ worker' = worker /\ type \notin Own(call.stanza, call.revision)
      \/ \E w \in Workers :
           /\ worker[w] = Idle
           /\ worker' = [worker EXCEPT ![w] =
                           LatestSeries(call.stanza, type, call.revision)]
  BY DEF Spawn
<1>7. UNCHANGED <<vars, process, currentUnixTime, lastDatabases, clean, newest>>
  BY DEF Spawn
<1>8. QED
  BY <1>1, <1>4, <1>5, <1>6, <1>7

LEMMA WorkersStep ==
  ASSUME CallTyped, WorkersTyped, [ExporterNext]_allVars
  PROVE  WorkersTyped'
<1>1. ASSUME UNCHANGED worker, lastDatabases' \subseteq lastDatabases PROVE WorkersTyped'
  BY <1>1 DEF WorkersTyped, Workers
<1>2. CASE MainStep
  BY <1>1, <1>2 DEF MainStep, ResetLatest
<1>3. ASSUME NEW type, NEW then, InOrder(type, then), Spawn(type, then)
      PROVE  WorkersTyped'
  <2>1. type \in Types /\ type # "full"
    BY <1>3 DEF Types, InOrder
  <2>2. /\ LatestSeries(call.stanza, type, call.revision) \in LateSeries
        /\ LatestSeries(call.stanza, type, call.revision).type = type
    BY <1>3, <2>1, SpawnFacts, LateFacts
  <2>3. lastDatabases' = lastDatabases
    BY <1>3, SpawnFacts
  <2>4. CASE worker' = worker
    BY <1>1, <2>3, <2>4
  <2>5. ASSUME NEW w \in Workers,
               worker' = [worker EXCEPT ![w] = LatestSeries(call.stanza, type, call.revision)]
        PROVE  WorkersTyped'
    <3>1. worker' \in [Workers -> LateSeries \cup {Idle}]
      BY <2>2, <2>5 DEF WorkersTyped
    <3>2. \A v \in Workers : worker'[v] # Idle => worker'[v].type # "full"
      BY <2>1, <2>2, <2>5 DEF WorkersTyped
    <3>3. QED
      BY <2>3, <3>1, <3>2 DEF WorkersTyped
  <2>6. QED
    BY <1>3, <2>4, <2>5, SpawnFacts
<1>4. CASE SetLatest
  <2>1. call # NoCall /\ call.stanza \in Stanza /\ call.revision \in Revision
    BY <1>4, ProcessFacts DEF SetLatest, CallTyped
  <2>2. \A type \in Types : LatestSeries(call.stanza, type, call.revision) \in LateSeries
    BY <2>1, LateFacts
  <2> DEFINE new == {LatestSeries(call.stanza, type, call.revision) :
                     type \in Types \ Own(call.stanza, call.revision)}
  <2>3. new \subseteq LateSeries
    BY <2>2
  <2>4. lastDatabases' = Stored(new) /\ UNCHANGED worker
    BY <1>4 DEF SetLatest
  <2> HIDE DEF new
  <2>5. lastDatabases' \subseteq LateSeries
    BY <2>3, <2>4, StoredFacts DEF WorkersTyped
  <2>6. QED
    BY <2>4, <2>5 DEF WorkersTyped
<1>5. ASSUME NEW w \in Workers, WorkerSets(w) PROVE WorkersTyped'
  <2>1. worker[w] \in LateSeries
    BY <1>5 DEF WorkerSets, WorkersTyped
  <2>2. lastDatabases' = Stored({worker[w]}) /\ worker' = [worker EXCEPT ![w] = Idle]
    BY <1>5 DEF WorkerSets
  <2>3. lastDatabases' \subseteq LateSeries
    BY <2>1, <2>2, StoredFacts DEF WorkersTyped
  <2>4. /\ worker' \in [Workers -> LateSeries \cup {Idle}]
        /\ \A v \in Workers : worker'[v] # Idle => worker'[v].type # "full"
    BY <2>2 DEF WorkersTyped
  <2>5. QED
    BY <2>3, <2>4 DEF WorkersTyped
<1>6. CASE Exit
  BY <1>6 DEF Exit, WorkersTyped
<1>7. CASE \/ Start \/ Listen \/ RepositoryChanges
           \/ \E vector \in Vectors : Scrape(vector)
           \/ UNCHANGED allVars
  BY <1>1, <1>7 DEF Start, Listen, RepositoryChanges, Scrape, allVars, beside
<1>8. QED
  <2>1. InOrder("diff", "incr") /\ InOrder("incr", "full")
    BY DEF InOrder
  <2>2. QED
    BY <1>2, <1>3, <1>4, <1>5, <1>6, <1>7, <2>1
       DEF ExporterNext, MainGoroutine, getBackupLastDBCountMetrics

\* What a scrape can read now, and what of it or of a goroutine's no goroutine of an
\* earlier cycle has to do with.
There == lastDatabases \cup ({worker[w] : w \in Workers} \ {Idle})
Seen  == registry \cup There
Firm  == registry \cup {x \in There : clean \/ x.type = "full"}

LEMMA SeenTyped ==
  ASSUME TypeOK, WorkersTyped, NEW x \in Seen
  PROVE  x.stanza \in Stanza /\ x.revision \in Revision
<1>1. CASE x \in registry
  BY <1>1 DEF TypeOK, Series
<1>2. CASE x \in There
  <2>1. x \in LateSeries
    BY <1>2 DEF There, WorkersTyped
  <2>2. QED
    BY <2>1, LateFacts
<1>3. QED
  BY <1>1, <1>2 DEF Seen

\* A scrape takes the newest revision of what it gets and of what there was.
LEMMA ScrapeFacts ==
  ASSUME TypeOK, WorkersTyped, BesideTyped, NEW vector, Scrape(vector), NEW s \in Stanza
  PROVE  /\ newest'[s] \in Revision
         /\ newest'[s] = newest[s] \/ \E x \in Seen : x.stanza = s /\ x.revision = newest'[s]
         /\ newest[s] <= newest'[s]
<1> DEFINE got == {x.revision : x \in {y \in Read(vector) : y.stanza = s}}
<1>1. newest'[s] = CHOOSE r \in got \cup {newest[s]} : \A q \in got \cup {newest[s]} : q <= r
  BY DEF Scrape
<1>2. Read(vector) \subseteq Seen
  BY DEF Read, Seen, There
<1>3. got \cup {newest[s]} \subseteq Revision /\ got \cup {newest[s]} # {}
  <2>1. \A x \in Read(vector) : x.revision \in Revision
    BY <1>2, SeenTyped
  <2>2. got \subseteq Revision
    BY <2>1
  <2>3. newest[s] \in Revision
    BY DEF BesideTyped
  <2>4. QED
    BY <2>2, <2>3
<1>4. \E r \in got \cup {newest[s]} : \A q \in got \cup {newest[s]} : q <= r
  BY <1>3, MaxExists
<1>5. \A r \in got : \E x \in Seen : x.stanza = s /\ x.revision = r
  BY <1>2
<1>6. /\ newest'[s] \in got \cup {newest[s]}
      /\ \A q \in got \cup {newest[s]} : q <= newest'[s]
  <2> HIDE DEF got
  <2>1. QED
    BY <1>1, <1>4
<1>7. QED
  BY <1>3, <1>5, <1>6

LEMMA BesideStep ==
  ASSUME TypeOK, WorkersTyped, BesideTyped, [ExporterNext]_allVars
  PROVE  BesideTyped'
<1>0. now \in 0..MaxRevision /\ (now' = now \/ now' = now + 1)
  <2>1. Collect \/ UNCHANGED budget \/ Restart \/ \E s \in Stanza : Change(s)
    BY ExporterStepIsStep DEF Next, vars
  <2>2. QED
    BY <2>1, Clock
<1>1. now \in 0..MaxRevision /\ now' >= now
  BY <1>0, BoundsAssumption
<1>2. currentUnixTime' \in {0, now, currentUnixTime}
  BY DEF ExporterNext, MainGoroutine, getBackupLastDBCountMetrics, MainStep, Spawn,
         SetLatest, WorkerSets, Exit, Start, Listen, Scrape, RepositoryChanges, allVars, beside
<1>3. currentUnixTime' \in 0..now'
  <2>1. now \in Int /\ now >= 0 /\ now' \in Int
    <3>1. now' \in Int
      <4>1. now' = now \/ now' = now + 1
        BY <1>0
      <4>2. QED
        BY <1>1, <4>1, BoundsAssumption
    <3>2. QED
      BY <1>1, <3>1, BoundsAssumption
  <2>2. currentUnixTime \in Int /\ 0 <= currentUnixTime /\ currentUnixTime <= now
    BY <2>1 DEF BesideTyped
  <2>3. QED
    BY <1>1, <1>2, <2>1, <2>2
<1>4. /\ process' \in {"down", "starting", "listening"}
      /\ clean' \in BOOLEAN
  BY DEF BesideTyped, ExporterNext, MainGoroutine, getBackupLastDBCountMetrics, MainStep,
         Spawn, SetLatest, WorkerSets, Exit, Start, Listen, Scrape, RepositoryChanges,
         allVars, beside, ResetLatest, AllIdle
<1>5. newest' \in [Stanza -> Revision]
  <2>1. CASE UNCHANGED newest
    BY <2>1 DEF BesideTyped
  <2>2. ASSUME NEW vector \in Vectors, Scrape(vector)
        PROVE  newest' \in [Stanza -> Revision]
    <3>1. \A s \in Stanza : newest'[s] \in Revision
      BY <2>2, ScrapeFacts
    <3>2. newest' = [s \in Stanza |-> newest'[s]]
      BY <2>2 DEF Scrape
    <3>3. QED
      BY <3>1, <3>2
  <2>3. QED
    BY <2>1, <2>2 DEF ExporterNext, MainGoroutine, getBackupLastDBCountMetrics, MainStep,
       Spawn, SetLatest, WorkerSets, Exit, Start, Listen, RepositoryChanges, allVars, beside
<1>6. QED
  BY <1>3, <1>4, <1>5 DEF BesideTyped

-----------------------------------------------------------------------------
\* The collector's invariants that hold for every command line, and the types.
EInv == LInv /\ CallTyped /\ WorkersTyped /\ BesideTyped

LEMMA ExporterInitially ==
  ASSUME StartedUp
  PROVE  EInv
<1>1. LInv
  BY LoopInitially DEF StartedUp
<1>2. CallTyped
  BY ProcessFacts DEF StartedUp, CallTyped
<1>3. WorkersTyped
  BY DEF StartedUp, WorkersTyped
<1>4. BesideTyped
  <2>1. TypeOK
    BY <1>1 DEF LInv, IInv
  <2>2. now \in Nat
    BY <2>1, Clock, BoundsAssumption
  <2>3. QED
    BY <2>2, ProcessFacts DEF StartedUp, BesideTyped
<1>5. QED
  BY <1>1, <1>2, <1>3, <1>4 DEF EInv

LEMMA ExporterStep ==
  ASSUME EInv, [ExporterNext]_allVars
  PROVE  EInv'
<1>1. LInv'
  BY ExporterStepIsStep, LoopStep DEF EInv
<1>2. CallTyped'
  BY CallStep DEF EInv, LInv
<1>3. WorkersTyped'
  BY WorkersStep DEF EInv
<1>4. BesideTyped'
  BY BesideStep DEF EInv, LInv, IInv
<1>5. QED
  BY <1>1, <1>2, <1>3, <1>4 DEF EInv

LEMMA ExporterHolds == ExporterSpec => []EInv
BY ExporterInitially, ExporterStep, PTL DEF ExporterSpec

\* The process's variables keep their types: a call of getBackupLastDBCountMetrics
\* is only under way where the loop over the stanzas waits for it, for a stanza
\* of the repository, every goroutine has its series to set, and the cycle's
\* clock is never ahead of time.
THEOREM ExporterTypeCorrect == ExporterSpec => []ExporterTypeOK
<1>1. EInv => ExporterTypeOK
  <2>1. ASSUME EInv PROVE TypeOK
    BY <2>1 DEF EInv, LInv, IInv
  <2>2. ASSUME CallTyped
        PROVE  /\ call.at \in {"none", "diff", "incr", "full"}
               /\ call = NoCall \/ (pc = "stanza" /\ call.stanza \in Stanza
                                    /\ call.revision \in Revision)
    BY <2>2 DEF CallTyped
  <2>3. ASSUME WorkersTyped
        PROVE  /\ \A w \in Workers : worker[w] = Idle \/ worker[w] \in LateSeries
               /\ lastDatabases \subseteq LateSeries
    BY <2>3 DEF WorkersTyped
  <2>4. QED
    BY <2>1, <2>2, <2>3 DEF EInv, BesideTyped, ExporterTypeOK
<1>2. QED
  BY <1>1, ExporterHolds, PTL

-----------------------------------------------------------------------------
\* Revision r of stanza s in reply i is one whose last databases are to be counted.
Wanted(i, s, r) ==
  /\ cfg.backupDBCountLatest
  /\ s \in DOMAIN fetched[i].reports /\ ~stanzaInExclude(s)
  /\ r = fetched[i].reports[s].revision
  /\ fetched[i].reports[s].backups = "full"

\* They are called for after the databases of all backups, and reset with the last.
LatestDue(i, s) ==
  IF pc = "reset" THEN ~resetMetricsAfterFetch /\ ~ResetAlready("last")
  ELSE Due(i, "databases", s)

\* The call under way has the type still to set or to start a goroutine for.
StillToSet(type) ==
  \/ type \notin Own(call.stanza, call.revision)
  \/ call.at = "diff"
  \/ call.at = "incr" /\ type = "incr"

\* The labels are there, for the full backup with its count, or a goroutine or the
\* call under way will set them.
Covered(s, type, r) ==
  \/ LatestSeries(s, type, r) \in lastDatabases
  \/ /\ type # "full"
     /\ \E y \in lastDatabases : LabelsOf(y) = LabelsOf(LatestSeries(s, type, r))
  \/ \E w \in Workers : worker[w] = LatestSeries(s, type, r)
  \/ call # NoCall /\ call.stanza = s /\ call.revision = r /\ StillToSet(type)

Complete ==
  ~LateReset =>
    \A i \in DOMAIN cfg.include, s \in Stanza, r \in Revision, type \in Types :
      Wanted(i, s, r) /\ LatestDue(i, s) => Covered(s, type, r)

\* What no goroutine of an earlier cycle has to do with is wanted.
WantedNow(s, r) == \E i \in DOMAIN cfg.include : Wanted(i, s, r) /\ LatestDue(i, s)
Sound ==
  ~(LateReset /\ ~ResetAlready("last")) =>
    \A x \in There : clean \/ x.type = "full" => WantedNow(x.stanza, x.revision)

\* The call under way is for the stanza just published.
CallExact ==
  call # NoCall =>
    /\ pc = "stanza" /\ at \in DOMAIN cfg.include
    /\ Wanted(at, call.stanza, call.revision) /\ call.stanza \notin Left

LatestInv == CallExact /\ Complete /\ Sound

LEMMA CoveredUnchanged ==
  ASSUME UNCHANGED <<lastDatabases, worker, call>>
  PROVE  \A s, t, r : Covered(s, t, r)' <=> Covered(s, t, r)
BY DEF Covered, StillToSet

LEMMA LastIsFourth ==
  /\ \A k \in 1..6 : ResetOrder[k] = "last" <=> k = 4
  /\ \A n \in 1..6 : (\E k \in 1..(n - 1) : "last" \in ResetBy(ResetOrder[k])) <=> n > 4
<1>1. /\ ResetOrder[1] = "stanza" /\ ResetOrder[2] = "repo" /\ ResetOrder[3] = "backup"
      /\ ResetOrder[4] = "last" /\ ResetOrder[5] = "wal" /\ ResetOrder[6] = "status"
  BY DEF ResetOrder
<1>2. \A k \in 1..6 : k = 1 \/ k = 2 \/ k = 3 \/ k = 4 \/ k = 5 \/ k = 6
  OBVIOUS
<1>3. /\ ResetBy("stanza") = {"stanza"} /\ ResetBy("repo") = {"repo"}
      /\ ResetBy("backup") = {"backup", "databases"} /\ ResetBy("status") = {}
      /\ ResetBy("last") = {"last"} /\ ResetBy("wal") = {"wal"}
  BY DEF ResetBy
<1>4. \A k \in 1..6 : "last" \in ResetBy(ResetOrder[k]) <=> k = 4
  BY <1>1, <1>2, <1>3
<1>5. \A n \in 1..6 : (\E k \in 1..(n - 1) : "last" \in ResetBy(ResetOrder[k])) <=> n > 4
  <2>1. \A n \in 1..6 : \A k \in 1..(n - 1) : k \in 1..6
    OBVIOUS
  <2>2. \A n \in 1..6 : 4 \in 1..(n - 1) <=> n > 4
    OBVIOUS
  <2>3. QED
    BY <1>4, <2>1, <2>2
<1>6. QED
  BY <1>1, <1>2, <1>5

\* The databases come last.
LEMMA DatabasesAreSixth ==
  /\ \A k \in 1..6 : SetOrder[k] = "databases" <=> k = 6
  /\ "databases" \in Families
<1>1. /\ SetOrder[1] = "stanza" /\ SetOrder[2] = "repo" /\ SetOrder[3] = "wal"
      /\ SetOrder[4] = "backup" /\ SetOrder[5] = "last" /\ SetOrder[6] = "databases"
  BY DEF SetOrder
<1>2. \A k \in 1..6 : k = 1 \/ k = 2 \/ k = 3 \/ k = 4 \/ k = 5 \/ k = 6
  OBVIOUS
<1>3. 6 \in 1..6
  OBVIOUS
<1>4. QED
  BY <1>1, <1>2, <1>3, OrderFacts

LEMMA WantedTyped ==
  ASSUME Base, NEW i \in DOMAIN cfg.include, NEW s, NEW r, Wanted(i, s, r)
  PROVE  s \in Stanza /\ r \in Revision /\ s \in DOMAIN fetched[i].reports
<1>1. s \in DOMAIN fetched[i].reports /\ r = fetched[i].reports[s].revision
  BY DEF Wanted
<1>2. s \in Stanza /\ fetched[i].reports[s] \in Report
  BY <1>1 DEF Base, TypeOK, Replied
<1>3. QED
  BY <1>1, <1>2 DEF Report

LEMMA WantedKept ==
  ASSUME cfg' = cfg, NEW i, NEW s, NEW r, fetched'[i] = fetched[i]
  PROVE  Wanted(i, s, r)' <=> Wanted(i, s, r)
BY SameCommandLine DEF Wanted

\* What a step keeps for the series to stay as complete as they were ...
LEMMA KeepComplete ==
  ASSUME Complete, ~LateReset, cfg' = cfg,
         \A i \in DOMAIN cfg.include : \A s, r :
           (Wanted(i, s, r) /\ LatestDue(i, s))' => Wanted(i, s, r) /\ LatestDue(i, s),
         \A i \in DOMAIN cfg.include, s \in Stanza, r \in Revision, type \in Types :
           Wanted(i, s, r) /\ Covered(s, type, r) => Covered(s, type, r)'
  PROVE  Complete'
<1>1. SUFFICES ASSUME NEW i \in DOMAIN cfg.include, NEW s \in Stanza, NEW r \in Revision,
                      NEW type \in Types, (Wanted(i, s, r) /\ LatestDue(i, s))'
               PROVE  Covered(s, type, r)'
  BY DEF Complete
<1>2. Wanted(i, s, r) /\ LatestDue(i, s)
  BY <1>1
<1>3. Covered(s, type, r)
  BY <1>2 DEF Complete
<1>4. QED
  BY <1>2, <1>3

\* ... and as sound.
LEMMA KeepSound ==
  ASSUME Sound, cfg' = cfg, ~(LateReset /\ ~ResetAlready("last")),
         clean' => clean, There' \subseteq There,
         \A i \in DOMAIN cfg.include : \A s, r :
           Wanted(i, s, r) /\ LatestDue(i, s) => (Wanted(i, s, r) /\ LatestDue(i, s))'
  PROVE  Sound'
<1>1. SUFFICES ASSUME NEW x \in There', clean' \/ x.type = "full"
               PROVE  WantedNow(x.stanza, x.revision)'
  BY DEF Sound
<1>2. WantedNow(x.stanza, x.revision)
  BY <1>1 DEF Sound
<1>3. PICK i \in DOMAIN cfg.include :
        Wanted(i, x.stanza, x.revision) /\ LatestDue(i, x.stanza)
  BY <1>2 DEF WantedNow
<1>4. (Wanted(i, x.stanza, x.revision) /\ LatestDue(i, x.stanza))'
  BY <1>3
<1>5. QED
  BY <1>4 DEF WantedNow

\* The steps beside the loop want and owe the same.
LEMMA WantedBeside ==
  ASSUME UNCHANGED <<cfg, pc, at, step, todo, current, fetched>>
  PROVE  /\ \A i, s, r : Wanted(i, s, r)' <=> Wanted(i, s, r)
         /\ \A i, s : LatestDue(i, s)' <=> LatestDue(i, s)
         /\ LateReset' <=> LateReset
         /\ ResetAlready("last")' <=> ResetAlready("last")
         /\ Left' = Left
<1>1. /\ (resetMetricsAfterFetch' <=> resetMetricsAfterFetch)
      /\ \A s : stanzaInExclude(s)' <=> stanzaInExclude(s)
  BY SameCommandLine
<1>2. Left' = Left /\ (LateReset' <=> LateReset) /\ (EarlyReset' <=> EarlyReset)
  BY <1>1 DEF Left, LateReset, EarlyReset
<1>3. \A f : (ResetAlready(f)' <=> ResetAlready(f)) /\ (SetAlready(f)' <=> SetAlready(f))
  BY DEF ResetAlready, SetAlready
<1>4. \A i, s, r : Wanted(i, s, r)' <=> Wanted(i, s, r)
  BY <1>1 DEF Wanted
<1>5. \A i, f, s : Due(i, f, s)' <=> Due(i, f, s)
  BY <1>1, <1>2, <1>3 DEF Due
<1>6. \A i, s : LatestDue(i, s)' <=> LatestDue(i, s)
  BY <1>1, <1>3, <1>5 DEF LatestDue
<1>7. QED
  BY <1>2, <1>3, <1>4, <1>6

\* The call's stanza is wanted and due, whoever sets its series.
LEMMA CallDue ==
  ASSUME CallExact, call # NoCall
  PROVE  /\ at \in DOMAIN cfg.include /\ ~LateReset
         /\ Wanted(at, call.stanza, call.revision) /\ LatestDue(at, call.stanza)
         /\ WantedNow(call.stanza, call.revision)
<1>1. /\ pc = "stanza" /\ at \in DOMAIN cfg.include
      /\ Wanted(at, call.stanza, call.revision) /\ call.stanza \notin Left
  BY DEF CallExact
<1>2. LatestDue(at, call.stanza) /\ ~LateReset
  BY <1>1 DEF LatestDue, Due, InEntry, LateReset
<1>3. QED
  BY <1>1, <1>2 DEF WantedNow

-----------------------------------------------------------------------------
\* A step of the call or of a goroutine: nobody else's labels are lost, nor, but for
\* the stanza of the call, the full backup's count.
LEMMA LatestBeside ==
  ASSUME LatestInv, Base, EachNamedOnce,
         UNCHANGED <<cfg, pc, at, step, todo, current, fetched, clean>>,
         \A s \in Stanza, r \in Revision, type \in Types :
           Covered(s, type, r) /\ (call # NoCall /\ s = call.stanza => r = call.revision)
             => Covered(s, type, r)',
         \A x \in There' : x \in There \/
           (call # NoCall /\ x.stanza = call.stanza /\ x.revision = call.revision),
         call' = NoCall \/
           (call # NoCall /\ call'.stanza = call.stanza /\ call'.revision = call.revision)
  PROVE  LatestInv'
<1>1. /\ \A i, s, r : Wanted(i, s, r)' <=> Wanted(i, s, r)
      /\ \A i, s : LatestDue(i, s)' <=> LatestDue(i, s)
      /\ LateReset' <=> LateReset
      /\ ResetAlready("last")' <=> ResetAlready("last")
      /\ Left' = Left
  BY WantedBeside
<1>2. Complete'
  <2>1. CASE LateReset
    BY <1>1, <2>1 DEF Complete
  <2>2. CASE ~LateReset
    <3>1. ASSUME NEW i \in DOMAIN cfg.include, NEW s \in Stanza, NEW r \in Revision,
                 NEW type \in Types, Wanted(i, s, r), Covered(s, type, r)
          PROVE  Covered(s, type, r)'
      <4>1. ASSUME call # NoCall, s = call.stanza PROVE r = call.revision
        <5>1. at \in DOMAIN cfg.include /\ Wanted(at, s, call.revision)
          BY <4>1 DEF LatestInv, CallExact
        <5>2. i = at
          BY <3>1, <5>1, OwnEntry DEF Base, Wanted
        <5>3. QED
          BY <3>1, <5>1, <5>2 DEF Wanted
      <4>2. QED
        BY <3>1, <4>1
    <3>2. QED
      BY <1>1, <2>2, <3>1, KeepComplete DEF LatestInv
  <2>3. QED
    BY <2>1, <2>2
<1>3. Sound'
  <2>1. SUFFICES ASSUME ~(LateReset' /\ ~ResetAlready("last")'), NEW x \in There',
                        clean' \/ x.type = "full"
                 PROVE  WantedNow(x.stanza, x.revision)'
    BY DEF Sound
  <2>2. WantedNow(x.stanza, x.revision)
    <3>1. CASE x \in There
      BY <1>1, <2>1, <3>1 DEF LatestInv, Sound
    <3>2. CASE call # NoCall /\ x.stanza = call.stanza /\ x.revision = call.revision
      BY <3>2, CallDue DEF LatestInv
    <3>3. QED
      BY <2>1, <3>1, <3>2
  <2>3. PICK i \in DOMAIN cfg.include :
          Wanted(i, x.stanza, x.revision) /\ LatestDue(i, x.stanza)
    BY <2>2 DEF WantedNow
  <2>4. Wanted(i, x.stanza, x.revision)' /\ LatestDue(i, x.stanza)'
    BY <1>1, <2>3
  <2>5. QED
    BY <2>4 DEF WantedNow
<1>4. CallExact'
  <2>1. ASSUME call' # NoCall
        PROVE  /\ pc = "stanza" /\ at \in DOMAIN cfg.include
               /\ Wanted(at, call'.stanza, call'.revision) /\ call'.stanza \notin Left
    BY <2>1 DEF LatestInv, CallExact
  <2>2. \A s : stanzaInExclude(s)' <=> stanzaInExclude(s)
    BY SameCommandLine
  <2>3. ASSUME call' # NoCall
        PROVE  Wanted(at, call.stanza, call.revision)'
    BY <2>1, <2>2, <2>3 DEF Wanted
  <2>4. QED
    BY <1>1, <2>1, <2>3 DEF CallExact
<1>5. QED
  BY <1>2, <1>3, <1>4 DEF LatestInv

LEMMA LatestInSpawn ==
  ASSUME LatestInv, Base, EachNamedOnce, CallTyped, WorkersTyped, NEW type, NEW then,
         InOrder(type, then), Spawn(type, then)
  PROVE  LatestInv'
<1>1. /\ call # NoCall /\ call.at = type /\ call'.at = then
      /\ call' # NoCall /\ call'.stanza = call.stanza /\ call'.revision = call.revision
      /\ UNCHANGED <<vars, process, currentUnixTime, lastDatabases, clean, newest>>
      /\ \/ worker' = worker /\ type \notin Own(call.stanza, call.revision)
         \/ \E w \in Workers :
              /\ worker[w] = Idle
              /\ worker' = [worker EXCEPT ![w] =
                              LatestSeries(call.stanza, type, call.revision)]
  BY SpawnFacts
<1>2. UNCHANGED <<cfg, pc, at, step, todo, current, fetched, clean, lastDatabases>>
  BY <1>1 DEF vars
\* Every type but this one is as much to set as before.
<1>3. ASSUME NEW t \in Types, t # type \/ type \notin Own(call.stanza, call.revision),
             StillToSet(t)
      PROVE  StillToSet(t)'
  BY <1>1, <1>3 DEF StillToSet, InOrder, Types, Own
<1>4. CASE worker' = worker /\ type \notin Own(call.stanza, call.revision)
  <2>1. ASSUME NEW s \in Stanza, NEW r \in Revision, NEW t \in Types, Covered(s, t, r)
        PROVE  Covered(s, t, r)'
    BY <1>1, <1>2, <1>3, <1>4, <2>1 DEF Covered
  <2>2. There' = There
    BY <1>2, <1>4 DEF There
  <2>3. QED
    BY <1>1, <1>2, <2>1, <2>2, LatestBeside
<1>5. CASE \E w \in Workers :
             /\ worker[w] = Idle
             /\ worker' = [worker EXCEPT ![w] =
                             LatestSeries(call.stanza, type, call.revision)]
  <2>1. PICK w \in Workers :
          /\ worker[w] = Idle
          /\ worker' = [worker EXCEPT ![w] = LatestSeries(call.stanza, type, call.revision)]
    BY <1>5
  <2>2. /\ DOMAIN worker = Workers
        /\ worker'[w] = LatestSeries(call.stanza, type, call.revision)
        /\ \A v \in Workers : v # w => worker'[v] = worker[v]
    BY <2>1 DEF WorkersTyped
  <2>3. \A s \in Stanza, r \in Revision, t \in Types : LatestSeries(s, t, r) # Idle
    BY LateFacts
  <2>4. ASSUME NEW s \in Stanza, NEW r \in Revision, NEW t \in Types, Covered(s, t, r)
        PROVE  Covered(s, t, r)'
    <3>1. CASE \/ LatestSeries(s, t, r) \in lastDatabases
               \/ /\ t # "full"
                  /\ \E y \in lastDatabases : LabelsOf(y) = LabelsOf(LatestSeries(s, t, r))
      BY <1>2, <3>1 DEF Covered
    <3>2. CASE \E v \in Workers : worker[v] = LatestSeries(s, t, r)
      <4>1. PICK v \in Workers : worker[v] = LatestSeries(s, t, r)
        BY <3>2
      <4>2. v # w
        BY <2>1, <2>3, <4>1
      <4>3. worker'[v] = LatestSeries(s, t, r)
        BY <2>2, <4>1, <4>2
      <4>4. QED
        BY <4>3 DEF Covered
    <3>3. CASE call.stanza = s /\ call.revision = r /\ StillToSet(t)
      <4>1. CASE t = type
        <5>1. worker'[w] = LatestSeries(s, t, r)
          BY <2>2, <3>3, <4>1
        <5>2. QED
          BY <5>1 DEF Covered
      <4>2. CASE t # type
        BY <1>1, <1>3, <3>3, <4>2 DEF Covered
      <4>3. QED
        BY <4>1, <4>2
    <3>4. QED
      BY <2>4, <3>1, <3>2, <3>3 DEF Covered
  <2>5. ASSUME NEW x \in There'
        PROVE  x \in There \/ (x.stanza = call.stanza /\ x.revision = call.revision)
    <3>1. CASE x \in lastDatabases'
      BY <1>2, <3>1 DEF There
    <3>2. CASE x \notin lastDatabases'
      <4>1. PICK v \in Workers : worker'[v] = x /\ x # Idle
        BY <2>5, <3>2 DEF There
      <4>2. CASE v = w
        BY <2>2, <4>1, <4>2, LateFacts
      <4>3. CASE v # w
        BY <2>2, <4>1, <4>3 DEF There
      <4>4. QED
        BY <4>2, <4>3
    <3>3. QED
      BY <3>1, <3>2
  <2>6. QED
    BY <1>1, <1>2, <2>4, <2>5, LatestBeside
<1>6. QED
  BY <1>1, <1>4, <1>5

LEMMA LatestInSetLatest ==
  ASSUME LatestInv, Base, EachNamedOnce, CallTyped, SetLatest
  PROVE  LatestInv'
<1> DEFINE new == {LatestSeries(call.stanza, type, call.revision) :
                   type \in Types \ Own(call.stanza, call.revision)}
<1>1. /\ call # NoCall /\ call.at = "full" /\ call' = NoCall
      /\ lastDatabases' = Stored(new)
      /\ UNCHANGED <<vars, worker, clean>>
  BY ProcessFacts DEF SetLatest
<1>2. UNCHANGED <<cfg, pc, at, step, todo, current, fetched>>
  BY <1>1 DEF vars
<1>3. /\ \A type \in Types \ Own(call.stanza, call.revision) :
           LatestSeries(call.stanza, type, call.revision) \in new
      /\ \A x \in new : /\ x.stanza = call.stanza /\ x.revision = call.revision
                        /\ x = LatestSeries(call.stanza, x.type, call.revision)
  <2>1. ASSUME NEW x \in new
        PROVE  /\ x.stanza = call.stanza /\ x.revision = call.revision
               /\ x = LatestSeries(call.stanza, x.type, call.revision)
    BY LateFacts
  <2>2. QED
    BY <2>1
<1> HIDE DEF new
<1>4. /\ new \subseteq lastDatabases'
      /\ \A x \in lastDatabases' : x \in lastDatabases \/ x \in new
      /\ \A x \in lastDatabases : x \in lastDatabases' \/
           \E y \in new : LabelsOf(y) = LabelsOf(x)
      /\ \A x \in lastDatabases : \E y \in lastDatabases' : LabelsOf(y) = LabelsOf(x)
  BY <1>1, StoredFacts
<1>5. ASSUME NEW s \in Stanza, NEW r \in Revision, NEW t \in Types, Covered(s, t, r),
             s = call.stanza => r = call.revision
      PROVE  Covered(s, t, r)'
  <2>1. CASE LatestSeries(s, t, r) \in lastDatabases
    <3>1. CASE LatestSeries(s, t, r) \in lastDatabases'
      BY <3>1 DEF Covered
    <3>2. ASSUME NEW y \in new, LabelsOf(y) = LabelsOf(LatestSeries(s, t, r))
          PROVE  y = LatestSeries(s, t, r)
      <4>1. y.stanza = s /\ y.type = t
        BY <3>2, SameLabels, LateFacts
      <4>2. QED
        BY <1>3, <1>5, <4>1
    <3>3. QED
      BY <1>4, <2>1, <3>1, <3>2
  <2>2. CASE /\ t # "full"
             /\ \E y \in lastDatabases : LabelsOf(y) = LabelsOf(LatestSeries(s, t, r))
    <3>1. PICK y \in lastDatabases : LabelsOf(y) = LabelsOf(LatestSeries(s, t, r))
      BY <2>2
    <3>2. PICK z \in lastDatabases' : LabelsOf(z) = LabelsOf(y)
      BY <1>4
    <3>3. QED
      BY <2>2, <3>1, <3>2 DEF Covered
  <2>3. CASE \E v \in Workers : worker[v] = LatestSeries(s, t, r)
    BY <1>1, <2>3 DEF Covered
  <2>4. CASE call.stanza = s /\ call.revision = r /\ StillToSet(t)
    <3>1. t \in Types \ Own(call.stanza, call.revision)
      BY <1>1, <2>4 DEF StillToSet
    <3>2. LatestSeries(s, t, r) \in lastDatabases'
      BY <1>3, <1>4, <2>4, <3>1
    <3>3. QED
      BY <3>2 DEF Covered
  <2>5. QED
    BY <1>5, <2>1, <2>2, <2>3, <2>4 DEF Covered
<1>6. ASSUME NEW x \in There'
      PROVE  x \in There \/ (x.stanza = call.stanza /\ x.revision = call.revision)
  <2>1. CASE x \in lastDatabases'
    BY <1>3, <1>4, <2>1 DEF There
  <2>2. CASE x \notin lastDatabases'
    BY <1>1, <1>6, <2>2 DEF There
  <2>3. QED
    BY <2>1, <2>2
<1>7. QED
  BY <1>1, <1>2, <1>5, <1>6, LatestBeside

LEMMA LatestInWorker ==
  ASSUME LatestInv, Base, EachNamedOnce, WorkersTyped, NEW w \in Workers, WorkerSets(w)
  PROVE  LatestInv'
<1>1. /\ worker[w] # Idle /\ lastDatabases' = Stored({worker[w]})
      /\ worker' = [worker EXCEPT ![w] = Idle]
      /\ UNCHANGED <<vars, call, clean>>
  BY DEF WorkerSets
<1>2. UNCHANGED <<cfg, pc, at, step, todo, current, fetched>>
  BY <1>1 DEF vars
<1>3. /\ worker'[w] = Idle /\ \A v \in Workers : v # w => worker'[v] = worker[v]
      /\ worker[w].type # "full"
  BY <1>1 DEF WorkersTyped
<1>4. /\ worker[w] \in lastDatabases'
      /\ \A x \in lastDatabases' : x \in lastDatabases \/ x = worker[w]
      /\ \A x \in lastDatabases : x \in lastDatabases' \/ LabelsOf(worker[w]) = LabelsOf(x)
  BY <1>1, StoredFacts
<1>5. ASSUME NEW s \in Stanza, NEW r \in Revision, NEW t \in Types, Covered(s, t, r)
      PROVE  Covered(s, t, r)'
  <2>1. CASE LatestSeries(s, t, r) \in lastDatabases
    <3>1. CASE LatestSeries(s, t, r) \in lastDatabases'
      BY <3>1 DEF Covered
    <3>2. CASE LabelsOf(worker[w]) = LabelsOf(LatestSeries(s, t, r))
      <4>1. t # "full"
        BY <1>3, <3>2, SameLabels, LateFacts
      <4>2. QED
        BY <1>4, <3>2, <4>1 DEF Covered
    <3>3. QED
      BY <1>4, <2>1, <3>1, <3>2
  <2>2. CASE /\ t # "full"
             /\ \E y \in lastDatabases : LabelsOf(y) = LabelsOf(LatestSeries(s, t, r))
    <3>1. PICK y \in lastDatabases : LabelsOf(y) = LabelsOf(LatestSeries(s, t, r))
      BY <2>2
    <3>2. PICK z \in lastDatabases' : LabelsOf(z) = LabelsOf(y)
      BY <1>4
    <3>3. QED
      BY <2>2, <3>1, <3>2 DEF Covered
  <2>3. CASE \E v \in Workers : worker[v] = LatestSeries(s, t, r)
    <3>1. PICK v \in Workers : worker[v] = LatestSeries(s, t, r)
      BY <2>3
    <3>2. LatestSeries(s, t, r) \in lastDatabases' \/ worker'[v] = LatestSeries(s, t, r)
      BY <1>3, <1>4, <3>1
    <3>3. QED
      BY <3>2 DEF Covered
  <2>4. CASE call # NoCall /\ call.stanza = s /\ call.revision = r /\ StillToSet(t)
    BY <1>1, <2>4 DEF Covered, StillToSet
  <2>5. QED
    BY <1>5, <2>1, <2>2, <2>3, <2>4 DEF Covered
<1>6. \A x \in There' : x \in There
  <2>1. SUFFICES ASSUME NEW x \in There' PROVE x \in There
    OBVIOUS
  <2>2. CASE x \in lastDatabases'
    BY <1>1, <1>4, <2>2 DEF There
  <2>3. CASE x \notin lastDatabases'
    <3>1. PICK v \in Workers : worker'[v] = x /\ x # Idle
      BY <2>1, <2>3 DEF There
    <3>2. worker[v] = x
      BY <1>3, <3>1
    <3>3. QED
      BY <3>1, <3>2 DEF There
  <2>4. QED
    BY <2>2, <2>3
<1>7. call' = NoCall \/
        (call # NoCall /\ call'.stanza = call.stanza /\ call'.revision = call.revision)
  BY <1>1
<1>8. QED
  BY <1>1, <1>2, <1>5, <1>6, <1>7, LatestBeside

\* Steps of the web server, of the repository and of the service manager.
LEMMA LatestElsewhere ==
  ASSUME LatestInv, UNCHANGED <<cfg, pc, at, step, todo, current, fetched, call, worker,
                                lastDatabases, clean>>
  PROVE  LatestInv'
<1>1. /\ \A i, s, r : Wanted(i, s, r)' <=> Wanted(i, s, r)
      /\ \A i, s : LatestDue(i, s)' <=> LatestDue(i, s)
      /\ LateReset' <=> LateReset
      /\ ResetAlready("last")' <=> ResetAlready("last")
      /\ Left' = Left
  BY WantedBeside
<1>2. \A s, t, r : Covered(s, t, r)' <=> Covered(s, t, r)
  BY CoveredUnchanged
<1>3. There' = There
  BY DEF There
<1>4. \A s, r : WantedNow(s, r)' <=> WantedNow(s, r)
  BY <1>1 DEF WantedNow
<1>5. Complete'
  BY <1>1, <1>2 DEF LatestInv, Complete
<1>6. Sound'
  BY <1>1, <1>3, <1>4 DEF LatestInv, Sound
<1>7. \A s : stanzaInExclude(s)' <=> stanzaInExclude(s)
  BY SameCommandLine
<1>8. CallExact'
  BY <1>1, <1>7 DEF LatestInv, CallExact, Wanted
<1>9. QED
  BY <1>5, <1>6, <1>8 DEF LatestInv

LEMMA LatestInExit ==
  ASSUME Exit
  PROVE  LatestInv'
<1>1. /\ cfg' = cfg /\ \A i \in DOMAIN cfg.include : DOMAIN fetched'[i].reports = {}
  BY RestartFacts DEF Exit
<1>2. ASSUME NEW i \in DOMAIN cfg.include, NEW s, NEW r PROVE ~Wanted(i, s, r)'
  BY <1>1 DEF Wanted
<1>3. Complete'
  BY <1>1, <1>2 DEF Complete
<1>4. There' = {}
  BY DEF Exit, There
<1>5. Sound'
  BY <1>4 DEF Sound
<1>6. CallExact'
  BY DEF Exit, CallExact, NoCall
<1>7. QED
  BY <1>3, <1>5, <1>6 DEF LatestInv

-----------------------------------------------------------------------------
\* The main loop's own steps.
LEMMA MainFacts ==
  ASSUME Base, MainStep
  PROVE  /\ [Next]_vars /\ ~Restart /\ cfg' = cfg
         /\ (resetMetricsAfterFetch' <=> resetMetricsAfterFetch)
         /\ call = NoCall /\ UNCHANGED worker
<1>1. Collect /\ call = NoCall /\ UNCHANGED worker
  BY DEF MainStep
<1>2. [Next]_vars
  BY <1>1 DEF Next
<1>3. ~Restart
  <2>1. budget \in [changes: 0..MaxRevision, failures: 0..MaxFailures, restarts: 0..MaxRestarts]
    BY DEF Base, TypeOK
  <2>2. UNCHANGED budget \/ Fail
    BY <1>1 DEF Collect, ResetVersion, GetVersion, StartCycle, Reset, NextEntry, Info,
                GetStatus, SetStatus, NextStanza, SetFamilies, Wake, Work
  <2>3. budget'.restarts = budget.restarts
    BY <2>1, <2>2 DEF Fail
  <2>4. Restart => budget'.restarts = budget.restarts - 1
    BY <2>1 DEF Restart
  <2>5. budget.restarts \in Int
    BY <2>1, BoundsAssumption
  <2>6. QED
    BY <2>3, <2>4, <2>5
<1>4. QED
  BY <1>1, <1>2, <1>3, CommandLineStep, SameCommandLine

\* Only the reset of the last backups touches what is there, and leaves at most
\* series of goroutines.
LEMMA ThereInMain ==
  ASSUME Base, WorkersTyped, MainStep
  PROVE  /\ ~(pc = "reset" /\ step = 4) => UNCHANGED <<lastDatabases, clean>> /\ There' = There
         /\ pc = "reset" /\ step = 4 =>
              \A x \in There' : ~(clean' \/ x.type = "full")
         /\ There' \subseteq There
<1>1. step \in 1..6
  BY IncludeTyped DEF Base
<1>2. ResetOrder[step] = "last" <=> step = 4
  BY <1>1, LastIsFourth
<1>3. ResetLatest /\ UNCHANGED worker
  BY DEF MainStep
<1>4. CASE pc = "reset" /\ step = 4
  <2>1. lastDatabases' = {} /\ clean' = AllIdle
    BY <1>2, <1>3, <1>4 DEF ResetLatest
  <2>2. There' \subseteq There
    BY <1>3, <2>1 DEF There
  <2>3. ASSUME NEW x \in There' PROVE ~(clean' \/ x.type = "full")
    <3>1. PICK w \in Workers : worker[w] = x /\ x # Idle
      BY <1>3, <2>1, <2>3 DEF There
    <3>2. QED
      BY <2>1, <3>1 DEF WorkersTyped, AllIdle
  <2>4. QED
    BY <1>4, <2>2, <2>3
<1>5. CASE ~(pc = "reset" /\ step = 4)
  <2>1. UNCHANGED <<lastDatabases, clean>>
    BY <1>2, <1>3, <1>5 DEF ResetLatest
  <2>2. There' = There
    BY <1>3, <2>1 DEF There
  <2>3. QED
    BY <1>5, <2>1, <2>2
<1>6. QED
  BY <1>4, <1>5

LEMMA LatestInReset ==
  ASSUME LatestInv, Base, Base', WorkersTyped, Loop, ResetSoFar, EachNamedOnce, MainStep,
         Reset
  PROVE  LatestInv'
<1>1. /\ ~Restart /\ cfg' = cfg
      /\ (resetMetricsAfterFetch' <=> resetMetricsAfterFetch)
      /\ call = NoCall /\ UNCHANGED worker
  BY MainFacts
<1>2. /\ pc = "reset" /\ UNCHANGED <<at, todo, current, fetched>>
      /\ IF step < 6 THEN step' = step + 1 /\ pc' = "reset"
                     ELSE step' = 1 /\ pc' # "reset"
  BY OrdersTyped DEF Reset
<1>3. step \in 1..6 /\ step' \in 1..6
  BY IncludeTyped, OrdersTyped DEF Base, TypeOK
<1>4. (ResetAlready("last") <=> step > 4) /\ (ResetAlready("last")' <=> step' > 4)
  BY <1>3, LastIsFourth DEF ResetAlready
<1>5. call' = NoCall
  BY <1>2 DEF MainStep, CallLatest
<1>6. CallExact'
  BY <1>5 DEF CallExact
<1>7. \A i \in DOMAIN cfg.include : \A s, r : Wanted(i, s, r)' <=> Wanted(i, s, r)
  BY <1>1, <1>2, WantedKept
<1>8. \A i, s : LatestDue(i, s) <=> ~resetMetricsAfterFetch /\ step <= 4
  BY <1>2, <1>3, <1>4 DEF LatestDue
<1>9. CASE step < 6
  <2>1. pc' = "reset" /\ step' = step + 1
    BY <1>2, <1>9
  <2>2. \A i, s : LatestDue(i, s)' <=> ~resetMetricsAfterFetch /\ step < 4
    BY <1>1, <1>3, <1>4, <2>1 DEF LatestDue
  <2>3. (LateReset <=> resetMetricsAfterFetch) /\ (LateReset' <=> resetMetricsAfterFetch)
    BY <1>1, <1>2, <2>1 DEF LateReset
  <2>4. CASE step = 4
    <3>1. Complete'
      BY <2>2, <2>4 DEF Complete
    <3>2. \A x \in There' : ~(clean' \/ x.type = "full")
      BY <1>2, <2>4, ThereInMain
    <3>3. Sound'
      BY <3>2 DEF Sound
    <3>4. QED
      BY <1>6, <3>1, <3>3 DEF LatestInv
  <2>5. CASE step # 4
    <3>1. UNCHANGED <<lastDatabases, clean>> /\ There' = There
      BY <2>5, ThereInMain
    <3>2. \A i, s : LatestDue(i, s)' <=> LatestDue(i, s)
      BY <1>3, <1>8, <2>2, <2>5
    <3>3. \A s, t, r : Covered(s, t, r)' <=> Covered(s, t, r)
      BY <1>1, <1>5, <3>1, CoveredUnchanged
    <3>4. Complete'
      <4>1. CASE LateReset
        BY <2>3, <4>1 DEF Complete
      <4>2. CASE ~LateReset
        BY <1>1, <1>7, <3>2, <3>3, <4>2, KeepComplete DEF LatestInv
      <4>3. QED
        BY <4>1, <4>2
    <3>5. Sound'
      <4>1. CASE LateReset /\ ~ResetAlready("last")
        <5>1. LateReset' /\ ~ResetAlready("last")'
          BY <1>3, <1>4, <2>1, <2>3, <2>5, <4>1
        <5>2. QED
          BY <5>1 DEF Sound
      <4>2. CASE ~(LateReset /\ ~ResetAlready("last"))
        BY <1>1, <1>7, <3>1, <3>2, <4>2, KeepSound DEF LatestInv
      <4>3. QED
        BY <4>1, <4>2
    <3>6. QED
      BY <1>6, <3>4, <3>5 DEF LatestInv
  <2>6. QED
    BY <2>4, <2>5
<1>10. CASE ~(step < 6)
  <2>1. step = 6 /\ pc' # "reset"
    BY <1>2, <1>3, <1>10
  <2>2. ASSUME NEW i \in DOMAIN cfg.include, NEW s, NEW r, Wanted(i, s, r)'
        PROVE  ~LatestDue(i, s)'
    <3>1. s \in DOMAIN fetched[i].reports
      BY <1>7, <2>2 DEF Wanted
    <3>2. ~Due(i, "databases", s)'
      BY <2>1, <3>1, NothingDueAfterReset
    <3>3. QED
      BY <2>1, <3>2 DEF LatestDue
  <2>3. Complete'
    BY <1>1, <2>2 DEF Complete
  <2>4. UNCHANGED clean /\ There' = There
    BY <2>1, ThereInMain
  <2>5. \A x \in There : ~(clean \/ x.type = "full")
    <3>1. ResetAlready("last")
      BY <1>4, <2>1
    <3>2. \A s, r : ~WantedNow(s, r)
      BY <1>8, <2>1 DEF WantedNow
    <3>3. QED
      BY <3>1, <3>2 DEF LatestInv, Sound
  <2>6. Sound'
    BY <2>4, <2>5 DEF Sound
  <2>7. QED
    BY <1>6, <2>3, <2>6 DEF LatestInv
<1>11. QED
  BY <1>9, <1>10

\* A step that neither resets nor adds nor drops what is wanted.
LEMMA LatestStands ==
  ASSUME LatestInv, ~LateReset, Base, WorkersTyped, MainStep, pc # "reset", call' = NoCall,
         \A i \in DOMAIN cfg.include : \A s, r :
           (Wanted(i, s, r) /\ LatestDue(i, s))' <=> Wanted(i, s, r) /\ LatestDue(i, s)
  PROVE  LatestInv'
<1>1. call = NoCall /\ UNCHANGED worker /\ cfg' = cfg
  BY MainFacts
<1>2. UNCHANGED <<lastDatabases, clean>> /\ There' = There
  BY ThereInMain
<1>3. CallExact'
  BY DEF CallExact
<1>4. \A s, t, r : Covered(s, t, r)' <=> Covered(s, t, r)
  BY <1>1, <1>2, CoveredUnchanged
<1>5. Complete'
  BY <1>1, <1>4, KeepComplete DEF LatestInv
<1>6. Sound'
  BY <1>1, <1>2, KeepSound DEF LatestInv
<1>7. QED
  BY <1>3, <1>5, <1>6 DEF LatestInv

LEMMA LatestInStart ==
  ASSUME LatestInv, Base, WorkersTyped, Loop, MainStep, StartCycle
  PROVE  LatestInv'
<1>1. cfg' = cfg /\ (resetMetricsAfterFetch' <=> resetMetricsAfterFetch)
  BY MainFacts
<1>2. /\ pc = "start" /\ step' = 1 /\ UNCHANGED fetched
      /\ pc' = IF resetMetricsAfterFetch THEN "include" ELSE "reset"
  BY DEF StartCycle
<1>3. ~LateReset /\ call' = NoCall
  BY <1>2 DEF LateReset, MainStep, CallLatest
<1>4. \A i, s : LatestDue(i, s)
  BY <1>2 DEF LatestDue, Due, BetweenCycles
<1>5. \A i, s : LatestDue(i, s)'
  <2>1. CASE resetMetricsAfterFetch
    BY <1>1, <1>2, <2>1 DEF LatestDue, Due
  <2>2. CASE ~resetMetricsAfterFetch
    <3>1. ~ResetAlready("last")'
      BY <1>2 DEF ResetAlready
    <3>2. QED
      BY <1>1, <1>2, <2>2, <3>1 DEF LatestDue
  <2>3. QED
    BY <2>1, <2>2
<1>6. \A i \in DOMAIN cfg.include : \A s, r : Wanted(i, s, r)' <=> Wanted(i, s, r)
  BY <1>1, <1>2, WantedKept
<1>7. QED
  BY <1>2, <1>3, <1>4, <1>5, <1>6, LatestStands

LEMMA LatestInInfo ==
  ASSUME LatestInv, Base, WorkersTyped, Loop, MainStep, Info
  PROVE  LatestInv'
<1>1. cfg' = cfg /\ (resetMetricsAfterFetch' <=> resetMetricsAfterFetch)
  BY MainFacts
<1>2. /\ pc = "info exec" /\ UNCHANGED step
      /\ pc' = IF resetMetricsAfterFetch THEN "reset" ELSE "get status"
  BY InfoFacts
<1>3. ~LateReset /\ call' = NoCall
  BY <1>2 DEF LateReset, MainStep, CallLatest
<1>4. CASE resetMetricsAfterFetch
  <2>1. step' = 1
    BY <1>2 DEF Loop, Places
  <2>2. LateReset' /\ ~ResetAlready("last")'
    <3>1. LateReset'
      BY <1>1, <1>2, <1>4 DEF LateReset
    <3>2. ~ResetAlready("last")'
      BY <2>1 DEF ResetAlready
    <3>3. QED
      BY <3>1, <3>2
  <2>3. CallExact'
    BY <1>3 DEF CallExact
  <2>4. QED
    BY <2>2, <2>3 DEF LatestInv, Complete, Sound
<1>5. CASE ~resetMetricsAfterFetch
  <2>1. pc' # "reset" /\ pc # "reset"
    BY <1>2, <1>5
  <2>2. \A i, s : /\ LatestDue(i, s) <=> Due(i, "databases", s)
                  /\ LatestDue(i, s)' <=> Due(i, "databases", s)'
    BY <2>1 DEF LatestDue
  <2>3. ASSUME NEW i \in DOMAIN cfg.include, NEW s, NEW r
        PROVE  (Wanted(i, s, r) /\ LatestDue(i, s))' <=> Wanted(i, s, r) /\ LatestDue(i, s)
    <3>1. /\ Due(i, "databases", s) <=> i < at
          /\ s \in DOMAIN fetched'[i].reports => (Due(i, "databases", s)' <=> i < at)
          /\ i < at => fetched'[i] = fetched[i]
      BY <1>5, DueInInfo
    <3>2. i < at => (Wanted(i, s, r)' <=> Wanted(i, s, r))
      BY <1>1, <3>1, WantedKept
    <3>3. Wanted(i, s, r)' => s \in DOMAIN fetched'[i].reports
      BY DEF Wanted
    <3>4. QED
      BY <2>2, <3>1, <3>2, <3>3
  <2>4. QED
    BY <1>3, <2>1, <2>3, LatestStands
<1>6. QED
  BY <1>4, <1>5

\* The last function for a stanza leaves the call for its last backups behind.
LEMMA LatestInFamilies ==
  ASSUME LatestInv, Base, WorkersTyped, Loop, IInv, EachNamedOnce, MainStep, SetFamilies
  PROVE  LatestInv'
<1>1. /\ cfg' = cfg /\ (resetMetricsAfterFetch' <=> resetMetricsAfterFetch)
      /\ call = NoCall /\ UNCHANGED worker
  BY MainFacts
<1>2. /\ pc = "families" /\ UNCHANGED <<at, todo, fetched>>
      /\ pc' \in {"families", "stanza"} /\ step \in 1..6
  BY IncludeTyped DEF Base, SetFamilies
<1>3. ~LateReset /\ pc # "reset" /\ pc' # "reset"
  BY <1>2 DEF LateReset
<1>4. \A i \in DOMAIN cfg.include : \A s, r : Wanted(i, s, r)' <=> Wanted(i, s, r)
  BY <1>1, <1>2, WantedKept
<1>5. \A i \in DOMAIN cfg.include : \A s :
        /\ LatestDue(i, s) <=> Due(i, "databases", s)
        /\ LatestDue(i, s)' <=> LatestDue(i, s) \/ (i = at /\ step = 6 /\ s = current)
  <2>1. SetOrder[step] = "databases" <=> step = 6
    BY <1>2, DatabasesAreSixth
  <2>2. \A i \in DOMAIN cfg.include : \A s : Due(i, "databases", s)' <=>
          Due(i, "databases", s) \/ (i = at /\ "databases" = SetOrder[step] /\ s = current)
    BY DatabasesAreSixth, DueInSetFamilies
  <2>3. QED
    BY <1>3, <2>1, <2>2 DEF LatestDue
<1>6. UNCHANGED <<lastDatabases, clean>> /\ There' = There
  BY <1>3, ThereInMain
<1>7. Sound'
  BY <1>1, <1>3, <1>4, <1>5, <1>6, KeepSound DEF LatestInv
<1>8. at \in DOMAIN cfg.include /\ current \in DOMAIN fetched[at].reports
  BY <1>2 DEF Base, Progress, InEntry
<1>9. CASE call' = NoCall
  <2>1. ASSUME NEW r, Wanted(at, current, r) PROVE step # 6
    BY <1>2, <1>9, <2>1, OrdersTyped DEF Wanted, MainStep, CallLatest, NoCall
  <2>2. ASSUME NEW i \in DOMAIN cfg.include, NEW s, NEW r
        PROVE  (Wanted(i, s, r) /\ LatestDue(i, s))' <=> Wanted(i, s, r) /\ LatestDue(i, s)
    BY <1>4, <1>5, <2>1
  <2>3. QED
    BY <1>3, <1>9, <2>2, LatestStands
<1>10. CASE call' # NoCall
  <2>1. /\ step = 6 /\ pc' = "stanza" /\ cfg.backupDBCountLatest
        /\ ~stanzaInExclude(current)
        /\ fetched[at].reports[current].backups = "full"
        /\ call' = [at |-> "diff", stanza |-> current,
                    revision |-> fetched[at].reports[current].revision]
    BY <1>10, CallFacts
  <2>2. /\ call'.stanza = current /\ call'.at = "diff"
        /\ call'.revision = fetched[at].reports[current].revision
    BY <2>1
  <2>3. Wanted(at, current, fetched[at].reports[current].revision)
    BY <1>8, <2>1 DEF Wanted
  <2>4. current \notin Left /\ Left' = Left
    BY <1>2 DEF Loop, TodoExact, Left
  <2>5. CallExact'
    <3>1. \A s : stanzaInExclude(s)' <=> stanzaInExclude(s)
      BY <1>1, SameCommandLine
    <3>2. Wanted(at, call.stanza, call.revision)'
      BY <1>1, <1>2, <1>8, <2>1, <2>2, <3>1 DEF Wanted
    <3>3. QED
      BY <1>1, <1>2, <1>8, <2>1, <2>2, <2>4, <3>2 DEF CallExact
  <2>6. ASSUME NEW i \in DOMAIN cfg.include, NEW s \in Stanza, NEW r \in Revision,
               NEW type \in Types, (Wanted(i, s, r) /\ LatestDue(i, s))'
        PROVE  Covered(s, type, r)'
    <3>1. Wanted(i, s, r)
      BY <1>4, <2>6
    <3>2. CASE LatestDue(i, s)
      <4>1. Covered(s, type, r)
        BY <1>3, <3>1, <3>2 DEF LatestInv, Complete
      <4>2. QED
        BY <1>1, <1>6, <4>1 DEF Covered
    <3>3. CASE i = at /\ s = current
      <4>1. r = fetched[at].reports[current].revision
        BY <3>1, <3>3 DEF Wanted
      <4>2. QED
        BY <1>10, <2>2, <3>3, <4>1 DEF Covered, StillToSet
    <3>4. QED
      BY <1>5, <2>6, <3>2, <3>3
  <2>7. Complete'
    BY <1>1, <2>6 DEF Complete
  <2>8. QED
    BY <1>7, <2>5, <2>7 DEF LatestInv
<1>11. QED
  BY <1>9, <1>10

LEMMA LatestInMain ==
  ASSUME LatestInv, Base, Base', WorkersTyped, IInv, Loop, ResetSoFar, EachNamedOnce, MainStep
  PROVE  LatestInv'
<1>1. CASE Reset
  BY <1>1, LatestInReset
<1>2. CASE StartCycle
  BY <1>2, LatestInStart
<1>3. CASE Info
  BY <1>3, LatestInInfo
<1>4. CASE SetFamilies
  BY <1>4, LatestInFamilies
<1>5. CASE \/ ResetVersion \/ GetVersion \/ NextEntry \/ GetStatus \/ SetStatus
           \/ NextStanza \/ Wake
  <2>1. /\ pc \notin {"reset", "start", "info exec", "families"} /\ pc' # "reset"
        /\ UNCHANGED fetched
    BY <1>5 DEF ResetVersion, GetVersion, NextEntry, GetStatus, SetStatus, NextStanza, Wake
  <2>2. ~Reset /\ ~Info /\ ~SetFamilies /\ ~Restart /\ [Next]_vars /\ cfg' = cfg
    BY <2>1, MainFacts DEF Reset, Info, SetFamilies
  <2>3. ~LateReset /\ call' = NoCall
    BY <2>1 DEF LateReset, MainStep, CallLatest
  <2>4. ASSUME NEW i \in DOMAIN cfg.include, NEW s, NEW r
        PROVE  (Wanted(i, s, r) /\ LatestDue(i, s))' <=> Wanted(i, s, r) /\ LatestDue(i, s)
    <3>1. Wanted(i, s, r)' <=> Wanted(i, s, r)
      BY <2>1, <2>2, WantedKept
    <3>2. ASSUME Wanted(i, s, r) PROVE Due(i, "databases", s)' <=> Due(i, "databases", s)
      BY <2>2, <3>2, DueKept DEF Wanted
    <3>3. /\ LatestDue(i, s) <=> Due(i, "databases", s)
          /\ LatestDue(i, s)' <=> Due(i, "databases", s)'
      BY <2>1 DEF LatestDue
    <3>4. QED
      BY <3>1, <3>2, <3>3
  <2>5. QED
    BY <2>1, <2>3, <2>4, LatestStands
<1>6. QED
  BY <1>1, <1>2, <1>3, <1>4, <1>5 DEF MainStep, Collect

LEMMA LatestStep ==
  ASSUME PInv, EInv, LatestInv, [ExporterNext]_allVars
  PROVE  LatestInv'
<1>1. Base /\ IInv /\ Loop /\ ResetSoFar /\ EachNamedOnce
  BY DEF PInv, LInv, IInv, Base
<1>2. CallTyped /\ WorkersTyped
  BY DEF EInv
<1>3. CASE MainStep
  <2>1. Base'
    BY <1>1, ExporterStepIsStep, TypeStep, ProgressStep, RepliedStep DEF Base
  <2>2. QED
    BY <1>1, <1>2, <1>3, <2>1, LatestInMain
<1>4. ASSUME NEW type, NEW then, InOrder(type, then), Spawn(type, then)
      PROVE  LatestInv'
  BY <1>1, <1>2, <1>4, LatestInSpawn
<1>5. CASE SetLatest
  BY <1>1, <1>2, <1>5, LatestInSetLatest
<1>6. ASSUME NEW w \in Workers, WorkerSets(w) PROVE LatestInv'
  BY <1>1, <1>2, <1>6, LatestInWorker
<1>7. CASE Exit
  BY <1>7, LatestInExit
<1>8. CASE \/ Start \/ Listen \/ RepositoryChanges
           \/ \E vector \in Vectors : Scrape(vector)
           \/ UNCHANGED allVars
  <2>1. UNCHANGED <<cfg, pc, at, step, todo, current, fetched, call, worker,
                    lastDatabases, clean>>
    BY <1>8 DEF Start, Listen, RepositoryChanges, Change, Scrape, allVars, vars, beside
  <2>2. QED
    BY <2>1, LatestElsewhere
<1>9. InOrder("diff", "incr") /\ InOrder("incr", "full")
  BY DEF InOrder
<1>10. QED
  BY <1>3, <1>4, <1>5, <1>6, <1>7, <1>8, <1>9
     DEF ExporterNext, MainGoroutine, getBackupLastDBCountMetrics

LEMMA LatestInitially ==
  ASSUME StartedUp
  PROVE  LatestInv
<1>1. \A i \in DOMAIN cfg.include : DOMAIN fetched[i].reports = {}
  <2>1. fetched = NoFetches
    BY DEF StartedUp, Init
  <2>2. DOMAIN << >> = {}
    OBVIOUS
  <2>3. \A i \in DOMAIN cfg.include : fetched[i] = [result |-> "none", reports |-> << >>]
    BY <2>1 DEF NoFetches
  <2>4. QED
    BY <2>2, <2>3
<1>2. Complete
  BY <1>1 DEF Complete, Wanted
<1>3. There = {}
  BY DEF StartedUp, There
<1>4. CallExact
  BY DEF StartedUp, CallExact
<1>5. QED
  BY <1>2, <1>3, <1>4 DEF LatestInv, Sound

\* The set of the property is that of what is wanted.
LEMMA ExpectedIsWanted ==
  ASSUME Base
  PROVE  /\ ExpectedLatest \subseteq LateSeries
         /\ \A x \in LateSeries : x \in ExpectedLatest <=>
              \E i \in DOMAIN cfg.include : Wanted(i, x.stanza, x.revision)
<1> DEFINE Of(i, s) == {LatestSeries(s, type, fetched[i].reports[s].revision) : type \in Types}
           OfEntry(i) == UNION {Of(i, s) : s \in WithLatest(i)}
<1>1. ExpectedLatest = UNION {OfEntry(i) : i \in DOMAIN cfg.include}
  BY DEF ExpectedLatest
<1>2. \A x : x \in ExpectedLatest <=>
        \E i \in DOMAIN cfg.include : \E s \in WithLatest(i) : x \in Of(i, s)
  <2>1. \A i, x : x \in OfEntry(i) <=> \E s \in WithLatest(i) : x \in Of(i, s)
    OBVIOUS
  <2> HIDE DEF OfEntry, Of
  <2>2. \A x : x \in ExpectedLatest <=> \E i \in DOMAIN cfg.include : x \in OfEntry(i)
    BY <1>1
  <2>3. QED
    BY <2>1, <2>2
<1>3. \A i, s, x : x \in Of(i, s) <=>
        \E type \in Types : x = LatestSeries(s, type, fetched[i].reports[s].revision)
  OBVIOUS
<1>4. \A i, s : s \in WithLatest(i) <=> Wanted(i, s, fetched[i].reports[s].revision)
  BY DEF WithLatest, Wanted
<1>5. \A i, s, r : Wanted(i, s, r) => r = fetched[i].reports[s].revision
  BY DEF Wanted
<1>6. ASSUME NEW x \in ExpectedLatest
      PROVE  x \in LateSeries
  <2>1. PICK i \in DOMAIN cfg.include : \E s \in WithLatest(i) : x \in Of(i, s)
    BY <1>2
  <2>2. PICK s \in WithLatest(i) : x \in Of(i, s)
    BY <2>1
  <2>3. s \in Stanza /\ fetched[i].reports[s].revision \in Revision
    BY <1>4, <2>2, WantedTyped
  <2>4. QED
    BY <1>3, <2>2, <2>3, LateFacts
<1>7. ASSUME NEW x \in LateSeries
      PROVE  x \in ExpectedLatest <=>
               \E i \in DOMAIN cfg.include : Wanted(i, x.stanza, x.revision)
  <2>1. \A s, r : (\E type \in Types : x = LatestSeries(s, type, r)) <=>
          x.stanza = s /\ x.revision = r
    BY LateFacts
  <2>2. \A i, s : x \in Of(i, s) <=>
          x.stanza = s /\ x.revision = fetched[i].reports[s].revision
    BY <1>3, <2>1
  <2> HIDE DEF Of
  <2>3. \A i : (\E s \in WithLatest(i) : x \in Of(i, s)) <=> Wanted(i, x.stanza, x.revision)
    BY <1>4, <1>5, <2>2
  <2>4. QED
    BY <1>2, <2>3
<1>8. QED
  BY <1>6, <1>7

LEMMA LatestNow ==
  ASSUME Base, EachNamedOnce, WorkersTyped, LatestInv
  PROVE  LatestNeverMissing
<1>1. SUFFICES ASSUME pc \in BetweenCycles, AllIdle
               PROVE  /\ {LabelsOf(x) : x \in ExpectedLatest}
                           \subseteq {LabelsOf(x) : x \in lastDatabases}
                      /\ \A x \in ExpectedLatest : x.type = "full" => x \in lastDatabases
                      /\ clean => lastDatabases = ExpectedLatest
  BY DEF LatestNeverMissing
<1>2. call = NoCall /\ ~LateReset
  BY <1>1 DEF LatestInv, CallExact, BetweenCycles, LateReset
<1>3. \A i, s : LatestDue(i, s)
  BY <1>1 DEF LatestDue, Due, BetweenCycles
<1>4. ASSUME NEW x \in ExpectedLatest
      PROVE  /\ x.type = "full" => x \in lastDatabases
             /\ \E y \in lastDatabases : LabelsOf(y) = LabelsOf(x)
  <2>1. x \in LateSeries
    BY ExpectedIsWanted
  <2>2. PICK i \in DOMAIN cfg.include : Wanted(i, x.stanza, x.revision)
    BY <2>1, ExpectedIsWanted
  <2>3. /\ x.stanza \in Stanza /\ x.revision \in Revision /\ x.type \in Types
        /\ x = LatestSeries(x.stanza, x.type, x.revision) /\ x # Idle
    BY <2>1, LateFacts
  <2>4. Covered(x.stanza, x.type, x.revision)
    BY <1>2, <1>3, <2>2, <2>3 DEF LatestInv, Complete
  <2>5. \A w \in Workers : worker[w] # x
    BY <1>1, <2>3 DEF AllIdle
  <2>6. QED
    BY <1>2, <2>3, <2>4, <2>5 DEF Covered
<1>5. ASSUME clean, NEW x \in lastDatabases
      PROVE  /\ x \in LateSeries
             /\ \E i \in DOMAIN cfg.include : Wanted(i, x.stanza, x.revision)
  <2>1. x \in LateSeries /\ x \in There
    BY <1>5 DEF WorkersTyped, There
  <2>2. WantedNow(x.stanza, x.revision)
    BY <1>2, <1>5, <2>1 DEF LatestInv, Sound
  <2>3. QED
    BY <2>1, <2>2 DEF WantedNow
<1>6. ASSUME clean, NEW x \in ExpectedLatest PROVE x \in lastDatabases
  <2>1. x \in LateSeries
    BY ExpectedIsWanted
  <2>2. PICK y \in lastDatabases : LabelsOf(y) = LabelsOf(x)
    BY <1>4
  <2>3. y.stanza = x.stanza /\ y.type = x.type
    BY <2>2, SameLabels
  <2>4. PICK i \in DOMAIN cfg.include : Wanted(i, x.stanza, x.revision)
    BY <2>1, ExpectedIsWanted
  <2>5. y \in LateSeries /\ \E j \in DOMAIN cfg.include : Wanted(j, y.stanza, y.revision)
    BY <1>5, <1>6
  <2>6. PICK j \in DOMAIN cfg.include : Wanted(j, y.stanza, y.revision)
    BY <2>5
  <2>7. i = j
    BY <2>3, <2>4, <2>6, OwnEntry DEF Base, Wanted
  <2>8. y.revision = x.revision
    BY <2>3, <2>4, <2>6, <2>7 DEF Wanted
  <2>9. y = x
    BY <2>1, <2>3, <2>5, <2>8, LateFacts
  <2>10. QED
    BY <2>9
<1>7. ASSUME clean, NEW x \in lastDatabases PROVE x \in ExpectedLatest
  BY <1>5, <1>7, ExpectedIsWanted
<1>8. {LabelsOf(x) : x \in ExpectedLatest} \subseteq {LabelsOf(x) : x \in lastDatabases}
  BY <1>4
<1>9. QED
  BY <1>4, <1>6, <1>7, <1>8

-----------------------------------------------------------------------------
\* Scrapes have read nothing newer than what can be read, goroutines of earlier
\* cycles aside, and that is nothing newer than the repository.  Such a goroutine's
\* series is no newer than any other of its stanza.  A reply in hand is at least
\* as new as what it replaces.
NewestBehind ==
  \A s \in Stanza : newest[s] <= repository[s].revision /\ repository[s].revision <= now
SeriesFresh ==
  /\ \A x \in Seen : x.revision <= repository[x.stanza].revision
  /\ \A x \in Firm : newest[x.stanza] <= x.revision
FirmNewest ==
  \A x \in Firm, y \in Seen : x.stanza = y.stanza => y.revision <= x.revision
RepliesFresh ==
  \A i \in DOMAIN cfg.include : \A s \in DOMAIN fetched[i].reports :
    /\ newest[s] <= fetched[i].reports[s].revision
    /\ fetched[i].reports[s].revision <= repository[s].revision
    /\ \A x \in Seen : x.stanza = s => x.revision <= fetched[i].reports[s].revision

FreshRevisions == NewestBehind /\ SeriesFresh /\ FirmNewest /\ RepliesFresh

LEMMA Numbers ==
  ASSUME Base, WorkersTyped, BesideTyped
  PROVE  /\ \A s \in Stanza : newest[s] \in Int /\ repository[s].revision \in Int
         /\ \A x \in Seen : x.stanza \in Stanza /\ x.revision \in Int
         /\ Firm \subseteq Seen
         /\ \A i \in DOMAIN cfg.include : \A s \in DOMAIN fetched[i].reports :
              s \in Stanza /\ fetched[i].reports[s].revision \in Int
         /\ now \in Int
<1>1. Revision \subseteq Int
  BY BoundsAssumption DEF Revision
<1>2. \A s \in Stanza : newest[s] \in Int /\ repository[s].revision \in Int
  BY <1>1 DEF Base, TypeOK, BesideTyped, Report
<1>3. \A x \in Seen : x.stanza \in Stanza /\ x.revision \in Int
  BY <1>1, SeenTyped DEF Base
<1>4. \A i \in DOMAIN cfg.include : \A s \in DOMAIN fetched[i].reports :
        s \in Stanza /\ fetched[i].reports[s].revision \in Int
  BY <1>1 DEF Base, TypeOK, Replied, Report
<1>5. now \in Int
  BY Clock, BoundsAssumption DEF Base
<1>6. Firm \subseteq Seen
  BY DEF Firm, Seen
<1>7. QED
  BY <1>2, <1>3, <1>4, <1>5, <1>6

\* A call of pgbackrest info brings the repository's current reports.
LEMMA InfoBrings ==
  ASSUME Base, Info
  PROVE  \A s \in DOMAIN fetched'[at].reports : fetched'[at].reports[s] = repository[s]
<1> DEFINE reports == Reports(cfg.include[at])
<1>1. PICK result \in {"ok", "failed", "mistyped"}, stanzas \in SUBSET DOMAIN reports :
        fetched' = [fetched EXCEPT ![at] =
          [result |-> result, reports |-> [s \in stanzas |-> reports[s]]]]
  BY InfoReceives DEF Base
<1>2. at \in DOMAIN fetched
  BY InfoFacts DEF Base, Replied
<1>3. fetched'[at].reports = [s \in stanzas |-> reports[s]]
  BY <1>1, <1>2
<1>4. \A s \in DOMAIN reports : reports[s] = repository[s]
  BY DEF Reports
<1>5. QED
  BY <1>3, <1>4

LEMMA FreshInChange ==
  ASSUME Base, WorkersTyped, BesideTyped, FreshRevisions, RepositoryChanges
  PROVE  FreshRevisions'
<1>1. PICK z \in Stanza : Change(z)
  BY DEF RepositoryChanges
<1>2. now' = now + 1
  BY <1>1, Clock DEF Base
<1>3. UNCHANGED <<cfg, fetched, newest>> /\ Seen' = Seen /\ Firm' = Firm
  BY <1>1 DEF RepositoryChanges, Change, beside, Seen, Firm, There
<1>4. \A s \in Stanza : repository'[s] = repository[s] \/ repository'[s].revision = now + 1
  <2>1. PICK backups \in Listing :
          repository' = [repository EXCEPT ![z] =
                           Contents(MaxRevision - budget.changes + 1, backups)]
    BY <1>1 DEF Change
  <2>2. MaxRevision - budget.changes + 1 = now + 1
    BY DEF now
  <2>3. repository \in [Stanza -> Report]
    BY DEF Base, TypeOK
  <2>4. Contents(MaxRevision - budget.changes + 1, backups).revision = now + 1
    BY <2>2 DEF Contents
  <2>5. QED
    BY <2>1, <2>3, <2>4
<1>5. \A s \in Stanza : /\ repository[s].revision <= repository'[s].revision
                        /\ repository'[s].revision <= now'
                        /\ repository'[s].revision \in Int
  BY <1>2, <1>4, Numbers DEF FreshRevisions, NewestBehind
<1>6. NewestBehind'
  BY <1>3, <1>5, Numbers DEF FreshRevisions, NewestBehind
<1>7. SeriesFresh'
  BY <1>3, <1>5, Numbers DEF FreshRevisions, SeriesFresh
<1>8. RepliesFresh'
  BY <1>3, <1>5, Numbers DEF FreshRevisions, RepliesFresh
<1>9. FirmNewest'
  BY <1>3 DEF FreshRevisions, FirmNewest
<1>10. QED
  BY <1>6, <1>7, <1>8, <1>9 DEF FreshRevisions

\* A series of a reply in hand, if all that is firm of its stanza is of that reply.
Brought(x) ==
  \E i \in DOMAIN cfg.include :
    /\ x.stanza \in DOMAIN fetched[i].reports
    /\ x.revision = fetched[i].reports[x.stanza].revision
    /\ \A y \in Firm : y.stanza = x.stanza => y.revision = x.revision

\* Series go, and such come.
LEMMA FreshGrows ==
  ASSUME Base, EachNamedOnce, WorkersTyped, BesideTyped, FreshRevisions,
         UNCHANGED <<cfg, repository, fetched, newest>>, now' = now,
         \A x \in Seen' : x \in Seen \/ Brought(x),
         \A x \in Firm' : x \in Firm \/ Brought(x),
         Firm' \subseteq Seen'
  PROVE  FreshRevisions'
<1>1. NewestBehind'
  BY DEF FreshRevisions, NewestBehind
<1>2. SeriesFresh'
  <2>1. ASSUME NEW x \in Seen' PROVE x.revision <= repository[x.stanza].revision
    BY <2>1 DEF FreshRevisions, SeriesFresh, RepliesFresh, Brought
  <2>2. ASSUME NEW x \in Firm' PROVE newest[x.stanza] <= x.revision
    BY <2>2 DEF FreshRevisions, SeriesFresh, RepliesFresh, Brought
  <2>3. QED
    BY <2>1, <2>2 DEF SeriesFresh
<1>3. FirmNewest'
  <2>1. ASSUME NEW x \in Firm', NEW y \in Seen', x.stanza = y.stanza
        PROVE  y.revision <= x.revision
    <3>1. CASE x \in Firm /\ y \in Seen
      BY <2>1, <3>1 DEF FreshRevisions, FirmNewest
    <3>2. CASE x \in Firm /\ Brought(y)
      <4>1. x.revision = y.revision /\ x.revision \in Int
        BY <2>1, <3>2, Numbers DEF Brought
      <4>2. QED
        BY <4>1
    <3>3. CASE Brought(x) /\ y \in Seen
      BY <2>1, <3>3 DEF Brought, FreshRevisions, RepliesFresh
    <3>4. CASE Brought(x) /\ Brought(y)
      <4>1. PICK i \in DOMAIN cfg.include :
              /\ x.stanza \in DOMAIN fetched[i].reports
              /\ x.revision = fetched[i].reports[x.stanza].revision
        BY <3>4 DEF Brought
      <4>2. PICK j \in DOMAIN cfg.include :
              /\ x.stanza \in DOMAIN fetched[j].reports
              /\ y.revision = fetched[j].reports[x.stanza].revision
        BY <2>1, <3>4 DEF Brought
      <4>3. i = j
        BY <4>1, <4>2, OwnEntry DEF Base
      <4>4. x.revision = y.revision /\ x.revision \in Int
        BY <4>1, <4>2, <4>3, Numbers
      <4>5. QED
        BY <4>4
    <3>5. QED
      BY <2>1, <3>1, <3>2, <3>3, <3>4
  <2>2. QED
    BY <2>1 DEF FirmNewest
<1>4. RepliesFresh'
  <2>1. ASSUME NEW i \in DOMAIN cfg.include, NEW s \in DOMAIN fetched[i].reports,
               NEW x \in Seen', x.stanza = s
        PROVE  x.revision <= fetched[i].reports[s].revision
    <3>1. CASE x \in Seen
      BY <2>1, <3>1 DEF FreshRevisions, RepliesFresh
    <3>2. CASE Brought(x)
      <4>1. PICK j \in DOMAIN cfg.include :
              /\ s \in DOMAIN fetched[j].reports
              /\ x.revision = fetched[j].reports[s].revision
        BY <2>1, <3>2 DEF Brought
      <4>2. i = j
        BY <4>1, OwnEntry DEF Base
      <4>3. x.revision = fetched[i].reports[s].revision /\ x.revision \in Int
        BY <4>1, <4>2, Numbers
      <4>4. QED
        BY <4>3
    <3>3. QED
      BY <3>1, <3>2
  <2>2. QED
    BY <2>1 DEF FreshRevisions, RepliesFresh
<1>5. QED
  BY <1>1, <1>2, <1>3, <1>4 DEF FreshRevisions

\* What is firm of a stanza is of the reply that is being published for it.
LEMMA FirmOfReply ==
  ASSUME PInv, WorkersTyped, LatestInv, pc \in {"stanza", "families"},
         at \in DOMAIN cfg.include, NEW s \in DOMAIN fetched[at].reports,
         NEW y \in Firm, y.stanza = s
  PROVE  y.revision = fetched[at].reports[s].revision
<1>1. Base /\ EachNamedOnce /\ Published
  BY DEF PInv, LInv, IInv, Base
<1>2. CASE y \in registry
  <2>1. y.family \in Families /\ y.stanza \in Stanza /\ y.revision \in Revision
    BY <1>1, <1>2 DEF Base, TypeOK, Series
  <2>2. ~LateReset /\ On(y.family, y.stanza, y.revision)
    BY <1>2 DEF LateReset, On
  <2>3. PICK i \in DOMAIN cfg.include : Fits(i, y.family, y.stanza, y.revision)
    BY <1>1, <2>1, <2>2 DEF Published
  <2>4. i = at
    BY <1>1, <2>3, OwnEntry DEF Base, Fits
  <2>5. QED
    BY <2>3, <2>4 DEF Fits
<1>3. CASE y \notin registry
  <2>1. y \in There /\ (clean \/ y.type = "full") /\ ~LateReset
    BY <1>3 DEF Firm, LateReset
  <2>2. WantedNow(y.stanza, y.revision)
    BY <2>1 DEF LatestInv, Sound
  <2>3. PICK i \in DOMAIN cfg.include : Wanted(i, y.stanza, y.revision)
    BY <2>2 DEF WantedNow
  <2>4. i = at
    BY <1>1, <2>3, OwnEntry DEF Base, Wanted
  <2>5. QED
    BY <2>3, <2>4 DEF Wanted
<1>4. QED
  BY <1>2, <1>3

\* The main loop adds nothing firm or seen but a series of the report in hand.
LEMMA MainAdds ==
  ASSUME Base, WorkersTyped, MainStep
  PROVE  /\ \A x \in There' : clean' \/ x.type = "full" => x \in Firm
         /\ \A x \in Seen' :
              \/ x \in Seen
              \/ /\ SetFamilies /\ pc = "families" /\ x.stanza = current
                 /\ x.revision = fetched[at].reports[current].revision
         /\ \A x \in Firm' :
              \/ x \in Firm
              \/ /\ SetFamilies /\ pc = "families" /\ x.stanza = current
                 /\ x.revision = fetched[at].reports[current].revision
<1>1. [Next]_vars
  BY MainFacts
<1>2. ASSUME NEW x \in registry'
      PROVE  \/ x \in registry
             \/ /\ SetFamilies /\ pc = "families" /\ x.stanza = current
                /\ x.revision = fetched[at].reports[current].revision
  BY <1>1, SeriesStep, SetFamiliesTyped DEF Base, SetFamilies
<1>3. There' \subseteq There /\ \A x \in There' : clean' \/ x.type = "full" => x \in Firm
  BY ThereInMain DEF Firm
<1>4. QED
  BY <1>2, <1>3 DEF Seen, Firm

LEMMA FreshInMain ==
  ASSUME PInv, WorkersTyped, BesideTyped, LatestInv, FreshRevisions, MainStep
  PROVE  FreshRevisions'
<1>1. Base /\ EachNamedOnce
  BY DEF PInv, LInv, IInv, Base
<1>2. UNCHANGED <<newest, repository>> /\ now' = now /\ [Next]_vars /\ cfg' = cfg
  <2>1. Collect /\ UNCHANGED newest
    BY DEF MainStep
  <2>2. UNCHANGED repository
    BY <2>1 DEF Collect, ResetVersion, GetVersion, StartCycle, Reset, NextEntry, Info,
                GetStatus, SetStatus, NextStanza, SetFamilies, Wake
  <2>3. now' = now
    BY <1>1, <2>1, Clock DEF Base
  <2>4. QED
    BY <1>1, <2>1, <2>2, <2>3, MainFacts
<1>3. CASE Info
  <2>1. UNCHANGED registry /\ pc = "info exec"
    BY <1>1, <1>3, InfoFacts
  <2>2. UNCHANGED clean /\ There' = There
    BY <1>1, <2>1, ThereInMain
  <2>3. Seen' = Seen /\ Firm' = Firm
    BY <2>1, <2>2 DEF Seen, Firm
  <2>4. NewestBehind' /\ SeriesFresh' /\ FirmNewest'
    BY <1>2, <2>3 DEF FreshRevisions, NewestBehind, SeriesFresh, FirmNewest
  <2>5. ASSUME NEW i \in DOMAIN cfg.include, i # at PROVE fetched'[i] = fetched[i]
    BY <1>1, <1>3, <2>5, InfoFacts
  <2>6. ASSUME NEW s \in DOMAIN fetched'[at].reports
        PROVE  s \in Stanza /\ fetched'[at].reports[s] = repository[s]
    <3>1. s \in Stanza
      <4>1. Base'
        BY <1>1, <1>2, TypeStep, ProgressStep, RepliedStep DEF Base
      <4>2. at' = at /\ at \in DOMAIN cfg.include
        BY <1>1, <1>3, InfoFacts
      <4>3. QED
        BY <1>2, <4>1, <4>2 DEF Base, TypeOK
    <3>2. QED
      BY <1>1, <1>3, <3>1, InfoBrings
  <2>7. ASSUME NEW i \in DOMAIN cfg.include, NEW s \in DOMAIN fetched'[i].reports
        PROVE  /\ newest[s] <= fetched'[i].reports[s].revision
               /\ fetched'[i].reports[s].revision <= repository[s].revision
               /\ \A x \in Seen : x.stanza = s =>
                    x.revision <= fetched'[i].reports[s].revision
    <3>1. CASE i # at
      BY <2>5, <3>1 DEF FreshRevisions, RepliesFresh
    <3>2. CASE i = at
      <4>1. s \in Stanza /\ fetched'[i].reports[s] = repository[s]
        BY <2>6, <3>2
      <4>2. repository[s].revision \in Int /\ newest[s] <= repository[s].revision
        BY <1>1, <4>1, Numbers DEF FreshRevisions, NewestBehind
      <4>3. \A x \in Seen : x.stanza = s => x.revision <= repository[s].revision
        BY DEF FreshRevisions, SeriesFresh
      <4>4. QED
        BY <4>1, <4>2, <4>3
    <3>3. QED
      BY <3>1, <3>2
  <2>8. RepliesFresh'
    BY <1>2, <2>3, <2>7 DEF RepliesFresh
  <2>9. QED
    BY <2>4, <2>8 DEF FreshRevisions
<1>4. CASE ~Info
  <2>1. UNCHANGED fetched
    BY <1>4 DEF MainStep, Collect, ResetVersion, GetVersion, StartCycle, Reset, NextEntry,
                GetStatus, SetStatus, NextStanza, SetFamilies, Wake
  <2>2. ASSUME NEW x, pc = "families", x.stanza = current,
               x.revision = fetched[at].reports[current].revision
        PROVE  Brought(x)
    <3>1. at \in DOMAIN cfg.include /\ current \in DOMAIN fetched[at].reports
      BY <1>1, <2>2 DEF Base, Progress, InEntry
    <3>2. \A y \in Firm : y.stanza = current => y.revision = x.revision
      BY <2>2, <3>1, FirmOfReply
    <3>3. QED
      BY <2>2, <3>1, <3>2 DEF Brought
  <2>3. /\ \A x \in Seen' : x \in Seen \/ Brought(x)
        /\ \A x \in Firm' : x \in Firm \/ Brought(x)
    BY <1>1, <2>2, MainAdds
  <2>4. Firm' \subseteq Seen'
    BY DEF Firm, Seen
  <2>5. QED
    BY <1>1, <1>2, <2>1, <2>3, <2>4, FreshGrows
<1>5. QED
  BY <1>3, <1>4

\* The call and the goroutines add nothing but series of the call's stanza.
LEMMA BesideAdds ==
  ASSUME CallTyped, WorkersTyped,
         getBackupLastDBCountMetrics \/ \E w \in Workers : WorkerSets(w)
  PROVE  /\ UNCHANGED <<vars, clean, newest>>
         /\ \A x \in There' : x \in There \/
              (call # NoCall /\ x.stanza = call.stanza /\ x.revision = call.revision)
<1>1. ASSUME NEW type, NEW then, InOrder(type, then), Spawn(type, then), NEW x \in There'
      PROVE  x \in There \/
               (call # NoCall /\ x.stanza = call.stanza /\ x.revision = call.revision)
  <2>1. /\ call # NoCall /\ UNCHANGED lastDatabases
        /\ \/ worker' = worker
           \/ \E w \in Workers :
                worker' = [worker EXCEPT ![w] =
                            LatestSeries(call.stanza, type, call.revision)]
    BY <1>1, SpawnFacts
  <2>2. CASE x \in lastDatabases'
    BY <2>1, <2>2 DEF There
  <2>3. CASE x \notin lastDatabases'
    <3>1. PICK v \in Workers : worker'[v] = x /\ x # Idle
      BY <1>1, <2>3 DEF There
    <3>2. worker'[v] = worker[v] \/ x = LatestSeries(call.stanza, type, call.revision)
      BY <2>1, <3>1 DEF WorkersTyped
    <3>3. QED
      BY <2>1, <3>1, <3>2, LateFacts DEF There
  <2>4. QED
    BY <2>2, <2>3
<1>2. ASSUME SetLatest, NEW x \in There'
      PROVE  x \in There \/
               (call # NoCall /\ x.stanza = call.stanza /\ x.revision = call.revision)
  <2> DEFINE new == {LatestSeries(call.stanza, type, call.revision) :
                     type \in Types \ Own(call.stanza, call.revision)}
  <2>1. call # NoCall /\ lastDatabases' = Stored(new) /\ UNCHANGED worker
    BY <1>2, ProcessFacts DEF SetLatest
  <2>2. \A y \in new : y.stanza = call.stanza /\ y.revision = call.revision
    BY LateFacts
  <2> HIDE DEF new
  <2>3. x \in lastDatabases \/ x \in new \/ x \in {worker[w] : w \in Workers} \ {Idle}
    BY <1>2, <2>1, StoredFacts DEF There
  <2>4. QED
    BY <2>1, <2>2, <2>3 DEF There
<1>3. ASSUME NEW w \in Workers, WorkerSets(w), NEW x \in There'
      PROVE  x \in There
  <2>1. /\ worker[w] # Idle /\ lastDatabases' = Stored({worker[w]})
        /\ worker' = [worker EXCEPT ![w] = Idle]
    BY <1>3 DEF WorkerSets
  <2>2. CASE x \in lastDatabases'
    BY <2>1, <2>2, StoredFacts DEF There
  <2>3. CASE x \notin lastDatabases'
    <3>1. PICK v \in Workers : worker'[v] = x /\ x # Idle
      BY <1>3, <2>3 DEF There
    <3>2. worker[v] = x
      BY <2>1, <3>1 DEF WorkersTyped
    <3>3. QED
      BY <3>1, <3>2 DEF There
  <2>4. QED
    BY <2>2, <2>3
<1>4. UNCHANGED <<vars, clean, newest>>
  BY DEF getBackupLastDBCountMetrics, Spawn, SetLatest, WorkerSets
<1>5. InOrder("diff", "incr") /\ InOrder("incr", "full")
  BY DEF InOrder
<1>6. QED
  BY <1>1, <1>2, <1>3, <1>4, <1>5 DEF getBackupLastDBCountMetrics

LEMMA FreshBeside ==
  ASSUME PInv, CallTyped, WorkersTyped, BesideTyped, LatestInv, FreshRevisions,
         getBackupLastDBCountMetrics \/ \E w \in Workers : WorkerSets(w)
  PROVE  FreshRevisions'
<1>1. Base /\ EachNamedOnce
  BY DEF PInv, LInv, IInv, Base
<1>2. UNCHANGED <<vars, clean, newest>>
  BY BesideAdds
<1>3. UNCHANGED <<cfg, repository, fetched, newest, registry, clean>> /\ now' = now
  BY <1>2 DEF vars, now
<1>4. ASSUME call # NoCall, NEW x, x.stanza = call.stanza, x.revision = call.revision
      PROVE  Brought(x)
  <2>1. /\ pc = "stanza" /\ at \in DOMAIN cfg.include
        /\ Wanted(at, call.stanza, call.revision)
    BY <1>4 DEF LatestInv, CallExact
  <2>2. /\ x.stanza \in DOMAIN fetched[at].reports
        /\ x.revision = fetched[at].reports[x.stanza].revision
    BY <1>4, <2>1 DEF Wanted
  <2>3. \A y \in Firm : y.stanza = x.stanza => y.revision = x.revision
    BY <2>1, <2>2, FirmOfReply
  <2>4. QED
    BY <2>1, <2>2, <2>3 DEF Brought
<1>5. \A x \in There' : x \in There \/ Brought(x)
  BY <1>4, BesideAdds
<1>6. /\ \A x \in Seen' : x \in Seen \/ Brought(x)
      /\ \A x \in Firm' : x \in Firm \/ Brought(x)
      /\ Firm' \subseteq Seen'
  BY <1>3, <1>5 DEF Seen, Firm
<1>7. QED
  BY <1>1, <1>3, <1>6, FreshGrows

LEMMA FreshInScrape ==
  ASSUME Base, WorkersTyped, BesideTyped, FreshRevisions, NEW vector, Scrape(vector)
  PROVE  FreshRevisions'
<1>1. /\ UNCHANGED <<cfg, repository, fetched>> /\ now' = now
      /\ Seen' = Seen /\ Firm' = Firm
  BY DEF Scrape, vars, now, Seen, Firm, There
<1>2. \A s \in Stanza :
        newest'[s] = newest[s] \/ \E x \in Seen : x.stanza = s /\ x.revision = newest'[s]
  BY ScrapeFacts DEF Base
<1>3. NewestBehind'
  <2>1. \A s \in Stanza : newest'[s] <= repository[s].revision
    BY <1>2 DEF FreshRevisions, NewestBehind, SeriesFresh
  <2>2. QED
    BY <1>1, <2>1 DEF FreshRevisions, NewestBehind
<1>4. SeriesFresh'
  <2>1. ASSUME NEW x \in Firm PROVE newest'[x.stanza] <= x.revision
    <3>1. /\ x.stanza \in Stanza /\ newest[x.stanza] <= x.revision
          /\ \A y \in Seen : x.stanza = y.stanza => y.revision <= x.revision
      BY Numbers DEF FreshRevisions, SeriesFresh, FirmNewest
    <3>2. QED
      BY <1>2, <3>1
  <2>2. QED
    BY <1>1, <2>1 DEF FreshRevisions, SeriesFresh
<1>5. RepliesFresh'
  <2>1. ASSUME NEW i \in DOMAIN cfg.include, NEW s \in DOMAIN fetched[i].reports
        PROVE  newest'[s] <= fetched[i].reports[s].revision
    <3>1. s \in Stanza
      BY Numbers
    <3>2. QED
      BY <1>2, <3>1 DEF FreshRevisions, RepliesFresh
  <2>2. QED
    BY <1>1, <2>1 DEF FreshRevisions, RepliesFresh
<1>6. FirmNewest'
  BY <1>1 DEF FreshRevisions, FirmNewest
<1>7. QED
  BY <1>3, <1>4, <1>5, <1>6 DEF FreshRevisions

LEMMA FreshInExit ==
  ASSUME Base, FreshRevisions, Exit
  PROVE  FreshRevisions'
<1>1. /\ registry' = {} /\ cfg' = cfg
      /\ \A i \in DOMAIN cfg.include : DOMAIN fetched'[i].reports = {}
  BY RestartFacts DEF Exit
<1>2. UNCHANGED <<newest, repository>> /\ now' = now
  BY Clock DEF Base, Exit, Restart
<1>3. There' = {}
  BY DEF Exit, There
<1>4. Seen' = {} /\ Firm' = {}
  BY <1>1, <1>3 DEF Seen, Firm
<1>5. QED
  BY <1>1, <1>2, <1>4
     DEF FreshRevisions, NewestBehind, SeriesFresh, FirmNewest, RepliesFresh

LEMMA FreshStep ==
  ASSUME PInv, EInv, LatestInv, FreshRevisions, [ExporterNext]_allVars
  PROVE  FreshRevisions'
<1>1. Base /\ CallTyped /\ WorkersTyped /\ BesideTyped
  BY DEF PInv, LInv, IInv, Base, EInv
<1>2. CASE MainStep
  BY <1>1, <1>2, FreshInMain
<1>3. CASE getBackupLastDBCountMetrics \/ \E w \in Workers : WorkerSets(w)
  BY <1>1, <1>3, FreshBeside
<1>4. CASE Exit
  BY <1>1, <1>4, FreshInExit
<1>5. ASSUME NEW vector \in Vectors, Scrape(vector) PROVE FreshRevisions'
  BY <1>1, <1>5, FreshInScrape
<1>6. CASE RepositoryChanges
  BY <1>1, <1>6, FreshInChange
<1>7. CASE Start \/ Listen \/ UNCHANGED allVars
  <2>1. /\ UNCHANGED <<cfg, repository, fetched, newest>> /\ now' = now
        /\ Seen' = Seen /\ Firm' = Firm
    BY <1>7 DEF Start, Listen, allVars, beside, vars, now, Seen, Firm, There
  <2>2. QED
    BY <2>1 DEF FreshRevisions, NewestBehind, SeriesFresh, FirmNewest, RepliesFresh
<1>8. QED
  BY <1>2, <1>3, <1>4, <1>5, <1>6, <1>7 DEF ExporterNext, MainGoroutine

-----------------------------------------------------------------------------
\* What is firm of the last databases has a status, in flight or not.
Labelled(stanza) == \E t \in status : t.label \in {stanza, StatusLabel(NoStanza)}
FirmHasStatus ==
  \A x \in There : clean \/ x.type = "full" => Labelled(x.stanza)

LEMMA KeepLabelled ==
  ASSUME cfg' = cfg, \A t \in status : \E u \in status' : u.label = t.label
  PROVE  \A s : Labelled(s) => Labelled(s)'
BY SameCommandLine DEF Labelled

LEMMA StatusFirmStep ==
  ASSUME PInv, EInv, LatestInv, FirmHasStatus, [ExporterNext]_allVars
  PROVE  FirmHasStatus'
<1>1. /\ Base /\ CallTyped /\ WorkersTyped /\ StatusStands
  BY DEF PInv, LInv, IInv, Base, EInv
<1>2. cfg' = cfg
  BY ExporterStepIsStep, CommandLineStep
<1>3. ASSUME \A x \in There' : clean' \/ x.type = "full" =>
               x \in There /\ (clean \/ x.type = "full"),
             \A t \in status : \E u \in status' : u.label = t.label
      PROVE  FirmHasStatus'
  <2>1. ASSUME NEW x \in There', clean' \/ x.type = "full" PROVE Labelled(x.stanza)'
    <3>1. Labelled(x.stanza)
      BY <1>3, <2>1 DEF FirmHasStatus
    <3>2. QED
      BY <1>2, <1>3, <3>1, KeepLabelled
  <2>2. QED
    BY <2>1 DEF FirmHasStatus
<1>4. CASE MainStep
  <2>1. \A x \in There' : clean' \/ x.type = "full" =>
          x \in There /\ (clean \/ x.type = "full")
    BY <1>1, <1>4, ThereInMain
  <2>2. CASE Reset /\ pc' # "reset"
    <3>1. step = 6 /\ pc = "reset"
      <4>1. ~(step < Len(ResetOrder)) /\ step \in 1..6
        BY <1>1, <2>2, IncludeTyped DEF Reset, Base
      <4>2. pc = "reset" /\ Len(ResetOrder) = 6
        BY <2>2, OrdersTyped DEF Reset
      <4>3. QED
        BY <4>1, <4>2
    <3>2. \A x \in There : ~(clean \/ x.type = "full")
      <4>1. ResetAlready("last")
        BY <3>1, LastIsFourth DEF ResetAlready
      <4>2. \A s, r : ~WantedNow(s, r)
        BY <3>1, <4>1 DEF WantedNow, LatestDue
      <4>3. QED
        BY <4>1, <4>2 DEF LatestInv, Sound
    <3>3. QED
      BY <2>1, <3>2 DEF FirmHasStatus
  <2>3. CASE ~(Reset /\ pc' # "reset")
    <3>1. \A t \in status : \E u \in status' : u.label = t.label
      <4>1. CASE Reset
        <5>1. step \in 1..6 /\ step < 6
          BY <1>1, <2>3, <4>1, OrdersTyped, IncludeTyped DEF Reset, Base
        <5>2. step # 6
          BY <5>1
        <5>3. ResetOrder[step] # "status"
          BY <5>1, <5>2, OrderFacts
        <5>4. QED
          BY <4>1, <5>3 DEF Reset
      <4>2. CASE GetStatus
        BY <4>2, VectorFacts DEF GetStatus
      <4>3. CASE SetStatus
        <5>1. PICK v : status' = SetMetric(status, StatusLabel(cfg.include[at]), v)
          BY <4>3 DEF SetStatus
        <5>2. QED
          BY <5>1, VectorFacts
      <4>4. CASE \/ ResetVersion \/ GetVersion \/ StartCycle \/ NextEntry \/ Info
                 \/ NextStanza \/ SetFamilies \/ Wake
        <5>1. UNCHANGED status
          BY <4>4 DEF ResetVersion, GetVersion, StartCycle, NextEntry, Info, NextStanza,
                      SetFamilies, Wake
        <5>2. QED
          BY <5>1
      <4>5. QED
        BY <1>4, <4>1, <4>2, <4>3, <4>4 DEF MainStep, Collect
    <3>2. QED
      BY <1>3, <2>1, <3>1
  <2>4. QED
    BY <2>2, <2>3
<1>5. CASE getBackupLastDBCountMetrics \/ \E w \in Workers : WorkerSets(w)
  <2>1. /\ UNCHANGED <<status, clean>>
        /\ \A x \in There' : x \in There \/ (call # NoCall /\ x.stanza = call.stanza)
    BY <1>1, <1>5, BesideAdds DEF vars
  <2>2. \A s : Labelled(s) => Labelled(s)'
    BY <1>2, <2>1, KeepLabelled
  <2>3. ASSUME call # NoCall PROVE Labelled(call.stanza)
    <3>1. /\ pc = "stanza" /\ at \in DOMAIN cfg.include
          /\ call.stanza \in DOMAIN fetched[at].reports
      BY <2>3 DEF LatestInv, CallExact, Wanted
    <3>2. cfg.include[at] \in {NoStanza, call.stanza}
      BY <1>1, <3>1 DEF Base, Replied
    <3>3. PICK t \in status : t.label = StatusLabel(cfg.include[at])
      BY <1>1, <3>1 DEF StatusStands
    <3>4. t.label \in {call.stanza, StatusLabel(NoStanza)}
      BY <3>2, <3>3 DEF StatusLabel
    <3>5. QED
      BY <3>4 DEF Labelled
  <2>4. ASSUME NEW x \in There', clean' \/ x.type = "full" PROVE Labelled(x.stanza)'
    BY <2>1, <2>2, <2>3, <2>4 DEF FirmHasStatus
  <2>5. QED
    BY <2>4 DEF FirmHasStatus
<1>6. CASE Exit
  BY <1>6 DEF Exit, There, FirmHasStatus
<1>7. CASE \/ Start \/ Listen \/ RepositoryChanges
           \/ \E vector \in Vectors : Scrape(vector)
           \/ UNCHANGED allVars
  <2>1. UNCHANGED <<status, clean>> /\ There' = There
    BY <1>7 DEF Start, Listen, RepositoryChanges, Change, Scrape, allVars, vars, beside, There
  <2>2. QED
    BY <1>3, <2>1
<1>8. QED
  BY <1>4, <1>5, <1>6, <1>7 DEF ExporterNext, MainGoroutine

-----------------------------------------------------------------------------
ProcessInv == PInv /\ EInv /\ LatestInv /\ FreshRevisions /\ FirmHasStatus

LEMMA ProcessInitially ==
  ASSUME StartedUp, EachNamedOnce
  PROVE  ProcessInv
<1>1. PInv /\ EInv /\ LatestInv
  BY PublicationInitially, ExporterInitially, LatestInitially DEF StartedUp
<1>2. There = {}
  BY DEF StartedUp, There
<1>3. registry = {} /\ \A i \in DOMAIN cfg.include : DOMAIN fetched[i].reports = {}
  <2>1. registry = {} /\ fetched = NoFetches
    BY DEF StartedUp, Init
  <2>2. DOMAIN << >> = {}
    OBVIOUS
  <2>3. \A i \in DOMAIN cfg.include : fetched[i] = [result |-> "none", reports |-> << >>]
    BY <2>1 DEF NoFetches
  <2>4. QED
    BY <2>1, <2>2, <2>3
<1>4. Seen = {} /\ Firm = {}
  BY <1>2, <1>3 DEF Seen, Firm
<1>5. NewestBehind
  <2>1. repository \in [Stanza -> {Contents(0, "absent"), Contents(0, "none"),
                                   Contents(0, "full")}]
        /\ newest = [s \in Stanza |-> 0]
    BY DEF StartedUp, Init
  <2>2. \A s \in Stanza : repository[s].revision = 0 /\ newest[s] = 0
    BY <2>1 DEF Contents
  <2>3. now \in Nat
    BY <1>1, Clock, BoundsAssumption DEF PInv, LInv, IInv
  <2>4. QED
    BY <2>2, <2>3 DEF NewestBehind
<1>6. FreshRevisions
  BY <1>3, <1>4, <1>5 DEF FreshRevisions, SeriesFresh, FirmNewest, RepliesFresh
<1>7. FirmHasStatus
  BY <1>2 DEF FirmHasStatus
<1>8. QED
  BY <1>1, <1>6, <1>7 DEF ProcessInv

LEMMA ProcessStep ==
  ASSUME ProcessInv, [ExporterNext]_allVars
  PROVE  ProcessInv'
<1>1. PInv'
  BY ExporterStepIsStep, PublicationStep DEF ProcessInv
<1>2. EInv'
  BY ExporterStep DEF ProcessInv
<1>3. LatestInv'
  BY LatestStep DEF ProcessInv
<1>4. FreshRevisions'
  BY FreshStep DEF ProcessInv
<1>5. FirmHasStatus'
  BY StatusFirmStep DEF ProcessInv
<1>6. QED
  BY <1>1, <1>2, <1>3, <1>4, <1>5 DEF ProcessInv

LEMMA ProcessHolds == ExporterSpec /\ EachNamedOnce => []ProcessInv
<1>1. StartedUp /\ EachNamedOnce => ProcessInv
  BY ProcessInitially
<1>2. ProcessInv /\ [ExporterNext]_allVars => ProcessInv'
  BY ProcessStep
<1>3. QED
  BY <1>1, <1>2, PTL DEF ExporterSpec

LEMMA UndisturbedIsFirm == \A x \in Undisturbed : x \in Firm /\ x \in There
BY DEF Undisturbed, Firm, There

\* With every stanza named once: what a scrape can read, of the families of the
\* registry and of the last databases, is never older than what scrapes have read
\* before, whichever vector, and across resets, failed calls and restarts; only a
\* differential or incremental series of the last databases may be, after a
\* reset that met a goroutine.
THEOREM NeverBack == ExporterSpec /\ EachNamedOnce => []ScrapesNeverGoBack
<1>1. ProcessInv => ScrapesNeverGoBack
  <2>1. ASSUME ProcessInv, NEW x \in registry \cup Undisturbed
        PROVE  x.revision >= newest[x.stanza]
    <3>1. Base /\ WorkersTyped /\ BesideTyped
      BY <2>1 DEF ProcessInv, PInv, LInv, IInv, Base, EInv
    <3>2. x \in Firm
      BY <2>1, UndisturbedIsFirm DEF Firm
    <3>3. newest[x.stanza] <= x.revision
      BY <2>1, <3>2 DEF ProcessInv, FreshRevisions, SeriesFresh
    <3>4. x.revision \in Int /\ newest[x.stanza] \in Int
      BY <3>1, <3>2, Numbers
    <3>5. QED
      BY <3>3, <3>4
  <2>2. QED
    BY <2>1 DEF ScrapesNeverGoBack
<1>2. QED
  BY <1>1, ProcessHolds, PTL

\* With every stanza named once: the full backup's series of the last databases,
\* and after a reset that met no goroutine all of them, stand in no state without
\* the status of their stanza's entry.
THEOREM LatestHaveStatus == ExporterSpec /\ EachNamedOnce => []LatestHasStatus
<1>1. ProcessInv => LatestHasStatus
  BY UndisturbedIsFirm DEF ProcessInv, FirmHasStatus, Labelled, LatestHasStatus, Undisturbed
<1>2. QED
  BY <1>1, ProcessHolds, PTL

\* With every stanza named once: between two cycles, and with the goroutines done,
\* every type of every stanza with a full backup has its labels among the last
\* databases, and the full backup's count is the last report's, however many
\* goroutines of earlier cycles are overtaken; and the vector is exact if none
\* was alive at the last reset.
THEOREM NeverMissing == ExporterSpec /\ EachNamedOnce => []LatestNeverMissing
<1>1. ProcessInv => LatestNeverMissing
  BY LatestNow DEF ProcessInv, PInv, LInv, IInv, Base, EInv
<1>2. QED
  BY <1>1, ProcessHolds, PTL
=============================================================================
