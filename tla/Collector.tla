------------------------------ MODULE Collector ------------------------------
(***************************************************************************)
(* The exporter's main loop: pgbackrest_version_info, then                 *)
(* GetPgBackRestInfo over the include list, then the sleep.  The metrics   *)
(* live in the Prometheus registry, which any HTTP scrape may read between *)
(* any two steps; the repository pgBackRest reports on changes while the   *)
(* exporter works; the process may be killed and restarted at any time.    *)
(*                                                                         *)
(* A stanza's metrics are grouped by the function that sets them           *)
(* (families).  What pgBackRest reports of a stanza is a record with a     *)
(* revision number, so that a series shows which report it came from.      *)
(* The per-backup calls of getBackupDBCountMetrics are one step here       *)
(* (module DBCountPool).  What the flag database-count-latest adds,        *)
(* goroutines that outlive the cycle, is modules LatestDBCount and         *)
(* Exporter.                                                               *)
(***************************************************************************)
EXTENDS Integers, Sequences, FiniteSets

CONSTANTS
  Stanza,       \* the stanzas of the repository
  Configs,      \* command lines: include and exclude lists and flags
  MaxRevision,  \* bound: changes of the repository
  MaxFailures,  \* bound: pgBackRest calls that fail
  MaxRestarts   \* bound: times the exporter is killed and started again

\* The flags' default "" is a list entry too: "no stanza given".
NoStanza == ""
Entry    == Stanza \cup {NoStanza}

Config == [include: Seq(Entry), exclude: Seq(Entry),
           backupDBCount: BOOLEAN, backupDBCountLatest: BOOLEAN,
           collector: BOOLEAN]

ASSUME ConfigsAssumption  == Configs \subseteq Config
ASSUME StanzaAssumption   == NoStanza \notin Stanza /\ IsFiniteSet(Stanza)
ASSUME BoundsAssumption   == MaxRevision \in Nat /\ MaxFailures \in Nat
                             /\ MaxRestarts \in Nat

VARIABLES
  cfg,          \* the command line
  repository,   \* what pgBackRest would report of each stanza now
  pc,           \* the collector's goroutine
  at,           \* index into the include list
  step,         \* index into ResetOrder or SetOrder
  todo,         \* parsed stanzas the inner loop has not reached
  current,      \* the stanza of the inner loop's iteration
  success,      \* getDataSuccessStatus
  registry,     \* the stanza metrics: family, stanza, revision, value
  status,       \* pgbackrest_exporter_status: label and value
  versionInfo,  \* pgbackrest_version_info
  fetched,      \* history: the result of the cycle's info call per list entry
  budget        \* changes, failures and restarts left

vars == <<cfg, repository, pc, at, step, todo, current, success, registry,
          status, versionInfo, fetched, budget>>

-----------------------------------------------------------------------------
\* A stanza is absent from the repository, or it lists no backup, some but no full
\* one (option backup-type), or a full one.
Revision == 0..MaxRevision
Listing  == {"absent", "none", "no full", "full"}
Report   == [revision: Revision, backups: Listing]

Contents(revision, backups) == [revision |-> revision, backups |-> backups]
Present(stanza) == repository[stanza].backups # "absent"

\* The functions in the order GetPgBackRestInfo calls them for a stanza, and the
\* order resetMetrics empties what they set.
SetOrder == <<"stanza", "repo", "wal", "backup", "last", "databases">>

\* Defect: a reset function is not called.
ResetOrderWithoutWAL == <<"stanza", "repo", "backup", "last", "status">>
\* Defect: the exporter status is reset first.
ResetOrderStatusFirst == <<"status", "stanza", "repo", "backup", "last", "wal">>

ResetOrder == <<"stanza", "repo", "backup", "last", "wal", "status">>
Families == {SetOrder[i] : i \in DOMAIN SetOrder}

\* Which function's metrics a reset function empties.
ResetBy(name) == CASE name = "backup" -> {"backup", "databases"}
                   [] name = "status" -> {}
                   [] OTHER           -> {name}

\* The families that get at least one series from a report.  An existing stanza has
\* an archive entry even before the first backup.
HasBackups(report) == report.backups \in {"no full", "full"}
FamiliesOf(report) ==
  {"stanza", "repo"}
    \cup (IF report.backups # "absent" THEN {"wal"} ELSE {})
    \cup (IF HasBackups(report) THEN {"backup"} ELSE {})
    \cup (IF report.backups = "full" THEN {"last"} ELSE {})
    \cup (IF cfg.backupDBCount /\ HasBackups(report) THEN {"databases"} ELSE {})

-----------------------------------------------------------------------------
\* strings.Join(list, "") != "".
NonEmpty(list) == \E i \in DOMAIN list : list[i] # NoStanza

\* Defect: the metrics are reset before the fetch in either case.
resetMetricsNeverAfterFetch == FALSE

resetMetricsAfterFetch == ~NonEmpty(cfg.include)
excludeSpecified       == NonEmpty(cfg.exclude)

stanzaInExclude(stanza) ==
  /\ NonEmpty(cfg.exclude)
  /\ \E i \in DOMAIN cfg.exclude : cfg.exclude[i] = stanza

StatusLabel(stanza) ==
  IF stanza # NoStanza THEN stanza
  ELSE IF excludeSpecified THEN "all-stanzas-except-excluded" ELSE "all-stanzas"

\* GaugeVec: GetMetricWithLabelValues creates a missing child with value 0 ...
GetMetric(vec, label) ==
  IF \E s \in vec : s.label = label THEN vec
  ELSE vec \cup {[label |-> label, value |-> 0]}
\* ... and Set stores the value.
SetMetric(vec, label, value) ==
  {s \in vec : s.label # label} \cup {[label |-> label, value |-> value]}

\* The label sets of a stanza's status series do not depend on the report, those
\* of the other families do: a new report adds series instead of replacing them.
SetFamily(family, stanza, revision, value) ==
  {s \in registry : ~(family = "stanza" /\ s.family = family /\ s.stanza = stanza)}
    \cup {[family |-> family, stanza |-> stanza, revision |-> revision,
           value |-> value]}

\* What `pgbackrest info' reports for a list entry: one stanza if it is named,
\* and then also if the repository does not have it (a status code says so).
Reports(entry) ==
  IF entry # NoStanza THEN [s \in {entry} |-> repository[s]]
  ELSE [s \in {r \in Stanza : Present(r)} |-> repository[s]]

-----------------------------------------------------------------------------
NoFetches == [i \in DOMAIN cfg.include |-> [result |-> "none", reports |-> << >>]]

Init ==
  /\ cfg \in Configs
  /\ repository \in [Stanza -> {Contents(0, "absent"), Contents(0, "none"),
                                Contents(0, "full")}]
  /\ budget = [changes |-> MaxRevision, failures |-> MaxFailures,
               restarts |-> MaxRestarts]
  /\ pc = "version reset" /\ at = 1 /\ step = 1
  /\ todo = << >> /\ current = NoStanza /\ success = TRUE
  /\ registry = {} /\ status = {} /\ versionInfo = {}
  /\ fetched = NoFetches

\* resetVersionMetrics.
ResetVersion ==
  /\ pc = "version reset"
  /\ versionInfo' = {}
  /\ pc' = "version exec"
  /\ UNCHANGED <<cfg, repository, at, step, todo, current, success, registry,
                 status, fetched, budget>>

\* A pgBackRest call fails as often as the bound lets it.
Fail == budget.failures > 0 /\ budget' = [budget EXCEPT !.failures = @ - 1]
Work == UNCHANGED budget

\* Defect: a failed call exports pgBackRest's exit code.
GetVersionExitCode ==
  /\ pc = "version exec"
  /\ \/ Work /\ versionInfo' = {"number"}
     \/ Fail /\ versionInfo' = {"exit code"}
  /\ pc' = IF cfg.collector THEN "start" ELSE "sleep"
  /\ UNCHANGED <<cfg, repository, at, step, todo, current, success, registry,
                 status, fetched>>

\* getBackrestVersionMetrics: 0 when pgBackRest or the parse fails.
GetVersion ==
  /\ pc = "version exec"
  /\ \/ Work /\ versionInfo' = {"number"}
     \/ Fail /\ versionInfo' = {"unavailable"}
  /\ pc' = IF cfg.collector THEN "start" ELSE "sleep"
  /\ UNCHANGED <<cfg, repository, at, step, todo, current, success, registry,
                 status, fetched>>

\* GetPgBackRestInfo is entered.  With stanzas named, the metrics go first.
StartCycle ==
  /\ pc = "start"
  /\ at' = 1 /\ step' = 1
  /\ pc' = IF resetMetricsAfterFetch THEN "include" ELSE "reset"
  /\ UNCHANGED <<cfg, repository, todo, current, success, registry, status,
                 versionInfo, fetched, budget>>

\* One of the six functions resetMetrics calls.
Reset ==
  /\ pc = "reset"
  /\ registry' = {s \in registry : s.family \notin ResetBy(ResetOrder[step])}
  /\ status' = IF ResetOrder[step] = "status" THEN {} ELSE status
  /\ IF step < Len(ResetOrder)
     THEN step' = step + 1 /\ UNCHANGED pc
     ELSE step' = 1 /\ pc' = IF resetMetricsAfterFetch THEN "get status" ELSE "include"
  /\ UNCHANGED <<cfg, repository, at, todo, current, success, versionInfo,
                 fetched, budget>>

\* Defect: getDataSuccessStatus is declared outside the loop.
NextEntryKeepsSuccess ==
  /\ pc = "include"
  /\ IF at > Len(cfg.include)
     THEN pc' = "sleep" /\ UNCHANGED success
     ELSE IF stanzaInExclude(cfg.include[at])
          THEN pc' = "get status" /\ success' = FALSE
          ELSE pc' = "info exec" /\ UNCHANGED success
  /\ UNCHANGED <<cfg, repository, at, step, todo, current, registry, status,
                 versionInfo, fetched, budget>>

\* The head of the loop over the include list.
NextEntry ==
  /\ pc = "include"
  /\ IF at > Len(cfg.include)
     THEN pc' = "sleep" /\ UNCHANGED success
     ELSE IF stanzaInExclude(cfg.include[at])
          THEN pc' = "get status" /\ success' = FALSE
          ELSE pc' = "info exec" /\ success' = TRUE
  /\ UNCHANGED <<cfg, repository, at, step, todo, current, registry, status,
                 versionInfo, fetched, budget>>

\* Defect: after a failed call the reset is skipped.
InfoKeepsOnError ==
  LET reports == Reports(cfg.include[at])
      Received(result, stanzas) ==
        /\ fetched' = [fetched EXCEPT ![at] = [result  |-> result,
                        reports |-> [s \in stanzas |-> reports[s]]]]
        /\ success' = (success /\ result = "ok")
        /\ \E order \in [1..Cardinality(stanzas) -> stanzas] :
             /\ {order[i] : i \in DOMAIN order} = stanzas
             /\ todo' = order
        /\ pc' = IF resetMetricsAfterFetch /\ result # "failed"
                 THEN "reset" ELSE "get status"
  IN  /\ pc = "info exec"
      /\ \/ Work /\ Received("ok", DOMAIN reports)
         \/ Fail /\ Received("failed", {})
      /\ UNCHANGED <<cfg, repository, at, step, current, registry, status, versionInfo>>

\* getAllInfoData and parseResult.  A failed call or text that is no JSON yields
\* no stanzas; a value of the wrong type is an error that leaves the rest of the
\* reply parsed.
Info ==
  LET reports == Reports(cfg.include[at])
      Received(result, stanzas) ==
        /\ fetched' = [fetched EXCEPT ![at] = [result  |-> result,
                        reports |-> [s \in stanzas |-> reports[s]]]]
        /\ success' = (success /\ result = "ok")
        /\ \E order \in [1..Cardinality(stanzas) -> stanzas] :
             /\ {order[i] : i \in DOMAIN order} = stanzas
             /\ todo' = order
  IN  /\ pc = "info exec"
      /\ \/ Work /\ Received("ok", DOMAIN reports)
         \/ Fail /\ Received("failed", {})
         \/ Fail /\ Received("mistyped", DOMAIN reports)
      /\ pc' = IF resetMetricsAfterFetch THEN "reset" ELSE "get status"
      /\ UNCHANGED <<cfg, repository, at, step, current, registry, status, versionInfo>>

\* getExporterStatusMetrics, in the two steps of setUpMetricValue.
GetStatus ==
  /\ pc = "get status"
  /\ status' = GetMetric(status, StatusLabel(cfg.include[at]))
  /\ pc' = "set status"
  /\ UNCHANGED <<cfg, repository, at, step, todo, current, success, registry,
                 versionInfo, fetched, budget>>

SetStatus ==
  /\ pc = "set status"
  /\ status' = SetMetric(status, StatusLabel(cfg.include[at]), IF success THEN 1 ELSE 0)
  /\ pc' = "stanza"
  /\ UNCHANGED <<cfg, repository, at, step, todo, current, success, registry,
                 versionInfo, fetched, budget>>

\* Defect: the exclude list is not consulted for the stanzas of a reply.
NextStanzaOfReply ==
  /\ pc = "stanza"
  /\ IF todo = << >>
     THEN pc' = "include" /\ at' = at + 1 /\ UNCHANGED <<todo, current>>
     ELSE /\ pc' = "families" /\ current' = Head(todo)
          /\ todo' = Tail(todo) /\ UNCHANGED at
  /\ UNCHANGED <<cfg, repository, step, success, registry, status, versionInfo,
                 fetched, budget>>

\* Defect: an excluded stanza does not advance the loop.
NextStanzaStuck ==
  /\ pc = "stanza"
  /\ IF todo = << >>
     THEN pc' = "include" /\ at' = at + 1 /\ UNCHANGED <<todo, current>>
     ELSE IF stanzaInExclude(Head(todo))
          THEN UNCHANGED <<pc, at, todo, current>>
          ELSE /\ pc' = "families" /\ current' = Head(todo)
               /\ todo' = Tail(todo) /\ UNCHANGED at
  /\ UNCHANGED <<cfg, repository, step, success, registry, status, versionInfo,
                 fetched, budget>>

\* The head of the loop over the parsed stanzas.
NextStanza ==
  /\ pc = "stanza"
  /\ IF todo = << >>
     THEN pc' = "include" /\ at' = at + 1 /\ UNCHANGED <<todo, current>>
     ELSE /\ todo' = Tail(todo) /\ UNCHANGED at
          /\ IF stanzaInExclude(Head(todo))
             THEN UNCHANGED <<pc, current>>
             ELSE pc' = "families" /\ current' = Head(todo)
  /\ UNCHANGED <<cfg, repository, step, success, registry, status, versionInfo,
                 fetched, budget>>

\* One of the functions called for the stanza.  The database counts come from
\* further pgBackRest calls, whose failure exports a 0; so does a backup that is
\* gone by then, which it may be if the repository has changed.
SetFamilies ==
  LET report == fetched[at].reports[current]
      family == SetOrder[step]
      Set(value) == registry' = SetFamily(family, current, report.revision, value)
  IN  /\ pc = "families"
      /\ \/ family \notin FamiliesOf(report) /\ Work /\ UNCHANGED registry
         \/ family \in FamiliesOf(report) /\ Work /\ Set("reported")
         \/ family \in FamiliesOf(report) /\ family = "databases" /\ Set("zero")
              /\ IF report # repository[current] THEN Work ELSE Fail
      /\ IF step < Len(SetOrder)
         THEN step' = step + 1 /\ UNCHANGED <<pc, current>>
         ELSE step' = 1 /\ pc' = "stanza" /\ current' = NoStanza
      /\ UNCHANGED <<cfg, repository, at, todo, success, status, versionInfo, fetched>>

\* time.Sleep ends.
Wake ==
  /\ pc = "sleep"
  /\ pc' = "version reset"
  /\ UNCHANGED <<cfg, repository, at, step, todo, current, success, registry,
                 status, versionInfo, fetched, budget>>

Collect == \/ ResetVersion \/ GetVersion \/ StartCycle \/ Reset \/ NextEntry \/ Info
           \/ GetStatus \/ SetStatus \/ NextStanza \/ SetFamilies \/ Wake

\* Backups are taken and expired, stanzas created and deleted.
Change(s) ==
  /\ budget.changes > 0
  /\ \E backups \in Listing :
       repository' = [repository EXCEPT ![s] =
                        Contents(MaxRevision - budget.changes + 1, backups)]
  /\ budget' = [budget EXCEPT !.changes = @ - 1]
  /\ UNCHANGED <<cfg, pc, at, step, todo, current, success, registry, status,
                 versionInfo, fetched>>

\* SIGTERM, SIGINT or a crash; systemd and docker start the exporter again with
\* the same command line.
Restart ==
  /\ budget.restarts > 0
  /\ budget' = [budget EXCEPT !.restarts = @ - 1]
  /\ pc' = "version reset" /\ at' = 1 /\ step' = 1
  /\ todo' = << >> /\ current' = NoStanza /\ success' = TRUE
  /\ registry' = {} /\ status' = {} /\ versionInfo' = {}
  /\ fetched' = NoFetches
  /\ UNCHANGED <<cfg, repository>>

Next == Collect \/ (\E s \in Stanza : Change(s)) \/ Restart

\* The loop never ends, time.Sleep wakes up and every pgBackRest process exits.
\* Nothing is assumed of the repository, of failures or of restarts.
Spec == Init /\ [][Next]_vars /\ WF_vars(Collect)

-----------------------------------------------------------------------------
Series == [family: Families, stanza: Stanza, revision: Revision,
           value: {"reported", "zero"}]

TypeOK ==
  /\ cfg \in Configs
  /\ repository \in [Stanza -> Report]
  /\ pc \in {"version reset", "version exec", "start", "reset", "include",
             "info exec", "get status", "set status", "stanza", "families", "sleep"}
  /\ at \in 1..(Len(cfg.include) + 1)
  /\ step \in 1..Len(SetOrder)
  /\ todo \in Seq(Stanza)
  /\ current \in Entry
  /\ success \in BOOLEAN
  /\ registry \subseteq Series
  /\ \A s \in status : s.value \in {0, 1}
  /\ versionInfo \subseteq {"number", "unavailable"}
  /\ \A i \in DOMAIN cfg.include :
       /\ fetched[i].result \in {"none", "ok", "failed", "mistyped"}
       /\ DOMAIN fetched[i].reports \subseteq Stanza
  /\ budget \in [changes: 0..MaxRevision, failures: 0..MaxFailures,
                 restarts: 0..MaxRestarts]

\* Without its value, which for the databases depends on later calls.
Shown == {<<s.family, s.stanza, s.revision>> : s \in registry}

\* What the metrics should be after the fetches of a cycle: for every report of a
\* stanza that is not excluded, all its families.
Expected ==
  UNION {UNION {{<<family, stanza, fetched[i].reports[stanza].revision>> :
                   family \in FamiliesOf(fetched[i].reports[stanza])} :
                stanza \in {s \in DOMAIN fetched[i].reports : ~stanzaInExclude(s)}} :
         i \in DOMAIN cfg.include}

ExpectedStatus ==
  {[label |-> StatusLabel(cfg.include[i]),
    value |-> IF fetched[i].result = "ok" THEN 1 ELSE 0] : i \in DOMAIN cfg.include}

BetweenCycles == {"sleep", "version reset", "version exec", "start"}

\* An excluded stanza has no metrics at any moment (README: the exclude list has
\* the higher priority), nor has one that is not on the include list, unless an
\* empty entry there stands for all.
OnlySelectedStanzasShown ==
  \A s \in registry :
    /\ \A i \in DOMAIN cfg.exclude : cfg.exclude[i] # s.stanza
    /\ \E i \in DOMAIN cfg.include : cfg.include[i] \in {NoStanza, s.stanza}

\* At no moment, in the middle of a reset or of a publication either, do series of
\* one stanza come from two different reports.
OneReportPerStanza ==
  \A s, t \in registry : s.stanza = t.stanza => s.revision = t.revision

\* Between two cycles the metrics are those of the fetches of the last one,
\* complete and nothing else: what an earlier cycle left is gone, also when the
\* fetch failed and delivered nothing or was only partly readable.
PublicationExact ==
  pc \in BetweenCycles => Shown = Expected

\* GetPgBackRestInfo resets late when no stanza is named, "because this operation
\* can be long": while `pgbackrest info' runs the last publication is still
\* served in full.
ServedWhileFetching ==
  ~NonEmpty(cfg.include) /\ pc \in {"include", "info exec"} => Shown = Expected

\* The exporter status is reset last and set first: in no state do metrics of a
\* stanza stand without a status of its entry.  (Of single states: a response
\* gathered vector by vector may mix several.)
DataHasStatus ==
  \A s \in registry : \E t \in status :
    t.label \in {s.stanza, StatusLabel(NoStanza)}

\* Between two cycles the status of a list entry is 1 iff its call and the parse
\* succeeded, and an excluded entry reports 0; before the first cycle, and with
\* the collector off, there is no status.
StatusExact ==
  pc \in BetweenCycles =>
    \/ status = ExpectedStatus /\ cfg.collector
    \/ status = {} /\ fetched = NoFetches

\* The loop goes round for ever, every function called for a stanza returning: the
\* database counts of its backups do if database-parallel-processes is at least 1
\* (module DBCountPool).  And ...
CyclesForever == []<>(pc = "sleep")

\* ... once the repository stops changing, calls stop failing and the process stays
\* up (the bounds are used up), what is served settles on the repository's state.
Current ==
  /\ \A s \in status : s.value = 1 \/ (s.label \in Stanza /\ stanzaInExclude(s.label))
  /\ \A s \in registry : s.revision = repository[s.stanza].revision
  /\ \A s \in Stanza :
       (\E t \in registry : t.stanza = s) <=>
         /\ ~stanzaInExclude(s)
         /\ IF resetMetricsAfterFetch THEN Present(s)
            ELSE \E i \in DOMAIN cfg.include : cfg.include[i] = s

Settles == <>[](cfg.collector /\ pc = "sleep" => Current)

-----------------------------------------------------------------------------
\* Claims of the documentation and the comments the code does not keep.

\* README.md, "Exporter metrics", 1: information successfully fetched from
\* pgBackRest.
StatusOneMeansFetched ==
  pc = "sleep" /\ (\A s \in status : s.value = 1) =>
    \A s \in registry : s.value = "reported"

\* backrest_exporter.go, GetPgBackRestInfo: "If stanza not set - checking for entry
\* into the exclude list will be performed later", so such an entry is fetched.
EmptyEntryIsFetched ==
  pc = "sleep" /\ cfg.collector /\ resetMetricsAfterFetch => fetched[1].result # "none"
=============================================================================
