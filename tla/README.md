# A TLA+ model of pgbackrest_exporter

pgbackrest_exporter runs `pgbackrest info` in a loop and publishes what it reports as
Prometheus metrics. This directory models the parts of it where order, interleaving,
failure or selection decide what a scrape sees, model-checks them with TLC and proves the
central results with TLAPS. The code modelled is `src/pgbackrest_exporter.go` and
`src/backrest/*.go`; `PROJECT.json` maps every modelling definition to its lines.

## The system

| Part | State | Operations | Hard because |
|---|---|---|---|
| main loop (`pgbackrest_exporter.go`) | flags, fixed at the start | version, info, sleep, for ever; exit on a signal | killed at any point, restarted with nothing remembered |
| collection cycle (`GetPgBackRestInfo`) | none between calls; all it leaves is in the registry | loop over the include list: call, parse, reset, status, then every stanza of the reply | two exclude tests, two reset modes, failing and half-readable replies |
| exporter status, version | one gauge vector each | set, reset | must describe the fetch the other metrics come from |
| backup metrics (`getBackupMetrics`, `compareLastBackups`) | three slots full/diff/incr | one walk over the list | list is not in time order, times tie or are absent, 13 fields per slot copied one by one |
| last-backup metrics (`getBackupLastMetrics`) | - | publish the three slots | only the full slot is tested before all three are used |
| database counts per backup (`getBackupDBCountMetrics`) | semaphore channel, WaitGroup, goroutines | one `pgbackrest info --set` per backup | concurrency with a bound, return only when all is done |
| database counts of the last backups (`getBackupLastDBCountMetrics`) | goroutines, a WaitGroup nobody waits on | up to three `--set` calls | goroutines outlive the call and meet the next cycle's reset |
| stanza, repository, WAL metrics; converters | - | values and labels of one report | optional fields; numbers unique only per repository; label values matched to names by position |
| pgBackRest call and parse (`backrest_parser.go`) | - | argument list, `cmd.Run`, `json.Unmarshal` | one function for two kinds of call; no timeout; a reply may be missing, no JSON, or mistyped in part |
| registry and `GaugeVec` (vendored) | children per label set | get-or-create, set, reset, gather | set is two steps; a child looked up before a reset is orphaned by it |
| web endpoint (`StartPromEndpoint`) | - | serves scrapes from its own goroutines | a scrape runs between any two steps of the collector |

The parts interact by calls on the collector's one goroutine, except for the goroutines of
the two database counts and the scrapes, which share the gauge vectors with it.

## Modules

* **BackupMetrics** - `getBackupMetrics`, `compareLastBackups` and `getBackupLastMetrics` for
  one stanza. `ProcessBackup` is one loop iteration (series and slots), `ReturnLastBackups`
  the end of the loop with the caller's test for a full backup, `SetLast` one iteration of
  the publication. The list, the clock and the flag reference-count are constants' values.
  **LastBackupRule** is the abstract specification: the README's rule which backup a `last`
  metric shows, without slots or walk. BackupMetrics refines it (`ImplementsRule`).
* **DBCountPool** - `getBackupDBCountMetrics`. `Acquire`, `Spawn`, `RangeEnd`, `Return` are
  the caller; `Fetch`, `SetMetric`, `Done`, `Release` a goroutine. The two deferred calls are
  two steps. **DBCountBatch** is what the caller may rely on; the pool refines it
  (`ImplementsBatch`).
* **LatestDBCount** - `getBackupLastDBCountMetrics` over several cycles, on the one metric it
  writes. `setUpMetricValue` is two steps, `Get` and `Set`; `generation` counts resets and a
  store through a child of an older generation reaches nobody.
* **Collector** - the main loop with version metrics, include and exclude lists, both reset
  modes, failing calls, status, and one step per metric function and stanza. Repository
  changes, failures and restarts come at any moment. A report carries a revision, so a
  series shows which report it came from.
* **Exporter** - the process: Collector's main loop (extended, not copied) beside the goroutines
  of `getBackupLastDBCountMetrics`, the web server's start and its scrapes, exits and restarts.
  `MainStep` is a step of Collector with the clock read on entry of `GetPgBackRestInfo` and
  the call of `getBackupLastDBCountMetrics` as the last of a stanza's functions; while that
  call runs (`Spawn`, `SetLatest`) the loop waits, while its goroutines run (`WorkerSets`) it
  does not. A store replaces the value of the series with the same `backup_type`, `stanza` and
  `block_incr` (`LabelsOf`, `Stored`), so a late goroutine may put an earlier report's count over
  a newer one; the value kept is the revision of the report the count is of. Which types have a
  backup of their own, and under which `block_incr`, is a constant per report (`LastBackups`).
  The code starts a goroutine whenever the labels differ; the model's call waits until one of
  `MaxWorkers` is free, which is a bound of the model. `Scrape` is one vector's turn of a
  gather, the last databases included. Logical time counts the repository's changes. The counts
  themselves and the two steps of a store are left to LatestDBCount.
* **StanzaMetrics** - what the fields of a reply turn into: the arguments of every pgBackRest
  call, the converters, the declared label names of all vectors but
  `pgbackrest_backup_last_databases` and exporter status, and one action per metric
  function with the label values and values it stores. What is stored for an element of a
  reply is a function of its stanza and the element (`StanzaSeries`, `RepoSeries`, `WALSeries`,
  `BackupSeries`, `LastSeriesOf`), the loops say when. A vector is named by two strings, its
  group and its name (`Declared[group][name]`). Which backups the `last` vectors show is taken
  from LastBackupRule, which BackupMetrics implements.
* **BackupMetrics_proofs**, **DBCountPool_proofs**, **LatestDBCount_proofs** - theorems about
  these modules. **Collector_proofs** has the types and the selection of the collector,
  **Publication_proofs** extends it with what is published, **Exporter_proofs** extends that
  with the process. **StanzaMetrics_proofs** has the arguments, the types and the label sets of
  StanzaMetrics, **StanzaLabels_proofs** extends it with what the labels tell apart.
* **MC_...** - instances for TLC.

Definitions whose comment begins with "Defect:" are not part of a specification. Each is a
one-fault variant of the definition that follows it; with the variant in its place the
property named in `PROJECT.json` ("mutants") fails, which shows what the property guards.

How the modules fit together: each abstracts what another has in detail. Collector knows of
a report only its revision and what kinds of backups it has; StanzaMetrics has the fields, and
no interleaving; BackupMetrics has the selection that StanzaMetrics takes by its rule;
DBCountPool shows that one of Collector's steps, the database counts of a stanza, is a batch
although it is concurrent (DBCountBatch); LatestDBCount shows in detail what happens around
one vector when goroutines outlive the call, and Exporter what that means for the whole.

A scrape only reads, so an invariant of every state says what a gather of one vector sees.
A response is gathered vector by vector while the loop goes on, so it may mix two
publications: `DataHasStatus`, `OneReportPerStanza` and `PublicationExact` are about single
states. They are also about what the main loop publishes itself (`registry`); the last
databases, which goroutines set, are a vector of their own, and late goroutines do break what
these three say of the others. For that vector there are `LatestHasStatus` and
`LatestNeverMissing`, which say what a late goroutine may and may not do to it. What
holds across the vectors of a response, and of all responses, is that they never go back in
time (`ScrapesNeverGoBack`), again but for a differential or incremental count that a goroutine
alive at the last reset may have set (`Undisturbed` leaves these out).

## Runs

| Run | Instance | Shows |
|---|---|---|
| `backup_walk` | lists of up to 3 backups at fixed labels and repositories (two share a label across repositories), every type, both block_incr values, stop times 0..2 in any order along the list, both clocks; of these, those with a full backup that is no later than any other, or of one type only | the slots hold the latest eligible backup, ties and absent times included; one series per backup; `last` series all or none; the README rule |
| `db_pool` | 4 backups, 2 slots | bound, token and WaitGroup accounting, completeness, no late write, return, no leak, refinement |
| `latest_db` | 2 cycles, slots moving to a new full, to a differential backup or after an expiry; failing fetches | what survives the missing wait: the full series is always right, a cycle that no earlier goroutine disturbs shows and completes exactly its slots |
| `collector` | 2 stanzas, 5 command lines, 2 repository changes, 1 failure, 1 restart | selection, exact publication, one report per stanza at any moment, status; the loop never stops; the metrics settle |
| `exporter` | 1 stanza, 3 command lines, 1 change, 1 failure, 1 restart, 2 goroutines | scrapes never go back, nor do the last databases stand without a status, but for what a late goroutine has set; between cycles every last backup has its series, the full one's with the right count; a cycle no goroutine disturbs is exact; after the last change and failure no goroutine of the past shows up again and no age is negative |
| `report` | 10 replies (none; old, new, busy and empty stanzas, alone or beside a second), every pair in two cycles, 4 command lines, 1 failure | arguments say what the call is for; every archive, repository and backup has its own series; every label says under its name what the entry has there, the version included; no label set comes or goes with an optional field |
| `pool_zero` (fails) | parallelism 0 | the call never returns |
| `latest_stale` (fails) | as `latest_db`, no failures | two series of one type after an overtaken cycle |
| `latest_incr` (fails) | same | incr takes full's count instead of diff's |
| `status_one` (fails) | one failing `--set` call | status 1 although a fetch failed |
| `empty_entry` (fails) | exclude list `"", demo` | nothing is collected |
| `negative_age` (fails) | as `exporter`, no failures | a backup that completes during the call has a negative age |

The failing runs each check one statement of the README, a comment or a test that the code
does not keep; `PROJECT.json` quotes it under "findings". Smaller divergences without a run:
a late goroutine whose series has the `block_incr` of the new one replaces the newer count, so
that `pgbackrest_backup_last_databases` is not of the last backup (README.md:57) although
there is one series per type, which is the quieter half of `latest_stale`;
README.md:240 says the exclude flag makes the status label `all-stanzas-except-excluded`,
which holds only without an include list, as README.md:97 says; and a scrape between
`GetMetricWithLabelValues` and `Set` sees a status of 0 for a fetch that succeeded.

### Bounds

Three backups are enough for every case of `compareLastBackups` to meet a slot that is
empty, older, equal or newer and filled by each type before it; the proofs lift the
bound. Four workers for two slots make the loop block twice and hand a token on while the
other worker runs. Two cycles of LatestDBCount are the least in which a goroutine can be
overtaken, and an overtaking by more than one cycle differs only in the generation number,
which is only compared for equality. In Collector (`MaxRevision`, `MaxFailures`,
`MaxRestarts`) two stanzas let a filter keep one and drop the other; two changes let a report be
overtaken during the call and again during publication, and one failure and one
restart may hit any step. In Exporter stanzas share no series, so one is enough there; with
two goroutines (`MaxWorkers`) both of one call may be overtaken, or one of either call; when
both are taken the model's call waits for one to end, where the code would start a third, and
the theorems hold for any number. The two reports (`LastBackups`) are three backups of their own
and then a new full one with an incremental one on it: a goroutine of the first report meets
equal labels for the differential series and other ones for the incremental. StanzaMetrics needs two cycles (`MaxCycles`) to compare one with the next, and two
stanzas that number and name everything alike to let label sets collide. Each bound is a
constant; nothing else caps the state.

### Fairness

The Go scheduler runs every runnable goroutine: weak fairness of the caller and of each
worker, and of the main loop as a whole; in Exporter also of `Start`, because the service
unit says `Restart=always` (`pgbackrest_exporter.service.template`). `Fetch` and `Info` are among these actions, so every
pgBackRest process is assumed to exit; the code sets no timeout, and with a process that
hangs the loop hangs too. Nothing is assumed of repository changes, failures or restarts.
`CyclesForever` takes for granted that each metric function returns, which needs
database-parallel-processes to be at least 1: `db_pool` checks the return of
`getBackupDBCountMetrics` with 2 slots, and `pool_zero` shows that with 0 it does not return.
`Settles` and `SettlesWithGoroutines` speak of behaviours after the last of them, since the bounds exhaust them.

## Proofs

Every invariant and action property of the passing runs is a theorem; `tlapm` checks every
leaf, with SMT, Zenon and LS4 as backends. No bound of an instance is assumed. What is assumed:

* in the modules (`ASSUME`, evaluated by TLC on every instance): types of the constants, and
  what pgBackRest guarantees of a reply. A label names one backup of a repository
  (`LabelsAssumption`, needed only for `OwnSeries` and `LastAgrees`; `NumbersAssumption` of
  StanzaMetrics, which says the same of repository keys and archive ids), stanza names differ
  and neither they nor labels are empty (`NamesAssumption`), no backup ends before it starts
  (`TimesAssumption`). `SlotsAssumption` of LatestDBCount is what compareLastBackups hands over:
  the theorem `HandedOver` of BackupMetrics_proofs.
* as a hypothesis of a theorem, where the code does not see to it:
  `EachNamedOnce` (the include list names a stanza once, and the empty entry stands alone) in
  Publication_proofs and Exporter_proofs. It is needed: a stanza named twice is fetched twice and
  reset once, and two of its reports then stand side by side.
  `LabelsTellType` (pgBackRest writes a backup's type into its label) for `HandedOver`.
  `ItoaInjective` (two numbers have two decimal spellings) for `EveryEntry`: the model's
  `Itoa` is TLC's `ToString`, of which the provers know nothing.

* **DBCountPool_proofs.** The inductive invariant `IInv` adds to the type invariant the
  token and WaitGroup accounting, which worker has been started in terms of `next`, and what
  each stage of a worker says of its value and series. Accounting alone is not inductive:
  `Spawn` needs that the next worker is not yet started, or the set of token holders would
  not grow by one. From `wg = 0` and the accounting it follows that all started workers have
  set their series: `Completeness`, then `NoLateWrite`, and `PoolImplementsBatch`, in which
  only `SetMetric` and `Return` are visible.
* **BackupMetrics_proofs.** `IInv` is the type invariant, `SlotsHoldLatest` and the order of
  the publication: which types are published at each pc, with the slots' own labels and
  values. `SlotsHoldLatest` is itself inductive once `Eligible` of one more position is
  rewritten (`EligibleExtends`, `CompareKeepsLatest`). That a slot is never older than one
  that listens to fewer types (`FallbackNotOlder`) gives `Ordered`, and that a full backup
  fills all slots (`FullFillsAll`), hence `AllOrNone` and `LastAgrees`. `WalkImplementsRule`
  shows the slot's backup to be in `Selected` of the rule (`LatestIsSelected`).
* **Collector_proofs.** `TypeCorrect` and `OnlySelected`, for every command line, order of
  replies, failure, change and restart. `OnlySelectedStanzasShown` says nothing of the loop's
  variables, so it is not inductive: `IInv` adds `Progress` (`at` is on the include list while an
  entry is worked on, what is in `todo` and the stanza being published are of the reply for that
  entry, and the latter is not excluded) and `Replied` (a reply for a named stanza is of no
  other stanza). `Progress` is why stanzas left over from one entry cannot reach the next.

* **LatestDBCount_proofs.** Goroutines of any number of earlier cycles are alive, so nothing
  follows from what the call itself has done. `IInv` says who may write what: a cycle starts a
  goroutine for exactly the types with a backup of their own, and on that backup (`Started`);
  whoever holds a child of the present generation finds its series in the metric
  (`ChildrenLive`); only the call writes the full backup's series (`FullOnlyByCall`); if the
  cycle is clean, no goroutine of an earlier one is alive (`CleanMeansAlone`), and what its own
  goroutines have fetched is what they show (`CountsFetched`). `FullShown` and `FetchedOnce`
  hold in every cycle, the other two need a clean one, which is what the missing wait costs.
* **Publication_proofs.** What the metrics should be is said for every control point: `Due`
  tells which families of which entry's report should be there while resets are half done, an
  entry is being published, or a stanza is, and `Published` that these and no others are.
  `PublicationExact`, `OneReportPerStanza` and `ServedWhileFetching` are cases of it.
  `StatusSoFar` does the same for the status. They rest on `Loop`: what is still in `todo`
  (`TodoExact`), that an excluded entry is not fetched, that `success` is the fetch's result.
  `LInv`, without `Published`, holds for every command line and gives `DataHaveStatus`;
  `PInv` adds `EachNamedOnce`, and gives the rest.
* **Exporter_proofs.** Every step of the process is a step of the collector or leaves its
  variables alone (`ExporterStepIsStep`). So the process implements the collector
  (`ExporterImplementsCollector`), and `LInv` and `PInv` hold of it without a new proof.
  `EInv` adds the types of the call, the goroutines, the clock and the scrapes. Three more
  invariants are kept step by step (`ProcessInv` has them all). For `NeverBack`: a reply in hand
  is at least as new as every series it will stand beside or replace (`FreshRevisions`), where
  the series of an overtaken goroutine do not count (`Firm`). For `NeverMissing`: for each slot
  whose count is due a series with its labels is there, in the hands of a goroutine, or still to
  be set by the call (`Complete`), and, if no goroutine was alive at the reset, there is nothing
  else (`Sound`). For `LatestHaveStatus`: what is `Firm` has the status of its entry
  (`FirmHasStatus`); the reset empties this vector first, and only a late goroutine sets it
  before the status is back.
* **StanzaMetrics_proofs.** `Place` says where the nested loops are. `Arguments` follows from
  `BuiltFor` (the command line is the one built for what the call is for) and lemmas on `Arg`:
  it appends a pair or nothing, and never an option the line has. `Exact` says that the label
  sets in the vectors are those of the elements published so far, of this reply and no other,
  at every step; with `BeforeWhole`, the same of the cycle before, it gives
  `NothingFlaps` once replies of one shape are shown to give the same label sets, list by list
  (`SameShapeSameKeys`). `TypeCorrect` needs `FromReply`: every series comes from the version
  call or from an element of the reply, by the function of its phase; then its labels have the
  declared names and an absent field has become a number.
* **StanzaLabels_proofs.** A label set has one value (`OneValue`), so counting series is
  counting label sets: by `Exact` each element has one, and elements with one label set are the
  same element (`CommonTells`, from the assumptions on numbers and labels). `Counted` builds
  the bijection, `EveryEntry` is its three cases and the join. `ByName` takes each
  series by `FromReply` back to its element and reads its labels by name, position by position;
  the version comes from `getPGVersion`, the first database of that id and repository.

Only model-checked are the liveness properties (`Returns`, `NoLeak`, `CallReturns`,
`WorkersExit`, `CyclesForever`, `Settles`, `SettlesWithGoroutines`) and the fair parts of the two
refinements: they speak of fairness, hence of ENABLED, which is out of the prover's reach.

## Not modelled

* Flag parsing, logging, the HTTP server with its TLS and landing page, build and packaging:
  they leave no state the collector reads.
* `json.Unmarshal` and `exec`: their outcomes are (data, nothing, data with an error).
* A pgBackRest process that never exits (`backrest_parser.go:137` sets no timeout). The
  liveness properties assume that it does.
* A bound on the goroutines of `getBackupLastDBCountMetrics`: the code has none, so that
  they may pile up is listed as a hazard, not checked.
* An include list that names a stanza twice. The second fetch then publishes beside the
  first, and `OneReportPerStanza` does not hold; the command lines of the instances name
  each stanza once, and the theorems that need it say so (`EachNamedOnce`).
* Widths: sizes are int64 in the reply and float64 in the metric, exact below 2^53 bytes.
* Time zones: start and stop time labels are formatted in local time; a number stands for each.

## Plan

Done, core first: BackupMetrics, DBCountPool, LatestDBCount, Collector, their instances and
the first proofs; then Exporter (scrapes, the clock and the goroutines beside the loop)
and StanzaMetrics (labels, values and arguments), then the proofs of every invariant. Left:

1. An abstract publication specification for Collector (fetch, then publish all or keep) and
   its refinement, from `Published`.
2. A relation between LatestDBCount and Exporter: that the latter's `SetLatest` and
   `WorkerSets` are what the former's steps amount to.
