------------------------------- MODULE Exporter -------------------------------
(***************************************************************************)
(* The whole process: the main loop of module Collector together with what *)
(* runs beside it.                                                         *)
(*   - getBackupLastDBCountMetrics (flag database-count-latest) starts     *)
(*     goroutines that outlive their cycle.                                *)
(*   - The web server's goroutines answer scrapes, which read one vector   *)
(*     after another while the loop resets and sets them.                  *)
(*   - The signal handler and a failing web server end the process at any  *)
(*     moment, and the service manager starts it again.                    *)
(* Logical time is the number of repository changes so far, so a report of *)
(* revision r was current from time r on, and a backup in it has completed *)
(* by then.                                                                *)
(*                                                                         *)
(* A series of the last databases has the labels of the source, and the    *)
(* revision in it is its value: it tells which report's backup the count   *)
(* is of.  The counts themselves and the two steps of a store are module   *)
(* LatestDBCount's.                                                        *)
(***************************************************************************)
EXTENDS Collector

CONSTANTS
  MaxWorkers,  \* bound: goroutines of getBackupLastDBCountMetrics alive
  LastBackups  \* what getBackupMetrics returns for a revision of a stanza

Types == {"full", "diff", "incr"}
Slot  == [label: STRING, blockIncr: {"y", "n"}]

ASSUME WorkersAssumption     == MaxWorkers \in Nat \ {0}
ASSUME LastBackupsAssumption == LastBackups \in [Stanza \X Revision -> [Types -> Slot]]

VARIABLES
  process,          \* "down", "starting" or "listening"
  currentUnixTime,  \* the cycle's clock
  call,             \* the stanza getBackupLastDBCountMetrics runs for
  worker,           \* its goroutines
  lastDatabases,    \* pgbackrest_backup_last_databases: labels and value
  clean,            \* history: no goroutine was alive at the last reset
  newest            \* history: the newest revision scrapes have got per stanza

beside == <<process, currentUnixTime, call, worker, lastDatabases, clean, newest>>
allVars == <<vars, beside>>

now == MaxRevision - budget.changes

Workers == 1..MaxWorkers
NoCall  == [at |-> "none", stanza |-> NoStanza, revision |-> 0]
Idle    == [stanza |-> NoStanza, type |-> "full", blockIncr |-> "n", revision |-> 0]
AllIdle == \A w \in Workers : worker[w] = Idle

LatestSeries(stanza, type, revision) ==
  [stanza |-> stanza, type |-> type,
   blockIncr |-> LastBackups[<<stanza, revision>>][type].blockIncr, revision |-> revision]

\* backup_type, stanza, block_incr.
LabelsOf(x) == [stanza |-> x.stanza, type |-> x.type, blockIncr |-> x.blockIncr]

\* A store replaces the value of a series with equal labels, whoever has set it.
Stored(new) ==
  {x \in lastDatabases : \A y \in new : LabelsOf(x) # LabelsOf(y)} \cup new

\* The types whose last backup is not that of the type before.
Own(stanza, revision) ==
  LET last == LastBackups[<<stanza, revision>>]
  IN  {type \in {"diff", "incr"} :
         last[type].label # last[IF type = "diff" THEN "full" ELSE "diff"].label}

-----------------------------------------------------------------------------
StartedUp ==
  /\ Init
  /\ process = "starting" /\ currentUnixTime = 0
  /\ call = NoCall /\ worker = [w \in Workers |-> Idle]
  /\ lastDatabases = {} /\ clean = TRUE
  /\ newest = [s \in Stanza |-> 0]

\* Defect: the vector of the last databases is missing from resetLastBackupMetrics.
ResetForgetsLatest ==
  IF pc = "reset" /\ ResetOrder[step] = "last"
  THEN lastDatabases' = lastDatabases /\ clean' = AllIdle
  ELSE UNCHANGED <<lastDatabases, clean>>

\* resetLastBackupMetrics empties this vector too, and leaves the goroutines alone.
ResetLatest ==
  IF pc = "reset" /\ ResetOrder[step] = "last"
  THEN lastDatabases' = {} /\ clean' = AllIdle
  ELSE UNCHANGED <<lastDatabases, clean>>

\* The last function called for a stanza, if the slot full is not empty.
CallLatest ==
  call' = IF /\ pc = "families" /\ step = Len(SetOrder) /\ cfg.backupDBCountLatest
             /\ fetched[at].reports[current].backups = "full"
          THEN [at |-> "diff", stanza |-> current,
                revision |-> fetched[at].reports[current].revision]
          ELSE NoCall

\* Defect: getBackupLastDBCountMetrics is called with `go'.
MainStepDoesNotWait ==
  /\ process # "down"
  /\ Collect
  /\ currentUnixTime' = IF pc = "start" THEN now ELSE currentUnixTime
  /\ ResetLatest
  /\ IF call = NoCall THEN CallLatest ELSE UNCHANGED call
  /\ UNCHANGED <<process, worker, newest>>

\* A step of the main loop.  GetPgBackRestInfo reads the clock when it is entered.
MainStep ==
  /\ process # "down" /\ call = NoCall
  /\ Collect
  /\ currentUnixTime' = IF pc = "start" THEN now ELSE currentUnixTime
  /\ ResetLatest
  /\ CallLatest
  /\ UNCHANGED <<process, worker, newest>>

\* A type with a backup of its own gets a goroutine.  The code starts one always;
\* here the call waits until one of the MaxWorkers is free.
Spawn(type, then) ==
  /\ call.at = type
  /\ call' = [call EXCEPT !.at = then]
  /\ IF type \in Own(call.stanza, call.revision)
     THEN \E w \in Workers :
            /\ worker[w] = Idle
            /\ \A v \in Workers : worker[v] = Idle => w <= v
            /\ worker' = [worker EXCEPT ![w] =
                            LatestSeries(call.stanza, type, call.revision)]
     ELSE UNCHANGED worker
  /\ UNCHANGED <<vars, process, currentUnixTime, lastDatabases, clean, newest>>

\* Defect: only the full backup's series is set.
SetFullOnly ==
  /\ call.at = "full"
  /\ lastDatabases' = Stored({LatestSeries(call.stanza, "full", call.revision)})
  /\ call' = NoCall
  /\ UNCHANGED <<vars, process, currentUnixTime, worker, clean, newest>>

\* The call fetches the full backup, sets the series of the types that have no
\* goroutine and returns.
SetLatest ==
  /\ call.at = "full"
  /\ lastDatabases' = Stored({LatestSeries(call.stanza, type, call.revision) :
                                type \in Types \ Own(call.stanza, call.revision)})
  /\ call' = NoCall
  /\ UNCHANGED <<vars, process, currentUnixTime, worker, clean, newest>>

getBackupLastDBCountMetrics == Spawn("diff", "incr") \/ Spawn("incr", "full") \/ SetLatest

\* A goroutine's pgBackRest call ends, well or not, and its series is set.
WorkerSets(w) ==
  /\ worker[w] # Idle
  /\ lastDatabases' = Stored({worker[w]})
  /\ worker' = [worker EXCEPT ![w] = Idle]
  /\ UNCHANGED <<vars, process, currentUnixTime, call, clean, newest>>

-----------------------------------------------------------------------------
\* A signal, a crash, or web.ListenAndServe failed: all goroutines are gone, ...
Exit ==
  /\ process # "down"
  /\ Restart
  /\ process' = "down" /\ currentUnixTime' = 0
  /\ call' = NoCall /\ worker' = [w \in Workers |-> Idle]
  /\ lastDatabases' = {} /\ clean' = TRUE
  /\ UNCHANGED newest

\* ... and systemd (Restart=always) or docker starts the exporter again.
Start ==
  /\ process = "down"
  /\ process' = "starting"
  /\ UNCHANGED <<vars, currentUnixTime, call, worker, lastDatabases, clean, newest>>

\* The web server's goroutine has the port; the main loop has not waited for it.
Listen ==
  /\ process = "starting"
  /\ process' = "listening"
  /\ UNCHANGED <<vars, currentUnixTime, call, worker, lastDatabases, clean, newest>>

Vectors == Families \cup {"last databases"}

Read(vector) ==
  IF vector = "last databases" THEN lastDatabases
  ELSE {x \in registry : x.family = vector}

\* A scrape gathers the vectors in any order; this is one vector's turn.
Scrape(vector) ==
  /\ process = "listening"
  /\ newest' = [s \in Stanza |->
       LET got == {x.revision : x \in {y \in Read(vector) : y.stanza = s}}
       IN  CHOOSE r \in got \cup {newest[s]} : \A q \in got \cup {newest[s]} : q <= r]
  /\ UNCHANGED <<vars, process, currentUnixTime, call, worker, lastDatabases, clean>>

RepositoryChanges == (\E s \in Stanza : Change(s)) /\ UNCHANGED beside

MainGoroutine == MainStep \/ getBackupLastDBCountMetrics

ExporterNext ==
  \/ MainGoroutine
  \/ \E w \in Workers : WorkerSets(w)
  \/ Exit \/ Start \/ Listen
  \/ \E vector \in Vectors : Scrape(vector)
  \/ RepositoryChanges

\* Every goroutine that can run does, pgBackRest processes exit, and the service
\* manager restarts the exporter.  Scrapes, changes and exits need not happen.
ExporterSpec ==
  /\ StartedUp /\ [][ExporterNext]_allVars
  /\ WF_allVars(MainGoroutine) /\ WF_allVars(Start)
  /\ \A w \in Workers : WF_allVars(WorkerSets(w))

-----------------------------------------------------------------------------
LateSeries == {LatestSeries(s, type, r) : s \in Stanza, type \in Types, r \in Revision}

ExporterTypeOK ==
  /\ TypeOK
  /\ process \in {"down", "starting", "listening"}
  /\ currentUnixTime \in 0..now
  /\ call.at \in {"none", "diff", "incr", "full"}
  /\ call = NoCall \/ (pc = "stanza" /\ call.stanza \in Stanza /\ call.revision \in Revision)
  /\ \A w \in Workers : worker[w] = Idle \/ worker[w] \in LateSeries
  /\ lastDatabases \subseteq LateSeries
  /\ clean \in BOOLEAN
  /\ newest \in [Stanza -> Revision]

\* The series of the last databases no goroutine of an earlier cycle can have set:
\* the full backup's, which the main loop sets, and all of them if none was alive
\* at the last reset.
Undisturbed == {x \in lastDatabases : clean \/ x.type = "full"}

\* What a scrape can read, but for a series an overtaken goroutine may have set, is
\* never older than what scrapes have read before, of the same vector or of
\* another, across resets, failed calls and restarts.  A response may mix two
\* publications, but goes forward through them.
ScrapesNeverGoBack ==
  \A x \in registry \cup Undisturbed : x.revision >= newest[x.stanza]

\* resetMetrics empties the last databases before the exporter status, so in no
\* state, the middle of a reset included, do they stand without the status of
\* their stanza's entry; again but for a series of an overtaken goroutine.
LatestHasStatus ==
  \A x \in Undisturbed : \E t \in status : t.label \in {x.stanza, StatusLabel(NoStanza)}

\* The stanzas of a reply whose last backups getBackupLastDBCountMetrics is for.
WithLatest(i) ==
  {s \in DOMAIN fetched[i].reports :
     cfg.backupDBCountLatest /\ ~stanzaInExclude(s) /\ fetched[i].reports[s].backups = "full"}

ExpectedLatest ==
  UNION {UNION {{LatestSeries(s, type, fetched[i].reports[s].revision) : type \in Types} :
                s \in WithLatest(i)} :
         i \in DOMAIN cfg.include}

\* Between two cycles and with its goroutines done, every type of every stanza with
\* a full backup has its series of the last databases, and the full backup's count
\* is that of the last report.  An overtaken goroutine may have put the count of
\* an earlier report into a differential or an incremental series, or left a
\* series with the other block_incr; a cycle whose reset met none is exact.
LatestNeverMissing ==
  pc \in BetweenCycles /\ AllIdle =>
    /\ {LabelsOf(x) : x \in ExpectedLatest} \subseteq {LabelsOf(x) : x \in lastDatabases}
    /\ \A x \in ExpectedLatest : x.type = "full" => x \in lastDatabases
    /\ clean => lastDatabases = ExpectedLatest

\* The loop goes round for ever beside its goroutines.  Once the repository stops
\* changing, calls stop failing and the process stays up (the bounds are used up),
\* what is served settles on the repository's state: no goroutine of the past
\* shows up again, and no backup has a negative age.
Settled ==
  /\ Current
  /\ \A s \in registry : s.family = "last" => s.revision <= currentUnixTime
  /\ lastDatabases \subseteq ExpectedLatest
  /\ AllIdle => lastDatabases = ExpectedLatest
SettlesWithGoroutines ==
  CyclesForever /\ <>[](cfg.collector /\ pc = "sleep" => Settled)

-----------------------------------------------------------------------------
\* README.md, "Last backup metrics": seconds since the last completed backup.  The
\* clock is read before `pgbackrest info' runs, so the claim fails for a backup
\* that completes in between.
AgeNotNegative ==
  \A s \in registry : s.family = "last" => currentUnixTime >= s.revision
=============================================================================
